----------------------------- MODULE MCBatchChunk -----------------------------
(***************************************************************************)
(* A trunk g a1 a2 a3 and a block b1 on g.  Each block has a coinbase; t1  *)
(* spends g's coinbase and is mined on both branches, t2 spends an output  *)
(* of t1, and t3 spends outputs of t1 and t2.  So a chunk spends outputs   *)
(* of its own, of the chunk before it, and of a chunk long evicted.        *)
(***************************************************************************)
EXTENDS BatchChunk

MCBlock == {"g", "a1", "a2", "a3", "b1"}

MCChains == {<<"g">>, <<"g", "a1">>, <<"g", "a1", "a2">>, <<"g", "a1", "a2", "a3">>,
             <<"g", "b1">>}

MCParent == [b \in MCBlock |->
  CASE b = "g" -> None [] b = "a2" -> "a1" [] b = "a3" -> "a2" [] OTHER -> "g"]

MCHeight == [b \in MCBlock |->
  CASE b = "g" -> 0 [] b = "a2" -> 2 [] b = "a3" -> 3 [] OTHER -> 1]

MCTx == {"cg", "ca", "cb", "t1", "t2", "t3"}

MCTxs == [b \in MCBlock |->
  CASE b = "g" -> {"cg"} [] b = "a1" -> {"ca", "t1"} [] b = "b1" -> {"cb", "t1"}
    [] b = "a2" -> {"t2"} [] b = "a3" -> {"t3"}]

\* Outputs: g, a and b of the coinbases, x and y of t1, z of t2.
MCOutput == {"g", "a", "b", "x", "y", "z"}

MCOuts == [t \in MCTx |->
  CASE t = "cg" -> {"g"} [] t = "ca" -> {"a"} [] t = "cb" -> {"b"}
    [] t = "t1" -> {"x", "y"} [] t = "t2" -> {"z"} [] t = "t3" -> {}]

MCIns == [t \in MCTx |->
  CASE t = "t1" -> {"g"} [] t = "t2" -> {"x"} [] t = "t3" -> {"y", "z"}
    [] OTHER -> {}]

MCShard == [o \in MCOutput |-> IF o \in {"x", "y", "z"} THEN 2 ELSE 1]

ASSUME SpendsOwn

\* A chunk creates at most three outputs in a shard: x, y and z, and a2 spends x.
ASSUME Capacity >= 3 <=> Roomy
ASSUME Capacity = 2 => \A k \in Output, t \in Tx : t \in {"t1", "t2", "t3"} /\ k \in Ins[t] =>
                         (Crowded(k, t) <=> k = "x" /\ t = "t2")

=============================================================================
