-------------------------- MODULE MCStreamingIngest --------------------------
(***************************************************************************)
(* Five blocks with an output each.  The node knows the header of another  *)
(* block at height 1, and in some of the orders it has a block of an       *)
(* abandoned branch at height 1 or 2, or at height 3 the record of one     *)
(* whose data was removed.  Outputs 0, 1 and 2 share a shard, and 3 and 4  *)
(* do; output 1 is one to a public key.                                    *)
(***************************************************************************)
EXTENDS StreamingIngest

MCSibling == [height |-> 2, main |-> FALSE, valid |-> FALSE, data |-> TRUE]
MCStale == [MCSibling EXCEPT !.height = 1]
MCHeader == [height |-> 1, main |-> FALSE, valid |-> FALSE, data |-> FALSE]
MCPruned == [height |-> 3, main |-> FALSE, valid |-> TRUE, data |-> FALSE]
MCExtra == {MCStale, MCSibling, MCHeader, MCPruned}

MCOutput == 0 .. 4
MCShard == [o \in MCOutput |-> IF o < 3 THEN 0 ELSE 1]
MCCreates == [h \in 0 .. 4 |-> <<h>>]
MCSpends == [h \in 0 .. 4 |-> CASE h = 3 -> {0} [] h = 4 -> {1, 2, 3} [] OTHER -> {}]

MCUp == [i \in 1 .. 6 |-> IF i = 6 THEN MCHeader ELSE Main(i - 1)]
MCMixed == <<Main(3), Main(0), MCHeader, Main(4), Main(1), Main(2)>>

\* The abandoned block is met before, or after the one of the main chain.
MCWith(seq, i, e) == SubSeq(seq, 1, i) \o <<e>> \o SubSeq(seq, i + 1, 6)

\* MCStale is met before the scan has seen height 3, not before height 2.
MCOrders == {MCUp, MCMixed, MCWith(MCUp, 3, MCStale),
             MCWith(MCUp, 3, MCSibling), MCWith(MCMixed, 1, MCSibling), MCWith(MCMixed, 6, MCSibling),
             MCWith(MCMixed, 2, MCPruned)}

\* The instance is one the theorems about PERFORMS are about.
ASSUME MCAssumption == SpentAfterCreated /\ BatchHasRoom
=============================================================================
