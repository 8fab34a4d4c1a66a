------------------------------ MODULE MCLiveSync ------------------------------
(***************************************************************************)
(* Block trees for LiveSync: the trunk g a1 a2 a3, and branches that leave *)
(* it at height 0 (b) and at height 1 (c).  Branch and trunk have the same *)
(* or a greater length, so the node can switch either way more than once.  *)
(***************************************************************************)
EXTENDS LiveSync, SequencesExt

NonEmptyPrefixes(c) == Prefixes(c) \ {<<>>}

MCLine == NonEmptyPrefixes(<<"g", "a1", "a2", "a3", "a4">>)

MCFork == NonEmptyPrefixes(<<"g", "a1", "a2">>) \cup NonEmptyPrefixes(<<"g", "b1", "b2", "b3">>)

\* A branch that goes on past --max-height = 3.
MCLongFork == MCFork \cup NonEmptyPrefixes(<<"g", "b1", "b2", "b3", "b4">>)

MCTree == MCFork
            \cup NonEmptyPrefixes(<<"g", "a1", "a2", "a3", "a4">>)
            \cup NonEmptyPrefixes(<<"g", "a1", "c2", "c3">>)

MCBlock == UNION {Range(c) : c \in Chains}

MCHeight == [b \in MCBlock |->
  (CHOOSE i \in 1 .. 9 : \E c \in Chains : i \in DOMAIN c /\ c[i] = b) - 1]

MCParent == [b \in MCBlock |->
  LET c == CHOOSE s \in Chains : b \in Range(s)
      i == CHOOSE j \in DOMAIN c : c[j] = b
  IN IF i = 1 THEN None ELSE c[i - 1]]

=============================================================================
