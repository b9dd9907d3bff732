------------------------------- MODULE MCDht --------------------------------
(***************************************************************************)
(* Ids of two bits: the node is 00, its peers are 01, 10 and 11, a bucket  *)
(* has room for one of them.                                               *)
(***************************************************************************)
EXTENDS XBridgeDht

MCScenarios == {
    [does |-> {"table", "broken"},  peers |-> {1, 2, 3}, searches |-> 0],
    [does |-> {"search"},           peers |-> {1, 2, 3}, searches |-> 1],
    [does |-> {"search", "broken"}, peers |-> {2, 3},    searches |-> 2],
    [does |-> {"storage"},          peers |-> {1, 2},    searches |-> 0]}

\* The arithmetic of dht.cpp against its meaning, for all ids of IdBits bits.
ASSUME XorCmp ==
    \A a, b, ref \in Ids : Closer(a, b, ref) <=> Xor(a, ref) < Xor(b, ref)

ASSUME BucketIds ==
    \A s \in Subtrees :
        /\ BucketRandom(s[1], s[2]) = IdRange(s[1], s[2])
        /\ LET m == BucketMiddle(s[1], s[2]) IN
           IF Cardinality(IdRange(s[1], s[2])) = 1 THEN m = -1
           ELSE <<s[1], m>> \in Subtrees /\ <<m, s[2]>> \in Subtrees
=============================================================================
