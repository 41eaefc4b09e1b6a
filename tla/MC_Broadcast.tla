---------------------------- MODULE MC_Broadcast ----------------------------
(* Small instances of Broadcast.                                           *)
EXTENDS Broadcast, TLC

CONSTANTS c1, c2, i1, i2, loop1, loop2

Channels2 == {c1, c2}
Ids2 == {i1, i2}

TwoLoops == {loop1, loop2}

NoneOrOne == {<<>>, <<c2>>}
NothingExcluded == {<<>>}
AnyIds == SUBSET Ids2
=============================================================================
