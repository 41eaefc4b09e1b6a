--------------------------- MODULE MC_ServerStart ---------------------------
(* Small instances of ServerStart.                                         *)
EXTENDS ServerStart, TLC

CONSTANTS c1, c2, c3, w1, w2

\* A channel for each of two loops.
Channels2 == {c1, c2}
OneEach == (c1 :> w1 @@ c2 :> w2)

\* Two channels of one loop and one of another: netty deals them out in turn.
Channels3 == {c1, c2, c3}
InTurn == (c1 :> w1 @@ c2 :> w2 @@ c3 :> w1)

\* The guide's own way: callbacks are added by a runner.
AsTheGuide == {"runner"}
=============================================================================
