------------------------- MODULE MC_SessionHandlers -------------------------
(* Small instances of SessionHandlers: values for its constants.           *)
EXTENDS SessionInvariants, TLC

CONSTANTS c1, c2, c3,               \* channels
          a1, a2,                   \* application threads
          i1, i2, i3,               \* the short texts of the channel ids
          alice, bob,               \* ids the application gives
          g1, room, hall,           \* a group id and group objects
          loop1, loop2

OneGid == {g1}

\* Every channel its own event loop, every session an id of its own.
Channels2 == {c1, c2}
App1 == {a1}
Procs2App1 == Channels2 \cup App1
AllIds == {i1, i2, alice}
ShortText2 == (c1 :> i1 @@ c2 :> i2)
OwnHookIds == (c1 :> {i1, alice} @@ c2 :> {i2})
TwoLoops == (c1 :> loop1 @@ c2 :> loop2)
OneLoop == (c1 :> loop1 @@ c2 :> loop1)
NoGroups == (g1 :> None)
RoomOpen == (g1 :> room)
NobodyJoinsGroups == [c \in Session |-> {}]
AllJoinGroups == [c \in Session |-> Gid]

\* Three channels.  The application gives the clients of c1 and c2, which share
\* an event loop, the same id (a user who connects twice); the client of c3
\* joins a group.
Channels3 == {c1, c2, c3}
Procs3App1 == Channels3 \cup App1
SharedIds == {i1, i2, i3, alice}
ShortText3 == (c1 :> i1 @@ c2 :> i2 @@ c3 :> i3)
SharedHookIds == (c1 :> {i1, alice} @@ c2 :> {alice} @@ c3 :> {i3})
SharersOneLoop == (c1 :> loop1 @@ c2 :> loop1 @@ c3 :> loop2)
OneJoins == (c1 :> {} @@ c2 :> {} @@ c3 :> {g1})

\* A user who logs in again, and no application.
NoApp == {}
AliceTwice == (c1 :> {alice} @@ c2 :> {alice})

\* One channel and an application thread.
Channel1 == {c1}
Procs1App1 == Channel1 \cup App1
OneShortText == (c1 :> i1)
OneHookIds == (c1 :> {i1, alice})
AliceIds == {i1, alice}
=============================================================================
