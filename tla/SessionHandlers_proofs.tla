----------------------- MODULE SessionHandlers_proofs -----------------------
(***************************************************************************)
(* What is proved of SessionHandlers for every application, for every set  *)
(* of channels, application threads, ids and groups: type correctness, the *)
(* properties of the ids.                                                  *)
(*                                                                         *)
(* TypeOK is not inductive by itself: a step of GroupSession uses          *)
(* arguments and returns to a label that the step's own label guarantees,  *)
(* which is ControlOK.                                                     *)
(***************************************************************************)
EXTENDS SessionInvariants, TLAPS

Labels == {"idle"} \cup Running \cup Ended

TypeInv == TypeOK /\ ControlOK

\* Thread p moves and no other does; the types and its arguments are right.
Moves(p) ==
    /\ TypeOK'
    /\ ControlAt(p)'
    /\ \A q \in Proc : q # p => pc'[q] = pc[q] /\ frame'[q] = frame[q]

\* The empty frame is a frame: there is an id and a group id to choose.
LEMMA NoFrameType == NoFrame \in Frame
<1>1. (CHOOSE i \in Id : TRUE) \in Id
  BY ManagerAssumption
<1>2. (CHOOSE g \in Gid : TRUE) \in Gid
  BY ManagerAssumption
<1> QED
  BY <1>1, <1>2, ManagerAssumption DEF NoFrame, Frame

\* A thread that moves leaves the control of the others as it is.
LEMMA OthersStay ==
  ASSUME TypeInv, NEW p \in Proc, Moves(p)
  PROVE  TypeInv'
  BY DEF Moves, TypeInv, ControlOK, ControlAt

\* A call moves one thread, and gives it the arguments f.
LEMMA CallMoves ==
  ASSUME pc \in [Proc -> Labels], frame \in [Proc -> Frame], NEW p \in Proc,
         NEW l \in Labels, NEW f \in Frame, Ready(l, f), Call(p, l, f)
  PROVE  /\ pc' \in [Proc -> Labels] /\ frame' \in [Proc -> Frame]
         /\ ControlAt(p)'
         /\ \A q \in Proc : q # p => pc'[q] = pc[q] /\ frame'[q] = frame[q]
  BY DEF Call, ControlAt

\* No step of the manager leaves the types.
LEMMA ManagerStepType ==
  ASSUME TypeInv, NEW p \in Proc, ManagerStep(p), UNCHANGED stage
  PROVE  TypeInv'
<1> USE DEF indexes, groups, groupVars, collections
<1> SUFFICES Moves(p)
  BY OthersStay
<1>0. TypeOK /\ ControlAt(p)
  BY DEF TypeInv, ControlOK
<1>1. CASE AddSession(p)
  BY <1>1, <1>0 DEF AddSession, PutSession, OnlyCollections, Moves, Goto,
      Ready, ControlAt, Putting, Taking, TypeOK, GroupTypeOK, ManagerTypeOK,
      Running, Ended, Frame
<1>2. CASE AddChannel(p)
  BY <1>2, <1>0 DEF AddChannel, PutChannel, OnlyCollections, Moves, Goto,
      Ready, ControlAt, Putting, Taking, TypeOK, GroupTypeOK, ManagerTypeOK,
      Running, Ended, Frame
<1>3. CASE AddChannelId(p)
  BY <1>3, <1>0 DEF AddChannelId, PutChannelId, OnlyCollections, Moves, Goto,
      Ready, ControlAt, Putting, Taking, TypeOK, GroupTypeOK, ManagerTypeOK,
      Running, Ended, Frame
<1>4. CASE TakeSession(p)
  <2> DEFINE s == groupSession[frame[p].grp][frame[p].key]
             l == IF s = None THEN frame[p].back ELSE "removeChannel"
             f == [frame[p] EXCEPT !.found = s]
  <2>1. frame[p] \in Frame /\ frame[p].key \in Id /\ frame[p].grp \in Group
    BY <1>0 DEF Frame, TypeOK, ManagerTypeOK
  <2>2. s \in Session \cup {None}
    BY <1>0, <2>1 DEF TypeOK, GroupTypeOK
  <2>3. f \in Frame
    BY <2>1, <2>2 DEF Frame
  <2>4. l \in Labels /\ Ready(l, f)
    BY <1>4, <1>0, <2>1, <2>2 DEF TakeSession, Goto, Frame, Labels, Running,
       Ended, Ready, ControlAt, Putting, Taking
  <2>5. Call(p, l, f)
    BY <1>4, <1>0 DEF TakeSession, Goto, Call, TypeOK, ManagerTypeOK
  <2>6. GroupTypeOK'
    BY <1>4, <1>0, <2>1 DEF TakeSession, RemoveSession, GroupTypeOK, TypeOK
  <2> HIDE DEF s, l, f
  <2> QED
    BY <1>4, <1>0, <2>3, <2>4, <2>5, <2>6, CallMoves DEF TakeSession, Moves,
       TypeOK, ManagerTypeOK, Labels
<1>5. CASE TakeChannel(p)
  BY <1>5, <1>0 DEF TakeChannel, RemoveChannel, OnlyCollections, Moves, Goto,
      Ready, ControlAt, Putting, Taking, TypeOK, GroupTypeOK, ManagerTypeOK,
      Running, Ended, Frame
<1>6. CASE TakeChannelId(p)
  BY <1>6, <1>0 DEF TakeChannelId, RemoveChannelId, OnlyCollections, Moves,
      Goto, Ready, ControlAt, Putting, Taking, TypeOK, GroupTypeOK,
      ManagerTypeOK, Running, Ended, Frame
<1>7. CASE CheckAbsent(p)
  <2>1. frame[p] \in Frame /\ frame[p].sess \in Session
    BY <1>7, <1>0 DEF CheckAbsent, TypeOK, ManagerTypeOK, Frame, ControlAt, Ready
  <2>2. GroupTypeOK'
    BY <1>7, <1>0 DEF CheckAbsent, TypeOK, GroupTypeOK
  <2>3. CASE onlineClient[idOf[frame[p].sess]] = None
    <3> DEFINE f == [frame[p] EXCEPT !.key = idOf[frame[p].sess],
                                     !.grp = online, !.back = "regIndex"]
    <3>1. f \in Frame
      BY <1>0, <2>1, ManagerAssumption DEF Frame, TypeOK, GroupTypeOK
    <3>2. Ready("putSession", f) /\ "putSession" \in Labels
      BY <2>1 DEF Ready, Frame, Putting, Taking, Labels, Running
    <3>3. Call(p, "putSession", f)
      BY <1>7, <2>3 DEF CheckAbsent
    <3> HIDE DEF f
    <3> QED
      BY <1>7, <1>0, <2>2, <3>1, <3>2, <3>3, CallMoves DEF CheckAbsent, Moves,
         TypeOK, ManagerTypeOK, Labels
  <2>4. CASE onlineClient[idOf[frame[p].sess]] # None
    BY <1>7, <1>0, <2>2, <2>4 DEF CheckAbsent, Moves, TypeOK, ManagerTypeOK,
       ControlAt, Ready, Putting, Taking, Ended
  <2> QED
    BY <2>3, <2>4
<1>8. CASE IndexChannel(p)
  BY <1>8, <1>0 DEF IndexChannel, Moves, Goto, Ready, ControlAt, Putting,
      Taking, TypeOK, GroupTypeOK, ManagerTypeOK, Running, Ended, Frame
<1>9. CASE Publish(p)
  BY <1>9, <1>0 DEF Publish, Moves, Goto, Ready, ControlAt, Putting, Taking,
      TypeOK, GroupTypeOK, ManagerTypeOK, Running, Ended, Frame
<1>10. CASE Unpublish(p)
  <2> DEFINE s == onlineClient[frame[p].key]
             f == [frame[p] EXCEPT !.removed = s, !.grp = online,
                                   !.back = "unindex"]
  <2>1. frame[p] \in Frame /\ frame[p].key \in Id
    BY <1>0 DEF TypeOK, ManagerTypeOK, Frame
  <2>2. f \in Frame
    BY <1>0, <2>1, ManagerAssumption DEF Frame, TypeOK, ManagerTypeOK
  <2>3. Ready("removeSession", f) /\ "removeSession" \in Labels
    BY <2>1 DEF Ready, Frame, Putting, Taking, Labels, Running
  <2>4. Call(p, "removeSession", f)
    BY <1>10 DEF Unpublish
  <2> HIDE DEF s, f
  <2> QED
    BY <1>10, <1>0, <2>1, <2>2, <2>3, <2>4, CallMoves DEF Unpublish, Moves,
       TypeOK, ManagerTypeOK, GroupTypeOK, Labels
<1>11. CASE Unindex(p)
  BY <1>11, <1>0 DEF Unindex, Moves, Goto, Ready, ControlAt, Putting, Taking,
      TypeOK, GroupTypeOK, ManagerTypeOK, Running, Ended, Frame
<1>12. CASE EnterClean(p)
  <2> DEFINE f == [frame[p] EXCEPT !.todo = LiveGroups, !.seen = {},
                                   !.back = "clean"]
  <2>1. f \in Frame
    <3>1. LiveGroups \in SUBSET Group
      BY <1>0 DEF TypeOK, ManagerTypeOK, LiveGroups
    <3>2. frame[p] \in Frame
      BY <1>0 DEF TypeOK, ManagerTypeOK
    <3> QED
      BY <3>1, <3>2 DEF Frame
  <2>2. Ready("clean", f) /\ "clean" \in Labels
    BY <1>0 DEF TypeOK, ManagerTypeOK, Frame, Ready, Putting, Taking, Labels,
       Running
  <2>3. Call(p, "clean", f)
    BY <1>12 DEF EnterClean
  <2> HIDE DEF f
  <2> QED
    BY <1>12, <1>0, <2>1, <2>2, <2>3, CallMoves DEF EnterClean, Moves, TypeOK,
       ManagerTypeOK, GroupTypeOK, Labels
<1>13. CASE CleanGroup(p)
  <2>1. PICK g \in (frame[p].todo \cup LiveGroups) \ frame[p].seen :
          Call(p, "removeSession",
               [frame[p] EXCEPT !.grp = g, !.seen = @ \cup {g}])
    BY <1>13 DEF CleanGroup
  <2> DEFINE f == [frame[p] EXCEPT !.grp = g, !.seen = @ \cup {g}]
  <2>2. g \in Group
    BY <1>0 DEF TypeOK, ManagerTypeOK, Frame, LiveGroups
  <2>3. f \in Frame
    BY <1>0, <2>2 DEF TypeOK, ManagerTypeOK, Frame
  <2>4. Ready("removeSession", f) /\ "removeSession" \in Labels
    BY <1>13, <1>0 DEF CleanGroup, TypeOK, ManagerTypeOK, Frame, ControlAt, Ready,
       Putting, Taking, Labels, Running
  <2>5. Call(p, "removeSession", f)
    BY <2>1
  <2> HIDE DEF f
  <2> QED
    BY <1>13, <1>0, <2>3, <2>4, <2>5, CallMoves DEF CleanGroup, Moves, TypeOK,
       ManagerTypeOK, GroupTypeOK, Labels
<1>14. CASE LeaveClean(p)
  BY <1>14, <1>0 DEF LeaveClean, Moves, Goto, Ready, ControlAt, Putting,
      Taking, TypeOK, GroupTypeOK, ManagerTypeOK, Running, Ended, Frame
<1>15. CASE GetGroup(p)
  <2> DEFINE g == onlineGroupClient[frame[p].gid]
             f == [frame[p] EXCEPT !.grp = g, !.back = "returned"]
  <2>1. frame[p] \in Frame /\ frame[p].sess \in Session /\ g \in Group \cup {None}
    BY <1>15, <1>0 DEF GetGroup, TypeOK, ManagerTypeOK, Frame, ControlAt, Ready
  <2>2. CASE g = None
    BY <1>15, <1>0, <2>2 DEF GetGroup, Moves, TypeOK, ManagerTypeOK, GroupTypeOK,
       ControlAt, Ready, Putting, Taking, Ended
  <2>3. CASE g # None
    <3>1. f \in Frame
      BY <2>1, <2>3 DEF Frame
    <3>2. Ready("putSession", f) /\ "putSession" \in Labels
      BY <2>1 DEF Ready, Frame, Putting, Taking, Labels, Running
    <3>3. Call(p, "putSession", f)
      BY <1>15, <2>3 DEF GetGroup
    <3> HIDE DEF f
    <3> QED
      BY <1>15, <1>0, <3>1, <3>2, <3>3, CallMoves DEF GetGroup, Moves, TypeOK,
         ManagerTypeOK, GroupTypeOK, Labels
  <2> QED
    BY <2>2, <2>3
<1>16. CASE GetGroupRemove(p)
  <2> DEFINE g == onlineGroupClient[frame[p].gid]
             f == [frame[p] EXCEPT !.grp = g, !.back = "returned"]
  <2>1. frame[p] \in Frame /\ g \in Group \cup {None}
    BY <1>0 DEF TypeOK, ManagerTypeOK, Frame
  <2>2. CASE g = None
    BY <1>16, <1>0, <2>2 DEF GetGroupRemove, Moves, TypeOK, ManagerTypeOK,
       GroupTypeOK, ControlAt, Ready, Putting, Taking, Ended
  <2>3. CASE g # None
    <3>1. f \in Frame
      BY <2>1, <2>3 DEF Frame
    <3>2. Ready("removeSession", f) /\ "removeSession" \in Labels
      BY <2>1 DEF Ready, Frame, Putting, Taking, Labels, Running
    <3>3. Call(p, "removeSession", f)
      BY <1>16, <2>3 DEF GetGroupRemove
    <3> HIDE DEF f
    <3> QED
      BY <1>16, <1>0, <3>1, <3>2, <3>3, CallMoves DEF GetGroupRemove, Moves,
         TypeOK, ManagerTypeOK, GroupTypeOK, Labels
  <2> QED
    BY <2>2, <2>3
<1>17. CASE CreateCheck(p)
  BY <1>17, <1>0 DEF CreateCheck, Moves, Goto, Ready, ControlAt, Putting,
      Taking, TypeOK, GroupTypeOK, ManagerTypeOK, Running, Ended, Frame
<1>18. CASE CreatePut(p)
  BY <1>18, <1>0 DEF CreatePut, Moves, Goto, Ready, ControlAt, Putting,
      Taking, TypeOK, GroupTypeOK, ManagerTypeOK, Running, Ended, Frame
<1>19. CASE RemoveGroup(p)
  BY <1>19, <1>0 DEF RemoveGroup, Moves, Goto, Ready, ControlAt, Putting,
      Taking, TypeOK, GroupTypeOK, ManagerTypeOK, Running, Ended, Frame
<1>20. CASE FindHasGroup(p)
  BY <1>20, <1>0 DEF FindHasGroup, Moves, Goto, Ready, ControlAt, Putting,
      Taking, TypeOK, GroupTypeOK, ManagerTypeOK, Running, Ended, Frame
<1>21. CASE FindInGroup(p)
  BY <1>21, <1>0 DEF FindInGroup, HasSession, Moves, Goto, Ready, ControlAt,
      Putting, Taking, TypeOK, GroupTypeOK, ManagerTypeOK, Running, Ended,
      Frame
<1>22. CASE FindTake(p)
  <2> DEFINE g == onlineGroupClient[frame[p].gid]
  <2>1. frame[p].key \in Id /\ g \in Group \cup {None}
    BY <1>0 DEF TypeOK, ManagerTypeOK, Frame
  <2>2. GroupTypeOK'
    <3>1. CASE g = None
      BY <1>22, <1>0, <3>1 DEF FindTake, TypeOK, GroupTypeOK
    <3>2. CASE g # None
      <4>1. RemoveSession(g, frame[p].key)
        BY <1>22, <3>2 DEF FindTake, FindSession
      <4> HIDE DEF g
      <4> QED
        BY <1>22, <1>0, <2>1, <3>2, <4>1 DEF FindTake, RemoveSession, TypeOK,
           GroupTypeOK
    <3> QED
      BY <3>1, <3>2
  <2>3. pc' \in [Proc -> {"idle"} \cup Running \cup Ended] /\ ControlAt(p)'
    BY <1>22, <1>0 DEF FindTake, Goto, TypeOK, ControlAt, Ready, Putting, Taking,
       Ended
  <2> QED
    BY <1>22, <1>0, <2>2, <2>3 DEF FindTake, Goto, Moves, TypeOK, ManagerTypeOK
<1> QED
  BY <1>1, <1>2, <1>3, <1>4, <1>5, <1>6, <1>7, <1>8, <1>9, <1>10, <1>11,
      <1>12, <1>13, <1>14, <1>15, <1>16, <1>17, <1>18, <1>19, <1>20, <1>21,
      <1>22 DEF ManagerStep, Clean, FindSessionInGroup

\* The call of an application thread starts with arguments of the right type.
LEMMA StartCallType ==
  ASSUME TypeInv, NEW a \in App, NEW m, NEW l \in Labels, NEW f \in Frame,
         Ready(l, f), StartCall(a, m, l, f)
  PROVE  TypeInv'
<1>1. a \in Proc
  BY HandlersAssumption
<1>2. Call(a, l, f) /\ TypeOK
  BY DEF StartCall, TypeInv
<1> HIDE DEF Ready
<1>3. Moves(a)
  BY <1>1, <1>2, CallMoves DEF StartCall, NoManager, Moves, TypeOK, Labels,
     GroupTypeOK, ManagerTypeOK, indexes, groups, collections
<1> QED
  BY <1>1, <1>3, OthersStay

\* No step of an application thread leaves the types.
LEMMA AppStepType ==
  ASSUME TypeInv, NEW a \in App, AppStep(a)
  PROVE  TypeInv'
<1> USE NoFrameType
<1>0. /\ TypeOK
      /\ {"unpublish", "getGroup", "getGroupRemove", "findHas", "createCheck",
          "removeGroup", "idle"} \subseteq Labels
  BY DEF TypeInv, Labels, Running
<1>1. CASE Kick(a) \/ Ban(a)
  <2>1. PICK i \in Id, m \in {"kick", "ban"} :
          StartCall(a, m, "unpublish", [NoFrame EXCEPT !.key = i])
    BY <1>1 DEF Kick, Ban
  <2> DEFINE f == [NoFrame EXCEPT !.key = i]
  <2>2. f \in Frame /\ Ready("unpublish", f)
    BY DEF Frame, Ready, Putting, Taking
  <2> HIDE DEF f
  <2> QED
    BY <1>0, <2>1, <2>2, StartCallType DEF f
<1>2. CASE AddToGroup(a)
  <2>1. PICK i \in Id, g \in Gid :
          /\ Found(i)
          /\ StartCall(a, "addSession", "getGroup",
                       [NoFrame EXCEPT !.sess = onlineClient[i], !.gid = g])
    BY <1>2 DEF AddToGroup
  <2> DEFINE f == [NoFrame EXCEPT !.sess = onlineClient[i], !.gid = g]
  <2>2. onlineClient[i] \in Session
    BY <1>0, <2>1 DEF TypeOK, ManagerTypeOK, Found
  <2>3. f \in Frame /\ Ready("getGroup", f)
    BY <2>2 DEF Frame, Ready, Putting, Taking
  <2> QED
    BY <1>0, <2>1, <2>3, StartCallType
<1>3. CASE RemoveFromGroup(a) \/ FindMember(a)
  <2>1. PICK i \in Id, g \in Gid, m \in {"removeSession", "findSessionInGroup"},
             l \in {"getGroupRemove", "findHas"} :
          StartCall(a, m, l, [NoFrame EXCEPT !.key = i, !.gid = g])
    BY <1>3 DEF RemoveFromGroup, FindMember
  <2> DEFINE f == [NoFrame EXCEPT !.key = i, !.gid = g]
  <2>2. f \in Frame /\ Ready(l, f)
    BY DEF Frame, Ready, Putting, Taking
  <2> QED
    BY <1>0, <2>1, <2>2, StartCallType
<1>4. CASE MakeGroup(a) \/ DropGroup(a)
  <2>1. PICK g \in Gid, m \in {"createGroup", "removeGroup"},
             l \in {"createCheck", "removeGroup"} :
          StartCall(a, m, l, [NoFrame EXCEPT !.gid = g])
    BY <1>4 DEF MakeGroup, DropGroup
  <2> DEFINE f == [NoFrame EXCEPT !.gid = g]
  <2>2. f \in Frame /\ Ready(l, f)
    BY DEF Frame, Ready, Putting, Taking
  <2> QED
    BY <1>0, <2>1, <2>2, StartCallType
<1>5. CASE CallEnds(a)
  <2>1. a \in Proc /\ Call(a, "idle", NoFrame) /\ Ready("idle", NoFrame)
    BY <1>5, HandlersAssumption DEF CallEnds, Resume, Call, Ready, Putting, Taking
  <2>2. Moves(a)
    BY <1>0, <1>5, <2>1, CallMoves DEF CallEnds, NoManager, Moves, TypeOK,
       Labels, GroupTypeOK, ManagerTypeOK, indexes, groups, collections
  <2> QED
    BY <2>1, <2>2, OthersStay
<1> QED
  BY <1>1, <1>2, <1>3, <1>4, <1>5 DEF AppStep

\* A channel that enters a stage leaves the types of the stages.
LEMMA EnterType ==
  ASSUME TypeOK, NEW s \in Session, NEW from, NEW to \in Stages, Enter(s, from, to)
  PROVE  stage' \in [Session -> Stages]
  BY DEF Enter, TypeOK

\* No step of a channel's handlers leaves the types.
LEMMA HandlerStepType ==
  ASSUME TypeInv, NEW s \in Session,
         ChannelRegistered(s) \/ Login(s) \/ Close(s) \/ LoopStep(s)
  PROVE  TypeInv'
<1> USE NoFrameType DEF indexes, groups, groupVars, collections, managerVars
<1> SUFFICES Moves(s)
  BY OthersStay, HandlersAssumption
<1>0. s \in Proc /\ TypeOK /\ ControlAt(s)
  BY HandlersAssumption DEF TypeInv, ControlOK
<1>1. CASE ChannelRegistered(s) \/ RegisterBeforeThrows(s) \/ RemoveBeforeThrows(s)
  <2>1. stage' \in [Session -> Stages]
    BY <1>1, <1>0, EnterType DEF ChannelRegistered, RegisterBeforeThrows,
       RemoveBeforeThrows, Stages
  <2> QED
    BY <1>1, <1>0, <2>1 DEF ChannelRegistered, RegisterBeforeThrows,
       RemoveBeforeThrows, Moves, TypeOK, GroupTypeOK, ManagerTypeOK, ControlAt,
       Ready
<1>2. CASE RegisterBefore(s)
  <2> DEFINE f == [NoFrame EXCEPT !.sess = s]
  <2>1. f \in Frame /\ Ready("regCheck", f) /\ "regCheck" \in Labels
    BY DEF Frame, Ready, Putting, Taking, Labels, Running
  <2>2. idOf' \in [Session -> Id]
    BY <1>2, <1>0, HandlersAssumption DEF RegisterBefore, TypeOK, GroupTypeOK
  <2>3. Call(s, "regCheck", f)
    BY <1>2 DEF RegisterBefore
  <2> HIDE DEF f
  <2> QED
    BY <1>2, <1>0, <2>1, <2>2, <2>3, CallMoves DEF RegisterBefore, NoManager,
       Moves, TypeOK, GroupTypeOK, ManagerTypeOK, Labels
<1>3. CASE RegisteredHooks(s) \/ Joined(s) \/ LoggedIn(s) \/ Unregistered(s)
  <2>1. stage' \in [Session -> Stages]
    BY <1>3, <1>0, EnterType DEF RegisteredHooks, Joined, LoggedIn, Unregistered,
       Stages
  <2>2. Call(s, "idle", NoFrame) /\ Ready("idle", NoFrame) /\ "idle" \in Labels
    BY <1>3 DEF RegisteredHooks, Joined, LoggedIn, Unregistered, Resume, Call,
       Ready, Putting, Taking, Labels
  <2> QED
    BY <1>3, <1>0, <2>1, <2>2, CallMoves DEF RegisteredHooks, Joined, LoggedIn,
       Unregistered, NoManager, Moves, TypeOK, GroupTypeOK, ManagerTypeOK, Labels
<1>4. CASE JoinGroup(s)
  <2>1. PICK g \in Gid : Call(s, "getGroup", [NoFrame EXCEPT !.sess = s, !.gid = g])
    BY <1>4, HandlersAssumption DEF JoinGroup
  <2> DEFINE f == [NoFrame EXCEPT !.sess = s, !.gid = g]
  <2>2. f \in Frame /\ Ready("getGroup", f) /\ "getGroup" \in Labels
    BY DEF Frame, Ready, Putting, Taking, Labels, Running
  <2>3. stage' \in [Session -> Stages]
    BY <1>4, <1>0, EnterType DEF JoinGroup, Stages
  <2>4. Call(s, "getGroup", f)
    BY <2>1
  <2> HIDE DEF f
  <2> QED
    BY <1>4, <1>0, <2>2, <2>3, <2>4, CallMoves DEF JoinGroup, NoManager, Moves,
       TypeOK, GroupTypeOK, ManagerTypeOK, Labels
<1>5. CASE Login(s)
  <2>1. PICK i \in Id : RegisterAs(s, i, s)
    BY <1>5, HandlersAssumption DEF Login
  <2> DEFINE f == [frame[s] EXCEPT !.sess = s, !.key = i, !.grp = online,
                                   !.back = "regIndex"]
  <2>2. f \in Frame
    BY <1>0, ManagerAssumption DEF Frame, TypeOK, ManagerTypeOK
  <2>3. Ready("putSession", f) /\ "putSession" \in Labels
    BY <1>0 DEF Frame, Ready, Putting, Taking, Labels, Running, TypeOK,
       ManagerTypeOK
  <2>4. stage' \in [Session -> Stages]
    BY <1>5, <1>0, EnterType DEF Login, Stages
  <2>5. Call(s, "putSession", f)
    BY <2>1 DEF RegisterAs
  <2> HIDE DEF f
  <2> QED
    BY <1>5, <1>0, <2>2, <2>3, <2>4, <2>5, CallMoves DEF Login, NoManager,
       Moves, TypeOK, GroupTypeOK, ManagerTypeOK, Labels
<1>6. CASE Close(s)
  BY <1>6, <1>0 DEF Close, DropFromChannelGroups, Moves, TypeOK, GroupTypeOK,
     ManagerTypeOK, ControlAt, Ready
<1>7. CASE ChannelUnregistered(s)
  <2> DEFINE f == [NoFrame EXCEPT !.key = CurrentId(s)]
  <2>1. CurrentId(s) \in Id
    BY <1>0, HandlersAssumption DEF CurrentId, TypeOK, GroupTypeOK
  <2>2. f \in Frame
    BY <2>1 DEF Frame
  <2>3. stage' \in [Session -> Stages]
    BY <1>7, <1>0, EnterType DEF ChannelUnregistered, Stages
  <2>4. frame' = [frame EXCEPT ![s] = f] /\ pc' = pc /\ pc[s] = "idle"
    BY <1>7 DEF ChannelUnregistered, Idle
  <2> HIDE DEF f
  <2>5. ControlAt(s)'
    BY <2>4 DEF ControlAt, Ready, Putting, Taking
  <2> QED
    BY <1>7, <1>0, <2>2, <2>3, <2>4, <2>5 DEF ChannelUnregistered, NoManager,
       Moves, TypeOK, GroupTypeOK, ManagerTypeOK
<1>8. CASE ManualUnregistered(s)
  <2>1. stage' \in [Session -> Stages]
    BY <1>8, <1>0, EnterType DEF ManualUnregistered, Stages
  <2>2. CASE pc' = pc /\ frame' = frame
    BY <1>8, <1>0, <2>1, <2>2 DEF ManualUnregistered, NoManager, Moves, TypeOK,
       GroupTypeOK, ManagerTypeOK, ControlAt, Ready
  <2>3. ASSUME NEW i \in Id, Call(s, "unpublish", [NoFrame EXCEPT !.key = i])
        PROVE  Moves(s)
    <3> DEFINE f == [NoFrame EXCEPT !.key = i]
    <3>1. f \in Frame /\ Ready("unpublish", f) /\ "unpublish" \in Labels
      BY DEF Frame, Ready, Putting, Taking, Labels, Running
    <3>2. Call(s, "unpublish", f)
      BY <2>3
    <3> HIDE DEF f
    <3> QED
      BY <1>8, <1>0, <2>1, <3>1, <3>2, CallMoves DEF ManualUnregistered,
         NoManager, Moves, TypeOK, GroupTypeOK, ManagerTypeOK, Labels
  <2> QED
    BY <1>8, <2>2, <2>3 DEF ManualUnregistered
<1>9. CASE RemoveBefore(s)
  <2>1. Ready("unpublish", frame[s]) /\ "unpublish" \in Labels /\ frame[s] \in Frame
    BY <1>0 DEF Ready, Putting, Taking, Labels, Running, TypeOK, ManagerTypeOK
  <2>2. Call(s, "unpublish", frame[s])
    BY <1>9 DEF RemoveBefore
  <2> QED
    BY <1>9, <1>0, <2>1, <2>2, CallMoves DEF RemoveBefore, NoManager, Moves,
       TypeOK, GroupTypeOK, ManagerTypeOK, Labels
<1> QED
  BY <1>1, <1>2, <1>3, <1>4, <1>5, <1>6, <1>7, <1>8, <1>9 DEF LoopStep

\* The initial states are of the right types.
LEMMA InitType == Init => TypeInv
<1> SUFFICES ASSUME Init PROVE TypeInv
  OBVIOUS
<1> USE DEF Init
<1>1. GroupTypeOK
  BY HandlersAssumption DEF GroupInit, GroupTypeOK
<1>2. ManagerTypeOK
  BY HandlersAssumption, ManagerAssumption, NoFrameType DEF ManagerInit, ManagerTypeOK
<1>3. ControlOK
  BY DEF ControlOK, ControlAt, Ready, Putting, Taking
<1> QED
  BY <1>1, <1>2, <1>3 DEF TypeInv, TypeOK, Stages

\* Every step keeps the types.
LEMMA StepType == TypeInv /\ [Next]_vars => TypeInv'
<1> SUFFICES ASSUME TypeInv, [Next]_vars PROVE TypeInv'
  OBVIOUS
<1>1. ASSUME NEW s \in Session,
             ChannelRegistered(s) \/ Login(s) \/ Close(s) \/ LoopStep(s)
      PROVE  TypeInv'
  BY <1>1, HandlerStepType
<1>2. ASSUME NEW a \in App, AppStep(a) PROVE TypeInv'
  BY <1>2, AppStepType
<1>3. ASSUME NEW p \in Proc, Step(p) PROVE TypeInv'
  BY <1>3, ManagerStepType DEF Step
<1>4. CASE UNCHANGED vars
  BY <1>4 DEF vars, groupVars, managerVars, indexes, groups, collections,
     TypeInv, TypeOK, GroupTypeOK, ManagerTypeOK, ControlOK, ControlAt, Ready
<1> QED
  BY <1>1, <1>2, <1>3, <1>4 DEF Next

\* The indexes, the groups and the threads' arguments of the server keep
\* their types: no null reaches a place where DefaultSessionManager or
\* GroupSession would use it as a session or as a group.
THEOREM TypeCorrect == Spec => []TypeOK
<1>1. TypeInv => TypeOK
  BY DEF TypeInv
<1> QED
  BY <1>1, InitType, StepType, PTL DEF Spec
-----------------------------------------------------------------------------
(* What a step does to the thread that takes it and to the others.         *)

\* The first labels of the methods.
Entries == {"regCheck", "unpublish", "getGroup", "getGroupRemove", "createCheck",
            "removeGroup", "findHas"}

\* A step inside the manager is its own thread's, gives no session an id and
\* closes no channel.
LEMMA ManagerMovesOne ==
  ASSUME TypeOK, NEW p \in Proc, ManagerStep(p)
  PROVE  /\ \A q \in Proc : q # p => pc'[q] = pc[q] /\ frame'[q] = frame[q]
         /\ UNCHANGED <<idOf, closed>>
  BY DEF ManagerStep, AddSession, AddChannel, AddChannelId, TakeSession, TakeChannel,
     TakeChannelId, CheckAbsent, IndexChannel, Unindex, Clean, EnterClean, CleanGroup,
     LeaveClean, GetGroup, GetGroupRemove, CreateCheck, CreatePut, RemoveGroup, Publish,
     Unpublish, FindSessionInGroup, FindHasGroup, FindInGroup, FindTake, OnlyCollections,
     Goto, Call, TypeOK, ManagerTypeOK, groupVars

\* No method of the manager starts another one, and only registrySession goes
\* on with a registration: with the id of the session, if the id is free.
LEMMA ManagerGoesOn ==
  ASSUME TypeInv, NEW p \in Proc, ManagerStep(p)
  PROVE  /\ pc[p] \in Running /\ pc'[p] \notin {"idle"} \cup Entries
         /\ Registering(p)' =>
              /\ Registering(p) /\ pc[p] # "regPublish"
              /\ frame'[p].sess = frame[p].sess
              /\ pc[p] # "regCheck" => frame'[p].key = frame[p].key
              /\ pc[p] = "regCheck" => /\ frame'[p].key = idOf[frame[p].sess]
                                       /\ onlineClient[frame'[p].key] = None
         /\ Deregistering(p)' =>
              /\ Deregistering(p) /\ Withdrawn(p)'
              /\ pc[p] # "unpublish" => Withdrawn(p) /\ frame'[p].removed = frame[p].removed
<1> USE DEF Putting, Taking, Running, Ended, Entries, Registering, Deregistering, Withdrawn
<1>0. /\ TypeOK /\ ControlAt(p) /\ frame[p] \in Frame
      /\ pc \in [Proc -> {"idle"} \cup Running \cup Ended] /\ frame \in [Proc -> Frame]
  BY DEF TypeInv, ControlOK, TypeOK, ManagerTypeOK
<1>1. CASE AddSession(p) \/ AddChannel(p) \/ AddChannelId(p)
  BY <1>0, <1>1 DEF AddSession, AddChannel, AddChannelId, OnlyCollections, Goto,
     ControlAt, Ready
<1>2. CASE \/ TakeChannel(p) \/ TakeChannelId(p) \/ LeaveClean(p) \/ Unindex(p)
           \/ IndexChannel(p) \/ Publish(p)
  BY <1>0, <1>2 DEF TakeChannel, TakeChannelId, LeaveClean, Unindex, IndexChannel, Publish,
     OnlyCollections, Goto, ControlAt, Ready
<1>3. CASE TakeSession(p)
  BY <1>0, <1>3 DEF TakeSession, Goto, ControlAt, Ready, Frame
<1>4. CASE CreateCheck(p) \/ CreatePut(p) \/ RemoveGroup(p) \/ FindSessionInGroup(p)
  BY <1>0, <1>4 DEF CreateCheck, CreatePut, RemoveGroup, FindSessionInGroup, FindHasGroup,
     FindInGroup, FindTake, Goto
<1>5. CASE CheckAbsent(p)
  <2> DEFINE i == idOf[frame[p].sess]
             f == [frame[p] EXCEPT !.key = i, !.grp = online, !.back = "regIndex"]
  <2>1. f.key = i /\ f.sess = frame[p].sess
    BY <1>0 DEF Frame
  <2>2. CASE onlineClient[i] = None
    <3>1. Call(p, "putSession", f) /\ pc[p] = "regCheck"
      BY <1>5, <2>2 DEF CheckAbsent
    <3> HIDE DEF f
    <3>2. pc'[p] = "putSession" /\ frame'[p] = f
      BY <1>0, <3>1 DEF Call
    <3> QED
      BY <2>1, <2>2, <3>1, <3>2
  <2>3. CASE onlineClient[i] # None
    <3>1. pc'[p] = "refused" /\ pc[p] = "regCheck"
      BY <1>0, <1>5, <2>3 DEF CheckAbsent
    <3> QED
      BY <3>1
  <2> QED
    BY <2>2, <2>3
<1>6. CASE GetGroup(p) \/ GetGroupRemove(p)
  <2>1. /\ pc[p] \in {"getGroup", "getGroupRemove"}
        /\ pc'[p] \in {"refused", "putSession", "removeSession"}
        /\ pc'[p] \in {"putSession", "removeSession"} => frame'[p].back = "returned"
    BY <1>0, <1>6 DEF GetGroup, GetGroupRemove, Call, Frame
  <2> QED
    BY <2>1
<1>7. CASE Unpublish(p)
  BY <1>0, <1>7 DEF Unpublish, Call, Frame
<1>8. CASE EnterClean(p)
  BY <1>0, <1>8 DEF EnterClean, Call, Frame
<1>9. CASE CleanGroup(p)
  BY <1>0, <1>9 DEF CleanGroup, Call, Frame, ControlAt, Ready
<1> QED
  BY <1>1, <1>2, <1>3, <1>4, <1>5, <1>6, <1>7, <1>8, <1>9 DEF ManagerStep, Clean

\* Only the last step of registrySession and the first one of
\* deregisterSession change the index by id.
LEMMA OnlineStays ==
  ASSUME NEW p \in Proc, ManagerStep(p), pc[p] \notin {"regPublish", "unpublish"}
  PROVE  onlineClient' = onlineClient
  BY DEF ManagerStep, AddSession, AddChannel, AddChannelId, TakeSession, TakeChannel,
     TakeChannelId, CheckAbsent, IndexChannel, Unindex, Clean, EnterClean, CleanGroup,
     LeaveClean, GetGroup, GetGroupRemove, CreateCheck, CreatePut, RemoveGroup, Publish,
     Unpublish, FindSessionInGroup, FindHasGroup, FindInGroup, FindTake, Goto,
     OnlyCollections, indexes

\* What they do to it.
LEMMA OnlineMoves ==
  ASSUME TypeOK, NEW p \in Proc, ManagerStep(p), pc[p] \in {"regPublish", "unpublish"}
  PROVE  \A i \in Id : onlineClient'[i] =
           IF i # frame[p].key THEN onlineClient[i]
           ELSE IF pc[p] = "regPublish" THEN frame[p].sess ELSE None
<1>1. \/ Publish(p) /\ pc[p] = "regPublish"
      \/ Unpublish(p) /\ pc[p] = "unpublish"
  BY DEF ManagerStep, AddSession, AddChannel, AddChannelId, TakeSession, TakeChannel,
     TakeChannelId, CheckAbsent, IndexChannel, Unindex, Clean, EnterClean, CleanGroup,
     LeaveClean, GetGroup, GetGroupRemove, CreateCheck, CreatePut, RemoveGroup, Publish,
     Unpublish, FindSessionInGroup, FindHasGroup, FindInGroup, FindTake, Goto
<1> QED
  BY <1>1 DEF Publish, Unpublish, TypeOK, ManagerTypeOK

\* Outside the manager no thread changes an index or a group of it.
LEMMA OutsideKeepsIndexes ==
  ASSUME NEW p \in Proc,
         \/ p \in App /\ AppStep(p)
         \/ /\ p \in Session
            /\ ChannelRegistered(p) \/ Login(p) \/ Close(p) \/ LoopStep(p)
  PROVE  UNCHANGED <<onlineClient, onlineChannelIdClient, onlineGroupClient>>
  BY DEF AppStep, Kick, Ban, AddToGroup, RemoveFromGroup, FindMember, MakeGroup, DropGroup,
     CallEnds, StartCall, ChannelRegistered, Login, Close, LoopStep, RegisterBefore,
     RegisterBeforeThrows, RegisteredHooks, JoinGroup, Joined, LoggedIn, ChannelUnregistered,
     ManualUnregistered, RemoveBefore, RemoveBeforeThrows, Unregistered, NoManager,
     managerVars, indexes, groups

\* Outside the manager a thread moves itself only, and its own session.
LEMMA OutsideMovesOne ==
  ASSUME TypeOK, NEW p \in Proc,
         \/ p \in App /\ AppStep(p)
         \/ /\ p \in Session
            /\ ChannelRegistered(p) \/ Login(p) \/ Close(p) \/ LoopStep(p)
  PROVE  /\ \A q \in Proc : q # p => pc'[q] = pc[q] /\ frame'[q] = frame[q]
         /\ \A s \in Session : s # p => stage'[s] = stage[s] /\ idOf'[s] = idOf[s]
<1>1. CASE p \in App /\ AppStep(p)
  <2>1. /\ UNCHANGED <<stage, idOf>>
        /\ \A q \in Proc : q # p => pc'[q] = pc[q] /\ frame'[q] = frame[q]
    BY <1>1 DEF AppStep, Kick, Ban, AddToGroup, RemoveFromGroup, FindMember, MakeGroup,
       DropGroup, CallEnds, StartCall, Call, Resume, TypeOK, ManagerTypeOK
  <2> QED
    BY <2>1
<1>2. CASE /\ p \in Session
           /\ ChannelRegistered(p) \/ Login(p) \/ Close(p) \/ LoopStep(p)
  <2>1. \A q \in Proc : q # p => pc'[q] = pc[q] /\ frame'[q] = frame[q]
    BY <1>2 DEF ChannelRegistered, Login, Close, LoopStep, RegisterBefore, RegisterAs,
       RegisterBeforeThrows, RegisteredHooks, JoinGroup, Joined, LoggedIn,
       ChannelUnregistered, ManualUnregistered, RemoveBefore, RemoveBeforeThrows,
       Unregistered, NoManager, managerVars, groupVars, Call, Resume, TypeOK, ManagerTypeOK
  <2>2. \A s \in Session : s # p => stage'[s] = stage[s]
    BY <1>2 DEF ChannelRegistered, Login, Close, LoopStep, RegisterBefore, RegisterAs,
       RegisterBeforeThrows, RegisteredHooks, JoinGroup, Joined, LoggedIn,
       ChannelUnregistered, ManualUnregistered, RemoveBefore, RemoveBeforeThrows,
       Unregistered, NoManager, managerVars, groupVars, Enter, TypeOK
  <2>3. \A s \in Session : s # p => idOf'[s] = idOf[s]
    BY <1>2 DEF ChannelRegistered, Login, Close, LoopStep, RegisterBefore, RegisterAs,
       RegisterBeforeThrows, RegisteredHooks, JoinGroup, Joined, LoggedIn,
       ChannelUnregistered, ManualUnregistered, RemoveBefore, RemoveBeforeThrows,
       Unregistered, NoManager, managerVars, groupVars, TypeOK, GroupTypeOK
  <2> QED
    BY <2>1, <2>2, <2>3
<1> QED
  BY <1>1, <1>2
-----------------------------------------------------------------------------
(* IdsAreTakenAcrossLoops and RemovesOnlyItsOwn.                           *)

\* A step of another thread that lists nobody under a foreign id.
LEMMA OthersOwn ==
  ASSUME NEW q \in Proc, OwnOnly(q), pc'[q] = pc[q], frame'[q] = frame[q],
         q \in Session => stage'[q] = stage[q] /\ idOf'[q] = idOf[q],
         \A i \in Id : q \in Session /\ onlineClient'[i] = q => i \in OwnIds(q)
  PROVE  OwnOnly(q)'
<1>1. OwnIds(q)' = OwnIds(q) /\ Registering(q)' = Registering(q)
  BY DEF OwnIds, Registering
<1> QED
  BY <1>1 DEF OwnOnly

\* Inside the manager a session is registered under its own id.
LEMMA ManagerOwn ==
  ASSUME OwnInv, TypeInv', NEW p \in Proc, ManagerStep(p), stage' = stage, NEW q \in Proc
  PROVE  OwnOnly(q)'
<1>0. /\ TypeInv /\ TypeOK /\ OwnOnly(p) /\ OwnOnly(q) /\ OwnIds(p)' = OwnIds(p)
      /\ pc[p] = "regPublish" => Registering(p)
  BY DEF OwnInv, TypeInv, OwnIds, Registering
<1>1. /\ \A r \in Proc : r # p => pc'[r] = pc[r] /\ frame'[r] = frame[r]
      /\ idOf' = idOf
  BY <1>0, ManagerMovesOne
<1>2. ASSUME NEW i \in Id, NEW t \in Session, onlineClient'[i] = t PROVE i \in OwnIds(t)
  <2>1. t \in Proc /\ (onlineClient[i] = t => i \in OwnIds(t))
    BY HandlersAssumption DEF OwnInv, OwnOnly
  <2>2. CASE onlineClient[i] = t
    BY <2>1, <2>2
  <2>3. CASE onlineClient[i] # t
    <3>1. pc[p] = "regPublish" /\ i = frame[p].key /\ frame[p].sess = t
      BY <1>0, <1>2, <2>3, OnlineStays, OnlineMoves, NoneAssumption
    <3> QED
      BY <1>0, <3>1 DEF OwnOnly
  <2> QED
    BY <2>2, <2>3
<1>3. CASE q # p
  BY <1>0, <1>1, <1>2, <1>3, OthersOwn
<1>4. CASE q = p
  <2>1. /\ pc'[p] \notin {"idle", "unpublish"}
        /\ Registering(p)' =>
              /\ Registering(p) /\ frame'[p].sess = frame[p].sess
              /\ pc[p] # "regCheck" => frame'[p].key = frame[p].key
              /\ pc[p] = "regCheck" => frame'[p].key = idOf[frame[p].sess]
    BY <1>0, ManagerGoesOn DEF Entries
  <2> QED
    BY <1>0, <1>1, <1>2, <1>4, <2>1 DEF OwnOnly
<1> QED
  BY <1>3, <1>4

\* The ids the hooks and the application give a session are its own, and so
\* is the id its unregistered handler works on.
LEMMA HandlerOwn ==
  ASSUME OwnInv, NEW s \in Session,
         ChannelRegistered(s) \/ Login(s) \/ Close(s) \/ LoopStep(s), NEW q \in Proc
  PROVE  OwnOnly(q)'
<1> USE DEF indexes, managerVars, groupVars
<1>0. /\ TypeOK /\ s \in Proc /\ OwnOnly(s) /\ OwnOnly(q) /\ OwnIds(s)' = OwnIds(s)
      /\ frame[s] \in Frame /\ NoFrame \in Frame
  BY HandlersAssumption, NoFrameType DEF OwnInv, TypeOK, ManagerTypeOK, OwnIds
<1>1. /\ onlineClient' = onlineClient
      /\ \A r \in Proc : r # s => pc'[r] = pc[r] /\ frame'[r] = frame[r]
      /\ \A t \in Session : t # s => stage'[t] = stage[t] /\ idOf'[t] = idOf[t]
  BY <1>0, OutsideKeepsIndexes, OutsideMovesOne
<1>2. CASE q # s
  BY <1>0, <1>1, <1>2, OthersOwn DEF OwnOnly
<1>3. CASE q = s
  <2> SUFFICES OwnOnly(s)'
    BY <1>3
  <2>0. \A i \in Id : onlineClient'[i] = s => i \in OwnIds(s)
    BY <1>0, <1>1 DEF OwnOnly
  <2>1. CASE RegisterBefore(s)
    <3> DEFINE f == [NoFrame EXCEPT !.sess = s]
    <3>1. f.sess = s
      BY <1>0 DEF Frame
    <3>2. Call(s, "regCheck", f) /\ stage' = stage /\ stage[s] = "registering"
      BY <2>1 DEF RegisterBefore
    <3> HIDE DEF f
    <3>3. pc'[s] = "regCheck" /\ frame'[s].sess = s
      BY <1>0, <3>1, <3>2 DEF Call, TypeOK, ManagerTypeOK
    <3>4. idOf'[s] \in OwnIds(s)
      BY <1>0, <2>1 DEF RegisterBefore, OwnIds, TypeOK, GroupTypeOK
    <3> QED
      BY <1>0, <2>0, <3>2, <3>3, <3>4 DEF OwnOnly
  <2>2. CASE Login(s)
    <3>1. PICK i \in HookIds[s] : RegisterAs(s, i, s)
      BY <2>2 DEF Login
    <3> DEFINE f == [frame[s] EXCEPT !.sess = s, !.key = i, !.grp = online, !.back = "regIndex"]
    <3>2. f.sess = s /\ f.key = i /\ i \in OwnIds(s)
      BY <1>0 DEF Frame, OwnIds
    <3>3. Call(s, "putSession", f) /\ stage'[s] = "login" /\ idOf' = idOf
      BY <1>0, <2>2, <3>1 DEF RegisterAs, Login, Enter, TypeOK
    <3> HIDE DEF f
    <3>4. pc'[s] = "putSession" /\ frame'[s] = f
      BY <1>0, <3>3 DEF Call, TypeOK, ManagerTypeOK
    <3> QED
      BY <1>0, <2>0, <3>2, <3>3, <3>4 DEF OwnOnly
  <2>3. CASE ChannelUnregistered(s)
    <3> DEFINE f == [NoFrame EXCEPT !.key = CurrentId(s)]
    <3>1. f.key = CurrentId(s)
      BY <1>0 DEF Frame
    <3>2. /\ pc[s] = "idle" /\ pc' = pc /\ idOf' = idOf /\ frame' = [frame EXCEPT ![s] = f]
      BY <2>3 DEF ChannelUnregistered, Idle
    <3> HIDE DEF f
    <3>3. frame'[s].key = CurrentId(s)
      BY <1>0, <3>1, <3>2 DEF TypeOK, ManagerTypeOK
    <3>4. CurrentId(s) \in OwnIds(s)
      BY <1>0 DEF CurrentId, OwnOnly, OwnIds
    <3> QED
      BY <1>0, <2>0, <3>2, <3>3, <3>4 DEF OwnOnly, Registering, Putting
  <2>4. CASE ManualUnregistered(s)
    <3>1. idOf' = idOf
      BY <2>4 DEF ManualUnregistered
    <3>2. CASE pc'[s] = "idle" /\ stage'[s] = "gone"
      BY <1>0, <2>0, <3>1, <3>2 DEF OwnOnly, Registering, Putting
    <3>3. ASSUME NEW i \in Id, onlineClient[i] = s, Call(s, "unpublish", [NoFrame EXCEPT !.key = i])
          PROVE  OwnOnly(s)'
      <4> DEFINE f == [NoFrame EXCEPT !.key = i]
      <4>1. f.key = i /\ Call(s, "unpublish", f)
        BY <1>0, <3>3 DEF Frame
      <4> HIDE DEF f
      <4>2. pc'[s] = "unpublish" /\ frame'[s].key = i
        BY <1>0, <4>1 DEF Call, TypeOK, ManagerTypeOK
      <4> QED
        BY <1>0, <2>0, <3>1, <3>3, <4>2 DEF OwnOnly, Registering, Putting
    <3> QED
      BY <1>0, <2>4, <3>2, <3>3 DEF ManualUnregistered, Enter, Idle, TypeOK
  <2>5. CASE RemoveBefore(s)
    <3>1. /\ stage' = stage /\ stage[s] = "unregistering" /\ pc[s] = "idle" /\ idOf' = idOf
          /\ pc'[s] = "unpublish" /\ frame'[s] = frame[s]
      BY <1>0, <2>5 DEF RemoveBefore, Idle, Call, TypeOK, ManagerTypeOK
    <3> QED
      BY <1>0, <2>0, <3>1 DEF OwnOnly, Registering, Putting
  <2>6. CASE Close(s)
    BY <1>0, <2>0, <2>6 DEF Close, OwnOnly, Registering
  <2>7. CASE \/ ChannelRegistered(s) \/ RegisterBeforeThrows(s) \/ RemoveBeforeThrows(s)
             \/ RegisteredHooks(s) \/ JoinGroup(s) \/ Joined(s) \/ LoggedIn(s)
             \/ Unregistered(s)
    <3>1. stage'[s] # "unregistering" /\ pc'[s] \in {"idle", "getGroup"} /\ idOf' = idOf
      BY <1>0, <2>7 DEF ChannelRegistered, RegisterBeforeThrows, RemoveBeforeThrows,
         RegisteredHooks, JoinGroup, Joined, LoggedIn, Unregistered, Enter, Idle, Resume, Call,
         TypeOK
    <3> QED
      BY <1>0, <2>0, <3>1 DEF OwnOnly, Registering, Putting
  <2> QED
    BY <2>1, <2>2, <2>3, <2>4, <2>5, <2>6, <2>7 DEF LoopStep
<1> QED
  BY <1>2, <1>3

\* An application thread registers no session.
LEMMA AppCallsLabel ==
  ASSUME TypeOK, NEW a \in App, AppStep(a)
  PROVE  /\ pc'[a] \in {"idle"} \cup (Entries \ {"regCheck"})
         /\ pc'[a] = "unpublish" => AppCalls \cap {"kick", "ban"} # {}
         /\ pc'[a] = "removeGroup" => "removeGroup" \in AppCalls
  BY HandlersAssumption DEF AppStep, Kick, Ban, AddToGroup, RemoveFromGroup, FindMember,
     MakeGroup, DropGroup, CallEnds, StartCall, Call, Resume, TypeOK, Entries

\* Every step keeps the invariant.
LEMMA StepOwn == ASSUME OwnInv, [Next]_vars PROVE OwnInv'
<1>1. TypeInv'
  BY StepType DEF OwnInv, TypeInv
<1> SUFFICES ASSUME NEW q \in Proc PROVE OwnOnly(q)'
  BY <1>1 DEF OwnInv, TypeInv
<1>2. ASSUME NEW s \in Session,
             ChannelRegistered(s) \/ Login(s) \/ Close(s) \/ LoopStep(s)
      PROVE  OwnOnly(q)'
  BY <1>2, HandlerOwn
<1>3. ASSUME NEW a \in App, AppStep(a) PROVE OwnOnly(q)'
  <2>0. TypeOK /\ OwnOnly(q) /\ a \in Proc /\ a \notin Session
    BY HandlersAssumption DEF OwnInv
  <2>1. /\ onlineClient' = onlineClient
        /\ \A r \in Proc : r # a => pc'[r] = pc[r] /\ frame'[r] = frame[r]
        /\ \A s \in Session : stage'[s] = stage[s] /\ idOf'[s] = idOf[s]
    BY <1>3, <2>0, OutsideKeepsIndexes, OutsideMovesOne
  <2>2. CASE q = a
    <3>1. pc'[a] \in {"idle"} \cup (Entries \ {"regCheck"})
      BY <1>3, <2>0, AppCallsLabel
    <3> QED
      BY <2>0, <2>2, <3>1 DEF OwnOnly, Registering, Putting, Entries
  <2>3. CASE q # a
    BY <2>0, <2>1, <2>3, OthersOwn DEF OwnOnly
  <2> QED
    BY <2>2, <2>3
<1>4. ASSUME NEW p \in Proc, Step(p) PROVE OwnOnly(q)'
  BY <1>1, <1>4, ManagerOwn DEF Step
<1>5. CASE UNCHANGED vars
  BY <1>5 DEF OwnInv, OwnOnly, Registering, OwnIds, vars, groupVars, managerVars, indexes
<1> QED
  BY <1>2, <1>3, <1>4, <1>5 DEF Next

\* At first nothing is listed, and a session has its short text for an id.
LEMMA InitOwn == ASSUME Init PROVE OwnInv
<1>1. TypeInv
  BY InitType
<1>2. \A q \in Proc : OwnOnly(q)
  BY HandlersAssumption, NoneAssumption DEF Init, ManagerInit, OwnOnly, Registering, Putting,
     OwnIds
<1> QED
  BY <1>1, <1>2 DEF OwnInv, TypeInv

-----------------------------------------------------------------------------
(* An id is taken over across event loops only.                            *)

\* What the handlers of a channel do to its thread when registration is
\* automatic: they start a registration with the test only, and a handler
\* begins when no other one of its event loop is running.
LEMMA HandlerGoesOn ==
  ASSUME AutoRegister, TypeOK, NEW s \in Session,
         ChannelRegistered(s) \/ Login(s) \/ Close(s) \/ LoopStep(s)
  PROVE  /\ Registering(s)' => \/ pc'[s] = "regCheck"
                               \/ pc'[s] = pc[s] /\ frame'[s] = frame[s]
         /\ pc'[s] \notin AppMethods \/ pc'[s] = pc[s]
         /\ InHandler(s)' => InHandler(s) \/ LoopFree(s)
<1>0. s \in Proc /\ pc \in [Proc -> {"idle"} \cup Running \cup Ended]
  BY HandlersAssumption DEF TypeOK
<1>1. \/ pc'[s] \in {"idle", "getGroup", "unpublish", "regCheck"}
      \/ pc'[s] = pc[s] /\ frame'[s] = frame[s]
  BY <1>0 DEF ChannelRegistered, Login, Close, LoopStep, RegisterBefore,
     RegisterBeforeThrows, RegisteredHooks, JoinGroup, Joined, LoggedIn, Idle,
     ChannelUnregistered, ManualUnregistered, RemoveBefore, RemoveBeforeThrows,
     Unregistered, NoManager, managerVars, groupVars, Call, Resume
<1>2. InHandler(s)' => InHandler(s) \/ LoopFree(s)
  BY DEF ChannelRegistered, Login, Close, LoopStep, RegisterBefore,
     RegisterBeforeThrows, RegisteredHooks, JoinGroup, Joined, LoggedIn, Enter,
     ChannelUnregistered, ManualUnregistered, RemoveBefore, RemoveBeforeThrows,
     Unregistered, NoManager, managerVars, groupVars, InHandler
<1> QED
  BY <1>1, <1>2 DEF Registering, Putting, AppMethods

\* The channels of one event loop run their handlers one at a time.
LEMMA StepLoops ==
  ASSUME AutoRegister, TypeOK, OneHandlerPerLoop, [Next]_vars
  PROVE  OneHandlerPerLoop'
<1>1. ASSUME NEW s \in Session,
             ChannelRegistered(s) \/ Login(s) \/ Close(s) \/ LoopStep(s)
      PROVE  OneHandlerPerLoop'
  <2>1. InHandler(s)' => InHandler(s) \/ LoopFree(s)
    BY <1>1, HandlerGoesOn
  <2>2. \A t \in Session : t # s => stage'[t] = stage[t]
    BY <1>1, OutsideMovesOne, HandlersAssumption
  <2>3. \A t \in Session : t # s => InHandler(t)' = InHandler(t)
    BY <2>2 DEF InHandler
  <2> QED
    BY <2>1, <2>3 DEF OneHandlerPerLoop, LoopFree
<1>2. CASE UNCHANGED stage
  BY <1>2 DEF OneHandlerPerLoop, InHandler
<1>3. CASE UNCHANGED vars
  BY <1>2, <1>3 DEF vars
<1>4. ASSUME NEW a \in App, AppStep(a) PROVE UNCHANGED stage
  BY <1>4 DEF AppStep, Kick, Ban, AddToGroup, RemoveFromGroup, FindMember, MakeGroup,
     DropGroup, CallEnds, StartCall
<1> QED
  BY <1>1, <1>2, <1>3, <1>4 DEF Next, Step

\* Where a session is registered, its handler is running, and the id it is
\* registered under is its own.
LEMMA RegistersInHandler ==
  ASSUME OwnInv, NEW p \in Proc, Registering(p)
  PROVE  /\ p \in Session /\ InHandler(p) /\ frame[p].sess = p
         /\ pc[p] # "regCheck" => frame[p].key \in OwnIds(p)
  BY DEF OwnInv, OwnOnly, InHandler

\* Where clients that may share an id share the event loop, the id of a
\* running registration is nobody's.
LEMMA FreeWhereShared ==
  ASSUME SharersShareLoop, KeyInv, NEW s \in Session, Registering(s), pc[s] # "regCheck"
  PROVE  onlineClient[frame[s].key] = None
<1> DEFINE t == onlineClient[frame[s].key]
<1>1. OwnInv /\ TypeOK /\ s \in Proc
  BY HandlersAssumption DEF KeyInv, OwnInv
<1>2. frame[s].key \in Id /\ frame[s].key \in OwnIds(s) /\ t \in Session \cup {None}
  BY <1>1, RegistersInHandler DEF TypeOK, ManagerTypeOK, Frame
<1>3. t \in Session => frame[s].key \in OwnIds(t)
  BY <1>1, <1>2, HandlersAssumption DEF OwnInv, OwnOnly
<1>4. t \in Session => Loop[t] = Loop[s]
  BY <1>2, <1>3 DEF SharersShareLoop
<1> QED
  BY <1>2, <1>4, NoneAssumption DEF KeyInv, IdFree

\* The id of a running registration stays free of the sessions of its event
\* loop: the test found it free, and the loop runs one handler at a time.
LEMMA StepFree ==
  ASSUME AutoRegister, KeyInv, [Next]_vars, NEW q \in Session
  PROVE  IdFree(q)'
<1>0. /\ OwnInv /\ TypeInv /\ TypeOK /\ IdFree(q) /\ q \in Proc /\ q \notin App
      /\ OneHandlerPerLoop
  BY HandlersAssumption DEF KeyInv, OwnInv, TypeInv
<1> USE DEF IdFree
<1>1. ASSUME pc'[q] = pc[q], frame'[q] = frame[q], onlineClient' = onlineClient
      PROVE  IdFree(q)'
  BY <1>0, <1>1 DEF Registering
<1>2. ASSUME NEW s \in Session,
             ChannelRegistered(s) \/ Login(s) \/ Close(s) \/ LoopStep(s)
      PROVE  IdFree(q)'
  <2>1. s \in Proc /\ onlineClient' = onlineClient
    BY <1>2, OutsideKeepsIndexes, HandlersAssumption
  <2>2. CASE q = s
    BY <1>0, <1>1, <1>2, <2>1, <2>2, HandlerGoesOn
  <2>3. CASE q # s
    BY <1>0, <1>1, <1>2, <2>1, <2>3, OutsideMovesOne
  <2> QED
    BY <2>2, <2>3
<1>3. ASSUME NEW a \in App, AppStep(a) PROVE IdFree(q)'
  <2>1. a \in Proc /\ q # a /\ onlineClient' = onlineClient
    BY <1>0, <1>3, OutsideKeepsIndexes, HandlersAssumption
  <2> QED
    BY <1>0, <1>1, <1>3, <2>1, OutsideMovesOne
<1>4. ASSUME NEW p \in Proc, Step(p) PROVE IdFree(q)'
  <2> USE <1>4 DEF Step
  <2>1. CASE p = q
    <3>1. ASSUME Registering(q)'
          PROVE  /\ Registering(q) /\ pc[q] \notin {"regPublish", "unpublish"}
                 /\ pc[q] # "regCheck" => frame'[q].key = frame[q].key
                 /\ pc[q] = "regCheck" => onlineClient[frame'[q].key] = None
      BY <1>0, <2>1, <3>1, ManagerGoesOn DEF Registering, Putting
    <3>2. Registering(q)' => onlineClient' = onlineClient
      BY <2>1, <3>1, OnlineStays
    <3> QED
      BY <1>0, <3>1, <3>2
  <2>2. CASE p # q
    <3>1. pc'[q] = pc[q] /\ frame'[q] = frame[q]
      BY <1>0, <2>2, ManagerMovesOne
    <3>2. CASE pc[p] \notin {"regPublish", "unpublish"}
      BY <1>1, <3>1, <3>2, OnlineStays
    <3>3. CASE pc[p] = "unpublish"
      <4>1. \A i \in Id : onlineClient'[i] \in {onlineClient[i], None}
        BY <1>0, <3>3, OnlineMoves
      <4>2. frame[q].key \in Id
        BY <1>0 DEF TypeOK, ManagerTypeOK, Frame
      <4> QED
        BY <1>0, <3>1, <4>1, <4>2 DEF Registering
    <3>4. CASE pc[p] = "regPublish"
      <4>1. \A i \in Id : onlineClient'[i] =
                IF i = frame[p].key THEN frame[p].sess ELSE onlineClient[i]
        BY <1>0, <3>4, OnlineMoves
      <4>2. Registering(p)
        BY <3>4 DEF Registering
      <4>3. p \in Session /\ InHandler(p) /\ frame[p].sess = p
        BY <1>0, <3>4, <4>2, RegistersInHandler
      <4>4. Registering(q) => Loop[p] # Loop[q]
        BY <1>0, <2>2, <4>3, RegistersInHandler DEF OneHandlerPerLoop
      <4>5. frame[q].key \in Id
        BY <1>0 DEF TypeOK, ManagerTypeOK, Frame
      <4> QED
        BY <1>0, <3>1, <4>1, <4>3, <4>4, <4>5 DEF Registering
    <3> QED
      BY <3>2, <3>3, <3>4
  <2> QED
    BY <2>1, <2>2
<1>5. CASE UNCHANGED vars
  BY <1>1, <1>5 DEF vars, managerVars, indexes
<1> QED
  BY <1>2, <1>3, <1>4, <1>5 DEF Next

\* Every step keeps the invariant, and it holds at first.
LEMMA StepKeys ==
  ASSUME AutoRegister, KeyInv, [Next]_vars
  PROVE  KeyInv'
<1>1. OwnInv'
  BY StepOwn DEF KeyInv
<1>2. OneHandlerPerLoop'
  BY StepLoops DEF KeyInv, OwnInv
<1>3. \A s \in Session : IdFree(s)'
  BY StepFree
<1> QED
  BY <1>1, <1>2, <1>3 DEF KeyInv

LEMMA InitKeys == ASSUME Init PROVE KeyInv
<1>1. OwnInv
  BY InitOwn
<1>2. OneHandlerPerLoop
  BY DEF Init, OneHandlerPerLoop, InHandler
<1>3. \A s \in Session : IdFree(s)
  BY HandlersAssumption DEF Init, IdFree, Registering, Putting
<1> QED
  BY <1>1, <1>2, <1>3 DEF KeyInv

\* A registration takes an id only from a session of another event loop: it
\* found the id free, and nobody of its own loop has published it since.
LEMMA TakenAcrossLoops ==
  ASSUME KeyInv, [Next]_vars, NEW i \in Id, NEW s \in Session, NEW t \in Session,
         onlineClient[i] = s, onlineClient'[i] = t, s # t
  PROVE  Loop[s] # Loop[t]
<1>0. OwnInv /\ TypeOK /\ s # None /\ t # None
  BY NoneAssumption DEF KeyInv, OwnInv
<1>1. ASSUME NEW p \in Proc, Step(p) PROVE Loop[s] # Loop[t]
  <2> USE <1>1 DEF Step
  <2>1. pc[p] = "regPublish" /\ i = frame[p].key
    BY <1>0, OnlineStays, OnlineMoves
  <2>2. Registering(p)
    BY <2>1 DEF Registering
  <2>3. p \in Session /\ frame[p].sess = p
    BY <1>0, <2>2, RegistersInHandler
  <2>4. t = p
    BY <1>0, <2>1, <2>3, OnlineMoves
  <2>5. IdFree(p)
    BY <2>3 DEF KeyInv
  <2> QED
    BY <1>0, <2>1, <2>2, <2>4, <2>5 DEF IdFree
<1>2. ASSUME NEW u \in Session,
             ChannelRegistered(u) \/ Login(u) \/ Close(u) \/ LoopStep(u)
      PROVE  onlineClient' = onlineClient
  BY <1>2, OutsideKeepsIndexes, HandlersAssumption
<1>3. ASSUME NEW a \in App, AppStep(a) PROVE onlineClient' = onlineClient
  BY <1>3, OutsideKeepsIndexes, HandlersAssumption
<1>4. CASE UNCHANGED vars
  BY <1>4 DEF vars, managerVars, indexes
<1> QED
  BY <1>1, <1>2, <1>3, <1>4 DEF Next

\* With automatic registration, whatever ids the clients are given and
\* whatever the application calls, a session loses its id to another one only
\* across event loops.
THEOREM IdsAreTakenAcrossLoops == AutoRegister => (Spec => TakeoversCrossLoops)
<1> SUFFICES ASSUME AutoRegister PROVE Spec => TakeoversCrossLoops
  OBVIOUS
<1>1. Init => KeyInv
  BY InitKeys
<1>2. KeyInv /\ [Next]_vars => KeyInv'
  BY StepKeys
<1>3. KeyInv /\ [Next]_vars
        => [\A i \in Id, s, t \in Session :
              onlineClient[i] = s /\ onlineClient'[i] = t /\ s # t => Loop[s] # Loop[t]]_vars
  BY TakenAcrossLoops
<1> QED
  BY <1>1, <1>2, <1>3, PTL DEF Spec, TakeoversCrossLoops

-----------------------------------------------------------------------------
(* A handler deregisters its own session only.                             *)

\* What registrySession and deregisterSession do to the index by channel id,
\* and how far they have got.
LEMMA ChannelIndexMoves ==
  ASSUME TypeInv, NEW p \in Proc, ManagerStep(p)
  PROVE  /\ \A s \in onlineChannelIdClient' :
               s \in onlineChannelIdClient \/ (pc[p] = "regIndex" /\ s = frame[p].sess)
         /\ pc[p] = "regIndex" => pc'[p] = "regPublish"
         /\ pc[p] = "unpublish" =>
              Withdrawn(p)' /\ frame'[p].removed = onlineClient[frame[p].key]
         /\ Withdrawn(p) =>
              \/ Withdrawn(p)' /\ frame'[p].removed = frame[p].removed
              \/ frame[p].removed \notin onlineChannelIdClient'
<1> USE DEF Putting, Taking, Deregistering, Withdrawn, indexes
<1>0. /\ TypeOK /\ ControlAt(p) /\ frame[p] \in Frame
      /\ pc \in [Proc -> {"idle"} \cup Running \cup Ended] /\ frame \in [Proc -> Frame]
  BY DEF TypeInv, ControlOK, TypeOK, ManagerTypeOK
<1>1. CASE AddSession(p) \/ AddChannel(p) \/ AddChannelId(p)
  BY <1>0, <1>1 DEF AddSession, AddChannel, AddChannelId, OnlyCollections, Goto
<1>2. CASE TakeChannel(p) \/ TakeChannelId(p) \/ LeaveClean(p)
  BY <1>0, <1>2 DEF TakeChannel, TakeChannelId, LeaveClean, OnlyCollections, Goto
<1>7. CASE Unindex(p)
  <2>1. None \notin onlineChannelIdClient
    BY <1>0, NoneAssumption DEF TypeOK, ManagerTypeOK
  <2> QED
    BY <1>0, <1>7, <2>1 DEF Unindex, Goto
<1>3. CASE TakeSession(p)
  BY <1>0, <1>3 DEF TakeSession, Goto, ControlAt, Ready, Frame
<1>4. CASE \/ CreateCheck(p) \/ CreatePut(p) \/ RemoveGroup(p) \/ FindSessionInGroup(p)
           \/ IndexChannel(p) \/ Publish(p)
  BY <1>0, <1>4 DEF CreateCheck, CreatePut, RemoveGroup, FindSessionInGroup, FindHasGroup,
     FindInGroup, FindTake, IndexChannel, Publish, Goto
<1>5. CASE CheckAbsent(p) \/ GetGroup(p) \/ GetGroupRemove(p) \/ Clean(p)
  BY <1>0, <1>5 DEF CheckAbsent, GetGroup, GetGroupRemove, Clean, EnterClean, CleanGroup,
     LeaveClean, Goto
<1>6. CASE Unpublish(p)
  <2> DEFINE f == [frame[p] EXCEPT !.removed = onlineClient[frame[p].key],
                                   !.grp = online, !.back = "unindex"]
  <2>1. f.removed = onlineClient[frame[p].key] /\ f.back = "unindex"
    BY <1>0 DEF Frame
  <2>2. /\ pc[p] = "unpublish" /\ Call(p, "removeSession", f)
        /\ onlineChannelIdClient' = onlineChannelIdClient
    BY <1>6 DEF Unpublish
  <2> HIDE DEF f
  <2>3. pc'[p] = "removeSession" /\ frame'[p] = f
    BY <1>0, <2>2 DEF Call
  <2> QED
    BY <2>1, <2>2, <2>3
<1> QED
  BY <1>1, <1>2, <1>3, <1>4, <1>5, <1>6, <1>7 DEF ManagerStep

\* A step that leaves a session, its thread and the indexes alone.
LEMMA StillUndisturbed ==
  ASSUME NEW q \in Session, Undisturbed(q), pc'[q] = pc[q], frame'[q] = frame[q],
         stage'[q] = stage[q], idOf'[q] = idOf[q], onlineClient' = onlineClient,
         onlineChannelIdClient' = onlineChannelIdClient
  PROVE  Undisturbed(q)'
  BY DEF Undisturbed, Registering, Deregistering, Withdrawn, Listed

\* A session under way in the manager.
LEMMA OwnStepUndisturbed ==
  ASSUME SharingInv, NEW q \in Session, ManagerStep(q), stage' = stage
  PROVE  Undisturbed(q)'
<1>0. /\ q \in Proc /\ OwnInv /\ TypeInv /\ TypeOK /\ Undisturbed(q) /\ q # None
      /\ frame[q].key \in Id /\ idOf[q] \in Id
  BY HandlersAssumption, NoneAssumption DEF SharingInv, KeyInv, OwnInv, TypeInv, TypeOK,
     GroupTypeOK, ManagerTypeOK, Frame
<1>1. /\ \A s \in onlineChannelIdClient' :
            s \in onlineChannelIdClient \/ (pc[q] = "regIndex" /\ s = frame[q].sess)
      /\ pc[q] = "regIndex" => pc'[q] = "regPublish"
      /\ pc[q] = "unpublish" =>
           Withdrawn(q)' /\ frame'[q].removed = onlineClient[frame[q].key]
      /\ Withdrawn(q) =>
           \/ Withdrawn(q)' /\ frame'[q].removed = frame[q].removed
           \/ frame[q].removed \notin onlineChannelIdClient'
  BY <1>0, ChannelIndexMoves
<1>2. /\ pc[q] \in Running /\ pc'[q] \notin {"idle"} \cup Entries
      /\ Registering(q)' =>
           /\ Registering(q) /\ pc[q] # "regPublish"
           /\ pc[q] # "regCheck" => frame'[q].key = frame[q].key
           /\ pc[q] = "regCheck" => frame'[q].key = idOf[frame[q].sess]
      /\ Deregistering(q)' => Deregistering(q)
  BY <1>0, ManagerGoesOn
<1>3. idOf' = idOf
  BY <1>0, ManagerMovesOne
<1>4. Registering(q) => stage[q] \in {"registering", "login"} /\ frame[q].sess = q
  BY <1>0 DEF OwnInv, OwnOnly
<1>5. pc[q] = "regIndex" => Registering(q)
  BY DEF Registering
<1>6. Registering(q)' /\ pc'[q] # "regCheck" => frame'[q].key = idOf'[q]
  BY <1>0, <1>2, <1>3, <1>4 DEF Undisturbed
<1>7. Deregistering(q)' => stage'[q] = "unregistering"
  BY <1>0, <1>2 DEF Undisturbed
<1>8. pc'[q] # "unpublish" /\ pc'[q] # "idle"
  BY <1>2 DEF Entries
<1>9. stage'[q] = "new" => q \notin onlineChannelIdClient'
  BY <1>0, <1>1, <1>4, <1>5 DEF Undisturbed
<1>10. Registering(q)' /\ pc'[q] # "regPublish" => q \notin onlineChannelIdClient'
  BY <1>0, <1>1, <1>2 DEF Undisturbed
<1>11. ASSUME q \in onlineChannelIdClient'
       PROVE  Listed(q)' \/ pc'[q] = "regPublish" \/ (Withdrawn(q)' /\ frame'[q].removed = q)
  <2>1. CASE pc[q] = "regIndex"
    BY <1>1, <2>1
  <2>2. CASE pc[q] = "regPublish"
    <3>1. Registering(q) /\ frame[q].key = idOf[q] /\ frame[q].sess = q
      BY <1>0, <1>4, <2>2 DEF Registering, Undisturbed
    <3>2. onlineClient'[idOf[q]] = q
      BY <1>0, <2>2, <3>1, OnlineMoves
    <3> QED
      BY <1>3, <3>2 DEF Listed
  <2>3. CASE pc[q] = "unpublish"
    <3>1. Listed(q)
      BY <1>0, <1>1, <1>11, <2>3 DEF Undisturbed, Withdrawn
    <3>2. CASE frame[q].key = idOf[q]
      BY <1>1, <2>3, <3>1, <3>2 DEF Listed
    <3>3. CASE frame[q].key # idOf[q]
      <4>1. onlineClient'[idOf[q]] = onlineClient[idOf[q]]
        BY <1>0, <2>3, <3>3, OnlineMoves
      <4> QED
        BY <1>3, <3>1, <4>1 DEF Listed
    <3> QED
      BY <3>2, <3>3
  <2>4. CASE pc[q] \notin {"regIndex", "regPublish", "unpublish"}
    <3>1. onlineClient' = onlineClient
      BY <1>0, <2>4, OnlineStays
    <3>2. Listed(q) \/ (Withdrawn(q) /\ frame[q].removed = q)
      BY <1>0, <1>1, <1>11, <2>4 DEF Undisturbed
    <3>3. Listed(q) => Listed(q)'
      BY <1>3, <3>1 DEF Listed
    <3> QED
      BY <1>1, <1>11, <3>2, <3>3
  <2> QED
    BY <2>1, <2>2, <2>3, <2>4
<1> QED
  BY <1>6, <1>7, <1>8, <1>9, <1>10, <1>11 DEF Undisturbed

\* A session while another thread is under way: the id of its entry is
\* published by a session whose handler runs on the same event loop, and
\* withdrawn by that entry's own session, so neither happens.
LEMMA OtherStepUndisturbed ==
  ASSUME SharersShareLoop, SharingInv, NEW p \in Proc, ManagerStep(p), stage' = stage,
         NEW q \in Session, q # p
  PROVE  Undisturbed(q)'
<1>0. /\ q \in Proc /\ OwnInv /\ TypeInv /\ TypeOK /\ Undisturbed(q) /\ q # None
      /\ OneHandlerPerLoop /\ frame[q].key \in Id /\ idOf[q] \in Id
  BY HandlersAssumption, NoneAssumption DEF SharingInv, KeyInv, OwnInv, TypeInv, TypeOK,
     GroupTypeOK, ManagerTypeOK, Frame
<1>1. pc'[q] = pc[q] /\ frame'[q] = frame[q] /\ idOf' = idOf
  BY <1>0, ManagerMovesOne
<1>2. /\ Registering(q)' = Registering(q) /\ Deregistering(q)' = Deregistering(q)
      /\ Withdrawn(q)' = Withdrawn(q)
  BY <1>1 DEF Registering, Deregistering, Withdrawn
<1>3. pc[p] = "regPublish" => /\ Registering(p) /\ p \in Session /\ InHandler(p)
                              /\ frame[p].sess = p /\ frame[p].key \in OwnIds(p)
                              /\ onlineClient[frame[p].key] = None
  <2>1. pc[p] = "regPublish" => Registering(p)
    BY DEF Registering
  <2>2. pc[p] = "regPublish" => /\ p \in Session /\ InHandler(p) /\ frame[p].sess = p
                                /\ frame[p].key \in OwnIds(p)
    BY <1>0, <2>1, RegistersInHandler
  <2> QED
    BY <2>1, <2>2, FreeWhereShared DEF SharingInv
<1>4. q \in onlineChannelIdClient' => q \in onlineChannelIdClient
  <2>1. pc[p] = "regIndex" => frame[p].sess = p
    BY <1>0, RegistersInHandler DEF Registering
  <2> QED
    BY <1>0, <2>1, ChannelIndexMoves
<1>5. ASSUME pc[q] = "unpublish" \/ (stage[q] = "unregistering" /\ pc[q] = "idle")
      PROVE  onlineClient'[frame[q].key] \in {q, None}
  <2>1. onlineClient[frame[q].key] \in {q, None} /\ frame[q].key \in OwnIds(q)
    BY <1>0, <1>5 DEF Undisturbed, OwnInv, OwnOnly
  <2>2. InHandler(q)
    BY <1>0, <1>5 DEF Undisturbed, Deregistering, InHandler
  <2>3. pc[p] = "regPublish" => frame[p].key # frame[q].key
    <3> SUFFICES ASSUME pc[p] = "regPublish", frame[p].key = frame[q].key PROVE FALSE
      OBVIOUS
    <3>1. Loop[p] = Loop[q]
      BY <1>3, <2>1 DEF SharersShareLoop
    <3> QED
      BY <1>0, <1>3, <2>2, <3>1 DEF OneHandlerPerLoop
  <2> QED
    BY <1>0, <2>1, <2>3, OnlineStays, OnlineMoves
<1>6. Listed(q) => Listed(q)'
  <2> SUFFICES ASSUME onlineClient[idOf[q]] = q PROVE onlineClient'[idOf[q]] = q
    BY <1>1 DEF Listed
  <2>1. pc[p] = "regPublish" => frame[p].key # idOf[q]
    BY <1>0, <1>3
  <2>2. pc[p] = "unpublish" => frame[p].key # idOf[q]
    <3> SUFFICES ASSUME pc[p] = "unpublish" PROVE onlineClient[frame[p].key] # q
      OBVIOUS
    <3>1. p \in Session
      BY HandlersAssumption DEF SharingInv, Deregistering
    <3> QED
      BY <1>0, <3>1 DEF SharingInv, Undisturbed
  <2> QED
    BY <1>0, <2>1, <2>2, OnlineStays, OnlineMoves
<1>7. pc'[q] = "unpublish" \/ (stage'[q] = "unregistering" /\ pc'[q] = "idle")
        => onlineClient'[frame'[q].key] \in {q, None}
  BY <1>1, <1>5
<1>8. q \in onlineChannelIdClient' =>
        Listed(q)' \/ pc'[q] = "regPublish" \/ (Withdrawn(q)' /\ frame'[q].removed = q)
  BY <1>0, <1>1, <1>2, <1>4, <1>6 DEF Undisturbed
<1> QED
  BY <1>0, <1>1, <1>2, <1>4, <1>7, <1>8 DEF Undisturbed

\* A session whose own handler begins, ends or goes on: the unregistered
\* handler takes the id its session is listed under, or the short text, which
\* is nobody else's.
LEMMA HandlerUndisturbed ==
  ASSUME AutoRegister, ShortTextsAreUnique, SharingInv, NEW s \in Session,
         ChannelRegistered(s) \/ Login(s) \/ Close(s) \/ LoopStep(s)
  PROVE  Undisturbed(s)'
<1> USE DEF Putting, Taking, Registering, Deregistering, Withdrawn, NoManager, managerVars,
        groupVars, indexes
<1>0. /\ TypeOK /\ s \in Proc /\ Undisturbed(s) /\ s # None
      /\ \A t \in Session : OwnOnly(t)
      /\ pc \in [Proc -> {"idle"} \cup Running \cup Ended] /\ frame \in [Proc -> Frame]
  BY HandlersAssumption, NoneAssumption DEF SharingInv, KeyInv, OwnInv, TypeOK, ManagerTypeOK
<1>1. onlineClient' = onlineClient /\ onlineChannelIdClient' = onlineChannelIdClient
  BY <1>0, OutsideKeepsIndexes
<1>2. CASE ChannelRegistered(s)
  <2>1. /\ stage[s] = "new" /\ stage'[s] = "registering" /\ pc[s] = "idle" /\ pc'[s] = "idle"
    BY <1>0, <1>2 DEF ChannelRegistered, Enter, Idle, TypeOK
  <2> QED
    BY <1>0, <1>1, <2>1 DEF Undisturbed
<1>3. CASE RegisterBefore(s)
  <2>1. /\ stage[s] = "registering" /\ stage'[s] = "registering"
        /\ pc[s] = "idle" /\ pc'[s] = "regCheck"
    BY <1>0, <1>3 DEF RegisterBefore, Idle, Call
  <2> QED
    BY <1>0, <1>1, <2>1 DEF Undisturbed
<1>4. CASE RegisterBeforeThrows(s)
  <2>1. /\ stage[s] = "registering" /\ stage'[s] = "open"
        /\ pc[s] = "idle" /\ pc'[s] = "idle"
    BY <1>0, <1>4 DEF RegisterBeforeThrows, Idle, Enter, TypeOK
  <2> QED
    BY <1>0, <1>1, <2>1 DEF Undisturbed
<1>5. CASE RegisteredHooks(s) \/ JoinGroup(s) \/ Joined(s) \/ LoggedIn(s) \/ Unregistered(s)
  <2>1. /\ stage'[s] \in {"open", "joining", "gone"}
        /\ pc[s] \in Ended /\ pc'[s] \in {"idle", "getGroup"} /\ idOf' = idOf
    BY <1>0, <1>5 DEF RegisteredHooks, JoinGroup, Joined, LoggedIn, Unregistered, Enter,
       Resume, Call, TypeOK
  <2>2. s \in onlineChannelIdClient => Listed(s)
    BY <1>0, <2>1 DEF Undisturbed, Ended
  <2> QED
    BY <1>0, <1>1, <2>1, <2>2 DEF Undisturbed, Listed
<1>6. CASE ChannelUnregistered(s)
  <2> DEFINE f == [NoFrame EXCEPT !.key = CurrentId(s)]
  <2>1. f.key = CurrentId(s)
    BY NoFrameType DEF Frame
  <2>2. /\ pc[s] = "idle" /\ pc' = pc /\ idOf' = idOf /\ frame' = [frame EXCEPT ![s] = f]
        /\ stage'[s] = "unregistering"
    BY <1>0, <1>6 DEF ChannelUnregistered, Idle, Enter, TypeOK
  <2> HIDE DEF f
  <2>3. frame'[s].key = CurrentId(s)
    BY <1>0, <2>1, <2>2
  <2>4. s \in onlineChannelIdClient => Listed(s)
    BY <1>0, <2>2 DEF Undisturbed
  <2>5. onlineClient[CurrentId(s)] \in {s, None}
    <3>1. CASE s \in onlineChannelIdClient
      BY <2>4, <3>1 DEF CurrentId, Listed
    <3>2. CASE s \notin onlineChannelIdClient
      <4>1. ShortText[s] \in Id
        BY HandlersAssumption
      <4>2. onlineClient[ShortText[s]] \in Session \cup {None}
        BY <1>0, <4>1 DEF TypeOK, ManagerTypeOK
      <4>3. ASSUME NEW t \in Session, t # s, onlineClient[ShortText[s]] = t PROVE FALSE
        BY <1>0, <4>1, <4>3 DEF OwnOnly, ShortTextsAreUnique
      <4> QED
        BY <3>2, <4>2, <4>3 DEF CurrentId
    <3> QED
      BY <3>1, <3>2
  <2> QED
    BY <1>0, <1>1, <2>2, <2>3, <2>4, <2>5 DEF Undisturbed, Listed
<1>7. CASE RemoveBefore(s)
  <2>1. /\ stage[s] = "unregistering" /\ stage' = stage /\ pc[s] = "idle" /\ idOf' = idOf
        /\ pc'[s] = "unpublish" /\ frame'[s] = frame[s]
    BY <1>0, <1>7 DEF RemoveBefore, Idle, Call
  <2> QED
    BY <1>0, <1>1, <2>1 DEF Undisturbed, Listed
<1>8. CASE RemoveBeforeThrows(s)
  <2>1. stage'[s] = "kept" /\ pc[s] = "idle" /\ pc' = pc /\ idOf' = idOf
    BY <1>0, <1>8 DEF RemoveBeforeThrows, Idle, Enter, TypeOK
  <2> QED
    BY <1>0, <1>1, <2>1 DEF Undisturbed, Listed
<1>9. CASE Close(s)
  BY <1>0, <1>9, StillUndisturbed DEF Close
<1>10. ~Login(s) /\ ~ManualUnregistered(s)
  BY DEF Login, ManualUnregistered
<1> QED
  BY <1>2, <1>3, <1>4, <1>5, <1>6, <1>7, <1>8, <1>9, <1>10 DEF LoopStep

\* Every step keeps the invariant.
LEMMA StepSharing ==
  ASSUME AutoRegister, SharersShareLoop, ShortTextsAreUnique, AppNeverDeregisters,
         SharingInv, [Next]_vars
  PROVE  SharingInv'
<1>0. KeyInv' /\ TypeOK /\ TypeInv
  BY StepKeys DEF SharingInv, KeyInv, OwnInv, TypeInv
<1>1. ASSUME NEW s \in Session,
             ChannelRegistered(s) \/ Login(s) \/ Close(s) \/ LoopStep(s)
      PROVE  SharingInv'
  <2>0. /\ s \in Proc /\ onlineClient' = onlineClient
        /\ onlineChannelIdClient' = onlineChannelIdClient
        /\ \A q \in Proc : q # s => pc'[q] = pc[q] /\ frame'[q] = frame[q]
        /\ \A t \in Session : t # s => stage'[t] = stage[t] /\ idOf'[t] = idOf[t]
    BY <1>0, <1>1, OutsideKeepsIndexes, OutsideMovesOne, HandlersAssumption
  <2>1. Undisturbed(s)'
    BY <1>1, HandlerUndisturbed
  <2>2. \A t \in Session : t # s => Undisturbed(t)'
    BY <2>0, StillUndisturbed, HandlersAssumption DEF SharingInv
  <2>3. \A a \in App : ~Deregistering(a)'
    BY <2>0, HandlersAssumption DEF SharingInv, Deregistering
  <2> QED
    BY <1>0, <2>1, <2>2, <2>3 DEF SharingInv
<1>2. ASSUME NEW a \in App, AppStep(a) PROVE SharingInv'
  <2>0. /\ a \in Proc /\ a \notin Session /\ onlineClient' = onlineClient
        /\ onlineChannelIdClient' = onlineChannelIdClient
        /\ \A q \in Proc : q # a => pc'[q] = pc[q] /\ frame'[q] = frame[q]
        /\ \A t \in Session : t # a => stage'[t] = stage[t] /\ idOf'[t] = idOf[t]
    BY <1>0, <1>2, OutsideKeepsIndexes, OutsideMovesOne, HandlersAssumption
  <2>1. \A t \in Session : Undisturbed(t)'
    BY <2>0, StillUndisturbed, HandlersAssumption DEF SharingInv
  <2>2. ~Deregistering(a)'
    <3>1. pc'[a] \in {"idle"} \cup (Entries \ {"regCheck", "unpublish"})
      BY <1>0, <1>2, AppCallsLabel DEF AppNeverDeregisters
    <3> QED
      BY <3>1 DEF Deregistering, Entries, Taking
  <2>3. \A b \in App : b # a => ~Deregistering(b)'
    BY <2>0, HandlersAssumption DEF SharingInv, Deregistering
  <2> QED
    BY <1>0, <2>1, <2>2, <2>3 DEF SharingInv
<1>3. ASSUME NEW p \in Proc, Step(p) PROVE SharingInv'
  <2> USE <1>3 DEF Step
  <2>1. \A q \in Session : Undisturbed(q)'
    BY OwnStepUndisturbed, OtherStepUndisturbed
  <2>2. \A q \in Proc : q # p => pc'[q] = pc[q] /\ frame'[q] = frame[q]
    BY <1>0, ManagerMovesOne
  <2>3. Deregistering(p)' => Deregistering(p)
    BY <1>0, ManagerGoesOn
  <2>4. \A a \in App : ~Deregistering(a)'
    BY <2>2, <2>3, HandlersAssumption DEF SharingInv, Deregistering
  <2> QED
    BY <1>0, <2>1, <2>4 DEF SharingInv
<1>4. CASE UNCHANGED vars
  <2>1. \A t \in Session : Undisturbed(t)'
    BY <1>4, StillUndisturbed DEF SharingInv, vars, managerVars, groupVars, indexes
  <2>2. \A a \in App : ~Deregistering(a)'
    BY <1>4 DEF SharingInv, Deregistering, vars, managerVars
  <2> QED
    BY <1>0, <2>1, <2>2 DEF SharingInv
<1> QED
  BY <1>1, <1>2, <1>3, <1>4 DEF Next

\* At first no session is in an index.
LEMMA InitSharing == ASSUME Init PROVE SharingInv
<1>1. KeyInv
  BY InitKeys
<1>2. \A p \in Proc : pc[p] = "idle"
  BY DEF Init
<1>3. \A a \in App : ~Deregistering(a)
  BY <1>2, HandlersAssumption DEF Deregistering, Taking
<1>4. \A s \in Session : Undisturbed(s)
  BY <1>2, HandlersAssumption DEF Init, ManagerInit, Undisturbed, Registering, Deregistering,
     Withdrawn, Putting, Taking
<1> QED
  BY <1>1, <1>3, <1>4 DEF SharingInv

\* The entry that the handler of session s withdraws is its own.
OwnEntry(s) == pc[s] = "unpublish" => onlineClient[frame[s].key] \in {s, None}

\* With unique ids it is because a session is listed under an id of its own.
LEMMA UniqueOwnEntries ==
  ASSUME UniqueIds, OwnInv, NEW s \in Session
  PROVE  OwnEntry(s)
<1>0. /\ TypeOK /\ OwnOnly(s) /\ frame[s].key \in Id
      /\ \A t \in Session : OwnOnly(t)
  BY HandlersAssumption DEF OwnInv, TypeOK, ManagerTypeOK, Frame
<1>1. onlineClient[frame[s].key] \in Session \cup {None}
  BY <1>0 DEF TypeOK, ManagerTypeOK
<1>2. ASSUME NEW t \in Session, t # s, pc[s] = "unpublish", onlineClient[frame[s].key] = t
      PROVE  FALSE
  BY <1>0, <1>2 DEF OwnOnly, UniqueIds
<1> QED
  BY <1>1, <1>2 DEF OwnEntry

\* A thread that leaves the first step of deregisterSession has emptied the
\* entry of its key and no other.
LEMMA OwnEntryRemoved ==
  ASSUME TypeOK, \A s \in Session : OwnEntry(s), [Next]_vars, NEW s \in Session, NEW i \in Id,
         pc[s] = "unpublish", pc'[s] # "unpublish", onlineClient'[i] # onlineClient[i]
  PROVE  onlineClient[i] = s
<1>0. s \in Proc
  BY HandlersAssumption
<1>1. ASSUME NEW p \in Proc, Step(p) PROVE onlineClient[i] = s
  <2> USE <1>1 DEF Step
  <2>1. p = s
    BY <1>0, ManagerMovesOne
  <2>2. i = frame[s].key /\ onlineClient'[i] = None
    BY <2>1, OnlineMoves
  <2> QED
    BY <2>2 DEF OwnEntry
<1>2. ASSUME NEW t \in Session,
             ChannelRegistered(t) \/ Login(t) \/ Close(t) \/ LoopStep(t)
      PROVE  FALSE
  BY <1>2, OutsideKeepsIndexes, HandlersAssumption
<1>3. ASSUME NEW a \in App, AppStep(a) PROVE FALSE
  BY <1>3, OutsideKeepsIndexes, HandlersAssumption
<1>4. ~UNCHANGED vars
  BY DEF vars, managerVars, indexes
<1> QED
  BY <1>1, <1>2, <1>3, <1>4 DEF Next

\* A handler deregisters the session of its own channel and no other: where
\* ids are unique, whatever the application calls; and where ids are shared on
\* one event loop, if the application itself deregisters nobody.
THEOREM HandlersRemoveTheirOwn ==
  (\/ UniqueIds
   \/ AutoRegister /\ SharersShareLoop /\ ShortTextsAreUnique /\ AppNeverDeregisters)
  => (Spec => RemovesOnlyItsOwn)
<1>1. CASE UniqueIds
  <2>1. Init => OwnInv
    BY InitOwn
  <2>2. OwnInv /\ [Next]_vars => OwnInv'
    BY StepOwn
  <2>3. OwnInv /\ [Next]_vars 
          => [\A s \in Session, i \in Id :
                (pc[s] = "unpublish" /\ pc'[s] # "unpublish" /\ onlineClient'[i] # onlineClient[i])
                  => onlineClient[i] = s]_vars
    BY <1>1, UniqueOwnEntries, OwnEntryRemoved DEF OwnInv
  <2> QED
    BY <2>1, <2>2, <2>3, PTL DEF Spec, RemovesOnlyItsOwn
<1>2. CASE AutoRegister /\ SharersShareLoop /\ ShortTextsAreUnique /\ AppNeverDeregisters
  <2>1. Init => SharingInv
    BY InitSharing
  <2>2. SharingInv /\ [Next]_vars => SharingInv'
    BY <1>2, StepSharing
  <2>3. SharingInv /\ [Next]_vars 
          => [\A s \in Session, i \in Id :
                (pc[s] = "unpublish" /\ pc'[s] # "unpublish" /\ onlineClient'[i] # onlineClient[i])
                  => onlineClient[i] = s]_vars
    BY OwnEntryRemoved DEF SharingInv, KeyInv, OwnInv, Undisturbed, OwnEntry
  <2> QED
    BY <2>1, <2>2, <2>3, PTL DEF Spec, RemovesOnlyItsOwn
<1> QED
  BY <1>1, <1>2
=============================================================================
