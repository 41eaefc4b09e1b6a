----------------------- MODULE SessionRegistry_proofs -----------------------
(***************************************************************************)
(* A session that findSession(id) can return is complete in every other    *)
(* index, for any number of channels, event loops, application threads     *)
(* and groups, when the application is a careful one: registration is      *)
(* automatic, no two channels can have one id, and what is deregistered    *)
(* was found online.  Under the same conditions the handlers implement     *)
(* SessionDirectory: the many steps of registrySession and                 *)
(* deregisterSession are atomic steps of it for those who look up an id.   *)
(***************************************************************************)
EXTENDS SessionHandlers_proofs

\* The step moves thread p only.
Alone(p) ==
    /\ \A q \in Proc : q # p => pc'[q] = pc[q] /\ frame'[q] = frame[q]
    /\ \A s \in Session : s # p => stage'[s] = stage[s]

\* Nothing the registry is made of changes.
SameRegistry ==
    /\ UNCHANGED <<idOf, closed, onlineClient, onlineChannelIdClient>>
    /\ groupSession'[online] = groupSession[online]
    /\ channelGroup'[online] = channelGroup[online]
    /\ channelIdGroupSession'[online] = channelIdGroupSession[online]

\* A step of thread p that is none of registrySession's or deregisterSession's.
Aside(p) ==
    /\ Alone(p) /\ SameRegistry
    /\ ~Registering(p) /\ ~Registering(p)' /\ ~Withdrawn(p) /\ ~Withdrawn(p)'
    /\ pc'[p] = "unpublish" =>
         \A s \in Session : frame'[p].key \in OwnIds(s) => ~Undecided(s)'
    /\ InPlace(p)' /\ OnlineIsApart'
    /\ p \in Session => /\ Undecided(p)' => Undecided(p)
                        /\ Early(p)' => Early(p)
                        /\ InStage(p)' /\ OwnKey(p)'
                        /\ p \in closed => stage'[p] \in {"open", "unregistering", "gone", "kept"}

\* A step aside of the registry keeps every part of the invariant.
LEMMA AsideKeepsRegistry ==
  ASSUME RegistryInv, TypeInv', NEW p \in Proc, Aside(p)
  PROVE  RegistryInv'
<1> USE DEF Aside, Alone, SameRegistry
<1>1. CallsInPlace'
  BY HandlersAssumption DEF RegistryInv, CallsInPlace, InPlace, InStage, Registering
<1>2. FiledUnderItsId'
  BY DEF RegistryInv, FiledUnderItsId, Filed, OwnIds
<1>3. \A s \in Session : (Undecided(s)' => Undecided(s)) /\ (Early(s)' => Early(s))
  BY HandlersAssumption DEF Undecided, Early
<1>4. NotYetListed'
  BY <1>3 DEF RegistryInv, NotYetListed, NotYet
<1>5. Inserted'
  BY HandlersAssumption DEF RegistryInv, Inserted, SoFar, Registering
<1>6. RemovedAreOut'
  <2> SUFFICES ASSUME NEW q \in Proc PROVE Removes(q)'
    BY DEF RemovedAreOut
  <2>1. Removes(q)
    BY DEF RegistryInv, RemovedAreOut
  <2>2. CASE q = p
    BY <2>2 DEF Removes, Deregistering, Withdrawn, OwnIds, Taking
  <2>3. CASE q # p
    <3>1. Deregistering(q)' = Deregistering(q) /\ Withdrawn(q)' = Withdrawn(q)
      BY <2>3 DEF Deregistering, Withdrawn
    <3>2. \A s \in Session : Out(s) => Out(s)'
      BY <1>3 DEF Out
    <3>3. /\ frame[q].removed \in Session \cup {None}
          /\ pc[q] \in {"removeChannel", "removeChannelId"} => frame[q].found \in Session
      BY DEF RegistryInv, TypeOK, ManagerTypeOK, Frame, ControlOK, ControlAt, Ready
    <3> QED
      BY <2>1, <2>3, <3>1, <3>2, <3>3, <1>3 DEF Removes, OwnIds
  <2> QED
    BY <2>2, <2>3
<1>7. UnregistersOwn'
  BY HandlersAssumption DEF RegistryInv, UnregistersOwn, OwnKey, OwnIds
<1>8. ClosedAfterRegistration'
  BY DEF RegistryInv, ClosedAfterRegistration, TypeOK, GroupTypeOK
<1>9. FoundIsIndexed'
  BY DEF RegistryInv, FoundIsIndexed
<1> QED
  BY <1>1, <1>2, <1>4, <1>5, <1>6, <1>7, <1>8, <1>9 DEF RegistryInv, TypeInv

\* A thread inside a method that neither registers nor deregisters is past the
\* registration of its channel, so its step is an Aside if the registry stays.
LEMMA AsideInManager ==
  ASSUME RegistryInv, NEW p \in Proc, stage' = stage,
         \A q \in Proc : q # p => pc'[q] = pc[q] /\ frame'[q] = frame[q],
         SameRegistry, OnlineIsApart', InPlace(p)',
         pc[p] \notin {"idle"} \cup Ended, ~Registering(p),
         ~Withdrawn(p), pc'[p] \notin {"idle", "unpublish"}, ~Registering(p)',
         ~Withdrawn(p)'
  PROVE  Aside(p)
<1>1. p \in Session => stage[p] \notin {"new", "registering"}
  BY DEF RegistryInv, CallsInPlace, InStage, Ended
<1>2. p \in closed => stage[p] \in {"open", "unregistering", "gone", "kept"}
  BY DEF RegistryInv, ClosedAfterRegistration
<1> QED
  BY <1>1, <1>2 DEF Aside, Alone, SameRegistry, Undecided, Early, InStage, OwnKey

\* The methods that work on the application's groups leave the registry alone.
LEMMA GroupMethodsAside ==
  ASSUME RegistryInv, TypeInv', NEW p \in Proc, UNCHANGED stage,
         \/ GetGroup(p) \/ GetGroupRemove(p)
         \/ CreateCheck(p) \/ CreatePut(p) \/ RemoveGroup(p)
         \/ FindSessionInGroup(p) \/ Clean(p)
  PROVE  Aside(p)
<1> USE DEF indexes, groups, groupVars, collections, Registering, Withdrawn,
            Deregistering, Putting, Taking, Ended
<1>0. /\ TypeOK /\ ControlAt(p) /\ OnlineIsApart /\ InPlace(p)
      /\ online \notin LiveGroups
  BY DEF RegistryInv, ControlOK, CallsInPlace, OnlineIsApart, LiveGroups
<1>1. CASE GetGroup(p)
  <2>1. SameRegistry /\ OnlineIsApart'
    BY <1>1, <1>0 DEF GetGroup, SameRegistry, OnlineIsApart
  <2>2. InPlace(p)' /\ ~Registering(p)' /\ ~Withdrawn(p)'
    <3>1. frame[p] \in Frame /\ onlineGroupClient[frame[p].gid] # online
      BY <1>0 DEF TypeOK, ManagerTypeOK, OnlineIsApart, Frame
    <3>2. \/ pc'[p] = "refused" /\ frame'[p] = frame[p]
          \/ /\ pc'[p] = "putSession"
             /\ frame'[p] = [frame[p] EXCEPT !.grp = onlineGroupClient[frame[p].gid],
                                             !.back = "returned"]
      BY <1>1, <1>0 DEF GetGroup, Call, TypeOK, ManagerTypeOK
    <3> QED
      BY <1>0, <3>1, <3>2 DEF InPlace, Frame
  <2> QED
    BY <1>1, <2>1, <2>2, <1>0, AsideInManager DEF GetGroup, Call, TypeOK,
       ManagerTypeOK
<1>2. CASE GetGroupRemove(p)
  <2>1. SameRegistry /\ OnlineIsApart'
    BY <1>2, <1>0 DEF GetGroupRemove, SameRegistry, OnlineIsApart
  <2>2. InPlace(p)' /\ ~Registering(p)' /\ ~Withdrawn(p)'
    <3>1. frame[p] \in Frame /\ onlineGroupClient[frame[p].gid] # online
      BY <1>0 DEF TypeOK, ManagerTypeOK, OnlineIsApart, Frame
    <3>2. \/ pc'[p] = "refused" /\ frame'[p] = frame[p]
          \/ /\ pc'[p] = "removeSession"
             /\ frame'[p] = [frame[p] EXCEPT !.grp = onlineGroupClient[frame[p].gid],
                                             !.back = "returned"]
      BY <1>2, <1>0 DEF GetGroupRemove, Call, TypeOK, ManagerTypeOK
    <3> QED
      BY <1>0, <3>1, <3>2 DEF InPlace, Frame
  <2> QED
    BY <1>2, <2>1, <2>2, <1>0, AsideInManager DEF GetGroupRemove, Call, TypeOK,
       ManagerTypeOK
<1>3. CASE CreateCheck(p) \/ CreatePut(p) \/ RemoveGroup(p)
  <2>1. SameRegistry
    BY <1>3 DEF CreateCheck, CreatePut, RemoveGroup, SameRegistry
  <2>2. OnlineIsApart'
    BY <1>3, <1>0, NoneAssumption, ManagerAssumption
       DEF CreateCheck, CreatePut, RemoveGroup, OnlineIsApart, TypeOK, ManagerTypeOK
  <2>3. InPlace(p)' /\ ~Registering(p)' /\ ~Withdrawn(p)'
    BY <1>3, <1>0 DEF CreateCheck, CreatePut, RemoveGroup, Goto, InPlace, TypeOK
  <2> QED
    BY <1>3, <2>1, <2>2, <2>3, <1>0, AsideInManager
       DEF CreateCheck, CreatePut, RemoveGroup, Goto, TypeOK
<1>4. CASE FindSessionInGroup(p)
  <2>1. SameRegistry
    BY <1>4, <1>0 DEF FindSessionInGroup, FindHasGroup, FindInGroup, FindTake,
       FindSession, RemoveSession, SameRegistry, OnlineIsApart, TypeOK,
       GroupTypeOK, ManagerTypeOK, Frame
  <2>2. OnlineIsApart'
    BY <1>4, <1>0 DEF FindSessionInGroup, FindHasGroup, FindInGroup, FindTake,
       OnlineIsApart
  <2>3. InPlace(p)' /\ ~Registering(p)' /\ ~Withdrawn(p)'
    BY <1>4, <1>0 DEF FindSessionInGroup, FindHasGroup, FindInGroup, FindTake,
       Goto, InPlace, TypeOK
  <2> QED
    BY <1>4, <2>1, <2>2, <2>3, <1>0, AsideInManager
       DEF FindSessionInGroup, FindHasGroup, FindInGroup, FindTake, Goto, TypeOK
<1>5. CASE Clean(p)
  <2>1. SameRegistry /\ OnlineIsApart'
    BY <1>5, <1>0 DEF Clean, EnterClean, CleanGroup, LeaveClean, SameRegistry,
       OnlineIsApart
  <2>2. InPlace(p)' /\ ~Registering(p)' /\ ~Withdrawn(p)'
    <3>0. frame[p] \in Frame
      BY <1>0 DEF TypeOK, ManagerTypeOK
    <3>1. CASE EnterClean(p)
      <4>1. /\ pc'[p] = "clean"
            /\ frame'[p] = [frame[p] EXCEPT !.todo = LiveGroups, !.seen = {},
                                            !.back = "clean"]
        BY <3>1, <1>0 DEF EnterClean, Call, TypeOK, ManagerTypeOK
      <4> QED
        BY <1>0, <3>0, <4>1 DEF InPlace, Frame
    <3>3. CASE LeaveClean(p)
      BY <3>3, <1>0 DEF LeaveClean, Goto, InPlace, TypeOK
    <3>2. CASE CleanGroup(p)
      BY <3>2, <1>0 DEF CleanGroup, Call, InPlace, ControlAt, Ready, TypeOK,
         ManagerTypeOK, Frame
    <3> QED
      BY <1>5, <3>1, <3>2, <3>3 DEF Clean
  <2>3. /\ pc[p] \in {"lock", "clean"}
        /\ pc'[p] \notin {"idle", "unpublish"}
        /\ \A q \in Proc : q # p => pc'[q] = pc[q] /\ frame'[q] = frame[q]
    BY <1>5, <1>0 DEF Clean, EnterClean, CleanGroup, LeaveClean, Goto, Call,
       TypeOK, ManagerTypeOK
  <2> QED
    BY <2>1, <2>2, <2>3, AsideInManager
<1> QED
  BY <1>1, <1>2, <1>3, <1>4, <1>5

\* GroupSession.add and remove called for a group of the application do not
\* touch the registry either.
LEMMA MembershipAside ==
  ASSUME RegistryInv, TypeInv', NEW p \in Proc, UNCHANGED stage,
         \/ AddSession(p) \/ AddChannel(p) \/ AddChannelId(p)
         \/ TakeSession(p) \/ TakeChannel(p) \/ TakeChannelId(p),
         frame[p].grp # online
  PROVE  Aside(p)
<1> USE DEF indexes, groups, Registering, Withdrawn, Deregistering, Putting,
            Taking, Ended
<1>0. TypeOK /\ ControlAt(p) /\ OnlineIsApart /\ InPlace(p)
  BY DEF RegistryInv, ControlOK, CallsInPlace
<1>1. CASE AddSession(p) \/ AddChannel(p) \/ AddChannelId(p)
  <2> USE DEF AddSession, AddChannel, AddChannelId, OnlyCollections
  <2>1. SameRegistry
    <3>1. CASE AddSession(p)
      BY <3>1, <1>0 DEF SameRegistry, PutSession, TypeOK, GroupTypeOK
    <3>2. CASE AddChannel(p)
      BY <3>2, <1>0 DEF SameRegistry, PutChannel, TypeOK, GroupTypeOK
    <3>3. CASE AddChannelId(p)
      BY <3>3, <1>0 DEF SameRegistry, PutChannelId, TypeOK, GroupTypeOK
    <3> QED
      BY <1>1, <3>1, <3>2, <3>3
  <2>2. OnlineIsApart'
    BY <1>1, <1>0 DEF OnlineIsApart
  <2>3. InPlace(p)' /\ ~Registering(p)' /\ ~Withdrawn(p)' /\ ~Registering(p)
    BY <1>1, <1>0 DEF Goto, InPlace, ControlAt, Ready, TypeOK
  <2> QED
    BY <1>1, <2>1, <2>2, <2>3, <1>0, AsideInManager DEF Goto, TypeOK, ControlAt,
       Ready
<1>2. CASE TakeSession(p) \/ TakeChannel(p) \/ TakeChannelId(p)
  <2> USE DEF TakeSession, TakeChannel, TakeChannelId, OnlyCollections
  <2>1. SameRegistry
    <3>1. CASE TakeSession(p)
      BY <3>1, <1>0 DEF SameRegistry, RemoveSession, TypeOK, GroupTypeOK
    <3>2. CASE TakeChannel(p)
      BY <3>2, <1>0 DEF SameRegistry, RemoveChannel, TypeOK, GroupTypeOK
    <3>3. CASE TakeChannelId(p)
      BY <3>3, <1>0 DEF SameRegistry, RemoveChannelId, TypeOK, GroupTypeOK
    <3> QED
      BY <1>2, <3>1, <3>2, <3>3
  <2>2. OnlineIsApart'
    BY <1>2, <1>0 DEF OnlineIsApart
  <2>3. /\ frame'[p].grp = frame[p].grp /\ frame'[p].back = frame[p].back
        /\ frame'[p].todo = frame[p].todo
        /\ \A q \in Proc : q # p => pc'[q] = pc[q] /\ frame'[q] = frame[q]
    BY <1>2, <1>0 DEF Goto, TypeOK, ManagerTypeOK, Frame
  <2>4. InPlace(p)' /\ ~Registering(p)' /\ ~Withdrawn(p)' /\ ~Registering(p)
    BY <1>2, <1>0, <2>3 DEF Goto, InPlace, ControlAt, Ready, TypeOK
  <2> QED
    BY <1>2, <2>1, <2>2, <2>3, <2>4, <1>0, AsideInManager DEF Goto, TypeOK,
       ControlAt, Ready
<1> QED
  BY <1>1, <1>2

\* An id in use online is the id of a session that has been decided.
LEMMA OnlineIsDecided ==
  ASSUME CarefulApplication, RegistryInv, NEW i \in Id, onlineClient[i] # None,
         NEW s \in Session, i \in OwnIds(s)
  PROVE  onlineClient[i] = s /\ ~Undecided(s)
<1>1. PICK t \in Session : onlineClient[i] = t
  BY DEF RegistryInv, TypeOK, ManagerTypeOK
<1>2. i \in OwnIds(t) /\ ~Undecided(t)
  BY <1>1 DEF RegistryInv, FiledUnderItsId, Filed, NotYetListed, NotYet
<1>3. s = t
  BY <1>2 DEF CarefulApplication, UniqueIds
<1> QED
  BY <1>1, <1>2, <1>3

\* Starting a call of the manager is an Aside, if it is for an id that is
\* decided when it is a call of deregisterSession.
LEMMA StartCallAside ==
  ASSUME RegistryInv, NEW a \in App, NEW m, NEW f \in Frame, f.todo = {},
         NEW l \in {"unpublish", "getGroup", "getGroupRemove", "createCheck",
                    "removeGroup", "findHas"},
         l = "unpublish" => \A s \in Session : f.key \in OwnIds(s) => ~Undecided(s),
         StartCall(a, m, l, f)
  PROVE  Aside(a)
<1>1. a \in Proc /\ a \notin Session
  BY HandlersAssumption
<1>2. /\ pc[a] = "idle" /\ pc'[a] = l /\ frame'[a] = f /\ stage' = stage
      /\ \A q \in Proc : q # a => pc'[q] = pc[q] /\ frame'[q] = frame[q]
  BY <1>1 DEF StartCall, Idle, Call, RegistryInv, TypeOK, ManagerTypeOK
<1>3. SameRegistry /\ OnlineIsApart'
  <2>1. onlineGroupClient' = onlineGroupClient /\ created' = created
    BY DEF StartCall, NoManager, groups
  <2> QED
    BY <2>1 DEF StartCall, NoManager, indexes, collections, SameRegistry,
       RegistryInv, OnlineIsApart
<1>4. /\ InPlace(a)' /\ ~Registering(a) /\ ~Registering(a)'
      /\ ~Withdrawn(a) /\ ~Withdrawn(a)'
  BY <1>2 DEF InPlace, Registering, Withdrawn, Deregistering, Putting, Taking
<1>5. \A s \in Session : Undecided(s)' = Undecided(s)
  BY <1>1, <1>2, HandlersAssumption DEF Undecided
<1> QED
  BY <1>1, <1>2, <1>3, <1>4, <1>5 DEF Aside, Alone, OwnIds

\* The application's calls, when it deregisters only what it has found.
LEMMA AppStepAside ==
  ASSUME CarefulApplication, RegistryInv, NEW a \in App, AppStep(a)
  PROVE  Aside(a)
<1> USE NoFrameType
<1>0. NoFrame.todo = {}
  BY DEF NoFrame
<1>1. CASE Kick(a)
  <2>1. PICK i \in Id : /\ Found(i)
                        /\ StartCall(a, "kick", "unpublish", [NoFrame EXCEPT !.key = i])
    BY <1>1 DEF Kick
  <2> DEFINE f == [NoFrame EXCEPT !.key = i]
  <2>2. f \in Frame /\ f.todo = {} /\ f.key = i
    BY <1>0 DEF Frame
  <2>3. \A s \in Session : f.key \in OwnIds(s) => ~Undecided(s)
    BY <2>1, <2>2, OnlineIsDecided DEF Found
  <2>4. StartCall(a, "kick", "unpublish", f)
    BY <2>1
  <2> HIDE DEF f
  <2> QED
    BY <2>2, <2>3, <2>4, StartCallAside
<1>2. CASE Ban(a)
  BY <1>2 DEF Ban, StartCall, CarefulApplication
<1>3. CASE AddToGroup(a)
  <2>1. PICK i \in Id, g \in Gid :
          /\ Found(i)
          /\ StartCall(a, "addSession", "getGroup",
                       [NoFrame EXCEPT !.sess = onlineClient[i], !.gid = g])
    BY <1>3 DEF AddToGroup
  <2> DEFINE f == [NoFrame EXCEPT !.sess = onlineClient[i], !.gid = g]
  <2>2. f \in Frame /\ f.todo = {}
    BY <1>0, <2>1 DEF Frame, RegistryInv, TypeOK, ManagerTypeOK
  <2>3. StartCall(a, "addSession", "getGroup", f)
    BY <2>1
  <2> HIDE DEF f
  <2> QED
    BY <2>2, <2>3, StartCallAside
<1>4. CASE RemoveFromGroup(a) \/ FindMember(a)
  <2>1. PICK i \in Id, g \in Gid, m \in {"removeSession", "findSessionInGroup"},
             l \in {"getGroupRemove", "findHas"} :
          StartCall(a, m, l, [NoFrame EXCEPT !.key = i, !.gid = g])
    BY <1>4 DEF RemoveFromGroup, FindMember
  <2> DEFINE f == [NoFrame EXCEPT !.key = i, !.gid = g]
  <2>2. f \in Frame /\ f.todo = {}
    BY <1>0 DEF Frame
  <2>3. StartCall(a, m, l, f)
    BY <2>1
  <2> HIDE DEF f
  <2> QED
    BY <2>2, <2>3, StartCallAside
<1>5. CASE MakeGroup(a) \/ DropGroup(a)
  <2>1. PICK g \in Gid, m \in {"createGroup", "removeGroup"},
             l \in {"createCheck", "removeGroup"} :
          StartCall(a, m, l, [NoFrame EXCEPT !.gid = g])
    BY <1>5 DEF MakeGroup, DropGroup
  <2> DEFINE f == [NoFrame EXCEPT !.gid = g]
  <2>2. f \in Frame /\ f.todo = {}
    BY <1>0 DEF Frame
  <2>3. StartCall(a, m, l, f)
    BY <2>1
  <2> HIDE DEF f
  <2> QED
    BY <2>2, <2>3, StartCallAside
<1>6. CASE CallEnds(a)
  <2>1. a \in Proc /\ a \notin Session
    BY HandlersAssumption
  <2>2. /\ pc[a] \in Ended /\ pc'[a] = "idle" /\ frame'[a] = NoFrame /\ stage' = stage
        /\ \A q \in Proc : q # a => pc'[q] = pc[q] /\ frame'[q] = frame[q]
    BY <1>6, <2>1 DEF CallEnds, Resume, RegistryInv, TypeOK, ManagerTypeOK
  <2>3. SameRegistry
    BY <1>6 DEF CallEnds, NoManager, indexes, collections, SameRegistry
  <2>4. OnlineIsApart'
    BY <1>6 DEF CallEnds, NoManager, groups, RegistryInv, OnlineIsApart
  <2>5. /\ InPlace(a)' /\ ~Registering(a) /\ ~Registering(a)'
        /\ ~Withdrawn(a) /\ ~Withdrawn(a)'
    BY <1>0, <2>2 DEF InPlace, Registering, Withdrawn, Deregistering, Putting,
       Taking, Ended
  <2> QED
    BY <2>1, <2>2, <2>3, <2>4, <2>5 DEF Aside, Alone
<1> QED
  BY <1>1, <1>2, <1>3, <1>4, <1>5, <1>6 DEF AppStep

\* The steps of the handlers that neither register nor close a channel.
LEMMA HandlerStepAside ==
  ASSUME CarefulApplication, RegistryInv, NEW s \in Session,
         \/ ChannelRegistered(s) \/ RegisterBeforeThrows(s)
         \/ RegisteredHooks(s) \/ JoinGroup(s) \/ Joined(s) \/ LoggedIn(s)
         \/ ChannelUnregistered(s) \/ RemoveBefore(s)
         \/ RemoveBeforeThrows(s) \/ Unregistered(s)
  PROVE  Aside(s)
<1> USE DEF indexes, groups, collections, groupVars, managerVars
<1>0. /\ s \in Proc /\ TypeOK /\ OnlineIsApart /\ InPlace(s) /\ InStage(s)
      /\ OwnKey(s) /\ NoFrame.todo = {}
      /\ s \in closed => stage[s] \in {"open", "unregistering", "gone", "kept"}
  BY HandlersAssumption DEF RegistryInv, CallsInPlace, UnregistersOwn,
     ClosedAfterRegistration, NoFrame
<1> DEFINE Rest == \A q \in Proc : q # s => pc'[q] = pc[q] /\ frame'[q] = frame[q]
<1>s. ASSUME NEW from, NEW to, Enter(s, from, to)
      PROVE  /\ stage[s] = from /\ stage'[s] = to
             /\ \A t \in Session : t # s => stage'[t] = stage[t]
  BY <1>0, <1>s DEF Enter, TypeOK
<1> USE DEF Aside, Alone, SameRegistry, OnlineIsApart, Undecided, Early, InStage,
            OwnKey, Registering, Withdrawn, Deregistering, Putting, Taking, Ended
<1>1. CASE ChannelRegistered(s)
  BY <1>1, <1>0, <1>s DEF ChannelRegistered, InPlace, Idle, CarefulApplication
<1>2. CASE RegisterBeforeThrows(s)
  BY <1>2, <1>0, <1>s DEF RegisterBeforeThrows, InPlace, Idle
<1>3. CASE RegisteredHooks(s) \/ Joined(s) \/ LoggedIn(s) \/ Unregistered(s)
  <2>1. /\ pc[s] \in Ended /\ pc'[s] = "idle" /\ frame'[s] = NoFrame /\ Rest
        /\ SameRegistry /\ OnlineIsApart'
    BY <1>3, <1>0 DEF RegisteredHooks, Joined, LoggedIn, Unregistered, Resume,
       NoManager, TypeOK, ManagerTypeOK
  <2>2. /\ stage[s] \in {"registering", "joining", "login", "unregistering"}
        /\ stage'[s] \in {"open", "gone"}
        /\ stage[s] \in {"registering", "joining", "login"} => s \notin closed
        /\ \A t \in Session : t # s => stage'[t] = stage[t]
    BY <1>3, <1>0, <1>s DEF RegisteredHooks, Joined, LoggedIn, Unregistered
  <2>3. InPlace(s)'
    BY <2>1, <1>0 DEF InPlace
  <2> QED
    BY <2>1, <2>2, <2>3, <1>0
<1>4. CASE JoinGroup(s)
  <2>1. /\ pc[s] \in Ended /\ pc'[s] = "getGroup" /\ frame'[s].todo = {} /\ Rest
        /\ SameRegistry /\ OnlineIsApart'
    <3>1. PICK g \in Gid : Call(s, "getGroup", [NoFrame EXCEPT !.sess = s, !.gid = g])
      BY <1>4, HandlersAssumption DEF JoinGroup
    <3> DEFINE f == [NoFrame EXCEPT !.sess = s, !.gid = g]
    <3>2. f.todo = {}
      BY <1>0, NoFrameType DEF Frame
    <3>3. Call(s, "getGroup", f)
      BY <3>1
    <3> HIDE DEF f
    <3> QED
      BY <1>4, <1>0, <3>2, <3>3 DEF JoinGroup, Call, NoManager, TypeOK,
         ManagerTypeOK
  <2>2. /\ stage[s] = "registering" /\ stage'[s] = "joining"
        /\ \A t \in Session : t # s => stage'[t] = stage[t]
    BY <1>4, <1>s DEF JoinGroup
  <2>3. InPlace(s)'
    BY <2>1, <1>0 DEF InPlace
  <2> QED
    BY <2>1, <2>2, <2>3, <1>0
<1>5. CASE ChannelUnregistered(s)
  <2>1. /\ stage[s] = "open" /\ stage'[s] = "unregistering"
        /\ \A t \in Session : t # s => stage'[t] = stage[t]
    BY <1>5, <1>s DEF ChannelUnregistered
  <2>2. CurrentId(s) \in OwnIds(s) /\ CurrentId(s) \in Id
    BY <1>0, HandlersAssumption DEF CurrentId, OwnIds, RegistryInv,
       FiledUnderItsId, Filed, TypeOK, GroupTypeOK
  <2>3. /\ pc' = pc /\ pc[s] = "idle" /\ Rest /\ SameRegistry /\ OnlineIsApart'
        /\ frame'[s] = [NoFrame EXCEPT !.key = CurrentId(s)]
    BY <1>5, <1>0 DEF ChannelUnregistered, Idle, NoManager, TypeOK, ManagerTypeOK
  <2>4. frame'[s].key = CurrentId(s) /\ frame'[s].todo = {}
    BY <2>3, <1>0, NoFrameType DEF Frame
  <2>5. InPlace(s)'
    BY <2>3, <2>4, <1>0 DEF InPlace
  <2> QED
    BY <2>1, <2>2, <2>3, <2>4, <2>5, <1>0 DEF OwnIds
<1>6. CASE RemoveBefore(s)
  <2>1. /\ stage[s] = "unregistering" /\ stage' = stage /\ pc[s] = "idle"
        /\ pc'[s] = "unpublish" /\ frame' = frame /\ Rest
        /\ SameRegistry /\ OnlineIsApart'
    BY <1>6, <1>0 DEF RemoveBefore, Idle, Call, NoManager, TypeOK, ManagerTypeOK
  <2>2. \A t \in Session : frame[s].key \in OwnIds(t) => t = s
    BY <2>1, <1>0 DEF CarefulApplication, UniqueIds
  <2>3. InPlace(s)'
    BY <2>1, <1>0 DEF InPlace
  <2> QED
    BY <2>1, <2>2, <2>3, <1>0 DEF OwnIds
<1>7. CASE RemoveBeforeThrows(s)
  BY <1>7, <1>0, <1>s DEF RemoveBeforeThrows, InPlace, Idle
<1> QED
  BY <1>1, <1>2, <1>3, <1>4, <1>5, <1>6, <1>7

-----------------------------------------------------------------------------
\* registerBefore gives an id to a session that is in no index yet.
LEMMA RegisterBeforeKeeps ==
  ASSUME CarefulApplication, RegistryInv, TypeInv', NEW s \in Session,
         RegisterBefore(s)
  PROVE  RegistryInv'
<1> USE DEF indexes, groups, collections
<1>0. TypeOK /\ s \in Proc /\ NoFrame \in Frame /\ NoFrame.todo = {}
  BY HandlersAssumption, NoFrameType DEF RegistryInv, NoFrame
<1>1. PICK i \in HookIds[s] : idOf' = [idOf EXCEPT ![s] = i]
  BY DEF RegisterBefore
<1>2. /\ stage[s] = "registering" /\ stage' = stage
      /\ pc[s] = "idle" /\ pc'[s] = "regCheck"
      /\ \A q \in Proc : q # s => pc'[q] = pc[q] /\ frame'[q] = frame[q]
      /\ idOf'[s] = i /\ i \in OwnIds(s)
      /\ \A t \in Session : t # s => idOf'[t] = idOf[t]
      /\ UNCHANGED <<closed, indexes, groups, collections>>
  BY <1>0, <1>1 DEF RegisterBefore, Idle, Call, NoManager, TypeOK, ManagerTypeOK,
     GroupTypeOK, OwnIds
<1>3. frame'[s].sess = s /\ frame'[s].todo = {}
  <2> DEFINE f == [NoFrame EXCEPT !.sess = s]
  <2>1. f.sess = s /\ f.todo = {}
    BY <1>0 DEF Frame
  <2>2. Call(s, "regCheck", f)
    BY DEF RegisterBefore
  <2> HIDE DEF f
  <2> QED
    BY <1>0, <2>1, <2>2 DEF Call, TypeOK, ManagerTypeOK
<1>4. CallsInPlace'
  BY <1>0, <1>2, <1>3, HandlersAssumption DEF RegistryInv, CallsInPlace, InPlace,
     InStage, Registering, Putting, Taking
<1>5. OnlineIsApart'
  BY <1>2 DEF RegistryInv, OnlineIsApart
<1>6. FiledUnderItsId' /\ NotYetListed'
  BY <1>2, HandlersAssumption DEF RegistryInv, FiledUnderItsId, Filed,
     NotYetListed, NotYet, Undecided, Early, Ended, OwnIds
<1>7. Inserted'
  BY <1>2, HandlersAssumption DEF RegistryInv, Inserted, SoFar, Registering, Putting
<1>8. RemovedAreOut'
  <2>1. \A t \in Session : Undecided(t)' = Undecided(t)
    BY <1>2, HandlersAssumption DEF Undecided, Ended
  <2> QED
    BY <1>2, <2>1 DEF RegistryInv, RemovedAreOut, Removes, Deregistering,
       Withdrawn, Out, Putting, Taking, OwnIds, TypeOK, ManagerTypeOK, Frame,
       ControlOK, ControlAt, Ready
<1>9. UnregistersOwn' /\ ClosedAfterRegistration' /\ FoundIsIndexed'
  BY <1>2, HandlersAssumption DEF RegistryInv, UnregistersOwn, OwnKey, OwnIds,
     ClosedAfterRegistration, FoundIsIndexed
<1> QED
  BY <1>4, <1>5, <1>6, <1>7, <1>8, <1>9 DEF RegistryInv, TypeInv

\* A channel that closes leaves the channel groups and nothing else.
LEMMA CloseKeeps ==
  ASSUME CarefulApplication, RegistryInv, TypeInv', NEW s \in Session, Close(s)
  PROVE  RegistryInv'
<1> USE DEF indexes, groups, managerVars
<1>1. /\ stage[s] = "open" /\ closed' = closed \cup {s}
      /\ channelGroup'[online] = channelGroup[online] \ {s}
      /\ groupSession'[online] = groupSession[online]
      /\ channelIdGroupSession'[online] = channelIdGroupSession[online]
      /\ UNCHANGED <<idOf, managerVars, stage>>
  BY ManagerAssumption DEF Close, DropFromChannelGroups
<1>2. CallsInPlace' /\ OnlineIsApart'
  BY <1>1 DEF RegistryInv, CallsInPlace, InPlace, InStage, Registering,
     OnlineIsApart
<1>3. FiledUnderItsId' /\ NotYetListed'
  BY <1>1 DEF RegistryInv, FiledUnderItsId, Filed, NotYetListed, NotYet,
     Undecided, Early, OwnIds
<1>4. Inserted'
  BY <1>1, HandlersAssumption DEF RegistryInv, CallsInPlace, InPlace, Inserted,
     SoFar, Registering
<1>5. RemovedAreOut'
  BY <1>1 DEF RegistryInv, RemovedAreOut, Removes, Deregistering, Withdrawn, Out,
     Undecided, OwnIds
<1>6. UnregistersOwn' /\ ClosedAfterRegistration' /\ FoundIsIndexed'
  BY <1>1 DEF RegistryInv, UnregistersOwn, OwnKey, OwnIds,
     ClosedAfterRegistration, FoundIsIndexed
<1> QED
  BY <1>2, <1>3, <1>4, <1>5, <1>6 DEF RegistryInv, TypeInv

-----------------------------------------------------------------------------
(* registrySession(session)                                                *)

\* What the handler of s does inside registrySession: it inserts s, under its
\* own id, takes nothing out, and publishes s when s is everywhere else.
Registers(s) ==
    /\ Alone(s) /\ stage' = stage /\ UNCHANGED <<idOf, closed, groups>>
    /\ Registering(s) /\ (Registering(s)' \/ pc'[s] \in Ended) /\ InPlace(s)'
    /\ \A i \in Id : onlineClient'[i] # onlineClient[i] =>
                      onlineClient'[i] = s /\ i = idOf[s] /\ pc'[s] \in Ended
    /\ \A i \in Id : groupSession'[online][i] # groupSession[online][i] =>
                      groupSession'[online][i] = s /\ i = idOf[s] /\ ~Early(s)'
    /\ Early(s)' => Early(s)
    /\ channelGroup[online] \subseteq channelGroup'[online]
    /\ channelIdGroupSession[online] \subseteq channelIdGroupSession'[online]
    /\ onlineChannelIdClient \subseteq onlineChannelIdClient'
    /\ SoFar(s)'
    /\ onlineClient'[idOf[s]] = s =>
         /\ s \in onlineChannelIdClient' /\ groupSession'[online][idOf[s]] = s
         /\ s \in channelIdGroupSession'[online] /\ s \in channelGroup'[online]

\* A step of registrySession keeps every part of the invariant.
LEMMA RegistersKeepsRegistry ==
  ASSUME CarefulApplication, RegistryInv, TypeInv', NEW s \in Session, Registers(s)
  PROVE  RegistryInv'
<1> USE DEF Registers, Alone, groups
<1>0. /\ s \in Proc /\ TypeOK
      /\ stage[s] = "registering" /\ Undecided(s) /\ idOf[s] \in OwnIds(s)
      /\ \A t \in Session : idOf[t] \in OwnIds(t)
      /\ \A t \in Session : t # s => OwnIds(t) \cap OwnIds(s) = {}
      /\ \A t \in Session : OwnIds(t)' = OwnIds(t)
  BY HandlersAssumption DEF RegistryInv, CallsInPlace, InPlace, Undecided, Ended,
     Registering, Putting, FiledUnderItsId, Filed, CarefulApplication, UniqueIds,
     OwnIds
<1>1. \A t \in Session : /\ t # s => Undecided(t)' = Undecided(t)
                         /\ t # s => Early(t)' = Early(t)
                         /\ ~Undecided(t) => t # s /\ ~Undecided(t)'
  BY <1>0, HandlersAssumption DEF Undecided, Early
<1>2. CallsInPlace' /\ OnlineIsApart'
  BY <1>0, HandlersAssumption DEF RegistryInv, CallsInPlace, InPlace, InStage,
     Registering, OnlineIsApart
<1>3. FiledUnderItsId'
  BY <1>0 DEF RegistryInv, FiledUnderItsId, Filed
<1>4. NotYetListed'
  <2>1. ASSUME NEW t \in Session, t # s PROVE NotYet(t)'
    BY <2>1, <1>1 DEF RegistryInv, NotYetListed, NotYet
  <2>2. NotYet(s)'
    BY <1>0 DEF RegistryInv, NotYetListed, NotYet, Undecided
  <2> QED
    BY <2>1, <2>2 DEF NotYetListed
<1>5. Inserted'
  <2>1. ASSUME NEW t \in Session, t # s PROVE SoFar(t)'
    <3>1. t \in Proc /\ pc'[t] = pc[t] /\ Registering(t)' = Registering(t)
      BY <2>1, HandlersAssumption DEF Registering
    <3>2. idOf[t] # idOf[s] /\ idOf[t] \in Id
      BY <1>0, <2>1 DEF TypeOK, GroupTypeOK
    <3> QED
      BY <2>1, <3>1, <3>2 DEF RegistryInv, Inserted, SoFar
  <2> QED
    BY <2>1 DEF Inserted
<1>6. RemovedAreOut'
  <2>1. ASSUME NEW q \in Proc, q # s PROVE Removes(q)'
    <3>1. /\ Removes(q) /\ Deregistering(q)' = Deregistering(q)
          /\ Withdrawn(q)' = Withdrawn(q)
          /\ pc'[q] = pc[q] /\ frame'[q] = frame[q]
      BY <2>1 DEF RegistryInv, RemovedAreOut, Deregistering, Withdrawn
    <3>2. \A t \in Session : Out(t) => Out(t)'
      BY <1>1 DEF Out
    <3>3. /\ frame[q].removed \in Session \cup {None} /\ frame[q].key \in Id
          /\ pc[q] \in {"removeChannel", "removeChannelId"} => frame[q].found \in Session
      BY DEF RegistryInv, TypeOK, ManagerTypeOK, Frame, ControlOK, ControlAt, Ready
    <3>4. Deregistering(q) => frame[q].key # idOf[s]
      BY <1>0, <3>1 DEF Removes
    <3>5. Withdrawn(q) => Deregistering(q)
      BY DEF Withdrawn
    <3> QED
      BY <3>1, <3>2, <3>3, <3>4, <3>5, <1>0, <1>1 DEF Removes
  <2>2. Removes(s)'
    BY <1>0 DEF Removes, Deregistering, Withdrawn, Registering, Putting, Taking, Ended
  <2> QED
    BY <2>1, <2>2 DEF RemovedAreOut
<1>7. UnregistersOwn' /\ ClosedAfterRegistration'
  BY <1>0, HandlersAssumption DEF RegistryInv, UnregistersOwn, OwnKey,
     ClosedAfterRegistration
<1>8. FoundIsIndexed'
  <2> SUFFICES ASSUME NEW i \in Id, onlineClient'[i] # None
               PROVE  /\ onlineClient'[i] \in onlineChannelIdClient'
                      /\ groupSession'[online][i] = onlineClient'[i]
                      /\ onlineClient'[i] \in channelIdGroupSession'[online]
                      /\ onlineClient'[i] \notin closed' =>
                            onlineClient'[i] \in channelGroup'[online]
    BY DEF FoundIsIndexed
  <2>1. CASE onlineClient'[i] = onlineClient[i]
    <3>1. onlineClient[i] \in Session /\ idOf[onlineClient[i]] = i
      BY <2>1, <1>0 DEF RegistryInv, FiledUnderItsId, Filed, TypeOK, ManagerTypeOK
    <3>2. onlineClient[i] # s
      BY <1>0 DEF RegistryInv, NotYetListed, NotYet
    <3>3. i # idOf[s]
      BY <3>1, <3>2, <1>0
    <3> QED
      BY <2>1, <3>3 DEF RegistryInv, FoundIsIndexed
  <2>2. CASE onlineClient'[i] # onlineClient[i]
    BY <2>2
  <2> QED
    BY <2>1, <2>2
<1> QED
  BY <1>2, <1>3, <1>4, <1>5, <1>6, <1>7, <1>8 DEF RegistryInv, TypeInv

\* Every step of registrySession is such a step.
LEMMA RegistrationRegisters ==
  ASSUME RegistryInv, TypeInv', NEW s \in Proc, stage' = stage,
         \/ CheckAbsent(s) \/ IndexChannel(s) \/ Publish(s)
         \/ AddSession(s) /\ frame[s].grp = online
         \/ AddChannel(s) /\ frame[s].grp = online
         \/ AddChannelId(s) /\ frame[s].grp = online
  PROVE  s \in Session /\ Registers(s)
<1> USE DEF indexes, groups, collections, groupVars, OnlyCollections
<1>1. Registering(s)
  BY DEF CheckAbsent, IndexChannel, Publish, AddSession, AddChannel, AddChannelId,
     Goto, Registering, Putting, RegistryInv, CallsInPlace, InPlace
<1>2. /\ s \in Session /\ stage[s] = "registering" /\ frame[s].sess = s
      /\ pc[s] # "regCheck" => frame[s].key = idOf[s]
      /\ online \notin frame[s].todo
      /\ TypeOK /\ SoFar(s) /\ NotYet(s) /\ s \notin closed
      /\ frame[s] \in Frame /\ online \in Group /\ idOf[s] \in Id
  BY <1>1, ManagerAssumption DEF RegistryInv, CallsInPlace, InPlace, Inserted,
     NotYetListed, ClosedAfterRegistration, TypeOK, ManagerTypeOK, GroupTypeOK
<1>3. \A i \in Id : onlineClient[i] # s
  BY <1>1, <1>2 DEF NotYet, Undecided, Registering, Putting, Ended
<1> USE DEF Registers, Alone, Registering, Putting, Taking, Ended, SoFar, Early
<1>4. CASE CheckAbsent(s)
  <2> DEFINE f == [frame[s] EXCEPT !.key = idOf[s], !.grp = online, !.back = "regIndex"]
  <2>1. /\ f.sess = s /\ f.key = idOf[s] /\ f.grp = online
        /\ f.back = "regIndex" /\ f.todo = frame[s].todo
    BY <1>2 DEF Frame
  <2>2. /\ pc[s] = "regCheck"
        /\ \/ pc'[s] = "refused" /\ frame'[s] = frame[s]
           \/ pc'[s] = "putSession" /\ frame'[s] = f
        /\ \A q \in Proc : q # s => pc'[q] = pc[q] /\ frame'[q] = frame[q]
    BY <1>2, <1>4 DEF CheckAbsent, Call, TypeOK, ManagerTypeOK
  <2> HIDE DEF f
  <2>3. InPlace(s)'
    BY <1>2, <1>4, <2>1, <2>2 DEF CheckAbsent, InPlace
  <2> QED
    BY <1>1, <1>2, <1>3, <1>4, <2>1, <2>2, <2>3 DEF CheckAbsent
<1>5. CASE IndexChannel(s) \/ Publish(s)
  <2>1. /\ frame' = frame /\ pc[s] \in {"regIndex", "regPublish"}
        /\ pc'[s] \in {"regPublish", "returned"}
        /\ \A q \in Proc : q # s => pc'[q] = pc[q]
    BY <1>2, <1>5 DEF IndexChannel, Publish, Goto, TypeOK
  <2>2. InPlace(s)'
    BY <1>2, <1>5, <2>1 DEF IndexChannel, Publish, InPlace
  <2>3. CASE IndexChannel(s)
    BY <1>1, <1>2, <1>3, <2>1, <2>2, <2>3 DEF IndexChannel, Goto, TypeOK
  <2>4. CASE Publish(s)
    BY <1>1, <1>2, <1>3, <2>1, <2>2, <2>4 DEF Publish, Goto, TypeOK, ManagerTypeOK
  <2> QED
    BY <1>5, <2>3, <2>4
<1>6. CASE frame[s].grp = online /\ (AddSession(s) \/ AddChannel(s) \/ AddChannelId(s))
  <2>1. /\ frame' = frame /\ pc[s] \in Putting /\ frame[s].back = "regIndex"
        /\ pc'[s] \in {"putChannel", "putChannelId", "regIndex"}
        /\ \A q \in Proc : q # s => pc'[q] = pc[q]
    BY <1>1, <1>2, <1>6 DEF AddSession, AddChannel, AddChannelId, Goto, TypeOK
  <2>2. InPlace(s)'
    BY <1>2, <1>6, <2>1 DEF AddSession, AddChannel, AddChannelId, InPlace
  <2>3. CASE AddSession(s)
    BY <1>1, <1>2, <1>3, <1>6, <2>1, <2>2, <2>3
       DEF AddSession, PutSession, Goto, TypeOK, GroupTypeOK
  <2>4. CASE AddChannel(s)
    BY <1>1, <1>2, <1>3, <1>6, <2>1, <2>2, <2>4
       DEF AddChannel, PutChannel, Goto, TypeOK, GroupTypeOK
  <2>5. CASE AddChannelId(s)
    BY <1>1, <1>2, <1>3, <1>6, <2>1, <2>2, <2>5
       DEF AddChannelId, PutChannelId, Goto, TypeOK, GroupTypeOK
  <2> QED
    BY <1>6, <2>3, <2>4, <2>5
<1> QED
  BY <1>4, <1>5, <1>6

-----------------------------------------------------------------------------
(* deregisterSession(id)                                                   *)

\* What thread p does inside deregisterSession up to the removal from the
\* channel index: it withdraws the id first, and takes out of the other
\* indexes only what is not listed any more.
Deregisters(p) ==
    /\ Alone(p) /\ stage' = stage /\ UNCHANGED <<idOf, closed, groups>>
    /\ Deregistering(p) /\ frame'[p].key = frame[p].key
    /\ pc'[p] \notin {"idle", "unpublish"} /\ ~Registering(p)' /\ InPlace(p)'
    /\ Removes(p)'
    /\ \A i \in Id : onlineClient'[i] \in {onlineClient[i], None}
    /\ \A i \in Id : groupSession'[online][i] # groupSession[online][i] =>
          groupSession'[online][i] = None /\ onlineClient'[i] = None /\ i = frame[p].key
    /\ \A s \in Session :
          /\ s \in channelGroup[online] \ channelGroup'[online] => Out(s)
          /\ s \in channelIdGroupSession[online] \ channelIdGroupSession'[online] => Out(s)
          /\ s \in onlineChannelIdClient \ onlineChannelIdClient' => Out(s)

\* A step of deregisterSession keeps every part of the invariant.
LEMMA DeregistersKeepsRegistry ==
  ASSUME RegistryInv, TypeInv', NEW p \in Proc, Deregisters(p)
  PROVE  RegistryInv'
<1> USE DEF Deregisters, Alone, groups
<1>0. /\ TypeOK /\ ~Registering(p) /\ pc[p] \notin {"idle"} \cup Ended
      /\ \A t \in Session : idOf[t] \in OwnIds(t) /\ idOf[t] \in Id
      /\ \A t \in Session : OwnIds(t)' = OwnIds(t)
  BY DEF RegistryInv, Deregistering, Registering, Putting, Taking, Ended, TypeOK,
     FiledUnderItsId, Filed, GroupTypeOK, OwnIds
<1>1. \A t \in Session : /\ Undecided(t)' = Undecided(t) /\ (Early(t)' => Early(t))
                         /\ t = p => stage[t] \notin {"new", "registering"}
  <2>1. p \in Session => stage[p] \notin {"new", "registering"}
    BY <1>0 DEF RegistryInv, CallsInPlace, InStage, Ended
  <2> QED
    BY <2>1, HandlersAssumption DEF Undecided, Early
<1>2. CallsInPlace' /\ OnlineIsApart'
  BY <1>0, <1>1, HandlersAssumption DEF RegistryInv, CallsInPlace, InPlace, InStage,
     Registering, OnlineIsApart
<1>3. FiledUnderItsId' /\ NotYetListed'
  BY <1>0, <1>1, NoneAssumption DEF RegistryInv, FiledUnderItsId, Filed,
     NotYetListed, NotYet
<1>4. Inserted'
  <2> SUFFICES ASSUME NEW t \in Session, Registering(t)' PROVE SoFar(t)'
    BY DEF Inserted, SoFar
  <2>1. t # p /\ t \in Proc
    BY HandlersAssumption
  <2>2. Registering(t) /\ pc'[t] = pc[t] /\ SoFar(t)
    BY <2>1 DEF Registering, RegistryInv, Inserted
  <2>3. Undecided(t)
    BY <2>1, <2>2 DEF RegistryInv, CallsInPlace, InPlace, Undecided, Registering,
       Putting, Ended
  <2>4. frame[p].key # idOf[t]
    BY <1>0, <2>3 DEF RegistryInv, RemovedAreOut, Removes
  <2> QED
    BY <1>0, <2>2, <2>3, <2>4 DEF SoFar, Out
<1>5. RemovedAreOut'
  <2>1. ASSUME NEW q \in Proc, q # p PROVE Removes(q)'
    <3>1. /\ Removes(q) /\ Deregistering(q)' = Deregistering(q)
          /\ Withdrawn(q)' = Withdrawn(q)
          /\ pc'[q] = pc[q] /\ frame'[q] = frame[q]
      BY <2>1 DEF RegistryInv, RemovedAreOut, Deregistering, Withdrawn
    <3>2. \A t \in Session : Out(t) => Out(t)'
      BY <1>1, NoneAssumption DEF Out
    <3>3. /\ frame[q].removed \in Session \cup {None} /\ frame[q].key \in Id
          /\ pc[q] \in {"removeChannel", "removeChannelId"} => frame[q].found \in Session
      BY DEF RegistryInv, TypeOK, ManagerTypeOK, Frame, ControlOK, ControlAt, Ready
    <3> QED
      BY <3>1, <3>2, <3>3, <1>0, <1>1 DEF Removes
  <2> QED
    BY <2>1 DEF RemovedAreOut
<1>6. UnregistersOwn' /\ ClosedAfterRegistration'
  BY <1>0, HandlersAssumption DEF RegistryInv, UnregistersOwn, OwnKey,
     ClosedAfterRegistration
<1>7. FoundIsIndexed'
  <2> SUFFICES ASSUME NEW i \in Id, onlineClient'[i] # None
               PROVE  /\ onlineClient'[i] \in onlineChannelIdClient'
                      /\ groupSession'[online][i] = onlineClient'[i]
                      /\ onlineClient'[i] \in channelIdGroupSession'[online]
                      /\ onlineClient'[i] \notin closed' =>
                            onlineClient'[i] \in channelGroup'[online]
    BY DEF FoundIsIndexed
  <2>1. /\ onlineClient'[i] = onlineClient[i] /\ onlineClient[i] \in Session
        /\ ~Out(onlineClient[i])
    BY <1>0 DEF Out, TypeOK, ManagerTypeOK
  <2> QED
    BY <2>1 DEF RegistryInv, FoundIsIndexed
<1> QED
  BY <1>2, <1>3, <1>4, <1>5, <1>6, <1>7 DEF RegistryInv, TypeInv

\* Every step of deregisterSession up to there is such a step.
LEMMA DeregistrationDeregisters ==
  ASSUME RegistryInv, TypeInv', NEW p \in Proc, stage' = stage,
         \/ Unpublish(p) \/ Unindex(p)
         \/ TakeSession(p) /\ frame[p].grp = online
         \/ TakeChannel(p) /\ frame[p].grp = online
         \/ TakeChannelId(p) /\ frame[p].grp = online
  PROVE  Deregisters(p)
<1> USE DEF indexes, groups, collections, groupVars, OnlyCollections
<1>1. Deregistering(p) /\ (Withdrawn(p) <=> pc[p] # "unpublish")
  BY DEF Unpublish, Unindex, TakeSession, TakeChannel, TakeChannelId, Goto,
     Deregistering, Withdrawn, Taking, RegistryInv, CallsInPlace, InPlace
<1>2. /\ TypeOK /\ Removes(p) /\ InPlace(p) /\ online \notin frame[p].todo
      /\ frame[p] \in Frame /\ frame[p].key \in Id /\ online \in Group
      /\ pc[p] \in {"removeChannel", "removeChannelId"} => frame[p].found \in Session
      /\ \A t \in Session : OwnIds(t)' = OwnIds(t)
  BY ManagerAssumption DEF RegistryInv, CallsInPlace, InPlace, RemovedAreOut,
     TypeOK, ManagerTypeOK, ControlOK, ControlAt, Ready, OwnIds, Frame
<1>3. \A t \in Session : t = p => stage[t] \notin {"new", "registering"}
  BY <1>1 DEF RegistryInv, CallsInPlace, InStage, Ended, Deregistering,
     Registering, Putting, Taking
<1>4. ASSUME \A q \in Proc : q # p => pc'[q] = pc[q]
      PROVE  \A t \in Session : Undecided(t)' = Undecided(t)
  BY <1>3, <1>4, HandlersAssumption DEF Undecided
<1>5. \A t \in Session, i \in Id :
         /\ onlineClient[i] = t => idOf[t] = i /\ ~Undecided(t)
         /\ groupSession[online][i] = t => idOf[t] = i
         /\ idOf[t] \in OwnIds(t)
  BY DEF RegistryInv, FiledUnderItsId, Filed, NotYetListed, NotYet
<1> USE DEF Deregisters, Alone
<1>6. CASE Unpublish(p)
  <2> DEFINE r == onlineClient[frame[p].key]
             f == [frame[p] EXCEPT !.removed = r, !.grp = online, !.back = "unindex"]
  <2>1. /\ f.key = frame[p].key /\ f.removed = r /\ f.grp = online
        /\ f.back = "unindex" /\ f.todo = frame[p].todo
    BY <1>2 DEF Frame
  <2>2. r \in Session \cup {None}
    BY <1>2 DEF TypeOK, ManagerTypeOK
  <2>3. /\ pc[p] = "unpublish" /\ pc'[p] = "removeSession" /\ frame'[p] = f
        /\ \A q \in Proc : q # p => pc'[q] = pc[q] /\ frame'[q] = frame[q]
        /\ \A i \in Id : onlineClient'[i] = IF i = frame[p].key THEN None
                                                         ELSE onlineClient[i]
    BY <1>2, <1>6 DEF Unpublish, Call, TypeOK, ManagerTypeOK
  <2>4. \A t \in Session : Undecided(t)' = Undecided(t)
    BY <1>4, <2>3
  <2>5. \A t \in Session : t = r => Out(t)'
    BY <1>2, <1>5, <2>2, <2>3, <2>4, NoneAssumption DEF Out
  <2> HIDE DEF r, f
  <2>6. Removes(p)'
    BY <1>1, <1>2, <2>1, <2>2, <2>3, <2>4, <2>5 DEF Removes, Deregistering,
       Withdrawn, Taking
  <2>7. InPlace(p)' /\ ~Registering(p)'
    BY <1>2, <2>1, <2>3 DEF InPlace, Registering, Putting, Taking
  <2> QED
    BY <1>1, <1>2, <1>6, <2>1, <2>3, <2>6, <2>7 DEF Unpublish
<1>7. CASE Unindex(p)
  <2>1. /\ pc[p] = "unindex" /\ pc'[p] \in {"threw", "lock"} /\ frame' = frame
        /\ \A q \in Proc : q # p => pc'[q] = pc[q]
        /\ UNCHANGED <<idOf, closed, groups, onlineClient, collections>>
        /\ onlineChannelIdClient \ onlineChannelIdClient' \subseteq {frame[p].removed} \ {None}
    BY <1>2, <1>7 DEF Unindex, Goto, TypeOK
  <2>2. InPlace(p)' /\ ~Registering(p)' /\ Removes(p)'
    BY <1>2, <2>1 DEF InPlace, Registering, Removes, Deregistering, Withdrawn,
       Putting, Taking
  <2> QED
    BY <1>1, <1>2, <2>1, <2>2 DEF Removes
<1>8. CASE TakeSession(p) /\ frame[p].grp = online
  <2> DEFINE x == groupSession[online][frame[p].key]
             f == [frame[p] EXCEPT !.found = x]
  <2>1. /\ f.key = frame[p].key /\ f.removed = frame[p].removed /\ f.grp = online
        /\ f.back = frame[p].back /\ f.todo = frame[p].todo /\ f.found = x
    BY <1>2, <1>8 DEF Frame
  <2>2. x \in Session \cup {None}
    BY <1>2 DEF TypeOK, GroupTypeOK
  <2>3. /\ pc[p] = "removeSession" /\ frame[p].back = "unindex"
        /\ pc'[p] = IF x = None THEN "unindex" ELSE "removeChannel"
        /\ frame'[p] = f
        /\ \A q \in Proc : q # p => pc'[q] = pc[q] /\ frame'[q] = frame[q]
    BY <1>1, <1>2, <1>8 DEF TakeSession, Goto, TypeOK, ManagerTypeOK, InPlace, Taking
  <2>4. /\ \A i \in Id : groupSession'[online][i] =
                           IF i = frame[p].key THEN None ELSE groupSession[online][i]
        /\ UNCHANGED <<channelGroup, channelIdGroupSession, indexes, groups, idOf, closed>>
    BY <1>2, <1>8 DEF TakeSession, RemoveSession, TypeOK, GroupTypeOK
  <2>5. onlineClient[frame[p].key] = None
    BY <1>1, <1>2, <2>3 DEF Removes
  <2>6. \A t \in Session : Undecided(t)' = Undecided(t)
    BY <1>4, <2>3
  <2>7. x # None => Out(x)
    BY <1>1, <1>2, <1>5, <2>2, <2>5, NoneAssumption DEF Out, Removes
  <2>8. \A t \in Session : Out(t) => Out(t)'
    BY <2>4, <2>6 DEF Out
  <2> HIDE DEF x, f
  <2>9. Removes(p)'
    <3>1. frame[p].removed \in Session \cup {None}
      BY <1>2 DEF Frame
    <3>2. Withdrawn(p) /\ pc'[p] \in {"unindex", "removeChannel"}
      BY <1>1, <2>3
    <3> QED
      BY <1>1, <1>2, <2>1, <2>2, <2>3, <2>4, <2>5, <2>6, <2>7, <2>8, <3>1, <3>2
         DEF Removes
  <2>10. InPlace(p)' /\ ~Registering(p)'
    BY <1>2, <2>1, <2>3 DEF InPlace, Registering, Putting, Taking
  <2> QED
    BY <1>1, <1>2, <2>1, <2>3, <2>4, <2>5, <2>9, <2>10
<1>9. CASE (TakeChannel(p) \/ TakeChannelId(p)) /\ frame[p].grp = online
  <2>1. /\ pc[p] \in {"removeChannel", "removeChannelId"} /\ frame' = frame
        /\ frame[p].back = "unindex"
        /\ pc'[p] \in {"removeChannelId", "unindex"}
        /\ \A q \in Proc : q # p => pc'[q] = pc[q]
        /\ UNCHANGED <<indexes, groups, idOf, closed>>
    BY <1>1, <1>2, <1>9 DEF TakeChannel, TakeChannelId, Goto, TypeOK, InPlace, Taking
  <2>2. /\ groupSession' = groupSession
        /\ channelGroup[online] \ channelGroup'[online] \subseteq {frame[p].found}
        /\ channelIdGroupSession[online] \ channelIdGroupSession'[online]
              \subseteq {frame[p].found}
    BY <1>2, <1>9 DEF TakeChannel, TakeChannelId, RemoveChannel, RemoveChannelId,
       TypeOK, GroupTypeOK
  <2>3. \A t \in Session : Undecided(t)' = Undecided(t) /\ Out(t)' = Out(t)
    <3>1. \A t \in Session : Undecided(t)' = Undecided(t)
      BY <1>4, <2>1
    <3> QED
      BY <2>1, <3>1 DEF Out
  <2>4. Removes(p)'
    <3>1. frame[p].removed \in Session \cup {None}
      BY <1>2 DEF Frame
    <3> QED
      BY <1>1, <1>2, <2>1, <2>3, <3>1 DEF Removes
  <2>5. InPlace(p)' /\ ~Registering(p)'
    BY <1>2, <1>9, <2>1 DEF InPlace, Registering, Putting, Taking
  <2> QED
    BY <1>1, <1>2, <2>1, <2>2, <2>4, <2>5 DEF Removes
<1> QED
  BY <1>6, <1>7, <1>8, <1>9

-----------------------------------------------------------------------------
\* The empty registry.
LEMMA InitRegistry == ASSUME CarefulApplication, Init PROVE RegistryInv
<1>0. TypeInv
  BY InitType
<1> USE DEF Init, ManagerInit, GroupInit
<1>1. CallsInPlace
  BY HandlersAssumption, ManagerAssumption DEF CallsInPlace, InPlace, InStage,
     Registering, Putting, Taking, NoFrame
<1>2. OnlineIsApart
  BY HandlersAssumption DEF OnlineIsApart
<1>3. FiledUnderItsId /\ NotYetListed
  BY HandlersAssumption, NoneAssumption, ManagerAssumption DEF FiledUnderItsId,
     Filed, OwnIds, NotYetListed, NotYet
<1>4. Inserted
  BY HandlersAssumption DEF Inserted, SoFar, Registering, Putting
<1>5. RemovedAreOut
  BY DEF RemovedAreOut, Removes, Deregistering, Withdrawn, Taking
<1>6. UnregistersOwn /\ ClosedAfterRegistration /\ FoundIsIndexed
  BY DEF UnregistersOwn, OwnKey, ClosedAfterRegistration, FoundIsIndexed
<1> QED
  BY <1>0, <1>1, <1>2, <1>3, <1>4, <1>5, <1>6 DEF RegistryInv, TypeInv

\* Every step keeps the invariant.
LEMMA StepRegistry ==
  ASSUME CarefulApplication, RegistryInv, [Next]_vars
  PROVE  RegistryInv'
<1>1. TypeInv'
  BY StepType DEF RegistryInv, TypeInv
<1>2. ASSUME NEW s \in Session,
             ChannelRegistered(s) \/ Login(s) \/ Close(s) \/ LoopStep(s)
      PROVE  RegistryInv'
  <2>1. s \in Proc /\ ~Login(s) /\ ~ManualUnregistered(s)
    BY HandlersAssumption DEF CarefulApplication, Login, ManualUnregistered
  <2>2. CASE RegisterBefore(s)
    BY <1>1, <2>2, RegisterBeforeKeeps
  <2>3. CASE Close(s)
    BY <1>1, <2>3, CloseKeeps
  <2>4. CASE ~RegisterBefore(s) /\ ~Close(s)
    <3>1. Aside(s)
      BY <1>2, <2>1, <2>4, HandlerStepAside DEF LoopStep
    <3> QED
      BY <1>1, <2>1, <3>1, AsideKeepsRegistry
  <2> QED
    BY <2>2, <2>3, <2>4
<1>3. ASSUME NEW a \in App, AppStep(a) PROVE RegistryInv'
  BY <1>1, <1>3, AppStepAside, AsideKeepsRegistry, HandlersAssumption
<1>4. ASSUME NEW p \in Proc, Step(p) PROVE RegistryInv'
  <2>1. ManagerStep(p) /\ stage' = stage
    BY <1>4 DEF Step
  <2>2. CASE \/ GetGroup(p) \/ GetGroupRemove(p)
             \/ CreateCheck(p) \/ CreatePut(p) \/ RemoveGroup(p)
             \/ FindSessionInGroup(p) \/ Clean(p)
    BY <1>1, <2>1, <2>2, GroupMethodsAside, AsideKeepsRegistry
  <2>3. CASE \/ CheckAbsent(p) \/ IndexChannel(p) \/ Publish(p)
             \/ AddSession(p) /\ frame[p].grp = online
             \/ AddChannel(p) /\ frame[p].grp = online
             \/ AddChannelId(p) /\ frame[p].grp = online
    BY <1>1, <2>1, <2>3, RegistrationRegisters, RegistersKeepsRegistry
  <2>4. CASE \/ Unpublish(p) \/ Unindex(p)
             \/ TakeSession(p) /\ frame[p].grp = online
             \/ TakeChannel(p) /\ frame[p].grp = online
             \/ TakeChannelId(p) /\ frame[p].grp = online
    BY <1>1, <2>1, <2>4, DeregistrationDeregisters, DeregistersKeepsRegistry
  <2>5. CASE /\ frame[p].grp # online
             /\ \/ AddSession(p) \/ AddChannel(p) \/ AddChannelId(p)
                \/ TakeSession(p) \/ TakeChannel(p) \/ TakeChannelId(p)
    BY <1>1, <2>1, <2>5, MembershipAside, AsideKeepsRegistry
  <2> QED
    BY <2>1, <2>2, <2>3, <2>4, <2>5 DEF ManagerStep
<1>5. CASE UNCHANGED vars
  BY <1>5 DEF vars, groupVars, managerVars, indexes, groups, collections,
     RegistryInv, TypeOK, GroupTypeOK, ManagerTypeOK, ControlOK, ControlAt, Ready,
     CallsInPlace, InPlace, InStage, OnlineIsApart, FiledUnderItsId, Filed,
     NotYetListed, NotYet, Undecided, Early, Inserted, SoFar, RemovedAreOut,
     Removes, Registering, Deregistering, Withdrawn, Out, OwnIds, UnregistersOwn,
     OwnKey, ClosedAfterRegistration, FoundIsIndexed
<1> QED
  BY <1>2, <1>3, <1>4, <1>5 DEF Next

\* The invariant of the registry holds whenever the application is careful.
THEOREM RegistryInvariant == CarefulApplication => (Spec => []RegistryInv)
<1> SUFFICES ASSUME CarefulApplication PROVE Spec => []RegistryInv
  OBVIOUS
<1>1. Init => RegistryInv
  BY InitRegistry
<1>2. RegistryInv /\ [Next]_vars => RegistryInv'
  BY StepRegistry
<1> QED
  BY <1>1, <1>2, PTL DEF Spec

\* What findSession(id) returns is complete: the session is in the index by
\* channel id, in the group of all clients under the same id, and, while its
\* channel is open, among the channels of sendBroadcast; no thread sees
\* registrySession or deregisterSession half done.
THEOREM FoundSessionsAreIndexed == CarefulApplication => (Spec => []FoundIsIndexed)
<1> SUFFICES ASSUME CarefulApplication PROVE Spec => []FoundIsIndexed
  OBVIOUS
<1>1. Spec => []RegistryInv
  BY RegistryInvariant
<1>2. RegistryInv => FoundIsIndexed
  BY DEF RegistryInv
<1> QED
  BY <1>1, <1>2, PTL
-----------------------------------------------------------------------------
(* The refinement of SessionDirectory under a careful application.         *)

\* What a step must not touch to leave the fate of session s as it is.
LEMMA SameFate ==
  ASSUME NEW s \in Session, Undecided(s)' = Undecided(s),
         \A i \in Id : (onlineClient'[i] = s) <=> (onlineClient[i] = s)
  PROVE  Fate'[s] = Fate[s]
  BY DEF Fate

\* The fate of one session changes to f.
LEMMA FateUpdate ==
  ASSUME NEW s \in Session, NEW f, Fate'[s] = f,
         \A t \in Session : t # s => Fate'[t] = Fate[t]
  PROVE  Fate' = [Fate EXCEPT ![s] = f]
<1>1. DOMAIN Fate = Session /\ DOMAIN Fate' = Session
  BY DEF Fate
<1>2. Fate = [t \in Session |-> Fate[t]] /\ Fate' = [t \in Session |-> Fate'[t]]
  BY DEF Fate
<1> QED
  BY <1>1, <1>2

\* A session whose registration has come to nothing is never listed.
LEMMA DecisionDeclines ==
  ASSUME RegistryInv, NEW s \in Session, onlineClient' = onlineClient,
         \A t \in Session : t # s => Undecided(t)' = Undecided(t),
         Undecided(s)' => Undecided(s)
  PROVE  [Directory!Next]_<<onlineClient, Fate>>
<1>1. CASE Undecided(s)' = Undecided(s)
  <2>1. \A t \in Session : Fate'[t] = Fate[t]
    BY <1>1, SameFate
  <2>2. Fate' = Fate
    BY <2>1 DEF Fate
  <2> QED
    BY <2>2
<1>2. CASE Undecided(s) /\ ~Undecided(s)'
  <2>1. \A i \in Id : onlineClient[i] # s
    BY <1>2 DEF RegistryInv, NotYetListed, NotYet
  <2>2. Fate[s] = "outside" /\ Fate'[s] = "done"
    BY <1>2, <2>1 DEF Fate
  <2>3. \A t \in Session : t # s => Fate'[t] = Fate[t]
    BY SameFate
  <2>4. Fate' = [Fate EXCEPT ![s] = "done"]
    BY <2>2, <2>3, FateUpdate
  <2>5. Directory!Decline(s)
    BY <2>2, <2>4 DEF Directory!Decline
  <2> QED
    BY <2>5 DEF Directory!Next
<1> QED
  BY <1>1, <1>2 DEF Undecided

\* A step of registrySession lists the session of its handler under an id that
\* is free, or declines it, or decides nothing yet.
LEMMA RegistrationLists ==
  ASSUME CarefulApplication, RegistryInv, TypeInv', NEW s \in Session, Registers(s)
  PROVE  [Directory!Next]_<<onlineClient, Fate>>
<1>1. /\ TypeOK /\ Undecided(s) /\ idOf[s] \in Id /\ s \in Proc
      /\ onlineClient \in [Id -> Session \cup {None}]
      /\ onlineClient' \in [Id -> Session \cup {None}]
      /\ \A i \in Id : onlineClient[i] # s
  BY HandlersAssumption DEF Registers, RegistryInv, CallsInPlace, InPlace, Undecided,
     Ended, Registering, Putting, NotYetListed, NotYet, TypeInv, TypeOK, ManagerTypeOK,
     GroupTypeOK
<1>2. /\ \A t \in Session : t # s => Undecided(t)' = Undecided(t)
      /\ Undecided(s)' => Undecided(s)
  BY <1>1, HandlersAssumption DEF Registers, Alone, Undecided
<1>3. CASE onlineClient' = onlineClient
  BY <1>2, <1>3, DecisionDeclines
<1>4. CASE onlineClient' # onlineClient
  <2>1. PICK i \in Id : onlineClient'[i] # onlineClient[i]
    BY <1>1, <1>4
  <2>2. /\ i = idOf[s] /\ onlineClient'[i] = s /\ pc'[s] \in Ended
        /\ \A j \in Id : j # i => onlineClient'[j] = onlineClient[j]
    BY <2>1 DEF Registers
  <2>3. onlineClient[i] = None
    <3>1. idOf[s] \in OwnIds(s)
      BY DEF RegistryInv, FiledUnderItsId, Filed
    <3> QED
      BY <1>1, <2>2, <3>1, OnlineIsDecided
  <2>4. onlineClient' = [onlineClient EXCEPT ![i] = s]
    BY <1>1, <2>2
  <2>5. Fate[s] = "outside" /\ Fate'[s] = "listed"
    <3>1. ~Undecided(s)'
      BY <1>1, <2>2 DEF Undecided, Registers, RegistryInv, CallsInPlace, InPlace
    <3> QED
      BY <1>1, <2>2, <3>1 DEF Fate
  <2>6. \A t \in Session : t # s => Fate'[t] = Fate[t]
    BY <1>2, <2>2, <2>3, SameFate, NoneAssumption
  <2>7. Fate' = [Fate EXCEPT ![s] = "listed"]
    BY <2>5, <2>6, FateUpdate
  <2>8. Directory!List(s, i)
    BY <2>3, <2>4, <2>5, <2>7 DEF Directory!List
  <2> QED
    BY <2>8 DEF Directory!Next
<1> QED
  BY <1>3, <1>4

\* The first step of deregisterSession takes the session it finds under the id
\* out of the directory; the others leave the directory alone.
LEMMA DeregistrationDelists ==
  ASSUME RegistryInv, TypeInv', NEW p \in Proc, Deregisters(p),
         \/ onlineClient' = onlineClient
         \/ onlineClient' = [onlineClient EXCEPT ![frame[p].key] = None]
  PROVE  [Directory!Next]_<<onlineClient, Fate>>
<1> DEFINE i == frame[p].key
           s == onlineClient[i]
<1>1. /\ TypeOK /\ i \in Id /\ s \in Session \cup {None} /\ pc[p] \notin {"idle"} \cup Ended
      /\ onlineClient \in [Id -> Session \cup {None}]
  BY DEF RegistryInv, TypeOK, ManagerTypeOK, Frame, Deregisters, Deregistering, Taking,
     Ended
<1>2. \A t \in Session : Undecided(t)' = Undecided(t)
  <2>1. p \in Session => stage[p] \notin {"new", "registering"}
    BY <1>1 DEF RegistryInv, CallsInPlace, InStage, Registering, Deregisters, Deregistering,
       Putting, Taking, Ended
  <2> QED
    BY <2>1, HandlersAssumption DEF Deregisters, Alone, Undecided
<1>3. CASE onlineClient' = onlineClient
  <2>1. \A t \in Session : Fate'[t] = Fate[t]
    BY <1>2, <1>3, SameFate
  <2>2. Fate' = Fate
    BY <2>1 DEF Fate
  <2> QED
    BY <1>3, <2>2
<1>4. CASE onlineClient' # onlineClient
  <2>1. onlineClient' = [onlineClient EXCEPT ![i] = None] /\ s # None
    BY <1>1, <1>4
  <2>2. s \in Session /\ \A j \in Id : onlineClient[j] = s => j = i
    BY <1>1, <2>1 DEF RegistryInv, FiledUnderItsId, Filed
  <2>3. ~Undecided(s)
    BY <1>1, <2>2 DEF RegistryInv, NotYetListed, NotYet
  <2>4. Fate[s] = "listed" /\ Fate'[s] = "done"
    BY <1>1, <1>2, <2>1, <2>2, <2>3 DEF Fate
  <2>5. \A t \in Session : t # s => Fate'[t] = Fate[t]
    BY <1>1, <1>2, <2>1, <2>2, SameFate, NoneAssumption
  <2>6. Fate' = [Fate EXCEPT ![s] = "done"]
    BY <2>2, <2>4, <2>5, FateUpdate
  <2>7. Directory!Delist(s, i)
    BY <2>1, <2>4, <2>6 DEF Directory!Delist
  <2> HIDE DEF s, i
  <2> QED
    BY <1>1, <2>2, <2>7 DEF Directory!Next
<1> QED
  BY <1>3, <1>4

\* Every step of the server is a step of the directory or leaves it alone.
LEMMA StepDirectory ==
  ASSUME CarefulApplication, RegistryInv, [Next]_vars
  PROVE  [Directory!Next]_<<onlineClient, Fate>>
<1>1. TypeInv'
  BY StepType DEF RegistryInv, TypeInv
<1>2. ASSUME NEW p \in Proc, Aside(p)
      PROVE  [Directory!Next]_<<onlineClient, Fate>>
  <2>1. \A t \in Session : t # p => Undecided(t)' = Undecided(t)
    BY <1>2, HandlersAssumption DEF Aside, Alone, Undecided
  <2>2. CASE p \in Session
    BY <1>2, <2>1, <2>2, DecisionDeclines DEF Aside, SameRegistry
  <2>3. CASE p \notin Session
    <3>1. \A t \in Session : Fate'[t] = Fate[t]
      BY <1>2, <2>1, <2>3, SameFate DEF Aside, SameRegistry
    <3>2. Fate' = Fate
      BY <3>1 DEF Fate
    <3> QED
      BY <1>2, <3>2 DEF Aside, SameRegistry
  <2> QED
    BY <2>2, <2>3
<1>3. ASSUME NEW s \in Session,
             ChannelRegistered(s) \/ Login(s) \/ Close(s) \/ LoopStep(s)
      PROVE  [Directory!Next]_<<onlineClient, Fate>>
  <2>1. s \in Proc /\ ~Login(s) /\ ~ManualUnregistered(s)
    BY HandlersAssumption DEF CarefulApplication, Login, ManualUnregistered
  <2>2. CASE RegisterBefore(s) \/ Close(s)
    <3>1. /\ \A t \in Session : Undecided(t)' = Undecided(t)
          /\ onlineClient' = onlineClient
      BY <2>1, <2>2, HandlersAssumption DEF RegisterBefore, Close, Call, NoManager, indexes,
         managerVars, Idle, Undecided, Ended, RegistryInv, TypeOK
    <3> QED
      BY <3>1, DecisionDeclines
  <2>3. CASE ~RegisterBefore(s) /\ ~Close(s)
    <3>1. Aside(s)
      BY <1>3, <2>1, <2>3, HandlerStepAside DEF LoopStep
    <3> QED
      BY <1>2, <2>1, <3>1
  <2> QED
    BY <2>2, <2>3
<1>4. ASSUME NEW a \in App, AppStep(a)
      PROVE  [Directory!Next]_<<onlineClient, Fate>>
  BY <1>2, <1>4, AppStepAside, HandlersAssumption
<1>5. ASSUME NEW p \in Proc, Step(p)
      PROVE  [Directory!Next]_<<onlineClient, Fate>>
  <2>1. ManagerStep(p) /\ stage' = stage
    BY <1>5 DEF Step
  <2>2. CASE \/ GetGroup(p) \/ GetGroupRemove(p)
             \/ CreateCheck(p) \/ CreatePut(p) \/ RemoveGroup(p)
             \/ FindSessionInGroup(p) \/ Clean(p)
    BY <1>1, <1>2, <2>1, <2>2, GroupMethodsAside
  <2>3. CASE \/ CheckAbsent(p) \/ IndexChannel(p) \/ Publish(p)
             \/ AddSession(p) /\ frame[p].grp = online
             \/ AddChannel(p) /\ frame[p].grp = online
             \/ AddChannelId(p) /\ frame[p].grp = online
    BY <1>1, <2>1, <2>3, RegistrationRegisters, RegistrationLists
  <2>4. CASE \/ Unpublish(p) \/ Unindex(p)
             \/ TakeSession(p) /\ frame[p].grp = online
             \/ TakeChannel(p) /\ frame[p].grp = online
             \/ TakeChannelId(p) /\ frame[p].grp = online
    <3>1. Deregisters(p)
      BY <1>1, <2>1, <2>4, DeregistrationDeregisters
    <3>2. \/ onlineClient' = onlineClient
          \/ onlineClient' = [onlineClient EXCEPT ![frame[p].key] = None]
      BY <2>4 DEF Unpublish, Unindex, TakeSession, TakeChannel, TakeChannelId,
         OnlyCollections, indexes
    <3> QED
      BY <1>1, <3>1, <3>2, DeregistrationDelists
  <2>5. CASE /\ frame[p].grp # online
             /\ \/ AddSession(p) \/ AddChannel(p) \/ AddChannelId(p)
                \/ TakeSession(p) \/ TakeChannel(p) \/ TakeChannelId(p)
    BY <1>1, <1>2, <2>1, <2>5, MembershipAside
  <2> QED
    BY <2>1, <2>2, <2>3, <2>4, <2>5 DEF ManagerStep
<1>6. CASE UNCHANGED vars
  <2>1. /\ \A t \in Session : Undecided(t)' = Undecided(t)
        /\ onlineClient' = onlineClient
    BY <1>6 DEF vars, managerVars, indexes, Undecided
  <2>2. \A t \in Session : Fate'[t] = Fate[t]
    BY <2>1, SameFate
  <2>3. Fate' = Fate
    BY <2>2 DEF Fate
  <2> QED
    BY <2>1, <2>3
<1> QED
  BY <1>3, <1>4, <1>5, <1>6 DEF Next

\* The initial states are those of the directory.
LEMMA InitDirectory == ASSUME CarefulApplication, Init PROVE Directory!Init
<1>1. \A s \in Session : Undecided(s)
  BY DEF Init, Undecided
<1> QED
  BY <1>1 DEF Init, ManagerInit, Directory!Init, Fate

\* Finding by id sees one atomic directory with unique keys: every step of
\* registrySession and deregisterSession lists one session under a free id,
\* declines it, takes it out for good, or changes nothing that can be found.
THEOREM HandlersImplementDirectory == CarefulApplication => (Spec => ImplementsDirectory)
<1> SUFFICES ASSUME CarefulApplication PROVE Spec => ImplementsDirectory
  OBVIOUS
<1>1. Init => Directory!Init
  BY InitDirectory
<1>2. RegistryInv /\ [Next]_vars => [Directory!Next]_<<onlineClient, Fate>>
  BY StepDirectory
<1>3. Spec => []RegistryInv
  BY RegistryInvariant
<1> QED
  BY <1>1, <1>2, <1>3, PTL DEF Spec, ImplementsDirectory, Directory!Spec
=============================================================================
