------------------------- MODULE SessionGroups_proofs -------------------------
(***************************************************************************)
(* GoneIsForgotten.  What the application does with its groups decides     *)
(* which invariant is needed.  If nobody joins them they are empty; if     *)
(* only the registered hooks do, a session is in a group under its own id, *)
(* stays listed until its own handler withdraws it, and that handler then  *)
(* visits every group that is live and has the session.                    *)
(***************************************************************************)
EXTENDS SessionIndexes_proofs

(* Nobody is in a group when nobody joins one.                             *)

\* The steps that leave the collections of every group alone.
LEMMA CollectionsStay ==
  ASSUME NEW p \in Proc, ManagerStep(p),
         pc[p] \notin Putting \cup Taking \cup {"findTake"}
  PROVE  UNCHANGED collections
  BY DEF ManagerStep, AddSession, AddChannel, AddChannelId, TakeSession, TakeChannel,
     TakeChannelId, CheckAbsent, IndexChannel, Unindex, Clean, EnterClean, CleanGroup,
     LeaveClean, GetGroup, GetGroupRemove, CreateCheck, CreatePut, RemoveGroup, Publish,
     Unpublish, FindSessionInGroup, FindHasGroup, FindInGroup, FindTake, Goto, groupVars,
     Putting, Taking

\* Nothing joins group g.
Shrinks(g) ==
    /\ \A i \in Id : groupSession'[g][i] \in {groupSession[g][i], None}
    /\ channelGroup'[g] \subseteq channelGroup[g]
    /\ channelIdGroupSession'[g] \subseteq channelIdGroupSession[g]

\* Only GroupSession.add puts a session into a group.
LEMMA OnlyAddGrows ==
  ASSUME TypeInv, NEW p \in Proc, ManagerStep(p), NEW g \in Group,
         ~(pc[p] \in Putting /\ frame[p].grp = g)
  PROVE  Shrinks(g)
<1> USE DEF Putting, Taking
<1>0. /\ TypeOK /\ frame[p] \in Frame /\ frame[p].key \in Id /\ frame[p].grp \in Group
      /\ idOf \in [Session -> Id] /\ ControlAt(p)
  BY DEF TypeInv, ControlOK, TypeOK, ManagerTypeOK, GroupTypeOK, Frame
<1>1. CASE UNCHANGED collections
  BY <1>1 DEF Shrinks, collections
<1>2. CASE AddSession(p)
  BY <1>0, <1>2 DEF AddSession, PutSession, Goto, Shrinks, TypeOK, GroupTypeOK
<1>3. CASE AddChannel(p)
  BY <1>0, <1>3 DEF AddChannel, PutChannel, Goto, Shrinks, TypeOK, GroupTypeOK
<1>4. CASE AddChannelId(p)
  BY <1>0, <1>4 DEF AddChannelId, PutChannelId, Goto, Shrinks, TypeOK, GroupTypeOK
<1>5. CASE TakeSession(p)
  BY <1>0, <1>5 DEF TakeSession, RemoveSession, Shrinks, TypeOK, GroupTypeOK
<1>6. CASE TakeChannel(p)
  BY <1>0, <1>6 DEF TakeChannel, RemoveChannel, Shrinks, TypeOK, GroupTypeOK
<1>7. CASE TakeChannelId(p)
  BY <1>0, <1>7 DEF TakeChannelId, RemoveChannelId, Shrinks, TypeOK, GroupTypeOK
<1>8. CASE FindTake(p)
  <2>1. CASE onlineGroupClient[frame[p].gid] = None
    BY <1>1, <1>8, <2>1 DEF FindTake
  <2>2. CASE onlineGroupClient[frame[p].gid] # None
    BY <1>0, <1>8, <2>2 DEF FindTake, FindSession, RemoveSession, Shrinks, TypeOK,
       GroupTypeOK
  <2> QED
    BY <2>1, <2>2
<1>9. CASE pc[p] \notin Putting \cup Taking \cup {"findTake"}
  BY <1>1, <1>9, CollectionsStay
<1>10. \/ pc[p] \notin Putting \cup Taking \cup {"findTake"}
       \/ AddSession(p) \/ AddChannel(p) \/ AddChannelId(p)
       \/ TakeSession(p) \/ TakeChannel(p) \/ TakeChannelId(p) \/ FindTake(p)
  BY DEF ManagerStep, CheckAbsent, IndexChannel, Unindex, Clean, EnterClean, CleanGroup,
     LeaveClean, GetGroup, GetGroupRemove, CreateCheck, CreatePut, RemoveGroup, Publish,
     Unpublish, FindSessionInGroup, FindHasGroup, FindInGroup, Goto
<1> QED
  BY <1>2, <1>3, <1>4, <1>5, <1>6, <1>7, <1>8, <1>9, <1>10

\* A group nothing joins holds no session it did not hold.
LEMMA ShrinkingHolds ==
  ASSUME NEW g \in Group, Shrinks(g), NEW s \in Session, Holds(g, s)'
  PROVE  Holds(g, s)
  BY NoneAssumption DEF Shrinks, Holds

\* A step inside the manager lets nobody join.
LEMMA ManagerAddsNobody ==
  ASSUME RegistryInv, NoMembers, NEW p \in Proc, ManagerStep(p), stage' = stage
  PROVE  NoMembers'
<1>0. /\ TypeInv /\ TypeOK /\ InPlace(p) /\ frame[p] \in Frame
      /\ pc[p] \in {"getGroup"} \cup Putting => Registering(p)
      /\ \A q \in Proc : q # p => pc'[q] = pc[q] /\ frame'[q] = frame[q]
  BY ManagerMovesOne DEF RegistryInv, TypeInv, CallsInPlace, NoMembers, TypeOK, ManagerTypeOK
<1>1. ASSUME NEW g \in Group \ {online}, NEW s \in Session PROVE ~Holds(g, s)'
  <2>1. ~(pc[p] \in Putting /\ frame[p].grp = g)
    BY <1>0, <1>1 DEF InPlace, Registering, Putting
  <2> QED
    BY <1>0, <2>1, OnlyAddGrows, ShrinkingHolds DEF NoMembers
<1>2. pc'[p] \in {"getGroup"} \cup Putting => Registering(p)'
  <2> USE DEF Putting, Registering
  <2>1. CASE AddSession(p) \/ AddChannel(p) \/ AddChannelId(p)
    BY <1>0, <2>1 DEF AddSession, AddChannel, AddChannelId, OnlyCollections, Goto, TypeOK
  <2>2. CASE CheckAbsent(p)
    <3> DEFINE f == [frame[p] EXCEPT !.key = idOf[frame[p].sess],
                                     !.grp = online, !.back = "regIndex"]
    <3>1. f.back = "regIndex"
      BY <1>0 DEF Frame
    <3>3. pc' = [pc EXCEPT ![p] = "refused"] \/ Call(p, "putSession", f)
      BY <2>2 DEF CheckAbsent
    <3> HIDE DEF f
    <3>4. ASSUME Call(p, "putSession", f) PROVE pc'[p] = "putSession" /\ frame'[p] = f
      BY <1>0, <3>4 DEF Call, TypeOK, ManagerTypeOK
    <3>5. ASSUME pc' = [pc EXCEPT ![p] = "refused"] PROVE pc'[p] = "refused"
      BY <1>0, <3>5 DEF TypeOK
    <3> QED
      BY <3>1, <3>3, <3>4, <3>5
  <2>3. CASE GetGroup(p)
    BY <1>0, <2>3 DEF GetGroup
  <2>4. CASE TakeSession(p) \/ TakeChannelId(p)
    BY <1>0, <2>4 DEF TakeSession, TakeChannelId, Goto, TypeInv, ControlOK, ControlAt, Ready,
       Taking, TypeOK
  <2>5. CASE \/ TakeChannel(p) \/ IndexChannel(p) \/ Publish(p) \/ Unpublish(p)
             \/ Unindex(p) \/ Clean(p) \/ GetGroupRemove(p)
             \/ CreateCheck(p) \/ CreatePut(p) \/ RemoveGroup(p) \/ FindSessionInGroup(p)
    <3>1. pc'[p] \notin {"getGroup"} \cup Putting
      BY <1>0, <2>5 DEF TakeChannel, IndexChannel, Publish, Unpublish, Unindex, Clean,
         EnterClean, CleanGroup, LeaveClean, GetGroupRemove, CreateCheck, CreatePut,
         RemoveGroup, FindSessionInGroup, FindHasGroup, FindInGroup, FindTake, Goto, Call,
         TypeOK
    <3> QED
      BY <3>1
  <2> QED
    BY <2>1, <2>2, <2>3, <2>4, <2>5 DEF ManagerStep
<1> QED
  BY <1>0, <1>1, <1>2 DEF NoMembers, Registering

\* The steps of a handler or of an application thread outside the manager let
\* nobody join.
LEMMA OutsideAddsNobody ==
  ASSUME CarefulApplication, NobodyJoins, RegistryInv, NoMembers, NEW p \in Proc,
         \/ /\ p \in Session
            /\ ChannelRegistered(p) \/ Login(p) \/ Close(p) \/ LoopStep(p)
         \/ p \in App /\ AppStep(p)
  PROVE  NoMembers'
<1> USE DEF managerVars, groupVars, collections
<1>0. /\ TypeOK /\ ~Login(p) /\ (p \in Session => ~JoinGroup(p)) /\ ~AddToGroup(p) /\ ~ManualUnregistered(p)
  BY DEF RegistryInv, CarefulApplication, Login, NobodyJoins, JoinGroup, AddToGroup,
     StartCall, ManualUnregistered
<1>1. /\ \A g \in Group : Shrinks(g)
      /\ \A q \in Proc : q # p => pc'[q] = pc[q] /\ frame'[q] = frame[q]
      /\ \/ pc'[p] \notin {"getGroup"} \cup Putting
         \/ pc'[p] = pc[p] /\ frame'[p] = frame[p]
  <2> USE DEF Putting
  <2>1. CASE p \in Session /\ Close(p)
    BY <1>0, <2>1 DEF Close, DropFromChannelGroups, Shrinks, TypeOK, GroupTypeOK
  <2>2. CASE \/ /\ p \in Session
                /\ \/ ChannelRegistered(p) \/ RegisterBefore(p) \/ RegisterBeforeThrows(p)
                   \/ RegisteredHooks(p) \/ Joined(p) \/ LoggedIn(p)
                   \/ ChannelUnregistered(p) \/ RemoveBefore(p)
                   \/ RemoveBeforeThrows(p) \/ Unregistered(p)
             \/ p \in App /\ AppStep(p)
    <3>1. UNCHANGED collections
      BY <1>0, <2>2 DEF ChannelRegistered, RegisterBefore, RegisterBeforeThrows,
         RegisteredHooks, Joined, LoggedIn, ChannelUnregistered, RemoveBefore,
         RemoveBeforeThrows, Unregistered, AppStep, Kick, Ban, AddToGroup, RemoveFromGroup,
         FindMember, MakeGroup, DropGroup, CallEnds, StartCall, NoManager
    <3>2. \A g \in Group : Shrinks(g)
      BY <3>1 DEF Shrinks
    <3>3. \A q \in Proc : q # p => pc'[q] = pc[q] /\ frame'[q] = frame[q]
      BY <1>0, <2>2 DEF ChannelRegistered, RegisterBefore, RegisterBeforeThrows,
         RegisteredHooks, Joined, LoggedIn, ChannelUnregistered, RemoveBefore,
         RemoveBeforeThrows, Unregistered, AppStep, Kick, Ban, AddToGroup, RemoveFromGroup,
         FindMember, MakeGroup, DropGroup, CallEnds, StartCall, Call, Resume, TypeOK,
         ManagerTypeOK
    <3>4. \/ pc'[p] \in {"idle", "regCheck", "unpublish", "getGroupRemove", "createCheck",
                         "removeGroup", "findHas"}
          \/ pc'[p] = pc[p] /\ frame'[p] = frame[p]
      BY <1>0, <2>2 DEF ChannelRegistered, RegisterBefore, RegisterBeforeThrows,
         RegisteredHooks, Joined, LoggedIn, ChannelUnregistered, RemoveBefore, Idle,
         RemoveBeforeThrows, Unregistered, AppStep, Kick, Ban, AddToGroup, RemoveFromGroup,
         FindMember, MakeGroup, DropGroup, CallEnds, StartCall, Call, Resume, TypeOK,
         ManagerTypeOK
    <3> QED
      BY <3>2, <3>3, <3>4
  <2> QED
    BY <1>0, <2>1, <2>2 DEF LoopStep
<1>2. \A g \in Group \ {online}, s \in Session : ~Holds(g, s)'
  BY <1>1, ShrinkingHolds DEF NoMembers
<1>3. \A q \in Proc : pc'[q] \in {"getGroup"} \cup Putting =>
        Registering(q)' /\ pc'[q] = pc[q] /\ frame'[q] = frame[q]
  BY <1>1 DEF NoMembers, Registering
<1> QED
  BY <1>2, <1>3 DEF NoMembers

\* Every step keeps the groups empty.
LEMMA StepNoMembers ==
  ASSUME CarefulApplication, NobodyJoins, RegistryInv, NoMembers, [Next]_vars
  PROVE  NoMembers'
<1>1. CASE \E p \in Proc :
             \/ /\ p \in Session
                /\ ChannelRegistered(p) \/ Login(p) \/ Close(p) \/ LoopStep(p)
             \/ p \in App /\ AppStep(p)
  BY <1>1, OutsideAddsNobody
<1>2. CASE \E p \in Proc : Step(p)
  BY <1>2, ManagerAddsNobody DEF Step
<1>3. CASE UNCHANGED vars
  BY <1>3 DEF NoMembers, Holds, Registering, vars, groupVars, managerVars, collections
<1> QED
  BY <1>1, <1>2, <1>3, HandlersAssumption DEF Next

\* At first every group is empty.
LEMMA InitNoMembers == Init => NoMembers
  BY NoneAssumption DEF Init, GroupInit, NoMembers, Holds, Putting
-----------------------------------------------------------------------------
(* The groups hold no session whose channel is gone, when only the         *)
(* registered hooks join groups.                                           *)

\* A step adds session t to no group but online and takes it out of none.
SameMember(t) ==
    \A g \in Group \ {online} :
        /\ \A i \in Id : groupSession'[g][i] = t <=> groupSession[g][i] = t
        /\ t \in channelGroup'[g] <=> t \in channelGroup[g]
        /\ t \in channelIdGroupSession'[g] <=> t \in channelIdGroupSession[g]

\* The application may put new groups, and drop groups.
GroupsMove == created \subseteq created' /\ LiveGroups' \cap created \subseteq LiveGroups

\* A step of another thread that spares session t leaves it where it is.
LEMMA SparedStays ==
  ASSUME NEW t \in Session, TypeOK, MemberAt(t), SameMember(t), GroupsMove,
         pc'[t] = pc[t], frame'[t] = frame[t], stage'[t] = stage[t], idOf'[t] = idOf[t],
         Listed(t) => Listed(t)'
  PROVE  MemberAt(t)'
<1>0. idOf[t] \in Id
  BY DEF TypeOK, GroupTypeOK
<1>1. \A g \in Group \ {online} : Holds(g, t)' <=> Holds(g, t)
  BY DEF SameMember, Holds
<1>2. Joins(t)' = Joins(t)
  BY <1>1 DEF Joins
<1>3. Cleaning(t)' = Cleaning(t) /\ Withdrawn(t)' = Withdrawn(t)
      /\ Deregistering(t)' = Deregistering(t) /\ Registering(t)' = Registering(t)
  BY DEF Cleaning, Withdrawn, Deregistering, Registering
<1>4. StaysListed(t)'
  BY <1>2, <1>3 DEF MemberAt, StaysListed
<1>5. ASSUME NEW g \in Group \ {online} PROVE MemberOf(g, t)'
  <2>1. ToVisit(t, g)' = ToVisit(t, g)
    BY <1>3 DEF ToVisit
  <2>2. MemberOf(g, t)
    BY DEF MemberAt
  <2>3. groupSession'[g][idOf'[t]] = t <=> groupSession[g][idOf[t]] = t
    BY <1>0 DEF SameMember
  <2>4. groupSession'[g][idOf'[t]] = t /\ g \in LiveGroups' =>
          groupSession[g][idOf[t]] = t /\ g \in LiveGroups
    BY <1>0, <2>2, <2>3 DEF GroupsMove, MemberOf, Holds
  <2>5. /\ \A i \in Id : groupSession'[g][i] = t => i = idOf'[t]
        /\ Holds(g, t)' => g \in created' /\ stage'[t] \notin {"new", "registering"}
    BY <1>1, <2>2 DEF GroupsMove, MemberOf, SameMember
  <2>6. t \in channelGroup'[g] <=> t \in channelGroup[g]
    BY DEF SameMember
  <2>7. t \in channelIdGroupSession'[g] <=> t \in channelIdGroupSession[g]
    BY DEF SameMember
  <2> QED
    BY <2>1, <2>2, <2>3, <2>4, <2>5, <2>6, <2>7 DEF MemberOf, GroupsMove
<1> QED
  BY <1>3, <1>4, <1>5 DEF MemberAt

\* What the invariant says of the thread of a channel.
LEMMA HandlerFacts ==
  ASSUME CarefulApplication, JoinInv, NEW s \in Session
  PROVE  /\ RegistryInv /\ TypeInv /\ TypeOK /\ ControlAt(s) /\ InPlace(s) /\ InStage(s)
         /\ Leaves(s) /\ MemberAt(s) /\ s \in Proc /\ frame[s] \in Frame /\ s # None
         /\ frame[s].key \in Id /\ frame[s].grp \in Group
         /\ idOf[s] \in Id /\ idOf[s] \in OwnIds(s)
         /\ \A t \in Session : t # s => idOf[t] \in Id /\ idOf[t] \notin OwnIds(s)
<1>1. RegistryInv /\ Leaves(s) /\ MemberAt(s) /\ s \in Proc /\ s # None
  BY HandlersAssumption, NoneAssumption DEF JoinInv, LeaveInv, IndexInv, MembersInv
<1>2. /\ TypeInv /\ TypeOK /\ ControlAt(s) /\ InPlace(s) /\ InStage(s)
      /\ \A t \in Session : idOf[t] \in OwnIds(t) /\ idOf[t] \in Id
  BY <1>1 DEF RegistryInv, TypeInv, ControlOK, CallsInPlace, FiledUnderItsId, Filed, TypeOK,
     GroupTypeOK
<1>3. frame[s] \in Frame /\ frame[s].key \in Id /\ frame[s].grp \in Group
  BY <1>1, <1>2 DEF TypeOK, ManagerTypeOK, Frame
<1>4. \A t \in Session : t # s => idOf[t] \notin OwnIds(s)
  BY <1>2 DEF CarefulApplication, UniqueIds
<1> QED
  BY <1>1, <1>2, <1>3, <1>4

\* A handler puts its own session into a group and takes out its own.
LEMMA ManagerSparesOthers ==
  ASSUME CarefulApplication, JoinInv, NEW s \in Session, ManagerStep(s),
         NEW t \in Session, t # s
  PROVE  SameMember(t)
<1> USE DEF Putting, Taking
<1>0. /\ TypeOK /\ ControlAt(s) /\ InPlace(s) /\ Leaves(s) /\ MemberAt(s) /\ s \in Proc
      /\ frame[s] \in Frame /\ frame[s].key \in Id /\ frame[s].grp \in Group
      /\ idOf[s] \in Id /\ idOf[s] \in OwnIds(s)
      /\ \A u \in Session : u # s => idOf[u] \in Id /\ idOf[u] \notin OwnIds(s)
      /\ t # None
  BY HandlerFacts, NoneAssumption
<1>1. /\ groupSession \in [Group -> [Id -> Session \cup {None}]]
      /\ channelGroup \in [Group -> SUBSET Session]
      /\ channelIdGroupSession \in [Group -> SUBSET Session]
  BY <1>0 DEF TypeOK, GroupTypeOK
<1>2. pc[s] \in Putting /\ frame[s].grp # online => frame[s].sess = s
  BY <1>0 DEF MemberAt, MemberOf
<1>3. CASE UNCHANGED collections
  BY <1>3 DEF SameMember, collections
<1>4. CASE AddSession(s)
  <2>1. /\ pc[s] = "putSession"
        /\ groupSession' = [groupSession EXCEPT ![frame[s].grp][idOf[frame[s].sess]] =
                                                  frame[s].sess]
        /\ UNCHANGED <<channelGroup, channelIdGroupSession>>
    BY <1>4 DEF AddSession, PutSession, Goto
  <2>2. CASE frame[s].grp = online
    BY <1>1, <2>1, <2>2 DEF SameMember
  <2>3. CASE frame[s].grp # online
    <3>1. frame[s].sess = s
      BY <1>2, <2>1, <2>3
    <3>2. groupSession[frame[s].grp][idOf[s]] # t
      BY <1>0, <2>3 DEF JoinInv, MembersInv, MemberAt, MemberOf
    <3> QED
      BY <1>0, <1>1, <2>1, <3>1, <3>2 DEF SameMember
  <2> QED
    BY <2>2, <2>3
<1>5. CASE AddChannel(s)
  BY <1>0, <1>1, <1>2, <1>5 DEF AddChannel, PutChannel, Goto, SameMember
<1>6. CASE AddChannelId(s)
  BY <1>0, <1>1, <1>2, <1>6 DEF AddChannelId, PutChannelId, Goto, SameMember
<1>7. CASE TakeSession(s)
  <2>1. /\ pc[s] = "removeSession" /\ frame[s].key \in OwnIds(s)
        /\ groupSession' = [groupSession EXCEPT ![frame[s].grp][frame[s].key] = None]
        /\ UNCHANGED <<channelGroup, channelIdGroupSession>>
    BY <1>0, <1>7 DEF TakeSession, RemoveSession, Goto, Leaves
  <2>2. \A g \in Group \ {online} : groupSession[g][frame[s].key] # t
    BY <1>0, <2>1 DEF JoinInv, MembersInv, MemberAt, MemberOf
  <2> QED
    BY <1>0, <1>1, <2>1, <2>2 DEF SameMember
<1>8. CASE TakeChannel(s)
  BY <1>0, <1>1, <1>8 DEF TakeChannel, RemoveChannel, Goto, MemberAt, SameMember
<1>9. CASE TakeChannelId(s)
  BY <1>0, <1>1, <1>9 DEF TakeChannelId, RemoveChannelId, Goto, MemberAt, SameMember
<1>10. CASE pc[s] \notin Putting \cup Taking \cup {"findTake"}
  BY <1>0, <1>3, <1>10, CollectionsStay
<1>11. /\ pc[s] # "findTake"
       /\ \/ pc[s] \notin Putting \cup Taking \cup {"findTake"}
          \/ AddSession(s) \/ AddChannel(s) \/ AddChannelId(s)
          \/ TakeSession(s) \/ TakeChannel(s) \/ TakeChannelId(s)
  BY <1>0 DEF ManagerStep, CheckAbsent, IndexChannel, Unindex, Clean, EnterClean, CleanGroup,
     LeaveClean, GetGroup, GetGroupRemove, CreateCheck, CreatePut, RemoveGroup, Publish,
     Unpublish, FindSessionInGroup, FindHasGroup, FindInGroup, FindTake, Goto, Leaves,
     AppMethods
<1> QED
  BY <1>4, <1>5, <1>6, <1>7, <1>8, <1>9, <1>10, <1>11

\* A step that leaves the groups alone and keeps what its handler has still
\* to visit leaves the session where it is.
LEMMA StillMember ==
  ASSUME NEW s \in Session, TypeOK, MemberAt(s),
         UNCHANGED <<collections, groups, idOf, stage>>,
         pc[s] \notin {"removeChannel", "removeChannelId"},
         pc'[s] \notin {"removeChannel", "removeChannelId", "getGroup"},
         StaysListed(s)',
         \A g \in LiveGroups : groupSession[g][idOf[s]] = s /\ ToVisit(s, g) => ToVisit(s, g)',
         pc'[s] \in Putting =>
            \/ Registering(s)' /\ frame'[s].grp = online
            \/ /\ pc'[s] = "putSession" /\ stage[s] = "joining"
               /\ frame'[s].sess = s /\ frame'[s].grp \in created
  PROVE  MemberAt(s)'
<1> USE DEF collections, groups
<1>1. LiveGroups' = LiveGroups
  BY DEF LiveGroups
<1>2. ASSUME NEW g \in Group \ {online} PROVE MemberOf(g, s)'
  <2>1. MemberOf(g, s) /\ Holds(g, s)' = Holds(g, s)
    BY DEF MemberAt, Holds
  <2> QED
    BY <1>1, <2>1 DEF MemberOf
<1> QED
  BY <1>2 DEF MemberAt

\* Only the last step of registrySession and the first one of
\* deregisterSession list a session or take it off the list.
LEMMA ListedStays ==
  ASSUME TypeOK, NEW p \in Proc, ManagerStep(p), pc[p] \notin {"regPublish", "unpublish"}
  PROVE  onlineClient' = onlineClient /\ \A s \in Session : Listed(s)' = Listed(s)
  BY OnlineStays, ManagerMovesOne DEF Listed

\* A handler makes and drops no group.
LEMMA GroupsStay ==
  ASSUME NEW p \in Proc, ManagerStep(p), pc[p] \notin AppMethods
  PROVE  UNCHANGED groups
  BY DEF ManagerStep, AddSession, AddChannel, AddChannelId, TakeSession, TakeChannel,
     TakeChannelId, CheckAbsent, IndexChannel, Unindex, Clean, EnterClean, CleanGroup,
     LeaveClean, GetGroup, GetGroupRemove, CreateCheck, CreatePut, RemoveGroup, Publish,
     Unpublish, FindSessionInGroup, FindHasGroup, FindInGroup, FindTake, Goto,
     OnlyCollections, AppMethods

\* registrySession takes no session into a group of the application.
LEMMA RegistrationMember ==
  ASSUME CarefulApplication, JoinInv, NEW s \in Session, stage' = stage,
         CheckAbsent(s) \/ IndexChannel(s) \/ Publish(s)
  PROVE  MemberAt(s)'
<1> USE DEF indexes, groupVars
<1>0. /\ TypeOK /\ InPlace(s) /\ MemberAt(s) /\ s \in Proc /\ frame[s] \in Frame
      /\ RegistryInv /\ idOf[s] \in Id /\ idOf[s] \in OwnIds(s) /\ s # None
  BY HandlerFacts
<1>1. ManagerStep(s) /\ UNCHANGED <<collections, groups, idOf, stage>>
  BY DEF ManagerStep, CheckAbsent, IndexChannel, Publish
<1>2. Registering(s) /\ stage[s] = "registering" /\ frame[s].sess = s
      /\ (pc[s] # "regCheck" => frame[s].key = idOf[s])
  BY <1>0 DEF CheckAbsent, IndexChannel, Publish, Goto, InPlace, Registering
<1>3. ~Joins(s)' /\ ~Joins(s)
  BY <1>0, <1>1, <1>2 DEF Joins, MemberAt, MemberOf, Holds, collections
<1>4. \A g \in Group : ~ToVisit(s, g)
  BY <1>2 DEF ToVisit
<1>5. CASE CheckAbsent(s)
  <2> DEFINE f == [frame[s] EXCEPT !.key = idOf[frame[s].sess],
                                   !.grp = online, !.back = "regIndex"]
  <2>1. f.back = "regIndex" /\ f.grp = online
    BY <1>0 DEF Frame
  <2>2. onlineClient[idOf[s]] = None
    <3>1. pc[s] \notin Ended
      BY <1>5 DEF CheckAbsent, Ended
    <3> QED
      BY <1>0, <1>2, <3>1, OnlineIsDecided DEF Undecided
  <2>3. Call(s, "putSession", f)
    BY <1>2, <1>5, <2>2 DEF CheckAbsent
  <2> HIDE DEF f
  <2>4. pc'[s] = "putSession" /\ frame'[s] = f
    BY <1>0, <2>3 DEF Call, TypeOK, ManagerTypeOK
  <2>5. Registering(s)'
    BY <2>1, <2>4 DEF Registering, Putting
  <2>6. StaysListed(s)'
    BY <1>3, <2>4 DEF StaysListed, Ended
  <2>7. pc[s] = "regCheck"
    BY <1>5 DEF CheckAbsent
  <2>8. \A g \in LiveGroups : ToVisit(s, g) => ToVisit(s, g)'
    BY <1>2 DEF ToVisit
  <2> QED
    BY <1>0, <1>1, <2>1, <2>4, <2>5, <2>6, <2>7, <2>8, StillMember
<1>6. CASE IndexChannel(s)
  <2>1. pc[s] = "regIndex" /\ pc'[s] = "regPublish"
    BY <1>0, <1>6 DEF IndexChannel, Goto, TypeOK
  <2>2. StaysListed(s)'
    BY <1>3, <2>1 DEF StaysListed, Ended
  <2>3. \A g \in LiveGroups : ToVisit(s, g) => ToVisit(s, g)'
    BY <1>2 DEF ToVisit
  <2> QED
    BY <1>0, <1>1, <2>1, <2>2, <2>3, StillMember DEF Putting
<1>7. CASE Publish(s)
  <2>1. pc[s] = "regPublish" /\ pc'[s] = "returned"
    BY <1>0, <1>7 DEF Publish, Goto, TypeOK
  <2>2. Listed(s)'
    BY <1>0, <1>1, <1>2, <1>7, <2>1 DEF Publish, Listed, TypeOK, ManagerTypeOK
  <2>3. StaysListed(s)'
    BY <1>3, <2>2 DEF StaysListed
  <2>4. \A g \in LiveGroups : ToVisit(s, g) => ToVisit(s, g)'
    BY <1>2 DEF ToVisit
  <2> QED
    BY <1>0, <1>1, <2>1, <2>3, <2>4, StillMember DEF Putting
<1> QED
  BY <1>5, <1>6, <1>7

\* The handler's call of addSession finds a group that has been created.
LEMMA GetGroupMember ==
  ASSUME CarefulApplication, JoinInv, NEW s \in Session, stage' = stage, GetGroup(s)
  PROVE  MemberAt(s)'
<1> USE DEF groupVars
<1>0. /\ TypeOK /\ InPlace(s) /\ MemberAt(s) /\ s \in Proc /\ frame[s] \in Frame
      /\ LiveGroups \subseteq created
  BY HandlerFacts DEF JoinInv, MembersInv
<1> DEFINE g == onlineGroupClient[frame[s].gid]
           f == [frame[s] EXCEPT !.grp = g, !.back = "returned"]
<1>1. /\ ManagerStep(s) /\ UNCHANGED <<collections, groups, idOf, stage>>
      /\ pc[s] = "getGroup"
  BY DEF ManagerStep, GetGroup
<1>2. stage[s] = "joining" /\ frame[s].sess = s
  BY <1>0, <1>1 DEF MemberAt, Registering, Putting
<1>3. Listed(s)' = Listed(s) /\ Listed(s)
  BY <1>0, <1>1, <1>2, ListedStays DEF MemberAt, StaysListed, Joins
<1>4. StaysListed(s)'
  BY <1>1, <1>2, <1>3 DEF StaysListed
<1>5. \A h \in LiveGroups : ToVisit(s, h) => ToVisit(s, h)'
  BY <1>2 DEF ToVisit
<1>6. frame[s].gid \in Gid /\ f.sess = s /\ f.grp = g
  BY <1>0, <1>2 DEF Frame
<1>7. g # None => g \in created
  BY <1>0, <1>6 DEF LiveGroups
<1>8. \/ pc'[s] = "refused"
      \/ g # None /\ pc'[s] = "putSession" /\ frame'[s] = f
  <2>1. CASE g = None
    BY <1>0, <2>1 DEF GetGroup, TypeOK
  <2>2. CASE g # None
    <3>1. Call(s, "putSession", f)
      BY <2>2 DEF GetGroup
    <3> HIDE DEF f, g
    <3> QED
      BY <1>0, <2>2, <3>1 DEF Call, TypeOK, ManagerTypeOK
  <2> QED
    BY <2>1, <2>2
<1> HIDE DEF f, g
<1> QED
  BY <1>0, <1>1, <1>2, <1>4, <1>5, <1>6, <1>7, <1>8, StillMember DEF Putting

\* deregisterSession withdraws the id of its own session, and then goes
\* through every group that is live.
LEMMA DeregistrationMember ==
  ASSUME CarefulApplication, JoinInv, NEW s \in Session, stage' = stage,
         Unpublish(s) \/ Unindex(s) \/ Clean(s)
  PROVE  MemberAt(s)'
<1> USE DEF indexes, groupVars
<1>0. /\ TypeOK /\ ControlAt(s) /\ Leaves(s) /\ MemberAt(s) /\ s \in Proc
      /\ frame[s] \in Frame /\ frame[s].key \in Id /\ idOf[s] \in Id /\ s # None
  BY HandlerFacts
<1>1. ManagerStep(s) /\ UNCHANGED <<collections, groups, idOf, stage>>
  BY DEF ManagerStep, Unpublish, Unindex, Clean, EnterClean, CleanGroup, LeaveClean
<1>2. stage[s] = "unregistering"
  BY <1>0 DEF Unpublish, Unindex, Clean, EnterClean, CleanGroup, LeaveClean, Goto, Leaves
<1>3. Joins(s)' = Joins(s)
  BY <1>1 DEF Joins, Holds, collections
<1>4. \A g \in Group \ {online} : groupSession[g][idOf[s]] = s => Joins(s)
  BY <1>0 DEF Joins, Holds
<1>5. CASE Unpublish(s)
  <2> DEFINE r == onlineClient[frame[s].key]
             f == [frame[s] EXCEPT !.removed = r, !.grp = online, !.back = "unindex"]
  <2>1. f.key = frame[s].key /\ f.removed = r /\ f.back = "unindex"
    BY <1>0 DEF Frame
  <2>2. pc[s] = "unpublish" /\ Call(s, "removeSession", f)
    BY <1>5 DEF Unpublish
  <2>3. Joins(s) => frame[s].key = idOf[s] /\ r = s
    BY <1>0, <1>2, <2>2 DEF MemberAt, StaysListed, Withdrawn, Cleaning, Taking, Ended, Listed
  <2> HIDE DEF f, r
  <2>4. pc'[s] = "removeSession" /\ frame'[s] = f
    BY <1>0, <2>2 DEF Call, TypeOK, ManagerTypeOK
  <2>5. Deregistering(s)' /\ Withdrawn(s)'
    BY <2>1, <2>4 DEF Deregistering, Withdrawn, Taking
  <2>6. StaysListed(s)'
    BY <1>1, <1>2, <1>3, <2>1, <2>3, <2>4, <2>5 DEF StaysListed
  <2>7. \A g \in LiveGroups : ToVisit(s, g)'
    BY <1>2, <2>5 DEF ToVisit
  <2> QED
    BY <1>0, <1>1, <2>2, <2>4, <2>6, <2>7, StillMember DEF Putting
<1>6. CASE Unindex(s)
  <2>1. /\ pc[s] = "unindex" /\ frame' = frame
        /\ \/ frame[s].removed = None /\ pc'[s] = "threw"
           \/ pc'[s] = "lock"
    BY <1>0, <1>6 DEF Unindex, Goto, TypeOK
  <2>2. Joins(s) => frame[s].key = idOf[s] /\ frame[s].removed = s
    BY <1>0, <1>2, <2>1 DEF MemberAt, StaysListed, Withdrawn, Deregistering, Cleaning, Taking,
       Ended
  <2>3. Joins(s) => pc'[s] = "lock"
    BY <1>0, <2>1, <2>2
  <2>4. StaysListed(s)'
    BY <1>1, <1>2, <1>3, <2>1, <2>2, <2>3 DEF StaysListed
  <2>5. \A g \in LiveGroups : groupSession[g][idOf[s]] = s /\ ToVisit(s, g) => ToVisit(s, g)'
    <3> SUFFICES ASSUME NEW g \in LiveGroups, groupSession[g][idOf[s]] = s
                 PROVE  ToVisit(s, g)'
      OBVIOUS
    <3>1. g \in Group \ {online}
      BY <1>0, HandlerFacts DEF LiveGroups, RegistryInv, OnlineIsApart, TypeOK, ManagerTypeOK
    <3> QED
      BY <1>2, <1>4, <2>3, <3>1 DEF ToVisit
  <2> QED
    BY <1>0, <1>1, <2>1, <2>4, <2>5, StillMember DEF Putting
<1>7. CASE EnterClean(s)
  <2> DEFINE f == [frame[s] EXCEPT !.todo = LiveGroups, !.seen = {}, !.back = "clean"]
  <2>1. f.key = frame[s].key /\ f.todo = LiveGroups /\ f.seen = {} /\ f.back = "clean"
    BY <1>0 DEF Frame
  <2>2. pc[s] = "lock" /\ Call(s, "clean", f)
    BY <1>7 DEF EnterClean
  <2> HIDE DEF f
  <2>3. pc'[s] = "clean" /\ frame'[s] = f
    BY <1>0, <2>2 DEF Call, TypeOK, ManagerTypeOK
  <2>4. Joins(s) => frame[s].key = idOf[s]
    BY <1>0, <1>2, <2>2 DEF MemberAt, StaysListed, Ended
  <2>5. StaysListed(s)'
    BY <1>1, <1>2, <1>3, <2>1, <2>3, <2>4 DEF StaysListed, Cleaning
  <2>6. \A g \in LiveGroups : ToVisit(s, g)'
    BY <1>2, <2>1, <2>3 DEF ToVisit, Cleaning
  <2> QED
    BY <1>0, <1>1, <2>2, <2>3, <2>5, <2>6, StillMember DEF Putting
<1>8. CASE CleanGroup(s)
  <2>1. PICK h \in (frame[s].todo \cup LiveGroups) \ frame[s].seen :
          Call(s, "removeSession", [frame[s] EXCEPT !.grp = h, !.seen = @ \cup {h}])
    BY <1>8 DEF CleanGroup
  <2> DEFINE f == [frame[s] EXCEPT !.grp = h, !.seen = @ \cup {h}]
  <2>2. /\ f.key = frame[s].key /\ f.todo = frame[s].todo /\ f.back = frame[s].back
        /\ f.grp = h /\ f.seen = frame[s].seen \cup {h}
    BY <1>0 DEF Frame
  <2>3. pc[s] = "clean" /\ frame[s].back = "clean" /\ Call(s, "removeSession", f)
    BY <1>0, <1>8, <2>1 DEF CleanGroup, ControlAt, Ready
  <2> HIDE DEF f
  <2>4. pc'[s] = "removeSession" /\ frame'[s] = f
    BY <1>0, <2>3 DEF Call, TypeOK, ManagerTypeOK
  <2>5. Joins(s) => frame[s].key = idOf[s]
    BY <1>0, <1>2, <2>3 DEF MemberAt, StaysListed, Ended
  <2>6. Cleaning(s)'
    BY <2>2, <2>3, <2>4 DEF Cleaning, Taking
  <2>7. StaysListed(s)'
    BY <1>1, <1>2, <1>3, <2>2, <2>4, <2>5, <2>6 DEF StaysListed
  <2>8. \A g \in LiveGroups : ToVisit(s, g) => ToVisit(s, g)'
    BY <1>2, <2>2, <2>3, <2>4, <2>6 DEF ToVisit, Deregistering, Taking
  <2> QED
    BY <1>0, <1>1, <2>3, <2>4, <2>7, <2>8, StillMember DEF Putting
<1>9. CASE LeaveClean(s)
  <2>1. /\ pc[s] = "clean" /\ pc'[s] = "returned" /\ frame' = frame
        /\ frame[s].todo \cap LiveGroups \subseteq frame[s].seen
    BY <1>0, <1>9 DEF LeaveClean, Goto, TypeOK
  <2>2. StaysListed(s)'
    BY <1>2, <2>1 DEF StaysListed, Ended
  <2>3. \A g \in LiveGroups : ~ToVisit(s, g)
    BY <2>1 DEF ToVisit, Deregistering, Taking
  <2> QED
    BY <1>0, <1>1, <2>1, <2>2, <2>3, StillMember DEF Putting
<1> QED
  BY <1>5, <1>6, <1>7, <1>8, <1>9 DEF Clean

\* GroupSession.add takes the session into the three collections of its group
\* one after the other.
LEMMA AddMember ==
  ASSUME CarefulApplication, JoinInv, NEW s \in Session, stage' = stage,
         AddSession(s) \/ AddChannel(s) \/ AddChannelId(s)
  PROVE  MemberAt(s)'
<1> USE DEF Putting
<1>0. /\ TypeOK /\ ControlAt(s) /\ InPlace(s) /\ MemberAt(s) /\ s \in Proc
      /\ frame[s] \in Frame /\ idOf[s] \in Id /\ s # None /\ frame[s].grp \in Group
  BY HandlerFacts
<1>1. /\ ManagerStep(s) /\ idOf' = idOf /\ frame' = frame /\ pc[s] \in Putting
      /\ UNCHANGED groups
  BY DEF ManagerStep, AddSession, AddChannel, AddChannelId, OnlyCollections, Goto
<1>2. LiveGroups' = LiveGroups /\ Listed(s)' = Listed(s)
  <2>1. \A t \in Session : Listed(t)' = Listed(t)
    BY <1>0, <1>1, ListedStays
  <2> QED
    BY <1>1, <2>1 DEF LiveGroups, groups
<1>3. \/ pc'[s] \in {"putChannel", "putChannelId"}
      \/ pc[s] = "putChannelId" /\ pc'[s] = frame[s].back
  <2>1. pc \in [Proc -> {"idle"} \cup Running \cup Ended]
    BY <1>0 DEF TypeOK
  <2> QED
    BY <1>0, <2>1 DEF AddSession, AddChannel, AddChannelId, Goto
<1>4. frame[s].back \in {"regIndex", "returned"} /\ (frame[s].back = "regIndex" <=> frame[s].grp = online)
  BY <1>0, <1>1 DEF ControlAt, Ready, InPlace
<1>5. CASE Registering(s)
  <2>1. /\ frame[s].back = "regIndex" /\ frame[s].grp = online /\ stage[s] = "registering"
        /\ Registering(s)' /\ pc'[s] \notin Ended /\ pc'[s] \in Putting \cup {"regIndex"}
    BY <1>0, <1>1, <1>3, <1>4, <1>5 DEF Registering, InPlace, Ended
  <2>2. SameMember(s)
    BY <1>0, <2>1 DEF SameMember, AddSession, AddChannel, AddChannelId, PutSession, PutChannel,
       PutChannelId, TypeOK, GroupTypeOK
  <2>3. \A g \in Group \ {online} : ~Holds(g, s)' /\ ~Holds(g, s)
    BY <1>0, <2>1, <2>2 DEF MemberAt, MemberOf, SameMember, Holds
  <2>4. ~Joins(s)'
    BY <2>1, <2>3 DEF Joins
  <2>5. StaysListed(s)'
    BY <2>1, <2>4 DEF StaysListed
  <2>6. \A g \in Group \ {online} : MemberOf(g, s)'
    BY <1>0, <1>1, <2>1, <2>3 DEF MemberOf, Holds
  <2> QED
    BY <2>1, <2>5, <2>6 DEF MemberAt
<1>6. CASE ~Registering(s)
  <2>0. PICK h \in Group : h = frame[s].grp
    BY <1>0
  <2>1. /\ stage[s] = "joining" /\ h \in Group \ {online} /\ frame[s].back = "returned"
        /\ h \in created /\ frame[s].sess = s /\ Listed(s)
        /\ pc'[s] \in {"putChannel", "putChannelId", "returned"}
        /\ pc[s] # "putSession" => groupSession[h][idOf[s]] = s
    BY <1>0, <1>1, <1>3, <1>4, <1>6, <2>0 DEF MemberAt, MemberOf, Registering, StaysListed,
       Joins
  <2>2. StaysListed(s)'
    BY <1>2, <2>1 DEF StaysListed
  <2>3. ASSUME NEW g \in Group \ {online}, g # h PROVE MemberOf(g, s)'
    <3>1. /\ groupSession'[g] = groupSession[g] /\ channelGroup'[g] = channelGroup[g]
          /\ channelIdGroupSession'[g] = channelIdGroupSession[g]
      BY <1>0, <2>0, <2>3 DEF AddSession, AddChannel, AddChannelId, PutSession, PutChannel,
         PutChannelId, TypeOK, GroupTypeOK
    <3> QED
      BY <1>0, <1>1, <1>2, <2>0, <2>1, <2>3, <3>1 DEF MemberAt, MemberOf, Holds, groups
  <2>4. /\ groupSession'[h][idOf[s]] = s
        /\ \A i \in Id : groupSession'[h][i] = s => i = idOf[s]
    <3>1. \A i \in Id : groupSession[h][i] = s => i = idOf[s]
      BY <1>0, <2>1 DEF MemberAt, MemberOf
    <3> QED
      BY <1>0, <2>0, <2>1, <3>1 DEF AddSession, AddChannel, AddChannelId, PutSession, PutChannel,
         PutChannelId, Goto, TypeOK, GroupTypeOK
  <2>5. MemberOf(h, s)'
    BY <1>1, <1>2, <2>1, <2>4 DEF MemberOf, groups
  <2>6. \A g \in Group \ {online} : MemberOf(g, s)'
    BY <2>3, <2>5
  <2> QED
    BY <2>1, <2>2, <2>6 DEF MemberAt
<1> QED
  BY <1>5, <1>6

\* GroupSession.remove, called by the handler of session s, takes s out of the
\* collections of its group one after the other and goes back.
LEMMA TakeMember ==
  ASSUME CarefulApplication, JoinInv, NEW s \in Session, stage' = stage,
         TakeSession(s) \/ TakeChannel(s) \/ TakeChannelId(s)
  PROVE  MemberAt(s)'
<1> USE DEF Taking
<1>0. /\ TypeOK /\ ControlAt(s) /\ InPlace(s) /\ Leaves(s) /\ MemberAt(s) /\ s \in Proc
      /\ frame[s] \in Frame /\ idOf[s] \in Id /\ idOf[s] \in OwnIds(s) /\ s # None
      /\ frame[s].grp \in Group /\ frame[s].key \in Id
      /\ \A t \in Session : t # s => idOf[t] \notin OwnIds(s)
  BY HandlerFacts
<1>1. /\ ManagerStep(s) /\ idOf' = idOf /\ pc[s] \in Taking /\ UNCHANGED groups
  BY DEF ManagerStep, TakeSession, TakeChannel, TakeChannelId, OnlyCollections, Goto
<1>2. LiveGroups' = LiveGroups /\ Listed(s)' = Listed(s)
  <2>1. \A t \in Session : Listed(t)' = Listed(t)
    BY <1>0, <1>1, ListedStays
  <2> QED
    BY <1>1, <2>1 DEF LiveGroups, groups
<1>3. /\ stage[s] = "unregistering" /\ frame[s].key \in OwnIds(s)
      /\ frame[s].back \in {"unindex", "clean", "returned"}
      /\ (frame[s].back = "unindex" <=> frame[s].grp = online)
  BY <1>0, <1>1 DEF Leaves, ControlAt, Ready, InPlace
<1> DEFINE x == groupSession[frame[s].grp][frame[s].key]
           f == [frame[s] EXCEPT !.found = x]
<1>4. /\ f.key = frame[s].key /\ f.removed = frame[s].removed /\ f.back = frame[s].back
      /\ f.grp = frame[s].grp /\ f.todo = frame[s].todo /\ f.seen = frame[s].seen
      /\ f.found = x /\ f.sess = frame[s].sess
  BY <1>0 DEF Frame
<1>5. /\ \/ frame'[s] = frame[s] /\ pc[s] \in {"removeChannel", "removeChannelId"}
         \/ frame'[s] = f /\ pc[s] = "removeSession"
      /\ pc'[s] \in {"removeChannel", "removeChannelId", frame[s].back}
  <2>1. CASE TakeSession(s)
    BY <1>0, <2>1 DEF TakeSession, Goto, TypeOK, ManagerTypeOK
  <2>2. CASE TakeChannel(s) \/ TakeChannelId(s)
    BY <1>0, <2>2 DEF TakeChannel, TakeChannelId, Goto, OnlyCollections, TypeOK
  <2> QED
    BY <2>1, <2>2
<1> HIDE DEF f, x
<1>6. /\ frame'[s].key = frame[s].key /\ frame'[s].removed = frame[s].removed
      /\ frame'[s].back = frame[s].back /\ frame'[s].grp = frame[s].grp
      /\ frame'[s].todo = frame[s].todo /\ frame'[s].seen = frame[s].seen
  BY <1>4, <1>5
<1>7. pc'[s] \notin {"getGroup"} \cup Putting /\ pc[s] \notin {"getGroup"} \cup Putting
      /\ pc'[s] # "removeSession"
  BY <1>1, <1>3, <1>5 DEF Putting
<1>8. CASE frame[s].grp = online
  <2>1. Withdrawn(s) /\ Withdrawn(s)' /\ Deregistering(s) /\ Deregistering(s)'
    BY <1>1, <1>3, <1>5, <1>6, <1>8 DEF Withdrawn, Deregistering
  <2>2. SameMember(s)
    BY <1>0, <1>8 DEF SameMember, TakeSession, TakeChannel, TakeChannelId, RemoveSession,
       RemoveChannel, RemoveChannelId, TypeOK, GroupTypeOK
  <2>3. \A g \in Group \ {online} : Holds(g, s)' <=> Holds(g, s)
    BY <2>2 DEF SameMember, Holds
  <2>4. Joins(s)' <=> Joins(s)
    BY <2>3 DEF Joins
  <2>5. Joins(s) => frame[s].key = idOf[s] /\ frame[s].removed = s
    BY <1>0, <1>1, <1>3, <1>8 DEF MemberAt, StaysListed, Withdrawn, Cleaning, Ended
  <2>6. StaysListed(s)'
    BY <1>1, <1>3, <1>6, <2>1, <2>4, <2>5 DEF StaysListed
  <2>7. ASSUME NEW g \in Group \ {online} PROVE MemberOf(g, s)'
    <3>1. MemberOf(g, s) /\ ToVisit(s, g)'
      BY <1>0, <1>3, <2>1 DEF MemberAt, ToVisit
    <3>2. groupSession'[g][idOf'[s]] = s <=> groupSession[g][idOf[s]] = s
      BY <1>0, <1>1, <2>2 DEF SameMember
    <3> QED
      BY <1>0, <1>1, <1>7, <1>8, <2>2, <2>3, <3>1, <3>2 DEF MemberOf, SameMember, groups
  <2> QED
    BY <1>6, <1>7, <1>8, <2>6, <2>7 DEF MemberAt
<1>9. CASE frame[s].grp # online
  <2>0. PICK h \in Group \ {online} : h = frame[s].grp
    BY <1>0, <1>9
  <2>1. /\ groupSession \in [Group -> [Id -> Session \cup {None}]]
        /\ channelGroup \in [Group -> SUBSET Session]
        /\ channelIdGroupSession \in [Group -> SUBSET Session]
    BY <1>0 DEF TypeOK, GroupTypeOK
  <2>2. Shrinks(h) /\ \A g \in Group \ {online} : Holds(g, s)' => Holds(g, s)
    BY <1>0, <1>1, HandlerFacts, OnlyAddGrows, ShrinkingHolds DEF Putting
  <2>3. ~Withdrawn(s) /\ ~Deregistering(s) /\ pc[s] \notin {"idle", "unpublish", "lock"} \cup Ended
    BY <1>1, <1>3, <1>9 DEF Withdrawn, Deregistering, Ended
  <2>4. Joins(s) => frame[s].key = idOf[s] /\ Cleaning(s)
    BY <1>0, <1>3, <2>3 DEF MemberAt, StaysListed
  <2>5. Cleaning(s) => Cleaning(s)' /\ frame[s].back = "clean"
    BY <1>1, <1>5, <1>6 DEF Cleaning
  <2>6. Joins(s)' => Joins(s)
    BY <2>2 DEF Joins
  <2>7. StaysListed(s)'
    BY <1>1, <1>3, <1>6, <2>4, <2>5, <2>6 DEF StaysListed
  <2>8. \A g \in Group \ {online} : MemberOf(g, s)
    BY <1>0 DEF MemberAt
  <2>9. ASSUME NEW g \in Group \ {online}, g # h PROVE MemberOf(g, s)'
    <3>1. /\ groupSession'[g] = groupSession[g] /\ channelGroup'[g] = channelGroup[g]
          /\ channelIdGroupSession'[g] = channelIdGroupSession[g]
      BY <1>0, <2>0, <2>1, <2>9 DEF TakeSession, TakeChannel, TakeChannelId, RemoveSession,
         RemoveChannel, RemoveChannelId
    <3>2. Holds(g, s)' <=> Holds(g, s)
      BY <3>1 DEF Holds
    <3>3. ToVisit(s, g) => ToVisit(s, g)'
      BY <1>3, <1>6, <2>0, <2>3, <2>5, <2>9 DEF ToVisit
    <3> QED
      BY <1>1, <1>2, <1>6, <1>7, <2>0, <2>8, <2>9, <3>1, <3>2, <3>3 DEF MemberOf, groups
  <2>11. CASE TakeSession(s)
    <3>1. /\ pc[s] = "removeSession" /\ frame'[s] = f
          /\ pc'[s] = IF x = None THEN frame[s].back ELSE "removeChannel"
      BY <1>0, <2>11 DEF TakeSession, Goto, TypeOK, ManagerTypeOK, x, f
    <3>2. /\ \A i \in Id : groupSession'[h][i] = IF i = frame[s].key THEN None
                                                ELSE groupSession[h][i]
          /\ UNCHANGED <<channelGroup, channelIdGroupSession>>
      BY <1>0, <2>0, <2>1, <2>11 DEF TakeSession, RemoveSession
    <3>3. x = s \/ x = None
      <4>1. x \in Session \cup {None} /\ x = groupSession[h][frame[s].key]
        BY <1>0, <2>0, <2>1 DEF x
      <4>2. ASSUME x \in Session PROVE idOf[x] = frame[s].key
        <5>1. MemberOf(h, x)
          BY <2>0, <4>2 DEF JoinInv, MembersInv, MemberAt
        <5> QED
          BY <1>0, <4>1, <5>1 DEF MemberOf
      <4> QED
        BY <1>0, <1>3, <4>1, <4>2
    <3>4. groupSession[h][idOf[s]] = s => x = s /\ frame[s].key = idOf[s]
      BY <1>0, <2>0, <2>4 DEF x, Joins, Holds
    <3>5. groupSession'[h][idOf[s]] # s
      BY <1>0, <3>2, <3>4
    <3>6. x = s => pc'[s] = "removeChannel" /\ frame'[s].found = s /\ frame'[s].grp = h
      BY <1>0, <1>4, <2>0, <3>1
    <3>7. x # s => groupSession[h][idOf[s]] # s
      BY <3>4
    <3>8. MemberOf(h, s)'
      BY <1>0, <1>1, <1>7, <2>2, <2>8, <3>1, <3>2, <3>4, <3>5, <3>6, <3>7
         DEF MemberOf, Shrinks, groups
    <3>9. pc'[s] \in {"removeChannel", "removeChannelId"} => frame'[s].found = s
      BY <1>3, <3>1, <3>3, <3>6
    <3> QED
      BY <1>7, <2>7, <2>9, <3>8, <3>9 DEF MemberAt
  <2>12. CASE TakeChannel(s)
    <3>1. /\ pc[s] = "removeChannel" /\ pc'[s] = "removeChannelId" /\ frame'[s] = frame[s]
          /\ frame[s].found = s
      BY <1>0, <1>9, <2>12 DEF TakeChannel, Goto, OnlyCollections, TypeOK, MemberAt
    <3>2. /\ groupSession' = groupSession /\ channelIdGroupSession' = channelIdGroupSession
          /\ channelGroup'[h] = channelGroup[h] \ {s}
      BY <1>0, <2>0, <2>1, <2>12, <3>1 DEF TakeChannel, RemoveChannel
    <3>3. ToVisit(s, h) => ToVisit(s, h)'
      BY <1>3, <1>6, <2>3, <2>5, <3>1 DEF ToVisit
    <3>4. MemberOf(h, s)'
      BY <1>1, <1>2, <1>7, <2>0, <2>2, <2>8, <3>1, <3>2, <3>3 DEF MemberOf, groups
    <3> QED
      BY <1>7, <2>7, <2>9, <3>1, <3>4 DEF MemberAt
  <2>13. CASE TakeChannelId(s)
    <3>1. /\ pc[s] = "removeChannelId" /\ pc'[s] = frame[s].back /\ frame'[s] = frame[s]
          /\ frame[s].found = s
      BY <1>0, <1>9, <2>13 DEF TakeChannelId, Goto, OnlyCollections, TypeOK, MemberAt
    <3>2. /\ groupSession' = groupSession /\ channelGroup' = channelGroup
          /\ channelIdGroupSession'[h] = channelIdGroupSession[h] \ {s}
      BY <1>0, <2>0, <2>1, <2>13, <3>1 DEF TakeChannelId, RemoveChannelId
    <3>3. ToVisit(s, h) => ToVisit(s, h)'
      BY <1>3, <1>6, <2>3, <2>5, <3>1 DEF ToVisit
    <3>4. MemberOf(h, s)'
      BY <1>1, <1>2, <1>7, <2>0, <2>2, <2>8, <3>1, <3>2, <3>3 DEF MemberOf, groups
    <3>5. pc'[s] \notin {"removeChannel", "removeChannelId"}
      BY <1>3, <3>1
    <3> QED
      BY <1>7, <2>7, <2>9, <3>4, <3>5 DEF MemberAt
  <2> QED
    BY <2>11, <2>12, <2>13
<1> QED
  BY <1>8, <1>9

\* Before it has registered, a session is in no group and joins none.
LEMMA NotJoined ==
  ASSUME NEW s \in Session, TypeOK, MemberAt(s),
         stage[s] \in {"new", "registering", "login"}
  PROVE  ~Joins(s)
  BY DEF MemberAt, MemberOf, StaysListed, Joins

\* The steps of a handler that touch no group and no thread but its own.
LEMMA HandlerMember ==
  ASSUME CarefulApplication, JoinInv, NEW s \in Session,
         ChannelRegistered(s) \/ Close(s) \/ LoopStep(s)
  PROVE  MemberAt(s)'
<1> USE DEF managerVars, groupVars, indexes
<1>0. /\ TypeOK /\ InStage(s) /\ Leaves(s) /\ MemberAt(s) /\ s \in Proc /\ RegistryInv
      /\ frame[s] \in Frame /\ NoFrame \in Frame /\ idOf[s] \in Id
  BY HandlerFacts, NoFrameType
<1>1. UNCHANGED groups /\ LiveGroups' = LiveGroups /\ onlineClient' = onlineClient
  BY DEF ChannelRegistered, Close, LoopStep, RegisterBefore, RegisterBeforeThrows,
     RegisteredHooks, JoinGroup, Joined, LoggedIn, ChannelUnregistered, ManualUnregistered,
     RemoveBefore, RemoveBeforeThrows, Unregistered, NoManager, groups, LiveGroups
<1>2. ~Close(s) => UNCHANGED collections
  BY DEF ChannelRegistered, LoopStep, RegisterBefore, RegisterBeforeThrows,
     RegisteredHooks, JoinGroup, Joined, LoggedIn, ChannelUnregistered, ManualUnregistered,
     RemoveBefore, RemoveBeforeThrows, Unregistered, NoManager, collections
<1>3. ~Close(s) => \A g \in Group : Holds(g, s)' <=> Holds(g, s)
  BY <1>2 DEF Holds, collections
<1>4. CASE \/ ChannelRegistered(s) \/ RegisterBefore(s) \/ RegisterBeforeThrows(s)
           \/ RegisteredHooks(s) \/ LoggedIn(s)
  <2>1. /\ stage[s] \in {"new", "registering", "login"}
        /\ stage'[s] \in {"registering", "open"}
        /\ pc'[s] \in {"idle", "regCheck"} /\ (stage'[s] = "registering" => pc'[s] \notin Ended)
    BY <1>0, <1>4 DEF ChannelRegistered, RegisterBefore, RegisterBeforeThrows,
       RegisteredHooks, LoggedIn, Enter, Idle, Call, Resume, TypeOK, Ended
  <2>2. ~Joins(s) /\ ~Close(s)
    BY <1>0, <2>1, NotJoined DEF Close
  <2>3. ~Joins(s)' /\ \A g \in Group \ {online} : ~Holds(g, s)'
    BY <1>3, <2>1, <2>2 DEF Joins
  <2>4. idOf'[s] \in Id
    BY <1>4, <1>0, HandlersAssumption DEF ChannelRegistered, RegisterBefore,
       RegisterBeforeThrows, RegisteredHooks, LoggedIn, TypeOK, GroupTypeOK
  <2>5. StaysListed(s)'
    BY <2>1, <2>3 DEF StaysListed
  <2>6. \A g \in Group \ {online} : MemberOf(g, s)'
    BY <2>1, <2>3, <2>4 DEF MemberOf, Holds, Putting
  <2> QED
    BY <2>1, <2>5, <2>6 DEF MemberAt, Putting
<1>5. CASE JoinGroup(s)
  <2>1. /\ stage[s] = "registering" /\ pc[s] \in Ended /\ stage'[s] = "joining"
        /\ pc'[s] = "getGroup" /\ idOf' = idOf
    BY <1>0, <1>5 DEF JoinGroup, Enter, Call, TypeOK
  <2>2. frame'[s].sess = s
    <3>1. PICK g \in HookGroups[s] : Call(s, "getGroup", [NoFrame EXCEPT !.sess = s, !.gid = g])
      BY <1>5 DEF JoinGroup
    <3> DEFINE f == [NoFrame EXCEPT !.sess = s, !.gid = g]
    <3>2. f.sess = s /\ Call(s, "getGroup", f)
      BY <1>0, <3>1 DEF Frame
    <3> HIDE DEF f
    <3> QED
      BY <1>0, <3>2 DEF Call, TypeOK, ManagerTypeOK
  <2>3. ~Joins(s) /\ Listed(s) /\ ~Close(s)
    BY <1>0, <2>1, NotJoined DEF MemberAt, StaysListed, Close
  <2>4. Listed(s)'
    BY <1>1, <2>1, <2>3 DEF Listed
  <2>5. \A g \in Group \ {online} : ~Holds(g, s)'
    BY <1>3, <2>3 DEF Joins
  <2>6. StaysListed(s)'
    BY <2>1, <2>4 DEF StaysListed
  <2>7. \A g \in Group \ {online} : MemberOf(g, s)'
    BY <1>0, <2>1, <2>5 DEF MemberOf, Holds, Putting
  <2> QED
    BY <2>1, <2>2, <2>6, <2>7 DEF MemberAt, Putting
<1>6. CASE Joined(s)
  <2>1. /\ stage[s] = "joining" /\ pc[s] \in Ended /\ stage'[s] = "open"
        /\ pc'[s] = "idle" /\ idOf' = idOf
    BY <1>0, <1>6 DEF Joined, Enter, Resume, TypeOK
  <2>2. Listed(s)
    BY <1>0, <2>1 DEF MemberAt, StaysListed, Joins
  <2>3. Listed(s)' /\ ~Close(s)
    BY <1>1, <2>1, <2>2 DEF Listed, Close
  <2>4. StaysListed(s)'
    BY <2>1, <2>3 DEF StaysListed
  <2>5. ASSUME NEW g \in Group \ {online} PROVE MemberOf(g, s)'
    <3>1. MemberOf(g, s)
      BY <1>0 DEF MemberAt
    <3> QED
      BY <1>1, <1>2, <1>3, <2>1, <2>3, <3>1 DEF MemberOf, Putting, Ended, collections, groups
  <2> QED
    BY <2>1, <2>4, <2>5 DEF MemberAt, Putting
<1>7. CASE Close(s)
  <2>1. /\ stage[s] = "open" /\ UNCHANGED <<stage, pc, frame, idOf, groupSession,
                                             channelIdGroupSession>>
        /\ \A g \in Group : channelGroup'[g] = channelGroup[g] \ {s}
    BY <1>7 DEF Close, DropFromChannelGroups
  <2>2. /\ \A g \in Group \ {online} : Holds(g, s)' => Holds(g, s)
        /\ Joins(s)' => Joins(s)
    BY <2>1 DEF Holds, Joins
  <2>3. StaysListed(s)'
    BY <1>0, <1>1, <2>1, <2>2 DEF MemberAt, StaysListed, Listed
  <2>4. ASSUME NEW g \in Group \ {online} PROVE MemberOf(g, s)'
    <3>1. MemberOf(g, s)
      BY <1>0 DEF MemberAt
    <3> QED
      BY <1>1, <2>1, <2>2, <3>1 DEF MemberOf, groups
  <2>5. Registering(s)' = Registering(s)
    BY <2>1 DEF Registering
  <2> QED
    BY <1>0, <2>1, <2>3, <2>4, <2>5 DEF MemberAt
<1>8. CASE ChannelUnregistered(s)
  <2>1. /\ stage[s] = "open" /\ stage'[s] = "unregistering" /\ pc[s] = "idle"
        /\ pc'[s] = "idle" /\ idOf' = idOf
        /\ frame'[s] = [NoFrame EXCEPT !.key = CurrentId(s)]
    BY <1>0, <1>8 DEF ChannelUnregistered, Enter, Idle, TypeOK, ManagerTypeOK
  <2>2. frame'[s].key = CurrentId(s)
    BY <1>0, <2>1 DEF Frame
  <2>3. Listed(s) => CurrentId(s) = idOf[s]
    BY <1>0, NoneAssumption DEF Listed, CurrentId, RegistryInv, FoundIsIndexed
  <2>4. Listed(s)' = Listed(s)
    BY <1>1, <2>1 DEF Listed, Close
  <2>5. Joins(s)' => Joins(s) /\ Listed(s)
    <3>1. ~Close(s)
      BY <1>8, <2>1 DEF Close, ChannelUnregistered
    <3>2. Joins(s)' => Joins(s)
      BY <1>3, <2>1, <3>1 DEF Joins
    <3>3. Joins(s) => Listed(s)
      BY <1>0, <2>1 DEF MemberAt, StaysListed
    <3> QED
      BY <3>2, <3>3
  <2>6. StaysListed(s)'
    BY <2>1, <2>2, <2>3, <2>4, <2>5 DEF StaysListed, Ended
  <2>7. ASSUME NEW g \in Group \ {online} PROVE MemberOf(g, s)'
    <3>1. MemberOf(g, s) /\ ToVisit(s, g)' /\ UNCHANGED collections
      BY <1>0, <1>8, <2>1 DEF MemberAt, ToVisit, ChannelUnregistered, NoManager
    <3>2. Holds(g, s)' <=> Holds(g, s)
      BY <3>1 DEF Holds, collections
    <3> QED
      BY <1>1, <2>1, <3>1, <3>2 DEF MemberOf, Putting, collections, groups
  <2> QED
    BY <2>1, <2>6, <2>7 DEF MemberAt, Putting
<1>9. CASE RemoveBefore(s)
  <2>1. /\ stage[s] = "unregistering" /\ stage' = stage /\ pc[s] = "idle"
        /\ pc'[s] = "unpublish" /\ idOf' = idOf /\ frame'[s] = frame[s]
    BY <1>0, <1>9 DEF RemoveBefore, Idle, Call, TypeOK, ManagerTypeOK
  <2>2. Listed(s)' = Listed(s) /\ ~Close(s)
    BY <1>1, <2>1 DEF Listed, Close
  <2>3. Joins(s)' => Joins(s)
    BY <1>3, <2>1, <2>2 DEF Joins
  <2>4. StaysListed(s)'
    BY <1>0, <2>1, <2>2, <2>3 DEF MemberAt, StaysListed, Withdrawn, Deregistering, Cleaning,
       Taking, Ended
  <2>5. ASSUME NEW g \in Group \ {online} PROVE MemberOf(g, s)'
    <3>1. MemberOf(g, s) /\ ToVisit(s, g)'
      BY <1>0, <2>1 DEF MemberAt, ToVisit, Deregistering
    <3> QED
      BY <1>1, <1>2, <1>3, <2>1, <2>2, <3>1 DEF MemberOf, Putting, collections, groups
  <2> QED
    BY <2>1, <2>4, <2>5 DEF MemberAt, Putting
<1>10. CASE Unregistered(s)
  <2>1. /\ stage[s] = "unregistering" /\ stage'[s] = "gone" /\ pc[s] \in Ended
        /\ pc'[s] = "idle" /\ idOf' = idOf
    BY <1>0, <1>10 DEF Unregistered, Enter, Resume, TypeOK
  <2>2. StaysListed(s)'
    BY <2>1 DEF StaysListed
  <2>3. ASSUME NEW g \in Group \ {online} PROVE MemberOf(g, s)'
    <3>1. MemberOf(g, s) /\ ~ToVisit(s, g) /\ ~Close(s)
      BY <1>0, <2>1 DEF MemberAt, ToVisit, Deregistering, Cleaning, Taking, Ended, Close
    <3> QED
      BY <1>1, <1>2, <1>3, <2>1, <3>1 DEF MemberOf, Putting, Ended, collections, groups
  <2> QED
    BY <2>1, <2>2, <2>3 DEF MemberAt, Putting
<1>11. CASE RemoveBeforeThrows(s)
  <2>1. /\ stage[s] = "unregistering" /\ stage'[s] = "kept" /\ pc[s] = "idle"
        /\ pc'[s] = "idle" /\ idOf' = idOf
    BY <1>0, <1>11 DEF RemoveBeforeThrows, Enter, Idle, TypeOK
  <2>2. StaysListed(s)'
    BY <2>1 DEF StaysListed
  <2>3. ASSUME NEW g \in Group \ {online} PROVE MemberOf(g, s)'
    <3>1. MemberOf(g, s) /\ ~Close(s)
      BY <1>0, <2>1 DEF MemberAt, Close
    <3> QED
      BY <1>1, <1>2, <1>3, <2>1, <3>1 DEF MemberOf, Putting, collections, groups
  <2> QED
    BY <2>1, <2>2, <2>3 DEF MemberAt, Putting
<1>12. ~ManualUnregistered(s)
  BY DEF CarefulApplication, ManualUnregistered
<1> QED
  BY <1>4, <1>5, <1>6, <1>7, <1>8, <1>9, <1>10, <1>11, <1>12 DEF LoopStep

\* Every step of a handler inside the manager, for its own session and for
\* the others.
LEMMA HandlerStepMembers ==
  ASSUME CarefulApplication, JoinInv, NEW s \in Session, ManagerStep(s), stage' = stage
  PROVE  MembersInv'
<1>0. /\ TypeOK /\ RegistryInv /\ Leaves(s) /\ MemberAt(s) /\ s \in Proc
      /\ idOf[s] \in OwnIds(s) /\ InPlace(s)
      /\ \A t \in Session : t # s => idOf[t] \notin OwnIds(s)
      /\ onlineClient \in [Id -> Session \cup {None}] /\ frame[s].key \in Id
  BY HandlerFacts DEF TypeOK, ManagerTypeOK
<1>1. pc[s] \notin AppMethods
  BY <1>0 DEF Leaves
<1>2. UNCHANGED groups /\ LiveGroups' = LiveGroups /\ UNCHANGED <<idOf, closed>>
      /\ \A q \in Proc : q # s => pc'[q] = pc[q] /\ frame'[q] = frame[q]
  BY <1>0, <1>1, GroupsStay, ManagerMovesOne DEF groups, LiveGroups
<1>3. MemberAt(s)'
  <2>1. \/ CheckAbsent(s) \/ IndexChannel(s) \/ Publish(s) \/ GetGroup(s)
        \/ Unpublish(s) \/ Unindex(s) \/ Clean(s)
        \/ AddSession(s) \/ AddChannel(s) \/ AddChannelId(s)
        \/ TakeSession(s) \/ TakeChannel(s) \/ TakeChannelId(s)
    BY <1>1 DEF ManagerStep, GetGroupRemove, CreateCheck, CreatePut, RemoveGroup,
       FindSessionInGroup, FindHasGroup, FindInGroup, FindTake, Goto, AppMethods
  <2> QED
    BY <2>1, RegistrationMember, GetGroupMember, DeregistrationMember, AddMember, TakeMember
<1>4. ASSUME NEW t \in Session, t # s PROVE MemberAt(t)'
  <2>1. SameMember(t) /\ GroupsMove /\ t \in Proc /\ MemberAt(t)
    BY <1>2, <1>4, ManagerSparesOthers, HandlersAssumption DEF GroupsMove, groups, JoinInv,
       MembersInv
  <2>2. Listed(t) => Listed(t)'
    <3>1. CASE Publish(s)
      <4>1. frame[s].key = idOf[s] /\ frame[s].key # idOf[t]
        BY <1>0, <1>4, <3>1 DEF Publish, Goto, InPlace, Registering
      <4> QED
        BY <1>0, <1>2, <3>1, <4>1 DEF Publish, Listed
    <3>2. CASE Unpublish(s)
      <4>1. frame[s].key # idOf[t]
        BY <1>0, <1>4, <3>2 DEF Unpublish, Leaves
      <4> QED
        BY <1>0, <1>2, <3>2, <4>1 DEF Unpublish, Listed
    <3>3. CASE pc[s] \notin {"regPublish", "unpublish"}
      <4>1. onlineClient' = onlineClient
        BY <1>0, <3>3, ListedStays
      <4> QED
        BY <1>2, <4>1 DEF Listed
    <3>4. pc[s] \in {"regPublish", "unpublish"} => Publish(s) \/ Unpublish(s)
      BY DEF ManagerStep, AddSession, AddChannel, AddChannelId, TakeSession, TakeChannel,
         TakeChannelId, CheckAbsent, IndexChannel, Unindex, Clean, EnterClean, CleanGroup,
         LeaveClean, GetGroup, GetGroupRemove, CreateCheck, CreatePut, RemoveGroup,
         FindSessionInGroup, FindHasGroup, FindInGroup, FindTake, Goto
    <3> QED
      BY <3>1, <3>2, <3>3, <3>4
  <2> QED
    BY <1>0, <1>2, <1>4, <2>1, <2>2, SparedStays
<1>5. \A a \in App : pc'[a] = pc[a]
  BY <1>2, HandlersAssumption
<1> QED
  BY <1>2, <1>3, <1>4, <1>5 DEF MembersInv, JoinInv, groups

\* Every step of a handler outside the manager.
LEMMA HandlerMembers ==
  ASSUME CarefulApplication, JoinInv, NEW s \in Session,
         ChannelRegistered(s) \/ Close(s) \/ LoopStep(s)
  PROVE  MembersInv'
<1> USE DEF managerVars, groupVars, indexes
<1>0. TypeOK /\ s \in Proc
  BY HandlerFacts
<1>1. UNCHANGED groups /\ LiveGroups' = LiveGroups /\ onlineClient' = onlineClient
  BY DEF ChannelRegistered, Close, LoopStep, RegisterBefore, RegisterBeforeThrows,
     RegisteredHooks, JoinGroup, Joined, LoggedIn, ChannelUnregistered, ManualUnregistered,
     RemoveBefore, RemoveBeforeThrows, Unregistered, NoManager, groups, LiveGroups
<1>2. /\ \A q \in Proc : q # s => pc'[q] = pc[q] /\ frame'[q] = frame[q]
      /\ \A t \in Session : t # s => stage'[t] = stage[t] /\ idOf'[t] = idOf[t]
  BY <1>0 DEF ChannelRegistered, Close, LoopStep, RegisterBefore,
     RegisterBeforeThrows, RegisteredHooks, JoinGroup, Joined, LoggedIn,
     ChannelUnregistered, ManualUnregistered, RemoveBefore, RemoveBeforeThrows,
     Unregistered, NoManager, Enter, Call, Resume, TypeOK, GroupTypeOK, ManagerTypeOK
<1>3. ASSUME NEW t \in Session, t # s PROVE MemberAt(t)'
  <2>1. SameMember(t)
    <3>1. CASE Close(s)
      BY <1>3, <3>1 DEF Close, DropFromChannelGroups, SameMember
    <3>2. CASE ~Close(s)
      <4>1. UNCHANGED collections
        BY <3>2 DEF ChannelRegistered, LoopStep, RegisterBefore, RegisterBeforeThrows,
           RegisteredHooks, JoinGroup, Joined, LoggedIn, ChannelUnregistered,
           ManualUnregistered, RemoveBefore, RemoveBeforeThrows, Unregistered, NoManager,
           collections
      <4> QED
        BY <4>1 DEF SameMember, collections
    <3> QED
      BY <3>1, <3>2
  <2>2. GroupsMove /\ t \in Proc /\ MemberAt(t)
    BY <1>1, HandlersAssumption DEF GroupsMove, groups, JoinInv, MembersInv
  <2>3. Listed(t) => Listed(t)'
    BY <1>1, <1>2, <1>3 DEF Listed
  <2> QED
    BY <1>0, <1>2, <1>3, <2>1, <2>2, <2>3, SparedStays
<1>4. \A a \in App : pc'[a] = pc[a]
  BY <1>2, HandlersAssumption
<1> QED
  BY <1>1, <1>3, <1>4, HandlerMember DEF MembersInv, JoinInv, groups

\* The application's threads make groups and drop them; a group they make
\* is empty.
LEMMA AppMembers ==
  ASSUME OnlyHooksJoin, JoinInv, NEW a \in App,
         AppStep(a) \/ Step(a)
  PROVE  MembersInv'
<1>0. /\ TypeOK /\ a \in Proc /\ a \notin Session
      /\ pc[a] \in {"idle", "createCheck", "createPut", "removeGroup"} \cup Ended
      /\ LiveGroups \subseteq created
  BY HandlersAssumption DEF JoinInv, LeaveInv, IndexInv, RegistryInv, MembersInv
<1>1. \/ MakeGroup(a) \/ DropGroup(a) \/ CallEnds(a)
      \/ /\ CreateCheck(a) \/ CreatePut(a) \/ RemoveGroup(a)
         /\ stage' = stage
  <2>1. CASE AppStep(a)
    BY <2>1 DEF AppStep, Kick, Ban, AddToGroup, RemoveFromGroup, FindMember, StartCall,
       OnlyHooksJoin
  <2>2. CASE Step(a)
    BY <1>0, <2>2 DEF Step, ManagerStep, AddSession, AddChannel, AddChannelId, TakeSession,
       TakeChannel, TakeChannelId, CheckAbsent, IndexChannel, Unindex, Clean, EnterClean,
       CleanGroup, LeaveClean, GetGroup, GetGroupRemove, Publish, Unpublish,
       FindSessionInGroup, FindHasGroup, FindInGroup, FindTake, Goto, Ended
  <2> QED
    BY <2>1, <2>2
<1>2. /\ UNCHANGED <<collections, stage, idOf, onlineClient>>
      /\ \A q \in Proc : q # a => pc'[q] = pc[q] /\ frame'[q] = frame[q]
  BY <1>0, <1>1 DEF MakeGroup, DropGroup, CallEnds, StartCall, CreateCheck, CreatePut,
     RemoveGroup, Goto, Call, Resume, NoManager, groupVars, indexes, TypeOK, ManagerTypeOK
<1>3. pc'[a] \in {"idle", "createCheck", "createPut", "removeGroup"} \cup Ended
  BY <1>0, <1>1 DEF MakeGroup, DropGroup, CallEnds, StartCall, CreateCheck, CreatePut,
     RemoveGroup, Goto, Call, Resume, TypeOK, Ended
<1>4. GroupsMove /\ LiveGroups' \subseteq created'
  <2>1. CASE CreatePut(a)
    <3>1. PICK g \in Group \ created :
            /\ onlineGroupClient' = [onlineGroupClient EXCEPT ![frame[a].gid] = g]
            /\ created' = created \cup {g}
      BY <2>1 DEF CreatePut
    <3> QED
      BY <1>0, <3>1 DEF GroupsMove, LiveGroups, TypeOK, ManagerTypeOK
  <2>2. CASE RemoveGroup(a)
    BY <1>0, <2>2 DEF RemoveGroup, GroupsMove, LiveGroups, TypeOK, ManagerTypeOK
  <2>3. CASE UNCHANGED groups
    BY <1>0, <2>3 DEF groups, GroupsMove, LiveGroups
  <2> QED
    BY <1>1, <2>1, <2>2, <2>3 DEF MakeGroup, DropGroup, CallEnds, StartCall, CreateCheck,
       NoManager
<1>5. ASSUME NEW t \in Session PROVE MemberAt(t)'
  <2>1. /\ t \in Proc /\ t # a /\ MemberAt(t) /\ SameMember(t) /\ (Listed(t) => Listed(t)')
    BY <1>0, <1>2, HandlersAssumption DEF JoinInv, MembersInv, SameMember, collections, Listed
  <2> QED
    BY <1>0, <1>2, <1>4, <2>1, SparedStays
<1>6. \A b \in App : pc'[b] \in {"idle", "createCheck", "createPut", "removeGroup"} \cup Ended
  BY <1>2, <1>3, HandlersAssumption DEF JoinInv, MembersInv
<1> QED
  BY <1>4, <1>5, <1>6 DEF MembersInv

\* Every step keeps the invariant.
LEMMA StepJoins ==
  ASSUME CarefulApplication, OnlyHooksJoin, JoinInv, [Next]_vars
  PROVE  JoinInv'
<1>1. LeaveInv'
  BY StepLeaves DEF JoinInv
<1> SUFFICES MembersInv'
  BY <1>1 DEF JoinInv
<1>2. CASE \E s \in Session : ChannelRegistered(s) \/ Login(s) \/ Close(s) \/ LoopStep(s)
  BY <1>2, HandlerMembers DEF CarefulApplication, Login
<1>3. ASSUME NEW a \in App, AppStep(a) PROVE MembersInv'
  BY <1>3, AppMembers
<1>4. CASE \E p \in Proc : Step(p)
  BY <1>4, HandlersAssumption, HandlerStepMembers, AppMembers DEF Step
<1>5. CASE UNCHANGED vars
  <2> USE DEF vars, groupVars, managerVars, indexes, collections, groups
  <2>1. /\ LiveGroups' = LiveGroups
        /\ GroupsMove
    BY <1>5 DEF LiveGroups, GroupsMove
  <2>2. ASSUME NEW t \in Session PROVE MemberAt(t)'
    <3>1. TypeOK /\ MemberAt(t) /\ SameMember(t) /\ (Listed(t) => Listed(t)')
      BY <1>5 DEF JoinInv, LeaveInv, IndexInv, RegistryInv, MembersInv, SameMember, Listed
    <3> QED
      BY <1>5, <2>1, <3>1, SparedStays
  <2> QED
    BY <1>1, <1>5, <2>1, <2>2 DEF JoinInv, MembersInv
<1> QED
  BY <1>2, <1>3, <1>4, <1>5 DEF Next

\* At first every group is empty, and those the application has made are
\* created.
LEMMA InitJoins == ASSUME CarefulApplication, Init PROVE JoinInv
<1>1. LeaveInv
  BY InitLeaves
<1>2. /\ \A p \in Proc : pc[p] = "idle"
      /\ \A s \in Session : stage[s] = "new" /\ s \in Proc /\ idOf[s] \in Id
      /\ LiveGroups \subseteq created
      /\ \A g \in Group, s \in Session : ~Holds(g, s)
  BY HandlersAssumption, NoneAssumption DEF Init, GroupInit, LiveGroups, Holds
<1>3. ASSUME NEW s \in Session PROVE MemberAt(s)
  <2>1. ~Joins(s) /\ StaysListed(s)
    BY <1>2, <1>3 DEF Joins, StaysListed
  <2>2. \A g \in Group \ {online} : MemberOf(g, s)
    BY <1>2, <1>3 DEF MemberOf, Holds, Putting
  <2> QED
    BY <1>2, <1>3, <2>1, <2>2 DEF MemberAt, Putting
<1>4. \A a \in App : pc[a] = "idle"
  BY <1>2, HandlersAssumption
<1> QED
  BY <1>1, <1>2, <1>3, <1>4 DEF JoinInv, MembersInv

\* Nothing in the groups or in the indexes refers to a session whose channel
\* is gone, if nobody is in a group or if the sessions leave the groups they
\* joined.
LEMMA GoneFromAll ==
  ASSUME CarefulApplication, LeaveInv, IndexesAgree, NoMembers \/ MembersInv
  PROVE  GoneIsForgotten
<1> SUFFICES ASSUME Quiet, NEW s \in Session, stage[s] = "gone"
             PROVE  ~InRegistry(s) /\ \A g \in LiveGroups : ~Holds(g, s)
  BY DEF GoneIsForgotten
<1>1. ~InRegistry(s)
  BY GoneFromRegistry
<1>2. ASSUME NEW g \in LiveGroups PROVE ~Holds(g, s)
  <2>1. g \in Group \ {online} /\ s \in Proc /\ pc[s] \notin Running
    BY HandlersAssumption DEF LeaveInv, IndexInv, RegistryInv, OnlineIsApart, TypeOK,
       ManagerTypeOK, LiveGroups, Quiet
  <2>2. CASE NoMembers
    BY <2>1, <2>2 DEF NoMembers
  <2>3. CASE MembersInv
    <3>1. MemberOf(g, s) /\ ~ToVisit(s, g)
      BY <2>1, <2>3 DEF MembersInv, MemberAt, ToVisit
    <3>2. pc[s] \notin {"removeChannel", "removeChannelId"}
      BY <2>1 DEF Running
    <3> QED
      BY <3>1, <3>2 DEF MemberOf, Holds
  <2> QED
    BY <2>2, <2>3
<1> QED
  BY <1>1, <1>2

\* When no call is in progress nothing in the manager or in a group refers to
\* the session of a channel whose unregistered handler has got to its end, if
\* nobody joins the application's groups or only the registered hooks do, each
\* before its own channel is closed, while the application's threads create
\* and remove groups.  Otherwise it is false: addSession may add a session
\* that has gone through its groups already.
THEOREM GoneSessionsAreForgotten ==
  CarefulApplication /\ (NobodyJoins \/ OnlyHooksJoin)
    => (Spec => []GoneIsForgotten)
<1>1. ASSUME CarefulApplication, NobodyJoins
      PROVE  Spec => []GoneIsForgotten
  <2>1. Init => LeaveInv /\ NoMembers
    BY <1>1, InitLeaves, InitNoMembers
  <2>2. LeaveInv /\ NoMembers /\ [Next]_vars => (LeaveInv /\ NoMembers)'
    BY <1>1, StepLeaves, StepNoMembers DEF LeaveInv, IndexInv
  <2>3. Spec => []IndexesAgree
    BY <1>1, QuietIndexesAgree
  <2>4. LeaveInv /\ NoMembers /\ IndexesAgree => GoneIsForgotten
    BY <1>1, GoneFromAll
  <2> QED
    BY <2>1, <2>2, <2>3, <2>4, PTL DEF Spec
<1>2. ASSUME CarefulApplication, OnlyHooksJoin
      PROVE  Spec => []GoneIsForgotten
  <2>1. Init => JoinInv
    BY <1>2, InitJoins
  <2>2. JoinInv /\ [Next]_vars => JoinInv'
    BY <1>2, StepJoins
  <2>3. Spec => []IndexesAgree
    BY <1>2, QuietIndexesAgree
  <2>4. JoinInv /\ IndexesAgree => GoneIsForgotten
    BY <1>2, GoneFromAll DEF JoinInv
  <2> QED
    BY <2>1, <2>2, <2>3, <2>4, PTL DEF Spec
<1> QED
  BY <1>1, <1>2
=============================================================================
