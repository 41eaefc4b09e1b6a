------------------------ MODULE SessionIndexes_proofs ------------------------
(***************************************************************************)
(* The indexes of the manager agree when no call is in progress, under a   *)
(* careful application; and the handler of a channel that goes leaves its  *)
(* session unlisted, and with that in none of them.                        *)
(***************************************************************************)
EXTENDS SessionRegistry_proofs

(* AccountedFor is kept by every step.                                     *)

\* A step aside of the registry moves no thread that withdraws.
LEMMA AsideAccounts ==
  ASSUME IndexInv, TypeInv', NEW p \in Proc, Aside(p), NEW s \in Session
  PROVE  AccountedFor(s)'
<1> USE DEF Aside, Alone, SameRegistry
<1>1. AccountedFor(s) /\ s \in Proc /\ TypeOK
  BY HandlersAssumption DEF IndexInv, RegistryInv
<1>2. /\ Registering(s) => Registering(s)'
      /\ pc[s] = "regPublish" => pc'[s] = "regPublish"
      /\ Listed(s)' = Listed(s)
  BY <1>1 DEF Registering, Listed
<1>3. \A q \in Proc, l \in Taking : Withdraws(q, l) =>
        Withdraws(q, l)' /\ frame'[q] = frame[q]
  BY DEF Withdraws, Withdrawn, Deregistering, Taking
<1>4. \A q \in Proc : Withdrawn(q) => Withdrawn(q)' /\ frame'[q] = frame[q]
  BY DEF Withdrawn, Deregistering
<1> QED
  BY <1>1, <1>2, <1>3, <1>4 DEF AccountedFor, Taking

\* A session whose handler has not inserted it yet is in no index.
LEMMA EarlyIsNowhere ==
  ASSUME IndexInv, NEW s \in Session, Undecided(s), Early(s)
  PROVE  /\ s \notin channelGroup[online] /\ s \notin channelIdGroupSession[online]
         /\ s \notin onlineChannelIdClient
         /\ \A i \in Id : groupSession[online][i] # s /\ onlineClient[i] # s
<1>1. /\ NotYet(s) /\ AccountedFor(s) /\ idOf[s] \in Id
      /\ pc[s] # "regPublish"
  BY DEF IndexInv, RegistryInv, NotYetListed, Early, TypeOK, GroupTypeOK, CallsInPlace,
     InStage
<1>2. \A p \in Proc, l \in {"removeChannel", "removeChannelId"} :
        Withdraws(p, l) => frame[p].found # s
  BY DEF IndexInv, RegistryInv, RemovedAreOut, Removes, Out, Withdraws
<1>3. \A p \in Proc : Withdrawn(p) => frame[p].removed # s
  BY NoneAssumption DEF IndexInv, RegistryInv, RemovedAreOut, Removes, Out
<1> QED
  BY <1>1, <1>2, <1>3 DEF AccountedFor, NotYet, Listed

\* registerBefore gives an id to a session that is in no index yet.
LEMMA RegisterBeforeAccounts ==
  ASSUME IndexInv, NEW s \in Session, RegisterBefore(s), NEW t \in Session
  PROVE  AccountedFor(t)'
<1> USE DEF indexes, collections
<1>1. TypeOK /\ s \in Proc /\ t \in Proc /\ AccountedFor(t)
  BY HandlersAssumption DEF IndexInv, RegistryInv
<1>2. /\ pc[s] = "idle" /\ pc'[s] = "regCheck"
      /\ \A q \in Proc : q # s => pc'[q] = pc[q] /\ frame'[q] = frame[q]
      /\ \A u \in Session : u # s => idOf'[u] = idOf[u]
      /\ UNCHANGED <<closed, indexes, collections>>
  BY <1>1 DEF RegisterBefore, Idle, Call, NoManager, TypeOK, ManagerTypeOK, GroupTypeOK
<1>3. CASE t = s
  <2>1. /\ s \notin channelGroup[online] /\ s \notin channelIdGroupSession[online]
        /\ s \notin onlineChannelIdClient
        /\ \A i \in Id : groupSession[online][i] # s
    BY EarlyIsNowhere DEF RegisterBefore, Idle, Undecided, Early, Ended
  <2>2. idOf'[s] \in Id
    BY <1>1, HandlersAssumption DEF RegisterBefore, TypeOK, GroupTypeOK
  <2> QED
    BY <1>2, <1>3, <2>1, <2>2 DEF AccountedFor
<1>4. CASE t # s
  <2>1. /\ Registering(t) => Registering(t)'
        /\ pc'[t] = pc[t] /\ idOf'[t] = idOf[t] /\ Listed(t)' = Listed(t)
    BY <1>1, <1>2, <1>4 DEF Registering, Listed
  <2>2. \A q \in Proc, l \in Taking : Withdraws(q, l) =>
          Withdraws(q, l)' /\ frame'[q] = frame[q]
    BY <1>2 DEF Withdraws, Taking
  <2>3. \A q \in Proc : Withdrawn(q) => Withdrawn(q)' /\ frame'[q] = frame[q]
    BY <1>2 DEF Withdrawn, Deregistering, Taking
  <2> QED
    BY <1>1, <1>2, <2>1, <2>2, <2>3 DEF AccountedFor, Taking
<1> QED
  BY <1>3, <1>4

\* A channel that closes leaves the channel group.
LEMMA CloseAccounts ==
  ASSUME IndexInv, NEW s \in Session, Close(s), NEW t \in Session
  PROVE  AccountedFor(t)'
<1>1. /\ channelGroup'[online] = channelGroup[online] \ {s}
      /\ closed' = closed \cup {s}
      /\ UNCHANGED <<idOf, managerVars, groupSession, channelIdGroupSession>>
  BY ManagerAssumption DEF Close, DropFromChannelGroups
<1> QED
  BY <1>1 DEF IndexInv, AccountedFor, Withdraws, Withdrawn, Deregistering, Registering,
     Listed, managerVars, indexes

\* A step of registrySession inserts the handler's session where its place
\* says it is, and lists it last.
LEMMA RegistrationAccounts ==
  ASSUME CarefulApplication, IndexInv, TypeInv', NEW s \in Session, stage' = stage,
         Registers(s),
         \/ CheckAbsent(s) \/ IndexChannel(s) \/ Publish(s)
         \/ AddSession(s) /\ frame[s].grp = online
         \/ AddChannel(s) /\ frame[s].grp = online
         \/ AddChannelId(s) /\ frame[s].grp = online,
         NEW t \in Session
  PROVE  AccountedFor(t)'
<1> USE DEF indexes, groups, collections, groupVars, OnlyCollections
<1>0. /\ TypeOK /\ s \in Proc /\ t \in Proc /\ online \in Group
      /\ AccountedFor(t) /\ Registering(s) /\ frame[s].sess = s
      /\ pc[s] # "regCheck" => frame[s].key = idOf[s]
      /\ SoFar(s) /\ s \notin closed /\ idOf[s] \in Id /\ idOf[t] \in Id
      /\ pc[s] \in Putting => frame[s].back = "regIndex"
  <2>1. /\ TypeOK /\ s \in Proc /\ t \in Proc /\ online \in Group
        /\ AccountedFor(t) /\ Registering(s) /\ SoFar(s) /\ InPlace(s)
    BY HandlersAssumption, ManagerAssumption DEF IndexInv, RegistryInv, CallsInPlace,
       Inserted, Registers
  <2>2. /\ stage[s] = "registering" /\ frame[s].sess = s
        /\ pc[s] # "regCheck" => frame[s].key = idOf[s]
    BY <2>1 DEF InPlace
  <2>3. s \notin closed
    BY <2>2 DEF IndexInv, RegistryInv, ClosedAfterRegistration
  <2>4. pc[s] \in Putting => frame[s].back = "regIndex"
    BY <2>1 DEF Registering, Putting
  <2> QED
    BY <2>1, <2>2, <2>3, <2>4 DEF TypeOK, GroupTypeOK
<1>1. /\ \A q \in Proc : q # s => pc'[q] = pc[q] /\ frame'[q] = frame[q]
      /\ UNCHANGED <<idOf, closed>>
  BY DEF Registers, Alone
<1>2. \A q \in Proc, l \in Taking : Withdraws(q, l) =>
        Withdraws(q, l)' /\ frame'[q] = frame[q]
  BY <1>0, <1>1 DEF Withdraws, Taking, Registering, Putting
<1>3. \A q \in Proc : Withdrawn(q) => Withdrawn(q)' /\ frame'[q] = frame[q]
  BY <1>0, <1>1 DEF Withdrawn, Deregistering, Taking, Registering, Putting
<1>4. CASE t # s
  <2>1. idOf[t] # idOf[s]
    BY <1>4 DEF IndexInv, RegistryInv, FiledUnderItsId, Filed, CarefulApplication, UniqueIds
  <2>2. /\ pc'[t] = pc[t] /\ frame'[t] = frame[t]
        /\ onlineClient'[idOf[t]] = onlineClient[idOf[t]]
        /\ groupSession'[online][idOf[t]] = groupSession[online][idOf[t]]
    BY <1>0, <1>1, <1>4, <2>1 DEF Registers
  <2>3. /\ t \in channelGroup'[online] <=> t \in channelGroup[online]
        /\ t \in channelIdGroupSession'[online] <=> t \in channelIdGroupSession[online]
        /\ t \in onlineChannelIdClient' <=> t \in onlineChannelIdClient
    <3>1. CASE CheckAbsent(s) \/ IndexChannel(s) \/ Publish(s)
      BY <1>0, <1>4, <3>1 DEF CheckAbsent, IndexChannel, Publish
    <3>2. CASE AddSession(s)
      BY <3>2 DEF AddSession, PutSession
    <3>3. CASE AddChannel(s) /\ frame[s].grp = online
      BY <1>0, <1>4, <3>3 DEF AddChannel, PutChannel, TypeOK, GroupTypeOK
    <3>4. CASE AddChannelId(s) /\ frame[s].grp = online
      BY <1>0, <1>4, <3>4 DEF AddChannelId, PutChannelId, TypeOK, GroupTypeOK
    <3> QED
      BY <3>1, <3>2, <3>3, <3>4
  <2>4. Registering(t)' = Registering(t) /\ Listed(t)' = Listed(t)
    BY <1>1, <2>2 DEF Registering, Listed
  <2> QED
    BY <1>0, <1>1, <1>2, <1>3, <2>2, <2>3, <2>4 DEF AccountedFor, Taking
<1>5. CASE t = s
  <2>1. SoFar(s)' /\ (pc'[s] \in {"putChannel", "putChannelId", "regIndex", "regPublish"}
                        => groupSession'[online][idOf[s]] = s /\ Registering(s)')
    BY <1>0, <1>1 DEF Registers, SoFar, Ended
  <2>2. CASE CheckAbsent(s)
    <3>1. Undecided(s) /\ Early(s)
      BY <1>0, <2>2 DEF CheckAbsent, Undecided, Early, IndexInv, RegistryInv, CallsInPlace,
         InPlace, Ended
    <3> QED
      BY <1>0, <1>1, <1>5, <2>2, <3>1, EarlyIsNowhere DEF CheckAbsent, AccountedFor
  <2>3. CASE AddSession(s) /\ frame[s].grp = online
    <3>1. Undecided(s) /\ Early(s)
      BY <1>0, <2>3 DEF AddSession, Goto, Undecided, Early, IndexInv, RegistryInv,
         CallsInPlace, InPlace, Ended
    <3>2. pc'[s] = "putChannel"
      BY <1>0, <2>3 DEF AddSession, Goto, TypeOK
    <3> QED
      BY <1>0, <1>1, <1>5, <2>1, <2>3, <3>1, <3>2, EarlyIsNowhere
         DEF AddSession, PutSession, AccountedFor
  <2>4. CASE AddChannel(s) /\ frame[s].grp = online
    <3>1. pc[s] = "putChannel" /\ pc'[s] = "putChannelId"
      BY <1>0, <2>4 DEF AddChannel, Goto, TypeOK
    <3>2. UNCHANGED <<onlineClient, onlineChannelIdClient, groupSession, channelIdGroupSession>>
      BY <2>4 DEF AddChannel, PutChannel
    <3> QED
      BY <1>0, <1>1, <1>2, <1>3, <1>5, <2>1, <3>1, <3>2 DEF AccountedFor, Listed, Taking
  <2>5. CASE AddChannelId(s) /\ frame[s].grp = online
    <3>1. pc[s] = "putChannelId" /\ pc'[s] = "regIndex"
      BY <1>0, <2>5 DEF AddChannelId, Goto, TypeOK, Putting
    <3>2. UNCHANGED <<onlineClient, onlineChannelIdClient, groupSession, channelGroup>>
      BY <2>5 DEF AddChannelId, PutChannelId
    <3> QED
      BY <1>0, <1>1, <1>2, <1>3, <1>5, <2>1, <3>1, <3>2 DEF AccountedFor, Listed, Taking
  <2>6. CASE IndexChannel(s)
    <3>1. pc'[s] = "regPublish"
      BY <1>0, <2>6 DEF IndexChannel, Goto, TypeOK
    <3> QED
      BY <1>0, <1>1, <1>5, <2>1, <2>6, <3>1 DEF IndexChannel, AccountedFor
  <2>7. CASE Publish(s)
    <3>1. pc[s] = "regPublish" /\ onlineClient'[idOf[s]] = s
      BY <1>0, <2>7 DEF Publish, Goto, TypeOK, ManagerTypeOK
    <3>2. groupSession'[online][idOf[s]] = s
      BY <1>0, <2>7, <3>1 DEF Publish, SoFar
    <3> QED
      BY <1>0, <1>1, <1>5, <2>7, <3>1, <3>2 DEF Publish, AccountedFor, Listed
  <2> QED
    BY <2>2, <2>3, <2>4, <2>5, <2>6, <2>7
<1> QED
  BY <1>4, <1>5

\* A step of deregisterSession leaves in an index only what it has still to
\* take out, or what is another session's.
LEMMA DeregistrationAccounts ==
  ASSUME IndexInv, TypeInv', NEW p \in Proc, stage' = stage, Deregisters(p),
         \/ Unpublish(p) \/ Unindex(p)
         \/ TakeSession(p) /\ frame[p].grp = online
         \/ TakeChannel(p) /\ frame[p].grp = online
         \/ TakeChannelId(p) /\ frame[p].grp = online,
         NEW t \in Session
  PROVE  AccountedFor(t)'
<1> USE DEF indexes, groups, collections, groupVars, OnlyCollections
<1>0. /\ TypeOK /\ t \in Proc /\ online \in Group /\ AccountedFor(t)
      /\ frame[p] \in Frame /\ frame[p].key \in Id /\ idOf[t] \in Id
      /\ pc[p] \in Taking => frame[p].back = "unindex"
      /\ ~Registering(p) /\ ~Registering(p)'
  <2>1. TypeOK /\ t \in Proc /\ online \in Group /\ AccountedFor(t)
    BY HandlersAssumption, ManagerAssumption DEF IndexInv, RegistryInv
  <2>2. frame[p] \in Frame /\ frame[p].key \in Id /\ idOf[t] \in Id
    BY <2>1 DEF TypeOK, ManagerTypeOK, GroupTypeOK, Frame
  <2>3. pc[p] \in Taking => frame[p].back = "unindex"
    BY DEF Deregisters, Deregistering, Taking
  <2>4. ~Registering(p) /\ ~Registering(p)'
    BY DEF Deregisters, Deregistering, Registering, Taking, Putting
  <2> QED
    BY <2>1, <2>2, <2>3, <2>4
<1>1. /\ \A q \in Proc : q # p => pc'[q] = pc[q] /\ frame'[q] = frame[q]
      /\ UNCHANGED <<idOf, closed>>
  BY DEF Deregisters, Alone
<1>2. \A q \in Proc, l \in Taking : q # p /\ Withdraws(q, l) =>
        Withdraws(q, l)' /\ frame'[q] = frame[q]
  BY <1>1 DEF Withdraws
<1>3. \A q \in Proc : q # p /\ Withdrawn(q) => Withdrawn(q)' /\ frame'[q] = frame[q]
  BY <1>1 DEF Withdrawn, Deregistering
<1>4. /\ Registering(t) => Registering(t)'
      /\ pc[t] = "regPublish" => pc'[t] = "regPublish"
  BY <1>0, <1>1 DEF Registering
<1>5. CASE Unpublish(p)
  <2> DEFINE r == onlineClient[frame[p].key]
             f == [frame[p] EXCEPT !.removed = r, !.grp = online, !.back = "unindex"]
  <2>1. /\ f.key = frame[p].key /\ f.removed = r /\ f.back = "unindex"
    BY <1>0 DEF Frame
  <2>2. /\ pc[p] = "unpublish" /\ pc'[p] = "removeSession" /\ frame'[p] = f
        /\ \A i \in Id : onlineClient'[i] = IF i = frame[p].key THEN None
                                                         ELSE onlineClient[i]
    BY <1>0, <1>5 DEF Unpublish, Call, TypeOK, ManagerTypeOK
  <2> HIDE DEF f
  <2>3. /\ Withdraws(p, "removeSession")' /\ frame'[p].key = frame[p].key
        /\ Withdrawn(p)' /\ frame'[p].removed = r
    BY <2>1, <2>2 DEF Withdraws, Withdrawn, Deregistering, Taking
  <2>4. ~Withdrawn(p) /\ \A l \in Taking : ~Withdraws(p, l)
    BY <2>2 DEF Withdrawn, Withdraws, Taking
  <2>5. \/ idOf[t] = frame[p].key /\ (Listed(t) => t = r)
        \/ idOf[t] # frame[p].key /\ Listed(t)' = Listed(t)
    BY <1>0, <1>1, <2>2 DEF Listed
  <2>6. UNCHANGED <<onlineChannelIdClient, collections>>
    BY <1>5 DEF Unpublish
  <2> HIDE DEF r
  <2> QED
    BY <1>0, <1>1, <1>2, <1>3, <1>4, <2>3, <2>4, <2>5, <2>6 DEF AccountedFor, Taking
<1>6. CASE Unindex(p)
  <2>1. pc[p] = "unindex" /\ frame' = frame /\ UNCHANGED <<onlineClient, collections>>
    BY <1>6 DEF Unindex, Goto
  <2>2. t \in onlineChannelIdClient' => t \in onlineChannelIdClient /\ t # frame[p].removed
    BY <1>6, NoneAssumption DEF Unindex
  <2>3. \A l \in Taking : ~Withdraws(p, l)
    BY <2>1 DEF Withdraws, Taking
  <2> QED
    BY <1>0, <1>1, <1>2, <1>3, <1>4, <2>1, <2>2, <2>3 DEF AccountedFor, Listed, Taking
<1>7. CASE TakeSession(p) /\ frame[p].grp = online
  <2> DEFINE x == groupSession[online][frame[p].key]
             f == [frame[p] EXCEPT !.found = x]
  <2>1. /\ f.key = frame[p].key /\ f.removed = frame[p].removed
        /\ f.back = frame[p].back /\ f.found = x
    BY <1>0 DEF Frame
  <2>2. /\ pc[p] = "removeSession" /\ frame[p].back = "unindex"
        /\ pc'[p] = IF x = None THEN "unindex" ELSE "removeChannel"
        /\ frame'[p] = f
    BY <1>0, <1>7 DEF TakeSession, Goto, TypeOK, ManagerTypeOK, Taking
  <2>3. /\ \A i \in Id : groupSession'[online][i] =
                           IF i = frame[p].key THEN None ELSE groupSession[online][i]
        /\ UNCHANGED <<channelGroup, channelIdGroupSession, indexes>>
    BY <1>0, <1>7 DEF TakeSession, RemoveSession, TypeOK, GroupTypeOK
  <2> HIDE DEF f
  <2>4. \A l \in Taking : Withdraws(p, l) => l = "removeSession"
    BY <2>2 DEF Withdraws
  <2>5. x # None => Withdraws(p, "removeChannel")' /\ frame'[p].found = x
    BY <2>1, <2>2 DEF Withdraws
  <2>6. Withdrawn(p) => Withdrawn(p)' /\ frame'[p].removed = frame[p].removed
    BY <2>1, <2>2 DEF Withdrawn, Deregistering, Taking
  <2>7. t # None
    BY NoneAssumption
  <2> HIDE DEF x
  <2>8. groupSession'[online][idOf'[t]] = t =>
          \/ Listed(t)' \/ Registering(t)'
          \/ \E q \in Proc : (Withdraws(q, "removeSession") /\ frame[q].key = idOf[t])'
    BY <1>0, <1>1, <1>2, <1>4, <2>3, <2>7 DEF AccountedFor, Listed, Taking
  <2>9. groupSession[online][idOf[t]] = t /\ ~(groupSession'[online][idOf'[t]] = t)
          => Withdraws(p, "removeChannel")' /\ frame'[p].found = t
    BY <1>0, <1>1, <2>3, <2>5, <2>7 DEF x
  <2>10. t \in channelGroup'[online] =>
          \/ groupSession'[online][idOf'[t]] = t
          \/ \E q \in Proc : (Withdraws(q, "removeChannel") /\ frame[q].found = t)'
    BY <1>0, <1>2, <2>3, <2>4, <2>9 DEF AccountedFor, Taking
  <2>11. t \in channelIdGroupSession'[online] =>
          \/ groupSession'[online][idOf'[t]] = t
          \/ \E q \in Proc, l \in {"removeChannel", "removeChannelId"} :
                (Withdraws(q, l) /\ frame[q].found = t)'
    BY <1>0, <1>2, <2>3, <2>4, <2>9 DEF AccountedFor, Taking
  <2>12. t \in onlineChannelIdClient' =>
          \/ Listed(t)' \/ pc'[t] = "regPublish"
          \/ \E q \in Proc : (Withdrawn(q) /\ frame[q].removed = t)'
    BY <1>0, <1>1, <1>3, <1>4, <2>3, <2>6 DEF AccountedFor, Listed
  <2> QED
    BY <1>0, <1>1, <2>3, <2>8, <2>10, <2>11, <2>12 DEF AccountedFor
<1>8. CASE TakeChannel(p) /\ frame[p].grp = online
  <2>1. /\ pc[p] = "removeChannel" /\ pc'[p] = "removeChannelId" /\ frame' = frame
        /\ UNCHANGED <<indexes, groupSession, channelIdGroupSession>>
        /\ channelGroup'[online] = channelGroup[online] \ {frame[p].found}
    BY <1>0, <1>8 DEF TakeChannel, RemoveChannel, Goto, TypeOK, GroupTypeOK
  <2>2. /\ \A l \in Taking : Withdraws(p, l) => l = "removeChannel"
        /\ Withdraws(p, "removeChannel") => Withdraws(p, "removeChannelId")'
        /\ Withdrawn(p) => Withdrawn(p)'
    BY <2>1 DEF Withdraws, Withdrawn, Deregistering, Taking
  <2> QED
    BY <1>0, <1>1, <1>2, <1>3, <1>4, <2>1, <2>2 DEF AccountedFor, Listed, Taking
<1>9. CASE TakeChannelId(p) /\ frame[p].grp = online
  <2>1. /\ pc[p] = "removeChannelId" /\ pc'[p] = "unindex" /\ frame' = frame
        /\ UNCHANGED <<indexes, groupSession, channelGroup>>
        /\ channelIdGroupSession'[online] = channelIdGroupSession[online] \ {frame[p].found}
    BY <1>0, <1>9 DEF TakeChannelId, RemoveChannelId, Goto, Taking, TypeOK, GroupTypeOK
  <2>2. /\ \A l \in Taking : Withdraws(p, l) => l = "removeChannelId"
        /\ Withdrawn(p) => Withdrawn(p)'
    BY <2>1 DEF Withdraws, Withdrawn, Deregistering
  <2> QED
    BY <1>0, <1>1, <1>2, <1>3, <1>4, <2>1, <2>2 DEF AccountedFor, Listed, Taking
<1> QED
  BY <1>5, <1>6, <1>7, <1>8, <1>9

\* Nothing is in the empty registry.
LEMMA InitIndexes == ASSUME CarefulApplication, Init PROVE IndexInv
<1>1. RegistryInv
  BY InitRegistry
<1>2. \A s \in Session : AccountedFor(s)
  BY <1>1, NoneAssumption, ManagerAssumption DEF Init, GroupInit, ManagerInit, AccountedFor,
     RegistryInv, TypeOK, GroupTypeOK
<1> QED
  BY <1>1, <1>2 DEF IndexInv

\* Every step keeps the invariant.
LEMMA StepIndexes ==
  ASSUME CarefulApplication, IndexInv, [Next]_vars
  PROVE  IndexInv'
<1>1. RegistryInv /\ RegistryInv' /\ TypeInv'
  BY StepRegistry, StepType DEF IndexInv, RegistryInv, TypeInv
<1> SUFFICES ASSUME NEW t \in Session PROVE AccountedFor(t)'
  BY <1>1 DEF IndexInv
<1>2. ASSUME NEW p \in Proc, Aside(p) PROVE AccountedFor(t)'
  BY <1>1, <1>2, AsideAccounts
<1>3. ASSUME NEW s \in Session,
             ChannelRegistered(s) \/ Login(s) \/ Close(s) \/ LoopStep(s)
      PROVE  AccountedFor(t)'
  <2>1. s \in Proc /\ ~Login(s) /\ ~ManualUnregistered(s)
    BY HandlersAssumption DEF CarefulApplication, Login, ManualUnregistered
  <2>2. CASE RegisterBefore(s)
    BY <2>2, RegisterBeforeAccounts
  <2>3. CASE Close(s)
    BY <2>3, CloseAccounts
  <2>4. CASE ~RegisterBefore(s) /\ ~Close(s)
    <3>1. Aside(s)
      BY <1>1, <1>3, <2>1, <2>4, HandlerStepAside DEF LoopStep
    <3> QED
      BY <1>2, <2>1, <3>1
  <2> QED
    BY <2>2, <2>3, <2>4
<1>4. ASSUME NEW a \in App, AppStep(a) PROVE AccountedFor(t)'
  BY <1>1, <1>2, <1>4, AppStepAside, HandlersAssumption
<1>5. ASSUME NEW p \in Proc, Step(p) PROVE AccountedFor(t)'
  <2>1. ManagerStep(p) /\ stage' = stage
    BY <1>5 DEF Step
  <2>2. CASE \/ GetGroup(p) \/ GetGroupRemove(p)
             \/ CreateCheck(p) \/ CreatePut(p) \/ RemoveGroup(p)
             \/ FindSessionInGroup(p) \/ Clean(p)
    BY <1>1, <1>2, <2>1, <2>2, GroupMethodsAside
  <2>3. CASE \/ CheckAbsent(p) \/ IndexChannel(p) \/ Publish(p)
             \/ AddSession(p) /\ frame[p].grp = online
             \/ AddChannel(p) /\ frame[p].grp = online
             \/ AddChannelId(p) /\ frame[p].grp = online
    BY <1>1, <2>1, <2>3, RegistrationRegisters, RegistrationAccounts
  <2>4. CASE \/ Unpublish(p) \/ Unindex(p)
             \/ TakeSession(p) /\ frame[p].grp = online
             \/ TakeChannel(p) /\ frame[p].grp = online
             \/ TakeChannelId(p) /\ frame[p].grp = online
    BY <1>1, <2>1, <2>4, DeregistrationDeregisters, DeregistrationAccounts
  <2>5. CASE /\ frame[p].grp # online
             /\ \/ AddSession(p) \/ AddChannel(p) \/ AddChannelId(p)
                \/ TakeSession(p) \/ TakeChannel(p) \/ TakeChannelId(p)
    BY <1>1, <1>2, <2>1, <2>5, MembershipAside
  <2> QED
    BY <2>1, <2>2, <2>3, <2>4, <2>5 DEF ManagerStep
<1>6. CASE UNCHANGED vars
  BY <1>6 DEF IndexInv, vars, groupVars, managerVars, indexes, collections, AccountedFor,
     Withdraws, Withdrawn, Deregistering, Registering, Listed
<1> QED
  BY <1>3, <1>4, <1>5, <1>6 DEF Next

\* Whatever is in an index is listed, being registered or being taken out.
THEOREM IndexInvariant == CarefulApplication => (Spec => []IndexInv)
<1> SUFFICES ASSUME CarefulApplication PROVE Spec => []IndexInv
  OBVIOUS
<1>1. Init => IndexInv
  BY InitIndexes
<1>2. IndexInv /\ [Next]_vars => IndexInv'
  BY StepIndexes
<1> QED
  BY <1>1, <1>2, PTL DEF Spec

\* When no call is in progress the five collections of the manager agree on
\* who is online, whatever registrations and deregistrations of the same ids
\* overlapped before.
THEOREM QuietIndexesAgree == CarefulApplication => (Spec => []IndexesAgree)
<1> SUFFICES ASSUME CarefulApplication PROVE Spec => []IndexesAgree
  OBVIOUS
<1>1. IndexInv => IndexesAgree
  <2> SUFFICES ASSUME IndexInv, Quiet, NEW s \in Session
               PROVE  LET here == s \in onlineChannelIdClient IN
                        /\ here <=> onlineClient[idOf[s]] = s
                        /\ here <=> groupSession[online][idOf[s]] = s
                        /\ here <=> s \in channelIdGroupSession[online]
                        /\ (here /\ s \notin closed) <=> s \in channelGroup[online]
    BY DEF IndexesAgree
  <2>1. /\ AccountedFor(s) /\ idOf[s] \in Id /\ s \in Proc /\ s # None
        /\ FoundIsIndexed
    BY HandlersAssumption, NoneAssumption DEF IndexInv, RegistryInv, TypeOK, GroupTypeOK
  <2>2. \A p \in Proc : /\ ~Withdrawn(p) /\ pc[p] # "regPublish" /\ ~Registering(p)
                        /\ \A l \in Taking : ~Withdraws(p, l)
    BY DEF Quiet, Running, Withdrawn, Deregistering, Registering, Putting, Taking, Withdraws
  <2>3. Listed(s) => /\ s \in onlineChannelIdClient
                     /\ groupSession[online][idOf[s]] = s
                     /\ s \in channelIdGroupSession[online]
                     /\ s \notin closed => s \in channelGroup[online]
    BY <2>1 DEF FoundIsIndexed, Listed
  <2> QED
    BY <2>1, <2>2, <2>3 DEF AccountedFor, Listed, Taking
<1> QED
  BY <1>1, IndexInvariant, PTL
-----------------------------------------------------------------------------
(* The unregistered handler leaves nothing listed.                         *)

Removing == {"unpublish", "unindex", "lock", "clean"} \cup Taking

\* A step inside the manager moves its thread within the method it is in, with
\* the same id, and moves no other thread.
LEMMA ManagerMoves ==
  ASSUME TypeInv, NEW p \in Proc, ManagerStep(p),
         pc[p] \notin AppMethods
  PROVE  /\ \A q \in Proc : q # p => pc'[q] = pc[q] /\ frame'[q] = frame[q]
         /\ pc[p] \in Running /\ pc'[p] \notin {"idle", "unpublish"}
         /\ pc'[p] \notin AppMethods
         /\ pc'[p] \in Removing =>
              pc[p] \in Removing /\ frame'[p].key = frame[p].key
<1> USE DEF Removing, Taking, Running, AppMethods
<1>0. /\ TypeOK /\ ControlAt(p) /\ frame[p] \in Frame
      /\ pc \in [Proc -> {"idle"} \cup Running \cup Ended] /\ frame \in [Proc -> Frame]
  BY DEF TypeInv, ControlOK, TypeOK, ManagerTypeOK
<1>1. CASE AddSession(p) \/ AddChannel(p) \/ AddChannelId(p)
  BY <1>0, <1>1 DEF AddSession, AddChannel, AddChannelId, OnlyCollections, Goto,
     ControlAt, Ready, Putting
<1>2. CASE TakeChannel(p) \/ TakeChannelId(p) \/ LeaveClean(p) \/ Unindex(p)
  BY <1>0, <1>2 DEF TakeChannel, TakeChannelId, LeaveClean, Unindex, OnlyCollections,
     Goto, ControlAt, Ready
<1>3. CASE TakeSession(p)
  BY <1>0, <1>3 DEF TakeSession, Goto, ControlAt, Ready, Frame
<1>4. CASE IndexChannel(p) \/ Publish(p)
  BY <1>0, <1>4 DEF IndexChannel, Publish, Goto
<1>5. CASE CheckAbsent(p)
  BY <1>0, <1>5 DEF CheckAbsent, Call
<1>6. CASE GetGroup(p)
  BY <1>0, <1>6 DEF GetGroup, Call
<1>7. CASE Unpublish(p)
  BY <1>0, <1>7 DEF Unpublish, Call, Frame
<1>8. CASE EnterClean(p)
  BY <1>0, <1>8 DEF EnterClean, Call, Frame
<1>9. CASE CleanGroup(p)
  BY <1>0, <1>9 DEF CleanGroup, Call, Frame
<1>10. CASE \/ GetGroupRemove(p) \/ FindSessionInGroup(p)
            \/ CreateCheck(p) \/ CreatePut(p) \/ RemoveGroup(p)
  BY <1>10 DEF GetGroupRemove, FindSessionInGroup, FindHasGroup, FindInGroup, FindTake,
     CreateCheck, CreatePut, RemoveGroup, Goto
<1> QED
  BY <1>1, <1>2, <1>3, <1>4, <1>5, <1>6, <1>7, <1>8, <1>9, <1>10
     DEF ManagerStep, Clean

\* A step of another thread does not disturb a handler that leaves, as long
\* as it does not list the handler's session.
LEMMA OthersLeave ==
  ASSUME NEW s \in Session, Leaves(s), pc'[s] = pc[s], frame'[s] = frame[s],
         stage'[s] = stage[s], idOf'[s] = idOf[s], OwnIds(s)' = OwnIds(s),
         Listed(s)' => Listed(s)
  PROVE  Leaves(s)'
  BY DEF Leaves, Listed

\* Once its registration is decided, a session is never listed again.
LEMMA ListedBefore ==
  ASSUME CarefulApplication, RegistryInv, TypeInv', NEW p \in Proc, NEW s \in Session,
         ManagerStep(p), stage' = stage, s # p \/ stage[s] # "registering"
  PROVE  Listed(s)' => Listed(s)
<1>1. CASE Publish(p)
  <2>1. /\ p \in Session /\ stage[p] = "registering"
        /\ frame[p].sess = p /\ frame[p].key = idOf[p]
    BY <1>1 DEF Publish, Goto, RegistryInv, CallsInPlace, InPlace, Registering
  <2>2. s # p /\ idOf[s] # idOf[p]
    BY <2>1 DEF RegistryInv, FiledUnderItsId, Filed, CarefulApplication, UniqueIds
  <2> QED
    BY <1>1, <2>1, <2>2 DEF Publish, groupVars, Listed, RegistryInv, TypeOK, ManagerTypeOK,
       GroupTypeOK
<1>2. CASE Unpublish(p)
  BY <1>2, NoneAssumption DEF Unpublish, groupVars, Listed, RegistryInv, TypeOK,
     ManagerTypeOK, GroupTypeOK
<1>3. CASE ~Publish(p) /\ ~Unpublish(p)
  <2>1. onlineClient' = onlineClient /\ idOf' = idOf
    BY <1>3 DEF ManagerStep, AddSession, AddChannel, AddChannelId, TakeSession, TakeChannel,
       TakeChannelId, CheckAbsent, IndexChannel, Unindex, Clean, EnterClean, CleanGroup,
       LeaveClean, GetGroup, GetGroupRemove, CreateCheck, CreatePut, RemoveGroup,
       FindSessionInGroup, FindHasGroup, FindInGroup, FindTake, OnlyCollections, indexes,
       groupVars
  <2> QED
    BY <2>1 DEF Listed
<1> QED
  BY <1>1, <1>2, <1>3

\* A step inside the manager leaves nothing listed that a handler withdraws.
LEMMA ManagerLeaves ==
  ASSUME CarefulApplication, LeaveInv, TypeInv', NEW p \in Proc, ManagerStep(p),
         stage' = stage, NEW s \in Session
  PROVE  Leaves(s)'
<1>0. RegistryInv /\ TypeInv /\ TypeOK /\ Leaves(s) /\ s \in Proc
  BY HandlersAssumption DEF LeaveInv, IndexInv, RegistryInv, TypeInv
<1>i. idOf' = idOf /\ OwnIds(s)' = OwnIds(s)
  BY DEF OwnIds, ManagerStep, AddSession, AddChannel, AddChannelId, TakeSession, TakeChannel,
     TakeChannelId, CheckAbsent, IndexChannel, Unindex, Clean, EnterClean, CleanGroup,
     LeaveClean, GetGroup, GetGroupRemove, CreateCheck, CreatePut, RemoveGroup, Publish,
     Unpublish, FindSessionInGroup, FindHasGroup, FindInGroup, FindTake, OnlyCollections,
     groupVars
<1>1. CASE s # p
  <2>1. pc'[s] = pc[s] /\ frame'[s] = frame[s]
    BY <1>0, <1>1 DEF ManagerStep, AddSession, AddChannel, AddChannelId, TakeSession,
       TakeChannel, TakeChannelId, CheckAbsent, IndexChannel, Unindex, Clean, EnterClean,
       CleanGroup, LeaveClean, GetGroup, GetGroupRemove, CreateCheck, CreatePut, RemoveGroup,
       Publish, Unpublish, FindSessionInGroup, FindHasGroup, FindInGroup, FindTake,
       OnlyCollections, Goto, Call, TypeOK, ManagerTypeOK
  <2> QED
    BY <1>0, <1>1, <1>i, <2>1, OthersLeave, ListedBefore
<1>2. CASE s = p
  <2>1. /\ pc[s] \in Running /\ pc'[s] \notin {"idle", "unpublish"}
        /\ pc'[s] \notin AppMethods
        /\ pc'[s] \in Removing => pc[s] \in Removing /\ frame'[s].key = frame[s].key
    BY <1>0, <1>2, ManagerMoves DEF Leaves
  <2>2. stage[s] # "gone" /\ pc[s] # "idle"
    BY <1>0, <2>1 DEF Leaves, Running
  <2>3. stage[s] = "unregistering" => ~Listed(s)'
    <3> SUFFICES ASSUME stage[s] = "unregistering" PROVE ~Listed(s)'
      OBVIOUS
    <3>1. CASE pc[s] = "unpublish"
      <4>1. Unpublish(s)
        BY <1>2, <3>1 DEF ManagerStep, AddSession, AddChannel, AddChannelId, TakeSession,
           TakeChannel, TakeChannelId, CheckAbsent, IndexChannel, Unindex, Clean, EnterClean,
           CleanGroup, LeaveClean, GetGroup, GetGroupRemove, CreateCheck, CreatePut,
           RemoveGroup, Publish, FindSessionInGroup, FindHasGroup, FindInGroup, FindTake, Goto
      <4>2. Listed(s) => frame[s].key = idOf[s]
        BY <1>0, <3>1 DEF Leaves
      <4> QED
        BY <1>0, <1>i, <4>1, <4>2, NoneAssumption DEF Unpublish, Listed, TypeOK,
           GroupTypeOK, ManagerTypeOK
    <3>2. CASE pc[s] # "unpublish"
      <4>1. ~Listed(s)
        BY <1>0, <2>2, <3>2 DEF Leaves
      <4> QED
        BY <1>0, <1>2, <4>1, ListedBefore
    <3> QED
      BY <3>1, <3>2
  <2> QED
    BY <1>0, <1>i, <2>1, <2>2, <2>3 DEF Leaves, Removing
<1> QED
  BY <1>1, <1>2

\* The handlers' own steps.
LEMMA HandlerLeaves ==
  ASSUME CarefulApplication, LeaveInv, TypeInv', NEW s \in Session,
         ChannelRegistered(s) \/ Close(s) \/ LoopStep(s), NEW t \in Session
  PROVE  Leaves(t)'
<1> USE DEF indexes, groups, collections, groupVars, managerVars
<1>0. /\ RegistryInv /\ TypeOK /\ Leaves(s) /\ Leaves(t) /\ s \in Proc /\ t \in Proc
      /\ OwnIds(t)' = OwnIds(t) /\ OwnIds(s)' = OwnIds(s)
  BY HandlersAssumption DEF LeaveInv, IndexInv, RegistryInv, OwnIds
<1>1. onlineClient' = onlineClient
  BY DEF ChannelRegistered, Close, LoopStep, RegisterBefore, RegisterBeforeThrows,
     RegisteredHooks, JoinGroup, Joined, LoggedIn, ChannelUnregistered, ManualUnregistered,
     RemoveBefore, RemoveBeforeThrows, Unregistered, NoManager
<1>2. CASE t # s
  <2>1. pc'[t] = pc[t] /\ frame'[t] = frame[t] /\ stage'[t] = stage[t] /\ idOf'[t] = idOf[t]
    BY <1>0, <1>2 DEF ChannelRegistered, Close, LoopStep, RegisterBefore,
       RegisterBeforeThrows, RegisteredHooks, JoinGroup, Joined, LoggedIn,
       ChannelUnregistered, ManualUnregistered, RemoveBefore, RemoveBeforeThrows,
       Unregistered, NoManager, Enter, Call, Resume, TypeOK, GroupTypeOK, ManagerTypeOK
  <2> QED
    BY <1>0, <1>1, <2>1, OthersLeave DEF Listed
<1>3. CASE t = s
  <2>1. CASE Close(s)
    BY <1>0, <1>1, <1>3, <2>1 DEF Close, Leaves, Listed
  <2>2. CASE ChannelRegistered(s) \/ RegisterBefore(s) \/ RegisterBeforeThrows(s)
    <3>1. stage'[s] \notin {"unregistering", "gone", "kept"} /\ pc'[s] \in {"idle", "regCheck"}
      BY <1>0, <2>2 DEF ChannelRegistered, RegisterBefore, RegisterBeforeThrows, Enter, Idle,
         Call, TypeOK
    <3> QED
      BY <1>3, <3>1 DEF Leaves, AppMethods, Taking
  <2>3. CASE RegisteredHooks(s) \/ JoinGroup(s) \/ Joined(s) \/ LoggedIn(s)
    <3>1. stage'[s] \notin {"unregistering", "gone", "kept"} /\ pc'[s] \in {"idle", "getGroup"}
      BY <1>0, <2>3 DEF RegisteredHooks, JoinGroup, Joined, LoggedIn, Enter, Resume, Call,
         TypeOK
    <3> QED
      BY <1>3, <3>1 DEF Leaves, AppMethods, Taking
  <2>4. CASE ChannelUnregistered(s)
    <3>1. /\ stage'[s] = "unregistering" /\ pc'[s] = "idle" /\ idOf' = idOf
          /\ frame'[s] = [NoFrame EXCEPT !.key = CurrentId(s)]
      BY <1>0, <2>4 DEF ChannelUnregistered, Enter, Idle, TypeOK, ManagerTypeOK
    <3>2. frame'[s].key = CurrentId(s)
      BY <3>1, NoFrameType DEF Frame
    <3>3. Listed(s) => CurrentId(s) = idOf[s]
      BY <1>0, NoneAssumption DEF Listed, CurrentId, RegistryInv, FoundIsIndexed, TypeOK,
         GroupTypeOK
    <3> QED
      BY <1>1, <1>3, <3>1, <3>2, <3>3 DEF Leaves, AppMethods, Listed, Taking
  <2>5. CASE RemoveBefore(s)
    <3>1. /\ stage[s] = "unregistering" /\ stage' = stage /\ idOf' = idOf
          /\ pc[s] = "idle" /\ pc'[s] = "unpublish" /\ frame'[s] = frame[s]
      BY <1>0, <2>5 DEF RemoveBefore, Idle, Call, TypeOK, ManagerTypeOK
    <3>2. frame[s].key \in OwnIds(s)
      BY <1>0, <3>1 DEF RegistryInv, UnregistersOwn, OwnKey
    <3> QED
      BY <1>0, <1>1, <1>3, <3>1, <3>2 DEF Leaves, Listed, AppMethods, Taking
  <2>6. CASE Unregistered(s)
    <3>1. /\ stage[s] = "unregistering" /\ stage'[s] = "gone" /\ idOf' = idOf
          /\ pc[s] \in Ended /\ pc'[s] = "idle"
      BY <1>0, <2>6 DEF Unregistered, Enter, Resume, TypeOK
    <3> QED
      BY <1>0, <1>1, <1>3, <3>1 DEF Leaves, AppMethods, Listed, Taking, Ended
  <2>7. CASE RemoveBeforeThrows(s)
    <3>1. stage'[s] = "kept" /\ pc'[s] = "idle"
      BY <1>0, <2>7 DEF RemoveBeforeThrows, Enter, Idle, TypeOK
    <3> QED
      BY <1>3, <3>1 DEF Leaves, AppMethods, Taking
  <2>8. ~ManualUnregistered(s)
    BY DEF CarefulApplication, ManualUnregistered
  <2> QED
    BY <2>1, <2>2, <2>3, <2>4, <2>5, <2>6, <2>7, <2>8 DEF LoopStep
<1> QED
  BY <1>2, <1>3

\* Every step keeps the invariant.
LEMMA StepLeaves ==
  ASSUME CarefulApplication, LeaveInv, [Next]_vars
  PROVE  LeaveInv'
<1>1. IndexInv' /\ TypeInv'
  BY StepIndexes DEF LeaveInv, IndexInv, RegistryInv, TypeInv
<1> SUFFICES ASSUME NEW t \in Session PROVE Leaves(t)'
  BY <1>1 DEF LeaveInv
<1>2. ASSUME NEW s \in Session,
             ChannelRegistered(s) \/ Login(s) \/ Close(s) \/ LoopStep(s)
      PROVE  Leaves(t)'
  <2>1. ~Login(s)
    BY DEF CarefulApplication, Login
  <2> QED
    BY <1>1, <1>2, <2>1, HandlerLeaves
<1>3. ASSUME NEW a \in App, AppStep(a) PROVE Leaves(t)'
  <2>1. Aside(a) /\ a # t /\ t \in Proc
    BY <1>3, AppStepAside, HandlersAssumption DEF LeaveInv, IndexInv
  <2>2. Leaves(t) /\ OwnIds(t)' = OwnIds(t)
    BY DEF LeaveInv, OwnIds
  <2> QED
    BY <2>1, <2>2, OthersLeave DEF Aside, Alone, SameRegistry, Listed
<1>4. ASSUME NEW p \in Proc, Step(p) PROVE Leaves(t)'
  BY <1>1, <1>4, ManagerLeaves DEF Step
<1>5. CASE UNCHANGED vars
  BY <1>5 DEF LeaveInv, Leaves, Listed, OwnIds, vars, groupVars, managerVars, indexes
<1> QED
  BY <1>2, <1>3, <1>4, <1>5 DEF Next

\* At first nobody leaves.
LEMMA InitLeaves == ASSUME CarefulApplication, Init PROVE LeaveInv
<1>1. IndexInv
  BY InitIndexes
<1>2. \A s \in Session : Leaves(s)
  BY HandlersAssumption DEF Init, Leaves, AppMethods, Taking
<1> QED
  BY <1>1, <1>2 DEF LeaveInv

\* No index of the manager keeps the session of a channel that is gone.
LEMMA GoneFromRegistry ==
  ASSUME LeaveInv, IndexesAgree, Quiet, NEW s \in Session, stage[s] = "gone"
  PROVE  ~InRegistry(s)
<1>1. ~Listed(s) /\ FiledUnderItsId
  BY DEF LeaveInv, IndexInv, RegistryInv, Leaves
<1>2. \A i \in Id : onlineClient[i] # s /\ groupSession[online][i] # s
  BY <1>1 DEF FiledUnderItsId, Filed, Listed, IndexesAgree
<1> QED
  BY <1>1, <1>2 DEF InRegistry, Holds, IndexesAgree, Listed
=============================================================================
