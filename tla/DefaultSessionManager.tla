------------------------ MODULE DefaultSessionManager ------------------------
(***************************************************************************)
(* cache/impl/DefaultSessionManager.java: the registry of the connected    *)
(* clients.  Its methods are called by the event loops (a channel's        *)
(* handlers) and by the application's own threads, and but for             *)
(* groupClientClean they take no lock.  A thread is inside at most one     *)
(* method; pc says where, frame holds the method's arguments and locals.   *)
(*                                                                         *)
(* A call starts when the caller sets pc to the first step of a method     *)
(* (Call), and ends at one of the labels in Ended, where the caller takes  *)
(* over.                                                                   *)
(***************************************************************************)
EXTENDS GroupSession

CONSTANTS
    Proc,       \* the threads that call the manager
    Gid,        \* the ids of the groups the application creates
    online      \* the GroupSession object of all connected clients (line 47)

ASSUME ManagerAssumption ==
    /\ online \in Group
    /\ Id # {} /\ Gid # {}
    /\ None \notin Proc

VARIABLES
    onlineClient,           \* id -> session
    onlineChannelIdClient,  \* the sessions indexed by channel id
    onlineGroupClient,      \* group id -> GroupSession object
    created,                \* the GroupSession objects made so far
    monitor,                \* holder of the monitor of groupClientClean
    pc,                     \* thread -> the step it is at
    frame                   \* thread -> the arguments and locals of its call

indexes == <<onlineClient, onlineChannelIdClient>>
groups == <<onlineGroupClient, created>>
managerVars == <<indexes, groups, monitor, pc, frame>>

(* The steps inside a method, and the labels a method ends at.             *)
Running ==
    { "regCheck", "putSession", "putChannel", "putChannelId", "regIndex",
      "regPublish", "unpublish", "removeSession", "removeChannel",
      "removeChannelId", "unindex", "lock", "clean", "getGroup",
      "getGroupRemove", "createCheck", "createPut", "removeGroup",
      "findHas", "findIn", "findTake" }
Ended == {"returned", "refused", "threw"}

Frame == [ sess : Session \cup {None},     \* the session argument
           key : Id,                       \* the id argument
           gid : Gid,                      \* the groupId argument
           grp : Group,                    \* the GroupSession being called
           back : {"regIndex", "unindex", "clean", "returned"},
                                           \* where that call returns to
           removed : Session \cup {None},  \* local remove, deregisterSession
           found : Session \cup {None},    \* local remove, GroupSession.remove
           todo : SUBSET Group,            \* groups the iterator must visit
           seen : SUBSET Group ]           \* groups the iterator has visited

ManagerTypeOK ==
    /\ onlineClient \in [Id -> Session \cup {None}]
    /\ onlineChannelIdClient \in SUBSET Session
    /\ onlineGroupClient \in [Gid -> Group \cup {None}]
    /\ created \in SUBSET Group
    /\ monitor \in Proc \cup {None}
    /\ frame \in [Proc -> Frame]

NoFrame == [ sess |-> None, key |-> CHOOSE i \in Id : TRUE,
             gid |-> CHOOSE g \in Gid : TRUE, grp |-> online,
             back |-> "returned", removed |-> None, found |-> None,
             todo |-> {}, seen |-> {} ]

ManagerInit ==
    /\ onlineClient = [i \in Id |-> None]
    /\ onlineChannelIdClient = {}
    /\ monitor = None
    /\ frame = [p \in Proc |-> NoFrame]

LiveGroups == {onlineGroupClient[g] : g \in Gid} \ {None}

-----------------------------------------------------------------------------
(* Control: thread p moves from one label to the next.                     *)

Goto(p, from, to) ==
    /\ pc[p] = from
    /\ pc' = [pc EXCEPT ![p] = to]

\* A caller enters a method at label first with its arguments in f.
Call(p, first, f) ==
    /\ pc' = [pc EXCEPT ![p] = first]
    /\ frame' = [frame EXCEPT ![p] = f]

OnlyCollections == UNCHANGED <<indexes, groups, monitor, frame, idOf, closed>>

-----------------------------------------------------------------------------
(* GroupSession.add and GroupSession.remove as the manager runs them on    *)
(* group frame[p].grp; they return to label frame[p].back.                 *)

AddSession(p) ==
    /\ Goto(p, "putSession", "putChannel")
    /\ PutSession(frame[p].grp, frame[p].sess)
    /\ OnlyCollections

AddChannel(p) ==
    /\ Goto(p, "putChannel", "putChannelId")
    /\ PutChannel(frame[p].grp, frame[p].sess)
    /\ OnlyCollections

AddChannelId(p) ==
    /\ Goto(p, "putChannelId", frame[p].back)
    /\ PutChannelId(frame[p].grp, frame[p].sess)
    /\ OnlyCollections

TakeSession(p) ==
    LET s == groupSession[frame[p].grp][frame[p].key] IN
    /\ Goto(p, "removeSession",
            IF s = None THEN frame[p].back ELSE "removeChannel")
    /\ RemoveSession(frame[p].grp, frame[p].key)
    /\ frame' = [frame EXCEPT ![p].found = s]
    /\ UNCHANGED <<indexes, groups, monitor, idOf, closed>>

TakeChannel(p) ==
    /\ Goto(p, "removeChannel", "removeChannelId")
    /\ RemoveChannel(frame[p].grp, frame[p].found)
    /\ OnlyCollections

\* Faulty: remove(id) that forgets the index by channel id.
TakeChannelIdForgets(p) ==
    /\ Goto(p, "removeChannelId", frame[p].back)
    /\ UNCHANGED collections
    /\ OnlyCollections

TakeChannelId(p) ==
    /\ Goto(p, "removeChannelId", frame[p].back)
    /\ RemoveChannelId(frame[p].grp, frame[p].found)
    /\ OnlyCollections

-----------------------------------------------------------------------------
(* registrySession(session), lines 81-89: a test, GroupSession.add on      *)
(* online, the channel index, and last the index by id.                    *)
(*                                                                         *)
(* registrySession(id, session), lines 70-78, does the same without the    *)
(* test and with a key of the caller's: it enters at RegisterAs.           *)

RegisterAs(p, i, s) ==
    Call(p, "putSession", [frame[p] EXCEPT !.sess = s, !.key = i,
                                           !.grp = online, !.back = "regIndex"])

\* Faulty: registers without the test that the id is free.
CheckNothing(p) ==
    /\ pc[p] = "regCheck"
    /\ RegisterAs(p, idOf[frame[p].sess], frame[p].sess)
    /\ UNCHANGED <<indexes, groups, monitor, groupVars>>

\* Faulty: putIfAbsent in place of the test, which publishes the id first.
CheckAndPublish(p) ==
    LET i == idOf[frame[p].sess] IN
    /\ pc[p] = "regCheck"
    /\ IF onlineClient[i] = None
       THEN /\ RegisterAs(p, i, frame[p].sess)
            /\ onlineClient' = [onlineClient EXCEPT ![i] = frame[p].sess]
       ELSE /\ pc' = [pc EXCEPT ![p] = "refused"]
            /\ UNCHANGED <<onlineClient, frame>>
    /\ UNCHANGED <<onlineChannelIdClient, groups, monitor, groupVars>>

CheckAbsent(p) ==
    /\ pc[p] = "regCheck"
    /\ IF onlineClient[idOf[frame[p].sess]] = None
       THEN Call(p, "putSession",
                 [frame[p] EXCEPT !.key = idOf[frame[p].sess],
                                  !.grp = online, !.back = "regIndex"])
       ELSE /\ pc' = [pc EXCEPT ![p] = "refused"]
            /\ UNCHANGED frame
    /\ UNCHANGED <<indexes, groups, monitor, groupVars>>

IndexChannel(p) ==
    /\ Goto(p, "regIndex", "regPublish")
    /\ onlineChannelIdClient' = onlineChannelIdClient \cup {frame[p].sess}
    /\ UNCHANGED <<onlineClient, groups, monitor, frame, groupVars>>

Publish(p) ==
    /\ Goto(p, "regPublish", "returned")
    /\ onlineClient' = [onlineClient EXCEPT ![frame[p].key] = frame[p].sess]
    /\ UNCHANGED <<onlineChannelIdClient, groups, monitor, frame, groupVars>>

-----------------------------------------------------------------------------
(* deregisterSession(id), lines 163-173.                                   *)

Unpublish(p) ==
    /\ pc[p] = "unpublish"
    /\ onlineClient' = [onlineClient EXCEPT ![frame[p].key] = None]
    /\ Call(p, "removeSession",
            [frame[p] EXCEPT !.removed = onlineClient[frame[p].key],
                             !.grp = online, !.back = "unindex"])
    /\ UNCHANGED <<onlineChannelIdClient, groups, monitor, groupVars>>

\* remove.getSessionId(): a NullPointerException when the id had no session.
Unindex(p) ==
    /\ \/ /\ frame[p].removed = None
          /\ Goto(p, "unindex", "threw")
          /\ UNCHANGED onlineChannelIdClient
       \/ /\ frame[p].removed # None
          /\ Goto(p, "unindex", "lock")
          /\ onlineChannelIdClient' = onlineChannelIdClient \ {frame[p].removed}
    /\ UNCHANGED <<onlineClient, groups, monitor, frame, groupVars>>

\* groupClientClean(id) is synchronized, and its iterator is weakly
\* consistent: it visits every group that is there from start to end, and
\* may or may not visit one put or removed meanwhile.
EnterClean(p) ==
    /\ pc[p] = "lock" /\ monitor = None
    /\ monitor' = p
    /\ Call(p, "clean", [frame[p] EXCEPT !.todo = LiveGroups, !.seen = {},
                                         !.back = "clean"])
    /\ UNCHANGED <<indexes, groups, groupVars>>

\* Faulty: visits a group it has visited already.
CleanGroupAgain(p) ==
    /\ pc[p] = "clean"
    /\ \E g \in frame[p].todo \cup LiveGroups :
         Call(p, "removeSession", [frame[p] EXCEPT !.grp = g])
    /\ UNCHANGED <<indexes, groups, monitor, groupVars>>

CleanGroup(p) ==
    /\ pc[p] = "clean"
    /\ \E g \in (frame[p].todo \cup LiveGroups) \ frame[p].seen :
         Call(p, "removeSession",
              [frame[p] EXCEPT !.grp = g, !.seen = @ \cup {g}])
    /\ UNCHANGED <<indexes, groups, monitor, groupVars>>

\* Faulty: leaves while groups are still to be visited.
LeaveCleanEarly(p) ==
    /\ Goto(p, "clean", "returned")
    /\ monitor' = None
    /\ UNCHANGED <<indexes, groups, frame, groupVars>>

LeaveClean(p) ==
    /\ Goto(p, "clean", "returned")
    /\ frame[p].todo \cap LiveGroups \subseteq frame[p].seen
    /\ monitor' = None
    /\ UNCHANGED <<indexes, groups, frame, groupVars>>

Clean(p) == EnterClean(p) \/ CleanGroup(p) \/ LeaveClean(p)

-----------------------------------------------------------------------------
(* The groups of the application, lines 107-160.                           *)

\* Faulty: uses the group without looking whether there is one.
GetGroupUnchecked(p) ==
    /\ pc[p] = "getGroup"
    /\ Call(p, "putSession", [frame[p] EXCEPT !.grp = onlineGroupClient[frame[p].gid],
                                              !.back = "returned"])
    /\ UNCHANGED <<indexes, groups, monitor, groupVars>>

\* addSession(groupId, session)
GetGroup(p) ==
    LET g == onlineGroupClient[frame[p].gid] IN
    /\ pc[p] = "getGroup"
    /\ IF g = None
       THEN pc' = [pc EXCEPT ![p] = "refused"] /\ UNCHANGED frame
       ELSE Call(p, "putSession",
                 [frame[p] EXCEPT !.grp = g, !.back = "returned"])
    /\ UNCHANGED <<indexes, groups, monitor, groupVars>>

\* removeSession(groupId, id)
GetGroupRemove(p) ==
    LET g == onlineGroupClient[frame[p].gid] IN
    /\ pc[p] = "getGroupRemove"
    /\ IF g = None
       THEN pc' = [pc EXCEPT ![p] = "refused"] /\ UNCHANGED frame
       ELSE Call(p, "removeSession",
                 [frame[p] EXCEPT !.grp = g, !.back = "returned"])
    /\ UNCHANGED <<indexes, groups, monitor, groupVars>>

\* createGroup(id): containsKey, then put.
CreateCheck(p) ==
    /\ Goto(p, "createCheck",
            IF onlineGroupClient[frame[p].gid] = None THEN "createPut"
                                                      ELSE "returned")
    /\ UNCHANGED <<indexes, groups, monitor, frame, groupVars>>

CreatePut(p) ==
    /\ Goto(p, "createPut", "returned")
    /\ \E g \in Group \ created :
         /\ onlineGroupClient' = [onlineGroupClient EXCEPT ![frame[p].gid] = g]
         /\ created' = created \cup {g}
    /\ UNCHANGED <<indexes, monitor, frame, groupVars>>

RemoveGroup(p) ==
    /\ Goto(p, "removeGroup", "returned")
    /\ onlineGroupClient' = [onlineGroupClient EXCEPT ![frame[p].gid] = None]
    /\ UNCHANGED <<indexes, created, monitor, frame, groupVars>>

\* findSessionInGroup(groupId, id): containsKey on the map, then get(..)
\* twice; a group removed in between is a NullPointerException.
FindHasGroup(p) ==
    /\ Goto(p, "findHas",
            IF onlineGroupClient[frame[p].gid] = None THEN "refused" ELSE "findIn")
    /\ UNCHANGED <<indexes, groups, monitor, frame, groupVars>>

FindInGroup(p) ==
    LET g == onlineGroupClient[frame[p].gid] IN
    /\ Goto(p, "findIn", IF g = None THEN "threw"
                         ELSE IF HasSession(g, frame[p].key) THEN "findTake"
                         ELSE "refused")
    /\ UNCHANGED <<indexes, groups, monitor, frame, groupVars>>

FindTake(p) ==
    LET g == onlineGroupClient[frame[p].gid] IN
    /\ Goto(p, "findTake", IF g = None THEN "threw" ELSE "returned")
    /\ IF g = None THEN UNCHANGED collections ELSE FindSession(g, frame[p].key)
    /\ UNCHANGED <<indexes, groups, monitor, frame, idOf, closed>>

FindSessionInGroup(p) == FindHasGroup(p) \/ FindInGroup(p) \/ FindTake(p)

-----------------------------------------------------------------------------
\* One step of thread p inside the manager.
ManagerStep(p) ==
    \/ AddSession(p) \/ AddChannel(p) \/ AddChannelId(p)
    \/ TakeSession(p) \/ TakeChannel(p) \/ TakeChannelId(p)
    \/ CheckAbsent(p) \/ IndexChannel(p) \/ Publish(p)
    \/ Unpublish(p) \/ Unindex(p) \/ Clean(p)
    \/ GetGroup(p) \/ GetGroupRemove(p)
    \/ CreateCheck(p) \/ CreatePut(p) \/ RemoveGroup(p)
    \/ FindSessionInGroup(p)

\* Whether a map of the manager refers to session s.
InRegistry(s) ==
    \/ \E i \in Id : onlineClient[i] = s
    \/ s \in onlineChannelIdClient
    \/ Holds(online, s)
=============================================================================
