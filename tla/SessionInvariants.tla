------------------------- MODULE SessionInvariants -------------------------
(***************************************************************************)
(* The inductive invariants behind the properties of SessionHandlers, in   *)
(* named parts, and the uses of the manager they hold for.                 *)
(***************************************************************************)
EXTENDS SessionHandlers

\* The ids session s may have in its life.
OwnIds(s) == HookIds[s] \cup {ShortText[s]}

UniqueIds == \A s, t \in Session : s # t => OwnIds(s) \cap OwnIds(t) = {}

\* The use of the manager for which the indexes stay consistent.
CarefulApplication ==
    /\ AutoRegister
    /\ UniqueIds
    /\ "ban" \notin AppCalls

-----------------------------------------------------------------------------
(* The inductive invariant behind FoundIsIndexed and ImplementsDirectory.  *)

Putting == {"putSession", "putChannel", "putChannelId"}
Taking == {"removeSession", "removeChannel", "removeChannelId"}

\* Thread p is inside registrySession, or inside deregisterSession up to the
\* removal from the index by channel id.
Registering(p) ==
    \/ pc[p] \in {"regCheck", "regIndex", "regPublish"}
    \/ pc[p] \in Putting /\ frame[p].back = "regIndex"

Deregistering(p) ==
    \/ pc[p] \in {"unpublish", "unindex"}
    \/ pc[p] \in Taking /\ frame[p].back = "unindex"

\* It has taken the id out of onlineClient already.
Withdrawn(p) == Deregistering(p) /\ pc[p] # "unpublish"

\* Session s was listed, or refused, and is not listed now.
Out(s) == ~Undecided(s) /\ \A i \in Id : onlineClient[i] # s

\* A thread's arguments f are set where the step at label l uses them, and a
\* call of GroupSession returns to the method that made it.
Ready(l, f) ==
    /\ l \in Putting \cup {"regCheck", "regIndex", "regPublish", "getGroup"}
         => f.sess \in Session
    /\ l \in {"removeChannel", "removeChannelId"} => f.found \in Session
    /\ l \in Putting => f.back \in {"regIndex", "returned"}
    /\ l \in Taking => f.back \in {"unindex", "clean", "returned"}
    /\ l = "clean" => f.back = "clean"

ControlAt(p) == Ready(pc[p], frame[p])
ControlOK == \A p \in Proc : ControlAt(p)

\* registrySession runs in the channelRegistered handler of its own session,
\* and only the methods of the registry work on the group online.
InPlace(p) ==
    /\ Registering(p) => /\ p \in Session
                         /\ stage[p] = "registering"
                         /\ frame[p].sess = p
                         /\ pc[p] # "regCheck" => frame[p].key = idOf[p]
    /\ pc[p] \in Putting => (frame[p].back = "regIndex" <=> frame[p].grp = online)
    /\ pc[p] \in Taking => (frame[p].back = "unindex" <=> frame[p].grp = online)
    /\ online \notin frame[p].todo

\* Before its first call a channel's thread is idle, and then it registers.
InStage(s) ==
    /\ stage[s] = "new" => pc[s] = "idle"
    /\ stage[s] = "registering" =>
         pc[s] \in {"idle"} \cup Ended \/ Registering(s)

CallsInPlace == (\A p \in Proc : InPlace(p)) /\ (\A s \in Session : InStage(s))

\* The group online is none of the application's groups.
OnlineIsApart ==
    /\ online \in created
    /\ \A g \in Gid : onlineGroupClient[g] # online

\* A session is filed under its own id.
Filed(s) ==
    /\ idOf[s] \in OwnIds(s)
    /\ \A i \in Id : onlineClient[i] = s => idOf[s] = i
    /\ \A i \in Id : groupSession[online][i] = s => idOf[s] = i

FiledUnderItsId == \A s \in Session : Filed(s)

\* Session s is not in the group online yet.
Early(s) ==
    \/ stage[s] = "new"
    \/ stage[s] = "registering" /\ pc[s] \in {"idle", "regCheck", "putSession"}

\* Before its registration is decided a session is not listed, and before
\* the first insertion it is not in the group.
NotYet(s) ==
    /\ Undecided(s) => \A i \in Id : onlineClient[i] # s
    /\ Early(s) => \A i \in Id : groupSession[online][i] # s

NotYetListed == \A s \in Session : NotYet(s)

\* What registrySession has inserted so far is still there.
SoFar(s) ==
    Registering(s) =>
        /\ pc[s] \in {"putChannel", "putChannelId", "regIndex", "regPublish"}
             => groupSession[online][idOf[s]] = s
        /\ pc[s] \in {"putChannelId", "regIndex", "regPublish"}
             => s \in channelGroup[online]
        /\ pc[s] \in {"regIndex", "regPublish"}
             => s \in channelIdGroupSession[online]
        /\ pc[s] = "regPublish" => s \in onlineChannelIdClient

Inserted == \A s \in Session : SoFar(s)

\* deregisterSession is called for ids whose session has been decided, and
\* from its first step on the id and what it found under it stay unlisted.
Removes(p) ==
    /\ Deregistering(p) =>
         \A s \in Session : frame[p].key \in OwnIds(s) => ~Undecided(s)
    /\ Withdrawn(p) => onlineClient[frame[p].key] = None
    /\ Withdrawn(p) /\ frame[p].removed # None => Out(frame[p].removed)
    /\ (pc[p] \in {"removeChannel", "removeChannelId"} /\ frame[p].back = "unindex")
         => Out(frame[p].found)

RemovedAreOut == \A p \in Proc : Removes(p)

\* The unregistered handler works on an id of its own session.
OwnKey(s) == stage[s] = "unregistering" /\ pc[s] = "idle" => frame[s].key \in OwnIds(s)

UnregistersOwn == \A s \in Session : OwnKey(s)

\* Only a channel whose registered handler has run can be closed.
ClosedAfterRegistration ==
    \A s \in closed : stage[s] \in {"open", "unregistering", "gone", "kept"}

\* Where every thread is inside registrySession and deregisterSession decides
\* what each index holds: all that was inserted so far is there, what is being
\* removed is listed nowhere, and a session found by id is in every index.
RegistryInv ==
    /\ TypeOK /\ ControlOK
    /\ CallsInPlace /\ OnlineIsApart /\ FiledUnderItsId /\ NotYetListed
    /\ Inserted /\ RemovedAreOut /\ UnregistersOwn /\ ClosedAfterRegistration
    /\ FoundIsIndexed
-----------------------------------------------------------------------------
(* The inductive invariant behind IndexesAgree: nothing stays in an index  *)
(* that no thread will take out.                                           *)

\* Thread p is at label l of a GroupSession.remove that deregisterSession
\* called.
Withdraws(p, l) == pc[p] = l /\ frame[p].back = "unindex"

Listed(s) == onlineClient[idOf[s]] = s

\* Session s is in an index because it is listed, because its registration
\* has got so far, or because a thread has still to take it out of there.
AccountedFor(s) ==
    /\ groupSession[online][idOf[s]] = s =>
         \/ Listed(s) \/ Registering(s)
         \/ \E p \in Proc : Withdraws(p, "removeSession") /\ frame[p].key = idOf[s]
    /\ s \in channelGroup[online] =>
         \/ groupSession[online][idOf[s]] = s
         \/ \E p \in Proc : Withdraws(p, "removeChannel") /\ frame[p].found = s
    /\ s \in channelIdGroupSession[online] =>
         \/ groupSession[online][idOf[s]] = s
         \/ \E p \in Proc, l \in {"removeChannel", "removeChannelId"} :
               Withdraws(p, l) /\ frame[p].found = s
    /\ s \in onlineChannelIdClient =>
         \/ Listed(s) \/ pc[s] = "regPublish"
         \/ \E p \in Proc : Withdrawn(p) /\ frame[p].removed = s
    /\ s \in closed => s \notin channelGroup[online]

IndexInv == RegistryInv /\ \A s \in Session : AccountedFor(s)
-----------------------------------------------------------------------------
(* The inductive invariants behind GoneIsForgotten.  Nothing keeps a       *)
(* session listed when the unregistered handler of its channel has got to  *)
(* its end.  Nothing keeps it in a group either if nobody joins groups, or *)
(* if only the registered hooks join them, each in its own handler, and    *)
(* the application's threads only make and drop groups.                    *)

NobodyJoins ==
    (\A s \in Session : HookGroups[s] = {}) /\ "addSession" \notin AppCalls
OnlyHooksJoin == AppCalls \subseteq {"createGroup", "removeGroup"}

\* Inside the methods that only the application's own threads call.
AppMethods == {"getGroupRemove", "createCheck", "createPut", "removeGroup",
               "findHas", "findIn", "findTake"}

\* Of the methods that take sessions out a handler calls deregisterSession
\* only: the unregistered handler does, for an id of its own session, for the
\* one the session is listed under if it is, and leaves it unlisted.
Leaves(s) ==
    /\ pc[s] \notin AppMethods
    /\ pc[s] \in {"unpublish", "unindex", "lock", "clean"} \cup Taking =>
         stage[s] = "unregistering" /\ frame[s].key \in OwnIds(s)
    /\ stage[s] = "unregistering" /\ pc[s] \in {"idle", "unpublish"} /\ Listed(s) =>
         frame[s].key = idOf[s]
    /\ stage[s] = "unregistering" /\ pc[s] \notin {"idle", "unpublish"} => ~Listed(s)
    /\ stage[s] \in {"gone", "kept"} => pc[s] = "idle"
    /\ stage[s] = "gone" => ~Listed(s)

LeaveInv == IndexInv /\ \A s \in Session : Leaves(s)

\* Nobody is in a group, nor joins one.
NoMembers ==
    /\ \A g \in Group \ {online}, s \in Session : ~Holds(g, s)
    /\ \A p \in Proc : pc[p] \in {"getGroup"} \cup Putting => Registering(p)

Cleaning(s) ==
    \/ pc[s] = "clean"
    \/ pc[s] \in Taking /\ frame[s].back = "clean"

\* Session s has joined a group, or its handler is about to do it.
Joins(s) == stage[s] = "joining" \/ \E g \in Group \ {online} : Holds(g, s)

\* A session that joins is listed until its own handler withdraws it, and
\* then the handler goes through the groups with its id.
StaysListed(s) ==
    /\ stage[s] = "registering" /\ pc[s] \in Ended => Listed(s)
    /\ Joins(s) =>
         \/ stage[s] \in {"joining", "open"} /\ Listed(s)
         \/ /\ stage[s] = "unregistering" /\ frame[s].key = idOf[s]
            /\ \/ pc[s] \in {"idle", "unpublish"} /\ Listed(s)
               \/ Withdrawn(s) /\ frame[s].removed = s
               \/ pc[s] = "lock" \/ Cleaning(s)
         \/ stage[s] = "unregistering" /\ pc[s] \in Ended
         \/ stage[s] \in {"gone", "kept"}

\* The handler of s has still to take s out of group g.
ToVisit(s, g) ==
    /\ stage[s] = "unregistering"
    /\ \/ pc[s] \in {"idle", "lock"} \/ Deregistering(s)
       \/ /\ Cleaning(s) /\ g \in frame[s].todo
          /\ \/ g \notin frame[s].seen
             \/ pc[s] = "removeSession" /\ frame[s].grp = g

\* Session s is in group g under its own id, and in every collection of it
\* only while it is under that id or its handler is taking it out; it stays
\* in a live group only until its handler visits that group.
MemberOf(g, s) ==
    /\ \A i \in Id : groupSession[g][i] = s => i = idOf[s]
    /\ Holds(g, s) => g \in created /\ stage[s] \notin {"new", "registering"}
    /\ s \in channelGroup[g] =>
         \/ groupSession[g][idOf[s]] = s
         \/ pc[s] = "removeChannel" /\ frame[s].grp = g /\ frame[s].found = s
    /\ s \in channelIdGroupSession[g] =>
         \/ groupSession[g][idOf[s]] = s
         \/ /\ pc[s] \in {"removeChannel", "removeChannelId"}
            /\ frame[s].grp = g /\ frame[s].found = s
    /\ groupSession[g][idOf[s]] = s /\ g \in LiveGroups =>
         stage[s] \in {"joining", "open", "kept"} \/ ToVisit(s, g)
    /\ pc[s] \in Putting /\ frame[s].grp = g =>
         /\ stage[s] = "joining" /\ g \in created /\ frame[s].sess = s
         /\ pc[s] # "putSession" => groupSession[g][idOf[s]] = s

\* A handler puts only its own session into a group, and takes only its own
\* session out of the groups it visits.
MemberAt(s) ==
    /\ pc[s] \in {"getGroup"} \cup Putting => Registering(s) \/ stage[s] = "joining"
    /\ pc[s] = "getGroup" => frame[s].sess = s
    /\ pc[s] \in {"removeChannel", "removeChannelId"} /\ frame[s].grp # online
         => frame[s].found = s
    /\ StaysListed(s)
    /\ \A g \in Group \ {online} : MemberOf(g, s)

MembersInv ==
    /\ \A a \in App : pc[a] \in {"idle", "createCheck", "createPut", "removeGroup"} \cup Ended
    /\ LiveGroups \subseteq created
    /\ \A s \in Session : MemberAt(s)

JoinInv == LeaveInv /\ MembersInv
-----------------------------------------------------------------------------
(* The inductive invariants behind TakeoversCrossLoops and RemovesOnlyIts- *)
(* Own.  They do without CarefulApplication: clients may share an id.      *)
(* RemovesOnlyItsOwn needs that their channels share the event loop too,   *)
(* whose handlers take turns.                                              *)

\* registrySession tests the id and takes it steps later: a session loses its
\* id to another one only if the two are on different event loops.
TakeoversCrossLoops ==
    [][\A i \in Id, s, t \in Session :
         onlineClient[i] = s /\ onlineClient'[i] = t /\ s # t => Loop[s] # Loop[t]]_vars

SharersShareLoop ==
    \A s, t \in Session :
        s # t /\ OwnIds(s) \cap OwnIds(t) # {} => Loop[s] = Loop[t]

ShortTextsAreUnique == \A s, t \in Session : s # t => ShortText[s] \notin OwnIds(t)

AppNeverDeregisters == AppCalls \cap {"kick", "ban"} = {}

\* A registration files a session under an id of its own, and the
\* unregistered handler deregisters such an id.
OwnOnly(p) ==
    /\ Registering(p) =>
         /\ p \in Session /\ stage[p] \in {"registering", "login"}
         /\ frame[p].sess = p
         /\ pc[p] # "regCheck" => frame[p].key \in OwnIds(p)
    /\ p \in Session =>
         /\ idOf[p] \in OwnIds(p)
         /\ \A i \in Id : onlineClient[i] = p => i \in OwnIds(p)
         /\ pc[p] = "unpublish" \/ (stage[p] = "unregistering" /\ pc[p] = "idle")
              => frame[p].key \in OwnIds(p)

OwnInv == TypeOK /\ ControlOK /\ \A p \in Proc : OwnOnly(p)

OneHandlerPerLoop ==
    \A s, t \in Session :
        s # t /\ Loop[s] = Loop[t] => ~(InHandler(s) /\ InHandler(t))

\* Between the test of registrySession and its last step nobody on the same
\* event loop takes the id.
IdFree(s) ==
    Registering(s) /\ pc[s] # "regCheck" =>
        LET t == onlineClient[frame[s].key] IN t # None => Loop[t] # Loop[s]

KeyInv == OwnInv /\ OneHandlerPerLoop /\ \A s \in Session : IdFree(s)

\* Only the unregistered handler deregisters; the id it is about to withdraw
\* has its own session or none; and a session that is in the index by channel
\* id is listed under its id, or about to be, or withdrawn by its own handler.
Undisturbed(s) ==
    /\ Registering(s) /\ pc[s] # "regCheck" => frame[s].key = idOf[s]
    /\ Deregistering(s) => stage[s] = "unregistering"
    /\ pc[s] = "unpublish" \/ (stage[s] = "unregistering" /\ pc[s] = "idle")
         => onlineClient[frame[s].key] \in {s, None}
    /\ stage[s] = "new" => s \notin onlineChannelIdClient
    /\ (stage[s] = "registering" /\ pc[s] = "idle") \/ (Registering(s) /\ pc[s] # "regPublish")
         => s \notin onlineChannelIdClient
    /\ s \in onlineChannelIdClient =>
         \/ Listed(s) \/ pc[s] = "regPublish"
         \/ Withdrawn(s) /\ frame[s].removed = s

SharingInv ==
    /\ KeyInv
    /\ \A a \in App : ~Deregistering(a)
    /\ \A s \in Session : Undisturbed(s)
=============================================================================
