--------------------------- MODULE SessionHandlers ---------------------------
(***************************************************************************)
(* The life of a server's channels and what it does to the session         *)
(* registry: handler/impl/SocketSessionRegisteredHandler.java and          *)
(* SocketSessionUnregisteredHandler.java, run by netty's event loops,      *)
(* together with the application's own threads, which call the             *)
(* manager through AdapterSessionManager at any time.                      *)
(*                                                                         *)
(* An event loop runs one handler at a time: the channels of one loop      *)
(* interleave only between handlers, those of different loops at every     *)
(* step.  A channel is accepted once, closed at most once, and then        *)
(* unregistered.                                                           *)
(***************************************************************************)
EXTENDS DefaultSessionManager

CONSTANTS
    App,            \* the application's threads
    AppCalls,       \* the manager's methods they call
    Loop,           \* channel -> its event loop
    ShortText,      \* channel -> channel.id().asShortText()
    HookIds,        \* channel -> the ids registerBefore may leave in its session
    HookGroups,     \* channel -> the groups a registered hook may put it into
    StartGroups,    \* the groups the application creates before it listens
    AutoRegister,   \* autoRegisterSession of the server's configuration
    Throwing        \* the interceptor methods that may throw

ASSUME HandlersAssumption ==
    /\ Proc = Session \cup App
    /\ Session \cap App = {}
    /\ ShortText \in [Session -> Id]
    /\ HookIds \in [Session -> SUBSET Id]
    /\ \A s \in Session : HookIds[s] # {}
    /\ StartGroups \in [Gid -> Group \cup {None}]
    /\ \A g \in Gid : StartGroups[g] # online
    /\ HookGroups \in [Session -> SUBSET Gid]
    /\ AutoRegister \in BOOLEAN

VARIABLE stage      \* channel -> where it is in its life

vars == <<groupVars, managerVars, stage>>

Stages == {"new", "registering", "joining", "open", "login", "unregistering",
           "gone", "kept"}

TypeOK ==
    /\ GroupTypeOK
    /\ ManagerTypeOK
    /\ pc \in [Proc -> {"idle"} \cup Running \cup Ended]
    /\ stage \in [Session -> Stages]

Init ==
    /\ GroupInit
    /\ ManagerInit
    /\ idOf = ShortText
    /\ onlineGroupClient = StartGroups
    /\ created = {online} \cup ({StartGroups[g] : g \in Gid} \ {None})
    /\ pc = [p \in Proc |-> "idle"]
    /\ stage = [s \in Session |-> "new"]

-----------------------------------------------------------------------------
Idle(p) == pc[p] = "idle"
InHandler(s) == stage[s] \notin {"new", "open", "gone", "kept"}
LoopFree(s) == \A t \in Session : Loop[t] = Loop[s] => ~InHandler(t)

Enter(s, from, to) ==
    /\ stage[s] = from
    /\ stage' = [stage EXCEPT ![s] = to]

\* A call has ended and the thread goes on in its own code.
Resume(p) ==
    /\ pc[p] \in Ended
    /\ pc' = [pc EXCEPT ![p] = "idle"]
    /\ frame' = [frame EXCEPT ![p] = NoFrame]

NoManager == UNCHANGED <<indexes, groups, monitor, collections, closed>>
-----------------------------------------------------------------------------
(* SocketSessionRegisteredHandler.channelRegistered                        *)

\* A channel just accepted is in no index, so findWithCreate makes its
\* session, with the short text of the channel id for its id.
ChannelRegistered(s) ==
    /\ Idle(s) /\ LoopFree(s)
    /\ Enter(s, "new", IF AutoRegister THEN "registering" ELSE "open")
    /\ UNCHANGED <<groupVars, managerVars>>

\* The registerBefore hooks may give the session another id; then
\* registrySession(session).  A hook that throws ends the handler.
RegisterBefore(s) ==
    /\ stage[s] = "registering" /\ Idle(s)
    /\ \E i \in HookIds[s] : idOf' = [idOf EXCEPT ![s] = i]
    /\ Call(s, "regCheck", [NoFrame EXCEPT !.sess = s])
    /\ UNCHANGED stage
    /\ NoManager

RegisterBeforeThrows(s) ==
    /\ "registerBefore" \in Throwing
    /\ Idle(s) /\ Enter(s, "registering", "open")
    /\ UNCHANGED <<managerVars, groupVars>>

\* The answer of registrySession is not looked at.  The registered hooks run
\* (one of them may put the session into a group), and the handler ends.
RegisteredHooks(s) ==
    /\ Enter(s, "registering", "open")
    /\ Resume(s)
    /\ UNCHANGED idOf /\ NoManager

JoinGroup(s) ==
    /\ Enter(s, "registering", "joining")
    /\ pc[s] \in Ended
    /\ \E g \in HookGroups[s] :
         Call(s, "getGroup", [NoFrame EXCEPT !.sess = s, !.gid = g])
    /\ UNCHANGED idOf /\ NoManager

Joined(s) ==
    /\ Enter(s, "joining", "open")
    /\ Resume(s)
    /\ UNCHANGED idOf /\ NoManager

-----------------------------------------------------------------------------
(* With autoRegisterSession off the handlers touch no session: the         *)
(* application registers it under an id of its choice when the client      *)
(* logs in, in a handler of the channel, and deregisters that id itself.   *)

Login(s) ==
    /\ ~AutoRegister /\ s \notin closed /\ s \notin onlineChannelIdClient
    /\ Idle(s) /\ LoopFree(s)
    /\ Enter(s, "open", "login")
    /\ \E i \in HookIds[s] : RegisterAs(s, i, s)
    /\ UNCHANGED idOf /\ NoManager

LoggedIn(s) ==
    /\ Enter(s, "login", "open")
    /\ Resume(s)
    /\ UNCHANGED idOf /\ NoManager

-----------------------------------------------------------------------------
(* Netty closes a channel on its event loop: the close listeners of the    *)
(* channel groups run first, channelUnregistered follows.                  *)
Close(s) ==
    /\ stage[s] = "open" /\ LoopFree(s) /\ s \notin closed
    /\ closed' = closed \cup {s}
    /\ DropFromChannelGroups(s)
    /\ UNCHANGED <<idOf, managerVars, stage>>

(* SocketSessionUnregisteredHandler.channelUnregistered                    *)

\* Faulty: makes a new session without looking for the registered one.
CurrentIdNew(s) == ShortText[s]

\* Faulty: takes the id the hook gave, registered or not.
CurrentIdGiven(s) == idOf[s]

\* findWithCreate: the registered session, or else a new one, which has the
\* short text for its id.
CurrentId(s) == IF s \in onlineChannelIdClient THEN idOf[s] ELSE ShortText[s]

ChannelUnregistered(s) ==
    /\ AutoRegister /\ s \in closed /\ Idle(s) /\ LoopFree(s)
    /\ Enter(s, "open", "unregistering")
    /\ frame' = [frame EXCEPT ![s] = [NoFrame EXCEPT !.key = CurrentId(s)]]
    /\ UNCHANGED <<pc, idOf>> /\ NoManager

\* Off: the application deregisters the id it registered, if it did.
ManualUnregistered(s) ==
    /\ ~AutoRegister /\ s \in closed /\ Idle(s) /\ LoopFree(s)
    /\ \/ \E i \in Id :
            /\ onlineClient[i] = s
            /\ Enter(s, "open", "unregistering")
            /\ Call(s, "unpublish", [NoFrame EXCEPT !.key = i])
       \/ /\ \A i \in Id : onlineClient[i] # s
          /\ Enter(s, "open", "gone")
          /\ UNCHANGED <<pc, frame>>
    /\ UNCHANGED idOf /\ NoManager

RemoveBefore(s) ==
    /\ stage[s] = "unregistering" /\ Idle(s)
    /\ Call(s, "unpublish", frame[s])
    /\ UNCHANGED <<stage, idOf>> /\ NoManager

\* An interceptor that throws before deregisterSession: the session is kept.
RemoveBeforeThrows(s) ==
    /\ "removeBefore" \in Throwing
    /\ Idle(s) /\ Enter(s, "unregistering", "kept")
    /\ UNCHANGED <<managerVars, groupVars>>

Unregistered(s) ==
    /\ Enter(s, "unregistering", "gone")
    /\ Resume(s)
    /\ UNCHANGED idOf /\ NoManager

-----------------------------------------------------------------------------
(* An application thread takes a session it finds online, or an id it      *)
(* knows, and calls one method of the manager.                             *)

StartCall(a, method, first, f) ==
    /\ method \in AppCalls
    /\ Idle(a)
    /\ Call(a, first, f)
    /\ UNCHANGED <<stage, idOf>> /\ NoManager

Found(i) == onlineClient[i] # None

\* findSession(id), then deregisterSession(id)
Kick(a) ==
    \E i \in Id : /\ Found(i)
                  /\ StartCall(a, "kick", "unpublish", [NoFrame EXCEPT !.key = i])

\* deregisterSession(id) of an id known otherwise
Ban(a) ==
    \E i \in Id : StartCall(a, "ban", "unpublish", [NoFrame EXCEPT !.key = i])

AddToGroup(a) ==
    \E i \in Id, g \in Gid :
       /\ Found(i)
       /\ StartCall(a, "addSession", "getGroup",
                    [NoFrame EXCEPT !.sess = onlineClient[i], !.gid = g])

RemoveFromGroup(a) ==
    \E i \in Id, g \in Gid :
       StartCall(a, "removeSession", "getGroupRemove",
                 [NoFrame EXCEPT !.key = i, !.gid = g])

FindMember(a) ==
    \E i \in Id, g \in Gid :
       StartCall(a, "findSessionInGroup", "findHas",
                 [NoFrame EXCEPT !.key = i, !.gid = g])

\* Bound: the number of GroupSession objects in Group.
SpareGroup ==
    Cardinality({p \in Proc : pc[p] \in {"createCheck", "createPut"}})
        < Cardinality(Group \ created)

MakeGroup(a) ==
    /\ SpareGroup
    /\ \E g \in Gid : StartCall(a, "createGroup", "createCheck",
                                [NoFrame EXCEPT !.gid = g])

DropGroup(a) ==
    \E g \in Gid : StartCall(a, "removeGroup", "removeGroup",
                             [NoFrame EXCEPT !.gid = g])

CallEnds(a) == Resume(a) /\ UNCHANGED <<stage, idOf>> /\ NoManager

-----------------------------------------------------------------------------
\* What the event loop does by itself for channel s.
LoopStep(s) ==
    \/ RegisterBefore(s) \/ RegisterBeforeThrows(s)
    \/ RegisteredHooks(s) \/ JoinGroup(s) \/ Joined(s) \/ LoggedIn(s)
    \/ ChannelUnregistered(s) \/ ManualUnregistered(s)
    \/ RemoveBefore(s) \/ RemoveBeforeThrows(s) \/ Unregistered(s)

AppStep(a) ==
    \/ Kick(a) \/ Ban(a) \/ AddToGroup(a) \/ RemoveFromGroup(a)
    \/ FindMember(a) \/ MakeGroup(a) \/ DropGroup(a) \/ CallEnds(a)

Step(p) == ManagerStep(p) /\ UNCHANGED stage

Next ==
    \/ \E s \in Session : ChannelRegistered(s) \/ Login(s) \/ Close(s) \/ LoopStep(s)
    \/ \E a \in App : AppStep(a)
    \/ \E p \in Proc : Step(p)

Spec == Init /\ [][Next]_vars

\* A thread inside the manager keeps running, an event loop runs the
\* handlers of the events it has; nobody has to connect, close or call.
Fairness ==
    /\ \A s \in Session : WF_vars(LoopStep(s))
    /\ \A p \in Proc : WF_vars(Step(p))
    /\ \A a \in App : WF_vars(CallEnds(a))

FairSpec == Spec /\ Fairness
-----------------------------------------------------------------------------
(* Properties                                                              *)

Quiet == \A p \in Proc : pc[p] \notin Running

\* A session the id index gives out is in every other index too, and, while
\* its channel is open, a broadcast reaches it: registrySession publishes the
\* id last and deregisterSession withdraws it first, so no thread finds a
\* session that is half registered or half removed.
FoundIsIndexed ==
    \A i \in Id : LET s == onlineClient[i] IN
        s # None =>
            /\ s \in onlineChannelIdClient
            /\ groupSession[online][i] = s
            /\ s \in channelIdGroupSession[online]
            /\ s \notin closed => s \in channelGroup[online]

\* When no call is in progress the indexes of the manager agree on which
\* sessions are online: the four that DefaultSessionManager and its group
\* "online" update one after the other hold the same sessions, and
\* broadcasts go to those of them that are not closed.
IndexesAgree ==
    Quiet => \A s \in Session :
        LET here == s \in onlineChannelIdClient IN
            /\ here <=> onlineClient[idOf[s]] = s
            /\ here <=> groupSession[online][idOf[s]] = s
            /\ here <=> s \in channelIdGroupSession[online]
            /\ (here /\ s \notin closed) <=> s \in channelGroup[online]

\* A broadcast to everybody who is online reaches whomever findSession gives
\* out, as long as the channel is open and no call is in progress.
OnlineIsReached ==
    Quiet => \A i \in Id :
        onlineClient[i] \notin closed \cup {None}
            => onlineClient[i] \in channelGroup[online]

\* When a channel has been unregistered, by a handler that got to its end, and
\* no call is in progress, nothing in the manager or in an application's group
\* refers to its session.
GoneIsForgotten ==
    Quiet => \A s \in Session :
        stage[s] = "gone" => /\ ~InRegistry(s)
                             /\ \A g \in LiveGroups : ~Holds(g, s)

\* An id is the primary key of a session: registering never takes an id over
\* from the session that has it.
IdKeepsItsSession ==
    [][\A i \in Id : onlineClient[i] # None =>
                        onlineClient'[i] \in {onlineClient[i], None}]_vars

\* The handler of an unregistered channel deregisters that channel's session
\* and no other.
RemovesOnlyItsOwn ==
    [][\A s \in Session, i \in Id :
         (pc[s] = "unpublish" /\ pc'[s] # "unpublish" /\ onlineClient'[i] # onlineClient[i])
           => onlineClient[i] = s]_vars

\* A closed channel's session disappears from the manager's indexes and stays
\* out of them, although threads of the application may be deregistering it
\* at the same time and may hold the monitor.
ClosedIsForgotten ==
    \A s \in Session : s \in closed ~> [](~InRegistry(s))

\* A call of the manager returns or throws: the monitor groupClientClean
\* takes is always released.
CallsEnd == \A p \in Proc : pc[p] \in Running ~> pc[p] \in Ended
-----------------------------------------------------------------------------
(* The handlers implement the directory: with auto-registration a session  *)
(* is outside until its registration has been decided, then listed while   *)
(* the index by id has it.                                                 *)

Undecided(s) ==
    stage[s] = "new" \/ (stage[s] = "registering" /\ pc[s] \notin Ended)

Fate ==
    [s \in Session |-> IF Undecided(s) THEN "outside"
                       ELSE IF \E i \in Id : onlineClient[i] = s THEN "listed"
                       ELSE "done"]

Directory == INSTANCE SessionDirectory WITH entry <- onlineClient, fate <- Fate

\* Finding by id sees one atomic directory with unique keys, in spite of the
\* many steps of registrySession and deregisterSession.
ImplementsDirectory == Directory!Spec
=============================================================================
