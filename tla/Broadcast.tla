------------------------------ MODULE Broadcast ------------------------------
(***************************************************************************)
(* GroupSession.sendBroadcast and sendSome: one call, made by an event     *)
(* loop or by a thread of the application, while the members' channels     *)
(* close and their sessions are removed from the group.                    *)
(*                                                                         *)
(* A write is a netty future: it completes on the event loop of its        *)
(* channel, at once when the caller is that event loop.  A listener runs   *)
(* on the channel's event loop too: inline when the future is complete and *)
(* the caller is on the loop, otherwise as a task of the loop or when the  *)
(* future completes.  The listeners append to an ArrayList that the caller *)
(* reads: neither takes a lock, and an append that races with one of       *)
(* another event loop may lose elements, leave a null or throw.            *)
(***************************************************************************)
EXTENDS GroupSession, Sequences

CONSTANTS
    Loops,      \* the event loops
    room,       \* the group the message is sent to
    Excludes,   \* the arrays of excluded sessions explored
    Somes       \* the sets of ids explored for sendSome

ASSUME BroadcastAssumption ==
    /\ room \in Group /\ None \notin Loops
    /\ Excludes \subseteq Seq(Session)
    /\ Somes \subseteq SUBSET Id
    /\ \E f \in [Session -> Id] : \A s, t \in Session : s # t => f[s] # f[t]

VARIABLES
    loopOf,     \* channel -> its event loop
    call,       \* the call: its method, arguments and the caller's event loop, or None
    step,       \* where the caller is
    todo,       \* what its iterator has still to visit
    send,       \* channel -> the state of the write's future
    listener,   \* channel -> the state of the future's listener
    result,     \* the elements of the ArrayList, None for a null
    before,     \* channel -> the elements its listener found in it
    answer,     \* what the callback was told
    leaving     \* channel -> the steps done of GroupSession.remove

callerVars == <<loopOf, call, step, todo, answer>>
futureVars == <<send, listener, result, before>>
vars == <<groupVars, callerVars, futureVars, leaving>>

Broadcasts == [ op : {"sendBroadcast"}, home : Loops \cup {None},
                empty : BOOLEAN, exclude : Excludes, some : {{}} ]
Sends == [ op : {"sendSome"}, home : Loops \cup {None},
           empty : BOOLEAN, exclude : {<<>>}, some : Somes ]
Call == Broadcasts \cup Sends

Finished == {"ok", "failed"}

TypeOK ==
    /\ GroupTypeOK
    /\ loopOf \in [Session -> Loops]
    /\ call \in Call
    /\ step \in {"called", "write", "listen", "report", "returned"}
    /\ todo \in SUBSET Session
    /\ send \in [Session -> {"none", "task", "buffered"} \cup Finished]
    /\ listener \in [Session -> {"none", "waiting", "task", "adding", "done"}]
    /\ result \in SUBSET (Session \cup {None})
    /\ before \in [Session -> SUBSET (Session \cup {None})]
    /\ answer \in {"none", "success", "failed"}
    /\ leaving \in [Session -> 0..3]

\* Every session is a member of the group, under an id of its own.
Init ==
    /\ loopOf \in [Session -> Loops]
    /\ call \in Call
    /\ idOf = CHOOSE f \in [Session -> Id] : \A s, t \in Session : s # t => f[s] # f[t]
    /\ closed = {}
    /\ groupSession = [g \in Group |-> [i \in Id |->
           IF \E s \in Session : idOf[s] = i THEN CHOOSE s \in Session : idOf[s] = i
                                             ELSE None]]
    /\ channelGroup = [g \in Group |-> Session]
    /\ channelIdGroupSession = [g \in Group |-> Session]
    /\ step = "called" /\ todo = {} /\ answer = "none"
    /\ send = [s \in Session |-> "none"]
    /\ listener = [s \in Session |-> "none"]
    /\ result = {}
    /\ before = [s \in Session |-> {}]
    /\ leaving = [s \in Session |-> 0]

-----------------------------------------------------------------------------
\* An event loop runs one task at a time: the call itself, when it is made
\* from a handler, and each listener up to its end.
Adding(l) == \E s \in Session : loopOf[s] = l /\ listener[s] = "adding"
LoopFree(s) ==
    /\ ~Adding(loopOf[s])
    /\ call.home = loopOf[s] => step \in {"called", "returned"}
OnLoop(s) == call.home = loopOf[s]
CallerFree == call.home = None \/ ~Adding(call.home)

Failed(s) == send[s] = "failed"

\* What an event loop sees of the list: all it has appended itself, and any
\* part of what the others have.
Visible(l) == {v \in SUBSET result : \A s \in result : s # None /\ loopOf[s] = l => s \in v}

(* The listener of the write to s, lines 96-103 and 139-141.               *)

\* Faulty: adds the sessions whose write succeeded.
ListenInverted(s, outcome) ==
    IF outcome = "ok" /\ s \in channelIdGroupSession[room]
    THEN /\ listener' = [listener EXCEPT ![s] = "adding"]
         /\ \E v \in Visible(loopOf[s]) : before' = [before EXCEPT ![s] = v]
    ELSE /\ listener' = [listener EXCEPT ![s] = "done"]
         /\ UNCHANGED before

\* It looks the session up by channel id (sendBroadcast) or has it
\* (sendSome), and appends it when the write has failed.
Listen(s, outcome) ==
    IF outcome = "failed" /\ (call.op = "sendBroadcast" =>
                                s \in channelIdGroupSession[room])
    THEN /\ listener' = [listener EXCEPT ![s] = "adding"]
         /\ \E v \in Visible(loopOf[s]) : before' = [before EXCEPT ![s] = v]
    ELSE /\ listener' = [listener EXCEPT ![s] = "done"]
         /\ UNCHANGED before

\* The future of s completes on its event loop, and notifies its listener.
Complete(s, outcome) ==
    /\ send' = [send EXCEPT ![s] = outcome]
    /\ IF listener[s] = "waiting" THEN Listen(s, outcome)
                                  ELSE UNCHANGED <<listener, before>>
    /\ UNCHANGED result

\* What becomes of a write when the event loop gets to it: it fails on a
\* closed channel, and may fail, succeed or wait in the buffer on an open one.
Attempt(s) ==
    \E outcome \in IF s \in closed THEN {"failed"} ELSE {"buffered"} \cup Finished :
        IF outcome = "buffered"
        THEN /\ send' = [send EXCEPT ![s] = "buffered"]
             /\ UNCHANGED <<listener, before, result>>
        ELSE Complete(s, outcome)

-----------------------------------------------------------------------------
(* The caller                                                              *)

\* Faulty: looks all the ids up before it sends, and takes a null for a session.
EnterLookingUp ==
    /\ step = "called"
    /\ IF call.empty
       THEN step' = "returned" /\ answer' = "failed" /\ UNCHANGED todo
       ELSE IF call.op = "sendSome" /\ call.some = {}
       THEN step' = "returned" /\ UNCHANGED <<answer, todo>>
       ELSE /\ step' = "write"
            /\ todo' = IF call.op = "sendBroadcast" THEN channelGroup[room]
                       ELSE {groupSession[room][i] : i \in call.some}
            /\ UNCHANGED answer
    /\ UNCHANGED <<loopOf, call, futureVars, groupVars, leaving>>

\* An empty message is refused through the callback; sendSome without ids
\* does nothing.
Enter ==
    /\ step = "called"
    /\ IF call.empty
       THEN step' = "returned" /\ answer' = "failed" /\ UNCHANGED todo
       ELSE IF call.op = "sendSome" /\ call.some = {}
       THEN step' = "returned" /\ UNCHANGED <<answer, todo>>
       ELSE /\ step' = "write"
            /\ todo' = IF call.op = "sendBroadcast" THEN channelGroup[room]
                       ELSE {s \in Session : idOf[s] \in call.some}
            /\ UNCHANGED answer
    /\ UNCHANGED <<loopOf, call, futureVars, groupVars, leaving>>

\* The loop over the excluded sessions returns in its first round.
Matches(s) == call.exclude = <<>> \/ Head(call.exclude) # s

\* channel.writeAndFlush(msg)
StartWrite(s) ==
    IF OnLoop(s) THEN Attempt(s)
    ELSE /\ send' = [send EXCEPT ![s] = "task"]
         /\ UNCHANGED <<listener, before, result>>

\* Faulty: the listener only hears of a future that is still open.
BindListenerLate(s) ==
    /\ listener' = [listener EXCEPT ![s] =
                        IF send[s] \in Finished THEN "done" ELSE "waiting"]
    /\ UNCHANGED <<send, before, result>>

\* future.addListener
BindListener(s) ==
    /\ IF send[s] \in Finished /\ OnLoop(s)
       THEN Listen(s, send[s])
       ELSE /\ listener' = [listener EXCEPT ![s] =
                                IF send[s] \in Finished THEN "task" ELSE "waiting"]
            /\ UNCHANGED before
    /\ UNCHANGED <<send, result>>

\* sendBroadcast writes to every channel its iterator finds in the group, all
\* writes first and then the listeners.
WriteToMember(s) ==
    /\ call.op = "sendBroadcast" /\ step = "write" /\ CallerFree
    /\ s \in todo
    /\ todo' = todo \ {s}
    /\ IF Matches(s) THEN StartWrite(s) ELSE UNCHANGED futureVars
    /\ UNCHANGED <<loopOf, call, step, answer, groupVars, leaving>>

\* Faulty: stops while members have still to be visited.
StopWritingEarly ==
    /\ call.op = "sendBroadcast" /\ step = "write" /\ CallerFree
    /\ step' = "listen"
    /\ todo' = {s \in Session : send[s] # "none"}
    /\ UNCHANGED <<loopOf, call, answer, futureVars, groupVars, leaving>>

\* A channel that has left the group may be missed by the iterator.
StopWriting ==
    /\ call.op = "sendBroadcast" /\ step = "write" /\ CallerFree
    /\ todo \cap channelGroup[room] = {}
    /\ step' = "listen"
    /\ todo' = {s \in Session : send[s] # "none"}
    /\ UNCHANGED <<loopOf, call, answer, futureVars, groupVars, leaving>>

ListenToMember(s) ==
    /\ call.op = "sendBroadcast" /\ step = "listen" /\ CallerFree
    /\ s \in todo
    /\ todo' = todo \ {s}
    /\ BindListener(s)
    /\ UNCHANGED <<loopOf, call, step, answer, groupVars, leaving>>

\* sendSome looks each id up and sends to the session it finds (Session.send):
\* the write, then its listener.
WriteToSome(s) ==
    /\ call.op = "sendSome" /\ step = "write" /\ CallerFree
    /\ s \in todo
    /\ IF groupSession[room][idOf[s]] = s
       THEN step' = "listen" /\ StartWrite(s) /\ UNCHANGED todo
       ELSE todo' = todo \ {s} /\ UNCHANGED <<step, futureVars>>
    /\ UNCHANGED <<loopOf, call, answer, groupVars, leaving>>

ListenToSome(s) ==
    /\ call.op = "sendSome" /\ step = "listen" /\ CallerFree
    /\ s \in todo /\ send[s] # "none"
    /\ step' = "write" /\ todo' = todo \ {s}
    /\ BindListener(s)
    /\ UNCHANGED <<loopOf, call, answer, groupVars, leaving>>

AllSent ==
    /\ step = IF call.op = "sendSome" THEN "write" ELSE "listen"
    /\ todo = {} /\ CallerFree
    /\ step' = "report"
    /\ UNCHANGED <<loopOf, call, todo, answer, futureVars, groupVars, leaving>>

\* Faulty: answers only when a send has failed.
ProcessingFailures ==
    /\ step = "report"
    /\ step' = "returned"
    /\ answer' = IF result = {} THEN "none" ELSE "failed"
    /\ UNCHANGED <<loopOf, call, todo, futureVars, groupVars, leaving>>

\* processingResults
ProcessingResults ==
    /\ step = "report"
    /\ step' = "returned"
    /\ \E v \in Visible(call.home) : answer' = IF v = {} THEN "success" ELSE "failed"
    /\ UNCHANGED <<loopOf, call, todo, futureVars, groupVars, leaving>>

CallerStep ==
    \/ Enter \/ StopWriting \/ AllSent \/ ProcessingResults
    \/ \E s \in Session : \/ WriteToMember(s) \/ ListenToMember(s)
                          \/ WriteToSome(s) \/ ListenToSome(s)

-----------------------------------------------------------------------------
(* The event loops                                                         *)

RunWrite(s) ==
    /\ send[s] = "task" /\ LoopFree(s)
    /\ Attempt(s)
    /\ UNCHANGED <<callerVars, groupVars, leaving>>

RunListener(s) ==
    /\ listener[s] = "task" /\ LoopFree(s)
    /\ Listen(s, send[s])
    /\ UNCHANGED <<callerVars, send, result, groupVars, leaving>>

\* Faulty: appends what the index by channel id holds by then, null or not.
AppendedUnchecked(s) ==
    /\ listener[s] = "adding"
    /\ listener' = [listener EXCEPT ![s] = "done"]
    /\ result' = result \cup {IF s \in channelIdGroupSession[room] THEN s ELSE None}
    /\ UNCHANGED <<callerVars, send, before, groupVars, leaving>>

\* The append of s overlaps one of another event loop, or does not see it all.
Overlapped(s) ==
    result # before[s] \/ \E t \in Session \ {s} : listener[t] = "adding"

\* What ArrayList.add(s) leaves in the list.  Two appends that overlap read the
\* same size, write it back and may grow the array at once: whatever was not
\* in the list from the beginning of the append to its end may be lost, s
\* included (overwritten, or past the array that is left: then add throws),
\* and a slot may stay null.  Something is always left.
AfterAdd(s) ==
    IF ~Overlapped(s) THEN {result \cup {s}}
    ELSE LET stay == result \cap before[s]
             may == (result \cup before[s] \cup {s, None}) \ stay
         IN  {stay \cup n : n \in SUBSET may} \ {{}}

\* The append ends.
Appended(s) ==
    /\ listener[s] = "adding"
    /\ listener' = [listener EXCEPT ![s] = "done"]
    /\ result' \in AfterAdd(s)
    /\ UNCHANGED <<callerVars, send, before, groupVars, leaving>>

\* The socket takes what is in the buffer.
Flush(s) ==
    /\ send[s] = "buffered" /\ LoopFree(s)
    /\ Complete(s, "ok")
    /\ UNCHANGED <<callerVars, groupVars, leaving>>

\* The channel closes: what is in its buffer fails, and it leaves the channel
\* group.
Close(s) ==
    /\ s \notin closed /\ LoopFree(s)
    /\ closed' = closed \cup {s}
    /\ DropFromChannelGroups(s)
    /\ IF send[s] = "buffered" THEN Complete(s, "failed")
                               ELSE UNCHANGED futureVars
    /\ UNCHANGED <<callerVars, idOf, leaving>>

\* GroupSession.remove(id), by any thread.
Leave(s) ==
    /\ leaving[s] < 3
    /\ leaving' = [leaving EXCEPT ![s] = @ + 1]
    /\ \/ leaving[s] = 0 /\ RemoveSession(room, idOf[s])
       \/ leaving[s] = 1 /\ RemoveChannel(room, s)
       \/ leaving[s] = 2 /\ RemoveChannelId(room, s)
    /\ UNCHANGED <<callerVars, futureVars, idOf, closed>>

LoopTask(s) == RunWrite(s) \/ RunListener(s) \/ Appended(s)

Next ==
    \/ CallerStep
    \/ \E s \in Session : LoopTask(s) \/ Flush(s) \/ Close(s) \/ Leave(s)

Spec == Init /\ [][Next]_vars

\* The caller and the event loops run on; no peer has to read, close or leave.
Fairness == WF_vars(CallerStep) /\ \A s \in Session : WF_vars(LoopTask(s))

FairSpec == Spec /\ Fairness
-----------------------------------------------------------------------------
(* Properties                                                              *)

Excluded(s) == \E n \in DOMAIN call.exclude : call.exclude[n] = s

\* A broadcast has been written to every channel that is a member from its
\* beginning to its end and that nobody asked to exclude, whatever other
\* channels close or leave while it runs.
AllMembersServed ==
    (step = "report" /\ call.op = "sendBroadcast") =>
        \A s \in channelGroup[room] : Excluded(s) \/ send[s] # "none"

\* A call made on the event loop of all the members reports what it knows:
\* when the callback is called, every write that has failed is in the list,
\* and it is told of a failure only if there is one.
SameLoopReportIsExact ==
    [][(step = "report" /\ step' = "returned" /\ \A s \in Session : OnLoop(s)) =>
         LET listed == IF call.op = "sendSome" THEN Session
                       ELSE channelIdGroupSession[room]
             failures == {s \in Session : Failed(s)}
         IN  /\ answer' = "success" => failures \cap listed = {}
             /\ answer' = "failed" => failures # {}]_vars

\* A failure disappears from the list only through an append of another
\* event loop: on one event loop the list of failures gets complete.
LostOnlyToAnotherLoop ==
    \A s \in Session :
        (/\ Failed(s) /\ listener[s] = "done" /\ s \notin result
         /\ call.op = "sendBroadcast" => s \in channelIdGroupSession[room])
            => \E t \in Session : loopOf[t] # loopOf[s] /\ Failed(t)

TwoLoopsFailed ==
    \E s, t \in Session : loopOf[s] # loopOf[t] /\ Failed(s) /\ Failed(t)

\* The callback gets a null among the sessions it is told of only from appends
\* of two event loops: no listener adds the null of a lookup.
NullOnlyFromRacingLoops == None \in result => TwoLoopsFailed

\* The callback is called in the end, whatever happens to the channels: for
\* every call but a sendSome without ids.
CallerIsAnswered ==
    (step = "called" /\ (call.op = "sendBroadcast" \/ call.some # {} \/ call.empty))
        ~> answer # "none"

\* success of the group callback means that the message was sent: no write of
\* the call has failed, or fails later.
SuccessMeansSent ==
    answer = "success" => \A s \in channelIdGroupSession[room] : ~Failed(s)
-----------------------------------------------------------------------------
(* The inductive invariants behind AllMembersServed, NullOnlyFrom-         *)
(* RacingLoops, LostOnlyToAnotherLoop and SameLoopReportIsExact.           *)

Broadcasting == call.op = "sendBroadcast"
Written(s) == send[s] # "none"

\* A member that has not been written to and is not excluded is still to be
\* visited, and from the end of the writes on there is none.
MembersAreVisited ==
    Broadcasting /\ step \in {"write", "listen", "report"} =>
        \A s \in channelGroup[room] :
            Excluded(s) \/ Written(s) \/ (step = "write" /\ s \in todo)

\* What the caller has still to visit has no listener, and at most one write
\* is waiting for its own; what has been visited has a listener.
ToVisit(s) ==
    /\ step = "write" /\ s \in todo => ~Written(s)
    /\ Broadcasting /\ step = "listen" /\ s \in todo => Written(s)
    /\ step \in {"write", "listen"} /\ s \in todo => listener[s] = "none"
    /\ Written(s) /\ ~(Broadcasting /\ step = "write") =>
         listener[s] # "none" \/ (step = "listen" /\ s \in todo)
    /\ listener[s] # "none" => Written(s) /\ step # "called"
    /\ Broadcasting /\ step = "write" => listener[s] = "none"
    /\ step = "called" => ~Written(s)

OneAtATime ==
    ~Broadcasting /\ step = "listen" =>
        \A s, t \in todo : Written(s) /\ Written(t) => s = t

VisitedInOrder == OneAtATime /\ \A s \in Session : ToVisit(s)

\* A listener is told of a future that is complete; on the caller's event
\* loop it is told at once.
Heard(s) ==
    /\ listener[s] = "waiting" => send[s] \notin Finished
    /\ listener[s] \in {"task", "adding", "done"} => send[s] \in Finished
    /\ listener[s] = "adding" => Failed(s)
    /\ OnLoop(s) => listener[s] # "task"
    /\ OnLoop(s) /\ step = "report" => listener[s] # "adding"

OneListenerPerLoop ==
    \A s, t \in Session :
        s # t /\ listener[s] = "adding" /\ listener[t] = "adding" => loopOf[s] # loopOf[t]

\* Another event loop than that of s had a failure to append.
Excused(s) == \E t \in Session : loopOf[t] # loopOf[s] /\ Failed(t)

\* The list holds failures only, and lacks one only if another event loop had
\* one; the list and what a listener found in it differ only by failures of
\* several event loops.
Appends(s) ==
    /\ s \in result => Failed(s)
    /\ Failed(s) /\ listener[s] = "done" /\ (Broadcasting => s \in channelIdGroupSession[room])
         => s \in result \/ Excused(s)
    /\ \A t \in Session :
         /\ s \in before[t] => Failed(s)
         /\ listener[t] = "adding" /\ (s \in result) # (s \in before[t]) => Excused(s)

\* A null, in the list or as a listener found it, is what two event loops left.
Nulls ==
    (None \in result \/ \E t \in Session : None \in before[t]) => TwoLoopsFailed

BroadcastInv ==
    /\ TypeOK
    /\ MembersAreVisited /\ VisitedInOrder
    /\ OneListenerPerLoop /\ Nulls
    /\ \A s \in Session : Heard(s) /\ Appends(s)
=============================================================================
