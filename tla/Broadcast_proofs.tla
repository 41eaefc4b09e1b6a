--------------------------- MODULE Broadcast_proofs ---------------------------
(***************************************************************************)
(* A broadcast to any number of channels on any number of event loops: no  *)
(* member is left out, a failure gets lost only through an append of       *)
(* another event loop, and a caller on the members' event loop is told     *)
(* exactly what it knows.                                                  *)
(***************************************************************************)
EXTENDS Broadcast, TLAPS

(* What a step may do to the future of a write and to its listener.        *)

\* Nothing changes but the future of s.
Only(s) ==
    /\ UNCHANGED <<loopOf, call>>
    /\ \A t \in Session : t # s => /\ send'[t] = send[t] /\ listener'[t] = listener[t]
                                   /\ before'[t] = before[t]

\* The listener of s is told the outcome, on an event loop that runs no other.
Hears(s, outcome) ==
    /\ ~Adding(loopOf[s])
    /\ \/ outcome = "failed" /\ listener'[s] = "adding" /\ before'[s] \in Visible(loopOf[s])
       \/ /\ listener'[s] = "done" /\ before'[s] = before[s]
          /\ outcome = "failed" => Broadcasting /\ s \notin channelIdGroupSession[room]

\* The write to s goes on.
WriteMoves(s) ==
    /\ Only(s) /\ result' = result
    /\ send[s] \notin Finished /\ send'[s] \in {"task", "buffered"} \cup Finished
    /\ \/ /\ listener'[s] = listener[s] /\ before'[s] = before[s]
          /\ listener[s] = "waiting" => send'[s] \notin Finished
       \/ /\ listener[s] = "waiting" /\ send'[s] \in Finished
          /\ Hears(s, send'[s])

\* Its listener is added, or is told.
ListenerMoves(s) ==
    /\ Only(s) /\ result' = result /\ send' = send
    /\ \/ listener'[s] = "waiting" /\ send[s] \notin Finished /\ before'[s] = before[s]
       \/ /\ listener'[s] = "task" /\ send[s] \in Finished /\ ~OnLoop(s)
          /\ before'[s] = before[s]
       \/ send[s] \in Finished /\ Hears(s, send[s])

AppendMoves(s) ==
    /\ Only(s) /\ send' = send /\ before' = before
    /\ listener[s] = "adding" /\ listener'[s] = "done"
    /\ result' \in AfterAdd(s)

Still == UNCHANGED <<futureVars, loopOf, call>>

-----------------------------------------------------------------------------
\* A listener that is told of an outcome.
LEMMA ListenHears ==
  ASSUME TypeOK, NEW s \in Session, NEW outcome \in Finished, Listen(s, outcome),
         ~Adding(loopOf[s])
  PROVE  /\ Hears(s, outcome)
         /\ \A t \in Session : t # s => listener'[t] = listener[t] /\ before'[t] = before[t]
  BY DEF TypeOK, Listen, Hears, Finished, Broadcasting, Call, Broadcasts, Sends

\* A write that completes.
LEMMA CompleteMoves ==
  ASSUME TypeOK, NEW s \in Session, NEW outcome \in Finished, Complete(s, outcome),
         send[s] \notin Finished, ~Adding(loopOf[s]) \/ listener[s] # "waiting",
         UNCHANGED <<loopOf, call>>
  PROVE  WriteMoves(s)
<1>1. /\ send'[s] = outcome /\ result' = result
      /\ \A t \in Session : t # s => send'[t] = send[t]
  BY DEF Complete, TypeOK
<1>2. CASE listener[s] = "waiting"
  <2>1. Listen(s, outcome)
    BY <1>2 DEF Complete
  <2> QED
    BY <1>1, <1>2, <2>1, ListenHears DEF WriteMoves, Only
<1>3. CASE listener[s] # "waiting"
  BY <1>1, <1>3 DEF Complete, WriteMoves, Only
<1> QED
  BY <1>2, <1>3

\* A write that its event loop gets to.
LEMMA AttemptMoves ==
  ASSUME TypeOK, NEW s \in Session, Attempt(s),
         send[s] \notin Finished, ~Adding(loopOf[s]) \/ listener[s] # "waiting",
         UNCHANGED <<loopOf, call>>
  PROVE  WriteMoves(s)
<1>1. CASE /\ send' = [send EXCEPT ![s] = "buffered"]
           /\ UNCHANGED <<listener, before, result>>
  BY <1>1 DEF TypeOK, WriteMoves, Only, Finished
<1>2. CASE \E outcome \in Finished : Complete(s, outcome)
  BY <1>2, CompleteMoves
<1> QED
  BY <1>1, <1>2 DEF Attempt, Finished

\* A write that starts: it has no listener yet.
LEMMA StartMoves ==
  ASSUME TypeOK, NEW s \in Session, StartWrite(s), ~Written(s), listener[s] = "none",
         UNCHANGED <<loopOf, call>>
  PROVE  WriteMoves(s)
<1>1. send[s] \notin Finished
  BY DEF Written, Finished
<1>2. CASE OnLoop(s)
  BY <1>1, <1>2, AttemptMoves DEF StartWrite
<1>3. CASE ~OnLoop(s)
  BY <1>1, <1>3 DEF StartWrite, TypeOK, WriteMoves, Only
<1> QED
  BY <1>2, <1>3

\* A listener that is added.
LEMMA BindMoves ==
  ASSUME TypeOK, NEW s \in Session, BindListener(s), CallerFree, UNCHANGED <<loopOf, call>>
  PROVE  ListenerMoves(s)
<1>1. CASE send[s] \in Finished /\ OnLoop(s)
  <2>1. ~Adding(loopOf[s])
    BY <1>1, BroadcastAssumption DEF CallerFree, OnLoop, TypeOK
  <2>2. Listen(s, send[s]) /\ UNCHANGED <<send, result>>
    BY <1>1 DEF BindListener
  <2> QED
    BY <1>1, <2>1, <2>2, ListenHears DEF ListenerMoves, Only
<1>2. CASE ~(send[s] \in Finished /\ OnLoop(s))
  BY <1>2 DEF BindListener, TypeOK, ListenerMoves, Only
<1> QED
  BY <1>1, <1>2

\* A step of the caller writes to one channel it visits, adds the listener of
\* one, or leaves the futures alone.
LEMMA CallerMoves ==
  ASSUME BroadcastInv, CallerStep
  PROVE  /\ UNCHANGED <<loopOf, call>>
         /\ UNCHANGED groupVars
         /\ \/ Still /\ (step' = "report" => CallerFree)
            \/ \E s \in todo : /\ step = "write" /\ step' # "report" /\ WriteMoves(s)
                               /\ listener'[s] = "none"
            \/ \E s \in todo : step = "listen" /\ step' # "report" /\ ListenerMoves(s)
<1>0. TypeOK
  BY DEF BroadcastInv
<1>1. CASE Enter
  BY <1>1 DEF Enter, Still
<1>2. CASE StopWriting \/ AllSent
  BY <1>2 DEF StopWriting, AllSent, Still
<1>3. CASE ProcessingResults
  BY <1>3 DEF ProcessingResults, Still
<1>4. ASSUME NEW s \in Session, WriteToMember(s) \/ WriteToSome(s)
      PROVE  \/ Still /\ step' # "report"
             \/ s \in todo /\ step = "write" /\ step' # "report" /\ WriteMoves(s)
                  /\ listener'[s] = "none"
  <2>1. /\ s \in todo /\ step = "write" /\ step' # "report" /\ UNCHANGED <<loopOf, call>>
        /\ UNCHANGED futureVars \/ StartWrite(s)
    BY <1>4 DEF WriteToMember, WriteToSome
  <2>2. ~Written(s) /\ listener[s] = "none"
    BY <2>1 DEF BroadcastInv, VisitedInOrder, ToVisit
  <2>3. CASE UNCHANGED futureVars
    BY <2>1, <2>3 DEF Still
  <2>4. CASE StartWrite(s)
    <3>1. WriteMoves(s)
      BY <1>0, <2>1, <2>2, <2>4, StartMoves
    <3>2. listener'[s] = "none"
      BY <2>2, <3>1 DEF WriteMoves
    <3> QED
      BY <2>1, <3>1, <3>2
  <2> QED
    BY <2>1, <2>3, <2>4
<1>5. ASSUME NEW s \in Session, ListenToMember(s) \/ ListenToSome(s)
      PROVE  s \in todo /\ step = "listen" /\ step' # "report" /\ ListenerMoves(s)
  <2>1. /\ s \in todo /\ step = "listen" /\ step' # "report" /\ UNCHANGED <<loopOf, call>>
        /\ CallerFree /\ BindListener(s)
    BY <1>5 DEF ListenToMember, ListenToSome
  <2> QED
    BY <1>0, <2>1, BindMoves
<1>6. UNCHANGED <<loopOf, call>> /\ UNCHANGED groupVars
  BY DEF CallerStep, Enter, StopWriting, AllSent, ProcessingResults, WriteToMember,
     WriteToSome, ListenToMember, ListenToSome
<1> QED
  BY <1>1, <1>2, <1>3, <1>4, <1>5, <1>6 DEF CallerStep

\* A step of an event loop, of the network or of another thread moves one
\* future at most, and none on the event loop the caller is running on.
LEMMA LoopMoves ==
  ASSUME BroadcastInv, NEW s \in Session, LoopTask(s) \/ Flush(s) \/ Close(s) \/ Leave(s)
  PROVE  /\ UNCHANGED callerVars
         /\ \A g \in Group : /\ channelGroup'[g] \subseteq channelGroup[g]
                             /\ channelIdGroupSession'[g] \subseteq channelIdGroupSession[g]
         /\ \/ Still
            \/ WriteMoves(s) /\ Written(s) /\ LoopFree(s)
            \/ ListenerMoves(s) /\ listener[s] = "task" /\ LoopFree(s)
                 /\ listener'[s] \in {"adding", "done"}
            \/ AppendMoves(s)
<1> USE DEF callerVars, futureVars, groupVars, collections
<1>0. TypeOK
  BY DEF BroadcastInv
<1>1. CASE RunWrite(s)
  <2>1. /\ send[s] = "task" /\ LoopFree(s) /\ Attempt(s) /\ UNCHANGED callerVars
        /\ UNCHANGED groupVars
    BY <1>1 DEF RunWrite
  <2>2. send[s] \notin Finished /\ Written(s) /\ ~Adding(loopOf[s])
    BY <2>1 DEF Finished, Written, LoopFree
  <2> QED
    BY <1>0, <2>1, <2>2, AttemptMoves
<1>2. CASE RunListener(s)
  <2>1. /\ listener[s] = "task" /\ LoopFree(s) /\ Listen(s, send[s]) /\ UNCHANGED callerVars
        /\ UNCHANGED groupVars /\ UNCHANGED <<send, result>> /\ ~Adding(loopOf[s])
    BY <1>2 DEF RunListener, LoopFree
  <2>2. send[s] \in Finished
    BY <2>1 DEF BroadcastInv, Heard
  <2>3. /\ Hears(s, send[s])
        /\ \A t \in Session : t # s => listener'[t] = listener[t] /\ before'[t] = before[t]
    BY <1>0, <2>1, <2>2, ListenHears
  <2>4. ListenerMoves(s) /\ listener'[s] \in {"adding", "done"}
    BY <2>1, <2>2, <2>3 DEF ListenerMoves, Only, Hears
  <2> QED
    BY <2>1, <2>4
<1>3. CASE Appended(s)
  BY <1>0, <1>3 DEF Appended, AppendMoves, Only, TypeOK
<1>4. CASE Flush(s)
  <2>1. /\ send[s] = "buffered" /\ LoopFree(s) /\ Complete(s, "ok") /\ UNCHANGED callerVars
        /\ UNCHANGED groupVars /\ "ok" \in Finished
    BY <1>4 DEF Flush, Finished
  <2>2. send[s] \notin Finished /\ Written(s) /\ ~Adding(loopOf[s])
    BY <2>1 DEF Finished, Written, LoopFree
  <2> QED
    BY <1>0, <2>1, <2>2, CompleteMoves
<1>5. CASE Close(s)
  <2>1. /\ UNCHANGED callerVars
        /\ \A g \in Group : /\ channelGroup'[g] \subseteq channelGroup[g]
                            /\ channelIdGroupSession'[g] \subseteq channelIdGroupSession[g]
    BY <1>0, <1>5 DEF Close, DropFromChannelGroups, TypeOK, GroupTypeOK
  <2>2. CASE send[s] = "buffered"
    <3>1. LoopFree(s) /\ Complete(s, "failed") /\ "failed" \in Finished
      BY <1>5, <2>2 DEF Close, Finished
    <3>2. send[s] \notin Finished /\ Written(s) /\ ~Adding(loopOf[s])
      BY <2>2, <3>1 DEF Finished, Written, LoopFree
    <3> QED
      BY <1>0, <2>1, <3>1, <3>2, CompleteMoves
  <2>3. CASE send[s] # "buffered"
    BY <1>5, <2>1, <2>3 DEF Close, Still
  <2> QED
    BY <2>2, <2>3
<1>6. CASE Leave(s)
  <2>1. UNCHANGED callerVars /\ Still
    BY <1>6 DEF Leave, Still
  <2>2. \A g \in Group : /\ channelGroup'[g] \subseteq channelGroup[g]
                         /\ channelIdGroupSession'[g] \subseteq channelIdGroupSession[g]
    BY <1>0, <1>6, BroadcastAssumption DEF Leave, RemoveSession, RemoveChannel,
       RemoveChannelId, TypeOK, GroupTypeOK
  <2> QED
    BY <2>1, <2>2
<1> QED
  BY <1>1, <1>2, <1>3, <1>4, <1>5, <1>6 DEF LoopTask

-----------------------------------------------------------------------------
(* The parts of the invariant.                                             *)

\* What moves of the futures keep of the types.
FutureTypeOK ==
    /\ send \in [Session -> {"none", "task", "buffered"} \cup Finished]
    /\ listener \in [Session -> {"none", "waiting", "task", "adding", "done"}]
    /\ result \in SUBSET (Session \cup {None})
    /\ before \in [Session -> SUBSET (Session \cup {None})]

\* What an append leaves: nothing new but s and a null; without an overlap
\* all there was and s; with one at least what stayed from beginning to end.
LEMMA AfterAddBounds ==
  ASSUME NEW s \in Session, NEW left \in AfterAdd(s)
  PROVE  /\ left \subseteq result \cup before[s] \cup {s, None}
         /\ result \cap before[s] \subseteq left
         /\ ~Overlapped(s) => left = result \cup {s}
<1>1. CASE ~Overlapped(s)
  BY <1>1 DEF AfterAdd
<1>2. CASE Overlapped(s)
  <2> DEFINE stay == result \cap before[s]
             may == (result \cup before[s] \cup {s, None}) \ stay
  <2>1. PICK n \in SUBSET may : left = stay \cup n
    BY <1>2 DEF AfterAdd
  <2> QED
    BY <1>2, <2>1
<1> QED
  BY <1>1, <1>2

\* The futures keep their types.
LEMMA FutureTypes ==
  ASSUME TypeOK, [Next]_vars PROVE FutureTypeOK'
<1> USE DEF FutureTypeOK, Finished
<1>1. ASSUME NEW s \in Session, NEW outcome \in Finished, Listen(s, outcome)
      PROVE  /\ listener' \in [Session -> {"none", "waiting", "task", "adding", "done"}]
             /\ before' \in [Session -> SUBSET (Session \cup {None})]
  BY <1>1 DEF Listen, TypeOK, Visible
<1>2. ASSUME NEW s \in Session, NEW outcome \in Finished, Complete(s, outcome)
      PROVE  FutureTypeOK'
  BY <1>1, <1>2 DEF Complete, TypeOK
<1>3. ASSUME NEW s \in Session, Attempt(s) PROVE FutureTypeOK'
  <2>1. CASE /\ send' = [send EXCEPT ![s] = "buffered"]
             /\ UNCHANGED <<listener, before, result>>
    BY <2>1 DEF TypeOK
  <2>2. CASE \E outcome \in Finished : Complete(s, outcome)
    BY <1>2, <2>2
  <2> QED
    BY <1>3, <2>1, <2>2 DEF Attempt
<1>4. ASSUME NEW s \in Session, StartWrite(s) PROVE FutureTypeOK'
  BY <1>3, <1>4 DEF StartWrite, TypeOK
<1>5. ASSUME NEW s \in Session, BindListener(s) PROVE FutureTypeOK'
  BY <1>1, <1>5 DEF BindListener, TypeOK
<1>6. CASE UNCHANGED futureVars
  BY <1>6 DEF futureVars, TypeOK
<1>7. CASE CallerStep
  BY <1>4, <1>5, <1>6, <1>7 DEF CallerStep, Enter, StopWriting, AllSent, ProcessingResults,
     WriteToMember, WriteToSome, ListenToMember, ListenToSome
<1>8. ASSUME NEW s \in Session, RunListener(s) PROVE FutureTypeOK'
  BY <1>8, <1>1 DEF RunListener, Listen, TypeOK
<1>9. ASSUME NEW s \in Session, Appended(s) PROVE FutureTypeOK'
  <2>1. result' \subseteq result \cup before[s] \cup {s, None}
    BY <1>9, AfterAddBounds DEF Appended
  <2> QED
    BY <1>9, <2>1 DEF Appended, TypeOK
<1>10. ASSUME NEW s \in Session, RunWrite(s) \/ Flush(s) \/ Close(s) \/ Leave(s)
       PROVE  FutureTypeOK'
  BY <1>2, <1>3, <1>6, <1>10 DEF RunWrite, Flush, Close, Leave
<1>11. CASE UNCHANGED vars
  BY <1>6, <1>11 DEF vars
<1> QED
  BY <1>7, <1>8, <1>9, <1>10, <1>11 DEF Next, LoopTask

\* Every step keeps the types.
LEMMA StepTypes ==
  ASSUME TypeOK, [Next]_vars PROVE TypeOK'
<1>1. FutureTypeOK'
  BY FutureTypes
<1>2. GroupTypeOK'
  <2>1. CASE UNCHANGED groupVars
    BY <2>1 DEF TypeOK, GroupTypeOK, groupVars, collections
  <2>2. ASSUME NEW s \in Session, Close(s) PROVE GroupTypeOK'
    BY <2>2 DEF Close, DropFromChannelGroups, TypeOK, GroupTypeOK
  <2>3. ASSUME NEW s \in Session, Leave(s) PROVE GroupTypeOK'
    <3>1. GroupTypeOK /\ UNCHANGED <<idOf, closed>> /\ idOf[s] \in Id /\ room \in Group
      BY <2>3, BroadcastAssumption DEF Leave, TypeOK, GroupTypeOK
    <3>2. CASE RemoveSession(room, idOf[s])
      BY <3>1, <3>2 DEF RemoveSession, GroupTypeOK
    <3>3. CASE RemoveChannel(room, s) \/ RemoveChannelId(room, s)
      BY <3>1, <3>3 DEF RemoveChannel, RemoveChannelId, GroupTypeOK
    <3> QED
      BY <2>3, <3>2, <3>3 DEF Leave
  <2> QED
    BY <2>1, <2>2, <2>3 DEF Next, LoopTask, CallerStep, Enter, StopWriting, AllSent,
       ProcessingResults, WriteToMember, WriteToSome, ListenToMember, ListenToSome, RunWrite,
       RunListener, Appended, Flush, vars
<1>3. /\ loopOf' \in [Session -> Loops] /\ call' \in Call
      /\ step' \in {"called", "write", "listen", "report", "returned"}
      /\ todo' \in SUBSET Session
      /\ answer' \in {"none", "success", "failed"}
  <2>1. CASE UNCHANGED callerVars
    BY <2>1 DEF TypeOK, callerVars
  <2>2. CASE CallerStep
    <3>1. loopOf' = loopOf /\ call' = call
      BY <2>2 DEF CallerStep, Enter, StopWriting, AllSent, ProcessingResults,
         WriteToMember, WriteToSome, ListenToMember, ListenToSome
    <3>2. step' \in {"called", "write", "listen", "report", "returned"}
      BY <2>2 DEF TypeOK, CallerStep, Enter, StopWriting, AllSent, ProcessingResults,
         WriteToMember, WriteToSome, ListenToMember, ListenToSome
    <3>3. todo' \in SUBSET Session
      BY <2>2, BroadcastAssumption DEF TypeOK, GroupTypeOK, CallerStep, Enter, StopWriting,
         AllSent, ProcessingResults, WriteToMember, WriteToSome, ListenToMember, ListenToSome
    <3>4. answer' \in {"none", "success", "failed"}
      BY <2>2 DEF TypeOK, CallerStep, Enter, StopWriting, AllSent, ProcessingResults,
         WriteToMember, WriteToSome, ListenToMember, ListenToSome
    <3> QED
      BY <3>1, <3>2, <3>3, <3>4 DEF TypeOK
  <2> QED
    BY <2>1, <2>2 DEF Next, LoopTask, RunWrite, RunListener, Appended, Flush, Close, Leave,
       vars
<1>4. leaving' \in [Session -> 0..3]
  BY DEF TypeOK, Next, LoopTask, CallerStep, Enter, StopWriting, AllSent,
     ProcessingResults, WriteToMember, WriteToSome, ListenToMember, ListenToSome, RunWrite,
     RunListener, Appended, Flush, Close, Leave, vars
<1> QED
  BY <1>1, <1>2, <1>3, <1>4 DEF TypeOK, FutureTypeOK

\* Where the futures are left alone, or one of them moves.
LEMMA Moves ==
  ASSUME BroadcastInv, [Next]_vars
  PROVE  /\ UNCHANGED <<loopOf, call>>
         /\ \A g \in Group : /\ channelGroup'[g] \subseteq channelGroup[g]
                             /\ channelIdGroupSession'[g] \subseteq channelIdGroupSession[g]
         /\ step' = "report" => step = "report" \/ CallerFree
         /\ \/ Still
            \/ \E s \in Session :
                 \/ /\ WriteMoves(s) \/ ListenerMoves(s)
                    /\ OnLoop(s) => step # "report" /\ step' # "report"
                 \/ AppendMoves(s)
<1>1. CASE CallerStep
  <2>1. /\ UNCHANGED <<loopOf, call>> /\ UNCHANGED groupVars
        /\ \/ Still /\ (step' = "report" => CallerFree)
           \/ \E s \in todo : /\ step = "write" /\ step' # "report" /\ WriteMoves(s)
                              /\ listener'[s] = "none"
           \/ \E s \in todo : step = "listen" /\ step' # "report" /\ ListenerMoves(s)
    BY <1>1, CallerMoves
  <2>2. todo \subseteq Session
    BY DEF BroadcastInv, TypeOK
  <2>3. \A g \in Group : /\ channelGroup'[g] \subseteq channelGroup[g]
                         /\ channelIdGroupSession'[g] \subseteq channelIdGroupSession[g]
    BY <2>1 DEF groupVars, collections
  <2> QED
    BY <2>1, <2>2, <2>3
<1>2. ASSUME NEW s \in Session, LoopTask(s) \/ Flush(s) \/ Close(s) \/ Leave(s)
      PROVE  /\ UNCHANGED callerVars
             /\ \A g \in Group : /\ channelGroup'[g] \subseteq channelGroup[g]
                                 /\ channelIdGroupSession'[g] \subseteq channelIdGroupSession[g]
             /\ \/ Still
                \/ /\ WriteMoves(s) \/ ListenerMoves(s)
                   /\ OnLoop(s) => step # "report" /\ step' # "report"
                \/ AppendMoves(s)
  <2>1. LoopFree(s) => (OnLoop(s) => step # "report")
    BY DEF LoopFree, OnLoop
  <2>2. /\ UNCHANGED callerVars
        /\ \A g \in Group : /\ channelGroup'[g] \subseteq channelGroup[g]
                            /\ channelIdGroupSession'[g] \subseteq channelIdGroupSession[g]
        /\ \/ Still
           \/ WriteMoves(s) /\ Written(s) /\ LoopFree(s)
           \/ ListenerMoves(s) /\ listener[s] = "task" /\ LoopFree(s)
                /\ listener'[s] \in {"adding", "done"}
           \/ AppendMoves(s)
    BY <1>2, LoopMoves
  <2> QED
    BY <2>1, <2>2 DEF callerVars
<1>3. CASE UNCHANGED vars
  BY <1>3 DEF vars, callerVars, groupVars, collections, Still
<1>4. UNCHANGED callerVars => UNCHANGED <<loopOf, call, step>>
  BY DEF callerVars
<1> QED
  BY <1>1, <1>2, <1>3, <1>4 DEF Next

\* A write never goes back.
LEMMA WrittenStays ==
  ASSUME BroadcastInv, [Next]_vars
  PROVE  \A s \in Session : /\ Written(s) => Written(s)'
                            /\ send[s] \in Finished => send'[s] = send[s]
<1>1. CASE Still
  BY <1>1 DEF Still, futureVars, Written
<1>2. ASSUME NEW s \in Session, WriteMoves(s) \/ ListenerMoves(s) \/ AppendMoves(s)
      PROVE  \A t \in Session : /\ Written(t) => Written(t)'
                                /\ send[t] \in Finished => send'[t] = send[t]
  BY <1>2 DEF WriteMoves, ListenerMoves, AppendMoves, Only, Written, Finished
<1> QED
  BY <1>1, <1>2, Moves

\* A listener is told of what has become of its write.
LEMMA HeardKept ==
  ASSUME BroadcastInv, [Next]_vars, NEW t \in Session
  PROVE  Heard(t)'
<1>0. /\ Heard(t) /\ UNCHANGED <<loopOf, call>> /\ OnLoop(t)' = OnLoop(t)
      /\ step' = "report" => step = "report" \/ CallerFree
      /\ CallerFree /\ OnLoop(t) => listener[t] # "adding"
  <2>1. UNCHANGED <<loopOf, call>> /\ (step' = "report" => step = "report" \/ CallerFree)
    BY Moves
  <2>2. CallerFree /\ OnLoop(t) => listener[t] # "adding"
    BY BroadcastAssumption DEF CallerFree, OnLoop, Adding, BroadcastInv, TypeOK
  <2> QED
    BY <2>1, <2>2 DEF BroadcastInv, OnLoop
<1>1. ASSUME send'[t] = send[t], listener'[t] = listener[t] PROVE Heard(t)'
  BY <1>0, <1>1 DEF Heard, Failed
<1>2. ASSUME WriteMoves(t), OnLoop(t) => step # "report" /\ step' # "report" PROVE Heard(t)'
  <2>1. send[t] \notin Finished => listener[t] \notin {"task", "adding", "done"}
    BY <1>0 DEF Heard
  <2> QED
    BY <1>0, <1>2, <2>1 DEF WriteMoves, Hears, Heard, Failed, Finished
<1>3. ASSUME ListenerMoves(t), OnLoop(t) => step # "report" /\ step' # "report" PROVE Heard(t)'
  BY <1>0, <1>3 DEF ListenerMoves, Hears, Heard, Failed, Finished
<1>4. ASSUME AppendMoves(t) PROVE Heard(t)'
  BY <1>0, <1>4 DEF AppendMoves, Heard, Failed, Finished
<1>5. ASSUME NEW s \in Session, WriteMoves(s) \/ ListenerMoves(s) \/ AppendMoves(s), s # t
      PROVE  send'[t] = send[t] /\ listener'[t] = listener[t]
  BY <1>5 DEF WriteMoves, ListenerMoves, AppendMoves, Only
<1>6. CASE Still
  BY <1>1, <1>6 DEF Still, futureVars
<1> QED
  BY <1>1, <1>2, <1>3, <1>4, <1>5, <1>6, Moves

\* An event loop runs one listener at a time.
LEMMA ListenersApart ==
  ASSUME BroadcastInv, [Next]_vars PROVE OneListenerPerLoop'
<1>0. OneListenerPerLoop /\ UNCHANGED loopOf
  BY Moves DEF BroadcastInv
<1>1. CASE Still
  BY <1>0, <1>1 DEF Still, futureVars, OneListenerPerLoop
<1>2. ASSUME NEW s \in Session, WriteMoves(s) \/ ListenerMoves(s) \/ AppendMoves(s)
      PROVE  OneListenerPerLoop'
  <2>1. \A t \in Session : t # s => listener'[t] = listener[t]
    BY <1>2 DEF WriteMoves, ListenerMoves, AppendMoves, Only
  <2>2. listener'[s] = "adding" => listener[s] = "adding" \/ ~Adding(loopOf[s])
    BY <1>2 DEF WriteMoves, ListenerMoves, AppendMoves, Hears
  <2> QED
    BY <1>0, <2>1, <2>2 DEF OneListenerPerLoop, Adding
<1> QED
  BY <1>1, <1>2, Moves

\* An append that overlaps another, or finds the list changed: another event
\* loop has had a failure.
LEMMA OverlapExcuses ==
  ASSUME BroadcastInv, NEW s \in Session, listener[s] = "adding", Overlapped(s)
  PROVE  Excused(s)
<1>0. /\ TypeOK /\ Nulls /\ OneListenerPerLoop /\ Failed(s)
      /\ \A t \in Session : Heard(t) /\ Appends(t)
  BY DEF BroadcastInv, Heard
<1>1. CASE \E t \in Session \ {s} : listener[t] = "adding"
  BY <1>0, <1>1 DEF OneListenerPerLoop, Heard, Excused
<1>2. CASE TwoLoopsFailed
  BY <1>2 DEF TwoLoopsFailed, Excused
<1>3. ASSUME NEW x \in Session, (x \in result) # (x \in before[s]) PROVE Excused(s)
  <2>1. Excused(x) /\ Failed(x)
    BY <1>0, <1>3 DEF Appends
  <2> QED
    BY <2>1 DEF Excused
<1>4. CASE result # before[s]
  <2>1. PICK x : (x \in result) # (x \in before[s])
    BY <1>4
  <2>2. x \in Session \cup {None}
    BY <1>0, <2>1 DEF TypeOK
  <2>3. x = None => TwoLoopsFailed
    BY <1>0, <2>1 DEF Nulls
  <2> QED
    BY <1>2, <1>3, <2>1, <2>2, <2>3
<1> QED
  BY <1>1, <1>4 DEF Overlapped

\* The list lacks a failure only where another event loop had one: an append
\* leaves what stayed in the list from its beginning to its end, which on one
\* event loop is all there was.
LEMMA AppendsKept ==
  ASSUME BroadcastInv, [Next]_vars, NEW x \in Session
  PROVE  Appends(x)'
<1>0. /\ TypeOK /\ Appends(x) /\ UNCHANGED <<loopOf, call>> /\ OneListenerPerLoop
      /\ \A t \in Session : Heard(t) /\ Appends(t)
      /\ x \in channelIdGroupSession'[room] => x \in channelIdGroupSession[room]
  BY Moves, BroadcastAssumption DEF BroadcastInv
<1>1. \A t \in Session : Failed(t) => Failed(t)'
  BY WrittenStays DEF Failed, Finished
<1>2. Excused(x) => Excused(x)'
  BY <1>0, <1>1 DEF Excused
<1>3. CASE Still
  BY <1>0, <1>3 DEF Still, futureVars, Appends, Failed, Excused, Broadcasting
<1>4. ASSUME NEW s \in Session, WriteMoves(s) \/ ListenerMoves(s) PROVE Appends(x)'
  <2>0. /\ result' = result /\ Only(s)
        /\ \/ listener'[s] \notin {"adding", "done"} /\ before'[s] = before[s]
           \/ listener'[s] = listener[s] /\ before'[s] = before[s]
                /\ (Failed(s)' => Failed(s) \/ listener[s] # "done")
           \/ listener'[s] = "adding" /\ before'[s] \in Visible(loopOf[s]) /\ Failed(s)'
           \/ listener'[s] = "done" /\ before'[s] = before[s]
                /\ (Failed(s)' => Broadcasting /\ s \notin channelIdGroupSession[room])
    <3>1. CASE WriteMoves(s)
      <4>1. listener[s] # "done"
        BY <1>0, <3>1 DEF WriteMoves, Heard
      <4> QED
        BY <3>1, <4>1 DEF WriteMoves, Hears, Failed
    <3>2. CASE ListenerMoves(s)
      BY <3>2 DEF ListenerMoves, Hears, Failed
    <3> QED
      BY <1>4, <3>1, <3>2
  <2>1. x \in result' => Failed(x)'
    BY <1>0, <1>1, <2>0 DEF Appends
  <2>2. Failed(x)' /\ x # s => Failed(x)
    BY <2>0 DEF Only, Failed
  <2>3. ASSUME Failed(x)', listener'[x] = "done",
               Broadcasting' => x \in channelIdGroupSession'[room]
        PROVE  x \in result' \/ Excused(x)'
    <3>0. Broadcasting' = Broadcasting
      BY <1>0 DEF Broadcasting
    <3>1. Failed(x) /\ listener[x] = "done"
      <4>1. CASE x # s
        BY <2>0, <2>2, <2>3, <4>1 DEF Only
      <4>2. CASE x = s
        BY <1>0, <2>0, <2>3, <3>0, <4>2
      <4> QED
        BY <4>1, <4>2
    <3> QED
      BY <1>0, <1>2, <2>0, <2>3, <3>0, <3>1 DEF Appends
  <2>4. before'[s] = before[s] \/ before'[s] \subseteq result
    BY <2>0 DEF Visible
  <2>5. ASSUME NEW t \in Session PROVE x \in before'[t] => Failed(x)'
    <3>1. before'[t] = before[t] \/ before'[t] \subseteq result
      <4>1. CASE t = s
        BY <2>4, <4>1
      <4>2. CASE t # s
        BY <2>0, <4>2 DEF Only
      <4> QED
        BY <4>1, <4>2
    <3> QED
      BY <1>0, <1>1, <3>1 DEF Appends
  <2>6. ASSUME NEW t \in Session, listener'[t] = "adding",
               (x \in result') # (x \in before'[t])
        PROVE  Excused(x)'
    <3>1. CASE t # s \/ (before'[s] = before[s] /\ listener[s] = "adding")
      <4>1. before'[t] = before[t] /\ listener[t] = "adding"
        BY <2>0, <2>6, <3>1 DEF Only
      <4> QED
        BY <1>0, <1>2, <2>0, <2>6, <4>1 DEF Appends
    <3>2. CASE t = s /\ before'[s] \in Visible(loopOf[s]) /\ Failed(s)'
      <4>1. x \in result /\ loopOf[x] # loopOf[s]
        BY <1>0, <2>0, <2>6, <3>2, NoneAssumption DEF Visible
      <4> QED
        BY <1>0, <3>2, <4>1 DEF Excused
    <3> QED
      BY <2>0, <2>6, <3>1, <3>2
  <2> QED
    BY <2>1, <2>3, <2>5, <2>6 DEF Appends
<1>5. ASSUME NEW s \in Session, AppendMoves(s) PROVE Appends(x)'
  <2>0. /\ Only(s) /\ send' = send /\ before' = before
        /\ listener[s] = "adding" /\ listener'[s] = "done"
        /\ result' \in AfterAdd(s) /\ Failed(s)
    BY <1>0, <1>5 DEF AppendMoves, Heard
  <2>1. Failed(x)' = Failed(x) /\ x # None
    BY <2>0, NoneAssumption DEF Failed
  <2>2. /\ x \in result' => x \in result \/ x \in before[s] \/ x = s
        /\ x \in result /\ x \in before[s] => x \in result'
        /\ ~Overlapped(s) => result' = result \cup {s}
    BY <2>0, <2>1, AfterAddBounds
  <2>3. x \in result' => Failed(x)'
    BY <1>0, <2>0, <2>1, <2>2 DEF Appends
  \* An element that comes or goes by an append that overlaps another.
  <2>4. ASSUME x = s, Overlapped(s) PROVE Excused(s)
    BY <1>0, <2>0, <2>4, OverlapExcuses
  <2>5. ASSUME Failed(x)', listener'[x] = "done",
               Broadcasting' => x \in channelIdGroupSession'[room], x \notin result'
        PROVE  Excused(x)'
    <3>1. CASE x = s
      BY <1>2, <2>2, <2>4, <2>5, <3>1
    <3>2. CASE x # s
      <4>1. Failed(x) /\ listener[x] = "done"
        BY <2>0, <2>1, <2>5, <3>2 DEF Only
      <4>2. Broadcasting' = Broadcasting
        BY <1>0 DEF Broadcasting
      <4>3. x \in result \/ Excused(x)
        BY <1>0, <2>5, <4>1, <4>2 DEF Appends
      <4>4. x \in result => x \notin before[s]
        BY <2>2, <2>5
      <4>5. x \in result => Excused(x)
        BY <1>0, <2>0, <4>4 DEF Appends
      <4> QED
        BY <1>2, <4>3, <4>5
    <3> QED
      BY <3>1, <3>2
  <2>6. ASSUME NEW t \in Session, listener'[t] = "adding",
               (x \in result') # (x \in before'[t])
        PROVE  Excused(x)'
    <3>1. t # s /\ listener[t] = "adding" /\ before'[t] = before[t] /\ Failed(t)
      BY <1>0, <2>0, <2>6 DEF Only, Heard
    <3>2. loopOf[s] # loopOf[t]
      BY <1>0, <2>0, <3>1 DEF OneListenerPerLoop
    <3>3. loopOf[x] # loopOf[s] \/ loopOf[x] # loopOf[t]
      BY <3>2
    <3>4. Excused(x)
      BY <2>0, <3>1, <3>3 DEF Excused
    <3> QED
      BY <1>2, <3>4
  <2> QED
    BY <1>0, <2>0, <2>1, <2>3, <2>5, <2>6 DEF Appends
<1> QED
  BY <1>3, <1>4, <1>5, Moves

\* A null comes only from appends of two event loops, and a listener finds
\* only the null that is there.
LEMMA NullsKept == ASSUME BroadcastInv, [Next]_vars PROVE Nulls'
<1>0. /\ TypeOK /\ Nulls /\ UNCHANGED loopOf
      /\ \A t \in Session : Heard(t) /\ Appends(t)
  BY Moves DEF BroadcastInv
<1>1. TwoLoopsFailed => TwoLoopsFailed'
  BY <1>0, WrittenStays DEF TwoLoopsFailed, Failed, Finished
<1>2. CASE Still
  BY <1>0, <1>1, <1>2 DEF Still, futureVars, Nulls
<1>3. ASSUME NEW s \in Session, WriteMoves(s) \/ ListenerMoves(s) PROVE Nulls'
  <2>1. result' = result /\ \A t \in Session : before'[t] = before[t] \/ before'[t] \subseteq result
    BY <1>3 DEF WriteMoves, ListenerMoves, Only, Hears, Visible
  <2> QED
    BY <1>0, <1>1, <2>1 DEF Nulls
<1>4. ASSUME NEW s \in Session, AppendMoves(s) PROVE Nulls'
  <2>1. /\ before' = before /\ listener[s] = "adding" /\ result' \in AfterAdd(s) /\ Failed(s)
    BY <1>0, <1>4 DEF AppendMoves, Heard
  <2>2. CASE Overlapped(s)
    <3>1. Excused(s) \/ TwoLoopsFailed
      BY <1>0, <2>1, <2>2, OverlapExcuses
    <3>2. TwoLoopsFailed
      BY <2>1, <3>1 DEF Excused, TwoLoopsFailed
    <3> QED
      BY <1>1, <3>2 DEF Nulls
  <2>3. CASE ~Overlapped(s)
    <3>1. result' = result \cup {s} /\ s # None
      BY <2>1, <2>3, AfterAddBounds, NoneAssumption
    <3> QED
      BY <1>0, <1>1, <2>1, <3>1 DEF Nulls
  <2> QED
    BY <2>2, <2>3
<1> QED
  BY <1>2, <1>3, <1>4, Moves

\* The members of the group that stay are visited, one after the other.
LEMMA MembersKept ==
  ASSUME BroadcastInv, [Next]_vars PROVE MembersAreVisited'
<1> DEFINE Served(s) == Excluded(s) \/ Written(s) \/ (step = "write" /\ s \in todo)
<1>0. /\ TypeOK /\ MembersAreVisited /\ UNCHANGED <<loopOf, call>>
      /\ channelGroup'[room] \subseteq channelGroup[room]
      /\ channelGroup[room] \subseteq Session
  BY Moves, BroadcastAssumption DEF BroadcastInv, TypeOK, GroupTypeOK
<1>1. \A s \in Session : /\ Excluded(s) => Excluded(s)'
                         /\ Written(s) => Written(s)'
  BY <1>0, WrittenStays DEF Excluded
<1>2. Broadcasting' = Broadcasting
  BY <1>0 DEF Broadcasting
<1>3. CASE UNCHANGED <<step, todo>>
  BY <1>0, <1>1, <1>2, <1>3 DEF MembersAreVisited
<1>4. CASE Enter
  BY <1>0, <1>2, <1>4 DEF Enter, MembersAreVisited, Broadcasting
<1>5. CASE StopWriting
  <2>1. \A s \in channelGroup[room] : Excluded(s) \/ Written(s)
    BY <1>0, <1>5 DEF StopWriting, MembersAreVisited, Broadcasting
  <2> QED
    BY <1>0, <1>1, <2>1 DEF MembersAreVisited
<1>6. CASE AllSent
  BY <1>0, <1>1, <1>2, <1>6 DEF AllSent, MembersAreVisited, Broadcasting
<1>7. CASE ProcessingResults
  BY <1>7 DEF ProcessingResults, MembersAreVisited
<1>8. ASSUME NEW s \in Session, WriteToMember(s) PROVE MembersAreVisited'
  <2>1. Written(s)' \/ Excluded(s)'
    <3>1. CASE Matches(s)
      <4>1. StartWrite(s) /\ step = "write" /\ s \in todo
        BY <1>8, <3>1 DEF WriteToMember
      <4>2. ~Written(s) /\ listener[s] = "none"
        BY <4>1 DEF BroadcastInv, VisitedInOrder, ToVisit
      <4>3. WriteMoves(s)
        BY <1>0, <4>1, <4>2, StartMoves
      <4> QED
        BY <4>3 DEF WriteMoves, Written, Finished
    <3>2. CASE ~Matches(s)
      <4>1. call.exclude # <<>> /\ Head(call.exclude) = s /\ call.exclude \in Seq(Session)
        BY <1>0, <1>8, <3>2, BroadcastAssumption DEF Matches, WriteToMember, TypeOK, Call,
           Broadcasts, Sends
      <4>2. 1 \in DOMAIN call.exclude /\ call.exclude[1] = s
        BY <4>1
      <4> QED
        BY <1>0, <4>2 DEF Excluded
    <3> QED
      BY <3>1, <3>2
  <2>2. Broadcasting /\ step = "write" /\ step' = "write" /\ todo' = todo \ {s}
    BY <1>8 DEF WriteToMember, Broadcasting
  <2>3. \A t \in channelGroup[room] : Served(t)
    BY <1>0, <2>2 DEF MembersAreVisited
  <2>4. \A t \in channelGroup'[room] : Excluded(t)' \/ Written(t)' \/ t \in todo'
    BY <1>0, <1>1, <2>1, <2>2, <2>3
  <2> QED
    BY <2>2, <2>4 DEF MembersAreVisited
<1>9. ASSUME NEW s \in Session, ListenToMember(s) PROVE MembersAreVisited'
  BY <1>0, <1>1, <1>2, <1>9 DEF ListenToMember, MembersAreVisited
<1>10. ASSUME NEW s \in Session, WriteToSome(s) \/ ListenToSome(s) PROVE MembersAreVisited'
  BY <1>0, <1>10 DEF WriteToSome, ListenToSome, MembersAreVisited, Broadcasting
<1>11. ASSUME NEW s \in Session, LoopTask(s) \/ Flush(s) \/ Close(s) \/ Leave(s)
       PROVE  UNCHANGED <<step, todo>>
  BY <1>11, LoopMoves DEF callerVars
<1>12. CASE UNCHANGED vars
  BY <1>3, <1>12 DEF vars, callerVars
<1> QED
  BY <1>3, <1>4, <1>5, <1>6, <1>7, <1>8, <1>9, <1>10, <1>11, <1>12 DEF Next, CallerStep

\* What the caller has visited has been written to and has its listener.
LEMMA OrderKept ==
  ASSUME BroadcastInv, [Next]_vars PROVE VisitedInOrder'
<1> USE DEF VisitedInOrder, OneAtATime, ToVisit, Written
<1>0. /\ TypeOK /\ VisitedInOrder /\ UNCHANGED <<loopOf, call>>
      /\ (Broadcasting <=> call.op = "sendBroadcast")
      /\ (~Broadcasting <=> call.op = "sendSome") /\ Broadcasting' = Broadcasting
      /\ step \in {"called", "write", "listen", "report", "returned"}
      /\ todo \in SUBSET Session
  BY Moves DEF BroadcastInv, TypeOK, Call, Broadcasts, Sends, Broadcasting
<1> HIDE DEF VisitedInOrder
<1>1. CASE UNCHANGED <<futureVars, step, todo>>
  BY <1>0, <1>1 DEF futureVars, VisitedInOrder
<1>2. CASE Enter
  BY <1>0, <1>2 DEF Enter, futureVars, VisitedInOrder
<1>3. CASE StopWriting
  BY <1>0, <1>3 DEF StopWriting, futureVars, VisitedInOrder
<1>4. CASE AllSent
  BY <1>0, <1>4 DEF AllSent, futureVars, VisitedInOrder
<1>5. CASE ProcessingResults
  BY <1>0, <1>5 DEF ProcessingResults, futureVars, VisitedInOrder
<1>6. ASSUME NEW s \in Session, WriteToMember(s) PROVE VisitedInOrder'
  <2>0. /\ s \in todo /\ step = "write" /\ step' = step /\ todo' = todo \ {s} /\ Broadcasting
    BY <1>6 DEF WriteToMember, Broadcasting
  <2>1. CASE Matches(s)
    <3>1. WriteMoves(s)
      BY <1>0, <1>6, <2>0, <2>1, StartMoves DEF WriteToMember, VisitedInOrder
    <3> QED
      BY <1>0, <2>0, <3>1 DEF WriteMoves, Only, VisitedInOrder
  <2>2. CASE ~Matches(s)
    BY <1>0, <1>6, <2>0, <2>2 DEF WriteToMember, futureVars, VisitedInOrder
  <2> QED
    BY <2>1, <2>2
<1>7. ASSUME NEW s \in Session, ListenToMember(s) PROVE VisitedInOrder'
  <2>0. /\ s \in todo /\ step = "listen" /\ step' = step /\ todo' = todo \ {s} /\ Broadcasting
        /\ ListenerMoves(s)
    BY <1>0, <1>7, BindMoves DEF ListenToMember, Broadcasting
  <2>1. Written(s)
    BY <1>0, <1>7, <2>0 DEF VisitedInOrder
  <2> QED
    BY <1>0, <2>0, <2>1 DEF ListenerMoves, Only, Hears, VisitedInOrder
<1>8. ASSUME NEW s \in Session, WriteToSome(s) PROVE VisitedInOrder'
  <2>0. s \in todo /\ step = "write" /\ ~Broadcasting
    BY <1>0, <1>8 DEF WriteToSome
  <2>1. CASE groupSession[room][idOf[s]] = s
    <3>1. WriteMoves(s) /\ step' = "listen" /\ todo' = todo
      BY <1>0, <1>8, <2>0, <2>1, StartMoves DEF WriteToSome, VisitedInOrder
    <3> QED
      BY <1>0, <2>0, <3>1 DEF WriteMoves, Only, VisitedInOrder
  <2>2. CASE groupSession[room][idOf[s]] # s
    BY <1>0, <1>8, <2>0, <2>2 DEF WriteToSome, futureVars, VisitedInOrder
  <2> QED
    BY <2>1, <2>2
<1>9. ASSUME NEW s \in Session, ListenToSome(s) PROVE VisitedInOrder'
  <2>0. /\ s \in todo /\ step = "listen" /\ step' = "write" /\ todo' = todo \ {s}
        /\ ~Broadcasting /\ Written(s) /\ ListenerMoves(s)
    BY <1>0, <1>9, BindMoves DEF ListenToSome
  <2> QED
    BY <1>0, <2>0 DEF ListenerMoves, Only, Hears, VisitedInOrder
<1>10. ASSUME NEW s \in Session, LoopTask(s) \/ Flush(s) \/ Close(s) \/ Leave(s)
       PROVE  VisitedInOrder'
  <2>0. /\ UNCHANGED <<step, todo>>
        /\ \/ Still
           \/ WriteMoves(s) /\ Written(s)
           \/ /\ ListenerMoves(s) /\ listener[s] = "task"
              /\ listener'[s] \in {"adding", "done"}
           \/ AppendMoves(s)
    BY <1>10, LoopMoves DEF callerVars
  <2>1. CASE Still
    BY <1>1, <2>0, <2>1 DEF Still
  <2>2. CASE ~Still
    <3>1. /\ \A t \in Session : t # s => send'[t] = send[t] /\ listener'[t] = listener[t]
          /\ Written(s) => Written(s)'
          /\ listener'[s] = "none" <=> listener[s] = "none"
          /\ Written(s)
      BY <1>0, <2>0, <2>2 DEF WriteMoves, ListenerMoves, AppendMoves, Only, Hears, Finished,
         VisitedInOrder
    <3> QED
      BY <1>0, <2>0, <3>1 DEF VisitedInOrder
  <2> QED
    BY <2>1, <2>2
<1>11. CASE UNCHANGED vars
  BY <1>1, <1>11 DEF vars, callerVars
<1> QED
  BY <1>2, <1>3, <1>4, <1>5, <1>6, <1>7, <1>8, <1>9, <1>10, <1>11 DEF Next, CallerStep

-----------------------------------------------------------------------------
\* Every step keeps the invariant, and a call begins with it.
LEMMA StepBroadcast == ASSUME BroadcastInv, [Next]_vars PROVE BroadcastInv'
<1>1. TypeOK'
  BY StepTypes DEF BroadcastInv
<1>2. MembersAreVisited' /\ VisitedInOrder' /\ OneListenerPerLoop' /\ Nulls'
  BY MembersKept, OrderKept, ListenersApart, NullsKept
<1>3. \A s \in Session : Heard(s)' /\ Appends(s)'
  BY HeardKept, AppendsKept
<1> QED
  BY <1>1, <1>2, <1>3 DEF BroadcastInv

LEMMA InitBroadcast == ASSUME Init PROVE BroadcastInv
<1>1. idOf \in [Session -> Id]
  <2>1. \E f \in [Session -> Id] : \A s, t \in Session : s # t => f[s] # f[t]
    BY BroadcastAssumption
  <2> QED
    BY <2>1 DEF Init
<1>2. \A i \in Id : (IF \E s \in Session : idOf[s] = i THEN CHOOSE s \in Session : idOf[s] = i
                     ELSE None) \in Session \cup {None}
  OBVIOUS
<1>3. GroupTypeOK
  BY <1>1, <1>2 DEF Init, GroupTypeOK
<1>4. TypeOK
  BY <1>3 DEF Init, TypeOK
<1>5. MembersAreVisited /\ VisitedInOrder /\ OneListenerPerLoop
  BY DEF Init, MembersAreVisited, VisitedInOrder, OneAtATime, ToVisit, Written,
     OneListenerPerLoop
<1>6. Nulls /\ \A s \in Session : Heard(s) /\ Appends(s)
  BY DEF Init, Heard, Appends, Failed, Finished, Nulls
<1> QED
  BY <1>4, <1>5, <1>6 DEF BroadcastInv

\* The invariant holds throughout a call.
THEOREM BroadcastInvariant == Spec => []BroadcastInv
<1>1. Init => BroadcastInv
  BY InitBroadcast
<1>2. BroadcastInv /\ [Next]_vars => BroadcastInv'
  BY StepBroadcast
<1> QED
  BY <1>1, <1>2, PTL DEF Spec

\* The collections of the group, the futures and the list of failures keep
\* their types, whatever racing appends leave in the list.
THEOREM BroadcastTypes == Spec => []TypeOK
<1>1. BroadcastInv => TypeOK
  BY DEF BroadcastInv
<1> QED
  BY <1>1, BroadcastInvariant, PTL

\* A broadcast writes to every member that stays and is not excluded, whatever
\* other channels close or leave while it runs.
THEOREM MembersAreServed == Spec => []AllMembersServed
<1>1. BroadcastInv => AllMembersServed
  BY DEF BroadcastInv, MembersAreVisited, AllMembersServed, Broadcasting, Written
<1> QED
  BY <1>1, BroadcastInvariant, PTL

\* A failure disappears from the unsynchronised list only through an append
\* of another event loop.
THEOREM FailuresLostToOtherLoops == Spec => []LostOnlyToAnotherLoop
<1>1. BroadcastInv => LostOnlyToAnotherLoop
  BY DEF BroadcastInv, Appends, Excused, Broadcasting, LostOnlyToAnotherLoop
<1> QED
  BY <1>1, BroadcastInvariant, PTL

\* A null among the sessions the callback is told of comes only from appends of
\* two event loops.
THEOREM NullsOnlyFromRaces == Spec => []NullOnlyFromRacingLoops
<1>1. BroadcastInv => NullOnlyFromRacingLoops
  BY DEF BroadcastInv, Nulls, NullOnlyFromRacingLoops
<1> QED
  BY <1>1, BroadcastInvariant, PTL

\* When all the members are on the caller's event loop, the list holds exactly
\* the failures of those that the listener looks up when the caller reads it.
LEMMA OwnListIsComplete ==
  ASSUME BroadcastInv, step = "report", \A s \in Session : OnLoop(s)
  PROVE  /\ result \subseteq {s \in Session : Failed(s)}
         /\ \A s \in Session :
              Failed(s) /\ (Broadcasting => s \in channelIdGroupSession[room]) => s \in result
<1>1. result \subseteq {s \in Session : Failed(s)}
  <2>1. ~TwoLoopsFailed
    BY DEF TwoLoopsFailed, OnLoop
  <2>2. None \notin result
    BY <2>1 DEF BroadcastInv, Nulls
  <2> QED
    BY <2>2 DEF BroadcastInv, Appends, TypeOK
<1>2. ASSUME NEW s \in Session, Failed(s), Broadcasting => s \in channelIdGroupSession[room]
      PROVE  s \in result
  <2>1. Written(s) /\ send[s] \in Finished
    BY <1>2 DEF Written, Failed, Finished
  <2>2. listener[s] # "none"
    BY <2>1 DEF BroadcastInv, VisitedInOrder, ToVisit
  <2>3. listener[s] = "done"
    BY <2>1, <2>2 DEF BroadcastInv, Heard, TypeOK
  <2>4. ~Excused(s)
    BY DEF Excused, OnLoop
  <2> QED
    BY <1>2, <2>3, <2>4 DEF BroadcastInv, Appends
<1> QED
  BY <1>1, <1>2

\* A call made on the event loop of all the members tells its callback of
\* success only if no write to a member it looks up has failed so far, and of
\* a failure only if one has.
THEOREM SameLoopReports == Spec => SameLoopReportIsExact
<1>1. BroadcastInv /\ [Next]_vars
        => [(step = "report" /\ step' = "returned" /\ \A s \in Session : OnLoop(s)) =>
              LET listed == IF call.op = "sendSome" THEN Session
                            ELSE channelIdGroupSession[room]
                  failures == {s \in Session : Failed(s)}
              IN  /\ answer' = "success" => failures \cap listed = {}
                  /\ answer' = "failed" => failures # {}]_vars
  <2> SUFFICES ASSUME BroadcastInv, [Next]_vars, step = "report", step' = "returned",
                      \A s \in Session : OnLoop(s)
               PROVE  LET listed == IF call.op = "sendSome" THEN Session
                                    ELSE channelIdGroupSession[room]
                          failures == {s \in Session : Failed(s)}
                      IN  /\ answer' = "success" => failures \cap listed = {}
                          /\ answer' = "failed" => failures # {}
    OBVIOUS
  <2>1. ProcessingResults
    <3>1. ASSUME NEW s \in Session, LoopTask(s) \/ Flush(s) \/ Close(s) \/ Leave(s)
          PROVE  FALSE
      <4>1. UNCHANGED callerVars
        BY <3>1, LoopMoves
      <4> QED
        BY <4>1 DEF callerVars
    <3> QED
      BY <3>1 DEF Next, CallerStep, Enter, StopWriting, AllSent, WriteToMember, WriteToSome,
         ListenToMember, ListenToSome, vars, callerVars
  <2>2. /\ result \subseteq {s \in Session : Failed(s)}
        /\ \A s \in Session :
             Failed(s) /\ (Broadcasting => s \in channelIdGroupSession[room]) => s \in result
    BY OwnListIsComplete
  <2>3. Visible(call.home) = {result}
    <3>1. \A s \in result : s # None /\ loopOf[s] = call.home
      BY <2>2, NoneAssumption DEF OnLoop
    <3>2. \A v \in SUBSET result : v \in Visible(call.home) => v = result
      BY <3>1 DEF Visible
    <3>3. result \in Visible(call.home)
      BY DEF Visible
    <3> QED
      BY <3>2, <3>3 DEF Visible
  <2>4. answer' = IF result = {} THEN "success" ELSE "failed"
    BY <2>1, <2>3 DEF ProcessingResults
  <2>5. Broadcasting => call.op # "sendSome"
    BY DEF Broadcasting
  <2> QED
    BY <2>2, <2>4, <2>5
<1> QED
  BY <1>1, BroadcastInvariant, PTL DEF Spec, SameLoopReportIsExact
=============================================================================
