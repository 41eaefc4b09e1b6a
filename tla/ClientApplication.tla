-------------------------- MODULE ClientApplication --------------------------
(***************************************************************************)
(* server/impl/ClientApplication.java, the start and bindStartListener of  *)
(* SocketApplication.java, and handler/impl/ClientRetryHandler.java: a     *)
(* client connects, and when its channel is unregistered it connects       *)
(* again, until the application destroys it.                               *)
(*                                                                         *)
(* An attempt is one call of start: it makes a channel, whose event loop   *)
(* handles the channel's events in order (queue), and holds the            *)
(* application's monitor until the listener is bound to the connect        *)
(* future.  Netty notifies a listener bound before the future completes    *)
(* when it completes, ahead of the channel's later events; one bound       *)
(* afterwards runs behind the events that are already waiting.             *)
(***************************************************************************)
EXTENDS Integers, Sequences, FiniteSets

CONSTANTS
    Configs,        \* the configurations explored, see Config
    MaxAttempts,    \* bound: the number of attempts explored
    MaxUserStarts   \* bound: those of them the application makes

Config == [ autoRetry : BOOLEAN,            \* client.auto-retry
            retryCount : Nat \cup {-1},     \* client.retry-count, -1: no limit
            userStarts : BOOLEAN,           \* the application calls
                                            \* startApplication itself
            runnersThrow : BOOLEAN,         \* a SpringCommandLineRunner may throw
            destroys : BOOLEAN ]            \* the application calls destroy

ASSUME ClientAssumption ==
    /\ Configs \subseteq Config
    /\ MaxAttempts \in Nat \ {0} /\ MaxUserStarts \in Nat

Attempt == 1..MaxAttempts
Free == 0

VARIABLES
    config,     \* the client's configuration, read when it starts
    start,      \* attempt -> "none" | "asked" | "connecting" | "cleared" |
                \*            "bound" | "cancelled"
    after,      \* attempt -> the attempt whose event loop runs it, 0: a user's
    link,       \* attempt -> "none" | "pending" | "up" | "failed" | "down"
    queue,      \* attempt -> the events its event loop has yet to handle
    isStart,    \* IS_START
    retry,      \* retry
    retryCount, \* retryCount
    monitor,    \* the attempt that holds the application's monitor, or Free
    retries,    \* reconnections begun since the last successful connection
    exited,     \* System.exit was called
    session,    \* the attempt whose channel serverSession has, 0: null
    ending,     \* destroy: "no" | "closed" | "done" | "threw"
    closing,    \* the attempts whose channel was told to close
    open        \* workGroup is not shut down

down == <<ending, closing, open>>
flags == <<isStart, retry, retryCount>>
vars == <<config, start, after, link, queue, flags, monitor, retries, exited,
          session, down>>

Event == {"registered", "listener", "reset", "unregistered", "count"}

TypeOK ==
    /\ config \in Configs
    /\ start \in [Attempt -> {"none", "asked", "connecting", "cleared",
                            "bound", "cancelled"}]
    /\ after \in [Attempt -> 0..MaxAttempts]
    /\ link \in [Attempt -> {"none", "pending", "up", "failed", "down"}]
    /\ queue \in [Attempt -> Seq(Event)]
    /\ isStart \in BOOLEAN /\ retry \in BOOLEAN /\ exited \in BOOLEAN
    /\ retryCount \in Nat /\ retries \in Nat
    /\ monitor \in 0..MaxAttempts /\ session \in 0..MaxAttempts
    /\ ending \in {"no", "closed", "done", "threw"}
    /\ closing \subseteq Attempt /\ open \in BOOLEAN

\* The constructor of ClientApplication calls startApplication.
Init ==
    /\ config \in Configs
    /\ start = [n \in Attempt |-> IF n = 1 THEN "asked" ELSE "none"]
    /\ after = [n \in Attempt |-> 0]
    /\ link = [n \in Attempt |-> "none"]
    /\ queue = [n \in Attempt |-> <<>>]
    /\ isStart = FALSE /\ retry = FALSE /\ retryCount = 0
    /\ monitor = Free
    /\ retries = 0
    /\ exited = FALSE
    /\ session = 0 /\ ending = "no" /\ closing = {} /\ open = TRUE

Unused == {n \in Attempt : start[n] = "none"}
Fresh == CHOOSE n \in Unused : \A m \in Unused : n <= m

\* The event at the head of channel n's queue is handled; rest follows it.
Handle(n, event, rest) ==
    /\ queue[n] # <<>> /\ Head(queue[n]) = event
    /\ queue' = [queue EXCEPT ![n] = rest \o Tail(@)]

Post(n, events) == queue' = [queue EXCEPT ![n] = @ \o events]

-----------------------------------------------------------------------------
(* startApplication -> start -> bindStartListener, synchronized.           *)

\* A reconnection is a task of the old channel's event loop.
Connecting(n) ==
    /\ start[n] = "asked" /\ monitor = Free
    /\ after[n] # 0 => queue[after[n]] = <<>>
    /\ IF isStart
       THEN /\ start' = [start EXCEPT ![n] = "bound"]
            /\ UNCHANGED <<queue, monitor>>
       ELSE /\ start' = [start EXCEPT ![n] = "connecting"]
            /\ monitor' = n
            /\ Post(n, <<"registered">>)
    /\ UNCHANGED <<after, link, flags, retries, exited, session, down>>

\* serverSession is null until it is the new channel's session.
ClearSession(n) ==
    /\ start[n] = "connecting"
    /\ start' = [start EXCEPT ![n] = "cleared"]
    /\ session' = 0
    /\ UNCHANGED <<after, link, queue, flags, monitor, retries, exited, down>>

\* Faulty: a listener bound to a future that is complete is not notified.
BindListenerLate(n) ==
    /\ start[n] = "cleared"
    /\ start' = [start EXCEPT ![n] = "bound"]
    /\ session' = n
    /\ monitor' = Free
    /\ UNCHANGED <<after, link, queue, flags, retries, exited, down>>

BindListener(n) ==
    /\ start[n] = "cleared"
    /\ start' = [start EXCEPT ![n] = "bound"]
    /\ session' = n
    /\ monitor' = Free
    /\ IF link[n] \in {"none", "pending"} THEN UNCHANGED queue
                                          ELSE Post(n, <<"listener">>)
    /\ UNCHANGED <<after, link, flags, retries, exited, down>>

\* The application's own startApplication while the client runs.
UserStart ==
    /\ Cardinality({n \in Attempt \ (Unused \cup {1}) : after[n] = 0}) < MaxUserStarts
    /\ config.userStarts /\ Unused # {} /\ start[1] = "bound" /\ ending = "no"
    /\ start' = [start EXCEPT ![Fresh] = "asked"]
    /\ UNCHANGED <<after, link, queue, flags, monitor, retries, exited, session, down>>

-----------------------------------------------------------------------------
(* The channel's event loop.                                               *)

\* What ClientRetryHandler passes on is the matter of ChannelPipeline.
ChannelRegistered(n) ==
    /\ Handle(n, "registered", <<>>)
    /\ link' = [link EXCEPT ![n] = "pending"]
    /\ UNCHANGED <<start, after, flags, monitor, retries, exited, session, down>>

Notify(n) == IF start[n] = "bound" THEN <<"listener">> ELSE <<>>

\* The connection is made.
Connected(n) ==
    /\ link[n] = "pending"
    /\ link' = [link EXCEPT ![n] = "up"]
    /\ retries' = 0
    /\ Post(n, Notify(n))
    /\ UNCHANGED <<start, after, flags, monitor, exited, session, down>>

\* It fails: the future is completed, then netty closes the channel.
ConnectFailed(n) ==
    /\ link[n] = "pending"
    /\ link' = [link EXCEPT ![n] = "failed"]
    /\ Post(n, Notify(n) \o <<"unregistered">>)
    /\ UNCHANGED <<start, after, flags, monitor, retries, exited, session, down>>

Disconnected(n) ==
    /\ link[n] = "up"
    /\ link' = [link EXCEPT ![n] = "down"]
    /\ Post(n, <<"unregistered">>)
    /\ UNCHANGED <<start, after, flags, monitor, retries, exited, session, down>>

\* bindStartListener's listener, on success: the runners, then
\* startSuccessful, which clears retry and then retryCount.
ListenerSucceeds(n) ==
    /\ link[n] \in {"up", "down"}
    /\ Handle(n, "listener", <<"reset">>)
    /\ retry' = FALSE
    /\ UNCHANGED <<start, after, link, isStart, retryCount, monitor,
                   retries, exited, session, down>>

\* A runner throws: netty logs it, and startSuccessful is not called.
ListenerThrows(n) ==
    /\ config.runnersThrow /\ link[n] \in {"up", "down"}
    /\ Handle(n, "listener", <<>>)
    /\ UNCHANGED <<start, after, link, flags, monitor, retries, exited,
                   session, down>>

\* Faulty: startSuccessful forgets retryCount.
ResetNothing(n) ==
    /\ Handle(n, "reset", <<>>)
    /\ UNCHANGED <<start, after, link, flags, monitor, retries, exited, session, down>>

\* Faulty: the count starts one too low.
ResetBelow(n) ==
    /\ Handle(n, "reset", <<>>)
    /\ retryCount' = -1
    /\ UNCHANGED <<start, after, link, isStart, retry, monitor, retries,
                   exited, session, down>>

ResetCount(n) ==
    /\ Handle(n, "reset", <<>>)
    /\ retryCount' = 0
    /\ UNCHANGED <<start, after, link, isStart, retry, monitor, retries,
                   exited, session, down>>

\* On failure: startFailed ends the program unless a retry is under way.
ListenerFails(n) ==
    /\ link[n] = "failed"
    /\ Handle(n, "listener", <<>>)
    /\ isStart' = FALSE
    /\ exited' = ~retry
    /\ UNCHANGED <<start, after, link, retry, retryCount, monitor, retries, session, down>>

\* ClientRetryHandler.channelUnregistered -> connect, synchronized.
EnterConnect(n) ==
    /\ config.autoRetry /\ monitor = Free
    /\ Handle(n, "unregistered", <<"count">>)
    /\ monitor' = n
    /\ isStart' = FALSE /\ retry' = TRUE
    /\ UNCHANGED <<start, after, link, retryCount, retries, exited, session, down>>

RetriesLeft == config.retryCount = -1 \/ retryCount <= config.retryCount

\* Faulty: connect returns without releasing the monitor.
CountRetryHolding(n) ==
    /\ Handle(n, "count", <<>>)
    /\ retryCount' = retryCount + 1
    /\ Unused # {}
    /\ start' = [start EXCEPT ![Fresh] = "asked"]
    /\ after' = [after EXCEPT ![Fresh] = n]
    /\ retries' = retries + 1
    /\ UNCHANGED <<link, isStart, retry, monitor, exited, session, down>>

\* Faulty: two reconnections are scheduled.
CountRetryTwice(n) ==
    /\ Handle(n, "count", <<>>)
    /\ monitor' = Free
    /\ retryCount' = retryCount + 1
    /\ \E more \in Unused \ {Fresh} :
          /\ start' = [start EXCEPT ![Fresh] = "asked", ![more] = "asked"]
          /\ after' = [after EXCEPT ![Fresh] = n, ![more] = n]
    /\ retries' = retries + 1
    /\ UNCHANGED <<link, isStart, retry, exited, session, down>>

\* retryCount.getAndAdd(1), the limit, and the task of the event loop.  A
\* loop that shuts down drops the tasks that are to run later.
CountRetry(n) ==
    /\ Handle(n, "count", <<>>)
    /\ monitor' = Free
    /\ retryCount' = retryCount + 1
    /\ IF RetriesLeft
       THEN /\ Unused # {}
            /\ start' = [start EXCEPT ![Fresh] = IF open THEN "asked" ELSE "cancelled"]
            /\ after' = [after EXCEPT ![Fresh] = n]
            /\ retries' = retries + 1
            /\ UNCHANGED exited
       ELSE /\ exited' = TRUE
            /\ UNCHANGED <<start, after, retries>>
    /\ UNCHANGED <<link, isStart, retry, session, down>>

PassUnregistered(n) ==
    /\ ~config.autoRetry
    /\ Handle(n, "unregistered", <<>>)
    /\ UNCHANGED <<start, after, link, flags, monitor, retries, exited, session, down>>

-----------------------------------------------------------------------------
(* destroy, called by a thread of the application.                         *)

\* closeBefore and the beforeDestroy hooks, then serverSession.close: a
\* NullPointerException while the session is cleared.
Destroy ==
    /\ config.destroys /\ ending = "no" /\ start[1] = "bound"
    /\ IF session = 0 THEN ending' = "threw" /\ UNCHANGED closing
                      ELSE ending' = "closed" /\ closing' = closing \cup {session}
    /\ UNCHANGED <<start, after, link, queue, flags, monitor, retries, exited,
                   session, open>>

\* Faulty: the group of event loops stays.
CloseBootstrapNot ==
    /\ ending = "closed" /\ ending' = "done"
    /\ UNCHANGED <<start, after, link, queue, flags, monitor, retries, exited,
                   session, closing, open>>

\* workGroup.shutdownGracefully, which is not waited for.
CloseBootstrap ==
    /\ ending = "closed" /\ ending' = "done" /\ open' = FALSE
    /\ UNCHANGED <<start, after, link, queue, flags, monitor, retries, exited,
                   session, closing>>

\* A channel that was told to close, or whose loop shuts down, is closed.
LoopCloses(n) ==
    /\ n \in closing \/ ~open
    /\ ConnectFailed(n) \/ Disconnected(n)

\* The task of a reconnection that is not due yet is dropped.
LoopCancels(n) ==
    /\ ~open /\ start[n] = "asked" /\ after[n] # 0
    /\ start' = [start EXCEPT ![n] = "cancelled"]
    /\ UNCHANGED <<after, link, queue, flags, monitor, retries, exited,
                   session, down>>

-----------------------------------------------------------------------------
LoopStep(n) ==
    \/ ChannelRegistered(n)
    \/ ListenerSucceeds(n) \/ ListenerThrows(n) \/ ResetCount(n)
    \/ ListenerFails(n) \/ EnterConnect(n) \/ CountRetry(n)
    \/ PassUnregistered(n)

NetStep(n) == Connected(n) \/ ConnectFailed(n)

StartStep(n) == Connecting(n) \/ ClearSession(n) \/ BindListener(n)

\* System.exit ends every thread; the configuration is read once.
Alive == ~exited /\ UNCHANGED config

Next ==
    /\ Alive
    /\ \/ UserStart \/ Destroy \/ CloseBootstrap
       \/ \E n \in Attempt : \/ StartStep(n) \/ LoopStep(n) \/ NetStep(n)
                             \/ Disconnected(n) \/ LoopCloses(n) \/ LoopCancels(n)

Spec == Init /\ [][Next]_vars

\* Threads run on, the connect timeout ends every attempt, and a loop closes
\* the channels it is told to; nobody has to disconnect or to destroy.
Fairness ==
    /\ WF_vars(Alive /\ CloseBootstrap)
    /\ \A n \in Attempt :
        /\ WF_vars(Alive /\ StartStep(n))
        /\ WF_vars(Alive /\ (NetStep(n) \/ LoopCloses(n)))
        /\ WF_vars(Alive /\ LoopStep(n))

FairSpec == Spec /\ Fairness

-----------------------------------------------------------------------------
(* Properties                                                              *)

\* There is one connection to the server at a time, as long as the
\* application leaves starting to the client: reconnections never overlap.
OneConnection ==
    ~config.userStarts =>
        \A m, n \in Attempt : link[m] = "up" /\ link[n] = "up" => m = n

\* A client that retries without limit and has been connected never exits.
NeverGivesUp ==
    (config.autoRetry /\ config.retryCount = -1 /\ exited) =>
        \A n \in Attempt : link[n] \notin {"up", "down"}

\* A client whose connection is lost tries again, unless the program exits or
\* the application destroys it:
\* neither the monitor nor the order of the channel's last events can swallow
\* the reconnection.
Reconnects ==
    \A n \in Attempt :
        (config.autoRetry /\ link[n] \in {"failed", "down"} /\ Unused # {})
            ~> (exited \/ Unused = {} \/ ending # "no"
                \/ \E m \in Attempt : after[m] = n /\ start[m] = "bound")

\* With auto-retry off, a connection that fails ends the program, whether
\* the listener was bound before or after the failure.
FailureIsFatal ==
    \A n \in Attempt : (~config.autoRetry /\ link[n] = "failed") ~> exited

\* A connected client has forgotten its earlier failures as soon as it is
\* idle, unless a runner threw: the next loss of the connection starts with
\* the whole retry budget.
ConnectedMeansReset ==
    \A n \in Attempt :
        (link[n] = "up" /\ start[n] = "bound" /\ queue[n] = <<>>
            /\ ~config.userStarts /\ ~config.runnersThrow)
            => (~retry /\ retryCount = 0)

\* Destroying a client ends its connection for good, although the loss makes
\* the retry handler ask for another one, which may be on its way already.
DestroyEndsClient ==
    ending = "done" ~> [](exited \/ \A n \in Attempt : link[n] \notin {"pending", "up"})

-----------------------------------------------------------------------------
(* The invariant behind OneConnection and ConnectedMeansReset.             *)

\* retry-count is documented as the maximum number of reconnections, and the
\* client exceeds it by one, as connect compares the count before it increases
\* it, or by two, when a listener notified after the connection is lost again
\* clears the count once more; it never exceeds it by more.
RetriesBounded ==
    (config.retryCount # -1 /\ ~config.userStarts) => retries <= config.retryCount + 2

Has(seq, event) == \E i \in DOMAIN seq : seq[i] = event

\* The two events that lead to a reconnection.
Losing == {"unregistered", "count"}

LosesNothing(seq) == \A event \in Losing : ~Has(seq, event)

LosesOnce(seq) ==
    \A i, j \in DOMAIN seq : seq[i] \in Losing /\ seq[j] \in Losing => i = j

\* The events that wait at a channel fit what its connection has been through:
\* it is registered once and lost once.
EventsFit ==
    \A n \in Attempt :
        /\ start[n] \in {"none", "asked", "cancelled"} =>
               link[n] = "none" /\ queue[n] = <<>>
        /\ link[n] = "none" => queue[n] \in {<<>>, <<"registered">>}
        /\ link[n] # "none" => ~Has(queue[n], "registered")
        /\ link[n] \in {"none", "pending", "up"} => LosesNothing(queue[n])
        /\ LosesOnce(queue[n])
        /\ Has(queue[n], "reset") => link[n] \in {"up", "down"}

\* A start holds the monitor, and so does connect, which finds its channel's
\* start at its end.
StartsAlone ==
    \A n \in Attempt :
        /\ start[n] \in {"connecting", "cleared"} => monitor = n
        /\ Has(queue[n], "count") => monitor = n /\ start[n] = "bound"

\* The attempts form a chain that ends in the last one.  Those before it are
\* over, and only the one that made it may still have events.
EarlierAreOver(last) ==
    /\ \A n \in Attempt : start[n] = "none" <=> n > last
    /\ last > 1 => after[last] = last - 1
    /\ \A n \in Attempt : n < last =>
          /\ start[n] = "bound" /\ link[n] \in {"failed", "down"}
          /\ LosesNothing(queue[n])
          /\ queue[n] # <<>> => /\ n = last - 1
                                /\ start[last] \in {"asked", "cancelled"}
                                /\ link[n] = "down" => retries <= 1

\* What the last attempt's connection, or its listener, resets.
ResetByLast(last) ==
    /\ link[last] \in {"up", "down"} => retries = 0
    /\ (link[last] = "up" /\ start[last] = "bound" /\ ~config.runnersThrow) =>
          \/ Has(queue[last], "listener")
          \/ ~retry /\ (Has(queue[last], "reset") \/ retryCount = 0)

Chain == \E last \in Attempt : EarlierAreOver(last) /\ ResetByLast(last)

ClientInv ==
    /\ TypeOK
    /\ ~isStart
    /\ ~config.userStarts =>
          /\ EventsFit /\ StartsAlone /\ Chain
          /\ retries <= retryCount + 1
          /\ RetriesBounded
=============================================================================
