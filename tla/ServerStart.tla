----------------------------- MODULE ServerStart -----------------------------
(***************************************************************************)
(* A server's start and its end, and the handlers its channels share:      *)
(* startApplication, bindStartListener, initializerChannel,                *)
(* addHandlerListener and destroy of SocketApplication.java,               *)
(* ServerApplication.java, DefaultHandlerCacheHelper.java,                 *)
(* ThreadLocalInboundHandlerAdapter.java and ListenerBroadcast.java.       *)
(*                                                                         *)
(* The user's thread constructs the server, goes on when the bind is under *)
(* way, and destroys the server at last.  The boss loop binds, runs the    *)
(* start listener with the application's SpringCommandLineRunners, and     *)
(* accepts; a worker loop initialises a channel's pipeline and then hands  *)
(* its events to the callbacks.  A callback is added by a runner, as the   *)
(* guide does it, or by the user's thread.                                 *)
(*                                                                         *)
(* Two handlers stand for all: SocketListenerHandler, which is there only  *)
(* when there are callbacks (so each of them has the map, and which one a  *)
(* channel gets makes no difference), and SocketMessageHandler, whose      *)
(* hooks init sets; SocketInterceptHandler and the handlers before and     *)
(* after the message are like it.  The message handler made while channel  *)
(* c is initialised has the name c.                                        *)
(***************************************************************************)
EXTENDS Integers, FiniteSets

CONSTANTS
    Channel,        \* the connections clients make
    Worker,         \* the worker loops
    LoopOf,         \* channel -> the worker loop it is registered with
    Adders,         \* who may add callbacks, see Adder
    HandlerEvent,   \* the events callbacks are added for
    MaxCallbacks,   \* bound: the callbacks of an event
    None

Adder == {"runner", "user"}

\* What handlerListener maps its events to: the number of their callbacks.
Lists == UNION {[E -> 0..MaxCallbacks] : E \in SUBSET HandlerEvent}

\* n callbacks of a list of size were called for event e of channel c.
Round == [ c : Channel, e : HandlerEvent,
           n : 0..MaxCallbacks, size : 0..MaxCallbacks ]

ASSUME StartAssumption ==
    /\ LoopOf \in [Channel -> Worker]
    /\ Adders \subseteq Adder
    /\ HandlerEvent \subseteq {"Active", "Message"}
    /\ MaxCallbacks \in Nat
    /\ None \notin Channel \cup Worker \cup HandlerEvent \cup Lists \cup Round

VARIABLES
    adder,      \* who adds callbacks in this program
    user,       \* the user's thread
    bind,       \* the bind future: "none", "pending", "bound", "failed"
    boss,       \* the start listener
    late,       \* the listener was bound to a future that was complete
    server,     \* the server's channel: "new", "listening", "closed"
    groups,     \* the event loop groups that are not shut down
    exited,     \* System.exit was called
    callbacks,  \* handlerListener: None, or event -> its number of callbacks
    adding,     \* the event a callback is being added for, or None
    stage,      \* channel -> where it is in its life
    listens,    \* channel -> it has a SocketListenerHandler
    cache,      \* handlerCache: the message handler in it, or None
    pipe,       \* channel -> its message handler, or None
    heeds,      \* message handler -> it was given the map handlerListener
    hooks,      \* message handler -> the loop whose hooks it has, or None
    handing,    \* worker -> the event it hands to the callbacks
    lost        \* an event was lost on the way

main == <<adder, user, bind, boss, late, server, groups, exited>>
adders == <<callbacks, adding>>
handlers == <<listens, cache, pipe, heeds, hooks>>
delivery == <<handing, lost>>
vars == <<main, adders, handlers, delivery, stage>>

Stages == {"new", "listener", "find", "put", "init", "open", "closed"}

TypeOK ==
    /\ adder \in Adders
    /\ user \in {"binding", "running", "closing", "bootstrap", "destroyed", "threw"}
    /\ bind \in {"none", "pending", "bound", "failed"}
    /\ boss \in {"none", "waiting", "posted", "runners", "started", "threw"}
    /\ late \in BOOLEAN /\ exited \in BOOLEAN
    /\ server \in {"new", "listening", "closed"}
    /\ groups \subseteq {"boss", "work"}
    /\ callbacks \in Lists \cup {None}
    /\ adding \in HandlerEvent \cup {None}
    /\ stage \in [Channel -> Stages]
    /\ listens \in [Channel -> BOOLEAN]
    /\ cache \in Channel \cup {None}
    /\ pipe \in [Channel -> Channel \cup {None}]
    /\ heeds \in [Channel -> BOOLEAN]
    /\ hooks \in [Channel -> Worker \cup {None}]
    /\ handing \in [Worker -> Round \cup {None}]
    /\ lost \in BOOLEAN

Init ==
    /\ adder \in Adders
    /\ user = "binding" /\ bind = "none" /\ boss = "none"
    /\ late = FALSE /\ server = "new" /\ exited = FALSE
    /\ groups = {"boss", "work"}
    /\ callbacks = None /\ adding = None
    /\ stage = [c \in Channel |-> "new"]
    /\ listens = [c \in Channel |-> FALSE]
    /\ cache = None
    /\ pipe = [c \in Channel |-> None]
    /\ heeds = [c \in Channel |-> FALSE]
    /\ hooks = [c \in Channel |-> None]
    /\ handing = [w \in Worker |-> None]
    /\ lost = FALSE

-----------------------------------------------------------------------------
(* startApplication -> start -> bindStartListener, in the constructor.     *)

\* IS_START is FALSE and nothing sets it: bootstrap.bind is called.
Start ==
    /\ user = "binding" /\ bind = "none"
    /\ bind' = "pending"
    /\ UNCHANGED <<adder, user, boss, late, server, groups, exited, adders,
                   handlers, delivery, stage>>

\* Faulty: a listener bound to a future that is complete is not notified.
BindStartListenerLate ==
    /\ user = "binding" /\ bind # "none"
    /\ user' = "running"
    /\ late' = (bind # "pending")
    /\ boss' = IF bind = "pending" THEN "waiting" ELSE "none"
    /\ UNCHANGED <<adder, bind, server, groups, exited, adders, handlers,
                   delivery, stage>>

\* Faulty: the listener always runs as a task of its own.
BindStartListenerPosting ==
    /\ user = "binding" /\ bind # "none"
    /\ user' = "running"
    /\ late' = (bind # "pending")
    /\ boss' = "posted"
    /\ UNCHANGED <<adder, bind, server, groups, exited, adders, handlers,
                   delivery, stage>>

\* Netty calls a listener bound to a pending future on the spot when the
\* future completes, and runs one bound later as a task of the boss loop.
BindStartListener ==
    /\ user = "binding" /\ bind # "none"
    /\ user' = "running"
    /\ late' = (bind # "pending")
    /\ boss' = IF bind = "pending" THEN "waiting" ELSE "posted"
    /\ UNCHANGED <<adder, bind, server, groups, exited, adders, handlers,
                   delivery, stage>>

\* The listener's first branch begins with the runners (the callback of
\* successful touches nothing here).
ListenerRuns == boss' = "runners" /\ UNCHANGED exited

\* Its second: startFailed ends the program.
ListenerFails == exited' = TRUE /\ UNCHANGED boss

Bound ==
    /\ bind = "pending" /\ server = "new"
    /\ bind' = "bound" /\ server' = "listening"
    /\ IF boss = "waiting" THEN ListenerRuns ELSE UNCHANGED <<boss, exited>>
    /\ UNCHANGED <<adder, user, late, groups, adders, handlers, delivery, stage>>

\* The port is taken, or the channel was closed before.
BindFailed ==
    /\ bind = "pending"
    /\ bind' = "failed"
    /\ IF boss = "waiting" THEN ListenerFails ELSE UNCHANGED <<boss, exited>>
    /\ UNCHANGED <<adder, user, late, server, groups, adders, handlers,
                   delivery, stage>>

ListenerNotified ==
    /\ boss = "posted" /\ bind # "pending"
    /\ IF bind = "bound" THEN ListenerRuns ELSE ListenerFails
    /\ UNCHANGED <<adder, user, bind, late, server, groups, adders, handlers,
                   delivery, stage>>

\* The runners are done: startSuccessful.
StartSuccessful ==
    /\ boss = "runners" /\ adding = None
    /\ boss' = "started"
    /\ UNCHANGED <<adder, user, bind, late, server, groups, exited, adders,
                   handlers, delivery, stage>>

\* A runner throws: netty logs it, the server goes on without startSuccessful.
RunnerThrows ==
    /\ boss = "runners" /\ adding = None
    /\ boss' = "threw"
    /\ UNCHANGED <<adder, user, bind, late, server, groups, exited, adders,
                   handlers, delivery, stage>>

-----------------------------------------------------------------------------
(* addHandlerListener                                                      *)

\* The callbacks of an event.
Listed(e) == callbacks # None /\ e \in DOMAIN callbacks
Size(e) == IF Listed(e) THEN callbacks[e] ELSE 0

MayAdd == IF adder = "runner" THEN boss = "runners" ELSE user = "running"

\* The map is made for the first callback, and a list for the first of its
\* event.  (Two steps in the code; a channel that reads between them sees
\* what it sees when it reads once before and once after them.)
AddHandlerListener(e) ==
    /\ MayAdd /\ adding = None
    /\ Size(e) < MaxCallbacks
    /\ adding' = e
    /\ callbacks' = [x \in {e} \cup {f \in HandlerEvent : Listed(f)} |-> Size(x)]
    /\ UNCHANGED <<main, handlers, delivery, stage>>

AddCallback ==
    /\ adding # None
    /\ callbacks' = [callbacks EXCEPT ![adding] = @ + 1]
    /\ adding' = None
    /\ UNCHANGED <<main, handlers, delivery, stage>>

-----------------------------------------------------------------------------
(* A connection is accepted and its pipeline assembled.                    *)

LoopFree(w) ==
    /\ handing[w] = None
    /\ \A c \in Channel : LoopOf[c] = w => stage[c] \in {"new", "open", "closed"}

\* The boss loop is not in the start listener; a group that is shut down
\* takes no channel, and netty closes it.
Accept(c) ==
    /\ server = "listening" /\ boss # "runners" /\ stage[c] = "new"
    /\ \/ /\ "work" \in groups /\ LoopFree(LoopOf[c])
          /\ stage' = [stage EXCEPT ![c] = "listener"]
       \/ /\ "work" \notin groups
          /\ stage' = [stage EXCEPT ![c] = "closed"]
    /\ UNCHANGED <<main, adders, handlers, delivery>>

\* SocketListenerHandler is left out while no event has a list.
AddListenerHandler(c) ==
    /\ stage[c] = "listener"
    /\ stage' = [stage EXCEPT ![c] = "find"]
    /\ listens' = [listens EXCEPT ![c] = (callbacks # None)]
    /\ UNCHANGED <<main, adders, delivery, cache, pipe, heeds, hooks>>

\* getCache finds a message handler: the new one is dropped.
Cached(c) ==
    /\ stage[c] = "find" /\ cache # None
    /\ pipe' = [pipe EXCEPT ![c] = cache]
    /\ stage' = [stage EXCEPT ![c] = "init"]
    /\ UNCHANGED <<main, adders, delivery, listens, cache, heeds, hooks>>

\* getCache finds none: the new handler, which was given the map there is,
\* goes into the pipeline,
NotCached(c) ==
    /\ stage[c] = "find" /\ cache = None
    /\ heeds' = [heeds EXCEPT ![c] = (callbacks # None)]
    /\ pipe' = [pipe EXCEPT ![c] = c]
    /\ stage' = [stage EXCEPT ![c] = "put"]
    /\ UNCHANGED <<main, adders, delivery, listens, cache, hooks>>

\* and into the cache, whatever another loop has put there since.
Cache(c) ==
    /\ stage[c] = "put"
    /\ cache' = c
    /\ stage' = [stage EXCEPT ![c] = "init"]
    /\ UNCHANGED <<main, adders, delivery, listens, pipe, heeds, hooks>>

\* Faulty: only a new handler is initialised.
InitNew(c) ==
    /\ stage[c] = "init"
    /\ hooks' = IF pipe[c] = c THEN [hooks EXCEPT ![c] = LoopOf[c]] ELSE hooks
    /\ stage' = [stage EXCEPT ![c] = "open"]
    /\ UNCHANGED <<main, adders, delivery, listens, cache, pipe, heeds>>

\* init gives the handler the hooks of the loop that runs it, for all loops.
InitHandler(c) ==
    /\ stage[c] = "init"
    /\ hooks' = [hooks EXCEPT ![pipe[c]] = LoopOf[c]]
    /\ stage' = [stage EXCEPT ![c] = "open"]
    /\ UNCHANGED <<main, adders, delivery, listens, cache, pipe, heeds>>

-----------------------------------------------------------------------------
(* broadcastNotification: the callbacks of an event, one after the other.  *)

Heeds(c, e) == IF e = "Active" THEN listens[c] ELSE heeds[pipe[c]]

Event(c, e) ==
    /\ stage[c] = "open" /\ LoopFree(LoopOf[c])
    /\ Heeds(c, e) /\ Size(e) > 0
    /\ handing' = [handing EXCEPT ![LoopOf[c]] = [c |-> c, e |-> e, n |-> 0, size |-> Size(e)]]
    /\ UNCHANGED <<main, adders, handlers, lost, stage>>

\* Faulty: the end of the list is not looked for.
CallbackPastEnd(w) ==
    /\ handing[w] # None
    /\ LET r == handing[w] IN
       /\ Size(r.e) = r.size
       /\ handing' = [handing EXCEPT ![w].n = @ + 1]
    /\ UNCHANGED <<main, adders, handlers, lost, stage>>

\* The list's iterator fails when a callback was added since it was made:
\* the event goes no further.
Callback(w) ==
    /\ handing[w] # None
    /\ LET r == handing[w] IN
       IF r.n < Size(r.e) /\ Size(r.e) = r.size
       THEN /\ handing' = [handing EXCEPT ![w].n = @ + 1]
            /\ UNCHANGED lost
       ELSE /\ handing' = [handing EXCEPT ![w] = None]
            /\ lost' = (lost \/ r.n < Size(r.e))
    /\ UNCHANGED <<main, adders, handlers, stage>>

-----------------------------------------------------------------------------
(* destroy, called by the user's thread.                                   *)

UserGoes(from, to) ==
    /\ user = from /\ user' = to
    /\ UNCHANGED <<adder, bind, boss, late, server, exited, adders, handlers,
                   delivery, stage>>

\* closeBefore and the beforeDestroy hooks; one that throws ends destroy.
BeforeDestroy == adding = None /\ UserGoes("running", "closing") /\ UNCHANGED groups
BeforeDestroyThrows == adding = None /\ UserGoes("running", "threw") /\ UNCHANGED groups

\* serverSession.close asks the boss loop to close the server's channel.
CloseServerSession == UserGoes("closing", "bootstrap") /\ UNCHANGED groups

\* Faulty: the worker group is forgotten.
CloseBossOnly == UserGoes("bootstrap", "destroyed") /\ groups' = {"work"}

\* The shutdown of both groups begins; nobody waits for its end.
CloseBootstrap == UserGoes("bootstrap", "destroyed") /\ groups' = {}

SessionClosed == user \in {"bootstrap", "destroyed"}

BossCloses ==
    /\ SessionClosed \/ "boss" \notin groups
    /\ server # "closed" /\ boss # "runners"
    /\ server' = "closed"
    /\ UNCHANGED <<adder, user, bind, boss, late, groups, exited, adders, handlers,
                   delivery, stage>>

\* A loop of a group that shuts down closes its channels between two tasks.
LoopCloses(c) ==
    /\ "work" \notin groups /\ stage[c] = "open" /\ LoopFree(LoopOf[c])
    /\ stage' = [stage EXCEPT ![c] = "closed"]
    /\ UNCHANGED <<main, adders, handlers, delivery>>

-----------------------------------------------------------------------------
\* What the user's thread does once it has begun.
UserStep == Start \/ BindStartListener \/ CloseServerSession \/ CloseBootstrap

BossStep ==
    \/ Bound \/ BindFailed \/ ListenerNotified
    \/ StartSuccessful \/ RunnerThrows \/ BossCloses

Initialise(c) ==
    \/ AddListenerHandler(c) \/ Cached(c) \/ NotCached(c) \/ Cache(c)
    \/ InitHandler(c)

WorkerStep(w) ==
    \/ Callback(w)
    \/ \E c \in Channel : LoopOf[c] = w /\ Initialise(c)

Alive == ~exited

Next ==
    /\ Alive
    /\ \/ UserStep \/ BeforeDestroy \/ BeforeDestroyThrows
       \/ BossStep \/ AddCallback
       \/ \E e \in HandlerEvent : AddHandlerListener(e)
       \/ \E c \in Channel : \/ Accept(c) \/ LoopCloses(c)
                             \/ \E e \in HandlerEvent : Event(c, e)
       \/ \E w \in Worker : WorkerStep(w)

Spec == Init /\ [][Next]_vars

\* Every thread runs on, and a loop that shuts down gets to closing its
\* channels between any two rounds of events.  Nobody has to connect, to add
\* callbacks or to destroy the server.
Fairness ==
    /\ WF_vars(Alive /\ UserStep)
    /\ WF_vars(Alive /\ BossStep)
    /\ WF_vars(Alive /\ AddCallback)
    /\ \A w \in Worker : WF_vars(Alive /\ WorkerStep(w))
    /\ \A c \in Channel : SF_vars(Alive /\ LoopCloses(c))

FairSpec == Spec /\ Fairness

-----------------------------------------------------------------------------
(* Properties                                                              *)

\* A channel that takes part in events has a message handler that some loop
\* has initialised, although two loops may make, find and replace the cached
\* one at the same time (getCache).
ReadyBeforeEvents ==
    \A c \in Channel : stage[c] = "open" => hooks[pipe[c]] # None

\* Callbacks the runners add hear every channel in both handlers, and no event is lost to
\* them, when the listener was bound before the bind completed: the boss loop
\* then runs them before it accepts anybody.
RunnersAreInTime ==
    (adder = "runner" /\ ~late) =>
        /\ \A c \in Channel :
              (stage[c] = "open" /\ \E e \in HandlerEvent : Size(e) > 0)
                => listens[c] /\ heeds[pipe[c]]
        /\ ~lost

\* A start is decided: the server listens and its runners have run, or one of
\* them threw, or the program ends.
StartIsDecided ==
    bind = "pending" ~> (boss \in {"started", "threw"} \/ exited)

\* After destroy no channel is open in the end, neither the server's nor one
\* that was being accepted or initialised meanwhile.
DestroyClosesAll ==
    user = "destroyed" ~> []( \/ exited
                              \/ /\ server = "closed"
                                 /\ \A c \in Channel : stage[c] \in {"new", "closed"} )

\* A channel that is given its message handler after the start, when there
\* are callbacks, is heard by them.
ListenersAreHeard ==
    [][\A c \in Channel :
         (boss = "started" /\ Size("Message") > 0 /\ stage[c] = "find" /\ stage'[c] # "find")
            => heeds'[pipe'[c]]]_vars

-----------------------------------------------------------------------------
(* The invariant behind ReadyBeforeEvents and RunnersAreInTime.            *)

\* A callback is being added to a list that has room for it.
AddingToList ==
    adding # None => Listed(adding) /\ callbacks[adding] < MaxCallbacks

\* A channel behind getCache has a message handler, at first its own if it
\* made one, and an open channel has one that is initialised.
PipesAreReady ==
    \A c \in Channel :
        /\ stage[c] = "put" => pipe[c] = c
        /\ stage[c] \in {"put", "init", "open"} => pipe[c] \in Channel
        /\ stage[c] = "open" => hooks[pipe[c]] \in Worker

\* No event is being handed out, and none was lost.
Silent == ~lost /\ \A w \in Worker : handing[w] = None

\* No channel was accepted yet.
Untouched ==
    /\ \A c \in Channel : stage[c] = "new"
    /\ cache = None
    /\ Silent

\* Nobody is accepted before the bind has completed.
BindComesFirst ==
    /\ boss = "none" <=> user = "binding"
    /\ bind # "bound" => server # "listening" /\ Untouched

\* The runners add while they run, and until then there is nothing to hear.
RunnersAdd ==
    adder = "runner" =>
        /\ boss \in {"none", "waiting", "posted"} => callbacks = None
        /\ boss # "runners" => adding = None
        /\ callbacks = None => Silent

\* With the listener bound in time the runners run before all channels,
RunnersFirst ==
    ~late => /\ boss # "posted"
             /\ boss = "waiting" => bind # "bound"
             /\ boss = "runners" => Untouched

\* and what is made after them knows their callbacks.
Knows ==
    /\ cache # None => heeds[cache]
    /\ \A c \in Channel :
          /\ stage[c] \in {"find", "put", "init", "open"} => listens[c]
          /\ stage[c] \in {"put", "init", "open"} => heeds[pipe[c]]
    /\ \A w \in Worker :
          handing[w] # None => handing[w].size = Size(handing[w].e)
    /\ ~lost

Informed ==
    (adder = "runner" /\ ~late /\ boss \in {"started", "threw"} /\ callbacks # None)
        => Knows

StartInv ==
    /\ TypeOK /\ AddingToList /\ PipesAreReady
    /\ BindComesFirst /\ RunnersAdd /\ RunnersFirst /\ Informed
=============================================================================
