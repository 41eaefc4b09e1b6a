-------------------------- MODULE ServerStart_proofs --------------------------
(***************************************************************************)
(* StartInv is an invariant of a server's start and end, for any number of *)
(* channels, worker loops and callbacks; with it the pipelines are ready   *)
(* before their first event, and the callbacks of runners are in time.     *)
(***************************************************************************)
EXTENDS ServerStart, TLAPS

\* Each action keeps the types; Lists and Round stay folded unless an action
\* makes a value of theirs.
LEMMA InitTypes == ASSUME Init PROVE TypeOK
  BY StartAssumption DEF Init, TypeOK, Stages, Adder

\* The actions of the user's thread and of the boss loop.
LEMMA MainTypes ==
  ASSUME TypeOK, UserStep \/ BossStep \/ BeforeDestroy \/ BeforeDestroyThrows
  PROVE  TypeOK'
<1> USE DEF TypeOK, adders, handlers, delivery, UserGoes
<1>1. CASE Start
  BY <1>1 DEF Start
<1>2. CASE BindStartListener
  BY <1>2 DEF BindStartListener
<1>3. CASE CloseServerSession
  BY <1>3 DEF CloseServerSession
<1>4. CASE CloseBootstrap
  BY <1>4 DEF CloseBootstrap
<1>5. CASE Bound
  BY <1>5 DEF Bound, ListenerRuns
<1>6. CASE BindFailed
  <2>1. /\ boss' = boss /\ exited' \in BOOLEAN /\ bind' = "failed"
        /\ UNCHANGED <<adder, user, late, server, groups, adders, handlers,
                       delivery, stage>>
    BY <1>6 DEF BindFailed, ListenerFails, TypeOK
  <2> QED
    BY <2>1
<1>7. CASE ListenerNotified
  <2>1. /\ boss' \in {"posted", "runners"} /\ exited' \in BOOLEAN
        /\ UNCHANGED <<adder, user, bind, late, server, groups, adders, handlers,
                       delivery, stage>>
    BY <1>7 DEF ListenerNotified, ListenerRuns, ListenerFails, TypeOK
  <2> QED
    BY <2>1
<1>8. CASE StartSuccessful
  BY <1>8 DEF StartSuccessful
<1>9. CASE RunnerThrows
  BY <1>9 DEF RunnerThrows
<1>10. CASE BossCloses
  BY <1>10 DEF BossCloses
<1>11. CASE BeforeDestroy
  BY <1>11 DEF BeforeDestroy
<1>12. CASE BeforeDestroyThrows
  BY <1>12 DEF BeforeDestroyThrows
<1> QED
  BY <1>1, <1>2, <1>3, <1>4, <1>5, <1>6, <1>7, <1>8, <1>9, <1>10, <1>11, <1>12
     DEF UserStep, BossStep

\* The lists of the events that have one.
LEMMA ListsTypes ==
  ASSUME TypeOK
  PROVE  /\ \A e \in HandlerEvent : Listed(e) => callbacks[e] \in 0..MaxCallbacks
         /\ \A e \in HandlerEvent : Size(e) \in 0..MaxCallbacks
         /\ callbacks # None => DOMAIN callbacks \subseteq HandlerEvent
<1>1. CASE callbacks = None
  BY <1>1, StartAssumption DEF Listed, Size
<1>2. CASE callbacks # None
  <2>1. PICK E \in SUBSET HandlerEvent : callbacks \in [E -> 0..MaxCallbacks]
    BY <1>2 DEF TypeOK, Lists
  <2> QED
    BY <1>2, <2>1, StartAssumption DEF Listed, Size
<1> QED
  BY <1>1, <1>2

LEMMA AddHandlerListenerTypes ==
  ASSUME TypeOK, NEW e \in HandlerEvent, AddHandlerListener(e)
  PROVE  TypeOK' /\ callbacks' # None /\ Listed(e)' /\ callbacks'[e] = Size(e)
<1> DEFINE E == {e} \cup {f \in HandlerEvent : Listed(f)}
<1>1. callbacks' = [x \in E |-> Size(x)] /\ adding' = e
  BY DEF AddHandlerListener
<1>2. E \in SUBSET HandlerEvent
  OBVIOUS
<1>3. \A x \in E : Size(x) \in 0..MaxCallbacks
  BY ListsTypes
<1>4. callbacks' \in [E -> 0..MaxCallbacks]
  BY <1>1, <1>3
<1>5. callbacks' \in Lists
  BY <1>2, <1>4 DEF Lists
<1>6. callbacks' # None
  BY <1>5, StartAssumption
<1>7. TypeOK'
  BY <1>1, <1>5 DEF AddHandlerListener, TypeOK, main, handlers, delivery
<1> QED
  BY <1>1, <1>6, <1>7 DEF Listed

LEMMA AddCallbackTypes ==
  ASSUME TypeOK, AddingToList, AddCallback
  PROVE  TypeOK' /\ callbacks' # None /\ callbacks # None /\ adding' = None
<1>1. /\ adding \in HandlerEvent /\ callbacks # None
      /\ adding \in DOMAIN callbacks /\ callbacks[adding] < MaxCallbacks
  BY DEF AddCallback, AddingToList, Listed, TypeOK
<1>2. PICK E \in SUBSET HandlerEvent : callbacks \in [E -> 0..MaxCallbacks]
  BY <1>1 DEF TypeOK, Lists
<1>3. callbacks[adding] + 1 \in 0..MaxCallbacks
  BY <1>1, <1>2, StartAssumption
<1>4. callbacks' = [callbacks EXCEPT ![adding] = @ + 1]
  BY DEF AddCallback
<1>5. callbacks' \in [E -> 0..MaxCallbacks]
  BY <1>1, <1>2, <1>3, <1>4
<1>6. callbacks' \in Lists
  BY <1>5 DEF Lists
<1>7. callbacks' # None
  BY <1>6, StartAssumption
<1> QED
  BY <1>1, <1>6, <1>7 DEF AddCallback, TypeOK, main, handlers, delivery

\* The actions of the worker loops.
LEMMA InitialiseTypes ==
  ASSUME TypeOK, PipesAreReady, NEW c \in Channel,
         Accept(c) \/ LoopCloses(c) \/ Initialise(c)
  PROVE  TypeOK'
<1> USE StartAssumption DEF TypeOK, main, adders, handlers, delivery, Stages
<1>1. CASE Accept(c)
  BY <1>1 DEF Accept
<1>2. CASE LoopCloses(c)
  BY <1>2 DEF LoopCloses
<1>3. CASE AddListenerHandler(c)
  BY <1>3 DEF AddListenerHandler
<1>4. CASE Cached(c)
  BY <1>4 DEF Cached
<1>5. CASE NotCached(c)
  BY <1>5 DEF NotCached
<1>6. CASE Cache(c)
  BY <1>6 DEF Cache
<1>7. CASE InitHandler(c)
  BY <1>7 DEF InitHandler, PipesAreReady
<1> QED
  BY <1>1, <1>2, <1>3, <1>4, <1>5, <1>6, <1>7 DEF Initialise

LEMMA EventTypes ==
  ASSUME TypeOK, NEW c \in Channel, NEW e \in HandlerEvent, Event(c, e)
  PROVE  TypeOK'
<1>1. [c |-> c, e |-> e, n |-> 0, size |-> Size(e)] \in Round
  BY ListsTypes, StartAssumption DEF Round
<1>2. handing' \in [Worker -> Round \cup {None}]
  BY <1>1 DEF Event, TypeOK
<1> QED
  BY <1>2 DEF Event, TypeOK, main, adders, handlers

LEMMA CallbackTypes ==
  ASSUME TypeOK, NEW w \in Worker, Callback(w)
  PROVE  TypeOK'
<1>1. handing[w] \in Round
  BY DEF TypeOK, Callback
<1>2. handing' \in [Worker -> Round \cup {None}] /\ lost' \in BOOLEAN
  <2>1. CASE handing[w].n < Size(handing[w].e) /\ Size(handing[w].e) = handing[w].size
    <3>1. [handing[w] EXCEPT !.n = @ + 1] \in Round
      BY <1>1, <2>1, StartAssumption DEF Round
    <3> QED
      BY <2>1, <3>1 DEF Callback, TypeOK
  <2>2. CASE ~(handing[w].n < Size(handing[w].e) /\ Size(handing[w].e) = handing[w].size)
    BY <2>2 DEF Callback, TypeOK
  <2> QED
    BY <2>1, <2>2
<1> QED
  BY <1>2 DEF Callback, TypeOK, main, adders, handlers

-----------------------------------------------------------------------------
\* Where nothing was accepted, all channels know the callbacks.
LEMMA UntouchedKnows == ASSUME Untouched PROVE Knows
  BY DEF Untouched, Knows, Silent

\* The steps of the user's thread and of the boss loop leave the channels and
\* the callbacks alone.
LEMMA MainKeeps ==
  ASSUME StartInv, UserStep \/ BossStep \/ BeforeDestroy \/ BeforeDestroyThrows
  PROVE  StartInv'
<1>1. TypeOK'
  BY MainTypes DEF StartInv
<1>2. UNCHANGED <<adder, adders, handlers, delivery, stage>>
  <2> USE DEF UserGoes
  <2>1. UserStep => UNCHANGED <<adder, adders, handlers, delivery, stage>>
    BY DEF UserStep, Start, BindStartListener, CloseServerSession, CloseBootstrap
  <2>2. BossStep => UNCHANGED <<adder, adders, handlers, delivery, stage>>
    BY DEF BossStep, Bound, BindFailed, ListenerNotified, StartSuccessful,
       RunnerThrows, BossCloses
  <2> QED
    BY <2>1, <2>2 DEF BeforeDestroy, BeforeDestroyThrows
<1>3. AddingToList' /\ PipesAreReady'
  BY <1>2 DEF StartInv, AddingToList, PipesAreReady, Listed, adders, handlers
<1>4. /\ Silent' = Silent /\ Untouched' = Untouched /\ Knows' = Knows
      /\ callbacks' = callbacks /\ adding' = adding /\ adder' = adder
  BY <1>2 DEF Silent, Untouched, Knows, Size, Listed, adders, handlers, delivery
<1>5. BindComesFirst' /\ RunnersAdd' /\ RunnersFirst' /\ Informed'
  <2> USE <1>4, UntouchedKnows
      DEF StartInv, BindComesFirst, RunnersAdd, RunnersFirst, Informed, UserGoes
  <2>1. CASE Start
    BY <2>1 DEF Start
  <2>2. CASE BindStartListener
    BY <2>2 DEF BindStartListener
  <2>3. CASE CloseServerSession
    BY <2>3 DEF CloseServerSession
  <2>4. CASE CloseBootstrap
    BY <2>4 DEF CloseBootstrap
  <2>5. CASE Bound
    BY <2>5 DEF Bound, ListenerRuns
  <2>6. CASE BindFailed
    BY <2>6 DEF BindFailed, ListenerFails
  <2>7. CASE ListenerNotified
    BY <2>7 DEF ListenerNotified, ListenerRuns, ListenerFails
  <2>8. CASE StartSuccessful
    BY <2>8 DEF StartSuccessful
  <2>9. CASE RunnerThrows
    BY <2>9 DEF RunnerThrows
  <2>10. CASE BossCloses
    BY <2>10 DEF BossCloses
  <2>11. CASE BeforeDestroy
    BY <2>11 DEF BeforeDestroy
  <2>12. CASE BeforeDestroyThrows
    BY <2>12 DEF BeforeDestroyThrows
  <2> QED
    BY <2>1, <2>2, <2>3, <2>4, <2>5, <2>6, <2>7, <2>8, <2>9, <2>10, <2>11, <2>12
       DEF UserStep, BossStep
<1> QED
  BY <1>1, <1>3, <1>5 DEF StartInv

\* Adding a callback leaves the threads and the channels alone; the runners
\* add while they run.
LEMMA AddingKeeps ==
  ASSUME StartInv, AddCallback \/ \E e \in HandlerEvent : AddHandlerListener(e)
  PROVE  StartInv'
<1>1. TypeOK' /\ callbacks' # None /\ AddingToList'
  <2>1. CASE AddCallback
    BY <2>1, AddCallbackTypes DEF StartInv, AddingToList
  <2>2. ASSUME NEW e \in HandlerEvent, AddHandlerListener(e)
        PROVE  TypeOK' /\ callbacks' # None /\ AddingToList'
    BY <2>2, AddHandlerListenerTypes DEF StartInv, AddingToList, AddHandlerListener
  <2> QED
    BY <2>1, <2>2
<1>2. UNCHANGED <<main, handlers, delivery, stage>>
  BY DEF AddCallback, AddHandlerListener
<1>3. adder = "runner" => boss = "runners"
  BY DEF AddCallback, AddHandlerListener, MayAdd, StartInv, RunnersAdd
<1>4. /\ Silent' = Silent /\ Untouched' = Untouched
  BY <1>2 DEF Silent, Untouched, handlers, delivery
<1>5. PipesAreReady'
  BY <1>2 DEF StartInv, PipesAreReady, handlers
<1>6. BindComesFirst' /\ RunnersAdd' /\ RunnersFirst' /\ Informed'
  BY <1>1, <1>2, <1>3, <1>4
     DEF StartInv, BindComesFirst, RunnersAdd, RunnersFirst, Informed, main
<1> QED
  BY <1>1, <1>5, <1>6 DEF StartInv

-----------------------------------------------------------------------------
\* A step of a channel that was accepted, or of its loop, leaves the threads
\* and the callbacks alone, and happens only after the bind and not while
\* runners that are in time add.
Inside ==
    /\ UNCHANGED <<main, adders>>
    /\ bind = "bound" /\ (boss = "runners" => late)

LEMMA InsideKeeps ==
  ASSUME StartInv, Inside, TypeOK', PipesAreReady',
         (callbacks = None /\ adder = "runner") => Silent',
         (callbacks # None /\ Knows) => Knows'
  PROVE  StartInv'
<1>1. AddingToList'
  BY DEF Inside, adders, StartInv, AddingToList, Listed
<1>2. BindComesFirst' /\ RunnersAdd' /\ RunnersFirst' /\ Informed'
  BY DEF Inside, main, adders, StartInv, BindComesFirst, RunnersAdd, RunnersFirst,
     Informed
<1> QED
  BY <1>1, <1>2 DEF StartInv

\* A channel is accepted by the boss loop.
LEMMA AcceptKeeps ==
  ASSUME StartInv, NEW c \in Channel, Accept(c)
  PROVE  StartInv'
<1>1. TypeOK'
  BY InitialiseTypes DEF StartInv
<1>2. Inside
  BY DEF Accept, Inside, StartInv, BindComesFirst
<1>3. PipesAreReady'
  BY DEF Accept, StartInv, TypeOK, PipesAreReady, handlers
<1>4. Silent' = Silent
  BY DEF Accept, Silent, delivery
<1>5. Knows => Knows'
  BY DEF Accept, StartInv, TypeOK, Knows, Size, Listed, handlers, adders, delivery
<1> QED
  BY <1>1, <1>2, <1>3, <1>4, <1>5, InsideKeeps DEF StartInv, RunnersAdd

\* An accepted channel shows that the bind was over.
LEMMA TouchedInside ==
  ASSUME StartInv, ~Untouched, UNCHANGED <<main, adders>>
  PROVE  Inside
  BY DEF Inside, StartInv, BindComesFirst, RunnersFirst

\* initChannel, and the end of a channel.
LEMMA InitialiseKeeps ==
  ASSUME StartInv, NEW c \in Channel, LoopCloses(c) \/ Initialise(c)
  PROVE  StartInv'
<1>1. TypeOK'
  BY InitialiseTypes DEF StartInv
<1>2. stage[c] # "new" /\ UNCHANGED <<main, adders, delivery>>
  BY DEF LoopCloses, Initialise, AddListenerHandler, Cached, NotCached, Cache,
     InitHandler
<1>3. Inside
  BY <1>2, TouchedInside DEF Untouched
<1>4. Silent' = Silent
  BY <1>2 DEF Silent, delivery
<1>5. \A e : Size(e)' = Size(e)
  BY <1>2 DEF Size, Listed, adders
<1>6. PipesAreReady' /\ ((callbacks # None /\ Knows) => Knows')
  <2> USE <1>2, <1>5, StartAssumption
      DEF StartInv, TypeOK, PipesAreReady, Knows, handlers, delivery
  <2>1. CASE LoopCloses(c)
    BY <2>1 DEF LoopCloses
  <2>2. CASE AddListenerHandler(c)
    <3>1. PipesAreReady'
      BY <2>2 DEF AddListenerHandler
    <3>2. ASSUME callbacks # None, Knows, NEW d \in Channel
          PROVE  /\ stage'[d] \in {"find", "put", "init", "open"} => listens'[d]
                 /\ stage'[d] \in {"put", "init", "open"} => heeds'[pipe'[d]]
      BY <2>2, <3>2 DEF AddListenerHandler
    <3>3. UNCHANGED <<cache, heeds, handing, lost>>
      BY <2>2 DEF AddListenerHandler
    <3> QED
      BY <3>1, <3>2, <3>3
  <2>3. CASE Cached(c)
    BY <2>3 DEF Cached
  <2>4. CASE NotCached(c)
    BY <2>4 DEF NotCached
  <2>5. CASE Cache(c)
    BY <2>5 DEF Cache
  <2>6. CASE InitHandler(c)
    BY <2>6 DEF InitHandler
  <2> QED
    BY <2>1, <2>2, <2>3, <2>4, <2>5, <2>6 DEF Initialise
<1> QED
  BY <1>1, <1>3, <1>4, <1>6, InsideKeeps DEF StartInv, RunnersAdd

\* An event is taken up, when there are callbacks for it.
LEMMA EventKeeps ==
  ASSUME StartInv, NEW c \in Channel, NEW e \in HandlerEvent, Event(c, e)
  PROVE  StartInv'
<1>1. TypeOK'
  BY EventTypes DEF StartInv
<1>2. callbacks # None
  BY DEF Event, Size, Listed
<1>3. Inside
  BY TouchedInside DEF Event, Untouched
<1>4. PipesAreReady'
  BY DEF Event, StartInv, PipesAreReady, handlers
<1>5. Knows => Knows'
  <2>1. \A x : Size(x)' = Size(x)
    BY DEF Event, Size, Listed, adders
  <2> QED
    BY <2>1 DEF Event, StartInv, TypeOK, Knows, handlers
<1> QED
  BY <1>1, <1>2, <1>3, <1>4, <1>5, InsideKeeps

\* One callback is called, or the round ends; with the list as long as it
\* was when the round began, it does not end early.
LEMMA CallbackKeeps ==
  ASSUME StartInv, NEW w \in Worker, Callback(w)
  PROVE  StartInv'
<1>1. TypeOK'
  BY CallbackTypes DEF StartInv
<1>2. handing[w] # None /\ handing[w] \in Round
  BY DEF Callback, StartInv, TypeOK
<1>3. Inside
  BY <1>2, TouchedInside DEF Callback, Untouched, Silent
<1>4. (callbacks = None /\ adder = "runner") => FALSE
  BY <1>2 DEF StartInv, RunnersAdd, Silent
<1>5. PipesAreReady'
  BY DEF Callback, StartInv, PipesAreReady, handlers
<1>6. Knows => Knows'
  <2> HAVE Knows
  <2>1. handing[w].size = Size(handing[w].e) /\ ~lost
    BY <1>2 DEF Knows
  <2>2. ~lost'
    BY <2>1 DEF Callback
  <2>3. \A x : Size(x)' = Size(x)
    BY DEF Callback, Size, Listed, adders
  <2>4. \A v \in Worker : v # w => handing'[v] = handing[v]
    BY DEF Callback, StartInv, TypeOK
  <2>5. handing'[w] # None => /\ handing'[w].size = handing[w].size
                              /\ handing'[w].e = handing[w].e
    BY <1>2 DEF Callback, StartInv, TypeOK, Round
  <2> QED
    BY <2>1, <2>2, <2>3, <2>4, <2>5 DEF Callback, Knows, handlers
<1> QED
  BY <1>1, <1>3, <1>4, <1>5, <1>6, InsideKeeps

-----------------------------------------------------------------------------
\* A server's start and its end keep StartInv: handlers are in the pipelines
\* and initialised before their first event, and what the runners add in time
\* is known to every channel.
THEOREM StartInvariant == Spec => []StartInv
<1>1. Init => StartInv
  <2> SUFFICES ASSUME Init PROVE StartInv
    OBVIOUS
  <2>1. TypeOK
    BY InitTypes
  <2>2. Untouched /\ Silent
    BY DEF Init, Untouched, Silent
  <2> QED
    BY <2>1, <2>2 DEF Init, StartInv, AddingToList, PipesAreReady, BindComesFirst,
       RunnersAdd, RunnersFirst, Informed
<1>2. StartInv /\ [Next]_vars => StartInv'
  <2> SUFFICES ASSUME StartInv, [Next]_vars PROVE StartInv'
    OBVIOUS
  <2>1. CASE Next
    BY <2>1, MainKeeps, AddingKeeps, AcceptKeeps, InitialiseKeeps, EventKeeps,
       CallbackKeeps DEF Next, WorkerStep
  <2>2. CASE UNCHANGED vars
    BY <2>2 DEF vars, main, adders, handlers, delivery, StartInv, TypeOK,
       AddingToList, Listed, PipesAreReady, BindComesFirst, Untouched, Silent,
       RunnersAdd, RunnersFirst, Informed, Knows, Size
  <2> QED
    BY <2>1, <2>2
<1> QED
  BY <1>1, <1>2, PTL DEF Spec

\* The lists of callbacks, the handler cache and the pipelines keep their
\* types while listeners are added, channels are accepted and events handled.
THEOREM StartTypes == Spec => []TypeOK
<1>1. StartInv => TypeOK
  BY DEF StartInv
<1> QED
  BY <1>1, StartInvariant, PTL

\* getCache gives every channel a message handler that is initialised before
\* its first event, whatever loops race for the cache.
THEOREM HandlersAreReady == Spec => []ReadyBeforeEvents
<1>1. StartInv => ReadyBeforeEvents
  BY StartAssumption DEF StartInv, PipesAreReady, ReadyBeforeEvents
<1> QED
  BY <1>1, StartInvariant, PTL

\* Callbacks added by the runners of a listener that was bound in time hear
\* every channel, and no event is lost to them.
THEOREM RunnersAddInTime == Spec => []RunnersAreInTime
<1>1. StartInv => RunnersAreInTime
  <2> SUFFICES ASSUME StartInv, adder = "runner", ~late
               PROVE  /\ \A c \in Channel :
                            (stage[c] = "open" /\ \E e \in HandlerEvent : Size(e) > 0)
                              => listens[c] /\ heeds[pipe[c]]
                      /\ ~lost
    BY DEF RunnersAreInTime
  <2>1. CASE callbacks = None
    BY <2>1 DEF StartInv, RunnersAdd, Silent, Size, Listed
  <2>2. CASE callbacks # None /\ boss = "runners"
    BY <2>2 DEF StartInv, RunnersFirst, Untouched, Silent
  <2>3. CASE callbacks # None /\ boss \in {"started", "threw"}
    BY <2>3 DEF StartInv, Informed, Knows
  <2> QED
    BY <2>1, <2>2, <2>3 DEF StartInv, TypeOK, RunnersAdd
<1> QED
  BY <1>1, StartInvariant, PTL
=============================================================================
