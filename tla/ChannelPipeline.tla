--------------------------- MODULE ChannelPipeline ---------------------------
(***************************************************************************)
(* The pipeline SocketApplication.initializerChannel assembles, and how    *)
(* one event after the other travels through it: the handlers of           *)
(* handler/impl, the adapters of handler/adapter that an application's     *)
(* handlers extend, and the hooks that may throw in them.                  *)
(*                                                                         *)
(* A handler runs its hooks and passes the event on.  Netty hands what a   *)
(* handler throws to exceptionCaught of the same handler, from where it    *)
(* travels on like an event; what exceptionCaught throws is logged.  The   *)
(* call chain of channelRead then unwinds, and the handlers that own the   *)
(* message release it.  The application is taken to have a hook of every   *)
(* kind.  OnError methods are no hooks here: SocketAnnotationHandler hands *)
(* them the set of methods in the place of the cause.                      *)
(***************************************************************************)
EXTENDS Integers, Sequences, FiniteSets

CONSTANTS
    Configs,    \* the applications explored, see Config
    MaxEvents,  \* bound: the events of an open channel other than its life's
    MaxThrows   \* bound: the exceptions after which hooks throw no more

Custom == {"Adapter", "TypedAdapter"}

Kind == Custom \cup
    { "Registered", "Retry", "Intercept", "Listener", "Annotation",
      "Before", "Message", "After", "Unregistered" }

Config == [ app : {"server", "client"},
            listeners : BOOLEAN,        \* handlerListener is not empty
            inbound : Seq(Custom),      \* the application's inbound handlers
            autoRegister : BOOLEAN,     \* server.auto-register-session
            autoRetry : BOOLEAN,        \* client.auto-retry
            retrying : BOOLEAN ]        \* ClientApplication.retry

ASSUME PipelineAssumption == 
    Configs \subseteq Config /\ MaxEvents \in Nat /\ MaxThrows \in Nat

VARIABLES
    config,     \* the application
    pipeline,   \* the handlers of the channel
    life,       \* the last event of the channel's life that netty has fired
    left,       \* how many other events may still come
    event,      \* the event under way, or "none"
    at,         \* the place in the pipeline that has it
    origin,     \* where the exception under way was thrown, 0: by the network
    heard,      \* an error hook of the application has been told of it
    owners,     \* the handlers that will release the message
    refs,       \* the reference count of the last message
    session,    \* what became of the channel's session in the registry
    threw,      \* the pairs of an event and a place at which a hook threw
    unheard,    \* the origins of the exceptions no error hook was told of
    seen        \* place -> the last event of the channel's life seen there

travel == <<event, at, origin, heard>>
message == <<owners, refs>>
history == <<threw, unheard, seen>>
vars == <<config, pipeline, life, left, travel, message, session, history>>

Life == {"new", "registered", "active", "inactive", "unregistered"}
Other == {"read", "complete", "idle"}
Event == (Life \ {"new"}) \cup Other \cup {"error", "release"}

TypeOK ==
    /\ config \in Configs
    /\ pipeline \in Seq(Kind)
    /\ life \in Life /\ left \in 0..MaxEvents
    /\ event \in Event \cup {"none"}
    /\ at \in 0..(Len(pipeline) + 1)
    /\ origin \in 0..Len(pipeline) /\ heard \in BOOLEAN
    /\ owners \in Seq(1..Len(pipeline)) /\ refs \in 0..1
    /\ session \in {"none", "online", "refused", "kicked", "removed"}
    /\ threw \in SUBSET (Event \X (1..Len(pipeline)))
    /\ unheard \in SUBSET (0..Len(pipeline))
    /\ seen \in [1..Len(pipeline) -> Life]

\* initializerChannel, without the coders and the handlers that have no hooks.
Assembled(c) ==
    (IF c.app = "server" THEN <<"Registered">> ELSE <<"Retry">>)
        \o <<"Intercept">>
        \o (IF c.listeners THEN <<"Listener">> ELSE <<>>)
        \o <<"Annotation", "Before", "Message">>
        \o c.inbound
        \o <<"After">>
        \o (IF c.app = "server" THEN <<"Unregistered">> ELSE <<>>)

Places == 1..Len(pipeline)

Init ==
    /\ config \in Configs
    /\ pipeline = Assembled(config)
    /\ life = "new" /\ left = MaxEvents
    /\ event = "none" /\ at = 0
    /\ origin = 0 /\ heard = FALSE
    /\ owners = <<>> /\ refs = 0
    /\ session = "none"
    /\ threw = {} /\ unheard = {}
    /\ seen = [i \in Places |-> "new"]

-----------------------------------------------------------------------------
(* Netty fires an event at the head of the pipeline.                       *)

\* A hook may close the channel while it is registered, and a client's
\* connect may fail.
NextLife ==
    CASE life = "new"        -> {"registered"}
      [] life = "registered" -> IF config.app = "server" THEN {"active", "inactive"}
                                                         ELSE {"active", "unregistered"}
      [] life = "active"     -> {"inactive"}
      [] life = "inactive"   -> {"unregistered"}
      [] OTHER               -> {}

Fire(e) ==
    /\ event = "none"
    /\ event' = e /\ at' = 1

FireLife ==
    \E e \in NextLife :
        /\ Fire(e) /\ life' = e
        /\ UNCHANGED <<config, pipeline, left, origin, heard, message, session, history>>

FireOther ==
    /\ life = "active" /\ left > 0
    /\ left' = left - 1
    /\ \E e \in IF config.app = "server" THEN Other ELSE Other \ {"idle"} :
          /\ Fire(e)
          /\ refs' = IF e = "read" THEN 1 ELSE refs
    /\ UNCHANGED <<config, pipeline, life, origin, heard, owners, session, history>>

\* The connection breaks: an exception enters at the head.
FireError ==
    /\ life = "active" /\ left > 0
    /\ left' = left - 1
    /\ Fire("error")
    /\ origin' = 0 /\ heard' = FALSE
    /\ UNCHANGED <<config, pipeline, life, message, session, history>>

\* Another thread deregisters the session.
Kick ==
    /\ session = "online"
    /\ session' = "kicked"
    /\ UNCHANGED <<config, pipeline, life, left, travel, message, history>>

-----------------------------------------------------------------------------
(* The handlers.                                                           *)

Here == pipeline[at]

\* The handler at the head has the event e.
AtHandler(e) == event = e /\ at \in Places

\* The events a handler overrides with hooks that may throw.  What annotated
\* methods throw, AnnotationProxy.invoke catches.
Hooked(kind) ==
    CASE kind = "Registered" -> {"registered"}
      [] kind = "Unregistered" -> {"unregistered"}
      [] kind \in {"Intercept", "Listener"} ->
             (Life \ {"new"}) \cup {"complete", "idle", "error"}
      [] kind \in {"Before", "Message", "After"} -> {"read"}
      [] kind \in Custom -> (Life \ {"new"}) \cup Other \cup {"error"}
      [] OTHER -> {}

\* Faulty: a handler that does not pass the last event on.
PassedOnNot(kind, e) ==
    IF kind = "Intercept" /\ e = "unregistered" THEN "none" ELSE e

\* Faulty: a method copied from the one below it.
PassedOnCopied(kind, e) ==
    IF kind = "Intercept" /\ e = "registered" THEN "unregistered" ELSE e

\* The event a handler passes on, if any: ClientRetryHandler passes
\* registered on as unregistered.
PassedOn(kind, e) ==
    CASE kind = "Retry" /\ e = "registered" ->
             IF config.retrying THEN "none" ELSE "unregistered"
      [] kind = "Retry" /\ e = "unregistered" ->
             IF config.autoRetry THEN "none" ELSE "unregistered"
      [] OTHER -> e

\* The place has seen the event.
See(e) == seen' = IF e \in Life THEN [seen EXCEPT ![at] = e] ELSE seen

\* A hook may still throw.
MayThrow == Cardinality(threw) < MaxThrows

\* What is thrown at this place goes to exceptionCaught of the same handler.
Throw ==
    /\ event' = "error" /\ at' = at
    /\ origin' = at /\ heard' = FALSE
    /\ threw' = threw \cup {<<event, at>>}

\* registrySession, and deregisterSession.
Registers == Here = "Registered" /\ event = "registered" /\ config.autoRegister
Deregisters == Here = "Unregistered" /\ event = "unregistered" /\ config.autoRegister

\* A message that the handler may take; it need not be of its type.
Takes == Here = "TypedAdapter" /\ event = "read"

\* A handler runs its hooks and passes the event on.
Pass ==
    /\ at \in Places /\ event \in Event \ {"error", "release"}
    /\ ~Registers /\ ~Deregisters
    /\ See(event)
    /\ event' = PassedOn(Here, event)
    /\ at' = IF PassedOn(Here, event) = "none" THEN 0 ELSE at + 1
    /\ UNCHANGED <<config, pipeline, life, left, origin, heard, message,
                   session, threw, unheard>>

\* A hook throws; in the registration handlers, one of the before hooks.
HookThrows ==
    /\ at \in Places /\ event \in Hooked(Here) \ {"error"} /\ ~Takes /\ MayThrow
    /\ See(event)
    /\ Throw
    /\ UNCHANGED <<config, pipeline, life, left, message, session, unheard>>

\* SocketSessionRegisteredHandler: another client may have the id.  The
\* registered hooks run in either case, and may throw.
Register ==
    /\ at \in Places /\ Registers
    /\ session' \in {"online", "refused"}
    /\ See(event)
    /\ \/ /\ at' = at + 1
          /\ UNCHANGED <<event, origin, heard, threw>>
       \/ MayThrow /\ Throw
    /\ UNCHANGED <<config, pipeline, life, left, message, unheard>>

\* Faulty: the session is not deregistered.
DeregisterQuietly ==
    /\ at \in Places /\ Deregisters
    /\ session' = session
    /\ See(event)
    /\ at' = at + 1
    /\ UNCHANGED <<config, pipeline, life, left, event, origin, heard, threw, message, unheard>>

\* Faulty: a session that is not found is made and registered.
DeregisterCreates ==
    /\ at \in Places /\ Deregisters
    /\ session' = IF session = "online" THEN "removed" ELSE "online"
    /\ See(event)
    /\ at' = at + 1
    /\ UNCHANGED <<config, pipeline, life, left, event, origin, heard, threw, message, unheard>>

\* SocketSessionUnregisteredHandler: deregisterSession fails on null when the
\* session is not in the registry.
Deregister ==
    /\ at \in Places /\ Deregisters
    /\ session' = IF session = "online" THEN "removed" ELSE session
    /\ See(event)
    /\ \/ /\ session = "online"
          /\ at' = at + 1
          /\ UNCHANGED <<event, origin, heard, threw>>
       \/ (session = "online" => MayThrow) /\ Throw
    /\ UNCHANGED <<config, pipeline, life, left, message, unheard>>

-----------------------------------------------------------------------------
(* AdapterSessionInboundTypeHandler.channelRead: a message of the          *)
(* handler's type is passed on and then released, as netty's               *)
(* SimpleChannelInboundHandler does after channelRead0; others are passed  *)
(* on only (Pass).                                                         *)

TakeMessage ==
    /\ at \in Places /\ Takes
    /\ owners' = Append(owners, at)
    /\ at' = at + 1
    /\ UNCHANGED <<config, pipeline, life, left, event, origin, heard, refs,
                   session, history>>

\* Faulty: a message whose hook throws stays with nobody.
TakeThrowsKeeping ==
    /\ at \in Places /\ Takes /\ MayThrow
    /\ Throw
    /\ UNCHANGED <<config, pipeline, life, left, message, session, unheard, seen>>

\* onMessage throws: the message is released first.
TakeThrows ==
    /\ at \in Places /\ Takes /\ MayThrow
    /\ refs' = refs - 1
    /\ Throw
    /\ UNCHANGED <<config, pipeline, life, left, owners, session, unheard, seen>>

\* The call chain unwinds to the handlers that still own the message.
Unwind(rest) ==
    IF rest = <<>> THEN event' = "none" /\ at' = 0
                   ELSE event' = "release" /\ at' = rest[Len(rest)]

AllButLast(seq) == SubSeq(seq, 1, Len(seq) - 1)

\* Faulty: an owner that cannot release tries again.
ReleaseAgain ==
    /\ event = "release"
    /\ IF refs = 0
       THEN Throw /\ UNCHANGED <<refs, owners>>
       ELSE /\ refs' = refs - 1 /\ owners' = AllButLast(owners)
            /\ Unwind(AllButLast(owners))
            /\ UNCHANGED <<origin, heard, threw>>
    /\ UNCHANGED <<config, pipeline, life, left, session, unheard, seen>>

\* Faulty: the count is not looked at.
ReleaseUnchecked ==
    /\ event = "release"
    /\ refs' = refs - 1 /\ owners' = AllButLast(owners)
    /\ Unwind(AllButLast(owners))
    /\ UNCHANGED <<config, pipeline, life, left, origin, heard, session, history>>

\* Releasing what is released already is an exception of this handler.
Release ==
    /\ event = "release"
    /\ owners' = AllButLast(owners)
    /\ IF refs = 0
       THEN Throw /\ UNCHANGED refs
       ELSE /\ refs' = refs - 1
            /\ Unwind(AllButLast(owners))
            /\ UNCHANGED <<origin, heard, threw>>
    /\ UNCHANGED <<config, pipeline, life, left, session, unheard, seen>>

-----------------------------------------------------------------------------
(* Exceptions, and the tail of the pipeline.                               *)

\* The handlers whose exceptionCaught tells hooks of the application.
Tells(kind) == "error" \in Hooked(kind)

\* Faulty: SocketInterceptHandler passes the exception on only.
PassErrorUntold ==
    /\ at \in Places /\ event = "error"
    /\ heard' = (heard \/ (Tells(Here) /\ Here # "Intercept"))
    /\ at' = at + 1
    /\ UNCHANGED <<config, pipeline, life, left, event, origin, message, session, history>>

\* exceptionCaught tells the hooks and passes the exception on.
PassError ==
    /\ at \in Places /\ event = "error"
    /\ heard' = (heard \/ Tells(Here))
    /\ at' = at + 1
    /\ UNCHANGED <<config, pipeline, life, left, event, origin, message, session, history>>

\* The exception is at its end.
Forget == origin' = 0 /\ heard' = FALSE

\* Netty only logs what an error hook throws.
ErrorHookThrows ==
    /\ at \in Places /\ event = "error" /\ Tells(Here) /\ MayThrow
    /\ Forget
    /\ threw' = threw \cup {<<event, at>>}
    /\ Unwind(owners)
    /\ UNCHANGED <<config, pipeline, life, left, message, session, unheard, seen>>

\* The tail releases a message and logs an exception.
ReachTail ==
    /\ at = Len(pipeline) + 1
    /\ refs' = IF event = "read" THEN refs - 1 ELSE refs
    /\ unheard' = IF event = "error" /\ ~heard THEN unheard \cup {origin} ELSE unheard
    /\ Unwind(owners) /\ Forget
    /\ UNCHANGED <<config, pipeline, life, left, owners, session, threw, seen>>

-----------------------------------------------------------------------------
LoopStep ==
    \/ Pass \/ HookThrows \/ Register \/ Deregister
    \/ TakeMessage \/ TakeThrows \/ Release
    \/ PassError \/ ErrorHookThrows \/ ReachTail

Next == FireLife \/ FireOther \/ FireError \/ Kick \/ LoopStep

Spec == Init /\ [][Next]_vars

\* The event loop runs on, and netty unregisters a channel that is inactive;
\* no client has to send or to leave.
Fairness == WF_vars(LoopStep) /\ WF_vars(life = "inactive" /\ FireLife)

FairSpec == Spec /\ Fairness

-----------------------------------------------------------------------------
(* Properties                                                              *)

\* When a channel is through, its session is still registered only if a hook
\* threw while the channel was unregistered: an exception in any other event,
\* a refusal or a kick by another thread never leaves a session behind.
LeftOnlyByUnregisteredHooks ==
    (life = "unregistered" /\ event = "none" /\ session = "online")
        => \E i \in Places : <<"unregistered", i>> \in threw

\* An exception the application is not told of was thrown behind every
\* handler that has error hooks, or by an error hook, in whose place netty logs
\* it: what the network or another hook of an earlier handler throws is heard.
UnheardOnlyFromBehind ==
    \A o \in unheard : \A i \in Places : i >= o => ~Tells(pipeline[i])

\* A reference-counted message is released when its events are over, unless
\* a hook of a handler that does not own it threw; the tail and the owners
\* never leave it to nobody.
MessageIsReleased ==
    (event = "none" /\ refs > 0)
        => \E i \in Places : <<"read", i>> \in threw /\ pipeline[i] # "TypedAdapter"

\* A handler of a server's channel sees the events of the channel's life in
\* their order and each at most once, although exceptions make it miss some.
Rank == [ new |-> 0, registered |-> 1, active |-> 2, inactive |-> 3, unregistered |-> 4 ]

LifeInOrder ==
    [][config.app = "server" =>
         \A i \in Places : seen'[i] # seen[i] =>
            Rank[seen[i]] < Rank[seen'[i]]]_vars

\* Every event and every exception it causes ends, whatever the hooks throw,
\* and the event loop is free for the next.
EventsEnd == event # "none" ~> event = "none"

\* A server's channel that is closed comes out of the registry, unless a hook
\* throws while it is unregistered.
ClosedIsDeregistered ==
    (config.app = "server" /\ life = "inactive")
        ~> (session # "online" \/ \E i \in Places : <<"unregistered", i>> \in threw)

-----------------------------------------------------------------------------
(* The life of the one session in the directory of SessionDirectory.       *)

Directory == INSTANCE SessionDirectory WITH
    Session <- {"client"}, Id <- {"id"}, None <- "none",
    entry <- [i \in {"id"} |-> IF session = "online" THEN "client" ELSE "none"],
    fate <- [s \in {"client"} |-> CASE session = "none" -> "outside"
                                      [] session = "online" -> "listed"
                                      [] OTHER -> "done"]

\* Hooks that throw anywhere in the pipeline never list a session twice, and
\* never again after it was taken out.
ImplementsDirectory == Directory!Spec

-----------------------------------------------------------------------------
(* The invariant behind the properties.                                    *)

Server == config.app = "server"

\* The registration handlers of a server are the ends of its pipeline, and
\* nothing in it retries; a client has none.
EndsOfPipeline ==
    /\ Len(pipeline) > 0
    /\ \A i \in Places :
          /\ pipeline[i] = "Registered" <=> (Server /\ i = 1)
          /\ pipeline[i] = "Unregistered" <=> (Server /\ i = Len(pipeline))
          /\ pipeline[i] = "Retry" => ~Server

\* What is under way is somewhere, and an owner waits only while it is.
UnderWay ==
    /\ event # "none" => at > 0
    /\ event = "release" => at \in Places
    /\ owners # <<>> => event \in {"read", "release", "error"}

\* On a server a place has seen no more than netty has fired, and less when
\* the event has still to come there.
SeenSoFar ==
    Server => /\ event \in Life => event = life
              /\ \A i \in Places :
                    /\ Rank[seen[i]] <= Rank[life]
                    /\ (event \in Life /\ i >= at) => Rank[seen[i]] < Rank[life]

\* A session is registered once, in the first step of a server's channel,
ListedOnce ==
    /\ session # "none" => Server /\ config.autoRegister
    /\ life = "new" => session = "none"
    /\ (event = "registered" /\ at = 1) => session = "none"

HookThrew(e) == \E i \in Places : <<e, i>> \in threw

\* and the event that takes it out is on its way, or met a hook that threw.
TakenOut ==
    (life = "unregistered" /\ session = "online")
        => (event = "unregistered" /\ at \in Places) \/ HookThrew("unregistered")

\* A message belongs to the event, to its owners, or to a hook that threw.
MessageHasOwner ==
    /\ event = "read" => refs = 1
    /\ refs = 1 => \/ event = "read"
                   \/ owners # <<>>
                   \/ \E i \in Places : <<"read", i>> \in threw /\ pipeline[i] # "TypedAdapter"

\* An exception that is still unheard has passed nobody who tells.
UnheardSoFar ==
    (event = "error" /\ ~heard)
        => \A i \in Places : (i >= origin /\ i < at) => ~Tells(pipeline[i])

PipelineInv ==
    /\ TypeOK /\ EndsOfPipeline /\ UnderWay /\ SeenSoFar
    /\ ListedOnce /\ TakenOut
    /\ MessageHasOwner /\ UnheardSoFar /\ UnheardOnlyFromBehind
=============================================================================
