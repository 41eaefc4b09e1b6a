----------------------- MODULE ClientApplication_proofs -----------------------
(***************************************************************************)
(* ClientInv is an invariant of the client, for any number of attempts and *)
(* any configuration; from it follow that connections never overlap, that  *)
(* reconnections in a row are bounded, and that a connected client has its *)
(* whole retry budget.                                                     *)
(***************************************************************************)
EXTENDS ClientApplication, TLAPS

-----------------------------------------------------------------------------
(* The queues.                                                             *)

\* What a sequence has when another one is put behind it.
LEMMA HasConcat ==
  ASSUME NEW S, NEW q \in Seq(S), NEW r \in Seq(S), NEW x
  PROVE  Has(q \o r, x) <=> Has(q, x) \/ Has(r, x)
<1> DEFINE all == q \o r
<1>1. Len(all) = Len(q) + Len(r) /\ DOMAIN all = 1..Len(all)
      /\ DOMAIN q = 1..Len(q) /\ DOMAIN r = 1..Len(r) /\ Len(q) \in Nat /\ Len(r) \in Nat
  OBVIOUS
<1>2. /\ \A i \in 1..Len(q) : all[i] = q[i]
      /\ \A i \in 1..Len(r) : all[Len(q) + i] = r[i]
  OBVIOUS
<1> HIDE DEF all
<1>3. ASSUME NEW i \in 1..Len(all), all[i] = x PROVE Has(q, x) \/ Has(r, x)
  <2>1. CASE i <= Len(q)
    BY <1>1, <1>2, <1>3, <2>1 DEF Has
  <2>2. CASE i > Len(q)
    <3>1. i - Len(q) \in 1..Len(r) /\ i = Len(q) + (i - Len(q))
      BY <1>1, <2>2
    <3>2. r[i - Len(q)] = x
      BY <1>2, <1>3, <3>1
    <3> QED
      BY <1>1, <3>1, <3>2 DEF Has
  <2> QED
    BY <1>1, <2>1, <2>2
<1>4. Has(q, x) => Has(all, x)
  BY <1>1, <1>2 DEF Has
<1>5. ASSUME NEW i \in 1..Len(r), r[i] = x PROVE Has(all, x)
  <2>1. Len(q) + i \in 1..Len(all) /\ all[Len(q) + i] = x
    BY <1>1, <1>2, <1>5
  <2> QED
    BY <1>1, <2>1 DEF Has
<1> QED
  BY <1>1, <1>3, <1>4, <1>5 DEF Has, all

\* What a sequence has is its head, or is behind it.
LEMMA HasTail ==
  ASSUME NEW S, NEW q \in Seq(S), q # <<>>, NEW x
  PROVE  Has(q, x) <=> x = Head(q) \/ Has(Tail(q), x)
<1> DEFINE t == Tail(q)
<1>1. Len(q) > 0 /\ Len(t) = Len(q) - 1 /\ DOMAIN t = 1..Len(t)
      /\ DOMAIN q = 1..Len(q) /\ Len(q) \in Nat /\ Head(q) = q[1]
  OBVIOUS
<1>2. \A i \in 1..Len(t) : t[i] = q[i + 1]
  OBVIOUS
<1> HIDE DEF t
<1>3. ASSUME NEW i \in 1..Len(q), q[i] = x, i # 1 PROVE Has(t, x)
  <2>1. i - 1 \in 1..Len(t) /\ (i - 1) + 1 = i
    BY <1>1, <1>3
  <2> QED
    BY <1>1, <1>2, <1>3, <2>1 DEF Has
<1>4. ASSUME NEW i \in 1..Len(t), t[i] = x PROVE Has(q, x)
  <2>1. i + 1 \in 1..Len(q) /\ q[i + 1] = x
    BY <1>1, <1>2, <1>4
  <2> QED
    BY <1>1, <2>1 DEF Has
<1> QED
  BY <1>1, <1>3, <1>4 DEF Has, t

\* A queue loses the channel once if one of its parts does and the other not.
LEMMA OnceConcat ==
  ASSUME NEW S, NEW q \in Seq(S), NEW r \in Seq(S),
         \/ LosesNothing(q) /\ LosesOnce(r)
         \/ LosesOnce(q) /\ LosesNothing(r)
  PROVE  LosesOnce(q \o r)
<1> DEFINE all == q \o r
<1>1. Len(all) = Len(q) + Len(r) /\ DOMAIN all = 1..Len(all)
      /\ DOMAIN q = 1..Len(q) /\ DOMAIN r = 1..Len(r) /\ Len(q) \in Nat /\ Len(r) \in Nat
  OBVIOUS
<1>2. /\ \A i \in 1..Len(q) : all[i] = q[i]
      /\ \A i \in 1..Len(r) : all[Len(q) + i] = r[i]
  OBVIOUS
<1> HIDE DEF all
<1>3. ASSUME NEW i \in 1..Len(all)
      PROVE  \/ i \in 1..Len(q) /\ all[i] = q[i]
             \/ i - Len(q) \in 1..Len(r) /\ all[i] = r[i - Len(q)]
  <2>1. CASE i <= Len(q)
    BY <1>1, <1>2, <2>1
  <2>2. CASE i > Len(q)
    <3>1. i - Len(q) \in 1..Len(r) /\ i = Len(q) + (i - Len(q))
      BY <1>1, <2>2
    <3> QED
      BY <1>2, <3>1
  <2> QED
    BY <1>1, <2>1, <2>2
<1>4. ASSUME NEW i \in 1..Len(all), NEW j \in 1..Len(all),
             all[i] \in Losing, all[j] \in Losing
      PROVE  i = j
  <2>1. CASE LosesNothing(q) /\ LosesOnce(r)
    <3>1. ASSUME NEW m \in 1..Len(q) PROVE q[m] \notin Losing
      BY <1>1, <2>1 DEF LosesNothing, Has
    <3>2. /\ i - Len(q) \in 1..Len(r) /\ r[i - Len(q)] \in Losing
          /\ j - Len(q) \in 1..Len(r) /\ r[j - Len(q)] \in Losing
      BY <1>3, <1>4, <3>1
    <3>3. i - Len(q) = j - Len(q)
      BY <1>1, <2>1, <3>2 DEF LosesOnce
    <3> QED
      BY <1>1, <3>3
  <2>2. CASE LosesOnce(q) /\ LosesNothing(r)
    <3>1. ASSUME NEW m \in 1..Len(r) PROVE r[m] \notin Losing
      BY <1>1, <2>2 DEF LosesNothing, Has
    <3>2. /\ i \in 1..Len(q) /\ q[i] \in Losing
          /\ j \in 1..Len(q) /\ q[j] \in Losing
      BY <1>3, <1>4, <3>1
    <3> QED
      BY <1>1, <2>2, <3>2 DEF LosesOnce
  <2> QED
    BY <2>1, <2>2
<1> QED
  BY <1>1, <1>4 DEF LosesOnce, all

\* Behind the event that loses the channel there is no other.
LEMMA OnceTail ==
  ASSUME NEW S, NEW q \in Seq(S), q # <<>>, LosesOnce(q)
  PROVE  LosesOnce(Tail(q)) /\ (Head(q) \in Losing => LosesNothing(Tail(q)))
<1> DEFINE t == Tail(q)
<1>1. Len(q) > 0 /\ Len(t) = Len(q) - 1 /\ DOMAIN t = 1..Len(t)
      /\ DOMAIN q = 1..Len(q) /\ Len(q) \in Nat /\ Head(q) = q[1]
  OBVIOUS
<1>2. \A i \in 1..Len(t) : t[i] = q[i + 1]
  OBVIOUS
<1> HIDE DEF t
<1>3. ASSUME NEW i \in 1..Len(t), t[i] \in Losing
      PROVE  i + 1 \in 1..Len(q) /\ q[i + 1] \in Losing /\ i + 1 # 1
  BY <1>1, <1>2, <1>3
<1>4. LosesOnce(t)
  <2> SUFFICES ASSUME NEW i \in 1..Len(t), NEW j \in 1..Len(t),
                      t[i] \in Losing, t[j] \in Losing
               PROVE  i = j
    BY <1>1 DEF LosesOnce
  <2>1. i + 1 = j + 1
    BY <1>1, <1>3 DEF LosesOnce
  <2> QED
    BY <1>1, <2>1
<1>5. ASSUME Head(q) \in Losing PROVE LosesNothing(t)
  <2>1. 1 \in 1..Len(q) /\ q[1] \in Losing
    BY <1>1, <1>5
  <2>2. ASSUME NEW i \in 1..Len(t) PROVE t[i] \notin Losing
    BY <1>1, <1>3, <2>1 DEF LosesOnce
  <2> QED
    BY <1>1, <2>2 DEF LosesNothing, Has
<1> QED
  BY <1>4, <1>5 DEF t

\* The event at the head is replaced by rest.
LEMMA HandleQueue ==
  ASSUME TypeOK, NEW n \in Attempt, NEW e, NEW rest \in Seq(Event), Handle(n, e, rest)
  PROVE  /\ queue' \in [Attempt -> Seq(Event)]
         /\ \A m \in Attempt : m # n => queue'[m] = queue[m]
         /\ queue[n] # <<>> /\ Has(queue[n], e)
         /\ \A x : Has(queue'[n], x) => Has(queue[n], x) \/ Has(rest, x)
         /\ \A x : Has(queue[n], x) => x = e \/ Has(queue'[n], x)
         /\ \A x : Has(rest, x) => Has(queue'[n], x)
         /\ (LosesOnce(queue[n]) /\ LosesNothing(rest)) => LosesOnce(queue'[n])
         /\ (LosesOnce(queue[n]) /\ e \in Losing) =>
                /\ LosesOnce(rest) => LosesOnce(queue'[n])
                /\ LosesNothing(rest) => LosesNothing(queue'[n])
         /\ (LosesNothing(queue[n]) /\ LosesNothing(rest)) => LosesNothing(queue'[n])
         /\ (queue[n] = <<e>> /\ rest = <<>>) => queue'[n] = <<>>
<1> DEFINE q == queue[n]
<1>1. q \in Seq(Event) /\ q # <<>> /\ Head(q) = e /\ Tail(q) \in Seq(Event)
  BY DEF Handle, TypeOK
<1>2. queue' = [queue EXCEPT ![n] = rest \o Tail(q)]
  BY DEF Handle
<1>3. queue'[n] = rest \o Tail(q) /\ \A m \in Attempt : m # n => queue'[m] = queue[m]
  BY <1>2 DEF TypeOK
<1>4. queue' \in [Attempt -> Seq(Event)]
  <2>1. rest \o Tail(q) \in Seq(Event)
    BY <1>1
  <2> QED
    BY <1>2, <2>1 DEF TypeOK
<1> HIDE DEF q
<1>5. \A x : Has(queue'[n], x) <=> Has(rest, x) \/ Has(Tail(q), x)
  <2> SUFFICES ASSUME NEW x PROVE Has(rest \o Tail(q), x) <=> Has(rest, x) \/ Has(Tail(q), x)
    BY <1>3
  <2> QED
    BY <1>1, HasConcat
<1>6. \A x : Has(q, x) <=> x = e \/ Has(Tail(q), x)
  BY <1>1, HasTail
<1>7. LosesOnce(q) => LosesOnce(Tail(q)) /\ (e \in Losing => LosesNothing(Tail(q)))
  BY <1>1, OnceTail
<1>8. LosesOnce(q) /\ LosesNothing(rest) => LosesOnce(queue'[n])
  BY <1>1, <1>3, <1>7, OnceConcat
<1>9. LosesOnce(q) /\ e \in Losing /\ LosesOnce(rest) => LosesOnce(queue'[n])
  BY <1>1, <1>3, <1>7, OnceConcat
<1>10. LosesOnce(q) /\ e \in Losing /\ LosesNothing(rest) => LosesNothing(queue'[n])
  BY <1>5, <1>7 DEF LosesNothing
<1>11. LosesNothing(q) /\ LosesNothing(rest) => LosesNothing(queue'[n])
  BY <1>5, <1>6 DEF LosesNothing
<1>12. q = <<e>> /\ rest = <<>> => queue'[n] = <<>>
  BY <1>3
<1> QED
  BY <1>1, <1>3, <1>4, <1>5, <1>6, <1>8, <1>9, <1>10, <1>11, <1>12 DEF q

\* Events are put behind the ones that wait.
LEMMA PostQueue ==
  ASSUME TypeOK, NEW n \in Attempt, NEW events \in Seq(Event), Post(n, events)
  PROVE  /\ queue' \in [Attempt -> Seq(Event)]
         /\ \A m \in Attempt : m # n => queue'[m] = queue[m]
         /\ \A x : Has(queue'[n], x) <=> Has(queue[n], x) \/ Has(events, x)
         /\ (LosesNothing(queue[n]) /\ LosesOnce(events)) => LosesOnce(queue'[n])
         /\ (LosesOnce(queue[n]) /\ LosesNothing(events)) => LosesOnce(queue'[n])
         /\ (LosesNothing(queue[n]) /\ LosesNothing(events)) => LosesNothing(queue'[n])
         /\ queue[n] = <<>> => queue'[n] = events
<1>1. queue[n] \in Seq(Event)
  BY DEF TypeOK
<1>2. /\ queue'[n] = queue[n] \o events
      /\ \A m \in Attempt : m # n => queue'[m] = queue[m]
      /\ queue' \in [Attempt -> Seq(Event)]
  <2>1. queue[n] \o events \in Seq(Event)
    BY <1>1
  <2> QED
    BY <2>1 DEF Post, TypeOK
<1>3. \A x : Has(queue'[n], x) <=> Has(queue[n], x) \/ Has(events, x)
  BY <1>1, <1>2, HasConcat
<1>4. (LosesNothing(queue[n]) /\ LosesOnce(events)) => LosesOnce(queue'[n])
  BY <1>1, <1>2, OnceConcat
<1>5. (LosesOnce(queue[n]) /\ LosesNothing(events)) => LosesOnce(queue'[n])
  BY <1>1, <1>2, OnceConcat
<1>6. (LosesNothing(queue[n]) /\ LosesNothing(events)) => LosesNothing(queue'[n])
  BY <1>3 DEF LosesNothing
<1>7. queue[n] = <<>> => queue'[n] = events
  BY <1>2
<1> QED
  BY <1>2, <1>3, <1>4, <1>5, <1>6, <1>7

\* The short sequences that the actions put into queues.
LEMMA ShortQueues ==
  /\ <<>> \in Seq(Event) /\ LosesNothing(<<>>) /\ \A x : ~Has(<<>>, x)
  /\ \A e \in Event : /\ <<e>> \in Seq(Event) /\ LosesOnce(<<e>>)
                      /\ \A x : Has(<<e>>, x) <=> x = e
                      /\ e \notin Losing => LosesNothing(<<e>>)
  /\ LET both == <<"listener", "unregistered">>
     IN  /\ both \in Seq(Event) /\ LosesOnce(both)
         /\ \A x : Has(both, x) <=> x \in {"listener", "unregistered"}
<1>1. \A x : ~Has(<<>>, x)
  BY DEF Has
<1>2. ASSUME NEW e \in Event
      PROVE  /\ <<e>> \in Seq(Event) /\ LosesOnce(<<e>>)
             /\ \A x : Has(<<e>>, x) <=> x = e
             /\ e \notin Losing => LosesNothing(<<e>>)
  <2>1. DOMAIN <<e>> = {1} /\ <<e>>[1] = e
    OBVIOUS
  <2> QED
    BY <2>1 DEF LosesOnce, LosesNothing, Has
<1>3. LET both == <<"listener", "unregistered">>
      IN  /\ both \in Seq(Event) /\ LosesOnce(both)
          /\ \A x : Has(both, x) <=> x \in {"listener", "unregistered"}
  <2> DEFINE both == <<"listener", "unregistered">>
  <2>1. /\ both \in Seq(Event) /\ DOMAIN both = {1, 2}
        /\ both[1] = "listener" /\ both[2] = "unregistered"
    BY DEF Event
  <2> HIDE DEF both
  <2>2. LosesOnce(both) /\ \A x : Has(both, x) <=> x \in {"listener", "unregistered"}
    BY <2>1 DEF LosesOnce, Has, Losing
  <2> QED
    BY <2>1, <2>2 DEF both
<1> QED
  BY <1>1, <1>2, <1>3 DEF LosesNothing

-----------------------------------------------------------------------------
(* The invariant.                                                          *)

LEMMA InitClient == Init => ClientInv
<1> SUFFICES ASSUME Init PROVE ClientInv
  OBVIOUS
<1>1. TypeOK
  <2>1. MaxAttempts \in Nat /\ 0 \in 0..MaxAttempts /\ 0 \in Nat /\ <<>> \in Seq(Event)
    BY ClientAssumption
  <2>2. config \in Configs /\ isStart = FALSE /\ retry = FALSE /\ exited = FALSE
        /\ retryCount = 0 /\ retries = 0 /\ monitor = 0 /\ session = 0
        /\ ending = "no" /\ closing = {} /\ open = TRUE
    BY DEF Init, Free
  <2>3. /\ start \in [Attempt -> {"none", "asked", "connecting", "cleared",
                                 "bound", "cancelled"}]
        /\ after \in [Attempt -> 0..MaxAttempts]
        /\ link \in [Attempt -> {"none", "pending", "up", "failed", "down"}]
        /\ queue \in [Attempt -> Seq(Event)]
    BY <2>1 DEF Init
  <2> QED
    BY <2>1, <2>2, <2>3 DEF TypeOK
<1>2. EventsFit /\ StartsAlone
  <2>1. ASSUME NEW n \in Attempt
        PROVE  /\ start[n] \in {"none", "asked"} /\ link[n] = "none" /\ queue[n] = <<>>
               /\ LosesOnce(<<>>)
    BY <2>1 DEF Init, LosesOnce
  <2> QED
    BY <2>1, ShortQueues DEF EventsFit, StartsAlone
<1>3. 1 \in Attempt /\ EarlierAreOver(1) /\ ResetByLast(1)
  BY ClientAssumption DEF Init, Attempt, EarlierAreOver, ResetByLast
<1>4. Chain
  BY <1>3 DEF Chain
<1>5. retries <= retryCount + 1 /\ RetriesBounded
  <2>1. config.retryCount \in Nat \cup {-1}
    BY ClientAssumption DEF Init, Config
  <2> QED
    BY <2>1 DEF Init, RetriesBounded
<1> QED
  BY <1>1, <1>2, <1>4, <1>5 DEF ClientInv, Init

\* Every step keeps the types, and no one sets IS_START.
LEMMA TypesKept ==
  ASSUME ClientInv, Next
  PROVE  TypeOK' /\ ~isStart'
<1> USE DEF flags, down
<1>1. /\ TypeOK /\ ~isStart /\ UNCHANGED config
      /\ Attempt \subseteq 0..MaxAttempts /\ Free \in 0..MaxAttempts
      /\ 0 \in 0..MaxAttempts /\ 0 \in Nat /\ \A i \in Nat : i + 1 \in Nat
  BY ClientAssumption DEF ClientInv, Next, Alive, Attempt, Free
<1>2. CASE UserStart
  BY <1>1, <1>2 DEF UserStart, TypeOK
<1>3. CASE Destroy
  <2>1. session # 0 => session \in Attempt
    BY <1>1, ClientAssumption DEF TypeOK, Attempt
  <2> QED
    BY <1>1, <1>3, <2>1 DEF Destroy, TypeOK
<1>4. CASE CloseBootstrap
  BY <1>1, <1>4 DEF CloseBootstrap, TypeOK
<1>5. ASSUME NEW n \in Attempt, Connecting(n) PROVE TypeOK' /\ ~isStart'
  <2>1. queue' \in [Attempt -> Seq(Event)]
    BY <1>1, <1>5, PostQueue, ShortQueues DEF Connecting, Event
  <2> QED
    BY <1>1, <1>5, <2>1 DEF Connecting, TypeOK
<1>6. ASSUME NEW n \in Attempt, ClearSession(n) PROVE TypeOK' /\ ~isStart'
  BY <1>1, <1>6 DEF ClearSession, TypeOK
<1>7. ASSUME NEW n \in Attempt, BindListener(n) PROVE TypeOK' /\ ~isStart'
  <2>1. queue' \in [Attempt -> Seq(Event)]
    <3>1. UNCHANGED queue \/ Post(n, <<"listener">>)
      BY <1>7 DEF BindListener
    <3>2. CASE UNCHANGED queue
      BY <1>1, <3>2 DEF TypeOK
    <3>3. CASE Post(n, <<"listener">>)
      BY <1>1, <3>3, PostQueue, ShortQueues DEF Event
    <3> QED
      BY <3>1, <3>2, <3>3
  <2> QED
    BY <1>1, <1>7, <2>1 DEF BindListener, TypeOK
<1>8. ASSUME NEW n \in Attempt, NEW e, NEW rest \in Seq(Event), Handle(n, e, rest)
      PROVE  queue' \in [Attempt -> Seq(Event)]
  BY <1>1, <1>8, HandleQueue
<1>9. <<>> \in Seq(Event) /\ <<"reset">> \in Seq(Event) /\ <<"count">> \in Seq(Event)
  BY ShortQueues DEF Event
<1>10. ASSUME NEW n \in Attempt, LoopStep(n) PROVE TypeOK' /\ ~isStart'
  <2>1. queue' \in [Attempt -> Seq(Event)]
    BY <1>8, <1>9, <1>10 DEF LoopStep, ChannelRegistered, ListenerSucceeds,
       ListenerThrows, ResetCount, ListenerFails, EnterConnect, CountRetry,
       PassUnregistered
  <2>2. CASE ChannelRegistered(n)
    BY <1>1, <2>1, <2>2 DEF ChannelRegistered, TypeOK
  <2>3. CASE \/ ListenerSucceeds(n) \/ ListenerThrows(n) \/ ResetCount(n)
             \/ ListenerFails(n) \/ PassUnregistered(n)
    <3>1. retry' \in BOOLEAN /\ isStart' = FALSE /\ exited' \in BOOLEAN
      BY <1>1, <2>3 DEF ListenerSucceeds, ListenerThrows, ResetCount,
         ListenerFails, PassUnregistered, TypeOK
    <3>2. retryCount' \in Nat
      BY <1>1, <2>3 DEF ListenerSucceeds, ListenerThrows, ResetCount,
         ListenerFails, PassUnregistered, TypeOK
    <3>3. UNCHANGED <<start, after, link, monitor, retries, session, down>>
      BY <2>3 DEF ListenerSucceeds, ListenerThrows, ResetCount,
         ListenerFails, PassUnregistered
    <3> QED
      BY <1>1, <2>1, <3>1, <3>2, <3>3 DEF TypeOK
  <2>4. CASE EnterConnect(n)
    BY <1>1, <2>1, <2>4 DEF EnterConnect, TypeOK
  <2>5. CASE CountRetry(n)
    BY <1>1, <2>1, <2>5 DEF CountRetry, TypeOK
  <2> QED
    BY <1>10, <2>2, <2>3, <2>4, <2>5 DEF LoopStep
<1>11. ASSUME NEW n \in Attempt, Connected(n) \/ ConnectFailed(n) \/ Disconnected(n)
       PROVE  TypeOK' /\ ~isStart'
  <2>1. \E events \in Seq(Event) : Post(n, events)
    <3>1. /\ Notify(n) \in Seq(Event) /\ <<"unregistered">> \in Seq(Event)
          /\ Notify(n) \o <<"unregistered">> \in Seq(Event)
      <4>1. Notify(n) \in Seq(Event) /\ <<"unregistered">> \in Seq(Event)
        BY ShortQueues DEF Notify, Event
      <4> QED
        BY <4>1
    <3> QED
      BY <1>11, <3>1 DEF Connected, ConnectFailed, Disconnected
  <2>2. queue' \in [Attempt -> Seq(Event)]
    BY <1>1, <2>1, PostQueue
  <2>3. link' \in [Attempt -> {"none", "pending", "up", "failed", "down"}]
        /\ retries' \in Nat
        /\ UNCHANGED <<start, after, flags, monitor, exited, session, down>>
    BY <1>1, <1>11 DEF Connected, ConnectFailed, Disconnected, TypeOK
  <2> QED
    BY <1>1, <2>2, <2>3 DEF TypeOK
<1>12. ASSUME NEW n \in Attempt, LoopCancels(n) PROVE TypeOK' /\ ~isStart'
  BY <1>1, <1>12 DEF LoopCancels, TypeOK
<1> QED
  BY <1>2, <1>3, <1>4, <1>5, <1>6, <1>7, <1>10, <1>11, <1>12
     DEF Next, StartStep, NetStep, LoopCloses

\* The next attempt is the one behind the last of the chain.
LEMMA FreshIsNext ==
  ASSUME TypeOK, NEW last \in Attempt, EarlierAreOver(last), Unused # {}
  PROVE  last + 1 \in Attempt /\ Fresh = last + 1 /\ start[last + 1] = "none"
<1>1. \A n \in Attempt : n \in Unused <=> n > last
  BY DEF Unused, EarlierAreOver
<1>2. Unused \subseteq Attempt /\ \A n \in Attempt : n \in Nat
  BY DEF Unused, Attempt
<1>3. last + 1 \in Unused /\ \A m \in Unused : last + 1 <= m
  <2>1. PICK n \in Unused : TRUE
    OBVIOUS
  <2>2. n > last /\ n \in Attempt
    BY <1>1, <1>2, <2>1
  <2>3. last + 1 \in Attempt
    BY <1>2, <2>2, ClientAssumption DEF Attempt
  <2> QED
    BY <1>1, <1>2, <2>3
<1>4. Fresh \in Unused /\ \A m \in Unused : Fresh <= m
  BY <1>3 DEF Fresh
<1>5. Fresh <= last + 1 /\ last + 1 <= Fresh
  BY <1>3, <1>4
<1> QED
  BY <1>2, <1>3, <1>4, <1>5 DEF Unused

\* What a channel's queue gets from a connection that fails.
LEMMA NotifyQueue ==
  ASSUME NEW n \in Attempt
  PROVE  /\ Notify(n) \in {<<>>, <<"listener">>}
         /\ Notify(n) \o <<"unregistered">> \in
                {<<"unregistered">>, <<"listener", "unregistered">>}
<1>1. <<>> \o <<"unregistered">> = <<"unregistered">>
  OBVIOUS
<1>2. <<"listener">> \o <<"unregistered">> = <<"listener", "unregistered">>
  <2> DEFINE a == <<"listener">>
             b == <<"unregistered">>
             both == <<"listener", "unregistered">>
             E == {"listener", "unregistered"}
  <2>1. a \in Seq(E) /\ b \in Seq(E) /\ both \in Seq(E)
    OBVIOUS
  <2>2. /\ Len(a) = 1 /\ Len(b) = 1 /\ Len(both) = 2
        /\ a[1] = "listener" /\ b[1] = "unregistered"
        /\ both[1] = "listener" /\ both[2] = "unregistered"
    OBVIOUS
  <2> HIDE DEF a, b, both, E
  <2>3. a \o b \in Seq(E) /\ Len(a \o b) = 2
    BY <2>1, <2>2
  <2>4. (a \o b)[1] = "listener"
    BY <2>1, <2>2
  <2>5. (a \o b)[2] = "unregistered"
    <3>1. \A i \in 1..Len(b) : (a \o b)[Len(a) + i] = b[i]
      BY <2>1
    <3>2. 1 \in 1..Len(b) /\ Len(a) + 1 = 2
      BY <2>2
    <3> QED
      BY <2>2, <3>1, <3>2
  <2>6. \A i \in 1..2 : (a \o b)[i] = both[i]
    BY <2>2, <2>4, <2>5
  <2>7. a \o b = both
    BY <2>1, <2>2, <2>3, <2>6
  <2> QED
    BY <2>7 DEF a, b, both
<1> QED
  BY <1>1, <1>2 DEF Notify


\* What waits at the channels stays in order.
LEMMA EventsKept ==
  ASSUME ClientInv, ~config.userStarts, Next
  PROVE  EventsFit' /\ StartsAlone'
<1> USE DEF EventsFit, StartsAlone, flags, down, Losing
<1>1. TypeOK /\ ~isStart /\ EventsFit /\ StartsAlone /\ Chain
  BY DEF ClientInv
<1>2. CASE UserStart
  BY <1>2 DEF UserStart
<1>3. CASE Destroy \/ CloseBootstrap
  BY <1>1, <1>3 DEF Destroy, CloseBootstrap
<1>4. ASSUME NEW n \in Attempt, Connecting(n) PROVE EventsFit' /\ StartsAlone'
  <2>1. start' = [start EXCEPT ![n] = "connecting"] /\ monitor' = n /\ monitor = Free
        /\ Post(n, <<"registered">>) /\ start[n] = "asked" /\ link' = link
    BY <1>1, <1>4 DEF Connecting
  <2>2. queue'[n] = <<"registered">> /\ \A m \in Attempt : m # n => queue'[m] = queue[m]
    BY <1>1, <2>1, PostQueue, ShortQueues DEF Event
  <2>3. /\ \A x : Has(<<"registered">>, x) <=> x = "registered"
        /\ LosesOnce(<<"registered">>) /\ LosesNothing(<<"registered">>)
    BY ShortQueues DEF Event
  <2>4. \A m \in Attempt : /\ start[m] \notin {"connecting", "cleared"}
                           /\ ~Has(queue[m], "count")
    BY <1>1, <2>1 DEF Free, Attempt
  <2>5. /\ start'[n] = "connecting" /\ link[n] = "none"
        /\ \A m \in Attempt : m # n => start'[m] = start[m]
    BY <1>1, <2>1 DEF TypeOK
  <2>6. EventsFit'
    BY <1>1, <2>1, <2>2, <2>3, <2>5
  <2>7. StartsAlone'
    BY <1>1, <2>1, <2>2, <2>3, <2>4, <2>5
  <2> QED
    BY <2>6, <2>7
<1>5. ASSUME NEW n \in Attempt, ClearSession(n) PROVE EventsFit' /\ StartsAlone'
  BY <1>1, <1>5 DEF ClearSession, TypeOK
<1>6. ASSUME NEW n \in Attempt, BindListener(n) PROVE EventsFit' /\ StartsAlone'
  <2>1. /\ start' = [start EXCEPT ![n] = "bound"] /\ start[n] = "cleared"
        /\ monitor = n /\ link' = link
    BY <1>1, <1>6 DEF BindListener
  <2>2. \A m \in Attempt : m # n => start[m] \notin {"connecting", "cleared"}
    BY <1>1, <2>1
  <2>3. CASE UNCHANGED queue
    BY <1>1, <2>1, <2>2, <2>3 DEF TypeOK
  <2>4. CASE Post(n, <<"listener">>) /\ link[n] \notin {"none", "pending"}
    <3>1. /\ \A m \in Attempt : m # n => queue'[m] = queue[m]
          /\ \A x : Has(queue'[n], x) <=> Has(queue[n], x) \/ x = "listener"
          /\ LosesOnce(queue[n]) => LosesOnce(queue'[n])
          /\ LosesNothing(queue[n]) => LosesNothing(queue'[n])
      BY <1>1, <2>4, PostQueue, ShortQueues DEF Event
    <3> QED
      BY <1>1, <2>1, <2>2, <2>4, <3>1 DEF TypeOK
  <2> QED
    BY <1>6, <2>3, <2>4 DEF BindListener
<1>7. ASSUME NEW n \in Attempt, ChannelRegistered(n) PROVE EventsFit' /\ StartsAlone'
  <2>1. /\ Has(queue[n], "registered") /\ queue[n] # <<>>
        /\ \A m \in Attempt : m # n => queue'[m] = queue[m]
        /\ queue[n] = <<"registered">> => queue'[n] = <<>>
    BY <1>1, <1>7, HandleQueue, ShortQueues DEF ChannelRegistered
  <2>2. queue'[n] = <<>> /\ start[n] \notin {"none", "asked", "cancelled"}
    BY <1>1, <2>1
  <2>3. LosesNothing(<<>>) /\ LosesOnce(<<>>) /\ \A x : ~Has(<<>>, x)
    BY ShortQueues DEF LosesOnce
  <2>4. link' = [link EXCEPT ![n] = "pending"] /\ UNCHANGED <<start, monitor>>
    BY <1>7 DEF ChannelRegistered
  <2>5. /\ link'[n] = "pending"
        /\ \A m \in Attempt : m # n => link'[m] = link[m]
    BY <1>1, <2>4 DEF TypeOK
  <2>6. EventsFit'
    BY <1>1, <2>1, <2>2, <2>3, <2>4, <2>5
  <2>7. StartsAlone'
    BY <1>1, <2>1, <2>2, <2>3, <2>4
  <2> QED
    BY <2>6, <2>7
<1>8. ASSUME NEW n \in Attempt,
             \/ ListenerSucceeds(n) \/ ListenerThrows(n) \/ ResetCount(n)
             \/ ListenerFails(n) \/ PassUnregistered(n)
      PROVE  EventsFit' /\ StartsAlone'
  <2>1. UNCHANGED <<start, link, monitor>>
    BY <1>8 DEF ListenerSucceeds, ListenerThrows, ResetCount, ListenerFails,
       PassUnregistered
  <2>2. PICK e \in {"listener", "reset", "unregistered"}, rest \in {<<>>, <<"reset">>} :
           Handle(n, e, rest) /\ (rest = <<"reset">> => link[n] \in {"up", "down"})
    BY <1>8 DEF ListenerSucceeds, ListenerThrows, ResetCount, ListenerFails,
       PassUnregistered
  <2>3. /\ \A x : Has(rest, x) => x = "reset" /\ link[n] \in {"up", "down"}
        /\ LosesNothing(rest) /\ rest \in Seq(Event)
    BY <2>2, ShortQueues DEF Event
  <2>4. /\ \A m \in Attempt : m # n => queue'[m] = queue[m]
        /\ queue[n] # <<>> /\ Has(queue[n], e)
        /\ \A x : Has(queue'[n], x) => Has(queue[n], x) \/ Has(rest, x)
        /\ LosesOnce(queue[n]) => LosesOnce(queue'[n])
        /\ LosesNothing(queue[n]) => LosesNothing(queue'[n])
    BY <1>1, <2>2, <2>3, HandleQueue
  <2>5. link[n] # "none"
    BY <1>1, <2>2, <2>4, ShortQueues DEF Event
  <2> QED
    BY <1>1, <2>1, <2>3, <2>4, <2>5
<1>9. ASSUME NEW n \in Attempt, EnterConnect(n) PROVE EventsFit' /\ StartsAlone'
  <2>1. /\ \A x : Has(<<"count">>, x) <=> x = "count"
        /\ LosesOnce(<<"count">>) /\ <<"count">> \in Seq(Event)
    BY ShortQueues DEF Event
  <2>2. /\ \A m \in Attempt : m # n => queue'[m] = queue[m]
        /\ queue[n] # <<>> /\ Has(queue[n], "unregistered")
        /\ \A x : Has(queue'[n], x) => Has(queue[n], x) \/ x = "count"
        /\ LosesOnce(queue[n]) => LosesOnce(queue'[n])
    BY <1>1, <1>9, <2>1, HandleQueue DEF EnterConnect
  <2>3. link[n] \in {"failed", "down"}
    BY <1>1, <2>2 DEF LosesNothing, TypeOK
  <2>4. start[n] = "bound"
    <3>1. monitor = Free /\ n # Free
      BY <1>9 DEF EnterConnect, Free, Attempt
    <3> QED
      BY <1>1, <2>3, <3>1 DEF TypeOK
  <2>5. monitor = Free /\ monitor' = n /\ UNCHANGED <<start, link>>
    BY <1>9 DEF EnterConnect
  <2>6. \A m \in Attempt : /\ start[m] \notin {"connecting", "cleared"}
                           /\ ~Has(queue[m], "count")
    BY <1>1, <2>5 DEF Free, Attempt
  <2> QED
    BY <1>1, <2>2, <2>3, <2>4, <2>5, <2>6
<1>10. ASSUME NEW n \in Attempt, CountRetry(n) PROVE EventsFit' /\ StartsAlone'
  <2>1. /\ \A m \in Attempt : m # n => queue'[m] = queue[m]
        /\ queue[n] # <<>> /\ Has(queue[n], "count")
        /\ \A x : Has(queue'[n], x) => Has(queue[n], x)
        /\ LosesOnce(queue'[n]) /\ LosesNothing(queue'[n])
    <3>1. Handle(n, "count", <<>>)
      BY <1>10 DEF CountRetry
    <3>2. <<>> \in Seq(Event) /\ LosesNothing(<<>>) /\ \A x : ~Has(<<>>, x)
      BY ShortQueues
    <3> HIDE DEF LosesNothing, LosesOnce
    <3> QED
      BY <1>1, <3>1, <3>2, HandleQueue
  <2>2. link[n] \in {"failed", "down"} /\ start[n] = "bound"
    BY <1>1, <2>1 DEF LosesNothing, TypeOK
  <2>3. link' = link /\ monitor' = Free
    BY <1>10 DEF CountRetry
  <2>4. \A m \in Attempt : /\ start[m] \notin {"connecting", "cleared"}
                           /\ m # n => ~Has(queue[m], "count")
    BY <1>1, <2>1, <2>2
  <2>5. \A m \in Attempt :
           start'[m] = start[m] \/ (start[m] = "none" /\ start'[m] \in {"asked", "cancelled"})
    <3>1. CASE UNCHANGED start
      BY <3>1
    <3>2. CASE Unused # {} /\ start' = [start EXCEPT ![Fresh] = IF open THEN "asked" ELSE "cancelled"]
      <4>1. PICK last \in Attempt : EarlierAreOver(last)
        BY <1>1 DEF Chain
      <4>2. start[Fresh] = "none"
        BY <1>1, <3>2, <4>1, FreshIsNext
      <4> QED
        BY <1>1, <3>2, <4>2 DEF TypeOK
    <3> QED
      BY <1>10, <3>1, <3>2 DEF CountRetry
  <2> QED
    BY <1>1, <2>1, <2>2, <2>3, <2>4, <2>5 DEF LosesNothing
<1>11. ASSUME NEW n \in Attempt, Connected(n) PROVE EventsFit' /\ StartsAlone'
  <2>1. Notify(n) \in Seq(Event) /\ LosesNothing(Notify(n))
        /\ \A x : Has(Notify(n), x) => x = "listener"
    BY NotifyQueue, ShortQueues DEF Event
  <2>2. /\ \A m \in Attempt : m # n => queue'[m] = queue[m]
        /\ \A x : Has(queue'[n], x) => Has(queue[n], x) \/ x = "listener"
        /\ LosesOnce(queue[n]) => LosesOnce(queue'[n])
        /\ LosesNothing(queue[n]) => LosesNothing(queue'[n])
    BY <1>1, <1>11, <2>1, PostQueue DEF Connected
  <2>3. link' = [link EXCEPT ![n] = "up"] /\ link[n] = "pending"
        /\ UNCHANGED <<start, monitor>>
    BY <1>11 DEF Connected
  <2> QED
    BY <1>1, <2>2, <2>3 DEF TypeOK
<1>12. ASSUME NEW n \in Attempt, ConnectFailed(n) \/ Disconnected(n)
       PROVE  EventsFit' /\ StartsAlone'
  <2>1. PICK events \in {<<"unregistered">>, <<"listener", "unregistered">>} :
           Post(n, events)
    BY <1>12, NotifyQueue DEF ConnectFailed, Disconnected
  <2>2. events \in Seq(Event) /\ LosesOnce(events)
        /\ \A x : Has(events, x) => x \in {"listener", "unregistered"}
    BY ShortQueues DEF Event
  <2>3. link[n] \in {"pending", "up"} /\ UNCHANGED <<start, monitor>>
        /\ \/ link' = [link EXCEPT ![n] = "failed"] /\ link[n] = "pending"
           \/ link' = [link EXCEPT ![n] = "down"] /\ link[n] = "up"
    BY <1>12 DEF ConnectFailed, Disconnected
  <2>4. /\ \A m \in Attempt : m # n => queue'[m] = queue[m]
        /\ \A x : Has(queue'[n], x) => Has(queue[n], x) \/ x \in {"listener", "unregistered"}
        /\ LosesNothing(queue[n]) => LosesOnce(queue'[n])
    BY <1>1, <2>1, <2>2, PostQueue
  <2>5. /\ link'[n] \in {"failed", "down"} /\ (link[n] = "up" => link'[n] = "down")
        /\ \A m \in Attempt : m # n => link'[m] = link[m]
    BY <1>1, <2>3 DEF TypeOK
  <2>6. LosesNothing(queue[n]) /\ ~Has(queue[n], "count") /\ ~Has(queue[n], "registered")
        /\ (Has(queue[n], "reset") => link[n] = "up")
        /\ start[n] \notin {"none", "asked", "cancelled"}
    BY <1>1, <2>3 DEF LosesNothing
  <2>7. EventsFit'
    BY <1>1, <2>3, <2>4, <2>5, <2>6
  <2>8. StartsAlone'
    BY <1>1, <2>3, <2>4, <2>6
  <2> QED
    BY <2>7, <2>8
<1>13. ASSUME NEW n \in Attempt, LoopCancels(n) PROVE EventsFit' /\ StartsAlone'
  BY <1>1, <1>13 DEF LoopCancels, TypeOK
<1> QED
  BY <1>2, <1>3, <1>4, <1>5, <1>6, <1>7, <1>8, <1>9, <1>10, <1>11, <1>12, <1>13
     DEF Next, StartStep, LoopStep, NetStep, LoopCloses

\* The attempts stay one chain: only its last one loses its connection, and
\* reconnects.
LEMMA ChainKept ==
  ASSUME ClientInv, ~config.userStarts, Next
  PROVE  Chain' /\ (retries <= retryCount + 1 /\ RetriesBounded)'
<1> USE DEF flags, down, Losing
<1>1. TypeOK /\ EventsFit /\ StartsAlone /\ retries <= retryCount + 1 /\ RetriesBounded
      /\ UNCHANGED config /\ retryCount \in Nat /\ retries \in Nat
      /\ config.retryCount \in Nat \cup {-1}
  BY ClientAssumption DEF ClientInv, TypeOK, Next, Alive, Config
<1>2. PICK last \in Attempt : EarlierAreOver(last) /\ ResetByLast(last)
  BY DEF ClientInv, Chain
<1>3. /\ \A n \in Attempt : n \in Nat /\ n > 0
      /\ \A n \in Attempt : n = last \/ n < last \/ n > last
  BY DEF Attempt
<1>last. ASSUME NEW n \in Attempt, start[n] # "none",
               \/ start[n] # "bound" \/ link[n] \notin {"failed", "down"}
               \/ ~LosesNothing(queue[n])
         PROVE  n = last
  BY <1>2, <1>3, <1>last DEF EarlierAreOver
<1>4. ASSUME (EarlierAreOver(last) /\ ResetByLast(last))'
      PROVE  Chain'
  BY <1>2, <1>4 DEF Chain
<1> DEFINE Kept == (EarlierAreOver(last) /\ ResetByLast(last)
                      /\ retries <= retryCount + 1 /\ RetriesBounded)'
<1> USE DEF EarlierAreOver, ResetByLast, RetriesBounded
<1>5. CASE UserStart
  BY <1>5 DEF UserStart
<1>6. CASE Destroy \/ CloseBootstrap
  <2>1. UNCHANGED <<config, start, after, link, queue, flags, retries>>
    BY <1>1, <1>6 DEF Destroy, CloseBootstrap
  <2>2. Kept
    BY <1>1, <1>2, <2>1
  <2> QED
    BY <1>4, <2>2
\* Steps of a channel that has not been through.
<1>7. ASSUME NEW n \in Attempt, Connecting(n) PROVE Kept
  <2>1. start' = [start EXCEPT ![n] = "connecting"] /\ Post(n, <<"registered">>)
        /\ start[n] = "asked" /\ (after[n] # 0 => queue[after[n]] = <<>>)
        /\ UNCHANGED <<after, link, flags, retries>>
    BY <1>7 DEF Connecting, ClientInv
  <2>2. n = last /\ link[n] = "none"
    BY <1>1, <1>last, <2>1 DEF EventsFit
  <2>3. start'[last] = "connecting"
        /\ \A m \in Attempt : m # last => start'[m] = start[m] /\ queue'[m] = queue[m]
    BY <1>1, <2>1, <2>2, PostQueue, ShortQueues DEF Event, TypeOK
  <2>4. ASSUME NEW m \in Attempt, m < last PROVE queue[m] = <<>>
    <3>1. queue[m] # <<>> => m = last - 1
      BY <1>2, <2>4
    <3>2. last > 1 /\ after[last] = last - 1 /\ last - 1 # 0
      BY <1>2, <1>3, <2>4
    <3> QED
      BY <2>1, <2>2, <3>1, <3>2
  <2> QED
    BY <1>1, <1>2, <1>3, <2>1, <2>2, <2>3, <2>4
<1>8. ASSUME NEW n \in Attempt, ClearSession(n) \/ BindListener(n) PROVE Kept
  <2>1. start[n] \in {"connecting", "cleared"} /\ UNCHANGED <<after, link, flags, retries>>
    BY <1>8 DEF ClearSession, BindListener
  <2>2. n = last
    BY <1>last, <2>1
  <2>3. start'[last] \in {"cleared", "bound"}
        /\ (start'[last] = "bound" /\ link[last] = "up" => Post(last, <<"listener">>))
        /\ (UNCHANGED queue \/ Post(last, <<"listener">>))
        /\ \A m \in Attempt : m # last => start'[m] = start[m]
    BY <1>1, <1>8, <2>2 DEF ClearSession, BindListener, TypeOK
  <2>4. \A m \in Attempt : m # last => queue'[m] = queue[m]
    BY <1>1, <2>3, PostQueue, ShortQueues DEF Event
  <2>5. start'[last] = "bound" /\ link[last] = "up" => Has(queue'[last], "listener")
    BY <1>1, <2>3, PostQueue, ShortQueues DEF Event
  <2>6. \A m \in Attempt : m < last => queue[m] = <<>>
    BY <1>1, <1>2, <1>3, <2>1, <2>2
  <2> QED
    BY <1>1, <1>2, <1>3, <2>1, <2>2, <2>3, <2>4, <2>5, <2>6
<1>9. ASSUME NEW n \in Attempt, Connected(n) PROVE Kept
  <2>1. link' = [link EXCEPT ![n] = "up"] /\ link[n] = "pending" /\ Post(n, Notify(n))
        /\ retries' = 0 /\ UNCHANGED <<start, after, flags>>
    BY <1>9 DEF Connected
  <2>2. n = last
    BY <1>1, <1>last, <2>1 DEF EventsFit
  <2>3. link'[last] = "up" /\ \A m \in Attempt : m # last => link'[m] = link[m]
    BY <1>1, <2>1, <2>2 DEF TypeOK
  <2>4. /\ \A m \in Attempt : m # last => queue'[m] = queue[m]
        /\ start[last] = "bound" => Has(queue'[last], "listener")
    <3>1. Notify(n) \in Seq(Event)
      BY NotifyQueue, ShortQueues DEF Event
    <3>2. start[n] = "bound" => Has(Notify(n), "listener")
      BY ShortQueues DEF Notify, Event
    <3> QED
      BY <1>1, <2>1, <2>2, <3>1, <3>2, PostQueue
  <2>5. \A m \in Attempt : m < last => queue[m] = <<>>
    BY <1>1, <1>2, <1>3, <2>1, <2>2 DEF EventsFit
  <2> QED
    BY <1>1, <1>2, <1>3, <2>1, <2>2, <2>3, <2>4, <2>5
<1>10. ASSUME NEW n \in Attempt, ConnectFailed(n) \/ Disconnected(n) PROVE Kept
  <2>1. PICK events \in Seq(Event) : Post(n, events)
    BY <1>10, NotifyQueue, ShortQueues DEF ConnectFailed, Disconnected, Event
  <2>2. link[n] \in {"pending", "up"} /\ UNCHANGED <<start, after, flags, retries>>
        /\ \/ link' = [link EXCEPT ![n] = "failed"]
           \/ link' = [link EXCEPT ![n] = "down"] /\ link[n] = "up"
    BY <1>10 DEF ConnectFailed, Disconnected
  <2>3. n = last
    BY <1>1, <1>last, <2>2 DEF EventsFit
  <2>4. /\ link'[last] \in {"failed", "down"} /\ (link'[last] = "down" => link[last] = "up")
        /\ \A m \in Attempt : m # last => link'[m] = link[m]
    BY <1>1, <2>2, <2>3 DEF TypeOK
  <2>5. \A m \in Attempt : m # last => queue'[m] = queue[m]
    BY <1>1, <2>1, <2>3, PostQueue
  <2> QED
    BY <1>1, <1>2, <1>3, <2>2, <2>3, <2>4, <2>5
<1>11. ASSUME NEW n \in Attempt, ChannelRegistered(n) PROVE Kept
  <2>1. Handle(n, "registered", <<>>) /\ link' = [link EXCEPT ![n] = "pending"]
        /\ UNCHANGED <<start, after, flags, retries>>
    BY <1>11 DEF ChannelRegistered
  <2>2. Has(queue[n], "registered") /\ queue[n] # <<>>
        /\ \A m \in Attempt : m # n => queue'[m] = queue[m]
    BY <1>1, <2>1, HandleQueue, ShortQueues
  <2>3. n = last
    BY <1>1, <1>last, <2>2 DEF EventsFit
  <2>4. link'[last] = "pending" /\ \A m \in Attempt : m # last => link'[m] = link[m]
    BY <1>1, <2>1, <2>3 DEF TypeOK
  <2> QED
    BY <1>1, <1>2, <1>3, <2>1, <2>2, <2>3, <2>4
\* Steps that the listener of a channel that is over may still take.
<1>12. ASSUME NEW n \in Attempt,
              \/ ListenerSucceeds(n) \/ ListenerThrows(n) \/ ResetCount(n)
              \/ ListenerFails(n) \/ PassUnregistered(n)
       PROVE  Kept
  <2>1. UNCHANGED <<start, after, link, retries>>
    BY <1>12 DEF ListenerSucceeds, ListenerThrows, ResetCount, ListenerFails,
       PassUnregistered
  <2>2. PICK e \in {"listener", "reset", "unregistered"}, rest \in {<<>>, <<"reset">>} :
           /\ Handle(n, e, rest)
           /\ e = "listener" /\ rest = <<>> =>
                 /\ config.runnersThrow \/ link[n] = "failed"
                 /\ UNCHANGED <<retry, retryCount>>
           /\ e = "listener" /\ rest = <<"reset">> =>
                 retry' = FALSE /\ UNCHANGED retryCount
           /\ e = "reset" => retryCount' = 0 /\ UNCHANGED retry /\ rest = <<>>
           /\ e = "unregistered" => UNCHANGED <<retry, retryCount>> /\ rest = <<>>
    BY <1>12 DEF ListenerSucceeds, ListenerThrows, ResetCount, ListenerFails,
       PassUnregistered
  <2>3. /\ rest \in Seq(Event) /\ LosesNothing(rest)
        /\ rest = <<"reset">> => Has(rest, "reset")
    BY <2>2, ShortQueues DEF Event
  <2>4. /\ \A m \in Attempt : m # n => queue'[m] = queue[m]
        /\ queue[n] # <<>> /\ Has(queue[n], e)
        /\ \A x : Has(queue[n], x) => x = e \/ Has(queue'[n], x)
        /\ rest = <<"reset">> => Has(queue'[n], "reset")
        /\ LosesNothing(queue[n]) => LosesNothing(queue'[n])
    BY <1>1, <2>2, <2>3, HandleQueue
  <2>5. e = "reset" => retries <= 1
    BY <1>1, <1>2, <1>3, <2>4 DEF EventsFit
  <2>6. EarlierAreOver(last)'
    BY <1>2, <1>3, <2>1, <2>4
  <2>7. ResetByLast(last)'
    BY <1>1, <1>2, <1>3, <2>1, <2>2, <2>4
  <2>8. (retries <= retryCount + 1 /\ RetriesBounded)'
    BY <1>1, <2>1, <2>2, <2>5
  <2> QED
    BY <2>6, <2>7, <2>8
<1>13. ASSUME NEW n \in Attempt, EnterConnect(n) PROVE Kept
  <2>1. Handle(n, "unregistered", <<"count">>) /\ UNCHANGED <<start, after, link, retryCount, retries>>
    BY <1>13 DEF EnterConnect
  <2>2. Has(queue[n], "unregistered") /\ queue[n] # <<>>
        /\ \A m \in Attempt : m # n => queue'[m] = queue[m]
    <3>1. <<"count">> \in Seq(Event)
      BY ShortQueues DEF Event
    <3> QED
      BY <1>1, <2>1, <3>1, HandleQueue
  <2>3. ~LosesNothing(queue[n]) /\ link[n] \notin {"none", "pending", "up"}
    BY <1>1, <2>2 DEF EventsFit, LosesNothing
  <2>4. n = last
    BY <1>1, <1>last, <2>2, <2>3 DEF EventsFit
  <2> QED
    BY <1>1, <1>2, <1>3, <2>1, <2>2, <2>3, <2>4
\* The last channel makes the next one.
<1>14. ASSUME NEW n \in Attempt, CountRetry(n)
       PROVE  Chain' /\ (retries <= retryCount + 1 /\ RetriesBounded)'
  <2>1. Handle(n, "count", <<>>) /\ retryCount' = retryCount + 1 /\ link' = link
    BY <1>14 DEF CountRetry
  <2>2. /\ Has(queue[n], "count") /\ queue[n] # <<>>
        /\ \A m \in Attempt : m # n => queue'[m] = queue[m]
        /\ LosesNothing(queue'[n])
    <3>1. <<>> \in Seq(Event) /\ LosesNothing(<<>>)
      BY ShortQueues
    <3> QED
      BY <1>1, <2>1, <3>1, HandleQueue DEF EventsFit
  <2>3. ~LosesNothing(queue[n]) /\ link[n] \in {"failed", "down"} /\ start[n] = "bound"
    BY <1>1, <2>2 DEF EventsFit, StartsAlone, LosesNothing, TypeOK
  <2>4. n = last
    BY <1>last, <2>3
  <2>5. \A m \in Attempt : m < last => queue[m] = <<>>
    BY <1>2, <2>3, <2>4
  <2>6. CASE RetriesLeft
    <3>1. /\ Unused # {} /\ retries' = retries + 1
          /\ start' = [start EXCEPT ![Fresh] = IF open THEN "asked" ELSE "cancelled"]
          /\ after' = [after EXCEPT ![Fresh] = n]
      BY <1>14, <2>6 DEF CountRetry
    <3>2. last + 1 \in Attempt /\ Fresh = last + 1 /\ start[last + 1] = "none"
      BY <1>1, <1>2, <3>1, FreshIsNext
    <3>3. link[last + 1] = "none" /\ last + 1 # last
      BY <1>1, <1>3, <3>2 DEF EventsFit
    <3>4. /\ start'[last + 1] \in {"asked", "cancelled"} /\ after'[last + 1] = last
          /\ \A m \in Attempt : m # last + 1 => start'[m] = start[m]
      BY <1>1, <2>4, <3>1, <3>2 DEF TypeOK
    <3>5. link[last] = "down" => retries' <= 1
      BY <1>2, <3>1
    <3>6. \A m \in Attempt : m < last + 1 <=> (m < last \/ m = last)
      BY <1>3
    <3>7. EarlierAreOver(last + 1)'
      <4>1. ASSUME NEW m \in Attempt PROVE start'[m] = "none" <=> m > last + 1
        BY <1>2, <1>3, <3>4
      <4>2. last + 1 > 1 => after'[last + 1] = (last + 1) - 1
        BY <1>3, <3>4
      <4>3. ASSUME NEW m \in Attempt, m < last + 1
            PROVE  /\ start'[m] = "bound" /\ link'[m] \in {"failed", "down"}
                   /\ LosesNothing(queue'[m])
                   /\ queue'[m] # <<>> =>
                         /\ m = (last + 1) - 1
                         /\ start'[last + 1] \in {"asked", "cancelled"}
                         /\ link'[m] = "down" => retries' <= 1
        <5>1. CASE m = last
          BY <1>3, <2>1, <2>2, <2>3, <2>4, <3>4, <3>5, <5>1
        <5>2. CASE m < last
          BY <1>2, <1>3, <2>1, <2>2, <2>4, <2>5, <3>4, <5>2
        <5> QED
          BY <3>6, <4>3, <5>1, <5>2
      <4> QED
        BY <4>1, <4>2, <4>3
    <3>8. ResetByLast(last + 1)'
      BY <2>1, <3>3, <3>4
    <3>9. (retries <= retryCount + 1 /\ RetriesBounded)'
      BY <1>1, <2>1, <2>6, <3>1 DEF RetriesLeft
    <3> QED
      BY <3>2, <3>7, <3>8, <3>9 DEF Chain
  <2>7. CASE ~RetriesLeft
    <3>1. UNCHANGED <<start, after, retries>>
      BY <1>14, <2>7 DEF CountRetry
    <3>2. Kept
      BY <1>1, <1>2, <1>3, <2>1, <2>2, <2>3, <2>4, <3>1
    <3> QED
      BY <1>4, <3>2
  <2> QED
    BY <2>6, <2>7
<1>15. ASSUME NEW n \in Attempt, LoopCancels(n) PROVE Kept
  <2>1. start[n] = "asked" /\ start' = [start EXCEPT ![n] = "cancelled"]
        /\ UNCHANGED <<after, link, queue, flags, retries>>
    BY <1>15 DEF LoopCancels
  <2>2. n = last /\ link[n] = "none"
    BY <1>1, <1>last, <2>1 DEF EventsFit
  <2>3. start'[last] = "cancelled" /\ \A m \in Attempt : m # last => start'[m] = start[m]
    BY <1>1, <2>1, <2>2 DEF TypeOK
  <2> QED
    BY <1>1, <1>2, <1>3, <2>1, <2>2, <2>3
<1> QED
  BY <1>4, <1>5, <1>6, <1>7, <1>8, <1>9, <1>10, <1>11, <1>12, <1>13, <1>14, <1>15
     DEF Next, StartStep, LoopStep, NetStep, LoopCloses

-----------------------------------------------------------------------------
\* The attempts of a client that starts itself are one chain, whose events are
\* in order, for any configuration and number of attempts.
THEOREM ClientInvariant == Spec => []ClientInv
<1>1. ClientInv /\ [Next]_vars => ClientInv'
  <2> SUFFICES ASSUME ClientInv, [Next]_vars PROVE ClientInv'
    OBVIOUS
  <2>1. CASE Next
    <3>1. config' = config
      BY <2>1 DEF Next, Alive
    <3>2. TypeOK' /\ ~isStart'
      BY <2>1, TypesKept
    <3>3. ~config.userStarts =>
             (EventsFit /\ StartsAlone /\ Chain
                /\ retries <= retryCount + 1 /\ RetriesBounded)'
      BY <2>1, EventsKept, ChainKept
    <3> QED
      BY <3>1, <3>2, <3>3 DEF ClientInv
  <2>2. CASE UNCHANGED vars
    BY <2>2 DEF vars, flags, down, ClientInv, TypeOK, EventsFit, StartsAlone, Chain,
       EarlierAreOver, ResetByLast, RetriesBounded
  <2> QED
    BY <2>1, <2>2
<1> QED
  BY <1>1, InitClient, PTL DEF Spec

\* Every variable keeps its type, also when the application starts attempts of
\* its own; retryCount never falls below zero.
THEOREM ClientTypes == Spec => []TypeOK
<1>1. ClientInv => TypeOK
  BY DEF ClientInv
<1> QED
  BY <1>1, ClientInvariant, PTL

\* connect starts one attempt for each channel that is unregistered, and the
\* monitor and the order of a loop's events keep the attempts apart: two
\* connections are never up together.
THEOREM ConnectionsNeverOverlap == Spec => []OneConnection
<1>1. ClientInv => OneConnection
  <2> SUFFICES ASSUME ClientInv, ~config.userStarts, NEW m \in Attempt, NEW n \in Attempt,
                      link[m] = "up", link[n] = "up"
               PROVE  m = n
    BY DEF OneConnection
  <2>1. PICK last \in Attempt : EarlierAreOver(last)
    BY DEF ClientInv, Chain
  <2>2. ASSUME NEW a \in Attempt, link[a] = "up" PROVE a = last
    <3>1. start[a] # "none"
      BY <2>2 DEF ClientInv, EventsFit
    <3>2. a = last \/ a < last \/ a > last
      BY DEF Attempt
    <3> QED
      BY <2>1, <2>2, <3>1, <3>2 DEF EarlierAreOver
  <2> QED
    BY <2>2
<1> QED
  BY <1>1, ClientInvariant, PTL

\* How far a client exceeds its documented limit: connect compares retryCount
\* with it before it counts, and the late listener of a lost connection clears
\* the count at most once more, so that retry-count + 2 reconnections in a row
\* are the most a client makes.
THEOREM ReconnectionsAreBounded == Spec => []RetriesBounded
<1>1. ClientInv => RetriesBounded
  BY DEF ClientInv, RetriesBounded
<1> QED
  BY <1>1, ClientInvariant, PTL

\* startSuccessful has cleared retry and retryCount when a connected client is
\* idle, whether its listener was bound before or after the connection.
THEOREM ConnectionsReset == Spec => []ConnectedMeansReset
<1>1. ClientInv => ConnectedMeansReset
  <2> SUFFICES ASSUME ClientInv, NEW n \in Attempt, link[n] = "up", start[n] = "bound",
                      queue[n] = <<>>, ~config.userStarts, ~config.runnersThrow
               PROVE  ~retry /\ retryCount = 0
    BY DEF ConnectedMeansReset
  <2>1. PICK last \in Attempt : EarlierAreOver(last) /\ ResetByLast(last)
    BY DEF ClientInv, Chain
  <2>2. n = last \/ n < last \/ n > last
    BY DEF Attempt
  <2>3. n = last
    BY <2>1, <2>2 DEF EarlierAreOver
  <2> QED
    BY <2>1, <2>3, ShortQueues DEF ResetByLast
<1> QED
  BY <1>1, ClientInvariant, PTL
=============================================================================
