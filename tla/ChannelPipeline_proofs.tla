------------------------ MODULE ChannelPipeline_proofs ------------------------
(***************************************************************************)
(* PipelineInv is an invariant of a channel's pipeline, for any handlers   *)
(* the application adds and any number of events and exceptions; from it   *)
(* follow what is promised of sessions, messages, exceptions and the order *)
(* of events, and that the channel's session lives in the directory.       *)
(***************************************************************************)
EXTENDS ChannelPipeline, TLAPS

-----------------------------------------------------------------------------
(* The pipeline that is assembled.                                         *)

Inner == Kind \ {"Registered", "Retry", "Unregistered"}

\* A pipeline without its last handler: first is at its head, and only there.
Headed(first, seq) ==
    /\ seq \in Seq(Kind) /\ Len(seq) > 0 /\ seq[1] = first
    /\ \A i \in 2..Len(seq) : seq[i] \in Inner

\* Handlers added at the end leave the head alone.
LEMMA HeadedGrows ==
  ASSUME NEW first, NEW seq, Headed(first, seq), NEW more \in Seq(Inner)
  PROVE  Headed(first, seq \o more)
<1> DEFINE all == seq \o more
<1>1. more \in Seq(Kind) /\ seq \in Seq(Kind)
  BY DEF Inner, Headed
<1>2. all \in Seq(Kind) /\ Len(all) = Len(seq) + Len(more)
  BY <1>1
<1>3. \A i \in 1..Len(all) :
        all[i] = IF i <= Len(seq) THEN seq[i] ELSE more[i - Len(seq)]
  BY <1>1
<1>4. ASSUME NEW i \in 2..Len(all) PROVE all[i] \in Inner
  <2>1. CASE i <= Len(seq)
    BY <1>1, <1>2, <1>3, <2>1 DEF Headed
  <2>2. CASE i > Len(seq)
    <3>1. i - Len(seq) \in 1..Len(more)
      BY <1>1, <1>2, <2>2
    <3> QED
      BY <1>1, <1>2, <1>3, <2>2, <3>1
  <2> QED
    BY <1>1, <1>2, <2>1, <2>2
<1> QED
  BY <1>1, <1>2, <1>3, <1>4 DEF Headed

\* initializerChannel puts the registration handlers of a server at the ends,
\* and the retry handler at the head of a client's pipeline.
LEMMA AssembledFits ==
  ASSUME Init
  PROVE  pipeline \in Seq(Kind) /\ EndsOfPipeline
<1> DEFINE first == IF config.app = "server" THEN "Registered" ELSE "Retry"
           s1 == (IF config.app = "server" THEN <<"Registered">> ELSE <<"Retry">>)
           s2 == s1 \o <<"Intercept">>
           s3 == s2 \o (IF config.listeners THEN <<"Listener">> ELSE <<>>)
           s4 == s3 \o <<"Annotation", "Before", "Message">>
           s5 == s4 \o config.inbound
           s6 == s5 \o <<"After">>
           last == (IF config.app = "server" THEN <<"Unregistered">> ELSE <<>>)
<1>1. config.app \in {"server", "client"} /\ config.inbound \in Seq(Custom)
  BY PipelineAssumption DEF Init, Config
<1>2. Headed(first, s1)
  <2>1. s1 = <<first>> /\ first \in Kind
    BY <1>1 DEF Kind
  <2> HIDE DEF s1, first
  <2>2. s1 \in Seq(Kind) /\ Len(s1) = 1 /\ s1[1] = first
    BY <2>1
  <2> QED
    BY <2>2 DEF Headed
<1>3. /\ <<"Intercept">> \in Seq(Inner) /\ <<"After">> \in Seq(Inner)
      /\ (IF config.listeners THEN <<"Listener">> ELSE <<>>) \in Seq(Inner)
      /\ <<"Annotation", "Before", "Message">> \in Seq(Inner)
      /\ config.inbound \in Seq(Inner)
  <2>1. {"Intercept", "After", "Listener", "Annotation", "Before", "Message"}
            \cup Custom \subseteq Inner
    BY DEF Inner, Kind, Custom
  <2> QED
    BY <1>1, <2>1
<1>4. Headed(first, s2)
  BY <1>2, <1>3, HeadedGrows
<1>5. Headed(first, s3)
  BY <1>4, <1>3, HeadedGrows
<1>6. Headed(first, s4)
  BY <1>5, <1>3, HeadedGrows
<1>7. Headed(first, s5)
  BY <1>6, <1>3, HeadedGrows
<1>8. Headed(first, s6)
  BY <1>7, <1>3, HeadedGrows
<1>9. pipeline = s6 \o last
  BY DEF Init, Assembled
<1> HIDE DEF s6
<1>10. CASE config.app = "server"
  <2>1. last = <<"Unregistered">>
    BY <1>10
  <2>2. /\ pipeline \in Seq(Kind) /\ Len(pipeline) = Len(s6) + 1
        /\ pipeline[Len(pipeline)] = "Unregistered"
        /\ \A i \in 1..Len(s6) : pipeline[i] = s6[i]
    <3>1. s6 \in Seq(Kind) /\ "Unregistered" \in Kind
      BY <1>8 DEF Headed, Kind
    <3> QED
      BY <1>9, <2>1, <3>1
  <2>3. s6[1] = "Registered"
    BY <1>8, <1>10 DEF Headed
  <2> QED
    BY <1>8, <1>10, <2>2, <2>3 DEF Headed, Inner, EndsOfPipeline, Places, Server
<1>11. CASE config.app = "client"
  <2>1. pipeline = s6
    BY <1>8, <1>9, <1>11 DEF Headed
  <2>2. s6[1] = "Retry"
    BY <1>8, <1>11 DEF Headed
  <2> QED
    BY <1>8, <1>11, <2>1, <2>2 DEF Headed, Inner, EndsOfPipeline, Places, Server
<1> QED
  BY <1>1, <1>10, <1>11

\* Every channel begins in the invariant.
LEMMA InitInvariant == Init => PipelineInv
<1> SUFFICES ASSUME Init PROVE PipelineInv
  OBVIOUS
<1>1. pipeline \in Seq(Kind) /\ EndsOfPipeline
  BY AssembledFits
<1>2. TypeOK
  <2>1. config \in Configs /\ life \in Life /\ left \in 0..MaxEvents
    BY PipelineAssumption DEF Init, Life
  <2>2. owners \in Seq(1..Len(pipeline)) /\ seen \in [1..Len(pipeline) -> Life]
    BY DEF Init, Life, Places
  <2>3. /\ threw \in SUBSET (Event \X (1..Len(pipeline)))
        /\ unheard \in SUBSET (0..Len(pipeline))
    BY DEF Init
  <2>4. /\ at \in 0..(Len(pipeline) + 1)
        /\ origin \in 0..Len(pipeline) /\ heard \in BOOLEAN /\ refs \in 0..1
        /\ event \in Event \cup {"none"}
        /\ session \in {"none", "online", "refused", "kicked", "removed"}
    <3>1. /\ at = 0 /\ origin = 0 /\ heard = FALSE /\ refs = 0
          /\ event = "none" /\ session = "none"
      BY DEF Init
    <3>2. Len(pipeline) \in Nat
      BY <1>1
    <3>3. at \in 0..(Len(pipeline) + 1) /\ origin \in 0..Len(pipeline) /\ refs \in 0..1
      BY <3>1, <3>2
    <3> QED
      BY <3>1, <3>3
  <2> QED
    BY <1>1, <2>1, <2>2, <2>3, <2>4 DEF TypeOK
<1>3. UnderWay /\ ListedOnce /\ TakenOut /\ MessageHasOwner /\ UnheardSoFar
      /\ UnheardOnlyFromBehind
  BY DEF Init, UnderWay, ListedOnce, TakenOut, MessageHasOwner, UnheardSoFar,
     UnheardOnlyFromBehind
<1>4. SeenSoFar
  BY DEF Init, SeenSoFar, Life, Rank
<1> QED
  BY <1>1, <1>2, <1>3, <1>4 DEF PipelineInv

\* What a handler leaves behind has its type.
LEMMA SeeTypes ==
  ASSUME TypeOK, at \in Places, See(event)
  PROVE  seen' \in [1..Len(pipeline) -> Life]
  BY DEF TypeOK, See, Places

LEMMA ThrowTypes ==
  ASSUME TypeOK, at \in Places, event # "none", Throw
  PROVE  /\ event' \in Event /\ at' \in 0..(Len(pipeline) + 1)
         /\ origin' \in 0..Len(pipeline) /\ heard' \in BOOLEAN
         /\ threw' \in SUBSET (Event \X (1..Len(pipeline)))
<1>1. Len(pipeline) \in Nat
  BY DEF TypeOK
<1>2. at' \in 1..Len(pipeline) /\ origin' \in 1..Len(pipeline) /\ heard' = FALSE
  BY DEF Throw, Places
<1>3. event' \in Event
  BY DEF Throw, Event
<1>4. <<event, at>> \in Event \X (1..Len(pipeline))
  BY DEF TypeOK, Places
<1>5. threw' \in SUBSET (Event \X (1..Len(pipeline)))
  BY <1>4 DEF Throw, TypeOK
<1>6. at' \in 0..(Len(pipeline) + 1) /\ origin' \in 0..Len(pipeline)
  BY <1>1, <1>2
<1> QED
  BY <1>2, <1>3, <1>5, <1>6

\* Unwinding stops at the last owner, or nowhere.
LEMMA UnwindTypes ==
  ASSUME TypeOK, NEW rest \in Seq(1..Len(pipeline)), Unwind(rest)
  PROVE  /\ event' \in Event \cup {"none"} /\ at' \in 0..(Len(pipeline) + 1)
         /\ event' = "none" <=> rest = <<>>
         /\ event' \in {"none", "release"}
         /\ event' = "release" => at' \in Places
<1>1. CASE rest = <<>>
  BY <1>1 DEF Unwind, TypeOK
<1>2. CASE rest # <<>>
  <2>1. rest[Len(rest)] \in 1..Len(pipeline)
    BY <1>2
  <2> QED
    BY <1>2, <2>1 DEF Unwind, TypeOK, Places, Event
<1> QED
  BY <1>1, <1>2

LEMMA AllButLastTypes ==
  ASSUME NEW S, NEW seq \in Seq(S)
  PROVE  AllButLast(seq) \in Seq(S)
  BY DEF AllButLast

\* Every step keeps the types.
LEMMA TypesKept ==
  ASSUME PipelineInv, Next
  PROVE  TypeOK'
<1> USE DEF travel, message, history
<1>1. /\ TypeOK /\ UnderWay /\ MessageHasOwner /\ EndsOfPipeline
      /\ Len(pipeline) \in Nat
      /\ 0 \in 0..Len(pipeline) /\ 1 \in 0..(Len(pipeline) + 1)
  BY DEF PipelineInv, TypeOK
<1>2. CASE FireLife
  BY <1>1, <1>2 DEF FireLife, Fire, NextLife, TypeOK, Event, Life
<1>3. CASE FireOther
  <2>1. /\ event' \in Other /\ at' = 1 /\ left' \in 0..MaxEvents /\ refs' \in 0..1
        /\ UNCHANGED <<config, pipeline, life, origin, heard, owners, session, history>>
    BY <1>1, <1>3, PipelineAssumption DEF FireOther, Fire, TypeOK
  <2>2. event' \in Event
    BY <2>1 DEF Event
  <2> QED
    BY <1>1, <2>1, <2>2 DEF TypeOK
<1>4. CASE FireError
  <2>1. /\ event' \in Event /\ at' = 1
        /\ left' \in 0..MaxEvents /\ origin' = 0 /\ heard' = FALSE
        /\ UNCHANGED <<config, pipeline, life, message, session, history>>
    BY <1>1, <1>4, PipelineAssumption DEF FireError, Fire, TypeOK, Event
  <2> QED
    BY <1>1, <2>1 DEF TypeOK
<1>5. CASE Kick
  BY <1>1, <1>5 DEF Kick, TypeOK
<1>6. CASE Pass
  <2>1. seen' \in [1..Len(pipeline) -> Life]
    BY <1>1, <1>6, SeeTypes DEF Pass
  <2>2. event' \in Event \cup {"none"} /\ at' \in 0..(Len(pipeline) + 1)
    BY <1>1, <1>6 DEF Pass, PassedOn, TypeOK, Places, Event, Life
  <2> QED
    BY <1>1, <1>6, <2>1, <2>2 DEF Pass, TypeOK
<1>7. CASE HookThrows
  <2>1. event # "none"
    BY <1>7 DEF HookThrows, Hooked, Life, Other
  <2> QED
    BY <1>1, <1>7, <2>1, SeeTypes, ThrowTypes DEF HookThrows, TypeOK
<1>8. CASE Register
  <2>1. /\ seen' \in [1..Len(pipeline) -> Life] /\ event = "registered"
        /\ session' \in {"online", "refused"}
        /\ UNCHANGED <<config, pipeline, life, left, message, unheard>>
    BY <1>1, <1>8, SeeTypes DEF Register, Registers
  <2>2. CASE at' = at + 1 /\ UNCHANGED <<event, origin, heard, threw>>
    BY <1>1, <1>8, <2>1, <2>2 DEF Register, TypeOK, Places
  <2>3. CASE Throw
    BY <1>1, <1>8, <2>1, <2>3, ThrowTypes DEF Register, TypeOK
  <2> QED
    BY <1>8, <2>2, <2>3 DEF Register
<1>9. CASE Deregister
  <2>1. /\ seen' \in [1..Len(pipeline) -> Life] /\ event = "unregistered"
        /\ session' \in {session, "removed"}
        /\ UNCHANGED <<config, pipeline, life, left, message, unheard>>
    BY <1>1, <1>9, SeeTypes DEF Deregister, Deregisters
  <2>2. CASE at' = at + 1 /\ UNCHANGED <<event, origin, heard, threw>>
    BY <1>1, <1>9, <2>1, <2>2 DEF Deregister, TypeOK, Places
  <2>3. CASE Throw
    BY <1>1, <1>9, <2>1, <2>3, ThrowTypes DEF Deregister, TypeOK
  <2> QED
    BY <1>9, <2>2, <2>3 DEF Deregister
<1>10. CASE TakeMessage
  <2>1. at \in 1..Len(pipeline) /\ owners' \in Seq(1..Len(pipeline))
    BY <1>1, <1>10 DEF TakeMessage, TypeOK, Places
  <2> QED
    BY <1>1, <1>10, <2>1 DEF TakeMessage, TypeOK
<1>11. CASE TakeThrows
  <2>1. event = "read" /\ refs' \in 0..1
    BY <1>1, <1>11 DEF TakeThrows, Takes, MessageHasOwner
  <2> QED
    BY <1>1, <1>11, <2>1, ThrowTypes DEF TakeThrows, TypeOK
<1>12. CASE Release
  <2>1. /\ event = "release" /\ at \in Places /\ owners' \in Seq(1..Len(pipeline))
        /\ UNCHANGED <<config, pipeline, life, left, session, unheard, seen>>
    BY <1>1, <1>12, AllButLastTypes DEF Release, TypeOK, UnderWay
  <2>2. CASE refs = 0
    BY <1>1, <1>12, <2>1, <2>2, ThrowTypes DEF Release, TypeOK
  <2>3. CASE refs # 0
    <3>1. /\ refs' \in 0..1 /\ Unwind(AllButLast(owners))
          /\ UNCHANGED <<origin, heard, threw>>
      BY <1>1, <1>12, <2>3 DEF Release, TypeOK
    <3>2. event' \in Event \cup {"none"} /\ at' \in 0..(Len(pipeline) + 1)
      BY <1>1, <3>1, AllButLastTypes, UnwindTypes DEF TypeOK
    <3> QED
      BY <1>1, <2>1, <3>1, <3>2 DEF TypeOK
  <2> QED
    BY <2>2, <2>3
<1>13. CASE PassError
  BY <1>1, <1>13 DEF PassError, TypeOK, Places
<1>14. CASE ErrorHookThrows
  <2>1. event' \in Event \cup {"none"} /\ at' \in 0..(Len(pipeline) + 1)
    BY <1>1, <1>14, UnwindTypes DEF ErrorHookThrows, TypeOK
  <2>2. <<event, at>> \in Event \X (1..Len(pipeline))
    BY <1>1, <1>14 DEF ErrorHookThrows, TypeOK, Places
  <2>3. threw' \in SUBSET (Event \X (1..Len(pipeline)))
    BY <1>1, <1>14, <2>2 DEF ErrorHookThrows, TypeOK
  <2> QED
    BY <1>1, <1>14, <2>1, <2>3 DEF ErrorHookThrows, Forget, TypeOK
<1>15. CASE ReachTail
  <2>1. event' \in Event \cup {"none"} /\ at' \in 0..(Len(pipeline) + 1)
    BY <1>1, <1>15, UnwindTypes DEF ReachTail, TypeOK
  <2>2. refs' \in 0..1
    <3>1. refs' = IF event = "read" THEN refs - 1 ELSE refs
      BY <1>15 DEF ReachTail
    <3> QED
      BY <1>1, <3>1 DEF TypeOK, MessageHasOwner
  <2>3. unheard' \in SUBSET (0..Len(pipeline))
    BY <1>1, <1>15 DEF ReachTail, TypeOK
  <2> QED
    BY <1>1, <1>15, <2>1, <2>2, <2>3 DEF ReachTail, Forget, TypeOK
<1> QED
  BY <1>2, <1>3, <1>4, <1>5, <1>6, <1>7, <1>8, <1>9, <1>10, <1>11, <1>12,
     <1>13, <1>14, <1>15 DEF Next, LoopStep

\* Where the event is.
LEMMA PlacesKept ==
  ASSUME PipelineInv, Next
  PROVE  EndsOfPipeline' /\ UnderWay'
<1>1. EndsOfPipeline'
  <2>1. UNCHANGED <<config, pipeline>>
    BY DEF Next, LoopStep, FireLife, FireOther, FireError, Kick, Pass, HookThrows,
       Register, Deregister, TakeMessage, TakeThrows, Release, PassError,
       ErrorHookThrows, ReachTail
  <2> QED
    BY <2>1 DEF PipelineInv, EndsOfPipeline, Places, Server
<1> SUFFICES UnderWay'
  BY <1>1
<1> USE DEF PipelineInv, TypeOK, UnderWay, Places, travel, message
<1>2. CASE FireLife
  BY <1>2 DEF FireLife, Fire, NextLife, Life
<1>3. CASE FireOther
  BY <1>3 DEF FireOther, Fire, Other
<1>4. CASE FireError
  BY <1>4 DEF FireError, Fire
<1>5. CASE Kick
  BY <1>5 DEF Kick
<1>6. CASE Pass
  BY <1>6 DEF Pass, PassedOn
<1>7. CASE HookThrows
  BY <1>7 DEF HookThrows, Throw
<1>8. CASE Register
  BY <1>8 DEF Register, Registers, Throw
<1>9. CASE Deregister
  BY <1>9 DEF Deregister, Deregisters, Throw
<1>10. CASE TakeMessage
  BY <1>10 DEF TakeMessage, Takes
<1>11. CASE TakeThrows
  BY <1>11 DEF TakeThrows, Throw
<1>12. CASE Release
  <2>1. UNCHANGED pipeline /\ owners' = AllButLast(owners)
    BY <1>12 DEF Release
  <2>2. CASE refs = 0
    BY <1>12, <2>1, <2>2 DEF Release, Throw
  <2>3. CASE refs # 0
    <3>1. Unwind(AllButLast(owners)) /\ AllButLast(owners) \in Seq(1..Len(pipeline))
      BY <1>12, <2>3, AllButLastTypes DEF Release
    <3> QED
      BY <2>1, <3>1, UnwindTypes
  <2> QED
    BY <2>2, <2>3
<1>13. CASE PassError
  BY <1>13 DEF PassError
<1>14. CASE ErrorHookThrows
  <2>1. Unwind(owners) /\ UNCHANGED <<pipeline, owners>>
    BY <1>14 DEF ErrorHookThrows
  <2> QED
    BY <2>1, UnwindTypes
<1>15. CASE ReachTail
  <2>1. Unwind(owners) /\ UNCHANGED <<pipeline, owners>>
    BY <1>15 DEF ReachTail
  <2> QED
    BY <2>1, UnwindTypes
<1> QED
  BY <1>2, <1>3, <1>4, <1>5, <1>6, <1>7, <1>8, <1>9, <1>10, <1>11, <1>12,
     <1>13, <1>14, <1>15 DEF Next, LoopStep

\* What the places have seen.
LEMMA SeenKept ==
  ASSUME PipelineInv, Next
  PROVE  SeenSoFar'
<1> USE DEF PipelineInv, TypeOK, EndsOfPipeline, UnderWay, SeenSoFar,
        Places, Here, Life, Other, travel, message, history, Server, Rank
<1>1. CASE FireLife
  BY <1>1 DEF FireLife, Fire, NextLife
<1>2. CASE FireOther
  BY <1>2 DEF FireOther, Fire, Other
<1>3. CASE FireError
  BY <1>3 DEF FireError, Fire
<1>4. CASE Kick
  BY <1>4 DEF Kick
<1>5. CASE Pass
  <2> SUFFICES ASSUME Server PROVE SeenSoFar'
    BY <1>5 DEF Pass
  <2>1. /\ event' = event /\ at' = at + 1 /\ at \in Nat
        /\ UNCHANGED <<config, pipeline, life>>
    BY <1>5 DEF Pass, PassedOn, Event
  <2>2. CASE event \in Life
    <3>1. seen' = [seen EXCEPT ![at] = event] /\ event = life
      BY <1>5, <2>2 DEF Pass, See
    <3> QED
      BY <1>5, <2>1, <2>2, <3>1 DEF Pass
  <2>3. CASE event \notin Life
    BY <1>5, <2>1, <2>3 DEF Pass, See
  <2> QED
    BY <2>2, <2>3
<1>6. CASE HookThrows
  BY <1>6 DEF HookThrows, See, Throw, Takes
<1>7. CASE Register
  BY <1>7 DEF Register, See, Throw, Registers
<1>8. CASE Deregister
  BY <1>8 DEF Deregister, See, Throw, Deregisters
<1>9. CASE TakeMessage
  BY <1>9 DEF TakeMessage, Takes
<1>10. CASE TakeThrows
  BY <1>10 DEF TakeThrows, Takes, Throw
<1>11. CASE Release
  BY <1>11 DEF Release, Throw, Unwind, AllButLast
<1>12. CASE PassError
  BY <1>12 DEF PassError
<1>13. CASE ErrorHookThrows
  BY <1>13 DEF ErrorHookThrows, Forget, Unwind
<1>14. CASE ReachTail
  BY <1>14 DEF ReachTail, Forget, Unwind
<1> QED
  BY <1>1, <1>2, <1>3, <1>4, <1>5, <1>6, <1>7, <1>8, <1>9, <1>10, <1>11, <1>12, <1>13, <1>14 DEF Next, LoopStep

\* The session.
LEMMA SessionKept ==
  ASSUME PipelineInv, Next
  PROVE  (ListedOnce /\ TakenOut)'
<1> USE DEF PipelineInv, TypeOK, EndsOfPipeline, UnderWay, SeenSoFar, ListedOnce, TakenOut, HookThrew,
        Places, Here, Life, Other, travel, message, history, Server
<1>1. CASE FireLife
  BY <1>1 DEF FireLife, Fire, NextLife
<1>2. CASE FireOther
  BY <1>2 DEF FireOther, Fire, Other
<1>3. CASE FireError
  BY <1>3 DEF FireError, Fire
<1>4. CASE Kick
  BY <1>4 DEF Kick
<1>5. CASE Pass
  <2>1. /\ UNCHANGED <<config, pipeline, life, session, threw>>
        /\ Server => event' = event /\ at' = at + 1
    BY <1>5 DEF Pass, PassedOn, Event
  <2>2. ListedOnce'
    BY <1>5, <2>1 DEF Pass
  <2>3. ASSUME event = "unregistered", session = "online"
        PROVE  event' = "unregistered" /\ at' \in Places
    <3>1. Server /\ config.autoRegister
      BY <2>3
    <3>2. at # Len(pipeline)
      BY <1>5, <2>3, <3>1 DEF Pass, Deregisters
    <3> QED
      BY <1>5, <2>1, <2>3, <3>1, <3>2 DEF Pass
  <2>4. TakenOut'
    BY <2>1, <2>3
  <2> QED
    BY <2>2, <2>4
<1>6. CASE HookThrows
  BY <1>6 DEF HookThrows, See, Throw, Takes
<1>7. CASE Register
  BY <1>7 DEF Register, See, Throw, Registers
<1>8. CASE Deregister
  BY <1>8 DEF Deregister, See, Throw, Deregisters
<1>9. CASE TakeMessage
  BY <1>9 DEF TakeMessage, Takes
<1>10. CASE TakeThrows
  BY <1>10 DEF TakeThrows, Takes, Throw
<1>11. CASE Release
  BY <1>11 DEF Release, Throw, Unwind, AllButLast
<1>12. CASE PassError
  BY <1>12 DEF PassError
<1>13. CASE ErrorHookThrows
  BY <1>13 DEF ErrorHookThrows, Forget, Unwind
<1>14. CASE ReachTail
  BY <1>14 DEF ReachTail, Forget, Unwind
<1> QED
  BY <1>1, <1>2, <1>3, <1>4, <1>5, <1>6, <1>7, <1>8, <1>9, <1>10, <1>11, <1>12, <1>13, <1>14 DEF Next, LoopStep

\* The message.
LEMMA MessageKept ==
  ASSUME PipelineInv, Next
  PROVE  MessageHasOwner'
<1> USE DEF PipelineInv, TypeOK, EndsOfPipeline, UnderWay, MessageHasOwner,
        Places, Here, Life, Other, travel, message, history
<1>1. CASE FireLife
  BY <1>1 DEF FireLife, Fire, NextLife
<1>2. CASE FireOther
  BY <1>2 DEF FireOther, Fire, Other
<1>3. CASE FireError
  BY <1>3 DEF FireError, Fire
<1>4. CASE Kick
  BY <1>4 DEF Kick
<1>5. CASE Pass
  BY <1>5 DEF Pass, See, PassedOn
<1>6. CASE HookThrows
  BY <1>6 DEF HookThrows, See, Throw, Takes
<1>7. CASE Register
  BY <1>7 DEF Register, See, Throw, Registers
<1>8. CASE Deregister
  BY <1>8 DEF Deregister, See, Throw, Deregisters
<1>9. CASE TakeMessage
  BY <1>9 DEF TakeMessage, Takes
<1>10. CASE TakeThrows
  BY <1>10 DEF TakeThrows, Takes, Throw
<1>11. CASE Release
  BY <1>11 DEF Release, Throw, Unwind, AllButLast
<1>12. CASE PassError
  BY <1>12 DEF PassError
<1>13. CASE ErrorHookThrows
  BY <1>13 DEF ErrorHookThrows, Forget, Unwind
<1>14. CASE ReachTail
  BY <1>14 DEF ReachTail, Forget, Unwind
<1> QED
  BY <1>1, <1>2, <1>3, <1>4, <1>5, <1>6, <1>7, <1>8, <1>9, <1>10, <1>11, <1>12, <1>13, <1>14 DEF Next, LoopStep

\* Exceptions.
LEMMA UnheardKept ==
  ASSUME PipelineInv, Next
  PROVE  (UnheardSoFar /\ UnheardOnlyFromBehind)'
<1> USE DEF PipelineInv, TypeOK, EndsOfPipeline, UnderWay, UnheardSoFar, UnheardOnlyFromBehind,
        Places, Here, Life, Other, travel, message, history
<1>1. CASE FireLife
  BY <1>1 DEF FireLife, Fire, NextLife
<1>2. CASE FireOther
  BY <1>2 DEF FireOther, Fire, Other
<1>3. CASE FireError
  BY <1>3 DEF FireError, Fire
<1>4. CASE Kick
  BY <1>4 DEF Kick
<1>5. CASE Pass
  BY <1>5 DEF Pass, See, PassedOn
<1>6. CASE HookThrows
  BY <1>6 DEF HookThrows, See, Throw, Takes
<1>7. CASE Register
  <2>1. event = "registered" /\ UNCHANGED <<pipeline, unheard>>
    BY <1>7 DEF Register, Registers
  <2>2. CASE event' = event
    BY <2>1, <2>2
  <2>3. CASE Throw
    BY <1>7, <2>1, <2>3 DEF Register, Throw
  <2> QED
    BY <1>7, <2>2, <2>3 DEF Register
<1>8. CASE Deregister
  BY <1>8 DEF Deregister, See, Throw, Deregisters
<1>9. CASE TakeMessage
  BY <1>9 DEF TakeMessage, Takes
<1>10. CASE TakeThrows
  BY <1>10 DEF TakeThrows, Takes, Throw
<1>11. CASE Release
  BY <1>11 DEF Release, Throw, Unwind, AllButLast
<1>12. CASE PassError
  <2>1. /\ event = "error" /\ at' = at + 1 /\ at \in Nat
        /\ heard' = (heard \/ Tells(Here)) /\ UNCHANGED <<pipeline, origin, unheard>>
    BY <1>12 DEF PassError
  <2>2. ASSUME ~heard', NEW i \in Places, i >= origin, i < at'
        PROVE  ~Tells(pipeline[i])
    <3>1. ~heard /\ ~Tells(pipeline[at])
      BY <2>1, <2>2
    <3>2. CASE i < at
      BY <2>1, <2>2, <3>1, <3>2
    <3>3. CASE i = at
      BY <3>1, <3>3
    <3> QED
      BY <2>1, <2>2, <3>2, <3>3
  <2> QED
    BY <2>1, <2>2
<1>13. CASE ErrorHookThrows
  BY <1>13 DEF ErrorHookThrows, Forget, Unwind
<1>14. CASE ReachTail
  BY <1>14 DEF ReachTail, Forget, Unwind
<1> QED
  BY <1>1, <1>2, <1>3, <1>4, <1>5, <1>6, <1>7, <1>8, <1>9, <1>10, <1>11, <1>12, <1>13, <1>14 DEF Next, LoopStep

-----------------------------------------------------------------------------
\* The conjuncts of PipelineInv hold together, whatever handlers the
\* application adds between SocketApplication's, wherever their hooks throw
\* and however often.
THEOREM PipelineInvariant == Spec => []PipelineInv
<1>1. PipelineInv /\ [Next]_vars => PipelineInv'
  <2> SUFFICES ASSUME PipelineInv, [Next]_vars PROVE PipelineInv'
    OBVIOUS
  <2>1. CASE Next
    BY <2>1, TypesKept, PlacesKept, SeenKept, SessionKept, MessageKept, UnheardKept
       DEF PipelineInv
  <2>2. CASE UNCHANGED vars
    BY <2>2 DEF vars, travel, message, history, PipelineInv, TypeOK, EndsOfPipeline,
       UnderWay, SeenSoFar, ListedOnce, TakenOut, HookThrew, MessageHasOwner,
       UnheardSoFar, UnheardOnlyFromBehind, Places, Server
  <2> QED
    BY <2>1, <2>2
<1> QED
  BY <1>1, InitInvariant, PTL DEF Spec

\* The pipeline's variables keep their types: in particular no reference
\* count falls below zero, because Release looks at it first.
THEOREM PipelineTypes == Spec => []TypeOK
<1>1. PipelineInv => TypeOK
  BY DEF PipelineInv
<1> QED
  BY <1>1, PipelineInvariant, PTL

\* SocketSessionUnregisteredHandler takes the session of a channel that is
\* through out of the registry, unless a hook threw in the same event.
THEOREM HooksLeaveSessions == Spec => []LeftOnlyByUnregisteredHooks
<1>1. PipelineInv => LeftOnlyByUnregisteredHooks
  BY DEF PipelineInv, TakenOut, HookThrew, LeftOnlyByUnregisteredHooks
<1> QED
  BY <1>1, PipelineInvariant, PTL

\* exceptionCaught of SocketInterceptHandler, of the listener handler or of an
\* adapter tells the application of each exception thrown before it, those of
\* the error hooks themselves left out.
THEOREM ErrorsAreHeard == Spec => []UnheardOnlyFromBehind
<1>1. PipelineInv => UnheardOnlyFromBehind
  BY DEF PipelineInv
<1> QED
  BY <1>1, PipelineInvariant, PTL

\* AdapterSessionInboundTypeHandler and the tail of the pipeline release every
\* message, unless a hook of a handler that does not own it threw.
THEOREM MessagesAreReleased == Spec => []MessageIsReleased
<1>1. PipelineInv => MessageIsReleased
  <2> SUFFICES ASSUME PipelineInv, event = "none", refs > 0
               PROVE  \E i \in Places : <<"read", i>> \in threw /\ pipeline[i] # "TypedAdapter"
    BY DEF MessageIsReleased
  <2>1. refs = 1
    BY DEF PipelineInv, TypeOK
  <2>2. owners = <<>>
    BY DEF PipelineInv, UnderWay
  <2> QED
    BY <2>1, <2>2 DEF PipelineInv, MessageHasOwner
<1> QED
  BY <1>1, PipelineInvariant, PTL

\* Every handler of a server's channel sees registered, active, inactive and
\* unregistered in this order and once each, the ones an exception took away
\* left out.
THEOREM LifeIsOrdered == Spec => LifeInOrder
<1> DEFINE Ordered == Server => \A i \in Places : seen'[i] # seen[i] =>
                                    Rank[seen[i]] < Rank[seen'[i]]
<1>1. PipelineInv /\ [Next]_vars => [Ordered]_vars
  <2> SUFFICES ASSUME PipelineInv, Next, Server PROVE Ordered
    OBVIOUS
  <2>1. CASE seen' = seen
    BY <2>1
  <2>2. CASE at \in Places /\ See(event)
    <3>1. SeenSoFar /\ seen \in [Places -> Life] /\ at \in Nat
      BY <2>2 DEF PipelineInv, TypeOK, Places
    <3>2. CASE event \in Life
      <4>1. event = life /\ Rank[seen[at]] < Rank[life]
        BY <2>2, <3>1, <3>2 DEF SeenSoFar
      <4>2. seen' = [seen EXCEPT ![at] = life]
        BY <2>2, <3>2, <4>1 DEF See
      <4> QED
        BY <2>2, <3>1, <4>1, <4>2
    <3>3. CASE event \notin Life
      BY <2>2, <3>3 DEF See
    <3> QED
      BY <3>2, <3>3
  <2>3. seen' = seen \/ (at \in Places /\ See(event))
    BY DEF Next, LoopStep, FireLife, FireOther, FireError, Kick, Pass, HookThrows,
       Register, Deregister, TakeMessage, TakeThrows, Release, PassError,
       ErrorHookThrows, ReachTail, history
  <2> QED
    BY <2>1, <2>2, <2>3
<1>2. [Ordered]_vars <=> [config.app = "server" =>
         \A i \in Places : seen'[i] # seen[i] => Rank[seen[i]] < Rank[seen'[i]]]_vars
  BY DEF Server
<1> QED
  BY <1>1, <1>2, PipelineInvariant, PTL DEF Spec, LifeInOrder

\* Whatever hooks throw, the channel's session lives as SessionDirectory says:
\* registrySession lists it or refuses it once, and it is taken out once.
THEOREM PipelineKeepsDirectory == Spec => ImplementsDirectory
<1> DEFINE Entry == [i \in {"id"} |-> IF session = "online" THEN "client" ELSE "none"]
           Fate == [s \in {"client"} |-> CASE session = "none" -> "outside"
                                           [] session = "online" -> "listed"
                                           [] OTHER -> "done"]
<1>1. Init => Directory!Init
  BY DEF Init, Directory!Init
<1>2. PipelineInv /\ [Next]_vars => [Directory!Next]_<<Entry, Fate>>
  <2> SUFFICES ASSUME PipelineInv, [Next]_vars
               PROVE  Directory!Next \/ UNCHANGED <<Entry, Fate>>
    OBVIOUS
  <2>1. CASE session' = session
    BY <2>1
  <2>2. CASE session = "none" /\ session' = "online"
    BY <2>2 DEF Directory!Next, Directory!List
  <2>3. CASE session = "none" /\ session' = "refused"
    BY <2>3 DEF Directory!Next, Directory!Decline
  <2>4. CASE session = "online" /\ session' \in {"kicked", "removed"}
    BY <2>4 DEF Directory!Next, Directory!Delist
  <2>5. \/ session' = session
        \/ session = "none" /\ session' \in {"online", "refused"}
        \/ session = "online" /\ session' \in {"kicked", "removed"}
    <3>1. CASE Register
      <4>1. event = "registered" /\ at = 1 /\ session' \in {"online", "refused"}
        BY <3>1 DEF Register, Registers, Here, PipelineInv, EndsOfPipeline
      <4> QED
        BY <4>1 DEF PipelineInv, ListedOnce
    <3>2. CASE ~Register
      BY <3>2 DEF Next, LoopStep, FireLife, FireOther, FireError, Kick, Pass,
         HookThrows, Deregister, TakeMessage, TakeThrows, Release, PassError,
         ErrorHookThrows, ReachTail, vars
    <3> QED
      BY <3>1, <3>2
  <2> QED
    BY <2>1, <2>2, <2>3, <2>4, <2>5
<1> QED
  BY <1>1, <1>2, PipelineInvariant, PTL DEF Spec, ImplementsDirectory, Directory!Spec
=============================================================================
