---------------------- MODULE ClientRegistrationProofs ----------------------
(***************************************************************************)
(* Proofs about ClientRegistration, for every value of its constants.      *)
(***************************************************************************)
EXTENDS ClientRegistration, SequenceTheorems, TLAPS

-----------------------------------------------------------------------------
(* The call stack. *)

(* A function with a sequence's domain and entries of S is a sequence of S. *)
LEMMA SameDomainSeq ==
    ASSUME NEW S, NEW c \in Seq(S), NEW f, f \in [DOMAIN c -> S]
    PROVE  f \in Seq(S) /\ Len(f) = Len(c)
<1>1. Len(c) \in Nat /\ DOMAIN c = 1 .. Len(c)
  BY LenProperties
<1>2. f \in Seq(S)
  BY <1>1, SeqDef
<1>3. DOMAIN f = 1 .. Len(f) /\ Len(f) \in Nat
  BY <1>2, LenProperties
<1>4. 1 .. Len(f) = 1 .. Len(c)
  BY <1>1, <1>3
<1>5. Len(f) = Len(c)
  BY <1>1, <1>3, <1>4
<1> QED BY <1>2, <1>5

(* new is the stack with a frame of s on top; the frames below it that     *)
(* wait on the same connection are orphans.                                *)
IsPush(op, s, new) ==
    /\ new \in Seq(Frame) /\ Len(new) = Len(calls) + 1
    /\ new[Len(calls) + 1] = NewFrame(op, s)
    /\ \A i \in 1 .. Len(calls) :
          new[i] = IF calls[i].ssid = s THEN [calls[i] EXCEPT !.orphan = TRUE]
                                        ELSE calls[i]

(* send() called on a connection puts one frame on top and may only orphan *)
(* the frames below it.                                                    *)
LEMMA PushFacts ==
    ASSUME NEW op \in {"register", "update", "deregister"}, NEW s \in Servers,
           calls \in Seq(Frame), lifetime \in [Servers -> Nat]
    PROVE  IsPush(op, s, Push(op, s))
<1> DEFINE below == [i \in DOMAIN calls |->
                       IF calls[i].ssid = s THEN [calls[i] EXCEPT !.orphan = TRUE]
                                            ELSE calls[i]]
<1>1. NewFrame(op, s) \in Frame
  BY DEF NewFrame, Frame
<1>2. ASSUME NEW i \in DOMAIN calls PROVE below[i] \in Frame
  <2>1. calls[i] \in Frame
    BY LenProperties, ElementOfSeq
  <2>2. [calls[i] EXCEPT !.orphan = TRUE] \in Frame
    BY <2>1 DEF Frame
  <2>3. CASE calls[i].ssid = s
    BY <2>2, <2>3
  <2>4. CASE calls[i].ssid # s
    BY <2>1, <2>4
  <2> QED BY <2>3, <2>4
<1>3. below \in Seq(Frame) /\ Len(below) = Len(calls)
  <2>1. below \in [DOMAIN calls -> Frame]
    BY <1>2
  <2> HIDE DEF below
  <2> QED BY <2>1, SameDomainSeq
<1>4. \A i \in 1 .. Len(calls) :
          below[i] = IF calls[i].ssid = s THEN [calls[i] EXCEPT !.orphan = TRUE]
                                          ELSE calls[i]
  BY LenProperties
<1>5. Push(op, s) = Append(below, NewFrame(op, s))
  BY DEF Push
<1> HIDE DEF below
<1>6. /\ Push(op, s) \in Seq(Frame)
      /\ Len(Push(op, s)) = Len(calls) + 1
      /\ Push(op, s)[Len(calls) + 1] = NewFrame(op, s)
      /\ \A i \in 1 .. Len(calls) : Push(op, s)[i] = below[i]
  BY <1>1, <1>3, <1>5
<1> QED BY <1>4, <1>6 DEF IsPush

(* The types are all it needs. *)
LEMMA PushIsPush ==
    ASSUME NEW op \in {"register", "update", "deregister"}, NEW s \in Servers, TypeOK
    PROVE  IsPush(op, s, Push(op, s))
<1>1. calls \in Seq(Frame) /\ lifetime \in [Servers -> Nat]  BY DEF TypeOK, ServerTypeOK
<1> QED  BY <1>1, PushFacts

(* A returning send() leaves the frames below it as they were. *)
LEMMA PopFacts ==
    ASSUME calls \in Seq(Frame), calls # <<>>
    PROVE  /\ Pop \in Seq(Frame)
           /\ Len(Pop) = Len(calls) - 1
           /\ \A i \in 1 .. Len(calls) - 1 : Pop[i] = calls[i]
           /\ Len(calls) \in Nat \ {0}
           /\ Top \in Frame
<1>1. Len(calls) \in Nat /\ Len(calls) # 0
  BY EmptySeq
<1>2. \A i \in 1 .. Len(calls) : calls[i] \in Frame
  BY ElementOfSeq
<1>3. Top \in Frame
  BY <1>1, <1>2 DEF Top
<1>4. \A i \in 1 .. Len(calls) - 1 : calls[i] \in Frame
  BY <1>1, <1>2
<1>5. /\ Pop \in Seq(Frame)
      /\ Len(Pop) = IF 1 <= Len(calls) - 1 THEN Len(calls) - 1 - 1 + 1 ELSE 0
      /\ \A i \in 1 .. Len(calls) - 1 - 1 + 1 : Pop[i] = calls[1 + i - 1]
  BY <1>1, <1>4, SubSeqProperties DEF Pop
<1>6. Len(Pop) = Len(calls) - 1
  <2>1. \A n \in Nat : n # 0 =>
            (IF 1 <= n - 1 THEN n - 1 - 1 + 1 ELSE 0) = n - 1
    OBVIOUS
  <2> QED BY <1>1, <1>5, <2>1
<1>7. ASSUME NEW i \in 1 .. Len(calls) - 1 PROVE Pop[i] = calls[i]
  <2>1. i \in 1 .. Len(calls) - 1 - 1 + 1 /\ 1 + i - 1 = i
    BY <1>1
  <2> QED BY <1>5, <2>1
<1> QED BY <1>1, <1>3, <1>5, <1>6, <1>7

(* Reading the counter of attempts back in its width. *)
LEMMA ModFacts ==
    ASSUME NEW a \in Nat, NEW m \in Nat \ {0}
    PROVE  a % m \in 0 .. m - 1 /\ a % m <= a
  OBVIOUS
(* A countdown that has ended stays ended. *)
LEMMA DownFacts ==
    \A n \in Nat \cup {-1} :
        /\ Down(n, -1) \in Nat \cup {-1}
        /\ Down(n, -1) >= n - 1
        /\ n >= 0 => Down(n, -1) = n - 1
  BY DEF Down

(* A tick ages every frame and changes nothing else in it. *)
LEMMA TickFacts ==
    ASSUME calls \in Seq(Frame), SendTimeout \in Nat,
           calls' = [i \in DOMAIN calls |->
               [calls[i] EXCEPT !.elapsed = IF @ <= SendTimeout THEN @ + 1 ELSE @]]
    PROVE  /\ calls' \in Seq(Frame)
           /\ Len(calls') = Len(calls)
           /\ \A i \in 1 .. Len(calls) :
                 calls'[i] = [calls[i] EXCEPT !.elapsed =
                                IF @ <= SendTimeout THEN @ + 1 ELSE @]
<1>1. ASSUME NEW i \in DOMAIN calls
      PROVE  [calls[i] EXCEPT !.elapsed = IF @ <= SendTimeout THEN @ + 1 ELSE @]
                 \in Frame
  <2>1. calls[i] \in Frame
    BY LenProperties, ElementOfSeq
  <2> DEFINE e == IF calls[i].elapsed <= SendTimeout THEN calls[i].elapsed + 1
                                                   ELSE calls[i].elapsed
  <2>2. e \in Nat
    BY <2>1 DEF Frame
  <2> HIDE DEF e
  <2>3. [calls[i] EXCEPT !.elapsed = e] \in Frame
    BY <2>1, <2>2 DEF Frame
  <2> QED BY <2>3 DEF e
<1>2. calls' \in [DOMAIN calls -> Frame]
  BY <1>1
<1>3. calls' \in Seq(Frame) /\ Len(calls') = Len(calls)
  BY <1>2, SameDomainSeq
<1>4. DOMAIN calls = 1 .. Len(calls)
  BY LenProperties
<1> QED BY <1>3, <1>4

(* A frame moves on by itself, and touches no other frame. *)
LEMMA HandleFacts ==
    ASSUME NEW i \in DOMAIN calls, NEW g \in {"ok", "rejected", "erased"},
           calls \in Seq(Frame), calls' = [calls EXCEPT ![i].stage = g]
    PROVE  /\ calls' \in Seq(Frame)
           /\ Len(calls') = Len(calls)
           /\ calls[i] \in Frame
           /\ i \in 1 .. Len(calls)
           /\ \A j \in 1 .. Len(calls) :
                 calls'[j] = IF j = i THEN [calls[j] EXCEPT !.stage = g] ELSE calls[j]
<1>1. DOMAIN calls = 1 .. Len(calls) /\ calls[i] \in Frame
  BY LenProperties, ElementOfSeq
<1>2. [calls[i] EXCEPT !.stage = g] \in Frame
  BY <1>1 DEF Frame
<1>3. calls' = [calls EXCEPT ![i] = [calls[i] EXCEPT !.stage = g]]
  OBVIOUS
<1> QED BY <1>1, <1>2, <1>3, ExceptSeq

(* A stack of one. *)
LEMMA OneFrame ==
    ASSUME NEW S, NEW c \in Seq(S), Len(c) = 1
    PROVE  c # <<>> /\ DOMAIN c = {1}
<1>1. DOMAIN c = 1 .. 1
  BY LenProperties
<1>2. 1 .. 1 = {1} /\ Len(<<>>) = 0
  OBVIOUS
<1> QED BY <1>1, <1>2

(* The only operation in progress is a deregistration in its callback. *)
OnlyErased ==
    /\ calls \in Seq(Frame) /\ calls # <<>> /\ DOMAIN calls = {1} /\ Len(calls) = 1
    /\ calls[1].op = "deregister" /\ calls[1].stage = "erased"

(* A deregistration that sends nothing is there at once. *)
LEMMA UnsentFacts ==
    ASSUME NEW s \in Servers, lifetime \in [Servers -> Nat], calls = <<>>,
           DeregisterUnsent(s)
    PROVE  OnlyErased'
<1> DEFINE f == [NewFrame("deregister", s) EXCEPT !.stage = "erased"]
<1>1. /\ f \in Frame /\ f.op = "deregister" /\ f.ssid = s /\ f.stage = "erased"
  BY DEF NewFrame, Frame
<1>2. calls' = Append(calls, f) /\ calls \in Seq(Frame) /\ Len(calls) = 0
  BY EmptySeq DEF DeregisterUnsent
<1> HIDE DEF f
<1>3. calls' \in Seq(Frame) /\ Len(calls') = 1 /\ calls'[1] = f
  BY <1>1, <1>2
<1>4. DOMAIN calls' = {1} /\ calls' # <<>>
  BY <1>3, OneFrame
<1> QED BY <1>1, <1>3, <1>4 DEF OnlyErased

-----------------------------------------------------------------------------
(* Type correctness. *)

USE DEF ClientState, Phases, ModeSet, IteratorsValid

(* A new client (client.hpp:161-191) is well typed. *)
LEMMA InitType == Init => TypeOK
<1> SUFFICES ASSUME Init PROVE TypeOK
  OBVIOUS
<1> USE DEF Init
<1>1. ClientTypeOK
  BY ConstantsAssumption DEF ClientTypeOK
<1>2. LoopTypeOK
  BY DEF LoopTypeOK
<1>3. ServerTypeOK
  BY ConstantsAssumption DEF ServerTypeOK
<1>4. FlagTypeOK
  BY DEF FlagTypeOK
<1>5. calls \in Seq(Frame)
  BY EmptySeq
<1> QED BY <1>1, <1>2, <1>3, <1>4, <1>5 DEF TypeOK

(* Every step keeps the types, one case per action. *)
LEMMA NextType == ASSUME TypeOK, [Next]_vars PROVE TypeOK'
<1> USE DEF TypeOK, ClientTypeOK, LoopTypeOK, ServerTypeOK, FlagTypeOK,
            clientVars, reconVars, loopVars, objVars, netVars
<1>1. ASSUME AppStart
      PROVE  TypeOK'
  <2>1. calls' \in Seq(Frame)
    BY <1>1 DEF AppStart
  <2>2. ClientTypeOK'
    BY <1>1 DEF AppStart, AppTurn
  <2>3. LoopTypeOK'
    BY <1>1 DEF AppStart, AppTurn
  <2>4. ServerTypeOK'
    BY <1>1 DEF AppStart, AppTurn
  <2>5. FlagTypeOK'
    BY <1>1 DEF AppStart, AppTurn
  <2> QED BY <2>1, <2>2, <2>3, <2>4, <2>5
<1>2. ASSUME AppStop
      PROVE  TypeOK'
  <2>1. calls' \in Seq(Frame)
    BY <1>2 DEF AppStop
  <2>2. ClientTypeOK'
    BY <1>2 DEF AppStop, AppTurn
  <2>3. LoopTypeOK'
    BY <1>2 DEF AppStop, AppTurn
  <2>4. ServerTypeOK'
    BY <1>2 DEF AppStop, AppTurn
  <2>5. FlagTypeOK'
    BY <1>2 DEF AppStop, AppTurn
  <2> QED BY <2>1, <2>2, <2>3, <2>4, <2>5
<1>3. ASSUME NEW s \in Servers, AppRegister(s)
      PROVE  TypeOK'
  <2>1. Push("register", s) \in Seq(Frame)
    BY PushFacts DEF IsPush
  <2>2. calls' \in Seq(Frame)
    BY <1>3, <2>1 DEF AppRegister, AppTurn, RegisterFails, RegisterSends
  <2>3. ClientTypeOK'
    BY <1>3 DEF AppRegister, AppTurn, RegisterFails, RegisterSends
  <2>4. LoopTypeOK'
    BY <1>3 DEF AppRegister, AppTurn, RegisterFails, RegisterSends
  <2>5. ServerTypeOK'
    BY <1>3 DEF AppRegister, AppTurn, RegisterFails, RegisterSends
  <2>6. FlagTypeOK'
    BY <1>3 DEF AppRegister, AppTurn, RegisterFails, RegisterSends
  <2> QED BY <2>2, <2>3, <2>4, <2>5, <2>6
<1>4. ASSUME NEW s \in Servers, AppUpdate(s)
      PROVE  TypeOK'
  <2>1. Push("update", s) \in Seq(Frame)
    BY PushFacts DEF IsPush
  <2>2. calls' \in Seq(Frame)
    BY <1>4, <2>1 DEF AppUpdate, AppTurn, UpdateFails, UpdateSends
  <2>3. ClientTypeOK'
    BY <1>4 DEF AppUpdate, AppTurn, UpdateFails, UpdateSends
  <2>4. LoopTypeOK'
    BY <1>4 DEF AppUpdate, AppTurn, UpdateFails, UpdateSends
  <2>5. ServerTypeOK'
    BY <1>4 DEF AppUpdate, AppTurn, UpdateFails, UpdateSends
  <2>6. FlagTypeOK'
    BY <1>4 DEF AppUpdate, AppTurn, UpdateFails, UpdateSends
  <2> QED BY <2>2, <2>3, <2>4, <2>5, <2>6
<1>5. ASSUME NEW s \in Servers, AppDeregister(s)
      PROVE  TypeOK'
  <2>1. Push("deregister", s) \in Seq(Frame)
    BY PushFacts DEF IsPush
  <2>2. calls' \in Seq(Frame)
    <3>1. CASE DeregisterUnsent(s)
      <4>1. \A f : f \in Frame => Append(calls, f) \in Seq(Frame)
        OBVIOUS
      <4>2. [NewFrame("deregister", s) EXCEPT !.stage = "erased"] \in Frame
        BY DEF NewFrame, Frame
      <4> QED BY <3>1, <4>1, <4>2 DEF DeregisterUnsent
    <3>2. CASE ~DeregisterUnsent(s)
      BY <1>5, <2>1, <3>2 DEF AppDeregister, DeregisterSends
    <3> QED BY <3>1, <3>2
  <2>3. ClientTypeOK'
    BY <1>5 DEF AppDeregister, AppTurn, DeregisterUnsent, DeregisterSends,
       EraseRegistration, DeregisteredState
  <2>4. LoopTypeOK'
    BY <1>5 DEF AppDeregister, AppTurn, DeregisterUnsent, DeregisterSends,
       EraseRegistration, DeregisteredState
  <2>5. ServerTypeOK'
    BY <1>5 DEF AppDeregister, AppTurn, DeregisterUnsent, DeregisterSends,
       EraseRegistration, DeregisteredState
  <2>6. FlagTypeOK'
    BY <1>5 DEF AppDeregister, AppTurn, DeregisterUnsent, DeregisterSends,
       EraseRegistration, DeregisteredState
  <2> QED BY <2>2, <2>3, <2>4, <2>5, <2>6
<1>6. ASSUME NEW s \in Servers, StopDeregister(s)
      PROVE  TypeOK'
  <2>1. Push("deregister", s) \in Seq(Frame)
    BY PushFacts DEF IsPush
  <2>2. calls' \in Seq(Frame)
    <3>1. CASE DeregisterUnsent(s)
      BY <1>6, <3>1, UnsentFacts DEF StopDeregister, OnlyErased
    <3>2. CASE ~DeregisterUnsent(s)
      BY <1>6, <2>1, <3>2 DEF StopDeregister, DeregisterSends
    <3> QED BY <3>1, <3>2
  <2>3. ClientTypeOK'
    BY <1>6 DEF StopDeregister, DeregisterUnsent, DeregisterSends,
       EraseRegistration, DeregisteredState
  <2>4. LoopTypeOK'
    BY <1>6 DEF StopDeregister, DeregisterUnsent, DeregisterSends,
       EraseRegistration, DeregisteredState
  <2>5. ServerTypeOK'
    BY <1>6 DEF StopDeregister, DeregisterUnsent, DeregisterSends,
       EraseRegistration, DeregisteredState
  <2>6. FlagTypeOK'
    BY <1>6 DEF StopDeregister, DeregisterUnsent, DeregisterSends,
       EraseRegistration, DeregisteredState
  <2> QED BY <2>2, <2>3, <2>4, <2>5, <2>6
<1>7. ASSUME StopClears
      PROVE  TypeOK'
  <2>1. calls' \in Seq(Frame)
    BY <1>7 DEF StopClears
  <2>2. ClientTypeOK'
    BY <1>7 DEF StopClears
  <2>3. LoopTypeOK'
    BY <1>7 DEF StopClears
  <2>4. ServerTypeOK'
    BY <1>7 DEF StopClears
  <2>5. FlagTypeOK'
    BY <1>7 DEF StopClears
  <2> QED BY <2>1, <2>2, <2>3, <2>4, <2>5
<1>8. ASSUME NEW ok \in BOOLEAN, EndRegister(ok)
      PROVE  TypeOK'
  <2>1. calls # <<>>
    BY <1>8 DEF EndRegister, SendReturns
  <2>2. Pop \in Seq(Frame) /\ Top \in Frame
    BY <2>1, PopFacts
  <2>3. Top.ssid \in Servers /\ Top.lt \in Nat
    BY <2>2 DEF Frame
  <2>4. calls' \in Seq(Frame)
    BY <1>8, <2>2 DEF EndRegister
  <2>5. ClientTypeOK'
    <3>1. attempts' \in 0 .. AttemptMod - 1 /\ rssid' \in Servers
      BY <1>8, ConstantsAssumption DEF EndRegister, ReconnectTail
    <3>2. CASE ok
      <4>1. /\ registered' = registered \cup {Top.ssid} /\ state' = "Registered"
            /\ ttl' = [ttl EXCEPT ![Top.ssid] = Top.lt] /\ UNCHANGED conn
        BY <1>8, <3>2, Zenon DEF EndRegister
      <4> QED BY <2>3, <3>1, <4>1
    <3>3. CASE ~ok
      <4>1. state' = "Error" /\ UNCHANGED <<registered, ttl, conn>>
        BY <1>8, <3>3, Zenon DEF EndRegister
      <4> QED BY <3>1, <4>1
    <3> QED BY <3>2, <3>3
  <2>6. LoopTypeOK'
    BY <1>8, <2>3, ConstantsAssumption DEF EndRegister, ReconnectTail
  <2>7. ServerTypeOK'
    BY <1>8, <2>3, ConstantsAssumption DEF EndRegister, ReconnectTail
  <2>8. FlagTypeOK'
    <3>1. /\ reconnecting' \in BOOLEAN /\ running' \in BOOLEAN
          /\ polled' \in BOOLEAN
      BY <1>8 DEF EndRegister, ReconnectTail
    <3>2. CASE ok
      <4>1. /\ knows' = [knows EXCEPT ![Top.ssid] = srvTtl[Top.ssid] >= 0]
            /\ raised' = [raised EXCEPT ![Top.ssid] =
                             lifetime[Top.ssid] > Top.lt]
        BY <1>8, <3>2, Zenon DEF EndRegister
      <4>2. /\ (srvTtl[Top.ssid] >= 0) \in BOOLEAN
            /\ (lifetime[Top.ssid] > Top.lt) \in BOOLEAN
        OBVIOUS
      <4> QED BY <3>1, <4>1, <4>2, Zenon
    <3>3. CASE ~ok
      <4>1. UNCHANGED <<knows, raised>>
        BY <1>8, <3>3, Zenon DEF EndRegister
      <4> QED BY <3>1, <4>1
    <3> QED BY <3>2, <3>3
  <2> QED BY <2>4, <2>5, <2>6, <2>7, <2>8
<1>9. ASSUME NEW ok \in BOOLEAN, EndUpdate(ok)
      PROVE  TypeOK'
  <2>1. calls # <<>>
    BY <1>9 DEF EndUpdate, SendReturns
  <2>2. Pop \in Seq(Frame) /\ Top \in Frame
    BY <2>1, PopFacts
  <2>3. Top.ssid \in Servers /\ Top.lt \in Nat
    BY <2>2 DEF Frame
  <2>4. calls' \in Seq(Frame)
    BY <1>9, <2>2 DEF EndUpdate
  <2>5. ClientTypeOK'
    BY <1>9, <2>3 DEF EndUpdate, BackToCaller, UpdatedTtl
  <2>6. LoopTypeOK'
    BY <1>9, <2>3 DEF EndUpdate, BackToCaller, UpdatedTtl
  <2>7. ServerTypeOK'
    BY <1>9, <2>3 DEF EndUpdate, BackToCaller, UpdatedTtl
  <2>8. FlagTypeOK'
    BY <1>9, <2>3 DEF EndUpdate, BackToCaller, UpdatedTtl
  <2> QED BY <2>4, <2>5, <2>6, <2>7, <2>8
<1>10. ASSUME NEW ok \in BOOLEAN, EndDeregister(ok)
      PROVE  TypeOK'
  <2>1. calls # <<>>
    BY <1>10 DEF EndDeregister, SendReturns
  <2>2. Top \in Frame /\ Len(calls) \in DOMAIN calls
    BY <2>1, PopFacts, LenProperties
  <2>3. Top.ssid \in Servers
    BY <2>2 DEF Frame
  <2>4. calls' \in Seq(Frame)
    BY <1>10, <2>2, HandleFacts DEF EndDeregister
  <2>5. ClientTypeOK'
    BY <1>10, <2>3 DEF EndDeregister, EraseRegistration
  <2>6. LoopTypeOK'
    BY <1>10, <2>3 DEF EndDeregister, EraseRegistration
  <2>7. ServerTypeOK'
    BY <1>10 DEF EndDeregister
  <2>8. FlagTypeOK'
    BY <1>10, <2>3 DEF EndDeregister, EraseRegistration
  <2> QED BY <2>4, <2>5, <2>6, <2>7, <2>8
<1>11. ASSUME PollBegin
      PROVE  TypeOK'
  <2>1. calls' \in Seq(Frame)
    BY <1>11 DEF PollBegin
  <2>2. ClientTypeOK'
    BY <1>11 DEF PollBegin
  <2>3. LoopTypeOK'
    BY <1>11 DEF PollBegin
  <2>4. ServerTypeOK'
    BY <1>11 DEF PollBegin
  <2>5. FlagTypeOK'
    BY <1>11 DEF PollBegin
  <2> QED BY <2>1, <2>2, <2>3, <2>4, <2>5
<1>12. ASSUME PumpDone
      PROVE  TypeOK'
  <2>1. calls' \in Seq(Frame)
    BY <1>12 DEF PumpDone
  <2>2. ClientTypeOK'
    BY <1>12 DEF PumpDone
  <2>3. LoopTypeOK'
    BY <1>12 DEF PumpDone
  <2>4. ServerTypeOK'
    BY <1>12 DEF PumpDone
  <2>5. FlagTypeOK'
    BY <1>12 DEF PumpDone
  <2> QED BY <2>1, <2>2, <2>3, <2>4, <2>5
<1>13. ASSUME NEW s \in Servers, CheckRegistrationUpdates(s)
      PROVE  TypeOK'
  <2>1. Push("update", s) \in Seq(Frame)
    BY PushFacts DEF IsPush
  <2>2. calls' \in Seq(Frame)
    BY <1>13, <2>1 DEF CheckRegistrationUpdates, UpdateFails, UpdateSends
  <2>3. ClientTypeOK'
    BY <1>13 DEF CheckRegistrationUpdates, UpdateFails, UpdateSends
  <2>4. LoopTypeOK'
    BY <1>13 DEF CheckRegistrationUpdates, UpdateFails, UpdateSends
  <2>5. ServerTypeOK'
    BY <1>13 DEF CheckRegistrationUpdates, UpdateFails, UpdateSends
  <2>6. FlagTypeOK'
    BY <1>13 DEF CheckRegistrationUpdates, UpdateFails, UpdateSends
  <2> QED BY <2>2, <2>3, <2>4, <2>5, <2>6
<1>14. ASSUME CheckConnectionHealth
      PROVE  TypeOK'
  <2>1. calls' \in Seq(Frame)
    BY <1>14 DEF CheckConnectionHealth
  <2>2. ClientTypeOK'
    <3>1. 0 \in 0 .. AttemptMod - 1
      BY ConstantsAssumption
    <3>2. CASE UNCHANGED <<state, registered, ttl, knows, reconVars>>
      BY <1>14, <3>2 DEF CheckConnectionHealth
    <3>3. ASSUME NEW s \in Servers, HandleConnectionLost(s)
          PROVE  ClientTypeOK'
      BY <1>14, <3>1, <3>3 DEF CheckConnectionHealth, HandleConnectionLost
    <3>4. Expired \subseteq Servers /\ Closed \subseteq Servers
      BY DEF Expired, Closed
    <3> QED BY <1>14, <3>2, <3>3, <3>4 DEF CheckConnectionHealth
  <2>3. LoopTypeOK'
    BY <1>14 DEF CheckConnectionHealth, HandleConnectionLost, Expired, Closed
  <2>4. ServerTypeOK'
    BY <1>14 DEF CheckConnectionHealth, HandleConnectionLost, Expired, Closed
  <2>5. FlagTypeOK'
    BY <1>14 DEF CheckConnectionHealth, HandleConnectionLost, Expired, Closed
  <2> QED BY <2>1, <2>2, <2>3, <2>4, <2>5
<1>15. ASSUME NoAttempt
      PROVE  TypeOK'
  <2>1. calls' \in Seq(Frame)
    BY <1>15 DEF NoAttempt
  <2>2. ClientTypeOK'
    BY <1>15 DEF NoAttempt
  <2>3. LoopTypeOK'
    BY <1>15 DEF NoAttempt
  <2>4. ServerTypeOK'
    BY <1>15 DEF NoAttempt
  <2>5. FlagTypeOK'
    BY <1>15 DEF NoAttempt
  <2> QED BY <2>1, <2>2, <2>3, <2>4, <2>5
<1>16. ASSUME TryReconnect
      PROVE  TypeOK'
  <2>1. Push("register", rssid) \in Seq(Frame)
    BY PushFacts DEF IsPush
  <2>2. NextAttempt \in 0 .. AttemptMod - 1
    BY ConstantsAssumption, ModFacts DEF NextAttempt
  <2>3. calls' \in Seq(Frame)
    BY <1>16, <2>1 DEF TryReconnect, RegisterFails, RegisterSends,
       ReconnectTail
  <2>4. ClientTypeOK'
    BY <1>16, <2>2 DEF TryReconnect, RegisterFails, RegisterSends,
       ReconnectTail
  <2>5. LoopTypeOK'
    BY <1>16, <2>2 DEF TryReconnect, RegisterFails, RegisterSends,
       ReconnectTail
  <2>6. ServerTypeOK'
    BY <1>16, <2>2 DEF TryReconnect, RegisterFails, RegisterSends,
       ReconnectTail
  <2>7. FlagTypeOK'
    BY <1>16, <2>2 DEF TryReconnect, RegisterFails, RegisterSends,
       ReconnectTail
  <2> QED BY <2>3, <2>4, <2>5, <2>6, <2>7
<1>17. ASSUME NEW s \in Servers, ExecuteUpdateTrigger(s)
      PROVE  TypeOK'
  <2>1. Push("update", s) \in Seq(Frame)
    BY PushFacts DEF IsPush
  <2>2. calls' \in Seq(Frame)
    BY <1>17, <2>1 DEF ExecuteUpdateTrigger, RequestArrives, UpdateFails,
       UpdateSends
  <2>3. ClientTypeOK'
    BY <1>17 DEF ExecuteUpdateTrigger, RequestArrives, UpdateFails, UpdateSends
  <2>4. LoopTypeOK'
    BY <1>17 DEF ExecuteUpdateTrigger, RequestArrives, UpdateFails, UpdateSends
  <2>5. ServerTypeOK'
    BY <1>17 DEF ExecuteUpdateTrigger, RequestArrives, UpdateFails, UpdateSends
  <2>6. FlagTypeOK'
    BY <1>17 DEF ExecuteUpdateTrigger, RequestArrives, UpdateFails, UpdateSends
  <2> QED BY <2>2, <2>3, <2>4, <2>5, <2>6
<1>18. ASSUME NEW s \in Servers, NEW l \in LifetimeWrites, WriteLifetime(s, l)
      PROVE  TypeOK'
  <2>1. calls' \in Seq(Frame)
    BY <1>18 DEF WriteLifetime
  <2>2. ClientTypeOK'
    BY <1>18, ConstantsAssumption DEF WriteLifetime, RequestArrives
  <2>3. LoopTypeOK'
    BY <1>18, ConstantsAssumption DEF WriteLifetime, RequestArrives
  <2>4. ServerTypeOK'
    BY <1>18, ConstantsAssumption DEF WriteLifetime, RequestArrives
  <2>5. FlagTypeOK'
    BY <1>18, ConstantsAssumption DEF WriteLifetime, RequestArrives
  <2> QED BY <2>1, <2>2, <2>3, <2>4, <2>5
<1>19. ASSUME NEW s \in Servers, DeleteServerInstance(s)
      PROVE  TypeOK'
  <2>1. calls' \in Seq(Frame)
    BY <1>19 DEF DeleteServerInstance
  <2>2. ClientTypeOK'
    BY <1>19 DEF DeleteServerInstance, RequestArrives
  <2>3. LoopTypeOK'
    BY <1>19 DEF DeleteServerInstance, RequestArrives
  <2>4. ServerTypeOK'
    BY <1>19 DEF DeleteServerInstance, RequestArrives
  <2>5. FlagTypeOK'
    BY <1>19 DEF DeleteServerInstance, RequestArrives
  <2> QED BY <2>1, <2>2, <2>3, <2>4, <2>5
<1>20. ASSUME NEW s \in Servers, SessionEvent(s)
      PROVE  TypeOK'
  <2>1. calls' \in Seq(Frame)
    BY <1>20 DEF SessionEvent
  <2>2. ClientTypeOK'
    BY <1>20 DEF SessionEvent
  <2>3. LoopTypeOK'
    BY <1>20 DEF SessionEvent
  <2>4. ServerTypeOK'
    BY <1>20 DEF SessionEvent
  <2>5. FlagTypeOK'
    BY <1>20 DEF SessionEvent
  <2> QED BY <2>1, <2>2, <2>3, <2>4, <2>5
<1>21. ASSUME NEW s \in Servers, NEW m \in Modes, SetMode(s, m)
      PROVE  TypeOK'
  <2>1. calls' \in Seq(Frame)
    BY <1>21 DEF SetMode
  <2>2. ClientTypeOK'
    BY <1>21, ConstantsAssumption DEF SetMode
  <2>3. LoopTypeOK'
    BY <1>21, ConstantsAssumption DEF SetMode
  <2>4. ServerTypeOK'
    BY <1>21, ConstantsAssumption DEF SetMode
  <2>5. FlagTypeOK'
    BY <1>21, ConstantsAssumption DEF SetMode
  <2> QED BY <2>1, <2>2, <2>3, <2>4, <2>5
<1>22. ASSUME NEW i \in DOMAIN calls, ServerHandles(i)
      PROVE  TypeOK'
  <2>1. calls' \in Seq(Frame) /\ calls[i] \in Frame
    BY <1>22, HandleFacts DEF ServerHandles
  <2>2. /\ calls[i].ssid \in Servers /\ calls[i].lt \in Nat
        /\ calls[i].op \in {"register", "update", "deregister"}
    BY <2>1 DEF Frame
  <2>3. ClientTypeOK'
    BY <1>22, <2>2 DEF ServerHandles
  <2>4. LoopTypeOK'
    BY <1>22, <2>2 DEF ServerHandles
  <2>5. ServerTypeOK'
    <3>1. CASE UNCHANGED <<srvTtl, srvLt, knows>>
      BY <1>22, <3>1 DEF ServerHandles
    <3>2. CASE ~UNCHANGED <<srvTtl, srvLt, knows>>
      <4>1. /\ srvTtl' = [srvTtl EXCEPT ![calls[i].ssid] =
                 CASE calls[i].op = "register" -> calls[i].lt
                   [] calls[i].op = "update" -> srvLt[calls[i].ssid]
                   [] calls[i].op = "deregister" -> -1]
            /\ srvLt' = [srvLt EXCEPT ![calls[i].ssid] =
                 IF calls[i].op = "register" THEN calls[i].lt ELSE @]
            /\ UNCHANGED <<inst, lifetime, mode>>
        BY <1>22, <3>2 DEF ServerHandles
      <4>2. CASE calls[i].op = "register"
        BY <2>2, <4>1, <4>2
      <4>3. CASE calls[i].op = "update"
        BY <2>2, <4>1, <4>3
      <4>4. CASE calls[i].op = "deregister"
        BY <2>2, <4>1, <4>4
      <4> QED BY <2>2, <4>2, <4>3, <4>4
    <3> QED BY <3>1, <3>2
  <2>6. FlagTypeOK'
    BY <1>22, <2>2 DEF ServerHandles
  <2> QED BY <2>1, <2>3, <2>4, <2>5, <2>6
<1>23. ASSUME NEW s \in Servers, ServerForgets(s)
      PROVE  TypeOK'
  <2>1. calls' \in Seq(Frame)
    BY <1>23 DEF ServerForgets
  <2>2. ClientTypeOK'
    BY <1>23 DEF ServerForgets
  <2>3. LoopTypeOK'
    BY <1>23 DEF ServerForgets
  <2>4. ServerTypeOK'
    BY <1>23 DEF ServerForgets
  <2>5. FlagTypeOK'
    BY <1>23 DEF ServerForgets
  <2> QED BY <2>1, <2>2, <2>3, <2>4, <2>5
<1>24. ASSUME Tick
      PROVE  TypeOK'
  <2>1. calls' \in Seq(Frame)
    BY <1>24, ConstantsAssumption, TickFacts DEF Tick
  <2>2. ClientTypeOK'
    BY <1>24, DownFacts DEF Tick
  <2>3. LoopTypeOK'
    BY <1>24 DEF Tick, Down
  <2>4. ServerTypeOK'
    BY <1>24, DownFacts DEF Tick
  <2>5. FlagTypeOK'
    BY <1>24 DEF Tick, Down
  <2> QED BY <2>1, <2>2, <2>3, <2>4, <2>5
<1>25. ASSUME StopReports
      PROVE  TypeOK'
  <2>1. calls' \in Seq(Frame)
    BY <1>25 DEF StopReports
  <2>2. ClientTypeOK' /\ LoopTypeOK'
    BY <1>25 DEF StopReports
  <2>3. ServerTypeOK' /\ FlagTypeOK'
    BY <1>25 DEF StopReports
  <2> QED BY <2>1, <2>2, <2>3
<1>26. ASSUME DeregisterDone
      PROVE  TypeOK'
  <2>1. Pop \in Seq(Frame)
    BY <1>26, PopFacts DEF DeregisterDone, Leaving
  <2>2. calls' \in Seq(Frame)
    BY <1>26, <2>1 DEF DeregisterDone
  <2>3. ClientTypeOK' /\ LoopTypeOK'
    BY <1>26 DEF DeregisterDone, BackToCaller, DeregisteredState
  <2>4. ServerTypeOK' /\ FlagTypeOK'
    BY <1>26 DEF DeregisterDone
  <2> QED BY <2>2, <2>3, <2>4
<1>27. CASE UNCHANGED vars
  BY <1>27 DEF vars
<1> QED BY <1>1, <1>2, <1>3, <1>4, <1>5, <1>6, <1>7, <1>8, <1>9, <1>10,
        <1>11, <1>12, <1>13, <1>14, <1>15, <1>16, <1>17, <1>18, <1>19,
        <1>20, <1>21, <1>22, <1>23, <1>24, <1>25, <1>26, <1>27
        DEF Next, App, Return, Holder, Arrivals, Handling, Environment

(* Countdowns stop at their end, every location, mode and counter stays in *)
(* its type, and the sends in progress form a stack of frames.             *)
THEOREM TypeCorrect == Spec => []TypeOK
<1>1. Init => TypeOK
  BY InitType
<1>2. TypeOK /\ [Next]_vars => TypeOK'
  BY NextType
<1> QED BY <1>1, <1>2, PTL DEF Spec

-----------------------------------------------------------------------------
(* The call stack and the reported state. *)

(* A step that sends nothing keeps the stack in order, if it removes       *)
(* registrations only while no send() waits.                               *)
LEMMA StackSame ==
    ASSUME StackOK, UNCHANGED calls,
           phase' \in {"free", "report"} => calls = <<>>,
           calls = <<>> \/ UNCHANGED registered
    PROVE  StackOK'
<1>1. CASE calls = <<>>
  BY <1>1 DEF StackOK
<1>2. CASE UNCHANGED registered
  BY <1>2 DEF StackOK
<1> QED BY <1>1, <1>2

(* A send() keeps the stack in order if it is nested only as an update,    *)
(* and about a registered server unless it registers one.                  *)
LEMMA StackPush ==
    ASSUME NEW op \in {"register", "update", "deregister"}, NEW s \in Servers,
           TypeOK, StackOK, calls' = Push(op, s),
           phase' \notin {"free", "report"}, UNCHANGED registered,
           op # "register" => s \in registered,
           calls = <<>> \/ (op = "update" /\ ~Leaving)
    PROVE  StackOK'
<1>1. /\ calls' \in Seq(Frame) /\ Len(calls') = Len(calls) + 1
      /\ calls'[Len(calls) + 1] = NewFrame(op, s)
      /\ \A i \in 1 .. Len(calls) :
            calls'[i] = IF calls[i].ssid = s
                        THEN [calls[i] EXCEPT !.orphan = TRUE] ELSE calls[i]
  <2>1. IsPush(op, s, calls')  BY PushIsPush, Zenon
  <2> QED BY <2>1, Zenon DEF IsPush
<1>2. Len(calls) \in Nat /\ DOMAIN calls = 1 .. Len(calls)
      /\ DOMAIN calls' = 1 .. Len(calls')
  BY <1>1, LenProperties DEF TypeOK
<1>3. \A i \in DOMAIN calls : calls[i].stage # "erased"
  <2>1. SUFFICES ASSUME NEW i \in DOMAIN calls, calls[i].stage = "erased"
                 PROVE  FALSE
    OBVIOUS
  <2>2. Len(calls) = 1
    BY <2>1 DEF StackOK
  <2>3. i = Len(calls) /\ calls # <<>>
    BY <1>2, <2>2, EmptySeq
  <2> QED BY <2>1, <2>3 DEF Leaving, Top
<1>4. ASSUME NEW i \in DOMAIN calls'
      PROVE  /\ i > 1 => calls'[i].op = "update"
             /\ calls'[i].op # "register" => calls'[i].ssid \in registered'
             /\ calls'[i].stage # "erased"
  <2>1. CASE i = Len(calls) + 1
    <3>1. calls'[i].op = op /\ calls'[i].ssid = s /\ calls'[i].stage = "sent"
      BY <1>1, <2>1 DEF NewFrame
    <3>2. calls = <<>> => i = 1
      BY <2>1, EmptySeq
    <3> QED BY <3>1, <3>2
  <2>2. CASE i \in DOMAIN calls
    <3>1. calls[i] \in Frame
      BY <1>2, <2>2, ElementOfSeq DEF TypeOK
    <3>2. /\ calls'[i].op = calls[i].op /\ calls'[i].ssid = calls[i].ssid
          /\ calls'[i].stage = calls[i].stage
      BY <1>1, <1>2, <2>2, <3>1 DEF Frame
    <3> QED BY <1>3, <2>2, <3>2 DEF StackOK
  <2>3. i = Len(calls) + 1 \/ i \in 1 .. Len(calls)
    BY <1>1, <1>2
  <2> QED BY <1>2, <2>1, <2>2, <2>3
<1> QED BY <1>4 DEF StackOK

(* A send() that returns keeps the stack in order: only the outermost may  *)
(* change the registrations or release mtx_.                               *)
LEMMA StackPop ==
    ASSUME TypeOK, StackOK, calls # <<>>, calls' = Pop,
           Len(calls) = 1 \/ UNCHANGED <<registered, phase>>
    PROVE  StackOK'
<1>1. /\ Pop \in Seq(Frame) /\ Len(Pop) = Len(calls) - 1
      /\ \A i \in 1 .. Len(calls) - 1 : Pop[i] = calls[i]
      /\ Len(calls) \in Nat \ {0}
  BY PopFacts DEF TypeOK
<1>2. CASE Len(calls) = 1
  <2>1. calls' = <<>>
    BY <1>1, <1>2, EmptySeq
  <2> QED BY <2>1 DEF StackOK
<1>3. CASE UNCHANGED <<registered, phase>>
  <2>1. phase \notin {"free", "report"}
    BY DEF StackOK
  <2>2. DOMAIN calls' = 1 .. Len(calls) - 1 /\ DOMAIN calls = 1 .. Len(calls)
    BY <1>1, LenProperties DEF TypeOK
  <2>3. \A i \in DOMAIN calls' : /\ i \in DOMAIN calls /\ calls'[i] = calls[i]
                                 /\ Len(calls) # 1
    BY <1>1, <2>2
  <2> QED BY <1>3, <2>1, <2>3 DEF StackOK
<1> QED BY <1>2, <1>3

(* A registration or a deregistration that returns is the only call. *)
LEMMA Bottom ==
    ASSUME TypeOK, StackOK, calls # <<>>, Top.op # "update"
    PROVE  Len(calls) = 1
<1>1. Len(calls) \in Nat /\ Len(calls) # 0 /\ DOMAIN calls = 1 .. Len(calls)
  BY EmptySeq, LenProperties DEF TypeOK
<1>2. \A n \in Nat : n # 0 => n \in 1 .. n /\ (n = 1 \/ n > 1)
  OBVIOUS
<1>3. Len(calls) \in DOMAIN calls
  BY <1>1, <1>2
<1>4. ~(Len(calls) > 1)
  BY <1>3 DEF StackOK, Top
<1> QED BY <1>1, <1>2, <1>4

(* A deregistration whose send() returns was the only call and stays it. *)
LEMMA ErasedFacts ==
    ASSUME TypeOK, StackOK, NEW ok, EndDeregister(ok)
    PROVE  OnlyErased'
<1>1. calls # <<>> /\ Top.op = "deregister"
  BY DEF EndDeregister, SendReturns
<1>2. Len(calls) = 1 /\ calls \in Seq(Frame)
  BY <1>1, Bottom DEF TypeOK
<1>3. calls' = [calls EXCEPT ![1].stage = "erased"] /\ 1 \in DOMAIN calls
  BY <1>2, LenProperties DEF EndDeregister
<1>4. /\ calls' \in Seq(Frame) /\ Len(calls') = 1 /\ calls[1] \in Frame
      /\ calls'[1] = [calls[1] EXCEPT !.stage = "erased"]
  BY <1>2, <1>3, HandleFacts
<1>5. calls'[1].op = "deregister" /\ calls'[1].stage = "erased"
  BY <1>1, <1>2, <1>4 DEF Frame, Top
<1>6. DOMAIN calls' = {1} /\ calls' # <<>>
  BY <1>4, OneFrame
<1> QED BY <1>4, <1>5, <1>6 DEF OnlyErased

(* A stack that is not empty has a top. *)
LEMMA TopInDomain ==
    ASSUME calls \in Seq(Frame), calls # <<>>
    PROVE  Len(calls) \in DOMAIN calls
<1>1. Len(calls) \in Nat /\ Len(calls) # 0 /\ DOMAIN calls = 1 .. Len(calls)
  BY EmptySeq, LenProperties
<1>2. \A n \in Nat : n # 0 => n \in 1 .. n
  OBVIOUS
<1> QED BY <1>1, <1>2

(* Neither a tick nor a server changes what a frame is about. *)
LEMMA TickFrames ==
    ASSUME TypeOK, Tick
    PROVE  /\ calls' \in Seq(Frame) /\ Len(calls') = Len(calls)
           /\ \A j \in 1 .. Len(calls) :
                 /\ calls'[j].op = calls[j].op /\ calls'[j].ssid = calls[j].ssid
                 /\ calls'[j].stage = calls[j].stage /\ calls'[j].lt = calls[j].lt
                 /\ calls'[j].elapsed = IF calls[j].elapsed <= SendTimeout
                                        THEN calls[j].elapsed + 1
                                        ELSE calls[j].elapsed
<1>1. calls \in Seq(Frame) /\ \A j \in 1 .. Len(calls) : calls[j] \in Frame
  BY ElementOfSeq DEF TypeOK
<1>2. /\ calls' \in Seq(Frame) /\ Len(calls') = Len(calls)
      /\ \A j \in 1 .. Len(calls) :
            calls'[j] = [calls[j] EXCEPT !.elapsed =
                           IF @ <= SendTimeout THEN @ + 1 ELSE @]
  BY <1>1, ConstantsAssumption, TickFacts DEF Tick
<1> QED BY <1>1, <1>2 DEF Frame

(* A server that handles a request changes the stage of that frame only. *)
LEMMA HandleFrames ==
    ASSUME TypeOK, NEW i \in DOMAIN calls, ServerHandles(i)
    PROVE  /\ calls' \in Seq(Frame) /\ Len(calls') = Len(calls)
           /\ i \in 1 .. Len(calls) /\ calls[i] \in Frame
           /\ \A j \in 1 .. Len(calls) :
                 /\ calls'[j].op = calls[j].op /\ calls'[j].ssid = calls[j].ssid
                 /\ calls'[j].lt = calls[j].lt /\ calls'[j].elapsed = calls[j].elapsed
                 /\ j # i => calls'[j].stage = calls[j].stage
           /\ calls[i].stage # "erased" /\ calls'[i].stage # "erased"
<1> DEFINE g == IF mode[calls[i].ssid] = "up"
                   /\ (calls[i].op # "register" => knows[calls[i].ssid])
                THEN "ok" ELSE "rejected"
<1>1. calls \in Seq(Frame) /\ \A j \in 1 .. Len(calls) : calls[j] \in Frame
  BY ElementOfSeq DEF TypeOK
<1>2. /\ calls' = [calls EXCEPT ![i].stage = g]
      /\ g \in {"ok", "rejected", "erased"} /\ g # "erased"
  BY DEF ServerHandles
<1> HIDE DEF g
<1>3. /\ calls' \in Seq(Frame) /\ Len(calls') = Len(calls)
      /\ i \in 1 .. Len(calls) /\ calls[i] \in Frame
      /\ \A j \in 1 .. Len(calls) :
            calls'[j] = IF j = i THEN [calls[j] EXCEPT !.stage = g] ELSE calls[j]
  BY <1>1, <1>2, HandleFacts
<1>4. ASSUME NEW f \in Frame
      PROVE  LET h == [f EXCEPT !.stage = g] IN
             /\ h.op = f.op /\ h.ssid = f.ssid
             /\ h.lt = f.lt /\ h.elapsed = f.elapsed
             /\ h.stage = g
  BY DEF Frame
<1>5. calls[i].stage # "erased"
  BY DEF ServerHandles
<1> QED BY <1>1, <1>2, <1>3, <1>4, <1>5

(* Every step keeps the stack in order and the reported state honest, one  *)
(* case per action of client.cpp.                                          *)
LEMMA NextStack ==
    ASSUME TypeOK, StackOK, RegisteredMeansRegistered, [Next]_vars
    PROVE  StackOK' /\ RegisteredMeansRegistered'
<1> USE DEF RegisteredMeansRegistered, Leaving, Top, clientVars, reconVars,
       loopVars, objVars, netVars
<1>0. rssid \in Servers /\ (phase \in {"free", "report"} => calls = <<>>)
  BY DEF TypeOK, ClientTypeOK, StackOK
<1>1. ASSUME PollBegin
      PROVE  StackOK' /\ RegisteredMeansRegistered'
  BY <1>0, <1>1, StackSame DEF PollBegin
<1>2. ASSUME PumpDone
      PROVE  StackOK' /\ RegisteredMeansRegistered'
  BY <1>0, <1>2, StackSame DEF PumpDone
<1>3. ASSUME NoAttempt
      PROVE  StackOK' /\ RegisteredMeansRegistered'
  BY <1>0, <1>3, StackSame DEF NoAttempt
<1>4. ASSUME AppStart
      PROVE  StackOK' /\ RegisteredMeansRegistered'
  BY <1>0, <1>4, StackSame DEF AppStart, AppTurn
<1>5. ASSUME AppStop
      PROVE  StackOK' /\ RegisteredMeansRegistered'
  BY <1>0, <1>5, StackSame DEF AppStop, AppTurn
<1>6. ASSUME StopClears \/ StopReports
      PROVE  StackOK' /\ RegisteredMeansRegistered'
  BY <1>0, <1>6, StackSame DEF StopClears, StopReports
<1>7. ASSUME NEW s \in Servers, NEW l \in LifetimeWrites, WriteLifetime(s, l)
      PROVE  StackOK' /\ RegisteredMeansRegistered'
  BY <1>0, <1>7, StackSame DEF WriteLifetime, RequestArrives
<1>8. ASSUME NEW s \in Servers, DeleteServerInstance(s)
      PROVE  StackOK' /\ RegisteredMeansRegistered'
  BY <1>0, <1>8, StackSame DEF DeleteServerInstance, RequestArrives
<1>9. ASSUME NEW s \in Servers, SessionEvent(s)
      PROVE  StackOK' /\ RegisteredMeansRegistered'
  BY <1>0, <1>9, StackSame DEF SessionEvent
<1>10. ASSUME NEW s \in Servers, NEW m \in Modes, SetMode(s, m)
      PROVE  StackOK' /\ RegisteredMeansRegistered'
  BY <1>0, <1>10, StackSame DEF SetMode
<1>11. ASSUME NEW s \in Servers, ServerForgets(s)
      PROVE  StackOK' /\ RegisteredMeansRegistered'
  BY <1>0, <1>11, StackSame DEF ServerForgets
<1>12. ASSUME CheckConnectionHealth
      PROVE  StackOK' /\ RegisteredMeansRegistered'
  <2>1. calls = <<>> /\ UNCHANGED calls /\ phase' # "free"
    BY <1>12 DEF CheckConnectionHealth
  <2>2. StackOK'
    BY <2>1, StackSame
  <2>3. RegisteredMeansRegistered'
    BY <1>12 DEF CheckConnectionHealth, HandleConnectionLost
  <2> QED BY <2>2, <2>3
<1>13. ASSUME NEW s \in Servers, AppRegister(s)
      PROVE  StackOK' /\ RegisteredMeansRegistered'
  <2>1. CASE RegisterFails(s, conn) /\ UNCHANGED calls
    <3>1. StackOK'
      BY <1>0, <1>13, <2>1, StackSame DEF AppRegister, AppTurn, RegisterFails,
         RegisterSends, StackOK
    <3>2. RegisteredMeansRegistered'
      BY <1>13, <2>1 DEF AppRegister, AppTurn, RegisterFails, RegisterSends,
         StackOK
    <3> QED BY <3>1, <3>2
  <2>2. CASE RegisterSends(s, conn)
    <3>1. StackOK'
      BY <1>0, <1>13, <2>2, StackPush DEF AppRegister, AppTurn, RegisterFails,
         RegisterSends, StackOK
    <3>2. RegisteredMeansRegistered'
      BY <1>13, <2>2 DEF AppRegister, AppTurn, RegisterFails, RegisterSends,
         StackOK
    <3> QED BY <3>1, <3>2
  <2> QED BY <1>13, <2>1, <2>2 DEF AppRegister
<1>14. ASSUME NEW s \in Servers, AppUpdate(s)
      PROVE  StackOK' /\ RegisteredMeansRegistered'
  <2>1. CASE UpdateFails(s) /\ UNCHANGED calls
    <3>1. StackOK'
      BY <1>0, <1>14, <2>1, StackSame DEF AppUpdate, AppTurn, UpdateFails,
         UpdateSends
    <3>2. RegisteredMeansRegistered'
      BY <1>14, <2>1 DEF AppUpdate, AppTurn, UpdateFails, UpdateSends
    <3> QED BY <3>1, <3>2
  <2>2. CASE UpdateSends(s)
    <3>1. StackOK'
      BY <1>0, <1>14, <2>2, StackPush DEF AppUpdate, AppTurn, UpdateFails,
         UpdateSends
    <3>2. RegisteredMeansRegistered'
      BY <1>14, <2>2 DEF AppUpdate, AppTurn, UpdateFails, UpdateSends
    <3> QED BY <3>1, <3>2
  <2> QED BY <1>14, <2>1, <2>2 DEF AppUpdate
<1>15. ASSUME NEW s \in Servers, CheckRegistrationUpdates(s)
      PROVE  StackOK' /\ RegisteredMeansRegistered'
  <2>1. CASE (UpdateFails(s) \/ UNCHANGED state) /\ UNCHANGED calls
    <3>1. StackOK'
      BY <1>0, <1>15, <2>1, StackSame DEF CheckRegistrationUpdates,
         UpdateFails, UpdateSends
    <3>2. RegisteredMeansRegistered'
      BY <1>15, <2>1 DEF CheckRegistrationUpdates, UpdateFails, UpdateSends
    <3> QED BY <3>1, <3>2
  <2>2. CASE UpdateSends(s)
    <3>1. StackOK'
      BY <1>0, <1>15, <2>2, StackPush DEF CheckRegistrationUpdates,
         UpdateFails, UpdateSends
    <3>2. RegisteredMeansRegistered'
      BY <1>15, <2>2 DEF CheckRegistrationUpdates, UpdateFails, UpdateSends
    <3> QED BY <3>1, <3>2
  <2> QED BY <1>15, <2>1, <2>2 DEF CheckRegistrationUpdates
<1>16. ASSUME NEW s \in Servers, ExecuteUpdateTrigger(s)
      PROVE  StackOK' /\ RegisteredMeansRegistered'
  <2>1. CASE UpdateFails(s) /\ UNCHANGED calls
    <3>1. StackOK'
      BY <1>0, <1>16, <2>1, StackSame DEF ExecuteUpdateTrigger, RequestArrives,
         Served, UpdateFails, UpdateSends, StackOK
    <3>2. RegisteredMeansRegistered'
      BY <1>16, <2>1 DEF ExecuteUpdateTrigger, RequestArrives, Served,
         UpdateFails, UpdateSends, StackOK
    <3> QED BY <3>1, <3>2
  <2>2. CASE UpdateSends(s)
    <3>1. StackOK'
      BY <1>0, <1>16, <2>2, StackPush DEF ExecuteUpdateTrigger, RequestArrives,
         Served, UpdateFails, UpdateSends, StackOK
    <3>2. RegisteredMeansRegistered'
      BY <1>16, <2>2 DEF ExecuteUpdateTrigger, RequestArrives, Served,
         UpdateFails, UpdateSends, StackOK
    <3> QED BY <3>1, <3>2
  <2> QED BY <1>16, <2>1, <2>2 DEF ExecuteUpdateTrigger
<1>17. ASSUME TryReconnect
      PROVE  StackOK' /\ RegisteredMeansRegistered'
  <2>1. CASE RegisterFails(rssid, [conn EXCEPT ![rssid] = "none"]) /\ UNCHANGED calls
    <3>1. StackOK'
      BY <1>0, <1>17, <2>1, StackSame DEF TryReconnect, RegisterFails,
         RegisterSends
    <3>2. RegisteredMeansRegistered'
      BY <1>17, <2>1 DEF TryReconnect, RegisterFails, RegisterSends
    <3> QED BY <3>1, <3>2
  <2>2. CASE RegisterSends(rssid, [conn EXCEPT ![rssid] = "none"])
                 /\ UNCHANGED phase
    <3>1. StackOK'
      BY <1>0, <1>17, <2>2, StackPush DEF TryReconnect, RegisterFails,
         RegisterSends
    <3>2. RegisteredMeansRegistered'
      BY <1>17, <2>2 DEF TryReconnect, RegisterFails, RegisterSends
    <3> QED BY <3>1, <3>2
  <2> QED BY <1>17, <2>1, <2>2 DEF TryReconnect
<1>18. ASSUME NEW s \in Servers, AppDeregister(s)
      PROVE  StackOK' /\ RegisteredMeansRegistered'
  <2>1. calls = <<>>
    BY <1>18 DEF AppDeregister, AppTurn, StackOK
  <2>2. CASE UNCHANGED <<calls, registered, state, phase>>
    BY <1>18, <2>1, <2>2, StackSame
  <2>3. CASE DeregisterUnsent(s)
    <3>1. OnlyErased'
      BY <2>1, <2>3, UnsentFacts DEF TypeOK, ServerTypeOK
    <3>2. phase' \notin {"free", "report"}
      BY <1>18, <2>3 DEF AppDeregister, DeregisterUnsent
    <3> QED BY <3>1, <3>2 DEF StackOK, OnlyErased
  <2>4. CASE DeregisterSends(s) /\ UNCHANGED registered
    <3>1. StackOK'
      BY <1>18, <2>1, <2>4, StackPush DEF AppDeregister, DeregisterSends
    <3>2. RegisteredMeansRegistered'
      BY <2>4 DEF DeregisterSends
    <3> QED BY <3>1, <3>2
  <2> QED BY <1>18, <2>2, <2>3, <2>4 DEF AppDeregister
<1>19. ASSUME NEW s \in Servers, StopDeregister(s)
      PROVE  StackOK' /\ RegisteredMeansRegistered'
  <2>1. calls = <<>>
    BY <1>19 DEF StopDeregister, AppTurn, StackOK
  <2>3. CASE DeregisterUnsent(s)
    <3>1. OnlyErased'
      BY <2>1, <2>3, UnsentFacts DEF TypeOK, ServerTypeOK
    <3>2. phase' \notin {"free", "report"}
      BY <1>19, <2>3 DEF StopDeregister, DeregisterUnsent
    <3> QED BY <3>1, <3>2 DEF StackOK, OnlyErased
  <2>4. CASE DeregisterSends(s) /\ UNCHANGED registered
    <3>1. StackOK'
      BY <1>19, <2>1, <2>4, StackPush DEF StopDeregister, DeregisterSends
    <3>2. RegisteredMeansRegistered'
      BY <2>4 DEF DeregisterSends
    <3> QED BY <3>1, <3>2
  <2> QED BY <1>19, <2>3, <2>4 DEF StopDeregister
<1>20. ASSUME NEW ok \in BOOLEAN, EndRegister(ok)
      PROVE  StackOK' /\ RegisteredMeansRegistered'
  <2>1. calls # <<>> /\ Top.op = "register" /\ calls' = Pop
    BY <1>20 DEF EndRegister, SendReturns
  <2>2. StackOK'
    BY <2>1, Bottom, StackPop
  <2>3. RegisteredMeansRegistered'
    BY <1>20 DEF EndRegister
  <2> QED BY <2>2, <2>3
<1>21. ASSUME NEW ok \in BOOLEAN, EndDeregister(ok)
      PROVE  StackOK' /\ RegisteredMeansRegistered'
  <2>1. OnlyErased'
    BY <1>21, ErasedFacts
  <2>2. phase' \notin {"free", "report"}
    BY <1>0, <1>21 DEF EndDeregister, SendReturns
  <2> QED BY <2>1, <2>2 DEF StackOK, OnlyErased
<1>22. ASSUME NEW ok \in BOOLEAN, EndUpdate(ok)
      PROVE  StackOK' /\ RegisteredMeansRegistered'
  <2>1. /\ calls # <<>> /\ Top.op = "update" /\ calls' = Pop
        /\ UNCHANGED registered
    BY <1>22 DEF EndUpdate, SendReturns
  <2>2. Len(calls) = 1 \/ UNCHANGED phase
    BY <1>22 DEF EndUpdate, BackToCaller
  <2>3. StackOK'
    BY <2>1, <2>2, StackPop
  <2>4. Top.ssid \in registered
    <3>1. Len(calls) \in DOMAIN calls
      BY <2>1, TopInDomain DEF TypeOK
    <3>2. Top.stage # "erased"
      BY <1>22, <2>1 DEF EndUpdate, SendReturns
    <3> QED BY <2>1, <3>1, <3>2 DEF StackOK
  <2>5. RegisteredMeansRegistered'
    BY <2>1, <2>4
  <2> QED BY <2>3, <2>5
<1>23. ASSUME NEW i \in DOMAIN calls, ServerHandles(i)
      PROVE  StackOK' /\ RegisteredMeansRegistered'
  <2>1. /\ calls' \in Seq(Frame) /\ Len(calls') = Len(calls)
        /\ \A j \in 1 .. Len(calls) :
              /\ calls'[j].op = calls[j].op /\ calls'[j].ssid = calls[j].ssid
              /\ calls'[j].stage = "erased" <=> calls[j].stage = "erased"
    BY <1>23, HandleFrames
  <2>2. DOMAIN calls' = DOMAIN calls /\ DOMAIN calls = 1 .. Len(calls)
    BY <2>1, LenProperties DEF TypeOK
  <2>3. calls = <<>> => calls' = <<>>
    BY <2>1, EmptySeq DEF TypeOK
  <2>4. UNCHANGED <<registered, phase, state>>
    BY <1>23 DEF ServerHandles
  <2> QED BY <2>1, <2>2, <2>3, <2>4 DEF StackOK
<1>24. ASSUME Tick
      PROVE  StackOK' /\ RegisteredMeansRegistered'
  <2>1. /\ calls' \in Seq(Frame) /\ Len(calls') = Len(calls)
        /\ \A j \in 1 .. Len(calls) :
              /\ calls'[j].op = calls[j].op /\ calls'[j].ssid = calls[j].ssid
              /\ calls'[j].stage = "erased" <=> calls[j].stage = "erased"
    BY <1>24, TickFrames
  <2>2. DOMAIN calls' = DOMAIN calls /\ DOMAIN calls = 1 .. Len(calls)
    BY <2>1, LenProperties DEF TypeOK
  <2>3. calls = <<>> => calls' = <<>>
    BY <2>1, EmptySeq DEF TypeOK
  <2>4. UNCHANGED <<registered, phase, state>>
    BY <1>24 DEF Tick
  <2> QED BY <2>1, <2>2, <2>3, <2>4 DEF StackOK
<1>25. ASSUME DeregisterDone
      PROVE  StackOK' /\ RegisteredMeansRegistered'
  <2>1. calls # <<>> /\ Top.stage = "erased" /\ calls' = Pop
    BY <1>25 DEF DeregisterDone
  <2>2. Len(calls) = 1
    <3>1. Len(calls) \in DOMAIN calls
      BY <2>1, TopInDomain DEF TypeOK
    <3> QED BY <2>1, <3>1 DEF StackOK
  <2>3. StackOK'
    BY <2>1, <2>2, StackPop
  <2>4. RegisteredMeansRegistered'
    BY <1>25 DEF DeregisterDone, DeregisteredState
  <2> QED BY <2>3, <2>4
<1>26. CASE UNCHANGED vars
  BY <1>26, StackSame DEF vars, StackOK
<1> QED BY <1>1, <1>2, <1>3, <1>4, <1>5, <1>6, <1>7, <1>8, <1>9, <1>10,
        <1>11, <1>12, <1>13, <1>14, <1>15, <1>16, <1>17, <1>18, <1>19,
        <1>20, <1>21, <1>22, <1>23, <1>24, <1>25, <1>26
        DEF Next, App, Return, Holder, Arrivals, Handling, Environment

-----------------------------------------------------------------------------
(* The client's deadline against the server's. *)

SkewInv == LifetimeOK /\ ServerTtlOK /\ AnswersOK /\ BoundedSkew

(* Every answered frame was there before, but for its orphan flag. *)
Inherits ==
    \A i \in DOMAIN calls' : calls'[i].stage = "ok" =>
        \E j \in DOMAIN calls :
            /\ calls[j].stage = "ok" /\ calls[j].op = calls'[i].op
            /\ calls[j].ssid = calls'[i].ssid /\ calls[j].lt = calls'[i].lt
            /\ calls[j].elapsed = calls'[i].elapsed

(* A step that leaves the stack alone answers nothing. *)
LEMMA InheritsSame == UNCHANGED calls => Inherits
  BY DEF Inherits

(* A new send() is not answered yet, and interrupting another one answers  *)
(* nothing.                                                                *)
LEMMA InheritsPush ==
    ASSUME NEW op \in {"register", "update", "deregister"}, NEW s \in Servers,
           TypeOK, calls' = Push(op, s)
    PROVE  Inherits
<1>1. /\ Push(op, s) \in Seq(Frame) /\ Len(Push(op, s)) = Len(calls) + 1
      /\ Push(op, s)[Len(calls) + 1] = NewFrame(op, s)
      /\ \A i \in 1 .. Len(calls) :
            Push(op, s)[i] = IF calls[i].ssid = s
                             THEN [calls[i] EXCEPT !.orphan = TRUE] ELSE calls[i]
  BY PushIsPush, Zenon DEF IsPush
<1>2. /\ Len(calls) \in Nat /\ DOMAIN calls = 1 .. Len(calls)
      /\ DOMAIN calls' = 1 .. Len(calls) + 1
  BY <1>1, LenProperties DEF TypeOK
<1>3. \A i \in DOMAIN calls' : i \in DOMAIN calls \/ i = Len(calls) + 1
  BY <1>2
<1>4. calls'[Len(calls) + 1].stage = "sent"
  BY <1>1 DEF NewFrame
<1>5. ASSUME NEW i \in DOMAIN calls
      PROVE  /\ calls[i].stage = calls'[i].stage /\ calls[i].op = calls'[i].op
             /\ calls[i].ssid = calls'[i].ssid /\ calls[i].lt = calls'[i].lt
             /\ calls[i].elapsed = calls'[i].elapsed
  <2>1. calls[i] \in Frame
    BY <1>2, ElementOfSeq DEF TypeOK
  <2>2. calls'[i] = IF calls[i].ssid = s
                    THEN [calls[i] EXCEPT !.orphan = TRUE] ELSE calls[i]
    BY <1>1, <1>2
  <2> QED BY <2>1, <2>2 DEF Frame
<1> QED BY <1>3, <1>4, <1>5 DEF Inherits

(* A send() that returns leaves the answers of the others as they are. *)
LEMMA InheritsPop ==
    ASSUME TypeOK, calls # <<>>, calls' = Pop
    PROVE  Inherits
<1>1. /\ Pop \in Seq(Frame) /\ Len(Pop) = Len(calls) - 1
      /\ \A i \in 1 .. Len(calls) - 1 : Pop[i] = calls[i]
      /\ Len(calls) \in Nat \ {0}
  BY PopFacts DEF TypeOK
<1>2. DOMAIN calls' = 1 .. Len(calls) - 1 /\ DOMAIN calls = 1 .. Len(calls)
  BY <1>1, LenProperties DEF TypeOK
<1>3. \A i \in DOMAIN calls' : i \in DOMAIN calls /\ calls'[i] = calls[i]
  BY <1>1, <1>2
<1> QED BY <1>3 DEF Inherits

(* Every frame is about one of the servers. *)
LEMMA FrameServers ==
    ASSUME TypeOK, NEW i \in DOMAIN calls
    PROVE  calls[i].ssid \in Servers
<1>1. calls[i] \in Frame
  BY LenProperties, ElementOfSeq DEF TypeOK
<1> QED BY <1>1 DEF Frame

(* A deregistration in its callback waits for no answer. *)
LEMMA InheritsErased == OnlyErased' => Inherits
  BY DEF Inherits, OnlyErased

(* AnswersOK survives whatever answers nothing and leaves the servers'     *)
(* countdowns alone.                                                       *)
LEMMA AnswersKept ==
    ASSUME TypeOK, AnswersOK, Inherits, UNCHANGED <<srvTtl, srvLt>>,
           \A s \in Servers : knows'[s] => knows[s]
    PROVE  AnswersOK'
<1>1. SUFFICES ASSUME NEW i \in DOMAIN calls', calls'[i].stage = "ok"
               PROVE  AnswerOK(calls[i])'
  BY DEF AnswersOK
<1>2. PICK j \in DOMAIN calls :
          /\ calls[j].stage = "ok" /\ calls[j].op = calls'[i].op
          /\ calls[j].ssid = calls'[i].ssid /\ calls[j].lt = calls'[i].lt
          /\ calls[j].elapsed = calls'[i].elapsed
  BY <1>1 DEF Inherits
<1>3. AnswerOK(calls[j])
  BY <1>2 DEF AnswersOK
<1>4. calls[j].ssid \in Servers
  BY FrameServers
<1> QED BY <1>2, <1>3, <1>4 DEF AnswerOK

(* LifetimeOK survives whatever leaves lifetimes and the servers alone and *)
(* makes no location good.                                                 *)
LEMMA LifetimesKept ==
    ASSUME LifetimeOK, UNCHANGED <<srvTtl, srvLt, lifetime, raised>>,
           \A s \in Servers : knows'[s] => knows[s]
    PROVE  LifetimeOK'
  BY DEF LifetimeOK

(* What neither touches the servers nor adds a registration is harmless. *)
LEMMA SkewKept ==
    ASSUME TypeOK, SkewInv, Inherits,
           UNCHANGED <<srvTtl, srvLt, lifetime, raised>>,
           \A s \in Servers : knows'[s] => knows[s],
           registered' \subseteq registered,
           \A s \in registered' : ttl'[s] = ttl[s]
    PROVE  SkewInv'
<1>1. LifetimeOK' /\ AnswersOK'
  BY LifetimesKept, AnswersKept DEF SkewInv
<1>2. BoundedSkew'
  BY DEF SkewInv, BoundedSkew, TypeOK, ClientTypeOK
<1>3. ServerTtlOK'
  BY DEF SkewInv, ServerTtlOK
<1> QED BY <1>1, <1>2, <1>3 DEF SkewInv

(* Erasing a registration, as deregister() and handle_connection_lost()    *)
(* do, is harmless.                                                        *)
LEMMA SkewErase ==
    ASSUME NEW s \in Servers, TypeOK, SkewInv, Inherits,
           UNCHANGED <<srvTtl, srvLt, lifetime, raised>>,
           /\ registered' = registered \ {s}
           /\ ttl' = [ttl EXCEPT ![s] = -1]
           /\ knows' = [knows EXCEPT ![s] = FALSE]
    PROVE  SkewInv'
<1>1. \A r \in Servers : knows'[r] => knows[r]
  BY DEF TypeOK, FlagTypeOK
<1>2. \A r \in registered' : ttl'[r] = ttl[r]
  BY DEF TypeOK, ClientTypeOK
<1> QED BY <1>1, <1>2, SkewKept

(* Every step preserves SkewInv, one case per action; the ends of updates  *)
(* and registrations, which restart expires_at (client.cpp:212-220,        *)
(* 257-261), use AnswersOK of the frame that returns.                      *)
LEMMA NextSkew ==
    ASSUME TypeOK, StackOK, SkewInv, [Next]_vars, TypeOK'
    PROVE  SkewInv'
<1> USE DEF clientVars, reconVars, loopVars, objVars, netVars
<1>0. rssid \in Servers
  BY DEF TypeOK, ClientTypeOK
<1>1. ASSUME PollBegin
      PROVE  SkewInv'
  BY <1>1, InheritsSame, SkewKept DEF PollBegin
<1>2. ASSUME PumpDone
      PROVE  SkewInv'
  BY <1>2, InheritsSame, SkewKept DEF PumpDone
<1>3. ASSUME NoAttempt
      PROVE  SkewInv'
  BY <1>3, InheritsSame, SkewKept DEF NoAttempt
<1>4. ASSUME AppStart
      PROVE  SkewInv'
  BY <1>4, InheritsSame, SkewKept DEF AppStart
<1>5. ASSUME AppStop
      PROVE  SkewInv'
  BY <1>5, InheritsSame, SkewKept DEF AppStop
<1>6. ASSUME NEW s \in Servers, DeleteServerInstance(s)
      PROVE  SkewInv'
  BY <1>6, InheritsSame, SkewKept DEF DeleteServerInstance
<1>7. ASSUME NEW s \in Servers, SessionEvent(s)
      PROVE  SkewInv'
  BY <1>7, InheritsSame, SkewKept DEF SessionEvent
<1>8. ASSUME NEW s \in Servers, NEW m \in Modes, SetMode(s, m)
      PROVE  SkewInv'
  BY <1>8, InheritsSame, SkewKept DEF SetMode
<1>9. ASSUME NEW s \in Servers, AppRegister(s)
      PROVE  SkewInv'
  <2>1. calls' = calls \/ calls' = Push("register", s)
    BY <1>9 DEF AppRegister, RegisterSends
  <2>2. Inherits
    BY <1>0, <2>1, InheritsSame, InheritsPush
  <2> QED BY <1>9, <2>2, SkewKept DEF AppRegister
<1>10. ASSUME NEW s \in Servers, AppUpdate(s)
      PROVE  SkewInv'
  <2>1. calls' = calls \/ calls' = Push("update", s)
    BY <1>10 DEF AppUpdate, UpdateSends
  <2>2. Inherits
    BY <1>0, <2>1, InheritsSame, InheritsPush
  <2> QED BY <1>10, <2>2, SkewKept DEF AppUpdate
<1>11. ASSUME NEW s \in Servers, CheckRegistrationUpdates(s)
      PROVE  SkewInv'
  <2>1. calls' = calls \/ calls' = Push("update", s)
    BY <1>11 DEF CheckRegistrationUpdates, UpdateSends
  <2>2. Inherits
    BY <1>0, <2>1, InheritsSame, InheritsPush
  <2> QED BY <1>11, <2>2, SkewKept DEF CheckRegistrationUpdates
<1>12. ASSUME NEW s \in Servers, ExecuteUpdateTrigger(s)
      PROVE  SkewInv'
  <2>1. calls' = calls \/ calls' = Push("update", s)
    BY <1>12 DEF ExecuteUpdateTrigger, UpdateSends
  <2>2. Inherits
    BY <1>0, <2>1, InheritsSame, InheritsPush
  <2> QED BY <1>12, <2>2, SkewKept DEF ExecuteUpdateTrigger
<1>13. ASSUME TryReconnect
      PROVE  SkewInv'
  <2>1. calls' = calls \/ calls' = Push("register", rssid)
    BY <1>13 DEF TryReconnect, RegisterSends
  <2>2. Inherits
    BY <1>0, <2>1, InheritsSame, InheritsPush
  <2> QED BY <1>13, <2>2, SkewKept DEF TryReconnect
<1>14. ASSUME NEW s \in Servers, AppDeregister(s)
      PROVE  SkewInv'
  <2>1. \/ calls' = calls \/ calls' = Push("deregister", s)
        \/ DeregisterUnsent(s) /\ calls = <<>>
    BY <1>14 DEF AppDeregister, AppTurn, DeregisterSends, StackOK
  <2>2. Inherits
    BY <2>1, InheritsSame, InheritsPush, UnsentFacts, InheritsErased
       DEF TypeOK, ServerTypeOK
  <2>3. /\ UNCHANGED <<srvTtl, srvLt, lifetime, raised>>
        /\ EraseRegistration(s) \/ UNCHANGED <<registered, ttl, knows>>
    BY <1>14 DEF AppDeregister, DeregisterUnsent
  <2>4. CASE EraseRegistration(s)
    BY <2>2, <2>3, <2>4, SkewErase DEF EraseRegistration
  <2>5. CASE UNCHANGED <<registered, ttl, knows>>
    BY <2>2, <2>3, <2>5, SkewKept
  <2> QED BY <2>3, <2>4, <2>5
<1>15. ASSUME NEW s \in Servers, StopDeregister(s)
      PROVE  SkewInv'
  <2>1. calls' = Push("deregister", s) \/ (DeregisterUnsent(s) /\ calls = <<>>)
    BY <1>15 DEF StopDeregister, DeregisterSends
  <2>2. Inherits
    BY <2>1, InheritsPush, UnsentFacts, InheritsErased DEF TypeOK, ServerTypeOK
  <2>3. /\ UNCHANGED <<srvTtl, srvLt, lifetime, raised>>
        /\ EraseRegistration(s) \/ UNCHANGED <<registered, ttl, knows>>
    BY <1>15 DEF StopDeregister, DeregisterUnsent
  <2>4. CASE EraseRegistration(s)
    BY <2>2, <2>3, <2>4, SkewErase DEF EraseRegistration
  <2>5. CASE UNCHANGED <<registered, ttl, knows>>
    BY <2>2, <2>3, <2>5, SkewKept
  <2> QED BY <2>3, <2>4, <2>5
<1>16. ASSUME StopClears
      PROVE  SkewInv'
  <2>1. Inherits /\ registered' = {} /\ knows' = [s \in Servers |-> FALSE]
        /\ UNCHANGED <<srvTtl, srvLt, lifetime, raised>>
    BY <1>16, InheritsSame DEF StopClears
  <2>2. \A s \in Servers : ~knows'[s]
    BY <2>1
  <2> QED BY <2>1, <2>2, SkewKept
<1>17. ASSUME CheckConnectionHealth
      PROVE  SkewInv'
  <2>1. Inherits /\ UNCHANGED <<srvTtl, srvLt, lifetime, raised>>
    BY <1>17, InheritsSame DEF CheckConnectionHealth
  <2>2. CASE UNCHANGED <<registered, ttl, knows>>
    BY <2>1, <2>2, SkewKept
  <2>3. ASSUME NEW s \in Servers, HandleConnectionLost(s)
        PROVE  SkewInv'
    <3>1. /\ registered' = registered \ {s}
          /\ ttl' = [ttl EXCEPT ![s] = -1]
          /\ knows' = [knows EXCEPT ![s] = FALSE]
      BY <2>3 DEF HandleConnectionLost
    <3> QED BY <2>1, <3>1, SkewErase
  <2>4. Expired \subseteq Servers /\ Closed \subseteq Servers
    BY DEF Expired, Closed, TypeOK, ClientTypeOK
  <2> QED BY <1>17, <2>2, <2>3, <2>4 DEF CheckConnectionHealth
<1>18. ASSUME NEW ok \in BOOLEAN, EndDeregister(ok)
      PROVE  SkewInv'
  <2>1. calls # <<>> /\ EraseRegistration(Top.ssid)
        /\ UNCHANGED <<srvTtl, srvLt, lifetime, raised>>
    BY <1>18 DEF EndDeregister, SendReturns
  <2>2. Inherits
    BY <1>18, ErasedFacts, InheritsErased
  <2>3. Top.ssid \in Servers
    BY <2>1, PopFacts DEF Frame, TypeOK
  <2> QED BY <2>1, <2>2, <2>3, SkewErase DEF EraseRegistration
<1>19. ASSUME NEW ok \in BOOLEAN, EndUpdate(ok)
      PROVE  SkewInv'
  <2>1. /\ calls # <<>> /\ calls' = Pop /\ Top.op = "update"
        /\ UNCHANGED <<srvTtl, srvLt, lifetime, raised, registered, knows>>
        /\ ttl' = UpdatedTtl(ok)
    BY <1>19 DEF EndUpdate, SendReturns
  <2>2. Inherits
    BY <2>1, InheritsPop
  <2>3. CASE ttl' = ttl
    BY <2>1, <2>2, <2>3, SkewKept
  <2>4. CASE ok
    <3> DEFINE s == Top.ssid
    <3>1. Top.stage = "ok" /\ Top.elapsed <= SendTimeout
      BY <1>19, <2>4 DEF EndUpdate, SendReturns, Answerable
    <3>2. Top \in Frame /\ Len(calls) \in DOMAIN calls
      BY <2>1, PopFacts, TopInDomain DEF TypeOK
    <3>3. AnswerOK(Top)
      BY <3>1, <3>2 DEF SkewInv, AnswersOK, Top
    <3>4. /\ s \in Servers /\ Top.elapsed \in Nat
          /\ lifetime[s] \in Nat /\ srvLt[s] \in Nat /\ srvTtl[s] \in Int
      BY <3>2 DEF Frame, TypeOK, ServerTypeOK
    <3>5. knows[s] /\ ~raised[s] => lifetime[s] <= srvTtl[s] + SendTimeout
      <4>1. SUFFICES ASSUME knows[s], ~raised[s]
                     PROVE  lifetime[s] <= srvTtl[s] + SendTimeout
        OBVIOUS
      <4>2. lifetime[s] <= srvLt[s]
        BY <3>4, <4>1 DEF SkewInv, LifetimeOK
      <4>3. srvLt[s] <= srvTtl[s] + Top.elapsed
        BY <2>1, <3>1, <3>3, <4>1 DEF AnswerOK
      <4> HIDE DEF s
      <4> QED BY <3>1, <3>4, <4>2, <4>3, ConstantsAssumption
    <3>6. BoundedSkew'
      <4>1. \A r \in registered : r # s => ttl'[r] = ttl[r]
        BY <2>1 DEF UpdatedTtl, TypeOK, ClientTypeOK
      <4>2. ttl'[s] = lifetime[s] \/ ttl' = ttl
        BY <2>1, <3>4 DEF UpdatedTtl, TypeOK, ClientTypeOK
      <4> HIDE DEF s
      <4> QED BY <2>1, <3>5, <4>1, <4>2 DEF SkewInv, BoundedSkew
    <3>7. LifetimeOK' /\ AnswersOK'
      BY <2>1, <2>2, LifetimesKept, AnswersKept DEF SkewInv
    <3>8. ServerTtlOK'
      BY <2>1 DEF SkewInv, ServerTtlOK
    <3> QED BY <3>6, <3>7, <3>8 DEF SkewInv
  <2> QED BY <2>1, <2>3, <2>4 DEF UpdatedTtl
<1>20. ASSUME NEW ok \in BOOLEAN, EndRegister(ok)
      PROVE  SkewInv'
  <2>1. /\ calls # <<>> /\ calls' = Pop /\ Top.op = "register"
        /\ UNCHANGED <<srvTtl, srvLt, lifetime>>
    BY <1>20 DEF EndRegister, SendReturns
  <2>2. CASE ~ok
    <3>1. Inherits /\ UNCHANGED <<raised, registered, ttl, knows>>
      BY <1>20, <2>1, <2>2, InheritsPop DEF EndRegister
    <3> QED BY <2>1, <3>1, SkewKept
  <2>3. CASE ok
    <3> DEFINE s == Top.ssid
    <3>1. Top.stage = "ok" /\ Top.elapsed <= SendTimeout
      BY <1>20, <2>3 DEF EndRegister, SendReturns, Answerable
    <3>2. Top \in Frame /\ Len(calls) \in DOMAIN calls
      BY <2>1, PopFacts, TopInDomain DEF TypeOK
    <3>3. AnswerOK(Top)
      BY <3>1, <3>2 DEF SkewInv, AnswersOK, Top
    <3>4. /\ s \in Servers /\ Top.elapsed \in Nat /\ Top.lt \in Nat
          /\ lifetime[s] \in Nat /\ srvLt[s] \in Nat /\ srvTtl[s] \in Int
      BY <3>2 DEF Frame, TypeOK, ServerTypeOK
    <3>5. /\ registered' = registered \cup {s}
          /\ ttl' = [ttl EXCEPT ![s] = Top.lt]
          /\ knows' = [knows EXCEPT ![s] = srvTtl[s] >= 0]
          /\ raised' = [raised EXCEPT ![s] = lifetime[s] > Top.lt]
      BY <1>20, <2>3, Zenon DEF EndRegister
    <3>6. /\ ttl'[s] = Top.lt /\ knows'[s] = (srvTtl[s] >= 0)
          /\ raised'[s] = (lifetime[s] > Top.lt)
          /\ \A r \in Servers \ {s} : /\ ttl'[r] = ttl[r] /\ knows'[r] = knows[r]
                                     /\ raised'[r] = raised[r]
      BY <3>4, <3>5 DEF TypeOK, ClientTypeOK, FlagTypeOK
    <3>7. AnswersOK'
      <4>1. Len(calls) = 1
        BY <2>1, Bottom
      <4>2. calls' = <<>>
        BY <2>1, <4>1, PopFacts, EmptySeq DEF TypeOK
      <4> QED BY <4>2 DEF AnswersOK
    <3>8. srvLt[s] = Top.lt
          /\ (srvTtl[s] >= 0 => Top.lt <= srvTtl[s] + Top.elapsed)
      BY <2>1, <3>1, <3>3 DEF AnswerOK
    <3> HIDE DEF s
    <3>9. LifetimeOK'
      <4>1. SUFFICES ASSUME NEW r \in Servers, knows'[r]
                     PROVE  /\ srvTtl[r] >= 0
                            /\ ~raised'[r] => lifetime[r] <= srvLt[r]
        BY <2>1 DEF LifetimeOK
      <4>2. CASE r # s
        BY <3>6, <4>1, <4>2 DEF SkewInv, LifetimeOK
      <4>3. CASE r = s
        <5>1. srvTtl[s] >= 0
          BY <3>6, <4>1, <4>3
        <5>2. ~raised'[s] => ~(lifetime[s] > Top.lt)
          BY <3>6
        <5> QED BY <3>4, <3>8, <4>3, <5>1, <5>2
      <4> QED BY <4>2, <4>3
    <3>10. BoundedSkew'
      <4>1. srvTtl[s] >= 0 => Top.lt <= srvTtl[s] + SendTimeout
        BY <3>1, <3>4, <3>8, ConstantsAssumption
      <4>2. registered' \subseteq Servers
        BY DEF TypeOK, ClientTypeOK
      <4> QED BY <2>1, <3>5, <3>6, <4>1, <4>2 DEF SkewInv, BoundedSkew
    <3>11. ServerTtlOK'
      BY <2>1 DEF SkewInv, ServerTtlOK
    <3> QED BY <3>7, <3>9, <3>10, <3>11 DEF SkewInv
  <2> QED BY <2>2, <2>3
<1>21. ASSUME NEW s \in Servers, NEW l \in LifetimeWrites, WriteLifetime(s, l)
      PROVE  SkewInv'
  <2>1. /\ Inherits /\ lifetime' = [lifetime EXCEPT ![s] = l]
        /\ raised' = [raised EXCEPT ![s] = @ \/ l > srvLt[s]]
        /\ UNCHANGED <<registered, ttl, srvTtl, srvLt, knows>>
    BY <1>21, InheritsSame DEF WriteLifetime
  <2>2. /\ l \in Nat /\ srvLt[s] \in Nat
        /\ lifetime'[s] = l /\ raised'[s] = (raised[s] \/ l > srvLt[s])
        /\ \A r \in Servers \ {s} : lifetime'[r] = lifetime[r] /\ raised'[r] = raised[r]
    BY <2>1, ConstantsAssumption DEF TypeOK, ServerTypeOK, FlagTypeOK
  <2>3. LifetimeOK'
    <3>1. SUFFICES ASSUME NEW r \in Servers, knows[r]
                   PROVE  /\ srvTtl[r] >= 0
                          /\ ~raised'[r] => lifetime'[r] <= srvLt[r]
      BY <2>1 DEF LifetimeOK
    <3>2. srvTtl[r] >= 0 /\ (~raised[r] => lifetime[r] <= srvLt[r])
      BY <3>1 DEF SkewInv, LifetimeOK
    <3>3. CASE r = s
      <4>1. ~raised'[s] => ~(l > srvLt[s])
        BY <2>2
      <4> QED BY <2>2, <3>2, <3>3, <4>1
    <3> QED BY <2>2, <3>2, <3>3
  <2>4. BoundedSkew'
    <3>1. \A r \in registered : ~raised'[r] => ~raised[r]
      BY <2>2 DEF TypeOK, ClientTypeOK
    <3> QED BY <2>1, <3>1 DEF SkewInv, BoundedSkew
  <2>5. AnswersOK'
    BY <2>1, AnswersKept DEF SkewInv
  <2>6. ServerTtlOK'
    BY <2>1 DEF SkewInv, ServerTtlOK
  <2> QED BY <2>3, <2>4, <2>5, <2>6 DEF SkewInv
<1>22. ASSUME NEW s \in Servers, ServerForgets(s)
      PROVE  SkewInv'
  <2>1. /\ srvTtl' = [srvTtl EXCEPT ![s] = -1]
        /\ knows' = [knows EXCEPT ![s] = FALSE]
        /\ UNCHANGED <<registered, ttl, srvLt, lifetime, raised, calls>>
    BY <1>22 DEF ServerForgets
  <2>2. /\ ~knows'[s] /\ srvTtl'[s] = -1
        /\ \A r \in Servers \ {s} : knows'[r] = knows[r] /\ srvTtl'[r] = srvTtl[r]
    BY <2>1 DEF TypeOK, ServerTypeOK, FlagTypeOK
  <2>3. LifetimeOK' /\ BoundedSkew'
    BY <2>1, <2>2 DEF SkewInv, LifetimeOK, BoundedSkew, TypeOK, ClientTypeOK
  <2>4. AnswersOK'
    <3>1. \A i \in DOMAIN calls : calls[i].ssid \in Servers
      BY FrameServers
    <3> QED BY <2>1, <2>2, <3>1 DEF SkewInv, AnswersOK, AnswerOK
  <2>5. ServerTtlOK'
    <3>1. srvLt[s] \in Nat
      BY DEF TypeOK, ServerTypeOK
    <3> QED BY <2>1, <2>2, <3>1 DEF SkewInv, ServerTtlOK
  <2> QED BY <2>3, <2>4, <2>5 DEF SkewInv
<1>23. ASSUME NEW i \in DOMAIN calls, ServerHandles(i)
      PROVE  SkewInv'
  <2> DEFINE f == calls[i]
             s == f.ssid
             good == mode[s] = "up" /\ (f.op # "register" => knows[s])
  <2>1. /\ calls' \in Seq(Frame) /\ Len(calls') = Len(calls)
        /\ i \in 1 .. Len(calls) /\ f \in Frame
        /\ \A j \in 1 .. Len(calls) :
              /\ calls'[j].op = calls[j].op /\ calls'[j].ssid = calls[j].ssid
              /\ calls'[j].lt = calls[j].lt /\ calls'[j].elapsed = calls[j].elapsed
              /\ j # i => calls'[j].stage = calls[j].stage
    BY <1>23, HandleFrames
  <2>2. DOMAIN calls' = 1 .. Len(calls) /\ DOMAIN calls = 1 .. Len(calls)
    BY <2>1, LenProperties DEF TypeOK
  <2>3. UNCHANGED <<registered, ttl, lifetime, raised>>
    BY <1>23 DEF ServerHandles
  <2>4. \A j \in 1 .. Len(calls) : calls[j] \in Frame
    BY ElementOfSeq DEF TypeOK
  <2>5. CASE ~good
    <3>1. calls'[i].stage = "rejected"
      BY <1>23, <2>1, <2>5, HandleFacts DEF ServerHandles, TypeOK, Frame
    <3>2. Inherits
      BY <2>1, <2>2, <3>1 DEF Inherits
    <3>3. UNCHANGED <<srvTtl, srvLt, knows>>
      BY <1>23, <2>5 DEF ServerHandles
    <3> QED BY <2>3, <3>2, <3>3, SkewKept
  <2>6. CASE good
    <3>1. /\ s \in Servers /\ f.lt \in Nat /\ f.elapsed \in Nat
          /\ f.op \in {"register", "update", "deregister"}
      BY <2>1 DEF Frame
    <3>2. /\ srvTtl' = [srvTtl EXCEPT ![s] =
                CASE f.op = "register" -> f.lt
                  [] f.op = "update" -> srvLt[s]
                  [] f.op = "deregister" -> -1]
          /\ srvLt' = [srvLt EXCEPT ![s] = IF f.op = "register" THEN f.lt ELSE @]
          /\ knows' = [knows EXCEPT ![s] = f.op = "update"]
      BY <1>23, <2>6 DEF ServerHandles
    <3>3. \A r \in Servers \ {s} : /\ srvTtl'[r] = srvTtl[r] /\ srvLt'[r] = srvLt[r]
                                  /\ knows'[r] = knows[r]
      BY <3>1, <3>2 DEF TypeOK, ServerTypeOK, FlagTypeOK
    <3>4. /\ srvTtl[s] \in Int /\ srvLt[s] \in Nat /\ lifetime[s] \in Nat
          /\ \A r \in registered : r \in Servers
      <4> HIDE DEF s
      <4>1. srvTtl[s] \in Nat \cup {-1} /\ srvLt[s] \in Nat /\ lifetime[s] \in Nat
        BY <3>1 DEF TypeOK, ServerTypeOK
      <4>2. \A r \in registered : r \in Servers
        BY DEF TypeOK, ClientTypeOK
      <4> QED BY <4>1, <4>2
    <3>5. CASE f.op = "update"
      <4>1. /\ knows[s] /\ knows'[s] /\ srvLt'[s] = srvLt[s] /\ srvTtl'[s] = srvLt[s]
        BY <2>6, <3>1, <3>2, <3>5 DEF TypeOK, ServerTypeOK, FlagTypeOK
      <4>2. LifetimeOK'
        BY <2>3, <3>3, <3>4, <4>1 DEF SkewInv, LifetimeOK
      <4>3. BoundedSkew'
        <5>1. srvTtl[s] <= srvLt[s]
          BY <3>1, <4>1 DEF SkewInv, ServerTtlOK
        <5>2. \A r \in registered : ttl[r] \in Int
          BY <3>4 DEF TypeOK, ClientTypeOK
        <5> HIDE DEF s
        <5>3. s \in registered /\ ~raised[s] => ttl[s] <= srvLt[s] + SendTimeout
          BY <3>4, <4>1, <5>1, <5>2, ConstantsAssumption DEF SkewInv,
             BoundedSkew
        <5> QED BY <2>3, <3>3, <3>4, <4>1, <5>3 DEF SkewInv, BoundedSkew
      <4>4. AnswersOK'
        <5>1. SUFFICES ASSUME NEW j \in DOMAIN calls', calls'[j].stage = "ok"
                       PROVE  AnswerOK(calls[j])'
          BY DEF AnswersOK
        <5>2. j \in 1 .. Len(calls) /\ calls[j] \in Frame
          BY <2>2, <2>4, <5>1
        <5>3. CASE calls[j].ssid # s
          <6>1. j # i
            BY <5>3
          <6>2. AnswerOK(calls[j])
            BY <2>1, <2>2, <5>1, <5>2, <6>1 DEF SkewInv, AnswersOK
          <6>3. calls[j].ssid \in Servers \ {s}
            BY <5>2, <5>3 DEF Frame
          <6> QED BY <2>1, <3>3, <5>2, <6>2, <6>3 DEF AnswerOK
        <5>4. CASE calls[j].ssid = s /\ calls[j].op = "register"
          <6>1. j # i
            BY <3>5, <5>4
          <6>2. AnswerOK(calls[j])
            BY <2>1, <2>2, <5>1, <5>2, <6>1 DEF SkewInv, AnswersOK
          <6> QED BY <4>1, <5>4, <6>2 DEF AnswerOK
        <5>5. CASE calls[j].ssid = s /\ calls[j].op # "register"
          <6>1. calls'[j].elapsed \in Nat /\ calls'[j].ssid = s
                /\ calls'[j].op # "register"
            BY <2>1, <5>2, <5>5 DEF Frame
          <6> HIDE DEF s
          <6> QED BY <3>4, <4>1, <6>1 DEF AnswerOK
        <5> QED BY <5>3, <5>4, <5>5
      <4>5. ServerTtlOK'
        BY <3>3, <3>4, <4>1 DEF SkewInv, ServerTtlOK
      <4> QED BY <4>2, <4>3, <4>4, <4>5 DEF SkewInv
    <3>6. CASE f.op # "update"
      <4>1. ~knows'[s]
        BY <3>1, <3>2, <3>6 DEF TypeOK, FlagTypeOK
      <4>2. LifetimeOK'
        BY <2>3, <3>3, <4>1 DEF SkewInv, LifetimeOK
      <4>3. BoundedSkew'
        BY <2>3, <3>3, <3>4, <4>1 DEF SkewInv, BoundedSkew
      <4>4. f.op = "register" => srvTtl'[s] = f.lt /\ srvLt'[s] = f.lt
        BY <3>1, <3>2 DEF TypeOK, ServerTypeOK
      <4>5. f.op = "deregister" => srvTtl'[s] = -1 /\ srvLt'[s] = srvLt[s]
        BY <3>1, <3>2 DEF TypeOK, ServerTypeOK
      <4>6. AnswersOK'
        <5>1. SUFFICES ASSUME NEW j \in DOMAIN calls', calls'[j].stage = "ok"
                       PROVE  AnswerOK(calls[j])'
          BY DEF AnswersOK
        <5>2. j \in 1 .. Len(calls) /\ calls[j] \in Frame
          BY <2>2, <2>4, <5>1
        <5>3. CASE calls[j].ssid # s
          <6>1. j # i
            BY <5>3
          <6>2. AnswerOK(calls[j])
            BY <2>1, <2>2, <5>1, <5>2, <6>1 DEF SkewInv, AnswersOK
          <6>3. calls[j].ssid \in Servers \ {s}
            BY <5>2, <5>3 DEF Frame
          <6> QED BY <2>1, <3>3, <5>2, <6>2, <6>3 DEF AnswerOK
        <5>4. CASE calls[j].ssid = s /\ calls[j].op # "register"
          BY <2>1, <4>1, <5>2, <5>4 DEF AnswerOK
        <5>5. CASE calls[j].ssid = s /\ calls[j].op = "register"
          <6>1. j = i
            <7>1. i = 1 \/ i > 1
              BY <2>1
            <7>2. j = 1 \/ j > 1
              BY <5>2
            <7>3. i = 1 /\ j = 1
              BY <2>1, <2>2, <3>6, <5>2, <5>5, <7>1, <7>2 DEF StackOK
            <7> QED BY <7>3
          <6>2. /\ calls'[j].ssid = s /\ calls'[j].lt = f.lt
                /\ calls'[j].elapsed = f.elapsed /\ calls'[j].op = "register"
                /\ f.op = "register"
            BY <2>1, <5>2, <5>5, <6>1
          <6> HIDE DEF s, f
          <6> QED BY <3>1, <4>1, <4>4, <6>2 DEF AnswerOK
        <5> QED BY <5>3, <5>4, <5>5
      <4>7. ServerTtlOK'
        BY <3>1, <3>3, <3>4, <3>6, <4>4, <4>5 DEF SkewInv, ServerTtlOK
      <4> QED BY <4>2, <4>3, <4>6, <4>7 DEF SkewInv
    <3> QED BY <3>5, <3>6
  <2> QED BY <2>5, <2>6
<1>24. ASSUME Tick
      PROVE  SkewInv'
  <2>1. /\ calls' \in Seq(Frame) /\ Len(calls') = Len(calls)
        /\ \A j \in 1 .. Len(calls) :
              /\ calls'[j].op = calls[j].op /\ calls'[j].ssid = calls[j].ssid
              /\ calls'[j].stage = calls[j].stage /\ calls'[j].lt = calls[j].lt
              /\ calls'[j].elapsed = IF calls[j].elapsed <= SendTimeout
                                     THEN calls[j].elapsed + 1
                                     ELSE calls[j].elapsed
    BY <1>24, TickFrames
  <2>2. DOMAIN calls' = 1 .. Len(calls) /\ DOMAIN calls = 1 .. Len(calls)
    BY <2>1, LenProperties DEF TypeOK
  <2>3. /\ UNCHANGED <<registered, srvLt, lifetime, raised>>
        /\ \A r \in Servers : /\ ttl'[r] = Down(ttl[r], -1)
                             /\ srvTtl'[r] = Down(srvTtl[r], -1)
                             /\ knows'[r] = (knows[r] /\ srvTtl[r] > 0)
    BY <1>24 DEF Tick
  <2>4. \A r \in Servers : /\ ttl[r] \in Nat \cup {-1} /\ srvTtl[r] \in Nat \cup {-1}
                         /\ lifetime[r] \in Nat /\ srvLt[r] \in Nat
    BY DEF TypeOK, ClientTypeOK, ServerTypeOK
  <2>5. registered \subseteq Servers
    BY DEF TypeOK, ClientTypeOK
  <2>6. ASSUME NEW r \in Servers, knows'[r]
        PROVE  knows[r] /\ srvTtl[r] > 0 /\ srvTtl'[r] = srvTtl[r] - 1
    <3>1. knows[r] /\ srvTtl[r] > 0
      BY <2>3, <2>6
    <3> QED BY <2>3, <2>4, <3>1, DownFacts
  <2>7. LifetimeOK'
    <3>1. SUFFICES ASSUME NEW r \in Servers, knows'[r]
                   PROVE  /\ srvTtl'[r] >= 0
                          /\ ~raised[r] => lifetime[r] <= srvLt[r]
      BY <2>3 DEF LifetimeOK
    <3>2. ~raised[r] => lifetime[r] <= srvLt[r]
      BY <2>6, <3>1 DEF SkewInv, LifetimeOK
    <3>3. srvTtl[r] > 0 /\ srvTtl'[r] = srvTtl[r] - 1 /\ srvTtl[r] \in Nat \cup {-1}
      BY <2>4, <2>6, <3>1
    <3> QED BY <3>2, <3>3
  <2>8. ServerTtlOK'
    <3>1. SUFFICES ASSUME NEW r \in Servers
                   PROVE  srvTtl'[r] <= srvLt[r]
      BY <2>3 DEF ServerTtlOK
    <3>2. srvTtl'[r] = Down(srvTtl[r], -1) /\ srvTtl[r] <= srvLt[r]
          /\ srvTtl[r] \in Nat \cup {-1} /\ srvLt[r] \in Nat
      BY <2>3, <2>4 DEF SkewInv, ServerTtlOK
    <3> QED BY <3>2 DEF Down
  <2>9. BoundedSkew'
    <3>1. SUFFICES ASSUME NEW r \in registered, knows'[r], ~raised[r]
                   PROVE  ttl'[r] <= srvTtl'[r] + SendTimeout
      BY <2>3 DEF BoundedSkew
    <3>2. knows[r] /\ srvTtl[r] > 0 /\ srvTtl'[r] = srvTtl[r] - 1
      BY <2>5, <2>6, <3>1
    <3>3. ttl[r] <= srvTtl[r] + SendTimeout
      BY <3>1, <3>2 DEF SkewInv, BoundedSkew
    <3>4. /\ ttl[r] \in Nat \cup {-1} /\ srvTtl[r] \in Nat \cup {-1}
          /\ ttl'[r] = Down(ttl[r], -1) /\ SendTimeout \in Nat
      BY <2>3, <2>4, <2>5, ConstantsAssumption
    <3>5. srvTtl[r] > 0 /\ srvTtl'[r] = srvTtl[r] - 1
      BY <3>2
    <3> QED BY <3>3, <3>4, <3>5 DEF Down
  <2>10. AnswersOK'
    <3>1. SUFFICES ASSUME NEW j \in DOMAIN calls', calls'[j].stage = "ok"
                   PROVE  AnswerOK(calls[j])'
      BY DEF AnswersOK
    <3> DEFINE s == calls[j].ssid
               e == calls[j].elapsed
    <3>2. j \in 1 .. Len(calls) /\ calls[j] \in Frame
      BY <2>2, <3>1, ElementOfSeq DEF TypeOK
    <3>3. s \in Servers /\ e \in Nat /\ calls[j].lt \in Nat
      BY <3>2 DEF Frame
    <3>4. AnswerOK(calls[j])
      BY <2>1, <2>2, <3>1, <3>2 DEF SkewInv, AnswersOK
    <3>5. calls'[j].elapsed <= SendTimeout => e <= SendTimeout /\ calls'[j].elapsed = e + 1
      BY <2>1, <3>2, <3>3, ConstantsAssumption
    <3>6. /\ srvTtl'[s] = Down(srvTtl[s], -1) /\ srvLt'[s] = srvLt[s]
          /\ knows'[s] = (knows[s] /\ srvTtl[s] > 0)
          /\ srvTtl[s] \in Nat \cup {-1} /\ srvLt[s] \in Nat
      BY <2>3, <2>4, <3>3
    <3>7. srvTtl[s] >= 0 => srvTtl'[s] = srvTtl[s] - 1
      BY <3>6, DownFacts
    <3>8. srvTtl'[s] >= 0 => srvTtl[s] >= 0
      BY <3>6 DEF Down
    <3>9. /\ calls'[j].ssid = s /\ calls'[j].op = calls[j].op
          /\ calls'[j].lt = calls[j].lt
      BY <2>1, <3>2
    <3>10. calls[j].op = "update" /\ knows[s] /\ e <= SendTimeout
             => srvLt[s] <= srvTtl[s] + e
      BY <3>4 DEF AnswerOK
    <3>11. calls[j].op = "register"
             => /\ srvLt[s] = calls[j].lt /\ ~knows[s]
                /\ srvTtl[s] >= 0 /\ e <= SendTimeout
                     => calls[j].lt <= srvTtl[s] + e
      BY <3>4 DEF AnswerOK
    <3> HIDE DEF s, e
    <3>12. calls[j].op = "update" /\ knows'[s] /\ calls'[j].elapsed <= SendTimeout
             => srvLt'[s] <= srvTtl'[s] + calls'[j].elapsed
      <4>1. SUFFICES ASSUME calls[j].op = "update", knows'[s],
                            calls'[j].elapsed <= SendTimeout
                     PROVE  srvLt'[s] <= srvTtl'[s] + calls'[j].elapsed
        OBVIOUS
      <4>2. knows[s] /\ srvTtl'[s] = srvTtl[s] - 1
        BY <2>6, <3>3, <4>1
      <4>3. e <= SendTimeout /\ calls'[j].elapsed = e + 1
        BY <3>5, <4>1
      <4>4. srvLt[s] <= srvTtl[s] + e
        BY <3>10, <4>1, <4>2, <4>3
      <4>5. /\ srvTtl[s] \in Nat \cup {-1} /\ srvLt[s] \in Nat
            /\ srvLt'[s] = srvLt[s] /\ srvTtl'[s] = srvTtl[s] - 1
        BY <3>6, <4>2
      <4> QED BY <3>3, <4>3, <4>4, <4>5
    <3>13. calls[j].op = "register"
             => /\ srvLt'[s] = calls[j].lt /\ ~knows'[s]
                /\ srvTtl'[s] >= 0 /\ calls'[j].elapsed <= SendTimeout
                     => calls[j].lt <= srvTtl'[s] + calls'[j].elapsed
      <4>1. SUFFICES ASSUME calls[j].op = "register"
                     PROVE  /\ srvLt'[s] = calls[j].lt /\ ~knows'[s]
                            /\ srvTtl'[s] >= 0 /\ calls'[j].elapsed <= SendTimeout
                                 => calls[j].lt <= srvTtl'[s] + calls'[j].elapsed
        OBVIOUS
      <4>2. /\ srvLt[s] = calls[j].lt /\ ~knows[s]
            /\ srvTtl[s] >= 0 /\ e <= SendTimeout => calls[j].lt <= srvTtl[s] + e
        BY <3>11, <4>1
      <4>3. srvLt'[s] = calls[j].lt /\ ~knows'[s]
        BY <2>6, <3>3, <3>6, <4>2
      <4>4. ASSUME srvTtl'[s] >= 0, calls'[j].elapsed <= SendTimeout
            PROVE  calls[j].lt <= srvTtl'[s] + calls'[j].elapsed
        <5>1. /\ srvTtl[s] >= 0 /\ srvTtl'[s] = srvTtl[s] - 1
              /\ e <= SendTimeout /\ calls'[j].elapsed = e + 1
          BY <3>5, <3>7, <3>8, <4>4
        <5>2. calls[j].lt <= srvTtl[s] + e
          BY <4>2, <5>1
        <5>3. srvTtl[s] \in Nat \cup {-1}
          BY <3>6
        <5> QED BY <3>3, <5>1, <5>2, <5>3
      <4> QED BY <4>3, <4>4
    <3> QED BY <3>9, <3>12, <3>13 DEF AnswerOK
  <2> QED BY <2>7, <2>8, <2>9, <2>10 DEF SkewInv
<1>25. ASSUME StopReports
      PROVE  SkewInv'
  BY <1>25, InheritsSame, SkewKept DEF StopReports
<1>26. ASSUME DeregisterDone
      PROVE  SkewInv'
  <2>1. Inherits
    BY <1>26, InheritsPop DEF DeregisterDone, Leaving
  <2> QED BY <1>26, <2>1, SkewKept DEF DeregisterDone
<1>27. CASE UNCHANGED vars
  BY <1>27, InheritsSame, SkewKept DEF vars
<1> QED BY <1>1, <1>2, <1>3, <1>4, <1>5, <1>6, <1>7, <1>8, <1>9, <1>10,
        <1>11, <1>12, <1>13, <1>14, <1>15, <1>16, <1>17, <1>18, <1>19,
        <1>20, <1>21, <1>22, <1>23, <1>24, <1>25, <1>26, <1>27
        DEF Next, App, Return, Holder, Arrivals, Handling, Environment

(* The inductive invariant of the client. *)
ClientInv == TypeOK /\ StackOK /\ RegisteredMeansRegistered /\ SkewInv

(* The inductive invariant holds of a new client. *)
LEMMA InitInv == Init => ClientInv
<1>1. SUFFICES ASSUME Init PROVE ClientInv
  OBVIOUS
<1>2. TypeOK
  BY <1>1, InitType
<1>3. calls = <<>> /\ DOMAIN calls = {}
  BY <1>1 DEF Init
<1>4. StackOK /\ RegisteredMeansRegistered /\ BoundedSkew
  BY <1>1, <1>3 DEF Init, StackOK, RegisteredMeansRegistered, BoundedSkew
<1>5. LifetimeOK /\ ServerTtlOK /\ AnswersOK
  BY <1>1, <1>3 DEF Init, LifetimeOK, ServerTtlOK, AnswersOK
<1> QED BY <1>2, <1>4, <1>5 DEF ClientInv, SkewInv

(* The inductive invariant is preserved by every step. *)
LEMMA NextInv == ClientInv /\ [Next]_vars => ClientInv'
  BY NextType, NextStack, NextSkew DEF ClientInv

(* The client reports ClientState::Registered only while it holds a        *)
(* registration, or is about to say otherwise inside deregister() or       *)
(* stop(), whatever a lost connection (client.cpp:775) or a failed or      *)
(* nested update left behind.                                              *)
THEOREM RegisteredCorrect == Spec => []RegisteredMeansRegistered
<1>1. ClientInv => RegisteredMeansRegistered
  BY DEF ClientInv
<1> QED BY <1>1, InitInv, NextInv, PTL DEF Spec

(* No operation resumes with an iterator to a registration that what ran   *)
(* inside its send() has erased (client.cpp:260, 286).                     *)
THEOREM IteratorsCorrect == Spec => []IteratorsValid
<1>1. ClientInv => IteratorsValid
  BY DEF ClientInv, StackOK
<1> QED BY <1>1, InitInv, NextInv, PTL DEF Spec

(* The client's expires_at runs at most one send() timeout behind the      *)
(* server's own expiry, for any number of servers, lifetimes and nested    *)
(* sends (update_registration, client.cpp:254-261).                        *)
THEOREM SkewBounded == Spec => []BoundedSkew
<1>1. ClientInv => BoundedSkew
  BY DEF ClientInv, SkewInv
<1> QED BY <1>1, InitInv, NextInv, PTL DEF Spec

-----------------------------------------------------------------------------
(* Reconnection. *)

(* No reconnection makes more attempts than max_retries (client.cpp:806).  *)
THEOREM RetriesCorrect == Spec => []RetriesBounded
<1>1. Init => RetriesBounded
  BY ConstantsAssumption DEF Init, RetriesBounded
<1>2. TypeOK /\ RetriesBounded /\ [Next]_vars => RetriesBounded'
  <2>1. SUFFICES ASSUME TypeOK, RetriesBounded, [Next]_vars
                 PROVE  RetriesBounded'
    OBVIOUS
  <2>2. attempts \in Nat /\ MaxRetries \in Nat /\ AttemptMod \in Nat \ {0}
    BY <2>1, ConstantsAssumption DEF TypeOK, ClientTypeOK
  <2>3. attempts' \in {attempts, 0} \/ (RetriesLeft /\ attempts' = NextAttempt)
    BY <2>1 DEF Next, vars, clientVars, reconVars, loopVars, objVars, netVars,
       App, Return, Holder, Arrivals, Handling, Environment, PollBegin, Tick,
       AppStart, AppStop, AppRegister, AppUpdate, AppDeregister, StopClears,
       StopReports, DeregisterDone,
       PumpDone, CheckConnectionHealth, HandleConnectionLost, NoAttempt,
       TryReconnect, ReconnectTail, StopDeregister, CheckRegistrationUpdates,
       EndRegister, EndUpdate, EndDeregister, ExecuteUpdateTrigger,
       DeleteServerInstance, SessionEvent, WriteLifetime, ServerHandles,
       ServerForgets, SetMode
  <2>4. RetriesLeft /\ MaxRetries > 0 => NextAttempt <= MaxRetries
    <3>1. attempts + 1 \in Nat
      BY <2>2
    <3>2. NextAttempt \in 0 .. AttemptMod - 1 /\ NextAttempt <= attempts + 1
      BY <2>2, <3>1, ModFacts DEF NextAttempt
    <3> QED BY <2>2, <3>2 DEF RetriesLeft
  <2> QED BY <2>1, <2>2, <2>3, <2>4 DEF RetriesBounded
<1> QED BY <1>1, <1>2, TypeCorrect, PTL DEF Spec

(* calculate_backoff() in the form Recursion takes. *)
BackoffArgs(p) == 0 .. AttemptMod - 1
BackoffRank(n) == n
BackoffBody(p, g, n) ==
    IF n <= 1 THEN InitialBackoff
    ELSE LET next == g[n - 1] * Multiplier
         IN  IF next > MaxBackoff THEN MaxBackoff ELSE next

Calc == INSTANCE Recursion
          WITH Body <- BackoffBody, Dom <- BackoffArgs, Rank <- BackoffRank

(* calculate_backoff() is clamped after every multiplication, so that none *)
(* of the delays it computes exceeds the longer of the two configured ones *)
(* (client.cpp:848-863).                                                   *)
LEMMA BackoffClamped ==
    \A n \in 0 .. AttemptMod - 1 :
        Backoff[n] \in Nat /\ (Backoff[n] <= MaxBackoff \/ Backoff[n] <= InitialBackoff)
<1>1. /\ InitialBackoff \in Nat /\ MaxBackoff \in Nat /\ Multiplier \in Nat
      /\ AttemptMod \in Nat \ {0}
  BY ConstantsAssumption
<1>2. Calc!Ranked(0)
  BY <1>1 DEF Calc!Ranked, BackoffArgs, BackoffRank
<1>3. Calc!Downward(0)
  <2> SUFFICES ASSUME NEW n \in BackoffArgs(0), NEW g, NEW h,
                      \A m \in BackoffArgs(0) :
                         BackoffRank(m) < BackoffRank(n) => g[m] = h[m]
               PROVE  BackoffBody(0, g, n) = BackoffBody(0, h, n)
    BY DEF Calc!Downward
  <2>1. CASE n <= 1
    BY <2>1 DEF BackoffBody
  <2>2. CASE ~(n <= 1)
    <3>1. g[n - 1] = h[n - 1]
      BY <1>1, <2>2 DEF BackoffArgs, BackoffRank
    <3> QED BY <3>1 DEF BackoffBody
  <2> QED BY <2>1, <2>2
<1>4. Backoff = CHOOSE g : g = [n \in BackoffArgs(0) |-> BackoffBody(0, g, n)]
  BY DEF Backoff, BackoffArgs, BackoffBody
<1>5. Backoff = [n \in BackoffArgs(0) |-> BackoffBody(0, Backoff, n)]
  BY <1>2, <1>3, <1>4, Calc!Fixpoint
<1> DEFINE Good(v) == v \in Nat /\ (v <= MaxBackoff \/ v <= InitialBackoff)
           T == {n \in Nat : n < AttemptMod => Good(Backoff[n])}
<1>6. \A n \in 0 .. AttemptMod - 1 : Backoff[n] = BackoffBody(0, Backoff, n)
  BY <1>5 DEF BackoffArgs
<1>7. 0 \in T
  BY <1>1, <1>6 DEF BackoffBody
<1>8. ASSUME NEW n \in Nat, n \in T PROVE n + 1 \in T
  <2> SUFFICES ASSUME n + 1 < AttemptMod PROVE Good(Backoff[n + 1])
    OBVIOUS
  <2>1. Good(Backoff[n])
    BY <1>1, <1>8
  <2>2. Backoff[n + 1] = BackoffBody(0, Backoff, n + 1)
    BY <1>1, <1>6
  <2>3. n + 1 > 1 =>
          Backoff[n + 1] = IF Backoff[n] * Multiplier > MaxBackoff
                           THEN MaxBackoff ELSE Backoff[n] * Multiplier
    BY <2>2 DEF BackoffBody
  <2>4. n + 1 <= 1 => Backoff[n + 1] = InitialBackoff
    BY <2>2 DEF BackoffBody
  <2>5. Backoff[n] * Multiplier \in Nat
    BY <1>1, <2>1
  <2> QED BY <1>1, <2>3, <2>4, <2>5
<1>9. Nat \subseteq T
  <2> HIDE DEF T
  <2> QED BY <1>7, <1>8, Calc!SetInduction
<1> QED BY <1>1, <1>9

(* What BackoffBounded needs: the countdown is a natural number. *)
WaitOK == wait \in Nat /\ BackoffBounded

(* No failed attempt is scheduled later than the longer of the configured  *)
(* backoffs, for every multiplier and however often the counter of         *)
(* attempts wraps (calculate_backoff, client.cpp:848-863).                 *)
THEOREM BackoffCorrect == Spec => []BackoffBounded
<1>1. Init => WaitOK
  BY ConstantsAssumption DEF Init, WaitOK, BackoffBounded
<1>2. TypeOK /\ WaitOK /\ [Next]_vars => WaitOK'
  <2>1. SUFFICES ASSUME TypeOK, WaitOK, [Next]_vars
                 PROVE  WaitOK'
    OBVIOUS
  <2>2. /\ attempts \in 0 .. AttemptMod - 1 /\ AttemptMod \in Nat \ {0}
        /\ MaxBackoff \in Nat /\ InitialBackoff \in Nat
    BY <2>1, ConstantsAssumption DEF TypeOK, ClientTypeOK
  <2>3. \/ wait' \in {wait, 0, Down(wait, 0)}
        \/ wait' = Backoff[attempts] \/ wait' = Backoff[NextAttempt]
    BY <2>1 DEF Next, vars, clientVars, reconVars, loopVars, objVars, netVars,
       App, Return, Holder, Arrivals, Handling, Environment, PollBegin, Tick,
       AppStart, AppStop, AppRegister, AppUpdate, AppDeregister, StopClears,
       StopReports, DeregisterDone,
       PumpDone, CheckConnectionHealth, HandleConnectionLost, NoAttempt,
       TryReconnect, ReconnectTail, StopDeregister, CheckRegistrationUpdates,
       EndRegister, EndUpdate, EndDeregister, ExecuteUpdateTrigger,
       DeleteServerInstance, SessionEvent, WriteLifetime, ServerHandles,
       ServerForgets, SetMode
  <2>4. NextAttempt \in 0 .. AttemptMod - 1
    <3>1. attempts + 1 \in Nat
      BY <2>2
    <3> QED BY <2>2, <3>1, ModFacts DEF NextAttempt
  <2>5. CASE wait' = Backoff[attempts] \/ wait' = Backoff[NextAttempt]
    BY <2>2, <2>4, <2>5, BackoffClamped DEF WaitOK, BackoffBounded
  <2>6. CASE wait' \in {wait, 0, Down(wait, 0)}
    BY <2>1, <2>2, <2>6 DEF WaitOK, BackoffBounded, Down
  <2> QED BY <2>3, <2>5, <2>6
<1>3. WaitOK => BackoffBounded
  BY DEF WaitOK
<1> QED BY <1>1, <1>2, <1>3, TypeCorrect, PTL DEF Spec

(* A register_with_server() called by try_reconnect() is about             *)
(* reconnect_ssid_, which does not change under it.                        *)
TargetOK ==
    phase = "reconnect" =>
        \A i \in DOMAIN calls : calls[i].op = "register" => calls[i].ssid = rssid

(* The frames keep what they are about. *)
SameSubjects ==
    \A i \in DOMAIN calls' : calls'[i].op = "register" =>
        \E j \in DOMAIN calls :
            calls[j].op = "register" /\ calls[j].ssid = calls'[i].ssid

(* TargetOK survives whatever adds no registration to the stack and leaves *)
(* reconnect_ssid_ alone.                                                  *)
LEMMA TargetKept ==
    ASSUME TargetOK, SameSubjects, rssid' = rssid,
           phase' = "reconnect" => phase = "reconnect"
    PROVE  TargetOK'
  BY DEF TargetOK, SameSubjects

(* A new send() is about its own server, the others stay about theirs. *)
LEMMA SubjectsPush ==
    ASSUME NEW op \in {"register", "update", "deregister"}, NEW s \in Servers,
           TypeOK, calls' = Push(op, s)
    PROVE  \A i \in DOMAIN calls' :
              \/ calls'[i].op = op /\ calls'[i].ssid = s
              \/ i \in DOMAIN calls /\ calls'[i].op = calls[i].op
                                    /\ calls'[i].ssid = calls[i].ssid
<1>1. /\ Push(op, s) \in Seq(Frame) /\ Len(Push(op, s)) = Len(calls) + 1
      /\ Push(op, s)[Len(calls) + 1] = NewFrame(op, s)
      /\ \A i \in 1 .. Len(calls) :
            Push(op, s)[i] = IF calls[i].ssid = s
                             THEN [calls[i] EXCEPT !.orphan = TRUE] ELSE calls[i]
  BY PushIsPush, Zenon DEF IsPush
<1>2. /\ Len(calls) \in Nat /\ DOMAIN calls = 1 .. Len(calls)
      /\ DOMAIN calls' = 1 .. Len(calls) + 1
  BY <1>1, LenProperties DEF TypeOK
<1>3. \A i \in DOMAIN calls' : i \in DOMAIN calls \/ i = Len(calls) + 1
  BY <1>2
<1>4. calls'[Len(calls) + 1].op = op /\ calls'[Len(calls) + 1].ssid = s
  BY <1>1 DEF NewFrame
<1>5. ASSUME NEW i \in DOMAIN calls
      PROVE  calls'[i].op = calls[i].op /\ calls'[i].ssid = calls[i].ssid
  <2>1. calls[i] \in Frame
    BY <1>2, ElementOfSeq DEF TypeOK
  <2>2. calls'[i] = IF calls[i].ssid = s
                    THEN [calls[i] EXCEPT !.orphan = TRUE] ELSE calls[i]
    BY <1>1, <1>2
  <2> QED BY <2>1, <2>2 DEF Frame
<1> QED BY <1>3, <1>4, <1>5

(* A send() that returns adds nothing to the stack. *)
LEMMA SubjectsPop ==
    ASSUME TypeOK, calls # <<>>, calls' = Pop
    PROVE  SameSubjects
<1>1. /\ Pop \in Seq(Frame) /\ Len(Pop) = Len(calls) - 1
      /\ \A i \in 1 .. Len(calls) - 1 : Pop[i] = calls[i]
      /\ Len(calls) \in Nat \ {0}
  BY PopFacts DEF TypeOK
<1>2. DOMAIN calls' = 1 .. Len(calls) - 1 /\ DOMAIN calls = 1 .. Len(calls)
  BY <1>1, LenProperties DEF TypeOK
<1>3. \A i \in DOMAIN calls' : i \in DOMAIN calls /\ calls'[i] = calls[i]
  BY <1>1, <1>2
<1> QED BY <1>3 DEF SameSubjects

(* Every step preserves TargetOK: reconnect_ssid_ changes only while no    *)
(* send() waits.                                                           *)
LEMMA NextTarget ==
    ASSUME TypeOK, StackOK, TargetOK, [Next]_vars
    PROVE  TargetOK'
<1> USE DEF clientVars, reconVars, loopVars, objVars, netVars
<1>1. ASSUME UNCHANGED calls PROVE SameSubjects
  BY <1>1 DEF SameSubjects
<1>2. ASSUME NEW s \in Servers,
             calls' = Push("update", s) \/ calls' = Push("deregister", s)
      PROVE  SameSubjects
  <2>1. PICK op \in {"update", "deregister"} : calls' = Push(op, s)
    BY <1>2
  <2>2. \A i \in DOMAIN calls' :
              \/ calls'[i].op = op /\ calls'[i].ssid = s
              \/ i \in DOMAIN calls /\ calls'[i].op = calls[i].op
                                    /\ calls'[i].ssid = calls[i].ssid
    BY <2>1, SubjectsPush
  <2> QED BY <2>1, <2>2 DEF SameSubjects
<1>3. ASSUME \/ PollBegin \/ PumpDone \/ AppStart \/ AppStop
             \/ StopClears \/ StopReports
             \/ NoAttempt \/ UNCHANGED vars
             \/ \E s \in Servers : \/ DeleteServerInstance(s) \/ SessionEvent(s)
                                   \/ ServerForgets(s)
                                   \/ \E m \in Modes : SetMode(s, m)
                                   \/ \E l \in LifetimeWrites : WriteLifetime(s, l)
      PROVE  TargetOK'
  <2>1. UNCHANGED <<calls, rssid>> /\ (phase' = "reconnect" => phase = "reconnect")
    BY <1>3 DEF vars, PollBegin, PumpDone, AppStart, AppStop, StopClears,
       StopReports,
       NoAttempt,
       DeleteServerInstance, SessionEvent, ServerForgets, SetMode, WriteLifetime
  <2> QED BY <1>1, <2>1, TargetKept
<1>4. ASSUME NEW s \in Servers, AppRegister(s) PROVE TargetOK'
  <2>1. \/ UNCHANGED <<calls, rssid, phase>>
        \/ phase' = "app"
    BY <1>4 DEF AppRegister, RegisterSends
  <2> QED BY <1>1, <2>1, TargetKept DEF TargetOK
<1>5. ASSUME NEW s \in Servers,
             \/ AppUpdate(s) \/ AppDeregister(s) \/ StopDeregister(s)
             \/ CheckRegistrationUpdates(s) \/ ExecuteUpdateTrigger(s)
      PROVE  TargetOK'
  <2>1. /\ rssid' = rssid /\ (phase' = "reconnect" => phase = "reconnect")
        /\ \/ UNCHANGED calls
           \/ calls' = Push("update", s) \/ calls' = Push("deregister", s)
           \/ DeregisterUnsent(s) /\ calls = <<>>
    BY <1>5 DEF AppUpdate, AppDeregister, StopDeregister, AppTurn, StackOK,
       CheckRegistrationUpdates,
       ExecuteUpdateTrigger, UpdateSends, DeregisterSends
  <2>2. CASE DeregisterUnsent(s) /\ calls = <<>>
    <3>1. OnlyErased'
      BY <2>2, UnsentFacts DEF TypeOK, ServerTypeOK
    <3> QED BY <3>1 DEF TargetOK, OnlyErased
  <2> QED BY <1>1, <1>2, <2>1, <2>2, TargetKept
<1>6. ASSUME NEW ok \in BOOLEAN,
             EndRegister(ok) \/ EndUpdate(ok) \/ DeregisterDone
      PROVE  TargetOK'
  <2>1. /\ calls # <<>> /\ calls' = Pop /\ rssid' = rssid
        /\ phase' = "reconnect" => phase = "reconnect"
    BY <1>6 DEF EndRegister, EndUpdate, DeregisterDone, Leaving, SendReturns,
       BackToCaller
  <2> QED BY <2>1, SubjectsPop, TargetKept
<1>7. ASSUME CheckConnectionHealth PROVE TargetOK'
  <2>1. calls' = <<>>
    BY <1>7 DEF CheckConnectionHealth
  <2> QED BY <2>1 DEF TargetOK
<1>8. ASSUME TryReconnect PROVE TargetOK'
  <2>1. /\ calls = <<>> /\ rssid' = rssid
        /\ UNCHANGED calls \/ calls' = Push("register", rssid)
    BY <1>8 DEF TryReconnect, RegisterSends
  <2>2. CASE UNCHANGED calls
    BY <2>1, <2>2 DEF TargetOK
  <2>3. CASE calls' = Push("register", rssid)
    <3>1. rssid \in Servers /\ DOMAIN calls = {}
      BY <2>1 DEF TypeOK, ClientTypeOK
    <3>2. \A i \in DOMAIN calls' : calls'[i].ssid = rssid
      BY <2>3, <3>1, SubjectsPush
    <3> QED BY <2>1, <3>2 DEF TargetOK
  <2> QED BY <2>1, <2>2, <2>3
<1>9. ASSUME NEW i \in DOMAIN calls, ServerHandles(i) PROVE TargetOK'
  <2>1. /\ calls' \in Seq(Frame) /\ Len(calls') = Len(calls)
        /\ \A j \in 1 .. Len(calls) :
              calls'[j].op = calls[j].op /\ calls'[j].ssid = calls[j].ssid
    BY <1>9, HandleFrames
  <2>2. SameSubjects
    BY <2>1, LenProperties DEF SameSubjects, TypeOK
  <2>3. UNCHANGED <<rssid, phase>>
    BY <1>9 DEF ServerHandles
  <2> QED BY <2>2, <2>3, TargetKept
<1>10. ASSUME Tick PROVE TargetOK'
  <2>1. /\ calls' \in Seq(Frame) /\ Len(calls') = Len(calls)
        /\ \A j \in 1 .. Len(calls) :
              calls'[j].op = calls[j].op /\ calls'[j].ssid = calls[j].ssid
    BY <1>10, TickFrames
  <2>2. SameSubjects
    BY <2>1, LenProperties DEF SameSubjects, TypeOK
  <2>3. UNCHANGED <<rssid, phase>>
    BY <1>10 DEF Tick
  <2> QED BY <2>2, <2>3, TargetKept
<1>11. ASSUME NEW ok \in BOOLEAN, EndDeregister(ok) PROVE TargetOK'
  <2>1. OnlyErased'
    BY <1>11, ErasedFacts
  <2> QED BY <2>1 DEF TargetOK, OnlyErased
<1> QED BY <1>3, <1>4, <1>5, <1>6, <1>7, <1>8, <1>9, <1>10, <1>11
        DEF Next, App, Return, Holder, Arrivals, Handling, Environment

(* A registration loses its connection only to the reconnection under way. *)
Connectionless == {s \in registered : conn[s] = "none"}

(* Every step preserves ConnectionlessOnlyWhileReconnecting: only          *)
(* try_reconnect() and stop() drop connections, and a reconnection ends    *)
(* with a new one (client.cpp:822-845).                                    *)
LEMMA NextConnection ==
    ASSUME TypeOK, StackOK, TargetOK, [Next]_vars,
           ConnectionlessOnlyWhileReconnecting
    PROVE  ConnectionlessOnlyWhileReconnecting'
<1> USE DEF clientVars, reconVars, loopVars, objVars, netVars
<1>0. SUFFICES ASSUME ReconnectEnabled, MaxRetries = 0
               PROVE  \A s \in Connectionless' : reconnecting' /\ rssid' = s
  BY DEF ConnectionlessOnlyWhileReconnecting, Connectionless
<1>1. \A s \in Connectionless : reconnecting /\ rssid = s
  BY <1>0 DEF ConnectionlessOnlyWhileReconnecting, Connectionless
<1>2. rssid \in Servers /\ registered \subseteq Servers
      /\ conn \in [Servers -> {"none", "up", "down"}]
  BY DEF TypeOK, ClientTypeOK
<1>3. ASSUME \/ PollBegin \/ PumpDone \/ AppStart \/ AppStop \/ Tick
             \/ NoAttempt \/ StopReports \/ DeregisterDone \/ UNCHANGED vars
             \/ \E i \in DOMAIN calls : ServerHandles(i)
             \/ \E s \in Servers : \/ DeleteServerInstance(s) \/ AppUpdate(s)
                                   \/ CheckRegistrationUpdates(s)
                                   \/ ExecuteUpdateTrigger(s)
                                   \/ ServerForgets(s)
                                   \/ \E m \in Modes : SetMode(s, m)
                                   \/ \E l \in LifetimeWrites : WriteLifetime(s, l)
      PROVE  UNCHANGED <<registered, conn, reconnecting, rssid>>
  BY <1>0, <1>3 DEF vars, PollBegin, PumpDone, AppStart, AppStop, Tick,
     NoAttempt, StopReports, DeregisterDone,
     RetriesLeft, ServerHandles, DeleteServerInstance, AppUpdate,
     CheckRegistrationUpdates, ExecuteUpdateTrigger, ServerForgets, SetMode,
     WriteLifetime
<1>4. ASSUME NEW s \in Servers, AppDeregister(s) \/ StopDeregister(s)
      PROVE  registered' \subseteq registered /\ UNCHANGED <<conn, reconnecting, rssid>>
  BY <1>4 DEF AppDeregister, StopDeregister, DeregisterUnsent,
     EraseRegistration
<1>5. ASSUME NEW ok \in BOOLEAN, EndUpdate(ok) \/ EndDeregister(ok)
      PROVE  registered' \subseteq registered /\ UNCHANGED <<conn, reconnecting, rssid>>
  BY <1>5 DEF EndUpdate, EndDeregister, EraseRegistration
<1>6. ASSUME NEW s \in Servers, AppRegister(s) \/ SessionEvent(s)
      PROVE  /\ UNCHANGED <<registered, reconnecting, rssid>>
             /\ \A r \in Servers : conn'[r] = "none" => conn[r] = "none"
  <2>1. UNCHANGED <<registered, reconnecting, rssid>>
    BY <1>6 DEF AppRegister, SessionEvent
  <2>2. \/ conn' = conn \/ conn' = [conn EXCEPT ![s] = "up"]
        \/ conn' = [conn EXCEPT ![s] = "down"]
        \/ conn' = [conn EXCEPT ![s] = IF @ = "none" THEN "up" ELSE @]
    BY <1>6 DEF AppRegister, RegisterFails, RegisterSends, SessionEvent
  <2> QED BY <1>2, <2>1, <2>2
<1>7. ASSUME StopClears
      PROVE  Connectionless' = {}
  BY <1>7 DEF StopClears, Connectionless
<1>8. ASSUME CheckConnectionHealth
      PROVE  \A s \in Connectionless' : reconnecting' /\ rssid' = s
  <2>1. CASE UNCHANGED <<registered, reconVars>>
    <3>1. conn' = conn
      BY <1>8 DEF CheckConnectionHealth
    <3> QED BY <1>1, <2>1, <3>1 DEF Connectionless
  <2>2. CASE ~UNCHANGED <<registered, reconVars>>
    <3>1. ~reconnecting /\ conn' = conn /\ registered' \subseteq registered
      BY <1>8, <2>2 DEF CheckConnectionHealth, HandleConnectionLost
    <3> QED BY <1>1, <3>1 DEF Connectionless
  <2> QED BY <2>1, <2>2
<1>9. ASSUME TryReconnect
      PROVE  \A s \in Connectionless' : reconnecting' /\ rssid' = s
  <2>1. reconnecting /\ reconnecting' /\ UNCHANGED <<registered, rssid>>
    BY <1>9 DEF TryReconnect, ReconnectTail
  <2>2. \A r \in Servers \ {rssid} : conn'[r] = conn[r]
    BY <1>2, <1>9 DEF TryReconnect, RegisterFails, RegisterSends
  <2>3. ASSUME NEW s \in Connectionless', s # rssid PROVE FALSE
    BY <1>1, <1>2, <2>1, <2>2, <2>3 DEF Connectionless
  <2> QED BY <2>1, <2>3
<1>10. ASSUME NEW ok \in BOOLEAN, EndRegister(ok)
      PROVE  \A s \in Connectionless' : reconnecting' /\ rssid' = s
  <2>1. calls # <<>> /\ Top.op = "register" /\ conn' = conn /\ rssid' = rssid
    BY <1>10 DEF EndRegister, SendReturns
  <2>2. CASE ~ok
    <3>1. UNCHANGED <<registered, reconnecting>>
      BY <1>10, <2>2 DEF EndRegister, ReconnectTail
    <3> QED BY <1>1, <2>1, <3>1 DEF Connectionless
  <2>3. CASE ok
    <3>1. conn[Top.ssid] = "up"
      BY <1>10, <2>3 DEF EndRegister, SendReturns, Answerable
    <3>2. registered' = registered \cup {Top.ssid}
      BY <1>10, <2>3, Zenon DEF EndRegister
    <3>3. Connectionless' \subseteq Connectionless
      BY <2>1, <3>1, <3>2 DEF Connectionless
    <3>4. CASE phase = "reconnect"
      <4>1. Top.ssid = rssid
        BY <2>1, <3>4, TopInDomain DEF TargetOK, Top, TypeOK
      <4>2. Connectionless = {}
        BY <1>1, <3>1, <4>1 DEF Connectionless
      <4> QED BY <3>3, <4>2
    <3>5. CASE phase # "reconnect"
      <4>1. reconnecting' = reconnecting
        BY <1>10, <3>5 DEF EndRegister
      <4> QED BY <1>1, <2>1, <3>3, <4>1
    <3> QED BY <3>4, <3>5
  <2> QED BY <2>2, <2>3
<1>11. ASSUME registered' \subseteq registered, UNCHANGED <<reconnecting, rssid>>,
              \A r \in Servers : conn'[r] = "none" => conn[r] = "none"
       PROVE  \A s \in Connectionless' : reconnecting' /\ rssid' = s
  BY <1>1, <1>2, <1>11 DEF Connectionless
<1>12. CASE App \/ Arrivals \/ Return
  BY <1>3, <1>4, <1>5, <1>6, <1>10, <1>11, <1>12 DEF App, Arrivals, Return
<1>13. CASE Holder
  BY <1>3, <1>4, <1>7, <1>8, <1>9, <1>11, <1>13 DEF Holder
<1>14. CASE PollBegin \/ Handling \/ Environment \/ Tick \/ UNCHANGED vars
  BY <1>3, <1>11, <1>14 DEF Handling, Environment
<1> QED BY <1>12, <1>13, <1>14 DEF Next

(* With unlimited retries, try_reconnect() (client.cpp:820-826) is the     *)
(* only one to leave a registration without a connection, and keeps at it. *)
THEOREM ConnectionCorrect == Spec => []ConnectionlessOnlyWhileReconnecting
<1>1. Init => TargetOK /\ ConnectionlessOnlyWhileReconnecting
  BY DEF Init, TargetOK, ConnectionlessOnlyWhileReconnecting
<1>2. /\ ClientInv /\ TargetOK /\ ConnectionlessOnlyWhileReconnecting
      /\ [Next]_vars
      => TargetOK' /\ ConnectionlessOnlyWhileReconnecting'
  BY NextTarget, NextConnection DEF ClientInv
<1> QED BY <1>1, <1>2, InitInv, NextInv, PTL DEF Spec
=============================================================================
