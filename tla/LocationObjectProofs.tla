------------------------- MODULE LocationObjectProofs -------------------------
(***************************************************************************)
(* Proofs about LocationObject: for any number of threads that call        *)
(* update_position() and any members of a position.                        *)
(***************************************************************************)
EXTENDS LocationObject, TLAPS

(* While nobody has met, one thread at most is at work. *)
OneBusy == alone => \A t, u \in Threads : Busy(t) /\ Busy(u) => t = u

(* The handler of requests stores a fix where refresh_position() does. *)
ReaderStores == storing[Reader] # None <=> reader = "store"

(* What a thread that nobody has met has written is what it stores. *)
Progress ==
    alone => \A t \in Threads : storing[t] # None =>
        /\ \A c \in Coords \ left[t] : position[c] = storing[t]
        /\ "has" \notin left[t] => (has <=> storing[t] \in ValidFixes)

(* After the test of has_position_ it is still so. *)
Checked == ~disturbed /\ reader = "use" => has

Answering == answer # None => reader = "answered"

IInv ==
    /\ TypeOK /\ OneBusy /\ ReaderStores /\ Progress /\ Checked /\ Answering
    /\ ~disturbed => alone
    /\ PositionWhole /\ InvalidNotAnsweredUndisturbed

LEMMA InitIInv == Init => IInv
<1> SUFFICES ASSUME Init PROVE IInv
  OBVIOUS
<1>1. TypeOK
  BY LocationAssumption DEF Init, TypeOK, Threads
<1>2. OneBusy /\ ReaderStores /\ Progress /\ Checked /\ Answering
  BY DEF Init, OneBusy, ReaderStores, Progress, Checked, Answering, Busy, Threads
<1>3. PositionWhole
  <2>1. \A c \in Coords : position[c] = Initial
    BY DEF Init
  <2>2. has = FALSE /\ Initial \notin ValidFixes
    BY LocationAssumption DEF Init
  <2> QED BY <2>1, <2>2 DEF PositionWhole
<1>4. InvalidNotAnsweredUndisturbed /\ (~disturbed => alone)
  BY DEF Init, InvalidNotAnsweredUndisturbed, InvalidNotAnswered
<1> QED BY <1>1, <1>2, <1>3, <1>4 DEF IInv

(* A thread that has still something to write is at work, and a handler    *)
(* that is at work with it is itself.                                      *)
LEMMA Writing ==
    ASSUME IInv, NEW t \in Threads, storing[t] # None
    PROVE  Busy(t) /\ (~disturbed => \A u \in Threads \ {t} : ~Busy(u) /\ storing[u] = None)
<1>1. \A u \in Threads : storing[u] # None => Busy(u)
  BY DEF IInv, ReaderStores, Busy
<1> QED BY <1>1 DEF IInv, OneBusy

(* A step of a store. *)
LEMMA WriteStep ==
    ASSUME IInv, NEW t \in Threads, Flag(t) \/ \E c \in Coords : Copy(t, c)
    PROVE  IInv'
<1>1. PICK m \in Coords \cup {"has"} :
        /\ Writes(t, m) /\ UNCHANGED <<storing, reader, answer, alone, disturbed>>
        /\ \/ m = "has" /\ has' = (storing[t] \in ValidFixes) /\ position' = position
           \/ m \in Coords /\ position' = [position EXCEPT ![m] = storing[t]] /\ has' = has
  BY DEF Flag, Copy
<1>2. storing[t] # None /\ storing[t] \in Fixes
  BY <1>1 DEF IInv, TypeOK, Writes
<1>3. "has" \notin Coords
  BY LocationAssumption
<1>4. TypeOK'
  <2>1. left' \in [Threads -> SUBSET (Coords \cup {"has"})]
    <3>1. left' = [left EXCEPT ![t] = left[t] \ {m}]
      BY <1>1 DEF Writes
    <3>2. left \in [Threads -> SUBSET (Coords \cup {"has"})]
      BY DEF IInv, TypeOK
    <3>3. left[t] \ {m} \in SUBSET (Coords \cup {"has"})
      BY <3>2
    <3> QED BY <3>1, <3>2, <3>3
  <2>2. \A u \in Threads : storing[u] = None => left'[u] = {}
    <3> SUFFICES ASSUME NEW u \in Threads, storing[u] = None PROVE left'[u] = {}
      OBVIOUS
    <3>1. u # t /\ left[u] = {}
      BY <1>2 DEF IInv, TypeOK
    <3>2. left' = [left EXCEPT ![t] = left[t] \ {m}]
      BY <1>1 DEF Writes
    <3> QED BY <3>1, <3>2 DEF IInv, TypeOK
  <2>3. position' \in [Coords -> Fixes \cup {Initial}]
    <3>1. position \in [Coords -> Fixes \cup {Initial}]
      BY DEF IInv, TypeOK
    <3>2. position' = position \/ \E c \in Coords : position' = [position EXCEPT ![c] = storing[t]]
      BY <1>1
    <3> QED BY <1>2, <3>1, <3>2
  <2>4. has' \in BOOLEAN
    <3>1. has \in BOOLEAN
      BY DEF IInv, TypeOK
    <3>2. has' = has \/ has' = (storing[t] \in ValidFixes)
      BY <1>1
    <3>3. (storing[t] \in ValidFixes) = TRUE \/ (storing[t] \in ValidFixes) = FALSE
      OBVIOUS
    <3>4. CASE has' = has
      BY <3>1, <3>4
    <3>5. CASE has' = (storing[t] \in ValidFixes)
      BY <3>3, <3>5
    <3> QED BY <3>2, <3>4, <3>5
  <2> QED BY <1>1, <2>1, <2>2, <2>3, <2>4 DEF IInv, TypeOK
<1>5. \A u \in Threads : Busy(u)' <=> Busy(u)
  BY <1>1 DEF Busy
<1>6. OneBusy' /\ ReaderStores' /\ Answering' /\ (~disturbed => alone)'
  BY <1>1, <1>5 DEF IInv, OneBusy, ReaderStores, Answering
<1>7. Progress'
  <2> SUFFICES ASSUME alone, NEW u \in Threads, storing[u] # None
               PROVE  /\ \A c \in Coords \ left'[u] : position'[c] = storing[u]
                      /\ "has" \notin left'[u] => (has' <=> storing[u] \in ValidFixes)
    BY <1>1 DEF Progress
  <2>1. u = t
    BY <1>2 DEF IInv, OneBusy, ReaderStores, Busy
  <2>2. left'[t] = left[t] \ {m}
    BY <1>1 DEF IInv, TypeOK, Writes
  <2>3. /\ \A c \in Coords \ left[t] : position[c] = storing[t]
        /\ "has" \notin left[t] => (has <=> storing[t] \in ValidFixes)
    BY <1>2 DEF IInv, Progress
  <2>4. CASE m = "has" /\ has' = (storing[t] \in ValidFixes) /\ position' = position
    BY <1>3, <2>1, <2>2, <2>3, <2>4
  <2>5. CASE m \in Coords /\ position' = [position EXCEPT ![m] = storing[t]] /\ has' = has
    <3>1. \A c \in Coords : position'[c] = IF c = m THEN storing[t] ELSE position[c]
      BY <2>5 DEF IInv, TypeOK
    <3>2. m # "has"
      BY <1>3, <2>5
    <3> QED BY <2>1, <2>2, <2>3, <2>5, <3>1, <3>2
  <2> QED BY <1>1, <2>4, <2>5
<1>8. Checked'
  <2>1. reader = "use" => Busy(Reader) /\ storing[Reader] = None /\ Reader \in Threads
    BY DEF IInv, ReaderStores, Busy, Threads
  <2>2. ~(~disturbed /\ reader = "use")
    BY <1>2, <2>1, Writing
  <2> QED BY <1>1, <2>2 DEF Checked
<1>9. PositionWhole'
  BY <1>1, <1>2 DEF PositionWhole
<1>10. InvalidNotAnsweredUndisturbed'
  BY <1>1 DEF IInv, InvalidNotAnsweredUndisturbed, InvalidNotAnswered
<1> QED BY <1>4, <1>6, <1>7, <1>8, <1>9, <1>10 DEF IInv

(* The end of a store: if nobody met it, the position is whole again.      *)
LEMMA StoredStep ==
    ASSUME IInv, NEW t \in Threads, Stored(t)
    PROVE  IInv'
<1>1. /\ storing[t] # None /\ left[t] = {} /\ storing' = [storing EXCEPT ![t] = None]
      /\ reader' = IF t = Reader THEN "check" ELSE reader
      /\ disturbed' = (disturbed /\ ~alone)
      /\ UNCHANGED <<position, has, left, answer, alone>>
  BY DEF Stored
<1>2. \A u \in Threads : storing'[u] = IF u = t THEN None ELSE storing[u]
  BY <1>1 DEF IInv, TypeOK
<1>3. storing[t] \in Fixes /\ Reader \in Threads
  BY <1>1 DEF IInv, TypeOK, Threads
<1>4. TypeOK'
  BY <1>1, <1>2 DEF IInv, TypeOK
<1>5. t = Reader => reader = "store"
  BY <1>1 DEF IInv, ReaderStores
<1>6. \A u \in Threads : Busy(u)' => Busy(u)
  BY <1>1, <1>2, <1>5 DEF Busy
<1>7. OneBusy'
  BY <1>1, <1>6 DEF IInv, OneBusy
<1>8. ReaderStores' /\ (~disturbed => alone)'
  BY <1>1, <1>2, <1>3 DEF IInv, ReaderStores
<1>9. Progress'
  BY <1>1, <1>2 DEF IInv, Progress
<1>10. Answering'
  BY <1>1, <1>5 DEF IInv, Answering
<1>11. alone => \A u \in Threads \ {t} : ~Busy(u)
  BY <1>1 DEF IInv, OneBusy, ReaderStores, Busy
<1>12. ~disturbed' => alone
  BY <1>1 DEF IInv
<1>13. ~disturbed' => (t = Reader \/ reader = "idle")
  BY <1>3, <1>11, <1>12 DEF Busy
<1>14. Checked'
  BY <1>1, <1>13 DEF Checked
<1>15. InvalidNotAnsweredUndisturbed'
  <2>1. ~disturbed' => answer = None
    BY <1>5, <1>13 DEF IInv, Answering
  <2> QED BY <1>1, <2>1 DEF InvalidNotAnsweredUndisturbed, InvalidNotAnswered
<1>16. PositionWhole'
  <2> SUFFICES ASSUME ~disturbed'
               PROVE  \E fix \in Fixes \cup {Initial} :
                        (\A c \in Coords : position[c] = fix) /\ (has <=> fix \in ValidFixes)
    BY <1>1 DEF PositionWhole
  <2> QED BY <1>1, <1>3, <1>12 DEF IInv, Progress
<1> QED BY <1>4, <1>7, <1>8, <1>9, <1>10, <1>14, <1>15, <1>16 DEF IInv

(* A thread comes in: whom it meets is recorded.                           *)
LEMMA MoveStep ==
    ASSUME IInv, NEW t \in Movers, NEW fix \in Fixes, Move(t, fix)
    PROVE  IInv'
<1>1. /\ storing[t] = None /\ storing' = [storing EXCEPT ![t] = fix]
      /\ left' = [left EXCEPT ![t] = Coords \cup {"has"}]
      /\ alone' = (\A u \in Threads \ {t} : ~Busy(u))
      /\ disturbed' = (disturbed \/ ~alone')
      /\ UNCHANGED <<position, has, reader, answer>>
  BY DEF Move, Stores, Enters
<1>2. t \in Threads /\ t # Reader /\ Reader \in Threads /\ fix # None
  BY LocationAssumption DEF Threads
<1>3. \A u \in Threads : /\ storing'[u] = IF u = t THEN fix ELSE storing[u]
                         /\ left'[u] = IF u = t THEN Coords \cup {"has"} ELSE left[u]
  BY <1>1 DEF IInv, TypeOK
<1>4. TypeOK'
  <2>1. storing' \in [Threads -> Fixes \cup {None}]
    BY <1>1 DEF IInv, TypeOK
  <2>2. left' \in [Threads -> SUBSET (Coords \cup {"has"})]
    BY <1>1 DEF IInv, TypeOK
  <2>3. \A u \in Threads : storing'[u] = None => left'[u] = {}
    BY <1>2, <1>3 DEF IInv, TypeOK
  <2>4. alone' \in BOOLEAN /\ disturbed' \in BOOLEAN
    BY <1>1 DEF IInv, TypeOK
  <2> QED BY <1>1, <2>1, <2>2, <2>3, <2>4 DEF IInv, TypeOK
<1>5. \A u \in Threads \ {t} : Busy(u)' <=> Busy(u)
  BY <1>1, <1>3 DEF Busy
<1>6. OneBusy'
  BY <1>1, <1>5 DEF OneBusy
<1>7. ReaderStores' /\ Answering'
  BY <1>1, <1>2, <1>3 DEF IInv, ReaderStores, Answering
<1>8. Progress'
  <2> SUFFICES ASSUME alone', NEW u \in Threads, storing'[u] # None
               PROVE  /\ \A c \in Coords \ left'[u] : position'[c] = storing'[u]
                      /\ "has" \notin left'[u] => (has' <=> storing'[u] \in ValidFixes)
    BY DEF Progress
  <2>1. u # t => storing[u] = None
    BY <1>1 DEF IInv, ReaderStores, Busy
  <2> QED BY <1>3, <2>1
<1>9. ~disturbed' => ~disturbed /\ reader = "idle"
  BY <1>1, <1>2 DEF Busy
<1>10. Checked' /\ (~disturbed => alone)'
  BY <1>1, <1>9 DEF Checked
<1>11. PositionWhole'
  BY <1>2, <1>3 DEF PositionWhole
<1>12. InvalidNotAnsweredUndisturbed'
  BY <1>1, <1>9 DEF IInv, InvalidNotAnsweredUndisturbed, InvalidNotAnswered
<1> QED BY <1>4, <1>6, <1>7, <1>8, <1>10, <1>11, <1>12 DEF IInv

LEMMA ReadStep ==
    ASSUME IInv, Read
    PROVE  IInv'
<1>0. Reader \in Threads
  BY DEF Threads
<1>1. CASE ReadBegin
  <2>1. /\ reader = "idle" /\ reader' = "refresh"
        /\ alone' = (\A u \in Threads \ {Reader} : ~Busy(u))
        /\ disturbed' = (disturbed \/ ~alone')
        /\ UNCHANGED <<position, has, storing, left, answer>>
    BY <1>1 DEF ReadBegin, Enters, locals
  <2>2. TypeOK'
    BY <2>1 DEF IInv, TypeOK
  <2>3. \A u \in Threads \ {Reader} : Busy(u)' <=> Busy(u)
    BY <2>1 DEF Busy
  <2>4. OneBusy'
    BY <2>1, <2>3 DEF OneBusy
  <2>5. Progress'
    BY <2>1 DEF IInv, Progress, ReaderStores, Busy
  <2>6. ReaderStores' /\ Checked' /\ Answering' /\ (~disturbed => alone)'
    BY <2>1 DEF IInv, ReaderStores, Checked, Answering
  <2>7. PositionWhole'
    BY <2>1 DEF IInv, PositionWhole
  <2>8. InvalidNotAnsweredUndisturbed'
    BY <2>1 DEF IInv, InvalidNotAnsweredUndisturbed, InvalidNotAnswered
  <2> QED BY <2>2, <2>4, <2>5, <2>6, <2>7, <2>8 DEF IInv
<1>2. ASSUME reader # "idle", reader' \in {"check", "use", "answered"}, reader # "store",
             UNCHANGED <<position, has, locals, alone, disturbed>>,
             answer' = answer \/ answer' \in Fixes \cup {Initial},
             ~disturbed /\ reader' = "use" => has,
             answer' # None => reader' = "answered",
             ~disturbed => answer' \in ValidFixes \cup {None}
      PROVE  IInv'
  <2>1. UNCHANGED <<position, has, storing, left, alone, disturbed>>
    BY <1>2 DEF locals
  <2>2. TypeOK'
    BY <1>2, <2>1 DEF IInv, TypeOK
  <2>3. \A u \in Threads : Busy(u)' => Busy(u)
    BY <1>2, <2>1 DEF Busy
  <2>4. OneBusy'
    BY <2>1, <2>3 DEF IInv, OneBusy
  <2>5. ReaderStores'
    BY <1>2, <2>1 DEF IInv, ReaderStores
  <2>6. Progress'
    BY <2>1 DEF IInv, Progress
  <2>7. Checked' /\ Answering' /\ (~disturbed => alone)'
    BY <1>2, <2>1 DEF IInv, Checked, Answering
  <2>8. PositionWhole'
    BY <2>1 DEF IInv, PositionWhole
  <2>9. InvalidNotAnsweredUndisturbed'
    BY <1>2, <2>1 DEF InvalidNotAnsweredUndisturbed, InvalidNotAnswered
  <2> QED BY <2>2, <2>4, <2>5, <2>6, <2>7, <2>8, <2>9 DEF IInv
<1>3. CASE Refresh
  <2>1. ASSUME NEW fix \in Fixes, Stores(Reader, fix), reader = "refresh", reader' = "store",
               UNCHANGED <<position, has, answer, alone, disturbed>>
        PROVE  IInv'
    <3>1. fix # None
      BY LocationAssumption
    <3>2. \A u \in Threads :
            /\ storing'[u] = IF u = Reader THEN fix ELSE storing[u]
            /\ left'[u] = IF u = Reader THEN Coords \cup {"has"} ELSE left[u]
      BY <2>1 DEF IInv, TypeOK, Stores
    <3>3. TypeOK'
      <4>1. storing' \in [Threads -> Fixes \cup {None}]
        BY <2>1 DEF IInv, TypeOK, Stores
      <4>2. left' \in [Threads -> SUBSET (Coords \cup {"has"})]
        BY <2>1 DEF IInv, TypeOK, Stores
      <4>3. \A u \in Threads : storing'[u] = None => left'[u] = {}
        BY <3>1, <3>2 DEF IInv, TypeOK
      <4> QED BY <2>1, <4>1, <4>2, <4>3 DEF IInv, TypeOK
    <3>4. \A u \in Threads : Busy(u)' <=> Busy(u)
      BY <2>1, <3>2 DEF Busy
    <3>5. OneBusy'
      BY <2>1, <3>4 DEF IInv, OneBusy
    <3>6. ReaderStores' /\ Checked' /\ Answering' /\ (~disturbed => alone)'
      BY <1>0, <2>1, <3>1, <3>2 DEF IInv, ReaderStores, Checked, Answering
    <3>7. Progress'
      BY <2>1, <3>2 DEF IInv, Progress
    <3>8. PositionWhole'
      BY <1>0, <3>1, <3>2 DEF PositionWhole
    <3>9. InvalidNotAnsweredUndisturbed'
      BY <2>1 DEF IInv, InvalidNotAnsweredUndisturbed, InvalidNotAnswered
    <3> QED BY <3>3, <3>5, <3>6, <3>7, <3>8, <3>9 DEF IInv
  <2>2. CASE reader' = "check" /\ UNCHANGED locals
    <3>1. reader = "refresh" /\ UNCHANGED <<position, has, answer, alone, disturbed>>
      BY <1>3 DEF Refresh
    <3>2. answer = None
      BY <3>1 DEF IInv, Answering
    <3> QED BY <1>2, <2>2, <3>1, <3>2
  <2> QED BY <1>3, <2>1, <2>2 DEF Refresh
<1>4. CASE Check
  <2>1. /\ reader = "check" /\ reader' = IF has THEN "use" ELSE "answered"
        /\ UNCHANGED <<position, has, locals, answer, alone, disturbed>>
    BY <1>4 DEF Check
  <2>2. answer = None
    BY <2>1 DEF IInv, Answering
  <2> QED BY <1>2, <2>1, <2>2
<1>5. ASSUME NEW c \in Coords, Use(c) PROVE IInv'
  <2>1. /\ reader = "use" /\ reader' = "answered" /\ answer' = position[c]
        /\ UNCHANGED <<position, has, locals, alone, disturbed>>
    BY <1>5 DEF Use
  <2>2. position[c] \in Fixes \cup {Initial}
    BY DEF IInv, TypeOK
  <2>3. ASSUME ~disturbed PROVE position[c] \in ValidFixes
    <3>1. has /\ storing[Reader] = None /\ Busy(Reader)
      BY <2>1, <2>3 DEF IInv, Checked, ReaderStores, Busy
    <3>2. \A t \in Threads : storing[t] = None
      <4> SUFFICES ASSUME NEW t \in Threads, storing[t] # None PROVE FALSE
        OBVIOUS
      <4> QED BY <1>0, <2>3, <3>1, Writing
    <3> QED BY <2>3, <3>1, <3>2 DEF IInv, PositionWhole
  <2> QED BY <1>2, <2>1, <2>2, <2>3
<1>6. CASE ReadEnd
  <2>1. /\ reader = "answered" /\ reader' = "idle" /\ answer' = None
        /\ UNCHANGED <<position, has, storing, left, alone, disturbed>>
    BY <1>6 DEF ReadEnd, locals
  <2>2. TypeOK'
    BY <2>1 DEF IInv, TypeOK
  <2>3. \A u \in Threads : Busy(u)' => Busy(u)
    BY <2>1 DEF IInv, ReaderStores, Busy
  <2>4. OneBusy'
    BY <2>1, <2>3 DEF IInv, OneBusy
  <2>5. ReaderStores' /\ Progress' /\ Checked' /\ Answering' /\ (~disturbed => alone)'
    BY <2>1 DEF IInv, ReaderStores, Progress, Checked, Answering
  <2>6. PositionWhole' /\ InvalidNotAnsweredUndisturbed'
    BY <2>1 DEF IInv, PositionWhole, InvalidNotAnsweredUndisturbed, InvalidNotAnswered
  <2> QED BY <2>2, <2>4, <2>5, <2>6 DEF IInv
<1> QED BY <1>1, <1>3, <1>4, <1>5, <1>6 DEF Read

THEOREM Invariant == Spec => []IInv
<1>1. ASSUME IInv, [Next]_vars PROVE IInv'
  <2>1. ASSUME NEW t \in Threads, Flag(t) \/ \E c \in Coords : Copy(t, c) PROVE IInv'
    BY <1>1, <2>1, WriteStep
  <2>2. ASSUME NEW t \in Threads, Stored(t) PROVE IInv'
    BY <1>1, <2>2, StoredStep
  <2>3. ASSUME NEW t \in Movers, NEW fix \in Fixes, Move(t, fix) PROVE IInv'
    BY <1>1, <2>3, MoveStep
  <2>4. CASE Read
    BY <1>1, <2>4, ReadStep
  <2>5. CASE UNCHANGED vars
    BY <1>1, <2>5
    DEF vars, locals, IInv, TypeOK, OneBusy, Busy, ReaderStores, Progress, Checked, Answering,
        PositionWhole, InvalidNotAnsweredUndisturbed, InvalidNotAnswered
  <2> QED BY <1>1, <2>1, <2>2, <2>3, <2>4, <2>5 DEF Next
<1> QED BY <1>1, InitIInv, PTL DEF Spec

(* However many threads call update_position(), no coordinate of a         *)
(* position that is_valid() rejects is answered before two of them, or one *)
(* and a read, have met, nor after the next store that meets nobody        *)
(* (location.cpp:38-47, 95-107).                                           *)
THEOREM UndisturbedCorrect == Spec => []InvalidNotAnsweredUndisturbed
<1>1. IInv => InvalidNotAnsweredUndisturbed
  BY DEF IInv
<1> QED BY <1>1, Invariant, PTL

(* Between stores, position_ is one whole fix and has_position_ says if it *)
(* is valid, unless a store was disturbed and none has been completed      *)
(* alone since (location.cpp:96-97, 103-104).                              *)
THEOREM WholeCorrect == Spec => []PositionWhole
<1>1. IInv => PositionWhole
  BY DEF IInv
<1> QED BY <1>1, Invariant, PTL
===============================================================================
