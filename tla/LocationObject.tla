---------------------------- MODULE LocationObject ----------------------------
(***************************************************************************)
(* objects::LocationObject (src/src/objects/location.cpp) between threads. *)
(* read_resource() runs under Client::mtx_, one at a time: it asks the     *)
(* provider of the position, stores the answer, looks at has_position_ and *)
(* reads a member of position_.  update_position() is called by threads of *)
(* the application, without that lock or any other.                        *)
(*                                                                         *)
(* A store of position_ and has_position_ is one step for each member and  *)
(* one for the flag.  Nothing orders the accesses of two threads (they     *)
(* race): the others may see these steps in any order.                     *)
(***************************************************************************)
CONSTANTS
    Reader,         \* the thread that handles requests
    Movers,         \* threads that call update_position()
    Coords,         \* members of a GpsPosition
    Fixes,          \* positions that are measured
    ValidFixes,     \* those of them that is_valid() accepts
    Initial,        \* position_ as the constructor leaves it
    None            \* no fix

ASSUME LocationAssumption ==
    /\ Reader \notin Movers /\ ValidFixes \subseteq Fixes
    /\ Initial \notin Fixes /\ None \notin Fixes \cup {Initial}
    /\ "has" \notin Coords

Threads == Movers \cup {Reader}

VARIABLES
    position,       \* position_: where each member comes from
    has,            \* has_position_
    storing,        \* the fix each thread is storing, or None
    left,           \* what each thread has still to write: members, "has"
    reader,         \* where read_resource() is
    answer,         \* the fix that the member it answers comes from, or None
    alone,          \* history: no two threads have met since the last one began
    disturbed       \* history: they have, and no store was completed alone since

locals == <<storing, left>>
vars   == <<position, has, locals, reader, answer, alone, disturbed>>

Init ==
    /\ position = [c \in Coords |-> Initial] /\ has = FALSE
    /\ storing = [t \in Threads |-> None] /\ left = [t \in Threads |-> {}]
    /\ reader = "idle" /\ answer = None
    /\ alone = TRUE /\ disturbed = FALSE

Busy(t) == IF t = Reader THEN reader # "idle" ELSE storing[t] # None

(* Thread t comes in. *)
Enters(t) ==
    /\ alone' = \A u \in Threads \ {t} : ~Busy(u)
    /\ disturbed' = (disturbed \/ ~alone')

-----------------------------------------------------------------------------
(* A store: position_ = fix, and has_position_ = fix.is_valid(). *)

Stores(t, fix) ==
    /\ storing' = [storing EXCEPT ![t] = fix]
    /\ left' = [left EXCEPT ![t] = Coords \cup {"has"}]

Writes(t, m) == m \in left[t] /\ left' = [left EXCEPT ![t] = @ \ {m}]

Copy(t, c) ==
    /\ Writes(t, c) /\ position' = [position EXCEPT ![c] = storing[t]]
    /\ UNCHANGED <<has, storing, reader, answer, alone, disturbed>>

FlagMutant(t) ==
    /\ Writes(t, "has") /\ has' = TRUE
    /\ UNCHANGED <<position, storing, reader, answer, alone, disturbed>>

Flag(t) ==
    /\ Writes(t, "has") /\ has' = (storing[t] \in ValidFixes)
    /\ UNCHANGED <<position, storing, reader, answer, alone, disturbed>>

Stored(t) ==
    /\ storing[t] # None /\ left[t] = {}
    /\ storing' = [storing EXCEPT ![t] = None]
    /\ reader' = IF t = Reader THEN "check" ELSE reader
    /\ disturbed' = (disturbed /\ ~alone)
    /\ UNCHANGED <<position, has, left, answer, alone>>

-----------------------------------------------------------------------------
(* update_position() *)
Move(t, fix) ==
    /\ storing[t] = None /\ Stores(t, fix) /\ Enters(t)
    /\ UNCHANGED <<position, has, reader, answer>>

-----------------------------------------------------------------------------
(* read_resource() *)

ReadBegin ==
    /\ reader = "idle" /\ reader' = "refresh" /\ Enters(Reader)
    /\ UNCHANGED <<position, has, locals, answer>>

(* refresh_position(): without a provider, or an answer of it, nothing is  *)
(* stored.                                                                 *)
Refresh ==
    /\ reader = "refresh"
    /\ \/ \E fix \in Fixes : Stores(Reader, fix) /\ reader' = "store"
       \/ reader' = "check" /\ UNCHANGED locals
    /\ UNCHANGED <<position, has, answer, alone, disturbed>>

CheckMutant ==
    /\ reader = "check" /\ reader' = "use"
    /\ UNCHANGED <<position, has, locals, answer, alone, disturbed>>

Check ==
    /\ reader = "check" /\ reader' = IF has THEN "use" ELSE "answered"
    /\ UNCHANGED <<position, has, locals, answer, alone, disturbed>>

Use(c) ==
    /\ reader = "use" /\ reader' = "answered" /\ answer' = position[c]
    /\ UNCHANGED <<position, has, locals, alone, disturbed>>

ReadEnd ==
    /\ reader = "answered" /\ reader' = "idle" /\ answer' = None
    /\ UNCHANGED <<position, has, locals, alone, disturbed>>

Read == ReadBegin \/ Refresh \/ Check \/ (\E c \in Coords : Use(c)) \/ ReadEnd

Next ==
    \/ \E t \in Threads : Flag(t) \/ Stored(t) \/ \E c \in Coords : Copy(t, c)
    \/ \E t \in Movers, fix \in Fixes : Move(t, fix)
    \/ Read

Spec == Init /\ [][Next]_vars

-----------------------------------------------------------------------------
(* Every member comes from a position that was given to the object, and a  *)
(* thread copies members only of a fix it stores.                          *)
TypeOK ==
    /\ position \in [Coords -> Fixes \cup {Initial}] /\ has \in BOOLEAN
    /\ storing \in [Threads -> Fixes \cup {None}]
    /\ left \in [Threads -> SUBSET (Coords \cup {"has"})]
    /\ \A t \in Threads : storing[t] = None => left[t] = {}
    /\ reader \in {"idle", "refresh", "store", "check", "use", "answered"}
    /\ answer \in Fixes \cup {Initial, None}
    /\ alone \in BOOLEAN /\ disturbed \in BOOLEAN

(* "InvalidPositionNotAccepted" (tests/test_objects.cpp:391), as an object *)
(* of a library that is "Thread-Safe" (README.md:70) would have it: no     *)
(* coordinate of a position that is_valid() rejects is answered.           *)
InvalidNotAnswered == answer \in ValidFixes \cup {None}

(* It is so as long as no update_position() meets a read or another        *)
(* update_position(); and when they have met, the next store that meets    *)
(* nobody repairs what they left (location.cpp:38-47, 95-107).             *)
InvalidNotAnsweredUndisturbed == disturbed \/ InvalidNotAnswered

(* When nobody stores, position_ is one whole fix and has_position_ is its *)
(* validity, unless a store was disturbed and none has been completed      *)
(* alone since (location.cpp:96-97, 103-104).                              *)
PositionWhole ==
    (\A t \in Threads : storing[t] = None) /\ ~disturbed =>
        \E fix \in Fixes \cup {Initial} :
            /\ \A c \in Coords : position[c] = fix
            /\ has <=> fix \in ValidFixes
=============================================================================
