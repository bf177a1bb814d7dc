----------------------------- MODULE LwM2MObjects -----------------------------
(***************************************************************************)
(* The objects a server manages, as functions of their state: Security (0) *)
(* and Server (1), which have instances, and Device (3), Connectivity (4)  *)
(* and Location (6), which have one (src/objects/*.cpp).  The Firmware     *)
(* Update object is a module of its own.                                   *)
(*                                                                         *)
(* Security and Server: inst maps instance ids to the fields of the        *)
(* instance, next is next_instance_id_.  Device and Connectivity: a map    *)
(* from resources to a value, or to the list of the values of a multiple   *)
(* resource.  Location: the last fix, and has_position_.                   *)
(*                                                                         *)
(* An operation that may change its object returns the pair of a Result    *)
(* and the object's new state.                                             *)
(***************************************************************************)
EXTENDS TlvCodec

CONSTANT
    Mod32       \* uint32_t counts modulo this: 2^32 in the code

(* The default lifetime of a Server instance fits, and every uint32_t is   *)
(* within 64 bits.                                                         *)
ASSUME Mod32Assumption == Mod32 \in Nat /\ Mod32 > 86400 /\ Mod32 \div 65536 <= 65536

Security     == 0
Server       == 1
Device       == 3
Connectivity == 4
Location     == 6

Tables  == {Security, Server}
Objects == {Security, Server, Device, Connectivity, Location}

NoId == -1          \* std::nullopt for an instance or a resource instance
Done(res, st) == [res |-> res, st |-> st]

(* The C++ types of the fields of an instance. *)
ServerFields ==
    [rid \in {0, 1, 2, 3, 5, 6, 7} |->
       CASE rid = 0 -> "u16" [] rid = 6 -> "bool" [] rid = 7 -> "string" [] OTHER -> "u32"]

SecurityFields ==
    [rid \in {0, 1, 2, 3, 4, 5, 10, 11, 12} |->
       CASE rid = 0 -> "string" [] rid = 1 -> "bool" [] rid = 2 -> "u8"
         [] rid \in {3, 4, 5} -> "bytes" [] rid = 10 -> "u16" [] OTHER -> "u32"]

Fields(o) == IF o = Server THEN ServerFields ELSE SecurityFields

(* The alternative of ResourceValue a field is read as and written from. *)
FieldType(field) ==
    CASE field = "string" -> "String" [] field = "bytes" -> "Opaque"
      [] field = "bool" -> "Boolean"  [] OTHER -> "Integer"

NarrowMutant(field, v) == v
NarrowShortMutant(field, v) == IF field \in {"u16", "u32"} THEN v % 65536 ELSE v

(* static_cast to the field's type. *)
Narrow(field, v) ==
    CASE field = "u8" -> v % 256 [] field = "u16" -> v % 65536
      [] field = "u32" -> v % Mod32 [] OTHER -> v

(* The values of the field's type. *)
InWidth(field, v) ==
    CASE field = "u8" -> v \in Byte [] field = "u16" -> v \in U16
      [] field = "u32" -> v \in 0 .. Mod32 - 1 [] field = "bool" -> v \in BOOLEAN
      [] OTHER -> v \in Seq(Byte)

(* ServerInstance{} and SecurityInstance{}. *)
BlankServer ==
    [rid \in DOMAIN ServerFields |->
       CASE rid \in {1, 5} -> 86400 [] rid = 6 -> FALSE [] rid = 7 -> <<85>> [] OTHER -> 0]

BlankSecurity ==
    [rid \in DOMAIN SecurityFields |->
       CASE rid = 1 -> FALSE [] rid = 2 -> 3 [] rid \in {0, 3, 4, 5} -> <<>> [] OTHER -> 0]

Blank(o) == IF o = Server THEN BlankServer ELSE BlankSecurity

NoTable == [inst |-> [iid \in {} |-> {}], next |-> 0]

-----------------------------------------------------------------------------
(* Security and Server: instances. *)

TakenMutant(t, iid) == FALSE
Taken(t, iid) == iid \in DOMAIN t.inst

Store(t, iid, fields) ==
    [t EXCEPT !.inst = [i \in DOMAIN t.inst \cup {iid} |->
                          IF i = iid THEN fields ELSE t.inst[i]]]

NextIdMutant(t, iid) == IF iid > t.next THEN (iid + 1) % 65536 ELSE t.next

(* next_instance_id_ after iid was created; static_cast<uint16_t> wraps it. *)
NextId(t, iid) == IF iid >= t.next THEN (iid + 1) % 65536 ELSE t.next

create_instance(o, t, suggested) ==
    LET iid == IF suggested = NoId THEN t.next ELSE suggested
    IN  IF Taken(t, iid) THEN Done(Err("BadRequest"), t)
        ELSE Done(Ok(iid), [Store(t, iid, Blank(o)) EXCEPT !.next = NextId(t, iid)])

delete_instance(t, iid) ==
    IF ~Taken(t, iid) THEN Done(Err("NotFound"), t)
    ELSE Done(Ok(<<>>), [t EXCEPT !.inst = [i \in DOMAIN t.inst \ {iid} |-> t.inst[i]]])

add_server(o, t, config) ==
    LET created == create_instance(o, t, NoId)
    IN  IF created.res.ok
        THEN Done(created.res, Store(created.st, created.res.value, config))
        ELSE created

-----------------------------------------------------------------------------
(* Reading. *)

(* A field of an instance; both tables are read this way. *)
ReadField(o, t, iid, rid) ==
    IF ~Taken(t, iid) \/ rid \notin DOMAIN Fields(o) THEN Err("NotFound")
    ELSE Ok(Value(FieldType(Fields(o)[rid]), t.inst[iid][rid]))

ReadServer(t, iid, rid) == ReadField(Server, t, iid, rid)
ReadSecurity(t, iid, rid) == ReadField(Security, t, iid, rid)

(* A multiple resource: the instance asked for, or the first. *)
ReadMulti(list, riid, ifNone) ==
    IF riid # NoId
    THEN IF riid < Len(list) THEN Ok(list[riid + 1]) ELSE Err("NotFound")
    ELSE IF list # <<>> THEN Ok(list[1]) ELSE ifNone

Multiple(o) ==
    IF o = Device THEN {6, 7, 8, 11} ELSE IF o = Connectivity THEN {1, 4, 5, 7} ELSE {}

(* What Device and Connectivity may hold for a resource: the list of the   *)
(* values of a multiple one, or one value.                                 *)
Holdable(o, rid, held) ==
    IF rid \in Multiple(o)
    THEN /\ held \in Seq({held[i] : i \in DOMAIN held})
         /\ \A i \in DOMAIN held : OfType(held[i])
    ELSE OfType(held)

NoError == Value("Integer", 0)

ReadDevice(st, iid, rid, riid) ==
    IF iid # 0 \/ rid \notin DOMAIN st THEN Err("NotFound")
    ELSE IF rid \in Multiple(Device)
    THEN ReadMulti(st[rid], riid, IF rid = 11 THEN Ok(NoError) ELSE Err("NotFound"))
    ELSE Ok(st[rid])

ReadConnectivity(st, iid, rid, riid) ==
    IF iid # 0 \/ rid \notin DOMAIN st THEN Err("NotFound")
    ELSE IF rid \in Multiple(Connectivity) THEN ReadMulti(st[rid], riid, Err("NotFound"))
    ELSE Ok(st[rid])

(* A fix has a number, which stands for what was measured; NoFix is a      *)
(* provider without an answer, or no provider.                             *)
NoFix == [n |-> 0, valid |-> FALSE]

TakeFixMutant(st, fix) == IF fix = NoFix THEN st ELSE [fix |-> fix, has |-> TRUE]

(* refresh_position with what the provider returned. *)
TakeFix(st, fix) == IF fix = NoFix THEN st ELSE [fix |-> fix, has |-> fix.valid]

Coordinate(fix, rid) ==
    IF rid = 5 THEN Value("Time", fix.n * TicksPerSecond)
    ELSE Value("Float", <<64, fix.n, rid, 0, 0, 0, 0, 0>>)

ReadLocation(st, iid, rid, fix) ==
    LET now == TakeFix(st, fix)
    IN  IF iid # 0 THEN Done(Err("NotFound"), st)
        ELSE IF ~now.has \/ rid \notin {0, 1, 2, 3, 5, 6} THEN Done(Err("NotFound"), now)
        ELSE Done(Ok(Coordinate(now.fix, rid)), now)

(* fix is what the provider of the position answers if it is asked. *)
read_resource(o, st, iid, rid, riid, fix) ==
    CASE o = Server   -> Done(ReadServer(st, iid, rid), st)
      [] o = Security -> Done(ReadSecurity(st, iid, rid), st)
      [] o = Device   -> Done(ReadDevice(st, iid, rid, riid), st)
      [] o = Connectivity -> Done(ReadConnectivity(st, iid, rid, riid), st)
      [] o = Location -> ReadLocation(st, iid, rid, fix)

list_instances(o, st) == IF o \in Tables THEN DOMAIN st.inst ELSE {0}

(* list_resources of each object, in the order of the code; 4 and 8 of     *)
(* Server, and 4, 5 and 12 of Device, can only be executed.                *)
SecurityResources     == <<0, 1, 2, 3, 4, 5, 10, 11, 12>>
ServerResources       == [i \in 1 .. 9 |-> i - 1]
DeviceResources       == [i \in 1 .. 22 |-> i - 1]
ConnectivityResources == [i \in 1 .. 11 |-> i - 1]
LocationResources     == <<0, 1, 2, 3, 5, 6>>

list_resources(o) ==
    CASE o = Security     -> SecurityResources
      [] o = Server       -> ServerResources
      [] o = Device       -> DeviceResources
      [] o = Connectivity -> ConnectivityResources
      [] o = Location     -> LocationResources

-----------------------------------------------------------------------------
(* Writing and executing. *)

(* get_resource_type of each object, with the default of the caller.       *)
(* Device and Location have none.                                          *)
ServerType(rid) ==
    IF rid = 6 THEN "Boolean" ELSE IF rid \in {0, 1, 2, 3, 5} THEN "Integer" ELSE "String"

SecurityType(rid) ==
    CASE rid = 1 -> "Boolean" [] rid \in {2, 6, 10, 11, 12} -> "Integer"
      [] rid \in {3, 4, 5, 7, 8} -> "Opaque" [] OTHER -> "String"

ConnectivityType(rid) == IF rid \in {0, 1, 2, 3, 6, 8, 9, 10} THEN "Integer" ELSE "String"

object_type(o, rid) ==
    CASE o = Server -> ServerType(rid) [] o = Security -> SecurityType(rid)
      [] o = Connectivity -> ConnectivityType(rid) [] OTHER -> "String"

WriteField(o, t, iid, rid, value) ==
    IF ~Taken(t, iid) \/ rid \notin DOMAIN Fields(o) THEN Done(Err("NotFound"), t)
    ELSE LET field == Fields(o)[rid]
         IN  IF get_resource_type(value) # FieldType(field)
             THEN Done(Err("BadRequest"), t)
             ELSE Done(Ok(<<>>),
                       [t EXCEPT !.inst[iid][rid] = Narrow(field, Datum(value))])

WriteServer(t, iid, rid, value) == WriteField(Server, t, iid, rid, value)
WriteSecurity(t, iid, rid, value) == WriteField(Security, t, iid, rid, value)

(* Only the offset and the timezone of Device can be written. *)
WriteDevice(st, iid, rid, value) ==
    IF iid # 0 THEN Done(Err("NotFound"), st)
    ELSE IF rid \notin {14, 15} THEN Done(Err("MethodNotAllowed"), st)
    ELSE IF get_resource_type(value) # "String" THEN Done(Err("BadRequest"), st)
    ELSE Done(Ok(<<>>), [st EXCEPT ![rid] = value])

(* Connectivity and Location can neither be written nor executed. *)
Refused(st, iid) == Done(Err(IF iid # 0 THEN "NotFound" ELSE "MethodNotAllowed"), st)
LocationRefused(st, iid) == Refused(st, iid)

write_resource(o, st, iid, rid, value) ==
    CASE o = Server   -> WriteServer(st, iid, rid, value)
      [] o = Security -> WriteSecurity(st, iid, rid, value)
      [] o = Device   -> WriteDevice(st, iid, rid, value)
      [] o = Location -> LocationRefused(st, iid)
      [] OTHER        -> Refused(st, iid)

clear_error_codes(st) == [st EXCEPT ![11] = <<NoError>>]

add_error_codeMutant(st, code) == [st EXCEPT ![11] = Append(@, code)]

add_error_code(st, code) ==
    [st EXCEPT ![11] =
       IF code # NoError /\ @ # <<>> /\ @[1] = NoError THEN <<code>> ELSE Append(@, code)]

(* Server 8 calls update_registration (see ClientRegistration). *)
ExecuteServer(t, iid, rid) ==
    Done(IF ~Taken(t, iid) THEN Err("NotFound")
         ELSE IF rid \in {4, 8, 9} THEN Ok(<<>>) ELSE Err("MethodNotAllowed"), t)

(* Device 4 and 5 call the application. *)
ExecuteDevice(st, iid, rid) ==
    IF iid # 0 THEN Done(Err("NotFound"), st)
    ELSE IF rid \notin {4, 5, 12} THEN Done(Err("MethodNotAllowed"), st)
    ELSE Done(Ok(<<>>), IF rid = 12 THEN clear_error_codes(st) ELSE st)

execute_resource(o, st, iid, rid) ==
    CASE o = Server   -> ExecuteServer(st, iid, rid)
      [] o = Security -> Done(Err("MethodNotAllowed"), st)
      [] o = Device   -> ExecuteDevice(st, iid, rid)
      [] o = Location -> LocationRefused(st, iid)
      [] OTHER        -> Refused(st, iid)

(* The setters of Connectivity: quality and utilization are percentages. *)
set_connectivity(st, rid, v) ==
    [st EXCEPT ![rid] = IF rid \in {3, 6} /\ Datum(v) > 100 THEN Value("Integer", 100) ELSE v]
===============================================================================
