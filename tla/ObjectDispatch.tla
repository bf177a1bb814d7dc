---------------------------- MODULE ObjectDispatch ----------------------------
(***************************************************************************)
(* Requests of a server: incoming_request_handler of the transport and     *)
(* Client::handle_incoming_request with process_read, process_write,       *)
(* process_execute and process_delete (src/client.cpp), over the objects   *)
(* and the TLV codec, and the application's own calls on the objects.      *)
(*                                                                         *)
(* A request is handled under Client::mtx_, so it is one step; Reply hands *)
(* the answer to libcoap.  The position comes from the provider, which is  *)
(* asked, within the request, for each resource of Location that is read;  *)
(* update_position(), which races with requests, is in LocationObject.     *)
(***************************************************************************)
EXTENDS LwM2MObjects, FiniteSets

CONSTANTS
    Paths,          \* Uri-Path options of requests
    Bodies,         \* payloads of requests, see Bytes
    Methods,        \* methods of requests
    GpsAnswers,     \* what the provider of the position may answer
    Suggested,      \* instance ids the application may ask for
    Configs,        \* instances it may add: pairs of an object and its fields
    Settings,       \* values it may set: <<object, resource, value>>
    ErrorCodes,     \* error codes it may raise
    MaxOps          \* bound on requests and calls

(* A path is the segments of its text.  A body has the resources a server  *)
(* meant to send, after them raw bytes, and may have lost some bytes at    *)
(* its end.                                                                *)
ASSUME RequestsAssumption ==
    /\ MaxOps \in Nat
    /\ \A p \in Paths : p \in Seq(Int)
    /\ \A b \in Bodies :
         /\ b.items \in Seq(U16 \X {b.items[i][2] : i \in DOMAIN b.items})
         /\ \A i \in DOMAIN b.items : Sendable(b.items[i][2])
         /\ b.tail \in Seq(Byte) /\ b.cut \in Nat

(* What the types of the objects' C++ interfaces allow the application. *)
ASSUME CallsAssumption ==
    /\ Suggested \subseteq U16 \cup {NoId}
    /\ \A c \in Configs :
         /\ c[1] \in Tables
         /\ c[2] = [rid \in DOMAIN Fields(c[1]) |-> c[2][rid]]
         /\ \A rid \in DOMAIN Fields(c[1]) : InWidth(Fields(c[1])[rid], c[2][rid])
    /\ \A s \in Settings :
         \/ s[1] = Device /\ s[2] \in {9, 10, 20} /\ OfType(s[3])
         \/ s[1] = Connectivity /\ s[2] \in 0 .. 7 /\ Holdable(Connectivity, s[2], s[3])
    /\ \A code \in ErrorCodes : OfType(code)
    /\ \A f \in GpsAnswers :
         f.n \in Byte /\ f.valid \in BOOLEAN /\ OfType(Coordinate(f, 5))

VARIABLES
    objs,           \* the state of each object
    exch,           \* the request just handled and its answer
    wrapped,        \* history: tables whose next_instance_id_ has wrapped
    ops             \* requests and calls so far

vars == <<objs, exch, wrapped, ops>>

Idle == [method |-> "none"]

Bytes(body) ==
    LET all == FlattenSeq([i \in DOMAIN body.items |->
                             encode_resource(body.items[i][1], body.items[i][2])])
               \o body.tail
    IN  SubSeq(all, 1, Len(all) - body.cut)

DeviceInit ==
    [rid \in (0 .. 21) \ {4, 5, 12} |->
       CASE rid \in {6, 8, 11} -> <<NoError>>
         [] rid = 7 -> <<Value("Integer", 12000)>>
         [] rid = 9 -> Value("Integer", 100)
         [] rid \in {10, 20, 21} -> Value("Integer", 0)
         [] rid = 13 -> Value("Time", 1700000000)
         [] OTHER -> Value("String", <<70>>)]

ConnectivityInit ==
    [rid \in 0 .. 10 |->
       CASE rid = 0 -> Value("Integer", 41)
         [] rid = 1 -> <<Value("Integer", 41)>>
         [] rid \in {4, 5, 7} -> <<>>
         [] rid = 2 -> Value("Integer", -70)
         [] rid = 3 -> Value("Integer", 100)
         [] OTHER -> Value("Integer", 0)]

Init ==
    /\ objs = [o \in Objects |->
                 CASE o \in Tables -> NoTable
                   [] o = Device -> DeviceInit
                   [] o = Connectivity -> ConnectivityInit
                   [] OTHER -> [fix |-> NoFix, has |-> FALSE]]
    /\ exch = Idle /\ wrapped = {} /\ ops = 0

-----------------------------------------------------------------------------
(* error_to_coap_code *)
CoapCode(error) ==
    IF error \in {"NotFound", "MethodNotAllowed", "BadRequest", "Unauthorized", "Forbidden"}
    THEN error ELSE "InternalServerError"

CodeOf(res, success) == IF res.ok THEN success ELSE CoapCode(res.error)

(* An answer: its codes are more than one only if response.code was never  *)
(* assigned, and is then whatever the memory held.                         *)
Answer(code, payload, st) == [codes |-> {code}, payload |-> payload, st |-> st]

Codes == {"Created", "Deleted", "Changed", "Content", "BadRequest", "NotFound",
          "MethodNotAllowed", "InternalServerError", "Other"}

Unassigned(st) == [codes |-> Codes, payload |-> <<>>, st |-> st]

(* encode_instance_tlv: what can be read of an instance, one resource after *)
(* the other; fixes are the answers of the position's provider.             *)
ReadInstance(o, st, iid, fixes) ==
    LET rids == list_resources(o)
        first[k \in 0 .. Len(rids)] ==
            IF k = 0 THEN [items |-> <<>>, st |-> st]
            ELSE LET before == first[k - 1]
                     r == read_resource(o, before.st, iid, rids[k], NoId, fixes[k])
                 IN  [items |-> before.items \o
                                  IF r.res.ok THEN <<<<rids[k], r.res.value>>>> ELSE <<>>,
                      st    |-> r.st]
    IN  first[Len(rids)]

encode_instance_tlv(o, st, iid, fixes) ==
    LET read == ReadInstance(o, st, iid, fixes)
    IN  [payload |-> encode_instance(iid, read.items), st |-> read.st]

process_read(path, st, fixes) ==
    LET o == path[1]
    IN  IF is_object(path)
        THEN IF o \in Tables
             THEN LET iids == SetToSeq(list_instances(o, st))
                  IN  Answer("Content",
                             FlattenSeq([i \in DOMAIN iids |->
                                encode_instance_tlv(o, st, iids[i], fixes).payload]), st)
             ELSE LET e == encode_instance_tlv(o, st, 0, fixes)
                  IN  Answer("Content", e.payload, e.st)
        ELSE IF is_instance(path)
        THEN IF path[2] \notin list_instances(o, st) THEN Answer("NotFound", <<>>, st)
             ELSE LET e == encode_instance_tlv(o, st, path[2], fixes)
                  IN  Answer("Content", e.payload, e.st)
        ELSE IF is_resource(path)
        THEN LET r == read_resource(o, st, path[2], path[3], NoId, fixes[1])
             IN  IF r.res.ok
                 THEN Answer("Content", encode_resource(path[3], r.res.value), r.st)
                 ELSE Answer(CoapCode(r.res.error), <<>>, r.st)
        ELSE Unassigned(st)

(* One resource of a write. *)
WriteRecord(o, st, iid, rid, record) ==
    LET decoded == decode_resource(record.value, object_type(o, rid))
    IN  IF decoded.ok THEN write_resource(o, st, iid, rid, decoded.value)
                      ELSE Done(Err("BadRequest"), st)

Writable(record) == record.type = Resource

WriteInstanceMutant(o, st, iid, records) ==
    LET first[n \in 0 .. Len(records)] ==
          IF n = 0 THEN Done(Ok(<<>>), st)
          ELSE LET before == first[n - 1]
               IN  IF ~before.res.ok \/ ~Writable(records[n]) THEN before
                   ELSE WriteRecord(o, before.st, iid, records[n].id, records[n])
    IN  first[Len(records)].st

(* A write to an instance: what fails is passed over. *)
WriteInstance(o, st, iid, records) ==
    LET first[n \in 0 .. Len(records)] ==
          IF n = 0 THEN st
          ELSE IF Writable(records[n])
          THEN WriteRecord(o, first[n - 1], iid, records[n].id, records[n]).st
          ELSE first[n - 1]
    IN  first[Len(records)]

process_write(path, st, payload) ==
    LET o == path[1]
        records == decode(payload)
    IN  IF ~records.ok THEN Answer("BadRequest", <<>>, st)
        ELSE IF is_resource(path)
        THEN IF records.value = <<>> THEN Answer("BadRequest", <<>>, st)
             ELSE LET w == WriteRecord(o, st, path[2], path[3], records.value[1])
                  IN  Answer(CodeOf(w.res, "Changed"), <<>>, w.st)
        ELSE IF is_instance(path)
        THEN Answer("Changed", <<>>, WriteInstance(o, st, path[2], records.value))
        ELSE IF is_object(path)
        THEN IF o \notin Tables THEN Answer("MethodNotAllowed", <<>>, st)
             ELSE LET c == create_instance(o, st, NoId)
                  IN  Answer(CodeOf(c.res, "Created"), <<>>, c.st)
        ELSE Unassigned(st)

process_execute(path, st) ==
    LET e == execute_resource(path[1], st, path[2], path[3])
    IN  Answer(CodeOf(e.res, "Changed"), <<>>, e.st)

process_delete(path, st) ==
    IF ~is_instance(path) \/ path[1] \notin Tables
    THEN Answer("MethodNotAllowed", <<>>, st)
    ELSE LET d == delete_instance(st, path[2])
         IN  Answer(CodeOf(d.res, "Deleted"), <<>>, d.st)

-----------------------------------------------------------------------------
(* incoming_request_handler joins the Uri-Path options: an empty option    *)
(* disappears as long as nothing is in front of it.                        *)
uri_path(options) ==
    LET text == {i \in DOMAIN options : options[i] # Empty}
    IN  IF text = {} THEN <<>>
        ELSE SubSeq(options, CHOOSE i \in text : \A j \in text : i <= j, Len(options))

(* What a handler does if the path is one and names an object; the guards  *)
(* in front of it answer otherwise.  process_delete looks at the form of   *)
(* the path before it looks for the object.                                *)
Guarded(method, path, A) ==
    IF path = NoPath THEN [codes |-> {"BadRequest"}, payload |-> <<>>]
    ELSE IF method = "DELETE" /\ ~is_instance(path)
    THEN [codes |-> {"MethodNotAllowed"}, payload |-> <<>>]
    ELSE IF path[1] \notin Objects THEN [codes |-> {"NotFound"}, payload |-> <<>>]
    ELSE A

(* The tables whose next_instance_id_ goes back to 0: 65535 was created. *)
Wraps(new) == {o \in Tables : MaxU16 \in DOMAIN new[o].inst}

(* handle_incoming_request: the answer A becomes the exchange. *)
Handle(method, options, body, A) ==
    LET path == parse(uri_path(options))
        a    == Guarded(method, path, A)
    IN  /\ exch = Idle /\ ops < MaxOps /\ ops' = ops + 1
        /\ objs' = IF "st" \in DOMAIN a THEN [objs EXCEPT ![path[1]] = a.st] ELSE objs
        /\ wrapped' = wrapped \cup Wraps(objs')
        /\ \E code \in a.codes :
             exch' = [method |-> method, path |-> path, body |-> body,
                      code |-> code, payload |-> a.payload]

NoBody == [items |-> <<>>, tail |-> <<>>, cut |-> 0]
NoFixes == [k \in 1 .. 22 |-> NoFix]

(* The provider is asked once for each resource of Location that is read. *)
Fixes(path) ==
    IF path = NoPath \/ path[1] # Location THEN {NoFixes}
    ELSE [1 .. (IF is_resource(path) THEN 1 ELSE Len(list_resources(Location))) -> GpsAnswers]

Get(options) ==
    LET path == parse(uri_path(options)) IN
    /\ "GET" \in Methods
    /\ \E fixes \in Fixes(path) :
         Handle("GET", options, NoBody, process_read(path, objs[path[1]], fixes))

Put(options, body) ==
    LET path == parse(uri_path(options)) IN
    /\ "PUT" \in Methods
    /\ Handle("PUT", options, body, process_write(path, objs[path[1]], Bytes(body)))

Post(options, body) ==
    LET path == parse(uri_path(options)) IN
    /\ "POST" \in Methods
    /\ Handle("POST", options, body,
              IF is_resource(path) THEN process_execute(path, objs[path[1]])
              ELSE process_write(path, objs[path[1]], Bytes(body)))

Delete(options) ==
    LET path == parse(uri_path(options)) IN
    /\ "DELETE" \in Methods
    /\ Handle("DELETE", options, NoBody, process_delete(path, objs[path[1]]))

(* The response PDU goes out. *)
Reply ==
    /\ exch # Idle /\ exch' = Idle
    /\ UNCHANGED <<objs, wrapped, ops>>

-----------------------------------------------------------------------------
(* The application. *)

AppCall(o, st) ==
    /\ exch = Idle /\ ops < MaxOps /\ ops' = ops + 1
    /\ objs' = [objs EXCEPT ![o] = st]
    /\ wrapped' = wrapped \cup Wraps(objs')
    /\ UNCHANGED exch

AppCreates(o, iid) == AppCall(o, create_instance(o, objs[o], iid).st)
AppAddsServer(o, config) == AppCall(o, add_server(o, objs[o], config).st)
AppRaises(code) == AppCall(Device, add_error_code(objs[Device], code))
AppClears == AppCall(Device, clear_error_codes(objs[Device]))

(* set_battery_level, set_battery_status and set_memory_free of Device. *)
AppSetsDevice(rid, v) == AppCall(Device, [objs[Device] EXCEPT ![rid] = v])
AppSetsConnectivity(rid, v) == AppCall(Connectivity, set_connectivity(objs[Connectivity], rid, v))

Next ==
    \/ \E p \in Paths : Get(p) \/ Delete(p)
    \/ \E p \in Paths, b \in Bodies : Put(p, b) \/ Post(p, b)
    \/ Reply
    \/ \E o \in Tables, iid \in Suggested : AppCreates(o, iid)
    \/ \E c \in Configs : AppAddsServer(c[1], c[2])
    \/ \E e \in ErrorCodes : AppRaises(e)
    \/ AppClears
    \/ \E s \in Settings :
         \/ s[1] = Device /\ AppSetsDevice(s[2], s[3])
         \/ s[1] = Connectivity /\ AppSetsConnectivity(s[2], s[3])

Spec == Init /\ [][Next]_vars

-----------------------------------------------------------------------------
(* Properties. *)

(* Every instance has its fields, each within its C++ type, ids fit 16     *)
(* bits, Device and Connectivity hold ResourceValues, and the error list   *)
(* of Device is never empty.                                               *)
TypeOK ==
    /\ \A o \in Tables :
         /\ objs[o].next \in U16 /\ DOMAIN objs[o].inst \subseteq U16
         /\ \A iid \in DOMAIN objs[o].inst :
              /\ DOMAIN objs[o].inst[iid] = DOMAIN Fields(o)
              /\ \A rid \in DOMAIN Fields(o) : InWidth(Fields(o)[rid], objs[o].inst[iid][rid])
    /\ \A o \in {Device, Connectivity} : \A rid \in DOMAIN objs[o] : Holdable(o, rid, objs[o][rid])
    /\ objs[Device][11] # <<>>
    /\ objs[Location].has => objs[Location].fix.valid
    /\ exch = Idle \/ exch.code \in Codes
    /\ wrapped \subseteq Tables /\ ops \in 0 .. MaxOps

(* The decoder gives back what the encoder was given, at the limits of     *)
(* every id and length form and of every integer width, and of a time its  *)
(* whole seconds: a body that lost nothing is decoded if what follows the  *)
(* resources is, and the resources are then the first of its records.      *)
DecodesWhatWasSent ==
    exch # Idle /\ exch.body.cut = 0 /\ decode(exch.body.tail).ok =>
        LET sent == exch.body.items
            got  == decode(Bytes(exch.body)).value
        IN  decode(Bytes(exch.body)).ok /\ \A i \in DOMAIN sent :
              /\ got[i].type = Resource /\ got[i].id = sent[i][1]
              /\ decode_resource(got[i].value, get_resource_type(sent[i][2])) = Ok(Received(sent[i][2]))

(* What an object holds in state st: the values of each resource.          *)
Values(o, st, iid, rid) ==
    IF o \in Tables THEN <<Value(FieldType(Fields(o)[rid]), st.inst[iid][rid])>>
    ELSE IF rid \in Multiple(o) THEN st[rid] ELSE <<st[rid]>>

Resources(o, st) == IF o \in Tables THEN DOMAIN Fields(o) ELSE DOMAIN st

(* The first value of each resource that has one: all that a multiple      *)
(* resource says of itself in an answer.                                   *)
FirstValues(o, st, iid) ==
    {<<rid, Values(o, st, iid, rid)[1]>> :
        rid \in {r \in Resources(o, st) : Values(o, st, iid, r) # <<>>}}

(* The records of an instance say exactly that, each resource once. *)
Describes(records, o, st, iid) ==
    /\ Len(records) = Cardinality(FirstValues(o, st, iid))
    /\ \A h \in FirstValues(o, st, iid) : \E i \in DOMAIN records :
         /\ records[i].type = Resource /\ records[i].id = h[1]
         /\ decode_resource(records[i].value, get_resource_type(h[2])) = Ok(Received(h[2]))

(* A read that is answered Content names each instance of an object, and   *)
(* each resource of an instance that has a value, once, and nothing else;  *)
(* and it gives the value, to the second if it is a time                   *)
(* (client.cpp:398-471, 684-697). Of a multiple resource it gives the      *)
(* first value only: the code reads a resource once (441, 689), and the    *)
(* others are in no answer. Location, which asks for the position anew, is *)
(* apart. The encoder writes the length of a record into three bytes and   *)
(* takes what does not fit modulo 2^24: an answer that long says nothing   *)
(* certain.                                                                *)
AnswerDescribesObject ==
    exch # Idle /\ exch.method = "GET" /\ exch.code = "Content"
    /\ exch.path[1] # Location /\ ~is_resource_instance(exch.path)
    /\ Len(exch.payload) <= MaxValue =>
        LET o    == exch.path[1]
            recs == decode(exch.payload).value
            iids == IF is_object(exch.path) THEN list_instances(o, objs[o]) ELSE {exch.path[2]}
        IN  IF is_resource(exch.path)
            THEN \E h \in FirstValues(o, objs[o], exch.path[2]) :
                   /\ h[1] = exch.path[3] /\ Len(recs) = 1 /\ recs[1].id = h[1]
                   /\ decode_resource(recs[1].value, get_resource_type(h[2]))
                        = Ok(Received(h[2]))
            ELSE /\ Len(recs) = Cardinality(iids)
                 /\ \A iid \in iids : \E i \in DOMAIN recs :
                      /\ recs[i].type = ObjectInstance /\ recs[i].id = iid
                      /\ Describes(recs[i].children, o, objs[o], iid)

(* If the provider alone gives the position, no coordinate outside the     *)
(* ranges of GpsPosition::is_valid that it gave is ever answered, though   *)
(* each resource of a read may see another fix (location.cpp:38-47,        *)
(* 100-107).  Calls of update_position() meanwhile are in LocationObject.  *)
PositionFromValidFix ==
    exch # Idle /\ exch.method = "GET" /\ exch.code = "Content" /\ exch.path[1] = Location
    /\ ~is_resource_instance(exch.path) =>
        LET recs   == decode(exch.payload).value
            coords == IF is_resource(exch.path) THEN recs ELSE recs[1].children
        IN  \A i \in DOMAIN coords : \E fix \in GpsAnswers :
              fix.valid /\ coords[i].value = serialize(Coordinate(fix, coords[i].id))

(* A read of the error code (/3/0/11, which gives the first of the list)   *)
(* never says NoError while an error is in the list.                       *)
ErrorsNotMasked ==
    LET list == objs[Device][11]
    IN  (\E i \in DOMAIN list : list[i] # NoError) => list[1] # NoError

Requested(method) == exch = Idle /\ exch' # Idle /\ exch'.method = method

(* A value of the type of field rid of o, and within its range. *)
Fitting(o, rid, value) ==
    LET field == IF o \in Tables THEN Fields(o)[rid] ELSE "string"
    IN  get_resource_type(value) = FieldType(field) /\ InWidth(field, Datum(value))

(* A write of one resource that is answered Changed is what a read gives   *)
(* from then on, if the value sent fits the resource: the decoding by the  *)
(* object's type and the cast to the field's type lose nothing.            *)
WriteReadsBack ==
    Requested("PUT") /\ is_resource(exch'.path) /\ exch'.code = "Changed"
    /\ exch'.body.cut = 0 /\ exch'.body.items # <<>> =>
      LET o     == exch'.path[1]
          rid   == exch'.path[3]
          value == exch'.body.items[1][2]
      IN  Fitting(o, rid, value) =>
            read_resource(o, objs'[o], exch'.path[2], rid, NoId, NoFix).res = Ok(value)

(* Every step of a behaviour does so. *)
ChangedReadsBack == [][WriteReadsBack]_vars

(* A write to an instance passes over the resources that fail and is       *)
(* answered Changed all the same: each field then has the last value sent  *)
(* for it that fits, whatever failed before it, and the rest is untouched  *)
(* (what follows the resources sent must not be one that is written, too). *)
LastValidApplied ==
    Requested("PUT") /\ is_instance(exch'.path) /\ exch'.body.cut = 0
    /\ exch'.code = "Changed" /\ exch'.path[1] \in Tables
    /\ decode(exch'.body.tail).ok
    /\ (\A i \in DOMAIN decode(exch'.body.tail).value : ~Writable(decode(exch'.body.tail).value[i])) =>
      LET o     == exch'.path[1]
          iid   == exch'.path[2]
          items == exch'.body.items
          For(rid) == {i \in DOMAIN items : items[i][1] = rid}
      IN  /\ DOMAIN objs'[o].inst = DOMAIN objs[o].inst
          /\ iid \in DOMAIN objs[o].inst => \A rid \in DOMAIN Fields(o) :
               /\ For(rid) = {} => objs'[o].inst[iid][rid] = objs[o].inst[iid][rid]
               /\ \A i \in For(rid) :
                    Fitting(o, rid, items[i][2]) /\ (\A j \in For(rid) : j <= i) =>
                      objs'[o].inst[iid][rid] = Datum(items[i][2])

(* Every step of a behaviour does so. *)
InstanceWriteAppliesValid == [][LastValidApplied]_vars

(* A request that is refused changes nothing but the position. *)
RefusedChangesNothing ==
    exch = Idle /\ exch' # Idle /\ ~is_resource_instance(exch'.path)
    /\ exch'.code \notin {"Changed", "Created", "Deleted"} =>
      \A o \in Objects \ {Location} : objs'[o] = objs[o]

OthersStay ==
    \A o \in Tables : \A iid \in DOMAIN objs[o].inst :
      \/ iid \in DOMAIN objs'[o].inst /\ objs'[o].inst[iid] = objs[o].inst[iid]
      \/ exch' # Idle /\ Len(exch'.path) > 1 /\ SubSeq(exch'.path, 1, 2) = <<o, iid>>

(* No request or call changes or removes an instance it does not address:  *)
(* above all, a creation after next_instance_id_ has wrapped does not      *)
(* replace an instance.  A request that is refused changes nothing.        *)
OthersKept == [][RefusedChangesNothing /\ OthersStay]_vars

(* Until next_instance_id_ has wrapped, a server's creation of an instance *)
(* is never refused: it adds one instance with the default fields.         *)
CreationSucceeds ==
    exch = Idle /\ exch' # Idle /\ exch'.method \in {"PUT", "POST"} /\ is_object(exch'.path) =>
      LET o == exch'.path[1]
      IN  o \in Tables \ wrapped /\ decode(Bytes(exch'.body)).ok =>
            /\ exch'.code = "Created"
            /\ \E iid \in DOMAIN objs'[o].inst \ DOMAIN objs[o].inst :
                 objs'[o].inst = Store(objs[o], iid, Blank(o)).inst

(* Every step of a behaviour does so. *)
CreatedUnlessWrapped == [][CreationSucceeds]_vars
===============================================================================
