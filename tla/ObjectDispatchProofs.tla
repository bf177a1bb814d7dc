------------------------- MODULE ObjectDispatchProofs -------------------------
(***************************************************************************)
(* Proofs about the objects (LwM2MObjects) and the requests of a server    *)
(* (ObjectDispatch).  The first part says what the operations of the       *)
(* objects preserve and change: the fields of Security and Server stay     *)
(* within their C++ types, ids within 16 bits, an operation changes the    *)
(* instance it names, and the lists of resources name each once.  The      *)
(* second says what a handler may do to its object (HandlerOK), from which *)
(* the steps preserve the inductive invariant and have the action          *)
(* properties, and what the answer to a read says.                         *)
(***************************************************************************)
EXTENDS ObjectDispatch, TlvCodecProofs, FiniteSetTheorems, FunctionTheorems

(* An instance has the fields of its object, each within its type. *)
InstanceOK(o, fields) ==
    /\ fields = [rid \in DOMAIN Fields(o) |-> fields[rid]]
    /\ \A rid \in DOMAIN Fields(o) : InWidth(Fields(o)[rid], fields[rid])

(* A map of ids to instances, and a table. *)
InstancesOK(o, inst) ==
    /\ DOMAIN inst \subseteq U16 /\ inst = [iid \in DOMAIN inst |-> inst[iid]]
    /\ \A iid \in DOMAIN inst : InstanceOK(o, inst[iid])

TableOK(o, t) ==
    /\ t = [inst |-> t.inst, next |-> t.next]
    /\ t.next \in U16 /\ InstancesOK(o, t.inst)

Kinds == {"u8", "u16", "u32", "bool", "string", "bytes"}

LEMMA FieldKinds ==
    ASSUME NEW o \in Tables
    PROVE  /\ DOMAIN Fields(o) \subseteq U16
           /\ \A rid \in DOMAIN Fields(o) : Fields(o)[rid] \in Kinds
<1>1. \A n \in Nat : n <= 12 => n \in U16
  BY Ranges
<1>2. CASE o = Server
  BY <1>1, <1>2 DEF Fields, ServerFields, Kinds, Server
<1>3. CASE o = Security
  BY <1>1, <1>3 DEF Fields, SecurityFields, Kinds, Server, Security
<1> QED BY <1>2, <1>3 DEF Tables

(* ServerInstance{} and SecurityInstance{} are within their types. *)
LEMMA BlankOK ==
    ASSUME NEW o \in Tables
    PROVE  InstanceOK(o, Blank(o))
<1>1. 0 \in Byte /\ 3 \in Byte /\ 0 \in U16 /\ 85 \in Byte
  BY Ranges
<1>2. 0 \in 0 .. Mod32 - 1 /\ 86400 \in 0 .. Mod32 - 1
  BY SMT, Mod32Assumption
<1>3. <<>> \in Seq(Byte) /\ <<85>> \in Seq(Byte)
  BY <1>1, EmptySeq
<1>4. CASE o = Server
  <2>1. Fields(o) = ServerFields /\ Blank(o) = BlankServer
    BY <1>4 DEF Fields, Blank
  <2>2. DOMAIN ServerFields = {0, 1, 2, 3, 5, 6, 7}
    BY DEF ServerFields
  <2>3. BlankServer = [rid \in DOMAIN ServerFields |-> BlankServer[rid]]
    BY DEF BlankServer
  <2>4. ASSUME NEW rid \in DOMAIN ServerFields PROVE InWidth(ServerFields[rid], BlankServer[rid])
    <3>1. CASE rid = 0
      <4>1. ServerFields[rid] = "u16" /\ BlankServer[rid] = 0
        BY <2>2, <3>1 DEF ServerFields, BlankServer
      <4> QED BY <1>1, <4>1 DEF InWidth
    <3>2. CASE rid \in {1, 5}
      <4>1. ServerFields[rid] = "u32" /\ BlankServer[rid] = 86400
        <5>1. CASE rid = 1
          BY SMT, <2>2, <5>1 DEF ServerFields, BlankServer
        <5>2. CASE rid = 5
          BY SMT, <2>2, <5>2 DEF ServerFields, BlankServer
        <5> QED BY <3>2, <5>1, <5>2
      <4> HIDE <3>2
      <4> QED BY SMT, <1>2, <4>1 DEF InWidth
    <3>3. CASE rid \in {2, 3}
      <4>1. ServerFields[rid] = "u32" /\ BlankServer[rid] = 0
        <5>1. CASE rid = 2
          BY SMT, <2>2, <5>1 DEF ServerFields, BlankServer
        <5>2. CASE rid = 3
          BY SMT, <2>2, <5>2 DEF ServerFields, BlankServer
        <5> QED BY <3>3, <5>1, <5>2
      <4> QED BY SMT, <1>2, <4>1 DEF InWidth
    <3>4. CASE rid = 6
      <4>1. ServerFields[rid] = "bool" /\ BlankServer[rid] = FALSE
        BY <2>2, <3>4 DEF ServerFields, BlankServer
      <4> QED BY <4>1 DEF InWidth
    <3>5. CASE rid = 7
      <4>1. ServerFields[rid] = "string" /\ BlankServer[rid] = <<85>>
        BY <2>2, <3>5 DEF ServerFields, BlankServer
      <4> QED BY <1>3, <4>1 DEF InWidth
    <3> QED BY <2>2, <3>1, <3>2, <3>3, <3>4, <3>5
  <2> QED BY <2>1, <2>3, <2>4 DEF InstanceOK
<1>5. CASE o = Security
  <2>1. Fields(o) = SecurityFields /\ Blank(o) = BlankSecurity
    BY <1>5 DEF Fields, Blank, Security, Server
  <2>2. DOMAIN SecurityFields = {0, 1, 2, 3, 4, 5, 10, 11, 12}
    BY DEF SecurityFields
  <2>3. BlankSecurity = [rid \in DOMAIN SecurityFields |-> BlankSecurity[rid]]
    BY DEF BlankSecurity
  <2>4. ASSUME NEW rid \in DOMAIN SecurityFields
        PROVE  InWidth(SecurityFields[rid], BlankSecurity[rid])
    <3>1. CASE rid = 10
      <4>1. SecurityFields[rid] = "u16" /\ BlankSecurity[rid] = 0
        BY <2>2, <3>1 DEF SecurityFields, BlankSecurity
      <4> QED BY <1>1, <4>1 DEF InWidth
    <3>2. CASE rid \in {11, 12}
      <4>1. SecurityFields[rid] = "u32" /\ BlankSecurity[rid] = 0
        <5>1. CASE rid = 11
          BY SMT, <2>2, <5>1 DEF SecurityFields, BlankSecurity
        <5>2. CASE rid = 12
          BY SMT, <2>2, <5>2 DEF SecurityFields, BlankSecurity
        <5> QED BY <3>2, <5>1, <5>2
      <4> QED BY SMT, <1>2, <4>1 DEF InWidth
    <3>3. CASE rid = 2
      <4>1. SecurityFields[rid] = "u8" /\ BlankSecurity[rid] = 3
        BY <2>2, <3>3 DEF SecurityFields, BlankSecurity
      <4> QED BY <1>1, <4>1 DEF InWidth
    <3>4. CASE rid = 1
      <4>1. SecurityFields[rid] = "bool" /\ BlankSecurity[rid] = FALSE
        BY <2>2, <3>4 DEF SecurityFields, BlankSecurity
      <4> QED BY <4>1 DEF InWidth
    <3>5. CASE rid \in {0, 3, 4, 5}
      <4>1. SecurityFields[rid] \in {"string", "bytes"} /\ BlankSecurity[rid] = <<>>
        BY <2>2, <3>5 DEF SecurityFields, BlankSecurity
      <4> QED BY <1>3, <4>1 DEF InWidth
    <3> QED BY <2>2, <3>1, <3>2, <3>3, <3>4, <3>5
  <2> QED BY <2>1, <2>3, <2>4 DEF InstanceOK
<1> QED BY <1>4, <1>5 DEF Tables

(* The cast of a value to the type of its field is within that type. *)
LEMMA NarrowOK ==
    ASSUME NEW field \in Kinds, NEW v, Reading(FieldType(field), v)
    PROVE  InWidth(field, Narrow(field, v))
<1>1. CASE field = "u8"
  <2>1. v \in Int
    BY <1>1 DEF FieldType, Reading
  <2>2. v % 256 \in Byte
    BY <2>1, Ranges
  <2> QED BY <1>1, <2>2 DEF Narrow, InWidth
<1>2. CASE field = "u16"
  <2>1. v \in Int
    BY <1>2 DEF FieldType, Reading
  <2>2. v % 65536 \in Nat /\ v % 65536 <= 65535
    BY SMT, <2>1
  <2>3. v % 65536 \in U16
    BY SMT, <2>2, Ranges
  <2> QED BY SMT, <1>2, <2>3 DEF Narrow, InWidth
<1>3. CASE field = "u32"
  <2>1. v \in Int
    BY <1>3 DEF FieldType, Reading
  <2>2. v % Mod32 \in 0 .. Mod32 - 1
    BY SMT, <2>1, Mod32Assumption
  <2> QED BY SMT, <1>3, <2>2 DEF Narrow, InWidth
<1>4. CASE field = "bool"
  <2>1. v \in BOOLEAN
    BY <1>4 DEF FieldType, Reading
  <2> QED BY <1>4, <2>1 DEF Narrow, InWidth
<1>5. CASE field \in {"string", "bytes"}
  <2>1. v \in Seq(Byte)
    BY <1>5 DEF FieldType, Reading
  <2> QED BY <1>5, <2>1 DEF Narrow, InWidth
<1> QED BY <1>1, <1>2, <1>3, <1>4, <1>5 DEF Kinds

-----------------------------------------------------------------------------
(* Security and Server. *)

(* The instances after one is stored. *)
Stored(inst, iid, fields) ==
    [i \in DOMAIN inst \cup {iid} |-> IF i = iid THEN fields ELSE inst[i]]

LEMMA StoredOK ==
    ASSUME NEW o, NEW inst, InstancesOK(o, inst), NEW iid \in U16,
           NEW fields, InstanceOK(o, fields)
    PROVE  /\ InstancesOK(o, Stored(inst, iid, fields))
           /\ DOMAIN Stored(inst, iid, fields) = DOMAIN inst \cup {iid}
           /\ Stored(inst, iid, fields)[iid] = fields
           /\ \A i \in DOMAIN inst : i # iid => Stored(inst, iid, fields)[i] = inst[i]
<1> DEFINE new == Stored(inst, iid, fields)
<1>1. /\ DOMAIN new = DOMAIN inst \cup {iid} /\ new[iid] = fields
      /\ \A i \in DOMAIN inst : i # iid => new[i] = inst[i]
      /\ new = [i \in DOMAIN new |-> new[i]]
  BY DEF Stored
<1> HIDE DEF new
<1>2. DOMAIN new \subseteq U16
  BY <1>1 DEF InstancesOK
<1>3. \A i \in DOMAIN new : InstanceOK(o, new[i])
  BY <1>1 DEF InstancesOK
<1>4. InstancesOK(o, new)
  BY <1>1, <1>2, <1>3 DEF InstancesOK
<1> QED BY <1>1, <1>4 DEF new

LEMMA StoreOK ==
    ASSUME NEW o, NEW t, TableOK(o, t), NEW iid \in U16, NEW fields, InstanceOK(o, fields)
    PROVE  /\ Store(t, iid, fields) = [inst |-> Stored(t.inst, iid, fields), next |-> t.next]
           /\ TableOK(o, Store(t, iid, fields))
<1>1. t = [inst |-> t.inst, next |-> t.next] /\ t.next \in U16 /\ InstancesOK(o, t.inst)
  BY DEF TableOK
<1>2. Store(t, iid, fields) = [inst |-> Stored(t.inst, iid, fields), next |-> t.next]
  BY <1>1 DEF Store, Stored
<1>3. InstancesOK(o, Stored(t.inst, iid, fields))
  BY <1>1, StoredOK
<1> QED BY <1>1, <1>2, <1>3 DEF TableOK

(* next_instance_id_ stays a 16-bit number, and ahead of what was created  *)
(* unless 65535 was.                                                       *)
LEMMA NextIdOK ==
    ASSUME NEW t, t.next \in U16, NEW iid \in U16
    PROVE  /\ NextId(t, iid) \in U16
           /\ iid # MaxU16 => NextId(t, iid) > iid /\ NextId(t, iid) >= t.next
<1>0. MaxU16 = 65535
  BY DEF MaxU16
<1>1. PICK n \in Nat : n = t.next /\ n <= 65535
  BY Ranges
<1>2. iid \in Nat /\ iid <= 65535
  BY Ranges
<1>3. NextId(t, iid) = IF iid >= n THEN (iid + 1) % 65536 ELSE n
  BY <1>1 DEF NextId
<1>4. /\ (iid + 1) % 65536 \in Nat /\ (iid + 1) % 65536 <= 65535
      /\ iid # 65535 => (iid + 1) % 65536 = iid + 1
  BY SMT, <1>2
<1>5. /\ NextId(t, iid) \in Nat /\ NextId(t, iid) <= 65535
      /\ iid # 65535 => NextId(t, iid) > iid /\ NextId(t, iid) >= n
  BY SMT, <1>1, <1>2, <1>3, <1>4
<1> QED BY SMT, <1>0, <1>1, <1>5, Ranges

(* create_instance refuses an id that is taken and changes nothing, or     *)
(* adds one instance with the default fields.                              *)
Created(o, t, iid) ==
    [inst |-> Stored(t.inst, iid, Blank(o)), next |-> NextId(t, iid)]

LEMMA CreateOK ==
    ASSUME NEW o \in Tables, NEW t, TableOK(o, t), NEW suggested \in U16 \cup {NoId}
    PROVE  \E iid \in U16 :
             /\ suggested = NoId => iid = t.next
             /\ \/ /\ iid \in DOMAIN t.inst
                   /\ create_instance(o, t, suggested) = Done(Err("BadRequest"), t)
                \/ /\ iid \notin DOMAIN t.inst
                   /\ create_instance(o, t, suggested) = Done(Ok(iid), Created(o, t, iid))
                   /\ TableOK(o, Created(o, t, iid))
<1>1. t.next \in U16 /\ InstancesOK(o, t.inst) /\ t = [inst |-> t.inst, next |-> t.next]
  BY DEF TableOK
<1>2. PICK iid \in U16 : iid = IF suggested = NoId THEN t.next ELSE suggested
  BY <1>1
<1>3. create_instance(o, t, suggested) =
        IF iid \in DOMAIN t.inst THEN Done(Err("BadRequest"), t)
        ELSE Done(Ok(iid), [Store(t, iid, Blank(o)) EXCEPT !.next = NextId(t, iid)])
  BY <1>2 DEF create_instance, Taken
<1>4. Store(t, iid, Blank(o)) = [inst |-> Stored(t.inst, iid, Blank(o)), next |-> t.next]
  BY BlankOK, StoreOK
<1>5. [Store(t, iid, Blank(o)) EXCEPT !.next = NextId(t, iid)] = Created(o, t, iid)
  BY <1>4 DEF Created
<1>6. TableOK(o, Created(o, t, iid))
  <2>1. InstancesOK(o, Stored(t.inst, iid, Blank(o)))
    BY <1>1, BlankOK, StoredOK
  <2>2. NextId(t, iid) \in U16
    BY <1>1, NextIdOK
  <2> QED BY <2>1, <2>2 DEF Created, TableOK
<1> QED BY <1>2, <1>3, <1>5, <1>6

(* add_server creates an instance in the same way and sets its fields. *)
Added(t, iid, config) ==
    [inst |-> Stored(t.inst, iid, config), next |-> NextId(t, iid)]

LEMMA AddOK ==
    ASSUME NEW o \in Tables, NEW t, TableOK(o, t), NEW config, InstanceOK(o, config)
    PROVE  \E iid \in U16 :
             /\ iid = t.next
             /\ \/ iid \in DOMAIN t.inst /\ add_server(o, t, config).st = t
                \/ /\ iid \notin DOMAIN t.inst
                   /\ add_server(o, t, config).st = Added(t, iid, config)
                   /\ TableOK(o, Added(t, iid, config))
<1>0. \A r, s : Done(r, s).res = r /\ Done(r, s).st = s
  BY DEF Done
<1>1. \A e : Ok(e).ok = TRUE /\ Ok(e).value = e /\ Err(e).ok = FALSE
  BY DEF Ok, Err
<1>2. PICK iid \in U16 :
        /\ iid = t.next
        /\ \/ /\ iid \in DOMAIN t.inst
              /\ create_instance(o, t, NoId) = Done(Err("BadRequest"), t)
           \/ /\ iid \notin DOMAIN t.inst
              /\ create_instance(o, t, NoId) = Done(Ok(iid), Created(o, t, iid))
              /\ TableOK(o, Created(o, t, iid))
  BY CreateOK
<1>3. CASE create_instance(o, t, NoId) = Done(Err("BadRequest"), t)
  <2>1. add_server(o, t, config) = Done(Err("BadRequest"), t)
    BY <1>0, <1>1, <1>3 DEF add_server
  <2>2. Done(Err("BadRequest"), t) # Done(Ok(iid), Created(o, t, iid))
    <3>1. Err("BadRequest") # Ok(iid)
      BY <1>1
    <3> QED BY <1>0, <3>1
  <2> QED BY <1>0, <1>2, <1>3, <2>1, <2>2
<1>4. CASE /\ iid \notin DOMAIN t.inst
           /\ create_instance(o, t, NoId) = Done(Ok(iid), Created(o, t, iid))
           /\ TableOK(o, Created(o, t, iid))
  <2> DEFINE c == Created(o, t, iid)
  <2>1. add_server(o, t, config).st = Store(c, iid, config)
    <3> HIDE DEF c
    <3>1. create_instance(o, t, NoId) = Done(Ok(iid), c)
      BY <1>4 DEF c
    <3>2. add_server(o, t, config) = Done(Ok(iid), Store(c, iid, config))
      BY <1>0, <1>1, <3>1 DEF add_server
    <3> QED BY <1>0, <3>2
  <2>2. c.inst = Stored(t.inst, iid, Blank(o)) /\ c.next = NextId(t, iid)
    BY DEF Created
  <2>3. /\ Store(c, iid, config) = [inst |-> Stored(c.inst, iid, config), next |-> c.next]
        /\ TableOK(o, Store(c, iid, config))
    BY <1>4, StoreOK
  <2>4. Stored(c.inst, iid, config) = Stored(t.inst, iid, config)
    BY <2>2 DEF Stored
  <2>5. Store(c, iid, config) = Added(t, iid, config)
    BY <2>2, <2>3, <2>4 DEF Added
  <2> HIDE DEF c
  <2> QED BY <1>2, <1>4, <2>1, <2>3, <2>5
<1> QED BY <1>2, <1>3, <1>4

LEMMA DeleteOK ==
    ASSUME NEW o, NEW t, TableOK(o, t), NEW iid
    PROVE  LET d == delete_instance(t, iid)
           IN  \/ iid \notin DOMAIN t.inst /\ d = Done(Err("NotFound"), t)
               \/ /\ iid \in DOMAIN t.inst /\ d.res = Ok(<<>>) /\ TableOK(o, d.st)
                  /\ d.st.next = t.next /\ DOMAIN d.st.inst = DOMAIN t.inst \ {iid}
                  /\ \A i \in DOMAIN t.inst \ {iid} : d.st.inst[i] = t.inst[i]
<1>1. t.next \in U16 /\ InstancesOK(o, t.inst) /\ t = [inst |-> t.inst, next |-> t.next]
  BY DEF TableOK
<1> DEFINE left == [i \in DOMAIN t.inst \ {iid} |-> t.inst[i]]
           new  == [inst |-> left, next |-> t.next]
<1>2. delete_instance(t, iid) = IF iid \notin DOMAIN t.inst THEN Done(Err("NotFound"), t)
                                ELSE Done(Ok(<<>>), new)
  BY <1>1 DEF delete_instance, Taken
<1>3. /\ DOMAIN left = DOMAIN t.inst \ {iid} /\ left = [i \in DOMAIN left |-> left[i]]
      /\ \A i \in DOMAIN t.inst \ {iid} : left[i] = t.inst[i]
  OBVIOUS
<1> HIDE DEF left
<1>4. InstancesOK(o, left)
  BY <1>1, <1>3 DEF InstancesOK
<1>5. TableOK(o, new) /\ new.inst = left /\ new.next = t.next
  BY <1>1, <1>4 DEF TableOK
<1> HIDE DEF new
<1>6. Done(Ok(<<>>), new).res = Ok(<<>>) /\ Done(Ok(<<>>), new).st = new
  BY DEF Done
<1> QED BY <1>2, <1>3, <1>5, <1>6

(* A write of a resource that is no field of an instance, or of another    *)
(* type, is refused; otherwise it changes that one field.                  *)
LEMMA WriteFieldOK ==
    ASSUME NEW o \in Tables, NEW t, TableOK(o, t), NEW iid, NEW rid,
           NEW type, NEW v, Reading(type, v)
    PROVE  LET w == WriteField(o, t, iid, rid, Value(type, v))
           IN  \/ w.res \in {Err("NotFound"), Err("BadRequest")} /\ w.st = t
                  /\ (iid \notin DOMAIN t.inst \/ rid \notin DOMAIN Fields(o)
                        \/ type # FieldType(Fields(o)[rid]))
               \/ /\ iid \in DOMAIN t.inst /\ rid \in DOMAIN Fields(o)
                  /\ type = FieldType(Fields(o)[rid])
                  /\ w.res = Ok(<<>>) /\ TableOK(o, w.st) /\ w.st.next = t.next
                  /\ DOMAIN w.st.inst = DOMAIN t.inst
                  /\ \A i \in DOMAIN t.inst : i # iid => w.st.inst[i] = t.inst[i]
                  /\ \A r \in DOMAIN Fields(o) :
                       w.st.inst[iid][r] = IF r = rid THEN Narrow(Fields(o)[rid], v)
                                           ELSE t.inst[iid][r]
<1> DEFINE w == WriteField(o, t, iid, rid, Value(type, v))
           field == Fields(o)[rid]
           new == [t EXCEPT !.inst[iid][rid] = Narrow(field, v)]
<1>0. /\ \A r, s : Done(r, s).res = r /\ Done(r, s).st = s
      /\ \A e : Err(e).ok = FALSE
      /\ get_resource_type(Value(type, v)) = type /\ Datum(Value(type, v)) = v
  BY DEF Done, Err, Value, get_resource_type, Datum
<1>1. CASE iid \notin DOMAIN t.inst \/ rid \notin DOMAIN Fields(o) \/ type # FieldType(field)
  <2>1. w \in {Done(Err("NotFound"), t), Done(Err("BadRequest"), t)}
    BY <1>0, <1>1 DEF WriteField, Taken
  <2> HIDE DEF w, field
  <2>2. w.res \in {Err("NotFound"), Err("BadRequest")} /\ w.st = t
    BY <1>0, <2>1
  <2> QED BY <1>1, <2>2 DEF w, field
<1>2. CASE iid \in DOMAIN t.inst /\ rid \in DOMAIN Fields(o) /\ type = FieldType(field)
  <2>1. w = Done(Ok(<<>>), new)
    BY <1>0, <1>2 DEF WriteField, Taken
  <2>2. w.res = Ok(<<>>) /\ w.st = new
    <3> HIDE DEF w, new
    <3> QED BY <1>0, <2>1
  <2>3. t.next \in U16 /\ InstancesOK(o, t.inst) /\ t = [inst |-> t.inst, next |-> t.next]
    BY DEF TableOK
  <2> HIDE DEF field
  <2> DEFINE fields == [t.inst[iid] EXCEPT ![rid] = Narrow(field, v)]
             inst   == [t.inst EXCEPT ![iid] = fields]
  <2>4. new = [inst |-> inst, next |-> t.next]
    BY <2>3
  <2>5. iid \in U16 /\ InstanceOK(o, t.inst[iid])
    BY <1>2, <2>3 DEF InstancesOK
  <2>6. fields = [r \in DOMAIN Fields(o) |-> IF r = rid THEN Narrow(field, v) ELSE t.inst[iid][r]]
    BY <1>2, <2>5 DEF InstanceOK
  <2>7. InWidth(field, Narrow(field, v))
    BY <1>2, FieldKinds, NarrowOK DEF field
  <2>8. InstanceOK(o, fields)
    <3>1. /\ fields = [r \in DOMAIN Fields(o) |-> fields[r]]
          /\ \A r \in DOMAIN Fields(o) :
               fields[r] = IF r = rid THEN Narrow(field, v) ELSE t.inst[iid][r]
      BY <2>6
    <3> HIDE DEF fields
    <3>2. ASSUME NEW r \in DOMAIN Fields(o) PROVE InWidth(Fields(o)[r], fields[r])
      <4>1. CASE r = rid
        BY <2>7, <3>1, <4>1 DEF field
      <4>2. CASE r # rid
        BY <2>5, <3>1, <4>2 DEF InstanceOK
      <4> QED BY <4>1, <4>2
    <3> QED BY <3>1, <3>2 DEF InstanceOK
  <2>9. inst = Stored(t.inst, iid, fields)
    <3>1. t.inst = [i \in DOMAIN t.inst |-> t.inst[i]]
      BY <2>3 DEF InstancesOK
    <3>2. DOMAIN t.inst \cup {iid} = DOMAIN t.inst
      BY <1>2
    <3> HIDE DEF fields
    <3> QED BY <3>1, <3>2 DEF Stored
  <2>10. \A r \in DOMAIN Fields(o) :
           fields[r] = IF r = rid THEN Narrow(field, v) ELSE t.inst[iid][r]
    BY <2>6
  <2> HIDE DEF fields
  <2>11. /\ InstancesOK(o, inst) /\ DOMAIN inst = DOMAIN t.inst /\ inst[iid] = fields
         /\ \A i \in DOMAIN t.inst : i # iid => inst[i] = t.inst[i]
    BY <1>2, <2>3, <2>5, <2>8, <2>9, StoredOK
  <2> HIDE DEF inst
  <2>12. new.inst = inst /\ new.next = t.next /\ TableOK(o, new)
    BY <2>3, <2>4, <2>11 DEF TableOK
  <2> HIDE DEF new, w
  <2> QED BY <1>2, <2>2, <2>10, <2>11, <2>12 DEF w, field
<1> QED BY <1>1, <1>2

(* The types the objects give to their resources. *)
LEMMA ObjectTypes ==
    ASSUME NEW o, NEW rid
    PROVE  object_type(o, rid) \in {"Boolean", "Integer", "String", "Opaque"}
BY DEF object_type, ServerType, SecurityType, ConnectivityType

(* A type that fits a field is the one its object gives to the resource. *)
LEMMA FieldsTyped ==
    ASSUME NEW o \in Tables, NEW rid \in DOMAIN Fields(o)
    PROVE  object_type(o, rid) = FieldType(Fields(o)[rid])
<1>1. CASE o = Server
  <2>1. object_type(o, rid) = ServerType(rid) /\ Fields(o) = ServerFields
    BY <1>1 DEF object_type, Fields, Security, Server, Connectivity
  <2>2. rid \in {0, 1, 2, 3, 5, 6, 7}
    BY <2>1 DEF ServerFields
  <2>3. CASE rid = 0
    BY <2>1, <2>3 DEF ServerType, ServerFields, FieldType
  <2>4. CASE rid = 1
    BY <2>1, <2>4 DEF ServerType, ServerFields, FieldType
  <2>5. CASE rid = 2
    BY <2>1, <2>5 DEF ServerType, ServerFields, FieldType
  <2>6. CASE rid = 3
    BY <2>1, <2>6 DEF ServerType, ServerFields, FieldType
  <2>7. CASE rid = 5
    BY <2>1, <2>7 DEF ServerType, ServerFields, FieldType
  <2>8. CASE rid = 6
    BY <2>1, <2>8 DEF ServerType, ServerFields, FieldType
  <2>9. CASE rid = 7
    BY <2>1, <2>9 DEF ServerType, ServerFields, FieldType
  <2> QED BY <2>2, <2>3, <2>4, <2>5, <2>6, <2>7, <2>8, <2>9
<1>2. CASE o = Security
  <2>1. object_type(o, rid) = SecurityType(rid) /\ Fields(o) = SecurityFields
    BY <1>2 DEF object_type, Fields, Security, Server, Connectivity
  <2>2. rid \in {0, 1, 2, 3, 4, 5, 10, 11, 12}
    BY <2>1 DEF SecurityFields
  <2>3. CASE rid \in {0, 1, 2}
    BY <2>1, <2>3 DEF SecurityType, SecurityFields, FieldType
  <2>4. CASE rid \in {3, 4, 5}
    BY <2>1, <2>4 DEF SecurityType, SecurityFields, FieldType
  <2>5. CASE rid = 10
    BY <2>1, <2>5 DEF SecurityType, SecurityFields, FieldType
  <2>6. CASE rid = 11
    BY <2>1, <2>6 DEF SecurityType, SecurityFields, FieldType
  <2>7. CASE rid = 12
    BY <2>1, <2>7 DEF SecurityType, SecurityFields, FieldType
  <2> QED BY <2>2, <2>3, <2>4, <2>5, <2>6, <2>7
<1> QED BY <1>1, <1>2 DEF Tables

-----------------------------------------------------------------------------
(* Device, Connectivity and Location. *)

(* What an object holds is what it may hold. *)
HeldOK(o, st) == \A rid \in DOMAIN st : Holdable(o, rid, st[rid])

(* A value set keeps it so. *)
LEMMA SetHeld ==
    ASSUME NEW o, NEW st, st = [r \in DOMAIN st |-> st[r]], HeldOK(o, st),
           NEW rid \in DOMAIN st, NEW v, Holdable(o, rid, v)
    PROVE  LET new == [st EXCEPT ![rid] = v]
           IN  /\ DOMAIN new = DOMAIN st /\ new = [r \in DOMAIN new |-> new[r]]
               /\ new[rid] = v /\ \A r \in DOMAIN st : r # rid => new[r] = st[r]
               /\ HeldOK(o, new)
<1> DEFINE new == [st EXCEPT ![rid] = v]
<1>1. /\ DOMAIN new = DOMAIN st /\ new = [r \in DOMAIN new |-> new[r]]
      /\ new[rid] = v /\ \A r \in DOMAIN st : r # rid => new[r] = st[r]
  OBVIOUS
<1> HIDE DEF new
<1>2. HeldOK(o, new)
  <2> SUFFICES ASSUME NEW r \in DOMAIN st PROVE Holdable(o, r, new[r])
    BY <1>1 DEF HeldOK
  <2>1. CASE r = rid
    BY <1>1, <2>1
  <2>2. CASE r # rid
    BY <1>1, <2>2 DEF HeldOK
  <2> QED BY <2>1, <2>2
<1> QED BY <1>1, <1>2 DEF new

(* The list of a multiple resource. *)
LEMMA ListHeld ==
    ASSUME NEW o, NEW rid \in Multiple(o), NEW S, NEW held \in Seq(S),
           \A i \in DOMAIN held : OfType(held[i])
    PROVE  Holdable(o, rid, held)
<1>1. PICK n \in Nat : n = Len(held) /\ DOMAIN held = 1 .. n /\ held = [i \in 1 .. n |-> held[i]]
  BY LenProperties
<1>2. held \in [1 .. n -> {held[i] : i \in DOMAIN held}]
  BY <1>1
<1>3. held \in Seq({held[i] : i \in DOMAIN held})
  <2>1. PICK Q : Q = {held[i] : i \in DOMAIN held}
    OBVIOUS
  <2>2. held \in [1 .. n -> Q]
    BY <1>2, <2>1
  <2>3. held \in Seq(Q)
    BY <2>2, SeqDef
  <2> QED BY <2>1, <2>3
<1> QED BY <1>3 DEF Holdable

LEMMA OneHeld ==
    ASSUME NEW o, NEW rid \in Multiple(o), NEW v, OfType(v)
    PROVE  Holdable(o, rid, <<v>>)
<1>1. <<v>> \in Seq({v}) /\ DOMAIN <<v>> = {1} /\ <<v>>[1] = v
  OBVIOUS
<1>2. \A i \in DOMAIN <<v>> : OfType(<<v>>[i])
  BY <1>1
<1> QED BY <1>1, <1>2, ListHeld

LEMMA NoErrorOK == OfType(NoError)
<1>1. 0 \in Int /\ 0 \div 65536 >= -65536 /\ 0 \div 65536 <= 65536
  BY SMT
<1>2. PICK n \in Int : n = 0 /\ n \div 65536 >= -65536 /\ n \div 65536 <= 65536
  BY <1>1
<1>3. OfType(Value("Integer", n))
  BY <1>2, NumberOK
<1> QED BY <1>2, <1>3 DEF NoError

(* The error list is never empty, and if its first entry says that there   *)
(* is no error, so do the others.                                          *)
ErrorsOK(list) ==
    /\ Holdable(Device, 11, list)
    /\ list # <<>>
    /\ list[1] = NoError => \A i \in DOMAIN list : list[i] = NoError

DeviceOK(st) ==
    /\ DOMAIN st = (0 .. 21) \ {4, 5, 12}
    /\ st = [rid \in DOMAIN st |-> st[rid]]
    /\ HeldOK(Device, st) /\ ErrorsOK(st[11])

(* A resource other than the error list is set. *)
LEMMA SetDeviceOK ==
    ASSUME NEW st, DeviceOK(st), NEW rid \in DOMAIN st, rid # 11, NEW v,
           Holdable(Device, rid, v)
    PROVE  DeviceOK([st EXCEPT ![rid] = v])
<1>1. DOMAIN st = (0 .. 21) \ {4, 5, 12} /\ ErrorsOK(st[11])
  BY DEF DeviceOK
<1>2. st = [r \in DOMAIN st |-> st[r]] /\ HeldOK(Device, st)
  BY DEF DeviceOK
<1>3. 11 \in DOMAIN st
  BY SMT, <1>1
<1>4. /\ DOMAIN [st EXCEPT ![rid] = v] = DOMAIN st
      /\ HeldOK(Device, [st EXCEPT ![rid] = v])
      /\ [st EXCEPT ![rid] = v] = [r \in DOMAIN [st EXCEPT ![rid] = v] |-> [st EXCEPT ![rid] = v][r]]
  BY <1>2, SetHeld
<1>5. PICK u : /\ u = [st EXCEPT ![rid] = v]
               /\ DOMAIN u = DOMAIN st /\ HeldOK(Device, u)
               /\ u = [r \in DOMAIN u |-> u[r]]
  BY <1>4
<1>6. u[11] = st[11]
  BY <1>2, <1>3, <1>5
<1>7. DeviceOK(u)
  BY <1>1, <1>5, <1>6 DEF DeviceOK
<1> QED BY <1>5, <1>7

LEMMA SetErrorsOK ==
    ASSUME NEW st, DeviceOK(st), NEW list, ErrorsOK(list)
    PROVE  DeviceOK([st EXCEPT ![11] = list])
<1>1. DOMAIN st = (0 .. 21) \ {4, 5, 12}
  BY DEF DeviceOK
<1>2. st = [r \in DOMAIN st |-> st[r]] /\ HeldOK(Device, st)
  BY DEF DeviceOK
<1>3. PICK rid \in DOMAIN st : rid = 11
  BY SMT, <1>1
<1>4. Holdable(Device, rid, list)
  BY <1>3 DEF ErrorsOK
<1>5. /\ DOMAIN [st EXCEPT ![rid] = list] = DOMAIN st
      /\ HeldOK(Device, [st EXCEPT ![rid] = list])
      /\ [st EXCEPT ![rid] = list]
           = [r \in DOMAIN [st EXCEPT ![rid] = list] |-> [st EXCEPT ![rid] = list][r]]
  BY <1>2, <1>4, SetHeld
<1>6. PICK u : /\ u = [st EXCEPT ![rid] = list]
               /\ DOMAIN u = DOMAIN st /\ HeldOK(Device, u)
               /\ u = [r \in DOMAIN u |-> u[r]]
  BY <1>5
<1>7. u[rid] = list
  BY <1>2, <1>6
<1>8. DeviceOK(u)
  BY <1>1, <1>3, <1>6, <1>7 DEF DeviceOK
<1> QED BY <1>3, <1>6, <1>8

LEMMA OneErrorOK == \A code : OfType(code) => ErrorsOK(<<code>>)
<1> SUFFICES ASSUME NEW code, OfType(code) PROVE ErrorsOK(<<code>>)
  OBVIOUS
<1>1. <<code>> # <<>> /\ <<code>>[1] = code
  OBVIOUS
<1>2. DOMAIN <<code>> = {1}
  OBVIOUS
<1>3. \A i \in DOMAIN <<code>> : <<code>>[i] = code
  BY <1>1, <1>2
<1>4. Holdable(Device, 11, <<code>>)
  BY OneHeld DEF Multiple
<1> QED BY <1>1, <1>3, <1>4 DEF ErrorsOK

LEMMA ClearErrorsOK ==
    ASSUME NEW st, DeviceOK(st)
    PROVE  DeviceOK(clear_error_codes(st))
<1> USE DEF clear_error_codes
<1> QED BY OneErrorOK, NoErrorOK, SetErrorsOK

(* add_error_code replaces a list that starts with NoError by the error. *)
LEMMA AddErrorOK ==
    ASSUME NEW st, DeviceOK(st), NEW code, OfType(code)
    PROVE  DeviceOK(add_error_code(st, code))
<1> DEFINE list == st[11]
           new  == IF code # NoError /\ list # <<>> /\ list[1] = NoError THEN <<code>>
                   ELSE Append(list, code)
<1>1. ErrorsOK(list) /\ DOMAIN st = (0 .. 21) \ {4, 5, 12}
  BY DEF DeviceOK
<1>2. add_error_code(st, code) = [st EXCEPT ![11] = new]
  BY <1>1 DEF add_error_code
<1>3. ErrorsOK(new)
  <2>1. CASE code # NoError /\ list # <<>> /\ list[1] = NoError
    BY <2>1, OneErrorOK
  <2>2. CASE ~(code # NoError /\ list # <<>> /\ list[1] = NoError)
    <3> HIDE DEF list
    <3>1. new = Append(list, code)
      BY <2>2
    <3>2. PICK S : list \in Seq(S) /\ \A i \in DOMAIN list : OfType(list[i])
      BY <1>1 DEF ErrorsOK, Holdable, Multiple
    <3>3. list \in Seq(S \cup {code}) /\ code \in S \cup {code}
      BY <3>2, SeqMonotonic
    <3>4. Len(list) \in Nat /\ Len(list) # 0 /\ DOMAIN list = 1 .. Len(list)
      BY <1>1, <3>2, EmptySeq, LenProperties DEF ErrorsOK
    <3> DEFINE l == Append(list, code)
    <3>5. /\ l \in Seq(S \cup {code}) /\ Len(l) = Len(list) + 1
          /\ \A i \in 1 .. Len(list) : l[i] = list[i]
          /\ l[Len(list) + 1] = code
      BY <3>3, AppendProperties
    <3>6. l # <<>> /\ DOMAIN l = 1 .. Len(list) + 1
      BY <3>4, <3>5, EmptySeq, LenProperties
    <3> HIDE DEF l
    <3>7. l[1] = list[1]
      BY <3>4, <3>5
    <3>8. ASSUME l[1] = NoError, NEW i \in DOMAIN l PROVE l[i] = NoError
      <4>1. list[1] = NoError /\ list # <<>> /\ code = NoError
        BY <1>1, <2>2, <3>7, <3>8 DEF ErrorsOK
      <4>2. CASE i = Len(list) + 1
        BY <3>5, <4>1, <4>2
      <4>3. CASE i # Len(list) + 1
        <5>1. i \in 1 .. Len(list)
          BY <3>4, <3>6, <4>3
        <5> QED BY <1>1, <3>4, <3>5, <4>1, <5>1 DEF ErrorsOK
      <4> QED BY <4>2, <4>3
    <3>9. \A i \in DOMAIN l : OfType(l[i])
      <4> SUFFICES ASSUME NEW i \in DOMAIN l PROVE OfType(l[i])
        OBVIOUS
      <4>1. CASE i = Len(list) + 1
        BY <3>5, <4>1
      <4>2. CASE i # Len(list) + 1
        <5>1. i \in 1 .. Len(list)
          BY <3>4, <3>6, <4>2
        <5> QED BY <3>2, <3>4, <3>5, <5>1
      <4> QED BY <4>1, <4>2
    <3>10. Holdable(Device, 11, l)
      BY <3>5, <3>9, ListHeld DEF Multiple
    <3> QED BY <3>1, <3>6, <3>8, <3>10 DEF ErrorsOK, l
  <2> QED BY <2>1, <2>2
<1>4. PICK l : l = new /\ ErrorsOK(l)
  BY <1>3
<1>5. DeviceOK([st EXCEPT ![11] = l])
  BY <1>4, SetErrorsOK
<1> HIDE DEF new
<1> QED BY <1>2, <1>4, <1>5

ConnectivityOK(st) ==
    /\ DOMAIN st = 0 .. 10
    /\ st = [rid \in DOMAIN st |-> st[rid]]
    /\ HeldOK(Connectivity, st)

(* The percentages are not multiple. *)
LEMMA SetConnectivityOK ==
    ASSUME NEW st, ConnectivityOK(st), NEW rid \in 0 .. 7, NEW v, Holdable(Connectivity, rid, v)
    PROVE  ConnectivityOK(set_connectivity(st, rid, v))
<1>1. PICK new : new = IF rid \in {3, 6} /\ Datum(v) > 100 THEN Value("Integer", 100) ELSE v
  OBVIOUS
<1>2. set_connectivity(st, rid, v) = [st EXCEPT ![rid] = new]
  BY <1>1 DEF set_connectivity
<1>3. DOMAIN st = 0 .. 10 /\ st = [r \in DOMAIN st |-> st[r]] /\ HeldOK(Connectivity, st)
  BY DEF ConnectivityOK
<1>4. rid \in DOMAIN st
  BY SMT, <1>3
<1>5. Holdable(Connectivity, rid, new)
  <2>1. CASE new = v
    BY <2>1
  <2>2. CASE rid \in {3, 6} /\ new = Value("Integer", 100)
    <3>1. OfType(new)
      <4>1. PICK n \in Int : n = 100 /\ n \div 65536 >= -65536 /\ n \div 65536 <= 65536
        BY SMT
      <4> QED BY <2>2, <4>1, NumberOK
    <3>2. rid \notin Multiple(Connectivity)
      BY SMT, <2>2 DEF Multiple, Device, Connectivity
    <3> QED BY <3>1, <3>2 DEF Holdable
  <2> QED BY <1>1, <2>1, <2>2
<1>6. /\ DOMAIN [st EXCEPT ![rid] = new] = DOMAIN st
      /\ HeldOK(Connectivity, [st EXCEPT ![rid] = new])
      /\ [st EXCEPT ![rid] = new] = [r \in DOMAIN [st EXCEPT ![rid] = new] |-> [st EXCEPT ![rid] = new][r]]
  BY <1>3, <1>4, <1>5, SetHeld
<1> QED BY <1>2, <1>3, <1>6 DEF ConnectivityOK

(* A position is kept only with its validity. *)
LocationOK(st) == st = [fix |-> st.fix, has |-> st.has] /\ (st.has => st.fix.valid)

LEMMA TakeFixOK ==
    ASSUME NEW st, LocationOK(st), NEW fix
    PROVE  LocationOK(TakeFix(st, fix))
<1>1. CASE fix = NoFix
  BY <1>1 DEF TakeFix
<1>2. CASE fix # NoFix
  <2>1. TakeFix(st, fix) = [fix |-> fix, has |-> fix.valid]
    BY <1>2 DEF TakeFix
  <2> QED BY <2>1 DEF LocationOK
<1> QED BY <1>1, <1>2

-----------------------------------------------------------------------------
(* Sequences that enumerate a set. *)

(* items has each element of H once. *)
Enumerates(items, H) ==
    /\ items \in Seq(H)
    /\ \A h \in H : \E i \in 1 .. Len(items) : items[i] = h
    /\ \A i, j \in 1 .. Len(items) : items[i] = items[j] => i = j

LEMMA Counted ==
    ASSUME NEW H, NEW items, Enumerates(items, H)
    PROVE  Len(items) \in Nat /\ IsFiniteSet(H) /\ Len(items) = Cardinality(H)
<1>1. PICK n \in Nat : n = Len(items) /\ items \in [1 .. n -> H]
  BY LenProperties DEF Enumerates
<1>2. /\ \A h \in H : \E i \in 1 .. n : items[i] = h
      /\ \A i, j \in 1 .. n : items[i] = items[j] => i = j
  BY <1>1 DEF Enumerates
<1>3. items \in Bijection(1 .. n, H)
  BY <1>1, <1>2, Fun_IsBij
<1>4. IsFiniteSet(1 .. n) /\ Cardinality(1 .. n) = n
  <2>1. 1 \in Int /\ n \in Int /\ (IF 1 > n THEN 0 ELSE n - 1 + 1) = n
    BY <1>1
  <2> QED BY <2>1, FS_Interval
<1>5. ExistsBijection(1 .. n, H)
  BY <1>3 DEF ExistsBijection
<1> QED BY <1>1, <1>4, <1>5, FS_Bijection

LEMMA SetToSeqOK ==
    ASSUME NEW S, IsFiniteSet(S)
    PROVE  Enumerates(SetToSeq(S), S)
<1>1. PICK n \in Nat : n = Cardinality(S) /\ Bijection(1 .. n, S) # {}
  BY FS_CardinalityType DEF ExistsBijection
<1>2. PICK f : f \in Bijection(1 .. n, S)
  BY <1>1
<1>3. f \in [1 .. n -> S] /\ IsInjective(f)
  BY <1>2, Fun_BijectionProperties DEF Injection
<1>4. PICK s : s = SetToSeq(S)
  OBVIOUS
<1>5. s \in [1 .. n -> S] /\ IsInjective(s)
  BY <1>1, <1>3, <1>4 DEF SetToSeq
<1>6. s \in Injection(1 .. n, S)
  BY <1>5 DEF Injection
<1>7. IsFiniteSet(1 .. n) /\ Cardinality(1 .. n) = n
  <2>1. 1 \in Int /\ n \in Int /\ (IF 1 > n THEN 0 ELSE n - 1 + 1) = n
    BY <1>1
  <2> QED BY <2>1, FS_Interval
<1>8. s \in Surjection(1 .. n, S)
  BY <1>1, <1>6, <1>7, FS_Injection
<1>9. s \in Seq(S) /\ DOMAIN s = 1 .. n
  BY <1>5, SeqDef
<1>10. Len(s) = n
  BY <1>9, LenProperties, SameBound
<1>11. \A h \in S : \E i \in 1 .. n : s[i] = h
  BY <1>8, Fun_SurjectionProperties
<1>12. \A i, j \in 1 .. n : s[i] = s[j] => i = j
  BY <1>5 DEF IsInjective
<1> QED BY <1>4, <1>9, <1>10, <1>11, <1>12 DEF Enumerates

-----------------------------------------------------------------------------
(* What list_resources names. *)

(* A field of an instance is read as a ResourceValue. *)
LEMMA FieldValueOK ==
    ASSUME NEW field \in Kinds, NEW v, InWidth(field, v)
    PROVE  OfType(Value(FieldType(field), v))
<1>1. ASSUME NEW n \in Nat, n \div 65536 <= 65536 PROVE OfType(Value("Integer", n))
  <2>1. n \in Int /\ n \div 65536 >= -65536
    BY SMT
  <2> QED BY <1>1, <2>1, NumberOK
<1>2. CASE field = "u8"
  <2>1. v \in Byte /\ FieldType(field) = "Integer"
    BY <1>2 DEF InWidth, FieldType
  <2>2. PICK n \in Nat : n = v /\ n <= 255
    BY <2>1, Ranges
  <2>3. n \div 65536 <= 65536
    BY SMT, <2>2
  <2> QED BY <1>1, <2>1, <2>2, <2>3
<1>3. CASE field = "u16"
  <2>1. v \in U16 /\ FieldType(field) = "Integer"
    BY <1>3 DEF InWidth, FieldType
  <2>2. PICK n \in Nat : n = v /\ n <= 65535
    BY <2>1, Ranges
  <2>3. n \div 65536 <= 65536
    BY SMT, <2>2
  <2> QED BY <1>1, <2>1, <2>2, <2>3
<1>4. CASE field = "u32"
  <2>1. v \in 0 .. Mod32 - 1 /\ FieldType(field) = "Integer"
    BY <1>4 DEF InWidth, FieldType
  <2>2. PICK n \in Nat, m \in Nat : n = v /\ m = Mod32 /\ n < m /\ m \div 65536 <= 65536
    BY <2>1, Mod32Assumption
  <2>3. n \div 65536 <= 65536
    BY SMT, <2>2
  <2> QED BY <1>1, <2>1, <2>2, <2>3
<1>5. CASE field = "bool"
  <2>1. v \in BOOLEAN /\ FieldType(field) = "Boolean"
    BY <1>5 DEF InWidth, FieldType
  <2> QED BY <2>1, BytesOfType
<1>6. CASE field \in {"string", "bytes"}
  <2>1. v \in Seq(Byte) /\ FieldType(field) \in {"String", "Opaque"}
    BY <1>6 DEF InWidth, FieldType
  <2> QED BY <2>1, BytesOfType
<1> QED BY <1>2, <1>3, <1>4, <1>5, <1>6 DEF Kinds

(* The lists of list_resources name each resource once, and every one that *)
(* has a value.                                                            *)
LEMMA ListEach ==
    ASSUME NEW o \in Objects
    PROVE  \A i, j \in 1 .. Len(list_resources(o)) :
             list_resources(o)[i] = list_resources(o)[j] => i = j
<1>0. ASSUME NEW n \in Nat, NEW s, s = [i \in 1 .. n |-> i - 1], list_resources(o) = s
      PROVE  \A i, j \in 1 .. Len(list_resources(o)) :
               list_resources(o)[i] = list_resources(o)[j] => i = j
  <2>1. Len(s) = n
    <3>1. s \in [1 .. n -> Int]
      BY <1>0
    <3>2. s \in Seq(Int) /\ DOMAIN s = 1 .. n
      BY <3>1, SeqDef
    <3> QED BY <3>2, LenProperties, SameBound
  <2> QED BY <1>0, <2>1
<1>1. CASE o = Security
  <2>1. list_resources(o) = SecurityResources
    BY <1>1 DEF list_resources, Security, Server, Device, Connectivity, Location
  <2>2. PICK s : s = SecurityResources
    OBVIOUS
  <2>3. /\ Len(s) = 9 /\ s[1] = 0 /\ s[2] = 1 /\ s[3] = 2 /\ s[4] = 3 /\ s[5] = 4
        /\ s[6] = 5 /\ s[7] = 10 /\ s[8] = 11 /\ s[9] = 12
    BY SMT, <2>2 DEF SecurityResources
  <2>4. \A i \in 1 .. 9 : s[i] = IF i <= 6 THEN i - 1 ELSE i + 3
    BY SMT, <2>3
  <2>5. \A i, j \in 1 .. 9 : s[i] = s[j] => i = j
    BY SMT, <2>4
  <2> QED BY <2>1, <2>2, <2>3, <2>5
<1>2. CASE o = Server
  <2>1. list_resources(o) = ServerResources
    BY <1>2 DEF list_resources, Security, Server, Device, Connectivity, Location
  <2> QED BY <1>0, <2>1 DEF ServerResources
<1>3. CASE o = Device
  <2>1. list_resources(o) = DeviceResources
    BY <1>3 DEF list_resources, Security, Server, Device, Connectivity, Location
  <2> QED BY <1>0, <2>1 DEF DeviceResources
<1>4. CASE o = Connectivity
  <2>1. list_resources(o) = ConnectivityResources
    BY <1>4 DEF list_resources, Security, Server, Device, Connectivity, Location
  <2> QED BY <1>0, <2>1 DEF ConnectivityResources
<1>5. CASE o = Location
  <2>1. list_resources(o) = LocationResources
    BY <1>5 DEF list_resources, Security, Server, Device, Connectivity, Location
  <2>2. PICK s : s = LocationResources
    OBVIOUS
  <2>3. Len(s) = 6 /\ s[1] = 0 /\ s[2] = 1 /\ s[3] = 2 /\ s[4] = 3 /\ s[5] = 5 /\ s[6] = 6
    BY SMT, <2>2 DEF LocationResources
  <2>4. \A i, j \in 1 .. 6 : s[i] = s[j] => i = j
    BY SMT, <2>3
  <2> QED BY <2>1, <2>2, <2>3, <2>4
<1> QED BY <1>1, <1>2, <1>3, <1>4, <1>5 DEF Objects

Listed(o, rid) == \E k \in 1 .. Len(list_resources(o)) : list_resources(o)[k] = rid

LEMMA ListAll ==
    /\ \A o \in Tables : \A rid \in DOMAIN Fields(o) : Listed(o, rid)
    /\ \A rid \in (0 .. 21) \ {4, 5, 12} : Listed(Device, rid)
    /\ \A rid \in 0 .. 10 : Listed(Connectivity, rid)
<1>0. ASSUME NEW o, NEW n \in Nat, NEW s, s = [i \in 1 .. n |-> i - 1], list_resources(o) = s,
             NEW rid \in 0 .. n - 1
      PROVE  Listed(o, rid)
  <2>1. Len(s) = n
    <3>1. s \in [1 .. n -> Int]
      BY <1>0
    <3>2. s \in Seq(Int) /\ DOMAIN s = 1 .. n
      BY <3>1, SeqDef
    <3> QED BY <3>2, LenProperties, SameBound
  <2>2. rid + 1 \in 1 .. n /\ (rid + 1) - 1 = rid
    OBVIOUS
  <2>3. s[rid + 1] = rid
    BY <1>0, <2>2
  <2> QED BY <1>0, <2>1, <2>2, <2>3 DEF Listed
<1>1. ASSUME NEW rid \in DOMAIN Fields(Security) PROVE Listed(Security, rid)
  <2>1. list_resources(Security) = SecurityResources
    BY DEF list_resources, Security, Server, Device, Connectivity, Location
  <2>2. PICK s : s = SecurityResources
    OBVIOUS
  <2>3. /\ Len(s) = 9 /\ s[1] = 0 /\ s[2] = 1 /\ s[3] = 2 /\ s[4] = 3 /\ s[5] = 4
        /\ s[6] = 5 /\ s[7] = 10 /\ s[8] = 11 /\ s[9] = 12
    BY SMT, <2>2 DEF SecurityResources
  <2>4. rid \in {0, 1, 2, 3, 4, 5, 10, 11, 12}
    BY DEF Fields, SecurityFields, Security, Server
  <2>5. \E k \in 1 .. 9 : s[k] = rid
    BY SMT, <2>3, <2>4
  <2> QED BY <2>1, <2>2, <2>3, <2>5 DEF Listed
<1>2. ASSUME NEW rid \in DOMAIN Fields(Server) PROVE Listed(Server, rid)
  <2>1. list_resources(Server) = ServerResources
    BY DEF list_resources, Security, Server, Device, Connectivity, Location
  <2>2. PICK n \in Nat : n = 9
    OBVIOUS
  <2>3. rid \in 0 .. n - 1
    BY SMT, <2>2 DEF Fields, ServerFields, Server
  <2>4. ServerResources = [i \in 1 .. n |-> i - 1]
    BY <2>2 DEF ServerResources
  <2> QED BY <1>0, <2>1, <2>3, <2>4
<1>3. ASSUME NEW rid \in (0 .. 21) \ {4, 5, 12} PROVE Listed(Device, rid)
  <2>1. list_resources(Device) = DeviceResources
    BY DEF list_resources, Security, Server, Device, Connectivity, Location
  <2>2. PICK n \in Nat : n = 22
    OBVIOUS
  <2>3. rid \in 0 .. n - 1
    BY SMT, <2>2
  <2>4. DeviceResources = [i \in 1 .. n |-> i - 1]
    BY <2>2 DEF DeviceResources
  <2> QED BY <1>0, <2>1, <2>3, <2>4
<1>4. ASSUME NEW rid \in 0 .. 10 PROVE Listed(Connectivity, rid)
  <2>1. list_resources(Connectivity) = ConnectivityResources
    BY DEF list_resources, Security, Server, Device, Connectivity, Location
  <2>2. PICK n \in Nat : n = 11
    OBVIOUS
  <2>3. rid \in 0 .. n - 1
    BY SMT, <2>2
  <2>4. ConnectivityResources = [i \in 1 .. n |-> i - 1]
    BY <2>2 DEF ConnectivityResources
  <2> QED BY <1>0, <2>1, <2>3, <2>4
<1> QED BY <1>1, <1>2, <1>3, <1>4 DEF Tables

-----------------------------------------------------------------------------
(* Requests. *)

(* The state of an object is one the handlers can work with; a position is *)
(* one the provider has given.                                             *)
FixOK(st) == st.has => st.fix \in GpsAnswers

StateOK(o, st) ==
    /\ o \in Tables  => TableOK(o, st)
    /\ o = Device    => DeviceOK(st)
    /\ o = Connectivity => ConnectivityOK(st)
    /\ o = Location  => LocationOK(st) /\ FixOK(st)

(* The answers of the provider for the first n resources read. *)
Provided(o, fixes, n) == o = Location => \A k \in 1 .. n : fixes[k] \in GpsAnswers

LEMMA MovesOK ==
    ASSUME NEW st, StateOK(Location, st), NEW fix \in GpsAnswers
    PROVE  StateOK(Location, TakeFix(st, fix))
<1>1. LocationOK(st) /\ FixOK(st)
  BY DEF StateOK
<1>2. LocationOK(TakeFix(st, fix))
  BY <1>1, TakeFixOK
<1>3. FixOK(TakeFix(st, fix))
  BY <1>1 DEF TakeFix, FixOK
<1>4. Location \notin Tables /\ Location # Device /\ Location # Connectivity
  BY DEF Tables, Security, Server, Location, Device, Connectivity
<1> QED BY <1>2, <1>3, <1>4 DEF StateOK

(* The ids in use are below next_instance_id_. *)
Fresh(t) == \A iid \in DOMAIN t.inst : iid < t.next

Kept(old, new, iid) == iid \in DOMAIN new.inst /\ new.inst[iid] = old.inst[iid]

(* What an operation that names the instances Named may do to an object.   *)
EffectOK(o, old, new, Named) ==
    /\ StateOK(o, new)
    /\ o \in Tables =>
         /\ \A iid \in DOMAIN old.inst : Kept(old, new, iid) \/ iid \in Named
         /\ Fresh(old) /\ MaxU16 \notin DOMAIN new.inst => Fresh(new)

(* Nothing at all is allowed. *)
LEMMA NoEffect ==
    ASSUME NEW o, NEW st, StateOK(o, st), NEW Named
    PROVE  EffectOK(o, st, st, Named)
BY DEF EffectOK, Kept

(* Only one of the objects is of each kind. *)
LEMMA Kind ==
    /\ Device \notin Tables /\ Location \notin Tables /\ Connectivity \notin Tables
    /\ Device # Location /\ Connectivity # Location /\ Connectivity # Device
    /\ Server # Security /\ Server \in Tables /\ Security \in Tables
    /\ Objects = Tables \cup {Device, Connectivity, Location}
BY DEF Tables, Objects, Server, Security, Device, Connectivity, Location

(* The names of the parts of a result. *)
LEMMA Parts ==
    /\ \A r, s : Done(r, s).res = r /\ Done(r, s).st = s
    /\ \A v : Ok(v).ok = TRUE /\ Ok(v).value = v
    /\ \A e : Err(e).ok = FALSE /\ Err(e).error = e
    /\ \A e, v : Ok(v) # Err(e)
BY DEF Done, Ok, Err

-----------------------------------------------------------------------------
(* The operations of the objects, for any object. *)

Errors == {"NotFound", "MethodNotAllowed", "BadRequest"}
ResultOK(res) == (\E v : res = Ok(v)) \/ \E e \in Errors : res = Err(e)

(* An operation that returns a result and the new state of its object: it  *)
(* changes nothing if it fails.                                            *)
ActOK(o, old, done, Named) ==
    /\ EffectOK(o, old, done.st, Named) /\ ResultOK(done.res)
    /\ ~done.res.ok => done.st = old

LEMMA NoAct ==
    ASSUME NEW o, NEW st, StateOK(o, st), NEW Named, NEW res, ResultOK(res)
    PROVE  ActOK(o, st, Done(res, st), Named)
BY NoEffect, Parts DEF ActOK

LEMMA ResultsOK == ResultOK(Ok(<<>>)) /\ \A e \in Errors : ResultOK(Err(e))
BY DEF ResultOK

(* Creating. *)
LEMMA CreateEffect ==
    ASSUME NEW o \in Tables, NEW t, StateOK(o, t), NEW suggested \in U16 \cup {NoId}
    PROVE  LET c == create_instance(o, t, suggested)
           IN  /\ EffectOK(o, t, c.st, {}) /\ ResultOK(c.res)
               /\ ~c.res.ok => c.st = t
               /\ suggested = NoId /\ Fresh(t) =>
                    /\ c.res.ok
                    /\ \E iid \in DOMAIN c.st.inst \ DOMAIN t.inst :
                         c.st.inst = Store(t, iid, Blank(o)).inst
<1> DEFINE c == create_instance(o, t, suggested)
<1>1. TableOK(o, t) /\ t.next \in U16 /\ InstancesOK(o, t.inst)
  BY DEF StateOK, TableOK
<1>2. PICK iid \in U16 :
        /\ suggested = NoId => iid = t.next
        /\ \/ iid \in DOMAIN t.inst /\ c = Done(Err("BadRequest"), t)
           \/ /\ iid \notin DOMAIN t.inst
              /\ c = Done(Ok(iid), Created(o, t, iid))
              /\ TableOK(o, Created(o, t, iid))
  BY <1>1, CreateOK
<1> HIDE DEF c
<1>3. CASE iid \in DOMAIN t.inst /\ c = Done(Err("BadRequest"), t)
  <2>1. c.st = t /\ c.res = Err("BadRequest")
    BY <1>3, Parts
  <2>2. ResultOK(c.res)
    BY <2>1 DEF ResultOK, Errors
  <2>3. EffectOK(o, t, c.st, {})
    BY <2>1, NoEffect
  <2>4. ~(suggested = NoId /\ Fresh(t))
    <3>1. t.next \in Nat
      BY <1>1, Ranges
    <3> QED BY <1>2, <1>3, <3>1 DEF Fresh
  <2> QED BY <2>1, <2>2, <2>3, <2>4 DEF c
<1>4. CASE /\ iid \notin DOMAIN t.inst
           /\ c = Done(Ok(iid), Created(o, t, iid))
           /\ TableOK(o, Created(o, t, iid))
  <2> DEFINE new == Created(o, t, iid)
  <2>1. c.st = new /\ c.res = Ok(iid) /\ c.res.ok
    BY <1>4, Parts
  <2>2. new.inst = Stored(t.inst, iid, Blank(o)) /\ new.next = NextId(t, iid)
    BY DEF Created
  <2> HIDE DEF new
  <2>3. /\ DOMAIN new.inst = DOMAIN t.inst \cup {iid}
        /\ \A i \in DOMAIN t.inst : i # iid => new.inst[i] = t.inst[i]
    <3>1. PICK b : b = Blank(o) /\ InstanceOK(o, b)
      BY BlankOK
    <3>2. new.inst = Stored(t.inst, iid, b)
      BY <2>2, <3>1
    <3> QED BY <1>1, <3>1, <3>2, StoredOK
  <2>4. \A i \in DOMAIN t.inst : Kept(t, new, i)
    BY <1>4, <2>3 DEF Kept
  <2>5. Fresh(t) /\ MaxU16 \notin DOMAIN new.inst => Fresh(new)
    <3> SUFFICES ASSUME Fresh(t), iid # MaxU16, NEW i \in DOMAIN new.inst
                 PROVE  i < new.next
      BY <2>3 DEF Fresh
    <3>1. new.next > iid /\ new.next >= t.next
      BY <1>1, <2>2, NextIdOK
    <3>2. new.next \in Nat /\ t.next \in Nat /\ iid \in Nat
      BY <1>1, <2>2, NextIdOK, Ranges
    <3>3. CASE i = iid
      BY <3>1, <3>2, <3>3
    <3>4. CASE i \in DOMAIN t.inst
      <4>1. i < t.next /\ i \in Nat
        BY <1>1, <3>4, Ranges DEF Fresh, InstancesOK
      <4> QED BY <3>1, <3>2, <4>1
    <3> QED BY <2>3, <3>3, <3>4
  <2>6. StateOK(o, new)
    BY <1>4, Kind DEF StateOK, new
  <2>7. EffectOK(o, t, new, {})
    BY <2>4, <2>5, <2>6 DEF EffectOK
  <2>8. new.inst = Store(t, iid, Blank(o)).inst
    <3>1. Store(t, iid, Blank(o)) = [inst |-> Stored(t.inst, iid, Blank(o)), next |-> t.next]
      BY <1>1, BlankOK, StoreOK
    <3> QED BY <2>2, <3>1
  <2>9. ResultOK(c.res)
    BY <2>1 DEF ResultOK
  <2> QED BY <1>4, <2>1, <2>3, <2>7, <2>8, <2>9 DEF c
<1> QED BY <1>2, <1>3, <1>4

LEMMA AddEffect ==
    ASSUME NEW o \in Tables, NEW t, StateOK(o, t), NEW config, InstanceOK(o, config)
    PROVE  EffectOK(o, t, add_server(o, t, config).st, {})
<1> DEFINE new == add_server(o, t, config).st
<1>1. TableOK(o, t) /\ t.next \in U16 /\ InstancesOK(o, t.inst)
  BY DEF StateOK, TableOK
<1>2. PICK iid \in U16 :
        /\ iid = t.next
        /\ \/ iid \in DOMAIN t.inst /\ new = t
           \/ /\ iid \notin DOMAIN t.inst /\ new = Added(t, iid, config)
              /\ TableOK(o, Added(t, iid, config))
  BY <1>1, AddOK
<1> HIDE DEF new
<1>3. CASE new = t
  BY <1>3, NoEffect DEF new
<1>4. CASE /\ iid \notin DOMAIN t.inst /\ new = Added(t, iid, config)
           /\ TableOK(o, Added(t, iid, config))
  <2>2. new.inst = Stored(t.inst, iid, config) /\ new.next = NextId(t, iid)
    BY <1>4 DEF Added
  <2>3. /\ DOMAIN new.inst = DOMAIN t.inst \cup {iid}
        /\ \A i \in DOMAIN t.inst : i # iid => new.inst[i] = t.inst[i]
    BY <1>1, <2>2, StoredOK
  <2>4. \A i \in DOMAIN t.inst : Kept(t, new, i)
    BY <1>4, <2>3 DEF Kept
  <2>5. Fresh(t) /\ MaxU16 \notin DOMAIN new.inst => Fresh(new)
    <3> SUFFICES ASSUME Fresh(t), iid # MaxU16, NEW i \in DOMAIN new.inst
                 PROVE  i < new.next
      BY <2>3 DEF Fresh
    <3>1. new.next > iid /\ new.next >= t.next
      BY <1>1, <2>2, NextIdOK
    <3>2. new.next \in Nat /\ t.next \in Nat /\ iid \in Nat
      BY <1>1, <2>2, NextIdOK, Ranges
    <3>3. CASE i = iid
      BY <3>1, <3>2, <3>3
    <3>4. CASE i \in DOMAIN t.inst
      <4>1. i < t.next /\ i \in Nat
        BY <1>1, <3>4, Ranges DEF Fresh, InstancesOK
      <4> QED BY <3>1, <3>2, <4>1
    <3> QED BY <2>3, <3>3, <3>4
  <2>6. StateOK(o, new)
    BY <1>4, Kind DEF StateOK
  <2> QED BY <2>4, <2>5, <2>6 DEF EffectOK, new
<1> QED BY <1>2, <1>3, <1>4

LEMMA DeleteEffect ==
    ASSUME NEW o \in Tables, NEW t, StateOK(o, t), NEW iid
    PROVE  LET d == delete_instance(t, iid)
           IN  EffectOK(o, t, d.st, {iid}) /\ ResultOK(d.res) /\ (~d.res.ok => d.st = t)
<1> DEFINE d == delete_instance(t, iid)
<1>1. TableOK(o, t) /\ InstancesOK(o, t.inst)
  BY DEF StateOK, TableOK
<1>2. \/ iid \notin DOMAIN t.inst /\ d = Done(Err("NotFound"), t)
      \/ /\ iid \in DOMAIN t.inst /\ d.res = Ok(<<>>) /\ TableOK(o, d.st)
         /\ d.st.next = t.next /\ DOMAIN d.st.inst = DOMAIN t.inst \ {iid}
         /\ \A i \in DOMAIN t.inst \ {iid} : d.st.inst[i] = t.inst[i]
  BY <1>1, DeleteOK
<1> HIDE DEF d
<1>3. CASE d = Done(Err("NotFound"), t)
  <2>1. d.st = t /\ d.res = Err("NotFound")
    BY <1>3, Parts
  <2>2. ResultOK(d.res)
    BY <2>1 DEF ResultOK, Errors
  <2> QED BY <2>1, <2>2, NoEffect DEF d
<1>4. CASE /\ iid \in DOMAIN t.inst /\ d.res = Ok(<<>>) /\ TableOK(o, d.st)
           /\ d.st.next = t.next /\ DOMAIN d.st.inst = DOMAIN t.inst \ {iid}
           /\ \A i \in DOMAIN t.inst \ {iid} : d.st.inst[i] = t.inst[i]
  <2>1. StateOK(o, d.st)
    BY <1>4, Kind DEF StateOK
  <2>2. \A i \in DOMAIN t.inst : Kept(t, d.st, i) \/ i \in {iid}
    BY <1>4 DEF Kept
  <2>3. Fresh(t) => Fresh(d.st)
    BY <1>4 DEF Fresh
  <2>4. EffectOK(o, t, d.st, {iid})
    BY <2>1, <2>2, <2>3 DEF EffectOK
  <2>5. ResultOK(d.res) /\ d.res.ok
    BY <1>4, Parts DEF ResultOK
  <2> QED BY <2>4, <2>5 DEF d
<1> QED BY <1>2, <1>3, <1>4

(* What a write to an instance may do: it neither adds nor removes one. *)
WroteOK(o, old, new, iid) ==
    /\ StateOK(o, new)
    /\ o \in Tables => /\ new.next = old.next /\ DOMAIN new.inst = DOMAIN old.inst
                       /\ \A i \in DOMAIN old.inst : i # iid => new.inst[i] = old.inst[i]

WriteOK(o, old, w, iid) ==
    /\ WroteOK(o, old, w.st, iid) /\ ResultOK(w.res)
    /\ ~w.res.ok => w.st = old

LEMMA WroteEffect ==
    ASSUME NEW o, NEW old, NEW new, NEW iid, WroteOK(o, old, new, iid)
    PROVE  EffectOK(o, old, new, {iid})
BY DEF WroteOK, EffectOK, Kept, Fresh

LEMMA WroteTwice ==
    ASSUME NEW o, NEW old, NEW mid, NEW new, NEW iid,
           WroteOK(o, old, mid, iid), WroteOK(o, mid, new, iid)
    PROVE  WroteOK(o, old, new, iid)
BY DEF WroteOK

(* Writing a value of the type the object gives to the resource. *)
LEMMA WriteEffect ==
    ASSUME NEW o \in Objects, NEW st, StateOK(o, st), NEW iid, NEW rid,
           NEW type, NEW v, Reading(type, v)
    PROVE  WriteOK(o, st, write_resource(o, st, iid, rid, Value(type, v)), iid)
<1>0. SUFFICES ASSUME NEW w, w = write_resource(o, st, iid, rid, Value(type, v))
               PROVE  WriteOK(o, st, w, iid)
  OBVIOUS
<1>1. ASSUME NEW e \in Errors, w = Done(Err(e), st) PROVE WriteOK(o, st, w, iid)
  BY <1>1, Parts, ResultsOK DEF WriteOK, WroteOK
<1>2. CASE o \in Tables
  <2>1. w = WriteField(o, st, iid, rid, Value(type, v))
    BY <1>0, <1>2 DEF write_resource, WriteServer, WriteSecurity, Tables, Server, Security, Device, Location
  <2>2. TableOK(o, st)
    BY <1>2 DEF StateOK
  <2>3. \/ w.res \in {Err("NotFound"), Err("BadRequest")} /\ w.st = st
        \/ /\ iid \in DOMAIN st.inst
           /\ w.res = Ok(<<>>) /\ TableOK(o, w.st) /\ w.st.next = st.next
           /\ DOMAIN w.st.inst = DOMAIN st.inst
           /\ \A i \in DOMAIN st.inst : i # iid => w.st.inst[i] = st.inst[i]
    BY <1>2, <2>1, <2>2, WriteFieldOK
  <2>4. CASE w.res \in {Err("NotFound"), Err("BadRequest")} /\ w.st = st
    <3>1. ResultOK(w.res)
      BY <2>4 DEF ResultOK, Errors
    <3> QED BY <2>4, <3>1 DEF WriteOK, WroteOK
  <2>5. CASE /\ iid \in DOMAIN st.inst
             /\ w.res = Ok(<<>>) /\ TableOK(o, w.st) /\ w.st.next = st.next
             /\ DOMAIN w.st.inst = DOMAIN st.inst
             /\ \A i \in DOMAIN st.inst : i # iid => w.st.inst[i] = st.inst[i]
    <3>1. StateOK(o, w.st)
      BY <1>2, <2>5, Kind DEF StateOK
    <3>2. ResultOK(w.res) /\ w.res.ok
      BY <2>5, Parts DEF ResultOK
    <3> QED BY <2>5, <3>1, <3>2 DEF WriteOK, WroteOK
  <2> QED BY <2>3, <2>4, <2>5
<1>3. CASE o = Device
  <2>1. w = WriteDevice(st, iid, rid, Value(type, v))
    BY <1>0, <1>3 DEF write_resource, Server, Security, Device, Location
  <2>2. \/ \E e \in Errors : w = Done(Err(e), st)
        \/ /\ rid \in {14, 15} /\ get_resource_type(Value(type, v)) = "String"
           /\ w = Done(Ok(<<>>), [st EXCEPT ![rid] = Value(type, v)])
    BY <2>1 DEF WriteDevice, Errors
  <2>3. CASE /\ rid \in {14, 15} /\ get_resource_type(Value(type, v)) = "String"
             /\ w = Done(Ok(<<>>), [st EXCEPT ![rid] = Value(type, v)])
    <3> DEFINE new == [st EXCEPT ![rid] = Value(type, v)]
    <3>1. DeviceOK(st) /\ rid # 11
      BY <1>3, <2>3 DEF StateOK
    <3>2. rid \in DOMAIN st
      BY <2>3, <3>1 DEF DeviceOK
    <3>3. Holdable(Device, rid, Value(type, v))
      <4>1. type = "String" /\ v \in Seq(Byte)
        BY <2>3 DEF get_resource_type, Value, Reading
      <4>2. OfType(Value(type, v))
        BY <4>1, BytesOfType
      <4>3. rid \notin Multiple(Device)
        BY <2>3 DEF Multiple
      <4> QED BY <4>2, <4>3 DEF Holdable
    <3>4. DeviceOK(new)
      BY <3>1, <3>2, <3>3, SetDeviceOK
    <3> HIDE DEF new
    <3>5. w.st = new /\ w.res = Ok(<<>>)
      BY <2>3, Parts DEF new
    <3>6. WroteOK(o, st, w.st, iid)
      BY <1>3, <3>4, <3>5, Kind DEF WroteOK, StateOK
    <3> QED BY <3>5, <3>6, Parts, ResultsOK DEF WriteOK
  <2> QED BY <1>1, <2>2, <2>3
<1>4. CASE o \in {Connectivity, Location}
  <2>1. w = Refused(st, iid)
    BY <1>0, <1>4 DEF write_resource, LocationRefused, Server, Security, Device, Location, Connectivity
  <2>2. \E e \in Errors : w = Done(Err(e), st)
    BY <2>1 DEF Refused, Errors
  <2> QED BY <1>1, <2>2
<1> QED BY <1>2, <1>3, <1>4, Kind

LEMMA ExecuteEffect ==
    ASSUME NEW o \in Objects, NEW st, StateOK(o, st), NEW iid, NEW rid
    PROVE  ActOK(o, st, execute_resource(o, st, iid, rid), {})
<1>0. SUFFICES ASSUME NEW x, x = execute_resource(o, st, iid, rid)
               PROVE  ActOK(o, st, x, {})
  OBVIOUS
<1>1. ASSUME NEW res, ResultOK(res), x = Done(res, st) PROVE ActOK(o, st, x, {})
  BY <1>1, NoAct
<1>2. ResultOK(Ok(<<>>)) /\ \A e \in Errors : ResultOK(Err(e))
  BY ResultsOK
<1>3. CASE o = Server
  <2>1. x = ExecuteServer(st, iid, rid)
    BY <1>0, <1>3 DEF execute_resource, Server, Security, Device, Location
  <2>2. x \in {Done(Ok(<<>>), st), Done(Err("NotFound"), st), Done(Err("MethodNotAllowed"), st)}
    BY <2>1 DEF ExecuteServer
  <2> QED BY <1>1, <1>2, <2>2 DEF Errors
<1>4. CASE o = Security
  <2>1. x = Done(Err("MethodNotAllowed"), st)
    BY <1>0, <1>4 DEF execute_resource, Server, Security, Device, Location
  <2> QED BY <1>1, <1>2, <2>1 DEF Errors
<1>5. CASE o \in {Connectivity, Location}
  <2>1. x = Refused(st, iid)
    BY <1>0, <1>5 DEF execute_resource, LocationRefused, Server, Security, Device, Location, Connectivity
  <2>2. \E e \in Errors : x = Done(Err(e), st)
    BY <2>1 DEF Refused, Errors
  <2> QED BY <1>1, <1>2, <2>2
<1>6. CASE o = Device
  <2>1. x = ExecuteDevice(st, iid, rid)
    BY <1>0, <1>6 DEF execute_resource, Server, Security, Device, Location
  <2>2. x \in {Done(Ok(<<>>), st), Done(Err("NotFound"), st), Done(Err("MethodNotAllowed"), st),
               Done(Ok(<<>>), clear_error_codes(st))}
    BY <2>1 DEF ExecuteDevice
  <2>3. CASE x = Done(Ok(<<>>), clear_error_codes(st))
    <3>1. x.st = clear_error_codes(st) /\ x.res = Ok(<<>>) /\ x.res.ok
      BY <2>3, Parts
    <3>2. DeviceOK(x.st)
      BY <1>6, <3>1, ClearErrorsOK DEF StateOK
    <3>3. EffectOK(o, st, x.st, {})
      BY <1>6, <3>2, Kind DEF EffectOK, StateOK
    <3> QED BY <1>2, <3>1, <3>3 DEF ActOK
  <2> QED BY <1>1, <1>2, <2>2, <2>3 DEF Errors
<1> QED BY <1>3, <1>4, <1>5, <1>6 DEF Objects

(* Reading changes nothing but the position. *)
ReadOK(o, old, r) ==
    /\ StateOK(o, r.st) /\ (o # Location => r.st = old)
    /\ (\E v : r.res = Ok(v)) \/ r.res = Err("NotFound")

LEMMA ReadMultiOK ==
    ASSUME NEW list, NEW riid, NEW ifNone, (\E v : ifNone = Ok(v)) \/ ifNone = Err("NotFound")
    PROVE  (\E v : ReadMulti(list, riid, ifNone) = Ok(v)) \/ ReadMulti(list, riid, ifNone) = Err("NotFound")
BY DEF ReadMulti

LEMMA ReadEffect ==
    ASSUME NEW o \in Objects, NEW st, StateOK(o, st), NEW iid, NEW rid, NEW riid,
           NEW fix, o = Location => fix \in GpsAnswers
    PROVE  ReadOK(o, st, read_resource(o, st, iid, rid, riid, fix))
<1>0. SUFFICES ASSUME NEW r, r = read_resource(o, st, iid, rid, riid, fix)
               PROVE  ReadOK(o, st, r)
  OBVIOUS
<1>1. ASSUME NEW res, r = Done(res, st), (\E v : res = Ok(v)) \/ res = Err("NotFound")
      PROVE  ReadOK(o, st, r)
  BY <1>1, Parts DEF ReadOK
<1>2. CASE o \in Tables
  <2>1. r = Done(ReadField(o, st, iid, rid), st)
    <3>1. CASE o = Server
      BY <1>0, <3>1 DEF read_resource, ReadServer, Server, Security, Device, Location, Connectivity
    <3>2. CASE o = Security
      BY <1>0, <3>2 DEF read_resource, ReadSecurity, Server, Security, Device, Location, Connectivity
    <3> QED BY <1>2, <3>1, <3>2 DEF Tables
  <2>2. \/ \E v : ReadField(o, st, iid, rid) = Ok(v)
        \/ ReadField(o, st, iid, rid) = Err("NotFound")
    BY DEF ReadField
  <2> QED BY <1>1, <2>1, <2>2
<1>3. CASE o = Device
  <2>1. r = Done(ReadDevice(st, iid, rid, riid), st)
    BY <1>0, <1>3 DEF read_resource, Server, Security, Device, Location, Connectivity
  <2> DEFINE ifNone == IF rid = 11 THEN Ok(NoError) ELSE Err("NotFound")
             multi == ReadMulti(st[rid], riid, ifNone)
  <2>2. (\E v : multi = Ok(v)) \/ multi = Err("NotFound")
    <3>1. (\E v : ifNone = Ok(v)) \/ ifNone = Err("NotFound")
      OBVIOUS
    <3> HIDE DEF ifNone
    <3> QED BY <3>1, ReadMultiOK
  <2>3. ReadDevice(st, iid, rid, riid) \in {Err("NotFound"), multi, Ok(st[rid])}
    BY DEF ReadDevice
  <2> HIDE DEF multi
  <2> QED BY <1>1, <2>1, <2>2, <2>3
<1>4. CASE o = Connectivity
  <2>1. r = Done(ReadConnectivity(st, iid, rid, riid), st)
    BY <1>0, <1>4 DEF read_resource, Server, Security, Device, Location, Connectivity
  <2> DEFINE multi == ReadMulti(st[rid], riid, Err("NotFound"))
  <2>2. (\E v : multi = Ok(v)) \/ multi = Err("NotFound")
    BY ReadMultiOK
  <2>3. ReadConnectivity(st, iid, rid, riid) \in {Err("NotFound"), multi, Ok(st[rid])}
    BY DEF ReadConnectivity
  <2> HIDE DEF multi
  <2> QED BY <1>1, <2>1, <2>2, <2>3
<1>5. CASE o = Location
  <2>1. r = ReadLocation(st, iid, rid, fix)
    BY <1>0, <1>5 DEF read_resource, Server, Security, Device, Location, Connectivity
  <2>2. PICK now : now = TakeFix(st, fix)
    OBVIOUS
  <2>3. r \in {Done(Err("NotFound"), st), Done(Err("NotFound"), now),
               Done(Ok(Coordinate(now.fix, rid)), now)}
    BY <2>1, <2>2 DEF ReadLocation
  <2>4. StateOK(o, now)
    BY <1>5, <2>2, MovesOK
  <2> QED BY <1>5, <2>3, <2>4, Parts DEF ReadOK
<1> QED BY <1>2, <1>3, <1>4, <1>5 DEF Objects, Tables

-----------------------------------------------------------------------------
(* The loops over the resources of an instance. *)

LEMMA ListOK ==
    ASSUME NEW o \in Objects
    PROVE  list_resources(o) \in Seq(0 .. 21) /\ Len(list_resources(o)) \in 1 .. 22
<1>0. ASSUME NEW n \in 1 .. 22, NEW s \in [1 .. n -> 0 .. 21]
      PROVE  s \in Seq(0 .. 21) /\ Len(s) \in 1 .. 22
  <2>1. s \in Seq(0 .. 21) /\ DOMAIN s = 1 .. n /\ n \in Nat
    BY SeqDef
  <2>2. Len(s) \in Nat /\ DOMAIN s = 1 .. Len(s)
    BY <2>1, LenProperties
  <2>3. Len(s) = n
    BY <2>1, <2>2, SameBound
  <2> QED BY <2>1, <2>3
<1>1. CASE o = Security
  <2>1. list_resources(o) = SecurityResources
    BY <1>1 DEF list_resources, Security, Server, Device, Connectivity, Location
  <2> QED BY <2>1 DEF SecurityResources
<1>2. CASE o = Server
  <2>1. list_resources(o) = ServerResources
    BY <1>2 DEF list_resources, Security, Server, Device, Connectivity, Location
  <2>2. ServerResources \in [1 .. 9 -> 0 .. 21]
    BY DEF ServerResources
  <2> QED BY <1>0, <2>1, <2>2
<1>3. CASE o = Device
  <2>1. list_resources(o) = DeviceResources
    BY <1>3 DEF list_resources, Security, Server, Device, Connectivity, Location
  <2>2. DeviceResources \in [1 .. 22 -> 0 .. 21]
    BY DEF DeviceResources
  <2>3. 22 \in 1 .. 22
    OBVIOUS
  <2>4. DeviceResources \in Seq(0 .. 21) /\ Len(DeviceResources) \in 1 .. 22
    BY <1>0, <2>2, <2>3
  <2> QED BY <2>1, <2>4
<1>4. CASE o = Connectivity
  <2>1. list_resources(o) = ConnectivityResources
    BY <1>4 DEF list_resources, Security, Server, Device, Connectivity, Location
  <2>2. ConnectivityResources \in [1 .. 11 -> 0 .. 21]
    BY DEF ConnectivityResources
  <2> QED BY <1>0, <2>1, <2>2
<1>5. CASE o = Location
  <2>1. list_resources(o) = LocationResources
    BY <1>5 DEF list_resources, Security, Server, Device, Connectivity, Location
  <2> QED BY <2>1 DEF LocationResources
<1> QED BY <1>1, <1>2, <1>3, <1>4, <1>5 DEF Objects

(* encode_instance_tlv reads one resource after the other; p has the       *)
(* object, its state, the instance and the answers of the provider.        *)
ReadArgs(p) == 0 .. Len(list_resources(p[1]))
ReadRank(k) == k
ReadOne(p, before, k) ==
    LET rid == list_resources(p[1])[k]
        r   == read_resource(p[1], before.st, p[3], rid, NoId, p[4][k])
    IN  [items |-> before.items \o IF r.res.ok THEN <<<<rid, r.res.value>>>> ELSE <<>>,
         st    |-> r.st]
ReadBody(p, g, k) ==
    IF k = 0 THEN [items |-> <<>>, st |-> p[2]] ELSE ReadOne(p, g[k - 1], k)

Rd == INSTANCE Recursion WITH Body <- ReadBody, Dom <- ReadArgs, Rank <- ReadRank

LEMMA ReadUnfolds ==
    ASSUME NEW o \in Objects, NEW st, NEW iid, NEW fixes
    PROVE  LET p == <<o, st, iid, fixes>>
               n == Len(list_resources(o))
           IN  \E f : /\ f[0] = [items |-> <<>>, st |-> st]
                      /\ \A k \in 1 .. n : f[k] = ReadOne(p, f[k - 1], k)
                      /\ ReadInstance(o, st, iid, fixes) = f[n]
<1> DEFINE p == <<o, st, iid, fixes>>
           n == Len(list_resources(o))
           f == CHOOSE g : g = [k \in ReadArgs(p) |-> ReadBody(p, g, k)]
<1>1. n \in Nat
  BY ListOK
<1>2. p[1] = o /\ p[2] = st /\ p[3] = iid /\ p[4] = fixes /\ ReadArgs(p) = 0 .. n
  BY DEF ReadArgs
<1>3. ReadInstance(o, st, iid, fixes) = f[n]
  BY DEF ReadInstance, ReadArgs, ReadBody, ReadOne
<1> HIDE DEF p
<1>4. Rd!Ranked(p)
  BY <1>1, <1>2 DEF Rd!Ranked, ReadRank
<1>5. Rd!Downward(p)
  <2> SUFFICES ASSUME NEW k \in ReadArgs(p), NEW g, NEW h,
                      \A m \in ReadArgs(p) : ReadRank(m) < ReadRank(k) => g[m] = h[m]
               PROVE  ReadBody(p, g, k) = ReadBody(p, h, k)
    BY DEF Rd!Downward
  <2>1. CASE k = 0
    BY <2>1 DEF ReadBody
  <2>2. CASE k # 0
    <3>1. g[k - 1] = h[k - 1]
      <4> HIDE DEF n
      <4> QED BY <1>1, <1>2, <2>2 DEF ReadRank
    <3> QED BY <2>2, <3>1 DEF ReadBody
  <2> QED BY <2>1, <2>2
<1>6. f = [k \in ReadArgs(p) |-> ReadBody(p, f, k)]
  BY <1>4, <1>5, Rd!Fixpoint
<1> HIDE DEF f, n
<1>7. \A k \in 0 .. n : f[k] = ReadBody(p, f, k)
  BY <1>2, <1>6
<1>8. f[0] = [items |-> <<>>, st |-> st]
  BY <1>1, <1>2, <1>7 DEF ReadBody
<1>9. \A k \in 1 .. n : f[k] = ReadOne(p, f[k - 1], k)
  BY <1>1, <1>7 DEF ReadBody
<1> QED BY <1>3, <1>8, <1>9 DEF p, n

LEMMA ReadInstanceOK ==
    ASSUME NEW o \in Objects, NEW st, StateOK(o, st), NEW iid,
           NEW fixes, Provided(o, fixes, Len(list_resources(o)))
    PROVE  LET new == ReadInstance(o, st, iid, fixes).st
           IN  StateOK(o, new) /\ (o # Location => new = st)
<1> DEFINE p == <<o, st, iid, fixes>>
           n == Len(list_resources(o))
<1>1. n \in Nat
  BY ListOK
<1>2. PICK f : /\ f[0] = [items |-> <<>>, st |-> st]
               /\ \A k \in 1 .. n : f[k] = ReadOne(p, f[k - 1], k)
               /\ ReadInstance(o, st, iid, fixes) = f[n]
  BY ReadUnfolds
<1>3. p[1] = o /\ p[4] = fixes /\ Provided(o, fixes, n)
  OBVIOUS
<1> HIDE DEF p, n
<1> DEFINE Good(s) == StateOK(o, s) /\ (o # Location => s = st)
           T == {k \in Nat : k <= n => Good(f[k].st)}
<1>4. 0 \in T
  BY <1>2
<1>5. ASSUME NEW k \in Nat, k \in T PROVE k + 1 \in T
  <2> SUFFICES ASSUME k + 1 <= n PROVE Good(f[k + 1].st)
    OBVIOUS
  <2>1. k + 1 \in 1 .. n /\ (k + 1) - 1 = k /\ k <= n
    BY <1>1
  <2>2. PICK before : before = f[k] /\ Good(before.st)
    BY <1>5, <2>1
  <2>3. f[k + 1] = ReadOne(p, before, k + 1)
    BY <1>2, <2>1, <2>2
  <2> DEFINE r == read_resource(o, before.st, p[3], list_resources(o)[k + 1], NoId, p[4][k + 1])
  <2>4. f[k + 1].st = r.st
    BY <1>3, <2>3 DEF ReadOne
  <2>5. ReadOK(o, before.st, r)
    BY <1>3, <2>1, <2>2, ReadEffect DEF Provided
  <2> HIDE DEF r
  <2> QED BY <2>2, <2>4, <2>5 DEF ReadOK
<1>6. Nat \subseteq T
  <2> HIDE DEF T
  <2> QED BY <1>4, <1>5, Rd!SetInduction
<1>7. Good(f[n].st)
  BY <1>1, <1>6
<1> QED BY <1>2, <1>7

(* A record of a request, written as the type the object gives to it. *)
LEMMA WriteRecordOK ==
    ASSUME NEW o \in Objects, NEW st, StateOK(o, st), NEW iid, NEW rid,
           NEW record, record.value \in Seq(Byte)
    PROVE  WriteOK(o, st, WriteRecord(o, st, iid, rid, record), iid)
<1> DEFINE type == object_type(o, rid)
           decoded == decode_resource(record.value, type)
<1>0. SUFFICES ASSUME NEW w, w = WriteRecord(o, st, iid, rid, record)
               PROVE  WriteOK(o, st, w, iid)
  OBVIOUS
<1>1. w = IF decoded.ok THEN write_resource(o, st, iid, rid, decoded.value)
          ELSE Done(Err("BadRequest"), st)
  BY <1>0 DEF WriteRecord
<1>2. type \in {"Boolean", "Integer", "String", "Opaque"}
  BY ObjectTypes
<1> HIDE DEF type
<1>3. CASE decoded.ok
  <2>1. PICK v : decoded = Ok(Value(type, v)) /\ Reading(type, v)
    BY <1>2, <1>3, DecodeResourceTyped
  <2> HIDE DEF decoded
  <2>2. w = write_resource(o, st, iid, rid, Value(type, v))
    BY <1>1, <1>3, <2>1, Parts
  <2> QED BY <2>1, <2>2, WriteEffect
<1>4. CASE ~decoded.ok
  <2> HIDE DEF decoded
  <2>1. w = Done(Err("BadRequest"), st)
    BY <1>1, <1>4
  <2> QED BY <2>1, Parts, ResultsOK DEF WriteOK, WroteOK, Errors
<1> QED BY <1>3, <1>4

(* A write to an instance takes one record after the other; p has the      *)
(* object, its state, the instance and the records.                        *)
WriteArgs(p) == 0 .. Len(p[4])
WriteRank(n) == n
WriteBody(p, g, n) ==
    IF n = 0 THEN p[2]
    ELSE IF Writable(p[4][n]) THEN WriteRecord(p[1], g[n - 1], p[3], p[4][n].id, p[4][n]).st
    ELSE g[n - 1]

Wr == INSTANCE Recursion WITH Body <- WriteBody, Dom <- WriteArgs, Rank <- WriteRank

(* f is the state after each record. *)
Writes(f, o, st, iid, records) ==
    /\ f[0] = st
    /\ \A n \in 1 .. Len(records) :
         f[n] = IF Writable(records[n])
                THEN WriteRecord(o, f[n - 1], iid, records[n].id, records[n]).st
                ELSE f[n - 1]
    /\ WriteInstance(o, st, iid, records) = f[Len(records)]

LEMMA WriteUnfolds ==
    ASSUME NEW o, NEW st, NEW iid, NEW records, Len(records) \in Nat
    PROVE  \E f : Writes(f, o, st, iid, records)
<1> DEFINE p == <<o, st, iid, records>>
           f == CHOOSE g : g = [n \in WriteArgs(p) |-> WriteBody(p, g, n)]
<1>2. p[1] = o /\ p[2] = st /\ p[3] = iid /\ p[4] = records /\ WriteArgs(p) = 0 .. Len(records)
  BY DEF WriteArgs
<1>3. WriteInstance(o, st, iid, records) = f[Len(records)]
  BY DEF WriteInstance, WriteArgs, WriteBody
<1> HIDE DEF p
<1>4. Wr!Ranked(p)
  BY <1>2 DEF Wr!Ranked, WriteRank
<1>5. Wr!Downward(p)
  <2> SUFFICES ASSUME NEW k \in WriteArgs(p), NEW g, NEW h,
                      \A m \in WriteArgs(p) : WriteRank(m) < WriteRank(k) => g[m] = h[m]
               PROVE  WriteBody(p, g, k) = WriteBody(p, h, k)
    BY DEF Wr!Downward
  <2>1. CASE k = 0
    BY <2>1 DEF WriteBody
  <2>2. CASE k # 0
    <3>1. g[k - 1] = h[k - 1]
      BY <1>2, <2>2 DEF WriteRank
    <3> QED BY <2>2, <3>1 DEF WriteBody
  <2> QED BY <2>1, <2>2
<1>6. f = [n \in WriteArgs(p) |-> WriteBody(p, f, n)]
  BY <1>4, <1>5, Wr!Fixpoint
<1> HIDE DEF f
<1>7. \A n \in 0 .. Len(records) : f[n] = WriteBody(p, f, n)
  BY <1>2, <1>6
<1>8. f[0] = st
  BY <1>2, <1>7 DEF WriteBody
<1>9. \A n \in 1 .. Len(records) :
        f[n] = IF Writable(records[n])
               THEN WriteRecord(o, f[n - 1], iid, records[n].id, records[n]).st
               ELSE f[n - 1]
  BY <1>2, <1>7 DEF WriteBody
<1>10. Writes(f, o, st, iid, records)
  BY <1>3, <1>8, <1>9 DEF Writes
<1> QED BY <1>10

LEMMA RecordsForm ==
    ASSUME NEW s, Records(s)
    PROVE  Len(s) \in Nat /\ DOMAIN s = 1 .. Len(s) /\ \A i \in 1 .. Len(s) : RecordOK(s[i])
<1>1. PICK S : s \in Seq(S) /\ \A r \in S : RecordOK(r)
  BY DEF Records
<1> QED BY <1>1, LenProperties, ElementOfSeq

LEMMA WriteInstanceOK ==
    ASSUME NEW o \in Objects, NEW st, StateOK(o, st), NEW iid, NEW records, Records(records)
    PROVE  WroteOK(o, st, WriteInstance(o, st, iid, records), iid)
<1>1. Len(records) \in Nat /\ \A i \in 1 .. Len(records) : records[i].value \in Seq(Byte)
  BY RecordsForm DEF RecordOK
<1>2. PICK f : Writes(f, o, st, iid, records)
  BY <1>1, WriteUnfolds
<1> DEFINE T == {n \in Nat : n <= Len(records) => WroteOK(o, st, f[n], iid)}
<1>3. 0 \in T
  BY <1>2 DEF Writes, WroteOK
<1>4. ASSUME NEW n \in Nat, n \in T PROVE n + 1 \in T
  <2> SUFFICES ASSUME n + 1 <= Len(records) PROVE WroteOK(o, st, f[n + 1], iid)
    OBVIOUS
  <2>1. n + 1 \in 1 .. Len(records) /\ (n + 1) - 1 = n /\ n <= Len(records)
    BY <1>1
  <2>2. WroteOK(o, st, f[n], iid) /\ StateOK(o, f[n])
    BY <1>4, <2>1 DEF WroteOK
  <2>3. PICK r : r = records[n + 1] /\ r.value \in Seq(Byte)
    BY <1>1, <2>1
  <2>4. f[n + 1] = IF Writable(r) THEN WriteRecord(o, f[n], iid, r.id, r).st ELSE f[n]
    BY <1>2, <2>1, <2>3 DEF Writes
  <2>5. WriteOK(o, f[n], WriteRecord(o, f[n], iid, r.id, r), iid)
    BY <2>2, <2>3, WriteRecordOK
  <2>6. WroteOK(o, f[n], f[n + 1], iid)
    BY <2>2, <2>4, <2>5 DEF WriteOK, WroteOK
  <2> QED BY <2>2, <2>6, WroteTwice
<1>5. Nat \subseteq T
  <2> HIDE DEF T
  <2> QED BY <1>3, <1>4, Wr!SetInduction
<1> QED BY <1>1, <1>2, <1>5 DEF Writes

-----------------------------------------------------------------------------
(* The handlers. *)

Changing == {"Changed", "Created", "Deleted"}

(* The instance a path names. *)
Named(path) == IF Len(path) > 1 THEN {path[2]} ELSE {}

(* A handler answers with one of the codes, has an effect on the instance  *)
(* its path names, and none if it answers with an error.                   *)
HandlerOK(path, st, a) ==
    /\ a = [codes |-> a.codes, payload |-> a.payload, st |-> a.st]
    /\ a.codes \subseteq Codes
    /\ EffectOK(path[1], st, a.st, Named(path))
    /\ ~is_resource_instance(path) /\ path[1] # Location =>
         \A code \in a.codes : code \notin Changing => a.st = st

LEMMA AnswerOK ==
    ASSUME NEW path, NEW st, NEW new, NEW code \in Codes, NEW payload,
           EffectOK(path[1], st, new, Named(path)),
           path[1] # Location /\ code \notin Changing => new = st
    PROVE  HandlerOK(path, st, Answer(code, payload, new))
<1> DEFINE a == Answer(code, payload, new)
<1>1. a = [codes |-> {code}, payload |-> payload, st |-> new]
  BY DEF Answer
<1>2. a.codes = {code} /\ a.payload = payload /\ a.st = new
  BY <1>1
<1> HIDE DEF a
<1> QED BY <1>1, <1>2 DEF HandlerOK, a

LEMMA EffectGrows ==
    ASSUME NEW o, NEW old, NEW new, NEW S, NEW Q, S \subseteq Q, EffectOK(o, old, new, S)
    PROVE  EffectOK(o, old, new, Q)
BY DEF EffectOK

LEMMA CodesHave ==
    /\ {"Created", "Deleted", "Changed", "Content"} \subseteq Codes
    /\ Errors \subseteq Codes /\ Errors \cap Changing = {} /\ "Content" \notin Changing
BY DEF Codes, Errors, Changing

LEMMA CodeOfOK ==
    ASSUME NEW res, ResultOK(res), NEW success \in Codes
    PROVE  /\ CodeOf(res, success) \in Codes
           /\ res.ok => CodeOf(res, success) = success
           /\ CodeOf(res, success) \notin Changing => (~res.ok \/ success \notin Changing)
           /\ ~res.ok => CodeOf(res, success) \in Errors
<1>1. CASE \E v : res = Ok(v)
  BY <1>1, Parts DEF CodeOf
<1>2. CASE \E e \in Errors : res = Err(e)
  <2>1. PICK e \in Errors : res = Err(e)
    BY <1>2
  <2>2. CoapCode(e) = e
    BY DEF CoapCode, Errors
  <2>3. CodeOf(res, success) = e /\ ~res.ok
    BY <2>1, <2>2, Parts DEF CodeOf
  <2> QED BY <2>3, CodesHave
<1> QED BY <1>1, <1>2 DEF ResultOK

LEMMA UnassignedOK ==
    ASSUME NEW path, NEW st, StateOK(path[1], st)
    PROVE  HandlerOK(path, st, Unassigned(st))
<1> DEFINE a == Unassigned(st)
<1>1. a = [codes |-> Codes, payload |-> <<>>, st |-> st]
  BY DEF Unassigned
<1>2. a.codes = Codes /\ a.payload = <<>> /\ a.st = st
  BY <1>1
<1>3. EffectOK(path[1], st, st, Named(path))
  BY NoEffect
<1> HIDE DEF a
<1> QED BY <1>1, <1>2, <1>3 DEF HandlerOK, a

LEMMA AnswersGiven ==
    ASSUME NEW path, path # NoPath, NEW fixes \in Fixes(path)
    PROVE  Provided(path[1], fixes, IF is_resource(path) THEN 1 ELSE Len(list_resources(path[1])))
<1> SUFFICES ASSUME path[1] = Location,
                    NEW k \in 1 .. (IF is_resource(path) THEN 1 ELSE Len(list_resources(path[1])))
             PROVE  fixes[k] \in GpsAnswers
  BY DEF Provided
<1> QED BY DEF Fixes

LEMMA ReadHandlerOK ==
    ASSUME NEW path, path[1] \in Objects, path # NoPath, NEW st, StateOK(path[1], st),
           NEW fixes \in Fixes(path)
    PROVE  HandlerOK(path, st, process_read(path, st, fixes))
<1>1. PICK o \in Objects : o = path[1]
  OBVIOUS
<1>2. ASSUME NEW new, StateOK(o, new), o # Location => new = st
      PROVE  EffectOK(o, st, new, Named(path))
  <2>1. CASE o = Location
    BY <1>2, <2>1, Kind DEF EffectOK
  <2>2. CASE o # Location
    BY <1>1, <1>2, <2>2, NoEffect
  <2> QED BY <2>1, <2>2
<1>3. ASSUME NEW code \in Codes, NEW payload, NEW new, StateOK(o, new), o # Location => new = st
      PROVE  HandlerOK(path, st, Answer(code, payload, new))
  BY <1>1, <1>2, <1>3, AnswerOK
<1>4. ASSUME ~is_resource(path)
      PROVE  \A iid : LET e == encode_instance_tlv(o, st, iid, fixes)
                      IN  StateOK(o, e.st) /\ (o # Location => e.st = st)
  <2> TAKE iid
  <2>2. Provided(o, fixes, Len(list_resources(o)))
    BY <1>1, <1>4, AnswersGiven
  <2>1. encode_instance_tlv(o, st, iid, fixes).st = ReadInstance(o, st, iid, fixes).st
    BY DEF encode_instance_tlv
  <2> QED BY <1>1, <2>1, <2>2, ReadInstanceOK
<1>5. "Content" \in Codes /\ "NotFound" \in Codes
  BY CodesHave DEF Errors
<1>6. CASE is_object(path)
  <2>1. CASE o \in Tables
    <3>1. \E payload : process_read(path, st, fixes) = Answer("Content", payload, st)
      BY <1>1, <1>6, <2>1 DEF process_read
    <3> QED BY <1>1, <1>3, <1>5, <3>1
  <2>2. CASE o \notin Tables
    <3>1. PICK e : e = encode_instance_tlv(o, st, 0, fixes)
      OBVIOUS
    <3>2. process_read(path, st, fixes) = Answer("Content", e.payload, e.st)
      BY <1>1, <1>6, <2>2, <3>1 DEF process_read
    <3>3. ~is_resource(path)
      BY <1>6 DEF is_object, is_resource
    <3> QED BY <1>3, <1>4, <1>5, <3>1, <3>2, <3>3
  <2> QED BY <2>1, <2>2
<1>7. CASE ~is_object(path) /\ is_instance(path)
  <2>1. CASE path[2] \notin list_instances(o, st)
    <3>1. process_read(path, st, fixes) = Answer("NotFound", <<>>, st)
      BY <1>1, <1>7, <2>1 DEF process_read
    <3> QED BY <1>1, <1>3, <1>5, <3>1
  <2>2. CASE path[2] \in list_instances(o, st)
    <3>1. PICK e : e = encode_instance_tlv(o, st, path[2], fixes)
      OBVIOUS
    <3>2. process_read(path, st, fixes) = Answer("Content", e.payload, e.st)
      BY <1>1, <1>7, <2>2, <3>1 DEF process_read
    <3>3. ~is_resource(path)
      BY <1>7 DEF is_instance, is_resource
    <3> QED BY <1>3, <1>4, <1>5, <3>1, <3>2, <3>3
  <2> QED BY <2>1, <2>2
<1>8. CASE ~is_object(path) /\ ~is_instance(path) /\ is_resource(path)
  <2>1. PICK r : r = read_resource(o, st, path[2], path[3], NoId, fixes[1])
    OBVIOUS
  <2>2. ReadOK(o, st, r)
    <3>1. o = Location => fixes[1] \in GpsAnswers
      <4>1. Provided(path[1], fixes, 1)
        BY <1>8, AnswersGiven
      <4> QED BY <1>1, <4>1 DEF Provided
    <3> QED BY <1>1, <2>1, <3>1, ReadEffect
  <2>3. process_read(path, st, fixes) =
          IF r.res.ok THEN Answer("Content", encode_resource(path[3], r.res.value), r.st)
          ELSE Answer(CoapCode(r.res.error), <<>>, r.st)
    BY <1>1, <1>8, <2>1 DEF process_read
  <2>4. ~r.res.ok => CoapCode(r.res.error) = "NotFound"
    BY <2>2, Parts DEF ReadOK, CoapCode
  <2>5. \E code \in Codes : \E payload : process_read(path, st, fixes) = Answer(code, payload, r.st)
    BY <1>5, <2>3, <2>4
  <2> QED BY <1>3, <2>2, <2>5 DEF ReadOK
<1>9. CASE ~is_object(path) /\ ~is_instance(path) /\ ~is_resource(path)
  <2>1. process_read(path, st, fixes) = Unassigned(st)
    BY <1>9 DEF process_read
  <2> QED BY <2>1, UnassignedOK
<1> QED BY <1>6, <1>7, <1>8, <1>9

LEMMA WriteHandlerOK ==
    ASSUME NEW path, path[1] \in Objects, NEW st, StateOK(path[1], st), NEW payload \in Seq(Byte)
    PROVE  HandlerOK(path, st, process_write(path, st, payload))
<1>1. PICK o \in Objects : o = path[1]
  OBVIOUS
<1>2. PICK records : records = decode(payload) /\ DecodedOK(records)
  BY DecodeTyped DEF decode
<1>3. ASSUME NEW code \in Errors
      PROVE  HandlerOK(path, st, Answer(code, <<>>, st))
  BY NoEffect, AnswerOK, CodesHave
<1>4. CASE ~records.ok
  <2>1. process_write(path, st, payload) = Answer("BadRequest", <<>>, st)
    BY <1>2, <1>4 DEF process_write
  <2> QED BY <1>3, <2>1 DEF Errors
<1>5. CASE records.ok
  <2>0. Records(records.value)
    BY <1>2, <1>5, Parts DEF DecodedOK
  <2>1. CASE is_resource(path) /\ records.value = <<>>
    <3>1. process_write(path, st, payload) = Answer("BadRequest", <<>>, st)
      BY <1>2, <1>5, <2>1 DEF process_write
    <3> QED BY <1>3, <3>1 DEF Errors
  <2>2. CASE is_resource(path) /\ records.value # <<>>
    <3>1. PICK r : r = records.value[1] /\ r.value \in Seq(Byte)
      <4>1. PICK S : records.value \in Seq(S) /\ \A q \in S : RecordOK(q)
        BY <2>0 DEF Records
      <4>2. Len(records.value) \in Nat /\ Len(records.value) # 0
        BY <2>2, <4>1, EmptySeq, LenProperties
      <4>3. records.value[1] \in S
        BY <4>1, <4>2, ElementOfSeq
      <4> QED BY <4>1, <4>3 DEF RecordOK
    <3>2. PICK w : w = WriteRecord(o, st, path[2], path[3], r)
      OBVIOUS
    <3>3. process_write(path, st, payload) = Answer(CodeOf(w.res, "Changed"), <<>>, w.st)
      BY <1>1, <1>2, <1>5, <2>2, <3>1, <3>2 DEF process_write
    <3>4. WriteOK(o, st, w, path[2])
      BY <1>1, <3>1, <3>2, WriteRecordOK
    <3>5. EffectOK(o, st, w.st, {path[2]}) /\ Named(path) = {path[2]}
      BY <2>2, <3>4, WroteEffect DEF WriteOK, Named, is_resource
    <3>6. CodeOf(w.res, "Changed") \in Codes
          /\ (CodeOf(w.res, "Changed") \notin Changing => w.st = st)
      BY <3>4, CodeOfOK, CodesHave DEF WriteOK, Changing
    <3> QED BY <1>1, <3>3, <3>5, <3>6, AnswerOK
  <2>3. CASE ~is_resource(path) /\ is_instance(path)
    <3>1. PICK new : new = WriteInstance(o, st, path[2], records.value)
      OBVIOUS
    <3>2. process_write(path, st, payload) = Answer("Changed", <<>>, new)
      BY <1>1, <1>2, <1>5, <2>3, <3>1 DEF process_write
    <3>3. WroteOK(o, st, new, path[2])
      BY <1>1, <2>0, <3>1, WriteInstanceOK
    <3>4. EffectOK(o, st, new, {path[2]}) /\ Named(path) = {path[2]}
      BY <2>3, <3>3, WroteEffect DEF Named, is_instance
    <3> QED BY <1>1, <3>2, <3>4, AnswerOK, CodesHave DEF Changing
  <2>4. CASE ~is_resource(path) /\ ~is_instance(path) /\ is_object(path)
    <3>1. CASE o \notin Tables
      <4>1. process_write(path, st, payload) = Answer("MethodNotAllowed", <<>>, st)
        BY <1>1, <1>2, <1>5, <2>4, <3>1 DEF process_write
      <4> QED BY <1>3, <4>1 DEF Errors
    <3>2. CASE o \in Tables
      <4>1. PICK c : c = create_instance(o, st, NoId)
        OBVIOUS
      <4>2. process_write(path, st, payload) = Answer(CodeOf(c.res, "Created"), <<>>, c.st)
        BY <1>1, <1>2, <1>5, <2>4, <3>2, <4>1 DEF process_write
      <4>3. EffectOK(o, st, c.st, {}) /\ ResultOK(c.res) /\ (~c.res.ok => c.st = st)
        BY <1>1, <3>2, <4>1, CreateEffect
      <4>4. EffectOK(o, st, c.st, Named(path))
        BY <4>3, EffectGrows
      <4>5. CodeOf(c.res, "Created") \in Codes
            /\ (CodeOf(c.res, "Created") \notin Changing => c.st = st)
        BY <4>3, CodeOfOK, CodesHave DEF Changing
      <4> QED BY <1>1, <4>2, <4>4, <4>5, AnswerOK
    <3> QED BY <3>1, <3>2
  <2>5. CASE ~is_resource(path) /\ ~is_instance(path) /\ ~is_object(path)
    <3>1. process_write(path, st, payload) = Unassigned(st)
      BY <1>2, <1>5, <2>5 DEF process_write
    <3> QED BY <3>1, UnassignedOK
  <2> QED BY <2>1, <2>2, <2>3, <2>4, <2>5
<1> QED BY <1>4, <1>5

LEMMA ExecuteHandlerOK ==
    ASSUME NEW path, path[1] \in Objects, NEW st, StateOK(path[1], st)
    PROVE  HandlerOK(path, st, process_execute(path, st))
<1>1. PICK o \in Objects : o = path[1]
  OBVIOUS
<1>2. PICK e : e = execute_resource(o, st, path[2], path[3])
  OBVIOUS
<1>3. process_execute(path, st) = Answer(CodeOf(e.res, "Changed"), <<>>, e.st)
  BY <1>1, <1>2 DEF process_execute
<1>4. EffectOK(o, st, e.st, {}) /\ ResultOK(e.res) /\ (~e.res.ok => e.st = st)
  BY <1>1, <1>2, ExecuteEffect DEF ActOK
<1>5. EffectOK(o, st, e.st, Named(path))
  BY <1>4, EffectGrows
<1>6. CodeOf(e.res, "Changed") \in Codes /\ (CodeOf(e.res, "Changed") \notin Changing => e.st = st)
  BY <1>4, CodeOfOK, CodesHave DEF Changing
<1> QED BY <1>1, <1>3, <1>5, <1>6, AnswerOK

LEMMA DeleteHandlerOK ==
    ASSUME NEW path, path[1] \in Objects, NEW st, StateOK(path[1], st)
    PROVE  HandlerOK(path, st, process_delete(path, st))
<1>1. PICK o \in Objects : o = path[1]
  OBVIOUS
<1>2. CASE ~is_instance(path) \/ o \notin Tables
  <2>1. process_delete(path, st) = Answer("MethodNotAllowed", <<>>, st)
    BY <1>1, <1>2 DEF process_delete
  <2> QED BY <2>1, NoEffect, AnswerOK, CodesHave DEF Errors
<1>3. CASE is_instance(path) /\ o \in Tables
  <2>1. PICK d : d = delete_instance(st, path[2])
    OBVIOUS
  <2>2. process_delete(path, st) = Answer(CodeOf(d.res, "Deleted"), <<>>, d.st)
    BY <1>1, <1>3, <2>1 DEF process_delete
  <2>3. EffectOK(o, st, d.st, {path[2]}) /\ ResultOK(d.res) /\ (~d.res.ok => d.st = st)
    BY <1>1, <1>3, <2>1, DeleteEffect
  <2>4. Named(path) = {path[2]}
    BY <1>3 DEF Named, is_instance
  <2>5. CodeOf(d.res, "Deleted") \in Codes /\ (CodeOf(d.res, "Deleted") \notin Changing => d.st = st)
    BY <2>3, CodeOfOK, CodesHave DEF Changing
  <2> QED BY <1>1, <2>2, <2>3, <2>4, <2>5, AnswerOK
<1> QED BY <1>2, <1>3

-----------------------------------------------------------------------------
(* Requests: their paths and their bodies. *)

(* A path that is one has one to four ids. *)
PathOK(path) == path \in Seq(U16) /\ Len(path) \in 1 .. 4

LEMMA NoPathEmpty == Len(NoPath) = 0
BY EmptySeq DEF NoPath

LEMMA UriPathOK ==
    ASSUME NEW options \in Seq(Int)
    PROVE  uri_path(options) \in Seq(Int)
<1> DEFINE text == {i \in DOMAIN options : options[i] # Empty}
           m == CHOOSE i \in text : \A j \in text : i <= j
<1>1. Len(options) \in Nat /\ DOMAIN options = 1 .. Len(options)
  BY LenProperties
<1>2. uri_path(options) = IF text = {} THEN <<>> ELSE SubSeq(options, m, Len(options))
  BY DEF uri_path
<1>3. CASE text = {}
  BY <1>2, <1>3, EmptySeq
<1>4. CASE text # {}
  <2>1. text \subseteq Nat
    BY <1>1
  <2>2. text \subseteq 1 .. Len(options)
    BY <1>1
  <2> HIDE DEF text
  <2>3. \E i \in text : \A j \in text : i <= j
    BY <1>4, <2>1, Dec!LeastElement
  <2>4. m \in text
    BY <2>3
  <2> HIDE DEF m
  <2>5. PICK k \in Nat : m = k + 1 /\ k <= Len(options)
    <3>1. m \in 1 .. Len(options)
      BY <2>2, <2>4
    <3>2. m - 1 \in Nat /\ m = (m - 1) + 1 /\ m - 1 <= Len(options)
      BY <1>1, <3>1
    <3> QED BY <3>2
  <2>6. SubSeq(options, k + 1, Len(options)) \in Seq(Int)
    <3>1. PICK l \in Nat : l = Len(options)
      BY <1>1
    <3>2. SubSeq(options, k + 1, l) \in Seq(Int)
      BY <2>5, <3>1, Piece
    <3> QED BY <3>1, <3>2
  <2> QED BY <1>2, <1>4, <2>5, <2>6
<1> QED BY <1>3, <1>4

LEMMA ParseOK ==
    ASSUME NEW segments \in Seq(Int)
    PROVE  parse(segments) = NoPath \/ PathOK(parse(segments))
<1> DEFINE m == IF Len(segments) > 4 THEN 4 ELSE Len(segments)
           used == SubSeq(segments, 1, m)
<1>1. Len(segments) \in Nat
  BY LenProperties
<1>2. PICK k \in Nat : k = m /\ k <= Len(segments) /\ k <= 4 /\ (Len(segments) # 0 => k >= 1)
  BY <1>1
<1>3. parse(segments) = NoPath \/
        /\ segments # <<>> /\ parse(segments) = used
        /\ \A i \in DOMAIN used : used[i] \in U16
  BY DEF parse
<1> HIDE DEF m
<1>4. SubSeq(segments, 0 + 1, k) \in Seq(Int) /\ Len(SubSeq(segments, 0 + 1, k)) = k - 0
  BY <1>2, Piece
<1>5. used \in Seq(Int) /\ Len(used) = k
  BY <1>2, <1>4
<1> HIDE DEF used
<1>6. ASSUME segments # <<>>, \A i \in DOMAIN used : used[i] \in U16 PROVE PathOK(used)
  <2>1. Len(segments) # 0
    BY <1>6, EmptySeq
  <2>2. DOMAIN used = 1 .. k
    BY <1>5, LenProperties
  <2>3. used \in [1 .. k -> U16]
    <3>1. used = [i \in 1 .. k |-> used[i]]
      BY <1>5, <2>2, LenProperties
    <3> QED BY <1>6, <2>2, <3>1
  <2>4. used \in Seq(U16)
    BY <1>2, <2>3, SeqDef
  <2> QED BY <1>2, <1>5, <2>1, <2>4 DEF PathOK
<1> QED BY <1>3, <1>6

(* What a body consists of. *)
LEMMA BodyParts ==
    ASSUME NEW b \in Bodies \cup {NoBody}
    PROVE  ItemsOK(b.items) /\ b.tail \in Seq(Byte) /\ b.cut \in Nat
<1>1. CASE b \in Bodies
  <2>1. /\ b.items \in Seq(U16 \X {b.items[i][2] : i \in DOMAIN b.items})
        /\ \A i \in DOMAIN b.items : Sendable(b.items[i][2])
        /\ b.tail \in Seq(Byte) /\ b.cut \in Nat
    BY <1>1, RequestsAssumption
  <2> QED BY <2>1 DEF ItemsOK
<1>2. CASE b = NoBody
  <2>1. b.items = <<>> /\ b.tail = <<>> /\ b.cut = 0
    BY <1>2 DEF NoBody
  <2>2. <<>> \in Seq(U16 \X {0}) /\ <<>> \in Seq(Byte)
    BY EmptySeq
  <2>3. DOMAIN b.items = {}
    BY <2>1
  <2> QED BY <2>1, <2>2, <2>3 DEF ItemsOK
<1> QED BY <1>1, <1>2

(* The records a server meant to send. *)
Sent(b) == ItemRecords(b.items, 0)

(* A body is a sequence of bytes, and if it lost none, its records are     *)
(* decoded in front of what follows them.                                  *)
LEMMA BytesOK ==
    ASSUME NEW b \in Bodies \cup {NoBody}
    PROVE  /\ Bytes(b) \in Seq(Byte)
           /\ b.cut = 0 => decode(Bytes(b)) = Then(Sent(b), decode(b.tail))
<1> DEFINE all == FlattenSeq(Encodings(b.items)) \o b.tail
<1>1. ItemsOK(b.items) /\ b.tail \in Seq(Byte) /\ b.cut \in Nat
  BY BodyParts
<1>2. 0 \in Nat /\ 0 <= kMaxTlvDepth
  BY DEF kMaxTlvDepth
<1>6. /\ FlattenSeq(Encodings(b.items)) \in Seq(Byte)
      /\ decode_impl[<<all, 0>>] = Then(Sent(b), decode_impl[<<b.tail, 0>>])
  BY <1>1, <1>2, DecodeItems DEF Sent
<1>8. all \in Seq(Byte) /\ Len(all) \in Nat
  BY <1>1, <1>6, ConcatProperties, LenProperties
<1>9. Bytes(b) = SubSeq(all, 1, Len(all) - b.cut)
  BY DEF Bytes, Encodings
<1> HIDE DEF all
<1>10. Bytes(b) \in Seq(Byte)
  <2>1. PICK j \in Int : j = Len(all) - b.cut /\ j <= Len(all)
    BY <1>1, <1>8
  <2>2. \A k \in 1 .. j : all[k] \in Byte
    BY <1>8, <2>1, ElementOfSeq
  <2>3. SubSeq(all, 1, j) \in Seq(Byte)
    BY <1>8, <2>1, <2>2, SubSeqProperties
  <2> QED BY <1>9, <2>1, <2>3
<1>11. ASSUME b.cut = 0 PROVE Bytes(b) = all
  <2>1. Len(all) - b.cut = Len(all)
    BY <1>8, <1>11
  <2>2. PICK l \in Nat : l = Len(all)
    BY <1>8
  <2>3. /\ SubSeq(all, 0 + 1, l) \in Seq(Byte) /\ Len(SubSeq(all, 0 + 1, l)) = l - 0
        /\ \A k \in 1 .. l - 0 : SubSeq(all, 0 + 1, l)[k] = all[0 + k]
    BY <1>8, <2>2, Piece
  <2>4. PICK s : s = SubSeq(all, 1, l)
    OBVIOUS
  <2>5. s \in Seq(Byte) /\ Len(s) = l /\ \A k \in 1 .. l : s[k] = all[k]
    BY <2>3, <2>4
  <2>6. s = all
    BY <1>8, <2>2, <2>5, SeqEqual
  <2> QED BY <1>9, <2>1, <2>2, <2>4, <2>6
<1>12. b.cut = 0 => decode(Bytes(b)) = Then(Sent(b), decode(b.tail))
  BY <1>6, <1>11 DEF decode
<1> QED BY <1>10, <1>12

-----------------------------------------------------------------------------
(* The inductive invariant. *)

ObjsOK ==
    /\ objs = [o \in Objects |-> objs[o]]
    /\ \A o \in Objects : StateOK(o, objs[o])

(* Before its counter has wrapped, a table's ids are below it. *)
FreshOK ==
    \A o \in Tables \ wrapped : Fresh(objs[o]) /\ MaxU16 \notin DOMAIN objs[o].inst

ExchOK == exch # Idle => exch.code \in Codes /\ exch.body \in Bodies \cup {NoBody}

Inv == ObjsOK /\ FreshOK /\ ExchOK /\ wrapped \subseteq Tables /\ ops \in 0 .. MaxOps

(* What Device and Connectivity hold at first. *)
LEMMA InitHeld == HeldOK(Device, DeviceInit) /\ HeldOK(Connectivity, ConnectivityInit)
<1> DEFINE Ints == {0, 41, -70, 100, 12000, 1700000000}
<1>1. \A n \in Ints : n \in Int /\ n \div 65536 >= -65536 /\ n \div 65536 <= 65536
  BY SMT
<1>2. \A n \in Ints : OfType(Value("Integer", n)) /\ OfType(Value("Time", n))
  BY <1>1, NumberOK
<1>3. OfType(Value("String", <<70>>))
  <2>1. PICK b \in Byte : b = 70
    BY SMT DEF Byte, MaxByte
  <2>2. <<b>> \in Seq(Byte)
    OBVIOUS
  <2> QED BY <2>1, <2>2, BytesOfType
<1>4. ASSUME NEW o, NEW rid \in Multiple(o), NEW n \in Ints
      PROVE  Holdable(o, rid, <<Value("Integer", n)>>)
  BY <1>2, OneHeld
<1>5. HeldOK(Device, DeviceInit)
  <2> SUFFICES ASSUME NEW rid \in (0 .. 21) \ {4, 5, 12}
               PROVE  Holdable(Device, rid, DeviceInit[rid])
    BY DEF HeldOK, DeviceInit
  <2>1. CASE rid \in {6, 7, 8, 11}
    <3>1. rid \in Multiple(Device)
      BY <2>1 DEF Multiple
    <3>2. \E n \in Ints : DeviceInit[rid] = <<Value("Integer", n)>>
      <4>1. CASE rid = 7
        <5>1. DeviceInit[rid] = <<Value("Integer", 12000)>>
          BY SMT, <4>1 DEF DeviceInit
        <5> QED BY SMT, <5>1
      <4>2. CASE rid \in {6, 8, 11}
        <5>1. DeviceInit[rid] = <<Value("Integer", 0)>>
          BY <4>2 DEF DeviceInit, NoError
        <5> QED BY <5>1
      <4> QED BY <2>1, <4>1, <4>2
    <3> HIDE DEF Ints
    <3> QED BY <1>4, <3>1, <3>2
  <2>2. CASE rid \notin {6, 7, 8, 11}
    <3>1. rid \notin Multiple(Device)
      BY <2>2 DEF Multiple
    <3>2. OfType(DeviceInit[rid])
      <4>1. CASE rid = 9
        <5>1. DeviceInit[rid] = Value("Integer", 100)
          BY <4>1 DEF DeviceInit
        <5> QED BY <1>2, <5>1
      <4>2. CASE rid \in {10, 20, 21}
        <5>1. DeviceInit[rid] = Value("Integer", 0)
          BY <4>2 DEF DeviceInit
        <5> QED BY <1>2, <5>1
      <4>3. CASE rid = 13
        <5>1. PICK n \in Ints : DeviceInit[rid] = Value("Time", n)
          BY SMT, <4>3 DEF DeviceInit
        <5> HIDE DEF Ints
        <5> QED BY <1>2, <5>1
      <4>4. CASE rid \notin {9, 10, 20, 21, 13}
        <5>1. DeviceInit[rid] = Value("String", <<70>>)
          BY SMT, <2>2, <4>4 DEF DeviceInit
        <5> QED BY <1>3, <5>1
      <4> QED BY <4>1, <4>2, <4>3, <4>4
    <3> QED BY <3>1, <3>2 DEF Holdable
  <2> QED BY <2>1, <2>2
<1>6. HeldOK(Connectivity, ConnectivityInit)
  <2> SUFFICES ASSUME NEW rid \in 0 .. 10
               PROVE  Holdable(Connectivity, rid, ConnectivityInit[rid])
    BY DEF HeldOK, ConnectivityInit
  <2>1. CASE rid \in {1, 4, 5, 7}
    <3>1. rid \in Multiple(Connectivity)
      BY <2>1 DEF Multiple, Connectivity, Device
    <3>2. CASE rid = 1
      <4>1. ConnectivityInit[rid] = <<Value("Integer", 41)>>
        BY <3>2 DEF ConnectivityInit
      <4> QED BY <1>4, <3>1, <4>1
    <3>3. CASE rid \in {4, 5, 7}
      <4>1. PICK list : list = ConnectivityInit[rid] /\ list = <<>>
        BY <3>3 DEF ConnectivityInit
      <4>2. list \in Seq({}) /\ DOMAIN list = {}
        BY <4>1
      <4> QED BY <3>1, <4>1, <4>2, ListHeld
    <3> QED BY <2>1, <3>2, <3>3
  <2>2. CASE rid \notin {1, 4, 5, 7}
    <3>1. rid \notin Multiple(Connectivity)
      BY <2>2 DEF Multiple, Connectivity, Device
    <3>2. \E n \in Ints : ConnectivityInit[rid] = Value("Integer", n)
      <4>1. ConnectivityInit[rid] \in {Value("Integer", 41), Value("Integer", -70),
                                      Value("Integer", 100), Value("Integer", 0)}
        BY <2>2 DEF ConnectivityInit
      <4> QED BY <4>1
    <3> HIDE DEF Ints
    <3> QED BY <1>2, <3>1, <3>2 DEF Holdable
  <2> QED BY <2>1, <2>2
<1> QED BY <1>5, <1>6

LEMMA InitInv == Init => Inv
<1> SUFFICES ASSUME Init PROVE Inv
  OBVIOUS
<1>1. objs = [o \in Objects |-> objs[o]]
  BY DEF Init
<1>2. \A o \in Tables : objs[o] = NoTable
  BY Kind DEF Init
<1>3. objs[Device] = DeviceInit
  BY Kind DEF Init
<1>4. objs[Location] = [fix |-> NoFix, has |-> FALSE]
  BY Kind DEF Init
<1>5. /\ NoTable.next = 0 /\ DOMAIN NoTable.inst = {}
      /\ NoTable = [inst |-> NoTable.inst, next |-> NoTable.next]
      /\ NoTable.inst = [iid \in DOMAIN NoTable.inst |-> NoTable.inst[iid]]
  BY DEF NoTable
<1>6. ASSUME NEW o \in Tables PROVE TableOK(o, NoTable)
  <2>1. 0 \in U16
    BY Ranges
  <2> QED BY <1>5, <2>1 DEF TableOK, InstancesOK
<1>7. DeviceOK(DeviceInit)
  <2>1. /\ DOMAIN DeviceInit = (0 .. 21) \ {4, 5, 12}
        /\ DeviceInit = [rid \in DOMAIN DeviceInit |-> DeviceInit[rid]]
    BY DEF DeviceInit
  <2>2. DeviceInit[11] = <<NoError>>
    BY DEF DeviceInit
  <2>3. HeldOK(Device, DeviceInit)
    BY InitHeld
  <2> QED BY <2>1, <2>2, <2>3, OneErrorOK, NoErrorOK DEF DeviceOK
<1>8. LocationOK([fix |-> NoFix, has |-> FALSE])
  BY DEF LocationOK
<1>9. ConnectivityOK(ConnectivityInit)
  <2>1. /\ DOMAIN ConnectivityInit = 0 .. 10
        /\ ConnectivityInit = [rid \in DOMAIN ConnectivityInit |-> ConnectivityInit[rid]]
    BY DEF ConnectivityInit
  <2> QED BY <2>1, InitHeld DEF ConnectivityOK
<1>10. objs[Connectivity] = ConnectivityInit
  BY Kind DEF Init
<1>11. \A o \in Objects : StateOK(o, objs[o])
  BY <1>2, <1>3, <1>4, <1>6, <1>7, <1>8, <1>9, <1>10 DEF StateOK, FixOK
<1>12. \A o \in Tables : Fresh(objs[o]) /\ MaxU16 \notin DOMAIN objs[o].inst
  BY <1>2, <1>5 DEF Fresh
<1>13. exch = Idle /\ wrapped = {} /\ ops \in 0 .. MaxOps
  BY RequestsAssumption DEF Init
<1> QED BY <1>1, <1>11, <1>12, <1>13 DEF Inv, ObjsOK, FreshOK, ExchOK

(* One object changes, in a way EffectOK allows. *)
LEMMA ObjectStep ==
    ASSUME ObjsOK, FreshOK, wrapped \subseteq Tables, NEW o \in Objects, NEW new, NEW S,
           EffectOK(o, objs[o], new, S),
           objs' = [objs EXCEPT ![o] = new], wrapped' = wrapped \cup Wraps(objs')
    PROVE  /\ ObjsOK' /\ FreshOK' /\ wrapped' \subseteq Tables
           /\ objs'[o] = new /\ \A q \in Objects : q # o => objs'[q] = objs[q]
           /\ \A q \in Tables : \A iid \in DOMAIN objs[q].inst :
                Kept(objs[q], objs'[q], iid) \/ (q = o /\ iid \in S)
<1>1. objs = [q \in Objects |-> objs[q]] /\ \A q \in Objects : StateOK(q, objs[q])
  BY DEF ObjsOK
<1>2. /\ objs' = [q \in Objects |-> objs'[q]] /\ objs'[o] = new
      /\ \A q \in Objects : q # o => objs'[q] = objs[q]
  BY <1>1
<1>3. ObjsOK'
  <2>1. \A q \in Objects : StateOK(q, objs'[q])
    BY <1>1, <1>2 DEF EffectOK
  <2> QED BY <1>2, <2>1 DEF ObjsOK
<1>4. wrapped' \subseteq Tables
  BY DEF Wraps
<1>5. ASSUME NEW q \in Tables, q \notin wrapped'
      PROVE  Fresh(objs'[q]) /\ MaxU16 \notin DOMAIN objs'[q].inst
  <2>1. q \notin wrapped /\ MaxU16 \notin DOMAIN objs'[q].inst
    BY <1>5 DEF Wraps
  <2>2. Fresh(objs[q])
    BY <2>1 DEF FreshOK
  <2>3. CASE q = o
    BY <1>2, <2>1, <2>2, <2>3 DEF EffectOK
  <2>4. CASE q # o
    <3>1. objs'[q] = objs[q]
      BY <1>2, <2>4, Kind
    <3> QED BY <2>1, <2>2, <3>1
  <2> QED BY <2>3, <2>4
<1>6. FreshOK'
  <2>1. \A q \in Tables \ wrapped' : Fresh(objs'[q]) /\ MaxU16 \notin DOMAIN objs'[q].inst
    BY <1>5
  <2> QED BY <2>1 DEF FreshOK
<1>7. ASSUME NEW q \in Tables, NEW iid \in DOMAIN objs[q].inst
      PROVE  Kept(objs[q], objs'[q], iid) \/ (q = o /\ iid \in S)
  <2>1. CASE q = o
    BY <1>2, <2>1 DEF EffectOK
  <2>2. CASE q # o
    BY <1>2, <2>2, Kind DEF Kept
  <2> QED BY <2>1, <2>2
<1> QED BY <1>2, <1>3, <1>4, <1>6, <1>7

(* The first two ids of a path. *)
LEMMA FirstTwo ==
    ASSUME NEW path, PathOK(path), Len(path) > 1
    PROVE  SubSeq(path, 1, 2) = <<path[1], path[2]>>
<1>1. path \in Seq(U16) /\ Len(path) \in Nat
  BY DEF PathOK
<1>2. /\ SubSeq(path, 0 + 1, 2) \in Seq(U16) /\ Len(SubSeq(path, 0 + 1, 2)) = 2 - 0
      /\ \A k \in 1 .. 2 - 0 : SubSeq(path, 0 + 1, 2)[k] = path[0 + k]
  BY <1>1, Piece
<1>3. PICK s : s = SubSeq(path, 1, 2)
  OBVIOUS
<1>4. s \in Seq(U16) /\ Len(s) = 2 /\ s[1] = path[1] /\ s[2] = path[2]
  BY <1>2, <1>3
<1>5. path[1] \in U16 /\ path[2] \in U16
  BY <1>1, ElementOfSeq
<1>6. PICK t : t = <<path[1], path[2]>>
  OBVIOUS
<1>7. t \in Seq(U16) /\ Len(t) = 2 /\ t[1] = path[1] /\ t[2] = path[2]
  BY <1>5, <1>6
<1>8. \A k \in 1 .. 2 : s[k] = t[k]
  BY <1>4, <1>7
<1>9. s = t
  BY <1>4, <1>7, <1>8, SeqEqual
<1> QED BY <1>3, <1>6, <1>9

RequestMethods == {"GET", "PUT", "POST", "DELETE"}

(* A request: its handler does what HandlerOK says, if it is reached. *)
LEMMA HandleStep ==
    ASSUME Inv, NEW options \in Paths, NEW method \in RequestMethods,
           NEW body \in Bodies \cup {NoBody}, NEW A, NEW path, path = parse(uri_path(options)),
           PathOK(path) /\ path[1] \in Objects => HandlerOK(path, objs[path[1]], A),
           Handle(method, options, body, A)
    PROVE  Inv' /\ RefusedChangesNothing /\ OthersStay /\ exch' # Idle
<1>1. path = NoPath \/ PathOK(path)
  BY RequestsAssumption, UriPathOK, ParseOK
<1> DEFINE a == Guarded(method, path, A)
<1>2. PICK code \in a.codes :
        exch' = [method |-> method, path |-> path, body |-> body,
                 code |-> code, payload |-> a.payload]
  BY DEF Handle
<1>3. /\ ops < MaxOps /\ ops' = ops + 1
      /\ objs' = IF "st" \in DOMAIN a THEN [objs EXCEPT ![path[1]] = a.st] ELSE objs
      /\ wrapped' = wrapped \cup Wraps(objs')
  BY DEF Handle
<1>4. ops' \in 0 .. MaxOps
  BY <1>3, RequestsAssumption DEF Inv
<1>5. exch'.method = method /\ exch'.path = path /\ exch'.body = body /\ exch'.code = code
  BY <1>2
<1>6. exch' # Idle
  <2>1. Idle.method = "none"
    BY DEF Idle
  <2> QED BY <1>5, <2>1 DEF RequestMethods
<1>7. CASE a.codes \in {{"BadRequest"}, {"MethodNotAllowed"}, {"NotFound"}} /\ "st" \notin DOMAIN a
  <2> HIDE DEF a
  <2>1. objs' = objs /\ code \in Codes
    BY <1>3, <1>7, CodesHave DEF Errors
  <2>2. \A o \in Tables : MaxU16 \in DOMAIN objs[o].inst => o \in wrapped
    BY DEF Inv, FreshOK
  <2>3. wrapped' = wrapped
    BY <1>3, <2>1, <2>2 DEF Wraps
  <2>4. ObjsOK' /\ FreshOK' /\ wrapped' \subseteq Tables
    BY <2>1, <2>3 DEF Inv, ObjsOK, FreshOK
  <2>5. ExchOK'
    BY <1>5, <2>1 DEF ExchOK
  <2>6. RefusedChangesNothing /\ OthersStay
    BY <2>1 DEF RefusedChangesNothing, OthersStay
  <2> QED BY <1>4, <1>6, <2>4, <2>5, <2>6 DEF Inv
<1>8. CASE PathOK(path) /\ path[1] \in Objects /\ a = A
  <2> HIDE DEF a
  <2>1. PICK o \in Objects : o = path[1]
    BY <1>8
  <2>2. HandlerOK(path, objs[o], a)
    BY <1>8, <2>1
  <2>3. "st" \in DOMAIN a
    BY <2>2 DEF HandlerOK
  <2>4. code \in Codes /\ EffectOK(o, objs[o], a.st, Named(path))
    BY <2>1, <2>2 DEF HandlerOK
  <2>5. objs' = [objs EXCEPT ![o] = a.st] /\ wrapped' = wrapped \cup Wraps(objs')
    BY <1>3, <2>1, <2>3
  <2>6. /\ ObjsOK' /\ FreshOK' /\ wrapped' \subseteq Tables
        /\ objs'[o] = a.st /\ \A q \in Objects : q # o => objs'[q] = objs[q]
        /\ \A q \in Tables : \A iid \in DOMAIN objs[q].inst :
             Kept(objs[q], objs'[q], iid) \/ (q = o /\ iid \in Named(path))
    BY <2>4, <2>5, ObjectStep DEF Inv
  <2>7. ExchOK'
    BY <1>5, <2>4 DEF ExchOK
  <2>8. RefusedChangesNothing
    <3> SUFFICES ASSUME ~is_resource_instance(path), code \notin Changing,
                        NEW q \in Objects, q # Location
                 PROVE  objs'[q] = objs[q]
      BY <1>5 DEF RefusedChangesNothing, Changing
    <3>1. CASE q = o
      BY <2>1, <2>2, <2>6, <3>1 DEF HandlerOK
    <3> QED BY <2>6, <3>1
  <2>9. OthersStay
    <3> SUFFICES ASSUME NEW q \in Tables, NEW iid \in DOMAIN objs[q].inst,
                        ~Kept(objs[q], objs'[q], iid)
                 PROVE  Len(path) > 1 /\ SubSeq(path, 1, 2) = <<q, iid>>
      BY <1>5, <1>6 DEF OthersStay, Kept
    <3>1. q = o /\ iid \in Named(path)
      BY <2>6
    <3>2. Len(path) > 1 /\ iid = path[2]
      BY <3>1 DEF Named
    <3> QED BY <1>8, <2>1, <3>1, <3>2, FirstTwo
  <2> QED BY <1>4, <1>6, <2>6, <2>7, <2>8, <2>9 DEF Inv
<1>9. \/ a.codes \in {{"BadRequest"}, {"MethodNotAllowed"}, {"NotFound"}} /\ "st" \notin DOMAIN a
      \/ path # NoPath /\ path[1] \in Objects /\ a = A
  BY DEF Guarded
<1> HIDE DEF a
<1> QED BY <1>1, <1>7, <1>8, <1>9

(* A call of the application, which leaves the exchange alone. *)
LEMMA CallStep ==
    ASSUME Inv, NEW o \in Objects, NEW new, EffectOK(o, objs[o], new, {}), AppCall(o, new)
    PROVE  Inv' /\ RefusedChangesNothing /\ OthersStay /\ exch' = Idle
<1>1. /\ exch = Idle /\ exch' = exch /\ ops < MaxOps /\ ops' = ops + 1
      /\ objs' = [objs EXCEPT ![o] = new] /\ wrapped' = wrapped \cup Wraps(objs')
  BY DEF AppCall
<1>2. ops' \in 0 .. MaxOps
  BY <1>1, RequestsAssumption DEF Inv
<1>3. /\ ObjsOK' /\ FreshOK' /\ wrapped' \subseteq Tables
      /\ \A q \in Tables : \A iid \in DOMAIN objs[q].inst :
           Kept(objs[q], objs'[q], iid) \/ (q = o /\ iid \in {})
  BY <1>1, ObjectStep DEF Inv
<1>4. ExchOK'
  BY <1>1 DEF ExchOK
<1>5. RefusedChangesNothing
  BY <1>1 DEF RefusedChangesNothing
<1>6. OthersStay
  BY <1>3 DEF OthersStay, Kept
<1> QED BY <1>1, <1>2, <1>3, <1>4, <1>5, <1>6 DEF Inv

LEMMA ConfigsOK == \A c \in Configs : c[1] \in Tables /\ InstanceOK(c[1], c[2])
BY CallsAssumption DEF InstanceOK

LEMMA NextInv ==
    ASSUME Inv, [Next]_vars
    PROVE  Inv' /\ RefusedChangesNothing /\ OthersStay
<1>0. \A o \in Objects : StateOK(o, objs[o])
  BY DEF Inv, ObjsOK
<1>1. ASSUME NEW p \in Paths, Get(p) PROVE Inv' /\ RefusedChangesNothing /\ OthersStay
  <2>1. PICK path : path = parse(uri_path(p))
    OBVIOUS
  <2>2. PICK fixes \in Fixes(path) :
          Handle("GET", p, NoBody, process_read(path, objs[path[1]], fixes))
    BY <1>1, <2>1 DEF Get
  <2>3. PathOK(path) /\ path[1] \in Objects =>
          HandlerOK(path, objs[path[1]], process_read(path, objs[path[1]], fixes))
    BY <1>0, NoPathEmpty, ReadHandlerOK DEF PathOK
  <2>4. "GET" \in RequestMethods
    BY DEF RequestMethods
  <2> QED BY <2>1, <2>2, <2>3, <2>4, HandleStep
<1>2. ASSUME NEW p \in Paths, Delete(p) PROVE Inv' /\ RefusedChangesNothing /\ OthersStay
  <2>1. PICK path : path = parse(uri_path(p))
    OBVIOUS
  <2>2. Handle("DELETE", p, NoBody, process_delete(path, objs[path[1]]))
    BY <1>2, <2>1 DEF Delete
  <2>3. path[1] \in Objects => HandlerOK(path, objs[path[1]], process_delete(path, objs[path[1]]))
    BY <1>0, DeleteHandlerOK
  <2>4. "DELETE" \in RequestMethods
    BY DEF RequestMethods
  <2> QED BY <2>1, <2>2, <2>3, <2>4, HandleStep
<1>3. ASSUME NEW p \in Paths, NEW b \in Bodies, Put(p, b)
      PROVE  Inv' /\ RefusedChangesNothing /\ OthersStay
  <2>1. PICK path : path = parse(uri_path(p))
    OBVIOUS
  <2>2. Handle("PUT", p, b, process_write(path, objs[path[1]], Bytes(b)))
    BY <1>3, <2>1 DEF Put
  <2>3. path[1] \in Objects => HandlerOK(path, objs[path[1]], process_write(path, objs[path[1]], Bytes(b)))
    BY <1>0, BytesOK, WriteHandlerOK
  <2>4. "PUT" \in RequestMethods
    BY DEF RequestMethods
  <2> QED BY <2>1, <2>2, <2>3, <2>4, HandleStep
<1>4. ASSUME NEW p \in Paths, NEW b \in Bodies, Post(p, b)
      PROVE  Inv' /\ RefusedChangesNothing /\ OthersStay
  <2>1. PICK path : path = parse(uri_path(p))
    OBVIOUS
  <2>2. PICK A : /\ A = IF is_resource(path) THEN process_execute(path, objs[path[1]])
                        ELSE process_write(path, objs[path[1]], Bytes(b))
                 /\ Handle("POST", p, b, A)
    BY <1>4, <2>1 DEF Post
  <2>3. path[1] \in Objects => HandlerOK(path, objs[path[1]], A)
    <3> SUFFICES ASSUME path[1] \in Objects PROVE HandlerOK(path, objs[path[1]], A)
      OBVIOUS
    <3>1. HandlerOK(path, objs[path[1]], process_execute(path, objs[path[1]]))
      BY <1>0, ExecuteHandlerOK
    <3>2. HandlerOK(path, objs[path[1]], process_write(path, objs[path[1]], Bytes(b)))
      BY <1>0, BytesOK, WriteHandlerOK
    <3> QED BY <2>2, <3>1, <3>2
  <2>4. "POST" \in RequestMethods
    BY DEF RequestMethods
  <2> QED BY <2>1, <2>2, <2>3, <2>4, HandleStep
<1>5. CASE Reply
  BY <1>5 DEF Reply, Inv, ObjsOK, FreshOK, Fresh, ExchOK, StateOK, RefusedChangesNothing, OthersStay
<1>6. ASSUME NEW o \in Tables, NEW iid \in Suggested, AppCreates(o, iid)
      PROVE  Inv' /\ RefusedChangesNothing /\ OthersStay
  <2>1. o \in Objects /\ iid \in U16 \cup {NoId}
    BY Kind, CallsAssumption
  <2>2. EffectOK(o, objs[o], create_instance(o, objs[o], iid).st, {})
    BY <1>0, <2>1, CreateEffect
  <2> QED BY <1>6, <2>1, <2>2, CallStep DEF AppCreates
<1>7. ASSUME NEW c \in Configs, AppAddsServer(c[1], c[2])
      PROVE  Inv' /\ RefusedChangesNothing /\ OthersStay
  <2>1. PICK fields : fields = c[2] /\ InstanceOK(c[1], fields)
    BY ConfigsOK
  <2>2. PICK o \in Tables : o = c[1] /\ InstanceOK(o, fields)
    BY <2>1, ConfigsOK
  <2>3. o \in Objects
    BY Kind
  <2>4. EffectOK(o, objs[o], add_server(o, objs[o], fields).st, {})
    BY <1>0, <2>2, <2>3, AddEffect
  <2> QED BY <1>7, <2>1, <2>2, <2>3, <2>4, CallStep DEF AppAddsServer
<1>8. ASSUME NEW new, DeviceOK(new), AppCall(Device, new)
      PROVE  Inv' /\ RefusedChangesNothing /\ OthersStay
  <2>1. EffectOK(Device, objs[Device], new, {})
    BY <1>8, Kind DEF EffectOK, StateOK
  <2> QED BY <1>8, <2>1, Kind, CallStep
<1>9. DeviceOK(objs[Device]) /\ LocationOK(objs[Location])
  BY <1>0, Kind DEF StateOK
<1>10. ASSUME NEW e \in ErrorCodes, AppRaises(e) PROVE Inv' /\ RefusedChangesNothing /\ OthersStay
  <2>1. OfType(e)
    BY CallsAssumption
  <2> QED BY <1>8, <1>9, <1>10, <2>1, AddErrorOK DEF AppRaises
<1>11. CASE AppClears
  BY <1>8, <1>9, <1>11, ClearErrorsOK DEF AppClears
<1>13. ASSUME NEW s \in Settings, s[1] = Device, AppSetsDevice(s[2], s[3])
       PROVE  Inv' /\ RefusedChangesNothing /\ OthersStay
  <2>1. PICK rid \in {9, 10, 20} : rid = s[2] /\ OfType(s[3])
    BY <1>13, Kind, CallsAssumption
  <2>2. Holdable(Device, rid, s[3])
    BY <2>1 DEF Holdable, Multiple
  <2>3. rid \in DOMAIN objs[Device] /\ rid # 11
    BY <1>9 DEF DeviceOK
  <2>4. DeviceOK([objs[Device] EXCEPT ![rid] = s[3]])
    BY <1>9, <2>3, <2>2, SetDeviceOK
  <2> QED BY <1>8, <1>13, <2>1, <2>4 DEF AppSetsDevice
<1>14. ASSUME NEW s \in Settings, s[1] = Connectivity, AppSetsConnectivity(s[2], s[3])
       PROVE  Inv' /\ RefusedChangesNothing /\ OthersStay
  <2>1. PICK rid \in 0 .. 7 : rid = s[2] /\ Holdable(Connectivity, rid, s[3])
    BY <1>14, Kind, CallsAssumption
  <2>2. PICK new : new = set_connectivity(objs[Connectivity], rid, s[3])
    OBVIOUS
  <2>3. ConnectivityOK(objs[Connectivity])
    BY <1>0, Kind DEF StateOK
  <2>4. ConnectivityOK(new)
    BY <2>1, <2>2, <2>3, SetConnectivityOK
  <2>5. EffectOK(Connectivity, objs[Connectivity], new, {})
    BY <2>4, Kind DEF EffectOK, StateOK
  <2>6. AppCall(Connectivity, new)
    BY <1>14, <2>1, <2>2 DEF AppSetsConnectivity
  <2> QED BY <2>5, <2>6, Kind, CallStep
<1>15. CASE UNCHANGED vars
  <2>1. objs' = objs /\ exch' = exch /\ wrapped' = wrapped /\ ops' = ops
    BY <1>15 DEF vars
  <2>2. ObjsOK' /\ FreshOK' /\ ExchOK'
    BY <2>1 DEF Inv, ObjsOK, FreshOK, ExchOK
  <2>3. RefusedChangesNothing /\ OthersStay
    BY <2>1 DEF RefusedChangesNothing, OthersStay
  <2> QED BY <2>1, <2>2, <2>3 DEF Inv
<1> QED
  BY <1>1, <1>2, <1>3, <1>4, <1>5, <1>6, <1>7, <1>10, <1>11, <1>13, <1>14, <1>15 DEF Next

THEOREM Invariant == Spec => []Inv
<1>1. Inv /\ [Next]_vars => Inv'
  BY NextInv
<1> QED BY <1>1, InitInv, PTL DEF Spec

(* What is where in q: k elements of s, then l elements of r. *)
IsJoin(q, s, r, k, l) ==
    /\ Len(q) = k + l
    /\ \A i \in 1 .. k : q[i] = s[i]
    /\ \A i \in 1 .. l : q[k + i] = r[i]

LEMMA Joined ==
    ASSUME NEW S, NEW s \in Seq(S), NEW r \in Seq(S), NEW k \in Nat, NEW l \in Nat,
           Len(s) = k, Len(r) = l
    PROVE  IsJoin(s \o r, s, r, k, l)
<1>1. /\ Len(s \o r) = Len(s) + Len(r)
      /\ \A i \in 1 .. Len(s) + Len(r) :
           (s \o r)[i] = IF i <= Len(s) THEN s[i] ELSE r[i - Len(s)]
  BY ConcatProperties
<1>2. \A i \in 1 .. k + l : (s \o r)[i] = IF i <= k THEN s[i] ELSE r[i - k]
  BY <1>1
<1>3. ASSUME NEW i \in 1 .. k PROVE (s \o r)[i] = s[i]
  BY <1>2
<1>4. ASSUME NEW i \in 1 .. l PROVE (s \o r)[k + i] = r[i]
  <2>1. k + i \in 1 .. k + l /\ ~(k + i <= k) /\ (k + i) - k = i
    OBVIOUS
  <2> QED BY <1>2, <2>1
<1> QED BY <1>1, <1>3, <1>4 DEF IsJoin

(* The records of a body: first those that were sent, then those of what   *)
(* follows.                                                                *)
SentIn(b, got, more) ==
    /\ got.ok <=> more.ok
    /\ Len(b.items) \in Nat /\ DOMAIN b.items = 1 .. Len(b.items)
    /\ more.ok =>
         /\ Records(got.value) /\ Records(more.value)
         /\ Len(got.value) = Len(b.items) + Len(more.value)
         /\ \A i \in 1 .. Len(b.items) :
              /\ got.value[i].type = Resource /\ got.value[i].id = b.items[i][1]
              /\ got.value[i].value = serialize(b.items[i][2])
              /\ decode_resource(got.value[i].value, get_resource_type(b.items[i][2]))
                   = Ok(Received(b.items[i][2]))
         /\ \A i \in 1 .. Len(more.value) :
              got.value[Len(b.items) + i] = more.value[i]

LEMMA SentFirst ==
    ASSUME NEW b \in Bodies \cup {NoBody}, b.cut = 0
    PROVE  SentIn(b, decode(Bytes(b)), decode(b.tail))
<1> DEFINE n == Len(b.items)
<1>1. PICK got, more : got = decode(Bytes(b)) /\ more = decode(b.tail)
  OBVIOUS
<1>2. got = Then(Sent(b), more)
  BY <1>1, BytesOK
<1>3. n \in Nat /\ DOMAIN b.items = 1 .. n
  BY BodyParts, ItemsForm
<1>4. DecodedOK(more) /\ DecodedOK(got)
  <2>1. b.tail \in Seq(Byte) /\ Bytes(b) \in Seq(Byte)
    BY BodyParts, BytesOK
  <2> QED BY <1>1, <2>1, DecodeTyped DEF decode
<1>5. ASSUME NEW i \in 1 .. n
      PROVE  /\ Sent(b)[i].type = Resource /\ Sent(b)[i].id = b.items[i][1]
             /\ Sent(b)[i].value = serialize(b.items[i][2])
             /\ decode_resource(Sent(b)[i].value, get_resource_type(b.items[i][2]))
                  = Ok(Received(b.items[i][2]))
  <2>1. Sendable(b.items[i][2])
    BY BodyParts, ItemsForm
  <2>2. PICK v : v = b.items[i][2]
    OBVIOUS
  <2>3. Sent(b)[i] = DecodedRecord(Resource, b.items[i][1], serialize(v), 0)
    BY <2>2 DEF Sent, ItemRecords
  <2>4. /\ Sent(b)[i].type = Resource /\ Sent(b)[i].id = b.items[i][1]
        /\ Sent(b)[i].value = serialize(v)
    BY <2>3 DEF DecodedRecord
  <2>5. decode_resource(serialize(v), get_resource_type(v)) = Ok(Received(v))
    BY <2>1, <2>2, ValueRoundTrip
  <2> QED BY <2>2, <2>4, <2>5
<1>6. CASE ~more.ok
  <2>1. ~got.ok
    BY <1>2, <1>6 DEF Then
  <2> QED BY <1>1, <1>3, <1>6, <2>1 DEF SentIn
<1>7. CASE more.ok
  <2>1. got = Ok(Sent(b) \o more.value)
    BY <1>2, <1>7 DEF Then
  <2>2. got.ok /\ got.value = Sent(b) \o more.value
    BY <2>1, Parts
  <2>3. Records(more.value) /\ Records(got.value)
    BY <1>4, <1>7, <2>2, Parts DEF DecodedOK
  <2>4. PICK S : more.value \in Seq(S)
    BY <2>3 DEF Records
  <2>5. PICK s : s = Sent(b)
    OBVIOUS
  <2>6. PICK Q : Q = S \cup {s[i] : i \in 1 .. n}
    OBVIOUS
  <2>7. s \in Seq(Q) /\ Len(s) = n
    <3>1. s = [i \in 1 .. n |-> s[i]]
      BY <2>5 DEF Sent, ItemRecords
    <3>2. s \in [1 .. n -> Q]
      BY <2>6, <3>1
    <3>3. s \in Seq(Q) /\ DOMAIN s = 1 .. n
      BY <1>3, <3>2, SeqDef
    <3>4. Len(s) \in Nat /\ DOMAIN s = 1 .. Len(s)
      BY <3>3, LenProperties
    <3> QED BY <1>3, <3>3, <3>4, SameBound
  <2>8. PICK r \in Seq(Q) : r = more.value
    BY <2>4, <2>6, SeqMonotonic
  <2>9. Len(r) \in Nat
    BY LenProperties
  <2>10. PICK k \in Nat : k = n
    BY <1>3
  <2>11. PICK l \in Nat : l = Len(r)
    BY <2>9
  <2>12. /\ Len(s \o r) = k + l
         /\ \A i \in 1 .. k : (s \o r)[i] = s[i]
         /\ \A i \in 1 .. l : (s \o r)[k + i] = r[i]
    <3>1. s \in Seq(Q) /\ r \in Seq(Q) /\ Len(s) = k /\ Len(r) = l
      BY <2>7, <2>8, <2>10, <2>11
    <3> HIDE DEF n
    <3>2. IsJoin(s \o r, s, r, k, l)
      BY <3>1, Joined
    <3> QED BY <3>2 DEF IsJoin
  <2>13. got.value = s \o r
    BY <2>2, <2>5, <2>8
  <2>14. Len(got.value) = n + Len(more.value)
    BY <2>8, <2>10, <2>11, <2>12, <2>13
  <2>15. ASSUME NEW i \in 1 .. n
         PROVE  /\ got.value[i].type = Resource /\ got.value[i].id = b.items[i][1]
                /\ got.value[i].value = serialize(b.items[i][2])
                /\ decode_resource(got.value[i].value, get_resource_type(b.items[i][2]))
                     = Ok(Received(b.items[i][2]))
    <3>1. got.value[i] = Sent(b)[i]
      BY <2>5, <2>10, <2>12, <2>13
    <3> QED BY <1>5, <3>1
  <2>16. ASSUME NEW i \in 1 .. Len(more.value) PROVE got.value[n + i] = more.value[i]
    BY <2>8, <2>10, <2>11, <2>12, <2>13
  <2> QED BY <1>1, <1>3, <1>7, <2>2, <2>3, <2>14, <2>15, <2>16 DEF SentIn
<1> QED BY <1>6, <1>7

-----------------------------------------------------------------------------
(* The theorems that follow from the invariant alone. *)

(* Whatever is written, created or called, the ids of Security and Server  *)
(* fit 16 bits, every field stays within its C++ type, a position is kept  *)
(* only if it is valid, and every answer has one of the codes.             *)
THEOREM TypesCorrect == Spec => []TypeOK
<1>1. ASSUME Inv PROVE TypeOK
  <2>1. \A o \in Objects : StateOK(o, objs[o])
    BY <1>1 DEF Inv, ObjsOK
  <2>2. ASSUME NEW o \in Tables
        PROVE  /\ objs[o].next \in U16 /\ DOMAIN objs[o].inst \subseteq U16
               /\ \A iid \in DOMAIN objs[o].inst :
                    /\ DOMAIN objs[o].inst[iid] = DOMAIN Fields(o)
                    /\ \A rid \in DOMAIN Fields(o) : InWidth(Fields(o)[rid], objs[o].inst[iid][rid])
    <3>1. objs[o].next \in U16 /\ InstancesOK(o, objs[o].inst)
      BY <2>1, Kind DEF StateOK, TableOK
    <3>2. ASSUME NEW iid \in DOMAIN objs[o].inst
          PROVE  /\ DOMAIN objs[o].inst[iid] = DOMAIN Fields(o)
                 /\ \A rid \in DOMAIN Fields(o) : InWidth(Fields(o)[rid], objs[o].inst[iid][rid])
      <4>1. PICK fields : fields = objs[o].inst[iid] /\ InstanceOK(o, fields)
        BY <3>1 DEF InstancesOK
      <4> QED BY <4>1 DEF InstanceOK
    <3> QED BY <3>1, <3>2 DEF InstancesOK
  <2>3. DeviceOK(objs[Device]) /\ LocationOK(objs[Location])
    BY <2>1, Kind DEF StateOK
  <2>4. objs[Device][11] # <<>> /\ (objs[Location].has => objs[Location].fix.valid)
    BY <2>3 DEF DeviceOK, ErrorsOK, LocationOK
  <2>5. HeldOK(Device, objs[Device]) /\ HeldOK(Connectivity, objs[Connectivity])
    BY <2>1, Kind DEF StateOK, DeviceOK, ConnectivityOK
  <2>6. \A o \in {Device, Connectivity} :
          \A rid \in DOMAIN objs[o] : Holdable(o, rid, objs[o][rid])
    BY <2>5 DEF HeldOK
  <2>7. (exch = Idle \/ exch.code \in Codes) /\ wrapped \subseteq Tables /\ ops \in 0 .. MaxOps
    BY <1>1 DEF Inv, ExchOK
  <2> QED BY <2>2, <2>4, <2>7, <2>6 DEF TypeOK
<1> QED BY <1>1, Invariant, PTL

(* A server that reads the error code of Device never gets NoError while   *)
(* the list has an error, in whatever order errors are raised and cleared. *)
THEOREM ErrorsNeverMasked == Spec => []ErrorsNotMasked
<1>1. ASSUME Inv PROVE ErrorsNotMasked
  <2>1. ErrorsOK(objs[Device][11])
    BY <1>1, Kind DEF Inv, ObjsOK, StateOK, DeviceOK
  <2> QED BY <2>1 DEF ErrorsNotMasked, ErrorsOK
<1> QED BY <1>1, Invariant, PTL

(* A body that lost nothing is decoded into the resources it was made of,  *)
(* for every id, every value a record can carry and any number of them; a  *)
(* time into its whole seconds, which is all that the format has of it.    *)
THEOREM DecodedAsSent == Spec => []DecodesWhatWasSent
<1>1. ASSUME Inv PROVE DecodesWhatWasSent
  <2> SUFFICES ASSUME exch # Idle, exch.body.cut = 0, decode(exch.body.tail).ok
               PROVE  LET sent == exch.body.items
                          got  == decode(Bytes(exch.body)).value
                      IN  decode(Bytes(exch.body)).ok /\ \A i \in DOMAIN sent :
                            /\ got[i].type = Resource /\ got[i].id = sent[i][1]
                            /\ decode_resource(got[i].value, get_resource_type(sent[i][2]))
                                 = Ok(Received(sent[i][2]))
    BY DEF DecodesWhatWasSent
  <2>1. PICK b \in Bodies \cup {NoBody} : b = exch.body
    BY <1>1 DEF Inv, ExchOK
  <2>2. b.cut = 0 /\ decode(b.tail).ok
    BY <2>1
  <2>3. PICK got, more : got = decode(Bytes(b)) /\ more = decode(b.tail) /\ SentIn(b, got, more)
    BY <2>2, SentFirst
  <2>4. /\ got.ok /\ DOMAIN b.items = 1 .. Len(b.items)
        /\ \A i \in 1 .. Len(b.items) :
             /\ got.value[i].type = Resource /\ got.value[i].id = b.items[i][1]
             /\ decode_resource(got.value[i].value, get_resource_type(b.items[i][2]))
                  = Ok(Received(b.items[i][2]))
    BY <2>2, <2>3 DEF SentIn
  <2> QED BY <2>1, <2>3, <2>4
<1> QED BY <1>1, Invariant, PTL

(* No request or call changes or removes an instance it does not address,  *)
(* also when next_instance_id_ has wrapped, and a refused one changes      *)
(* nothing but the position.                                               *)
THEOREM OthersAreKept == Spec => OthersKept
<1>1. Inv /\ [Next]_vars => RefusedChangesNothing /\ OthersStay
  BY NextInv
<1> QED BY <1>1, Invariant, PTL DEF Spec, OthersKept

-----------------------------------------------------------------------------
(* The steps that are writes. *)

(* A step answers a read or a write: A is what the handler does, if it is  *)
(* reached.                                                                *)
Answered(path, b, A) ==
    /\ exch'.path = path /\ exch'.body = b
    /\ \/ /\ PathOK(path) /\ path[1] \in Objects
          /\ exch'.code \in A.codes /\ exch'.payload = A.payload /\ objs'[path[1]] = A.st
       \/ /\ path = NoPath \/ path[1] \notin Objects
          /\ exch'.code \in Errors

LEMMA Handled ==
    ASSUME Inv, NEW options \in Paths, NEW method \in {"GET", "PUT", "POST"},
           NEW b, NEW A, NEW path, path = parse(uri_path(options)),
           PathOK(path) /\ path[1] \in Objects => HandlerOK(path, objs[path[1]], A),
           Handle(method, options, b, A)
    PROVE  exch'.method = method /\ Answered(path, b, A)
<1>1. path = NoPath \/ PathOK(path)
  BY RequestsAssumption, UriPathOK, ParseOK
<1> DEFINE a == Guarded(method, path, A)
<1>2. PICK code \in a.codes :
        exch' = [method |-> method, path |-> path, body |-> b,
                 code |-> code, payload |-> a.payload]
  BY DEF Handle
<1>3. objs' = IF "st" \in DOMAIN a THEN [objs EXCEPT ![path[1]] = a.st] ELSE objs
  BY DEF Handle
<1>4. exch'.method = method /\ exch'.path = path /\ exch'.body = b /\ exch'.code = code
  BY <1>2
<1>5. exch'.payload = a.payload
  BY <1>2
<1>6. CASE path = NoPath \/ path[1] \notin Objects
  <2>1. a.codes \in {{"BadRequest"}, {"NotFound"}}
    BY <1>6 DEF Guarded
  <2>2. code \in Errors
    BY <2>1 DEF Errors
  <2> QED BY <1>4, <1>6, <2>2 DEF Answered
<1>7. CASE path # NoPath /\ path[1] \in Objects
  <2>1. a = A
    BY <1>7 DEF Guarded
  <2> HIDE DEF a
  <2>2. PICK o \in Objects : o = path[1] /\ HandlerOK(path, objs[o], A)
    BY <1>1, <1>7
  <2>3. "st" \in DOMAIN A
    BY <2>2 DEF HandlerOK
  <2>4. objs' = [objs EXCEPT ![o] = A.st] /\ objs = [q \in Objects |-> objs[q]]
    BY <1>3, <2>1, <2>2, <2>3 DEF Inv, ObjsOK
  <2>5. objs'[o] = A.st
    BY <2>4
  <2> QED BY <1>1, <1>4, <1>7, <1>5, <2>1, <2>2, <2>5 DEF Answered
<1> QED BY <1>6, <1>7

(* What a write is handled by. *)
Handler(method, path, b) ==
    IF method = "POST" /\ is_resource(path) THEN process_execute(path, objs[path[1]])
    ELSE process_write(path, objs[path[1]], Bytes(b))

LEMMA WriteStep ==
    ASSUME Inv, [Next]_vars, exch = Idle, exch' # Idle, exch'.method \in {"PUT", "POST"}
    PROVE  \E b \in Bodies : \E path : Answered(path, b, Handler(exch'.method, path, b))
<1>0. \A o \in Objects : StateOK(o, objs[o])
  BY DEF Inv, ObjsOK
<1>1. ASSUME NEW p \in Paths, NEW b \in Bodies, Put(p, b)
      PROVE  \E path : Answered(path, b, Handler(exch'.method, path, b))
  <2>1. PICK path : path = parse(uri_path(p))
    OBVIOUS
  <2>2. PICK A : A = process_write(path, objs[path[1]], Bytes(b)) /\ Handle("PUT", p, b, A)
    BY <1>1, <2>1 DEF Put
  <2>3. path[1] \in Objects => HandlerOK(path, objs[path[1]], A)
    BY <1>0, <2>2, BytesOK, WriteHandlerOK
  <2>4. exch'.method = "PUT" /\ Answered(path, b, A)
    BY <2>1, <2>2, <2>3, Handled
  <2> QED BY <2>2, <2>4 DEF Handler
<1>2. ASSUME NEW p \in Paths, NEW b \in Bodies, Post(p, b)
      PROVE  \E path : Answered(path, b, Handler(exch'.method, path, b))
  <2>1. PICK path : path = parse(uri_path(p))
    OBVIOUS
  <2>2. PICK A : A = Handler("POST", path, b) /\ Handle("POST", p, b, A)
    BY <1>2, <2>1 DEF Post, Handler
  <2>3. path[1] \in Objects => HandlerOK(path, objs[path[1]], A)
    <3> SUFFICES ASSUME path[1] \in Objects PROVE HandlerOK(path, objs[path[1]], A)
      OBVIOUS
    <3>1. HandlerOK(path, objs[path[1]], process_execute(path, objs[path[1]]))
      BY <1>0, ExecuteHandlerOK
    <3>2. HandlerOK(path, objs[path[1]], process_write(path, objs[path[1]], Bytes(b)))
      BY <1>0, BytesOK, WriteHandlerOK
    <3> QED BY <2>2, <3>1, <3>2 DEF Handler
  <2>4. exch'.method = "POST" /\ Answered(path, b, A)
    BY <2>1, <2>2, <2>3, Handled
  <2> QED BY <2>2, <2>4
<1>3. ASSUME NEW method \in {"GET", "DELETE"}, NEW p, NEW b, NEW A, Handle(method, p, b, A)
      PROVE  FALSE
  <2>1. exch'.method = method
    BY <1>3 DEF Handle
  <2> QED BY <2>1
<1>4. ASSUME NEW p \in Paths PROVE ~Get(p) /\ ~Delete(p)
  <2>1. Get(p) => \E A : Handle("GET", p, NoBody, A)
    BY DEF Get
  <2>2. Delete(p) => \E A : Handle("DELETE", p, NoBody, A)
    BY DEF Delete
  <2> QED BY <1>3, <2>1, <2>2
<1>5. \A o, st : ~AppCall(o, st)
  BY DEF AppCall
<1>6. ~Reply /\ ~UNCHANGED vars
  BY DEF Reply, vars
<1> QED
  BY <1>1, <1>2, <1>4, <1>5, <1>6
  DEF Next, AppCreates, AppAddsServer, AppRaises, AppClears, AppSetsDevice,
      AppSetsConnectivity

(* A creation by a server: the table is below its counter, so the id is    *)
(* free, and the instance is the default one.                              *)
THEOREM CreatesUnlessWrapped == Spec => CreatedUnlessWrapped
<1>1. ASSUME Inv, [Next]_vars PROVE CreationSucceeds
  <2> SUFFICES ASSUME exch = Idle, exch' # Idle, exch'.method \in {"PUT", "POST"},
                      is_object(exch'.path), exch'.path[1] \in Tables \ wrapped,
                      decode(Bytes(exch'.body)).ok
               PROVE  /\ exch'.code = "Created"
                      /\ \E iid \in DOMAIN objs'[exch'.path[1]].inst \ DOMAIN objs[exch'.path[1]].inst :
                           objs'[exch'.path[1]].inst
                             = Store(objs[exch'.path[1]], iid, Blank(exch'.path[1])).inst
    BY DEF CreationSucceeds
  <2>0. PICK b \in Bodies : \E path : Answered(path, b, Handler(exch'.method, path, b))
    BY <1>1, WriteStep
  <2>1. PICK path : Answered(path, b, Handler(exch'.method, path, b))
    BY <2>0
  <2>2. exch'.path = path /\ exch'.body = b
    BY <2>1 DEF Answered
  <2>3. PICK o \in Tables : o = path[1] /\ o \notin wrapped /\ o \in Objects
    BY <2>2, Kind
  <2>4. is_object(path) /\ ~is_resource(path) /\ ~is_instance(path) /\ path # NoPath
    <3>1. Len(path) = 1
      BY <2>2 DEF is_object
    <3> QED BY <3>1, NoPathEmpty DEF is_object, is_resource, is_instance
  <2>5. PICK c : c = create_instance(o, objs[o], NoId)
    OBVIOUS
  <2>6. Handler(exch'.method, path, b) = Answer(CodeOf(c.res, "Created"), <<>>, c.st)
    BY <2>2, <2>3, <2>4, <2>5 DEF Handler, process_write
  <2>7. exch'.code = CodeOf(c.res, "Created") /\ objs'[o] = c.st
    <3>1. PICK A : A = Answer(CodeOf(c.res, "Created"), <<>>, c.st) /\ Answered(path, b, A)
      BY <2>1, <2>6
    <3>2. A.codes = {CodeOf(c.res, "Created")} /\ A.st = c.st
      BY <3>1 DEF Answer
    <3> QED BY <2>3, <2>4, <3>1, <3>2 DEF Answered
  <2>8. StateOK(o, objs[o]) /\ Fresh(objs[o])
    BY <1>1, <2>3 DEF Inv, ObjsOK, FreshOK
  <2>9. /\ ResultOK(c.res) /\ c.res.ok
        /\ \E iid \in DOMAIN c.st.inst \ DOMAIN objs[o].inst :
             c.st.inst = Store(objs[o], iid, Blank(o)).inst
    BY <2>5, <2>8, CreateEffect
  <2>10. exch'.code = "Created"
    BY <2>7, <2>9, CodeOfOK, CodesHave
  <2> QED BY <2>2, <2>3, <2>7, <2>9, <2>10
<1> QED BY <1>1, Invariant, PTL DEF Spec, CreatedUnlessWrapped

-----------------------------------------------------------------------------
(* What is written is read back. *)

(* The cast loses nothing of what is within the type. *)
LEMMA NarrowKeeps ==
    ASSUME NEW field \in Kinds, NEW v, InWidth(field, v)
    PROVE  Narrow(field, v) = v
<1>1. CASE field = "u8"
  <2>1. v \in Nat /\ v <= 255
    BY <1>1, Ranges DEF InWidth
  <2>2. v % 256 = v
    BY SMT, <2>1
  <2> QED BY <1>1, <2>2 DEF Narrow
<1>2. CASE field = "u16"
  <2>0. v \in U16
    BY <1>2 DEF InWidth
  <2>1. v \in Nat /\ v <= 65535
    BY SMT, <2>0 DEF U16, MaxU16
  <2>2. v % 65536 = v
    BY SMT, <2>1
  <2> QED BY SMT, <1>2, <2>2 DEF Narrow
<1>3. CASE field = "u32"
  <2>1. v \in 0 .. Mod32 - 1
    BY <1>3 DEF InWidth
  <2>2. v % Mod32 = v
    BY SMT, <2>1, Mod32Assumption
  <2> QED BY <1>3, <2>2 DEF Narrow
<1>4. CASE field \in {"bool", "string", "bytes"}
  BY <1>4 DEF Narrow
<1> QED BY <1>1, <1>2, <1>3, <1>4 DEF Kinds

(* No field is a time: what fits one is received as it was sent.           *)
LEMMA FittingReceived == \A o, rid, v : Fitting(o, rid, v) => Received(v) = v
<1>1. \A field : FieldType(field) # "Time"
  BY DEF FieldType
<1> QED BY <1>1 DEF Fitting, Received

(* A record written to Security or Server: it changes at most its field,   *)
(* which then has the value that was sent if that one fits.                *)
LEMMA FieldWritten ==
    ASSUME NEW o \in Tables, NEW t, TableOK(o, t), NEW iid, NEW rid,
           NEW r, r.value \in Seq(Byte), NEW w, w = WriteRecord(o, t, iid, rid, r)
    PROVE  /\ w.res.ok => iid \in DOMAIN t.inst /\ rid \in DOMAIN Fields(o)
           /\ TableOK(o, w.st) /\ DOMAIN w.st.inst = DOMAIN t.inst
           /\ iid \in DOMAIN t.inst => \A q \in DOMAIN Fields(o) :
                q # rid => w.st.inst[iid][q] = t.inst[iid][q]
           /\ \A v : /\ iid \in DOMAIN t.inst /\ rid \in DOMAIN Fields(o) /\ Fitting(o, rid, v)
                     /\ decode_resource(r.value, get_resource_type(v)) = Ok(v)
                => /\ w.st.inst[iid][rid] = Datum(v)
                   /\ v = Value(FieldType(Fields(o)[rid]), Datum(v))
<1>1. PICK type \in {"Boolean", "Integer", "String", "Opaque"} : type = object_type(o, rid)
  BY ObjectTypes
<1>2. PICK decoded : decoded = decode_resource(r.value, type)
  OBVIOUS
<1>3. w = IF decoded.ok THEN write_resource(o, t, iid, rid, decoded.value)
          ELSE Done(Err("BadRequest"), t)
  BY <1>1, <1>2 DEF WriteRecord
<1>4. ASSUME NEW v, rid \in DOMAIN Fields(o), Fitting(o, rid, v),
             decode_resource(r.value, get_resource_type(v)) = Ok(v)
      PROVE  /\ decoded = Ok(v) /\ type = FieldType(Fields(o)[rid])
             /\ InWidth(Fields(o)[rid], Datum(v))
  <2>1. get_resource_type(v) = FieldType(Fields(o)[rid]) /\ InWidth(Fields(o)[rid], Datum(v))
    BY <1>4 DEF Fitting
  <2>2. type = FieldType(Fields(o)[rid])
    BY <1>1, <1>4, FieldsTyped
  <2> QED BY <1>2, <1>4, <2>1, <2>2
<1>5. CASE ~decoded.ok
  <2>1. w.res.ok = FALSE /\ w.st = t
    BY <1>3, <1>5, Parts
  <2>2. ASSUME NEW v, rid \in DOMAIN Fields(o), Fitting(o, rid, v),
               decode_resource(r.value, get_resource_type(v)) = Ok(v)
        PROVE  FALSE
    BY <1>4, <1>5, <2>2, Parts
  <2> QED BY <2>1, <2>2
<1>6. CASE decoded.ok
  <2>1. PICK x : decoded = Ok(Value(type, x)) /\ Reading(type, x)
    BY <1>2, <1>6, DecodeResourceTyped
  <2>2. w = WriteField(o, t, iid, rid, Value(type, x))
    <3>1. w = write_resource(o, t, iid, rid, Value(type, x))
      BY <1>3, <1>6, <2>1, Parts
    <3> QED BY <3>1 DEF write_resource, WriteServer, WriteSecurity, Tables,
                        Server, Security, Device, Location
  <2>3. \/ w.res \in {Err("NotFound"), Err("BadRequest")} /\ w.st = t
           /\ (iid \notin DOMAIN t.inst \/ rid \notin DOMAIN Fields(o)
                 \/ type # FieldType(Fields(o)[rid]))
        \/ /\ iid \in DOMAIN t.inst /\ rid \in DOMAIN Fields(o)
           /\ type = FieldType(Fields(o)[rid])
           /\ w.res = Ok(<<>>) /\ TableOK(o, w.st)
           /\ DOMAIN w.st.inst = DOMAIN t.inst
           /\ \A q \in DOMAIN Fields(o) :
                w.st.inst[iid][q] = IF q = rid THEN Narrow(Fields(o)[rid], x)
                                    ELSE t.inst[iid][q]
    BY <2>1, <2>2, WriteFieldOK
  <2>4. CASE /\ w.res \in {Err("NotFound"), Err("BadRequest")} /\ w.st = t
             /\ (iid \notin DOMAIN t.inst \/ rid \notin DOMAIN Fields(o)
                   \/ type # FieldType(Fields(o)[rid]))
    <3>1. ~w.res.ok
      BY <2>4, Parts
    <3>2. ASSUME NEW v, iid \in DOMAIN t.inst, rid \in DOMAIN Fields(o), Fitting(o, rid, v),
                 decode_resource(r.value, get_resource_type(v)) = Ok(v)
          PROVE  FALSE
      BY <1>4, <2>4, <3>2
    <3> QED BY <2>4, <3>1, <3>2
  <2>5. CASE /\ iid \in DOMAIN t.inst /\ rid \in DOMAIN Fields(o)
             /\ type = FieldType(Fields(o)[rid])
             /\ w.res = Ok(<<>>) /\ TableOK(o, w.st)
             /\ DOMAIN w.st.inst = DOMAIN t.inst
             /\ \A q \in DOMAIN Fields(o) :
                  w.st.inst[iid][q] = IF q = rid THEN Narrow(Fields(o)[rid], x)
                                      ELSE t.inst[iid][q]
    <3>1. ASSUME NEW v, Fitting(o, rid, v),
                 decode_resource(r.value, get_resource_type(v)) = Ok(v)
          PROVE  /\ w.st.inst[iid][rid] = Datum(v)
                 /\ v = Value(FieldType(Fields(o)[rid]), Datum(v))
      <4>1. Ok(v) = Ok(Value(type, x)) /\ InWidth(Fields(o)[rid], Datum(v))
        BY <1>4, <2>1, <2>5, <3>1
      <4>2. v = Value(type, x)
        BY <4>1, Parts
      <4>3. Datum(v) = x
        BY <4>2 DEF Datum, Value
      <4>4. Narrow(Fields(o)[rid], x) = x
        BY <2>5, <4>1, <4>3, FieldKinds, NarrowKeeps
      <4> QED BY <2>5, <4>2, <4>3, <4>4
    <3> QED BY <2>5, <3>1
  <2> QED BY <2>3, <2>4, <2>5
<1> QED BY <1>5, <1>6

(* A record that was written, if its value fits, is what a read gives.     *)
LEMMA ReadsBack ==
    ASSUME NEW o \in Objects, NEW st, StateOK(o, st), NEW iid, NEW rid,
           NEW r, r.value \in Seq(Byte), NEW w, w = WriteRecord(o, st, iid, rid, r), w.res.ok,
           NEW v, Fitting(o, rid, v), decode_resource(r.value, get_resource_type(v)) = Ok(v)
    PROVE  read_resource(o, w.st, iid, rid, NoId, NoFix).res = Ok(v)
<1>1. CASE o \in Tables
  <2>1. TableOK(o, st)
    BY <1>1 DEF StateOK
  <2>2. /\ iid \in DOMAIN w.st.inst /\ rid \in DOMAIN Fields(o)
        /\ w.st.inst[iid][rid] = Datum(v) /\ v = Value(FieldType(Fields(o)[rid]), Datum(v))
    BY <1>1, <2>1, FieldWritten
  <2>3. ReadField(o, w.st, iid, rid) = Ok(v)
    BY <2>2 DEF ReadField, Taken
  <2>4. read_resource(o, w.st, iid, rid, NoId, NoFix) = Done(ReadField(o, w.st, iid, rid), w.st)
    <3>1. CASE o = Server
      BY <3>1 DEF read_resource, ReadServer, Server, Security, Device, Connectivity, Location
    <3>2. CASE o = Security
      BY <3>2 DEF read_resource, ReadSecurity, Server, Security, Device, Connectivity, Location
    <3> QED BY <1>1, <3>1, <3>2 DEF Tables
  <2> QED BY <2>3, <2>4, Parts
<1>2. PICK type \in {"Boolean", "Integer", "String", "Opaque"} : type = object_type(o, rid)
  BY ObjectTypes
<1>3. PICK decoded : decoded = decode_resource(r.value, type)
  OBVIOUS
<1>4. w = write_resource(o, st, iid, rid, decoded.value) /\ decoded.ok
  <2>1. w = IF decoded.ok THEN write_resource(o, st, iid, rid, decoded.value)
            ELSE Done(Err("BadRequest"), st)
    BY <1>2, <1>3 DEF WriteRecord
  <2> QED BY <2>1, Parts
<1>5. CASE o = Device
  <2>1. get_resource_type(v) = "String" /\ type = "String"
    BY <1>2, <1>5, Kind DEF Fitting, FieldType, object_type
  <2>2. decoded.value = v
    BY <1>3, <2>1, Parts
  <2>3. w = WriteDevice(st, iid, rid, v)
    BY <1>4, <1>5, <2>2, Kind DEF write_resource
  <2>4. iid = 0 /\ rid \in {14, 15} /\ w = Done(Ok(<<>>), [st EXCEPT ![rid] = v])
    BY <2>3, Parts DEF WriteDevice
  <2>5. w.st = [st EXCEPT ![rid] = v]
    BY <2>4, Parts
  <2>6. DOMAIN st = (0 .. 21) \ {4, 5, 12} /\ st = [q \in DOMAIN st |-> st[q]]
    BY <1>5 DEF StateOK, DeviceOK
  <2>7. rid \in DOMAIN w.st /\ w.st[rid] = v
    <3>1. rid \in DOMAIN st
      BY <2>4, <2>6
    <3> QED BY <2>5, <2>6, <3>1
  <2>10. rid \notin Multiple(Device)
    BY <2>4 DEF Multiple
  <2>8. ReadDevice(w.st, iid, rid, NoId) = Ok(v)
    BY <2>4, <2>7, <2>10 DEF ReadDevice
  <2>9. read_resource(o, w.st, iid, rid, NoId, NoFix)
          = Done(ReadDevice(w.st, iid, rid, NoId), w.st)
    BY <1>5 DEF read_resource, Device, Server, Security, Connectivity, Location
  <2> QED BY <2>8, <2>9, Parts
<1>6. CASE o \in {Connectivity, Location}
  <2>1. w = Refused(st, iid)
    BY <1>4, <1>6 DEF write_resource, LocationRefused, Server, Security, Device, Location, Connectivity
  <2>2. ~w.res.ok
    BY <2>1, Parts DEF Refused
  <2> QED BY <2>2
<1> QED BY <1>1, <1>5, <1>6, Kind

(* A write of one resource: the first record of the body is the first      *)
(* resource sent, and what it has written is read back.                    *)
THEOREM WrittenIsRead == Spec => ChangedReadsBack
<1>1. ASSUME Inv, [Next]_vars PROVE WriteReadsBack
  <2> SUFFICES ASSUME exch = Idle, exch' # Idle, exch'.method = "PUT", is_resource(exch'.path),
                      exch'.code = "Changed", exch'.body.cut = 0, exch'.body.items # <<>>,
                      Fitting(exch'.path[1], exch'.path[3], exch'.body.items[1][2])
               PROVE  read_resource(exch'.path[1], objs'[exch'.path[1]], exch'.path[2],
                                    exch'.path[3], NoId, NoFix).res
                        = Ok(exch'.body.items[1][2])
    BY DEF WriteReadsBack, Requested
  <2>1. PICK b \in Bodies : \E path : Answered(path, b, Handler("PUT", path, b))
    BY <1>1, WriteStep
  <2>2. PICK path : Answered(path, b, Handler("PUT", path, b))
    BY <2>1
  <2>3. /\ exch'.path = path /\ exch'.body = b /\ is_resource(path)
        /\ b.cut = 0 /\ b.items # <<>> /\ Fitting(path[1], path[3], b.items[1][2])
    BY <2>2 DEF Answered
  <2>4. PICK A : A = process_write(path, objs[path[1]], Bytes(b)) /\ Answered(path, b, A)
    BY <2>2 DEF Handler
  <2>5. path[1] \in Objects /\ "Changed" \in A.codes /\ objs'[path[1]] = A.st
    BY <2>4 DEF Answered, Errors
  <2>6. PICK o \in Objects : o = path[1]
    BY <2>5
  <2>7. StateOK(o, objs[o])
    BY <1>1 DEF Inv, ObjsOK
  <2>8. PICK got, more : got = decode(Bytes(b)) /\ more = decode(b.tail) /\ SentIn(b, got, more)
    BY <2>3, SentFirst
  <2>9. got.ok
    <3> SUFFICES ASSUME ~got.ok PROVE FALSE
      OBVIOUS
    <3>1. A.codes = {"BadRequest"}
      BY <2>4, <2>8 DEF process_write, Answer
    <3> QED BY <2>5, <3>1
  <2>10. PICK v : v = b.items[1][2]
    OBVIOUS
  <2>11. PICK n \in Nat : n = Len(b.items) /\ 1 \in 1 .. n
    <3>1. PICK V : b.items \in Seq(U16 \X V)
      BY BodyParts DEF ItemsOK
    <3>2. Len(b.items) \in Nat /\ Len(b.items) # 0
      BY <2>3, <3>1, EmptySeq, LenProperties
    <3> QED BY <3>2
  <2>12. PICK r : r = got.value[1]
    OBVIOUS
  <2>13. /\ Records(got.value) /\ Len(got.value) = n + Len(more.value) /\ Records(more.value)
         /\ r.value = serialize(v) /\ decode_resource(r.value, get_resource_type(v)) = Ok(v)
    <3>1. more.ok
      BY <2>8, <2>9 DEF SentIn
    <3>2. /\ Records(got.value) /\ Records(more.value)
          /\ Len(got.value) = Len(b.items) + Len(more.value)
      BY <2>8, <3>1 DEF SentIn
    <3>3. \A i \in 1 .. Len(b.items) :
            /\ got.value[i].value = serialize(b.items[i][2])
            /\ decode_resource(got.value[i].value, get_resource_type(b.items[i][2]))
                 = Ok(Received(b.items[i][2]))
      BY <2>8, <3>1 DEF SentIn
    <3>4. Received(v) = v
      BY <2>3, <2>10, FittingReceived
    <3> QED BY <2>10, <2>11, <2>12, <3>2, <3>3, <3>4
  <2>14. r.value \in Seq(Byte) /\ got.value # <<>>
    <3>1. Len(got.value) \in Nat /\ Len(more.value) \in Nat
      BY <2>13, RecordsForm
    <3>2. 1 \in 1 .. Len(got.value) /\ Len(got.value) # 0
      <4>1. PICK m \in Nat : m = Len(more.value)
        BY <3>1
      <4>2. Len(got.value) = n + m
        BY <2>13, <4>1
      <4>3. n >= 1
        BY <2>11
      <4> QED BY <3>1, <4>1, <4>2, <4>3
    <3>3. RecordOK(r)
      BY <2>12, <2>13, <3>2, RecordsForm
    <3> QED BY <3>2, <3>3, EmptySeq DEF RecordOK
  <2>15. PICK w : w = WriteRecord(o, objs[o], path[2], path[3], r)
    OBVIOUS
  <2>16. A = Answer(CodeOf(w.res, "Changed"), <<>>, w.st)
    BY <2>3, <2>4, <2>6, <2>8, <2>9, <2>12, <2>14, <2>15 DEF process_write
  <2>17. CodeOf(w.res, "Changed") = "Changed" /\ objs'[o] = w.st
    BY <2>5, <2>6, <2>16 DEF Answer
  <2>18. w.res.ok
    <3>1. ResultOK(w.res)
      BY <2>7, <2>14, <2>15, WriteRecordOK DEF WriteOK
    <3>2. ~w.res.ok => "Changed" \in Errors
      BY <2>17, <3>1, CodeOfOK, CodesHave
    <3> QED BY <3>2 DEF Errors
  <2>19. read_resource(o, w.st, path[2], path[3], NoId, NoFix).res = Ok(v)
    BY <2>3, <2>6, <2>7, <2>10, <2>13, <2>14, <2>15, <2>18, ReadsBack
  <2> QED BY <2>3, <2>6, <2>10, <2>17, <2>19
<1> QED BY <1>1, Invariant, PTL DEF Spec, ChangedReadsBack

-----------------------------------------------------------------------------
(* A write to an instance. *)

(* None of the records from m to n writes field q. *)
Untouched(records, m, n, q) == \A j \in m .. n : Writable(records[j]) => records[j].id # q

(* The record writes value v to field q, and v fits. *)
Writing(o, record, q, v) ==
    /\ Writable(record) /\ record.id = q /\ Fitting(o, q, v)
    /\ decode_resource(record.value, get_resource_type(v)) = Ok(v)

(* After n records, each field has the last value written that fits,       *)
(* unless what was written after it does not, or what it had before.       *)
Applied(o, t, iid, records, new, n) ==
    /\ TableOK(o, new) /\ DOMAIN new.inst = DOMAIN t.inst
    /\ \A q \in DOMAIN Fields(o) :
         /\ Untouched(records, 1, n, q) => new.inst[iid][q] = t.inst[iid][q]
         /\ \A i \in 1 .. n : \A v :
              Writing(o, records[i], q, v) /\ Untouched(records, i + 1, n, q) =>
                new.inst[iid][q] = Datum(v)

LEMMA AppliedNext ==
    ASSUME NEW o \in Tables, NEW t, NEW iid \in DOMAIN t.inst, NEW records, NEW n \in Nat,
           NEW old, Applied(o, t, iid, records, old, n),
           NEW r, r = records[n + 1], r.value \in Seq(Byte),
           NEW new, new = IF Writable(r) THEN WriteRecord(o, old, iid, r.id, r).st ELSE old
    PROVE  Applied(o, t, iid, records, new, n + 1)
<1>1. TableOK(o, old) /\ DOMAIN old.inst = DOMAIN t.inst
  BY DEF Applied
<1>2. /\ TableOK(o, new) /\ DOMAIN new.inst = DOMAIN old.inst
      /\ \A q \in DOMAIN Fields(o) :
           /\ ~(Writable(r) /\ r.id = q) => new.inst[iid][q] = old.inst[iid][q]
           /\ \A v : Writing(o, r, q, v) => new.inst[iid][q] = Datum(v)
  <2>1. CASE ~Writable(r)
    BY <1>1, <2>1 DEF Writing
  <2>2. CASE Writable(r)
    <3>1. PICK w : w = WriteRecord(o, old, iid, r.id, r)
      OBVIOUS
    <3>2. new = w.st
      BY <2>2, <3>1
    <3>3. /\ TableOK(o, w.st) /\ DOMAIN w.st.inst = DOMAIN old.inst
          /\ \A q \in DOMAIN Fields(o) : q # r.id => w.st.inst[iid][q] = old.inst[iid][q]
          /\ \A v : /\ r.id \in DOMAIN Fields(o) /\ Fitting(o, r.id, v)
                    /\ decode_resource(r.value, get_resource_type(v)) = Ok(v)
               => w.st.inst[iid][r.id] = Datum(v)
      BY <1>1, <3>1, FieldWritten
    <3> QED BY <2>2, <3>2, <3>3 DEF Writing
  <2> QED BY <2>1, <2>2
<1>3. ASSUME NEW q \in DOMAIN Fields(o), NEW m \in Nat, m <= n + 1, Untouched(records, m, n + 1, q)
      PROVE  Untouched(records, m, n, q) /\ ~(Writable(r) /\ r.id = q)
  <2>1. n + 1 \in m .. n + 1 /\ \A j \in m .. n : j \in m .. n + 1
    BY <1>3
  <2> QED BY <1>3, <2>1 DEF Untouched
<1>4. ASSUME NEW q \in DOMAIN Fields(o)
      PROVE  /\ Untouched(records, 1, n + 1, q) => new.inst[iid][q] = t.inst[iid][q]
             /\ \A i \in 1 .. n + 1 : \A v :
                  Writing(o, records[i], q, v) /\ Untouched(records, i + 1, n + 1, q) =>
                    new.inst[iid][q] = Datum(v)
  <2>1. ASSUME Untouched(records, 1, n + 1, q) PROVE new.inst[iid][q] = t.inst[iid][q]
    <3>1. Untouched(records, 1, n, q) /\ ~(Writable(r) /\ r.id = q)
      BY <1>3, <2>1
    <3> QED BY <1>2, <3>1 DEF Applied
  <2>2. ASSUME NEW i \in 1 .. n + 1, NEW v, Writing(o, records[i], q, v),
               Untouched(records, i + 1, n + 1, q)
        PROVE  new.inst[iid][q] = Datum(v)
    <3>1. CASE i = n + 1
      BY <1>2, <2>2, <3>1
    <3>2. CASE i # n + 1
      <4>1. i \in 1 .. n /\ i + 1 \in Nat /\ i + 1 <= n + 1
        BY <3>2
      <4>2. PICK m \in Nat : m = i + 1
        BY <4>1
      <4>3. Untouched(records, m, n, q) /\ ~(Writable(r) /\ r.id = q)
        BY <1>3, <2>2, <4>1, <4>2
      <4>4. old.inst[iid][q] = Datum(v)
        BY <2>2, <4>1, <4>2, <4>3 DEF Applied
      <4> QED BY <1>2, <4>3, <4>4
    <3> QED BY <3>1, <3>2
  <2> QED BY <2>1, <2>2
<1> QED BY <1>1, <1>2, <1>4 DEF Applied

LEMMA InstanceWritten ==
    ASSUME NEW o \in Tables, NEW t, TableOK(o, t), NEW iid \in DOMAIN t.inst,
           NEW records, Records(records)
    PROVE  Applied(o, t, iid, records, WriteInstance(o, t, iid, records), Len(records))
<1>1. Len(records) \in Nat /\ \A i \in 1 .. Len(records) : records[i].value \in Seq(Byte)
  BY RecordsForm DEF RecordOK
<1>2. PICK f : Writes(f, o, t, iid, records)
  BY <1>1, WriteUnfolds
<1> DEFINE T == {n \in Nat : n <= Len(records) => Applied(o, t, iid, records, f[n], n)}
<1>3. 0 \in T
  <2>1. f[0] = t
    BY <1>2 DEF Writes
  <2>2. Applied(o, t, iid, records, t, 0)
    BY DEF Applied
  <2> QED BY <2>1, <2>2
<1>4. ASSUME NEW n \in Nat, n \in T PROVE n + 1 \in T
  <2> SUFFICES ASSUME n + 1 <= Len(records) PROVE Applied(o, t, iid, records, f[n + 1], n + 1)
    OBVIOUS
  <2>1. n + 1 \in 1 .. Len(records) /\ (n + 1) - 1 = n /\ n <= Len(records)
    BY <1>1
  <2>2. Applied(o, t, iid, records, f[n], n)
    BY <1>4, <2>1
  <2>3. PICK r : r = records[n + 1] /\ r.value \in Seq(Byte)
    BY <1>1, <2>1
  <2>4. f[n + 1] = IF Writable(r) THEN WriteRecord(o, f[n], iid, r.id, r).st ELSE f[n]
    BY <1>2, <2>1, <2>3 DEF Writes
  <2> QED BY <2>2, <2>3, <2>4, AppliedNext
<1>5. Nat \subseteq T
  <2> HIDE DEF T
  <2> QED BY <1>3, <1>4, Wr!SetInduction
<1>6. Len(records) \in T
  BY <1>1, <1>5
<1> QED BY <1>1, <1>2, <1>6 DEF Writes

(* A write to an instance: by induction over the records, what fails to be *)
(* written does not keep what fits from being applied, nor undoes it.      *)
THEOREM ValidIsApplied == Spec => InstanceWriteAppliesValid
<1>1. ASSUME Inv, [Next]_vars PROVE LastValidApplied
  <2> SUFFICES ASSUME exch = Idle, exch' # Idle, exch'.method = "PUT", is_instance(exch'.path),
                      exch'.body.cut = 0, exch'.code = "Changed", exch'.path[1] \in Tables,
                      decode(exch'.body.tail).ok,
                      \A i \in DOMAIN decode(exch'.body.tail).value :
                        ~Writable(decode(exch'.body.tail).value[i])
               PROVE  LET o     == exch'.path[1]
                          iid   == exch'.path[2]
                          items == exch'.body.items
                          For(rid) == {i \in DOMAIN items : items[i][1] = rid}
                      IN  /\ DOMAIN objs'[o].inst = DOMAIN objs[o].inst
                          /\ iid \in DOMAIN objs[o].inst => \A rid \in DOMAIN Fields(o) :
                               /\ For(rid) = {} => objs'[o].inst[iid][rid] = objs[o].inst[iid][rid]
                               /\ \A i \in For(rid) :
                                    Fitting(o, rid, items[i][2]) /\ (\A j \in For(rid) : j <= i) =>
                                      objs'[o].inst[iid][rid] = Datum(items[i][2])
    BY DEF LastValidApplied, Requested
  <2>1. PICK b \in Bodies : \E path : Answered(path, b, Handler("PUT", path, b))
    BY <1>1, WriteStep
  <2>2. PICK path : Answered(path, b, Handler("PUT", path, b))
    BY <2>1
  <2>3. PICK more : more = decode(b.tail)
    OBVIOUS
  <2>4. /\ exch'.path = path /\ exch'.body = b /\ is_instance(path) /\ b.cut = 0
        /\ more.ok /\ \A i \in DOMAIN more.value : ~Writable(more.value[i])
    BY <2>2, <2>3 DEF Answered
  <2>5. PICK o \in Tables : o = path[1] /\ o \in Objects
    BY <2>4, Kind
  <2>6. StateOK(o, objs[o]) /\ TableOK(o, objs[o])
    BY <1>1, <2>5 DEF Inv, ObjsOK, StateOK
  <2>7. PICK got : got = decode(Bytes(b)) /\ SentIn(b, got, more)
    BY <2>3, <2>4, SentFirst
  <2>8. PICK n \in Nat : n = Len(b.items)
    BY <2>7 DEF SentIn
  <2>9. PICK records : records = got.value
    OBVIOUS
  <2>10. /\ got.ok /\ DOMAIN b.items = 1 .. n /\ Records(records) /\ Records(more.value)
         /\ Len(records) = n + Len(more.value)
         /\ \A i \in 1 .. n :
              /\ records[i].type = Resource /\ records[i].id = b.items[i][1]
              /\ decode_resource(records[i].value, get_resource_type(b.items[i][2]))
                   = Ok(Received(b.items[i][2]))
         /\ \A i \in 1 .. Len(more.value) : records[n + i] = more.value[i]
    <3>1. got.ok /\ DOMAIN b.items = 1 .. Len(b.items)
      BY <2>4, <2>7 DEF SentIn
    <3>2. /\ Records(got.value) /\ Records(more.value)
          /\ Len(got.value) = Len(b.items) + Len(more.value)
      BY <2>4, <2>7 DEF SentIn
    <3>3. \A i \in 1 .. Len(b.items) :
            /\ got.value[i].type = Resource /\ got.value[i].id = b.items[i][1]
            /\ decode_resource(got.value[i].value, get_resource_type(b.items[i][2]))
                 = Ok(Received(b.items[i][2]))
      BY <2>4, <2>7 DEF SentIn
    <3>4. \A i \in 1 .. Len(more.value) : got.value[Len(b.items) + i] = more.value[i]
      BY <2>4, <2>7 DEF SentIn
    <3> QED BY <2>8, <2>9, <3>1, <3>2, <3>3, <3>4
  <2>11. PICK new : new = WriteInstance(o, objs[o], path[2], records)
    OBVIOUS
  <2>12. objs'[o] = new
    <3>1. PICK A : A = process_write(path, objs[o], Bytes(b)) /\ Answered(path, b, A)
      BY <2>2, <2>5 DEF Handler
    <3>2. ~is_resource(path)
      BY <2>4 DEF is_instance, is_resource
    <3>3. A = Answer("Changed", <<>>, new)
      BY <2>4, <2>5, <2>7, <2>9, <2>10, <2>11, <3>1, <3>2 DEF process_write
    <3>4. A.st = new
      BY <3>3 DEF Answer
    <3> QED BY <2>5, <3>1, <3>4 DEF Answered, Errors
  <2>13. DOMAIN new.inst = DOMAIN objs[o].inst
    BY <2>5, <2>6, <2>10, <2>11, WriteInstanceOK DEF WroteOK
  <2>14. ASSUME NEW j \in 1 .. Len(records), j > n PROVE ~Writable(records[j])
    <3>1. PICK m \in Nat : m = Len(more.value) /\ DOMAIN more.value = 1 .. m
      BY <2>10, RecordsForm
    <3>2. Len(records) = n + m
      BY <2>10, <3>1
    <3>3. PICK k \in 1 .. m : j = n + k
      <4>1. j - n \in 1 .. m /\ j = n + (j - n)
        BY <2>14, <3>2
      <4> QED BY <4>1
    <3>4. records[j] = more.value[k]
      BY <2>10, <3>1, <3>3
    <3> QED BY <2>4, <3>1, <3>4
  <2>15. ASSUME NEW rid, NEW m \in Nat, 1 <= m,
                \A j \in 1 .. n : m <= j => b.items[j][1] # rid
         PROVE  Untouched(records, m, Len(records), rid)
    <3> SUFFICES ASSUME NEW j \in m .. Len(records), Writable(records[j])
                 PROVE  records[j].id # rid
      BY DEF Untouched
    <3>1. Len(records) \in Nat
      BY <2>10, RecordsForm
    <3>2. j \in 1 .. Len(records) /\ m <= j
      BY <2>15, <3>1
    <3>3. ~(j > n)
      BY <2>14, <3>2
    <3>4. j \in 1 .. n
      BY <3>2, <3>3
    <3> QED BY <2>10, <2>15, <3>2, <3>4
  <2>16. ASSUME path[2] \in DOMAIN objs[o].inst, NEW rid \in DOMAIN Fields(o)
         PROVE  /\ (\A j \in 1 .. n : b.items[j][1] # rid)
                     => new.inst[path[2]][rid] = objs[o].inst[path[2]][rid]
                /\ \A i \in 1 .. n :
                     /\ b.items[i][1] = rid /\ Fitting(o, rid, b.items[i][2])
                     /\ \A j \in 1 .. n : b.items[j][1] = rid => j <= i
                     => new.inst[path[2]][rid] = Datum(b.items[i][2])
    <3>1. Applied(o, objs[o], path[2], records, new, Len(records))
      BY <2>6, <2>10, <2>11, <2>16, InstanceWritten
    <3>2. ASSUME \A j \in 1 .. n : b.items[j][1] # rid
          PROVE  new.inst[path[2]][rid] = objs[o].inst[path[2]][rid]
      <4>1. Untouched(records, 1, Len(records), rid)
        BY <2>15, <3>2
      <4> QED BY <3>1, <4>1 DEF Applied
    <3>3. ASSUME NEW i \in 1 .. n, b.items[i][1] = rid, Fitting(o, rid, b.items[i][2]),
                 \A j \in 1 .. n : b.items[j][1] = rid => j <= i
          PROVE  new.inst[path[2]][rid] = Datum(b.items[i][2])
      <4>1. i + 1 \in Nat /\ 1 <= i + 1 /\ \A j \in 1 .. n : i + 1 <= j => ~(j <= i)
        OBVIOUS
      <4>2. Untouched(records, i + 1, Len(records), rid)
        BY <2>15, <3>3, <4>1
      <4>3. PICK v : v = b.items[i][2]
        OBVIOUS
      <4>4. Writing(o, records[i], rid, v)
        <5>1. Received(v) = v
          BY <3>3, <4>3, FittingReceived
        <5> QED BY <2>10, <3>3, <4>3, <5>1 DEF Writing, Writable
      <4>5. i \in 1 .. Len(records)
        <5>1. PICK m \in Nat : m = Len(more.value)
          BY <2>10, RecordsForm
        <5>2. Len(records) = n + m
          BY <2>10, <5>1
        <5> QED BY <5>2
      <4> QED BY <3>1, <4>2, <4>3, <4>4, <4>5 DEF Applied
    <3> QED BY <3>2, <3>3
  <2>17. ASSUME path[2] \in DOMAIN objs[o].inst, NEW rid \in DOMAIN Fields(o),
                NEW For, For = {i \in DOMAIN b.items : b.items[i][1] = rid}
         PROVE  /\ For = {} => objs'[o].inst[path[2]][rid] = objs[o].inst[path[2]][rid]
                /\ \A i \in For :
                     Fitting(o, rid, b.items[i][2]) /\ (\A j \in For : j <= i) =>
                       objs'[o].inst[path[2]][rid] = Datum(b.items[i][2])
    <3>1. For = {i \in 1 .. n : b.items[i][1] = rid}
      BY <2>10, <2>17
    <3>2. ASSUME For = {} PROVE new.inst[path[2]][rid] = objs[o].inst[path[2]][rid]
      <4>1. \A j \in 1 .. n : b.items[j][1] # rid
        BY <3>1, <3>2
      <4> QED BY <2>16, <2>17, <4>1
    <3>3. ASSUME NEW i \in For, Fitting(o, rid, b.items[i][2]), \A j \in For : j <= i
          PROVE  new.inst[path[2]][rid] = Datum(b.items[i][2])
      <4>1. i \in 1 .. n /\ b.items[i][1] = rid
        BY <3>1
      <4>2. \A j \in 1 .. n : b.items[j][1] = rid => j <= i
        BY <3>1, <3>3
      <4> QED BY <2>16, <2>17, <3>3, <4>1, <4>2
    <3> QED BY <2>12, <3>2, <3>3
  <2>18. LET For(rid) == {i \in DOMAIN b.items : b.items[i][1] = rid}
         IN  /\ DOMAIN objs'[o].inst = DOMAIN objs[o].inst
             /\ path[2] \in DOMAIN objs[o].inst => \A rid \in DOMAIN Fields(o) :
                  /\ For(rid) = {} => objs'[o].inst[path[2]][rid] = objs[o].inst[path[2]][rid]
                  /\ \A i \in For(rid) :
                       Fitting(o, rid, b.items[i][2]) /\ (\A j \in For(rid) : j <= i) =>
                         objs'[o].inst[path[2]][rid] = Datum(b.items[i][2])
    BY <2>12, <2>13, <2>17
  <2> QED BY <2>4, <2>5, <2>18
<1> QED BY <1>1, Invariant, PTL DEF Spec, InstanceWriteAppliesValid

-----------------------------------------------------------------------------
(* The coordinates that are answered. *)

Coordinates == {0, 1, 2, 3, 5, 6}

(* The resources of Location, as a valid position has them. *)
Measured == {<<rid, Coordinate(fix, rid)>> : rid \in Coordinates, fix \in {f \in GpsAnswers : f.valid}}

LEMMA CoordinateOK ==
    ASSUME NEW fix \in GpsAnswers, NEW rid \in Coordinates
    PROVE  /\ Sendable(Coordinate(fix, rid))
           /\ serialize(Coordinate(fix, rid)) \in Seq(Byte)
           /\ Len(serialize(Coordinate(fix, rid))) <= 8
<1>1. PICK n \in Byte : n = fix.n
  BY CallsAssumption
<1>2. CASE rid = 5
  <2>1. PICK v : v = Coordinate(fix, rid) /\ OfType(v)
    BY <1>2, CallsAssumption
  <2>2. PICK ticks \in Int : /\ TopByte(ticks) >= -128 /\ TopByte(ticks) <= 127
                             /\ get_resource_type(v) = "Time" /\ Datum(v) = ticks
    <3>1. get_resource_type(v) = "Time"
      BY <1>2, <2>1 DEF Coordinate, Value, get_resource_type
    <3> QED BY <2>1, <3>1 DEF OfType
  <2>3. Sendable(v)
    BY <2>1, <2>2 DEF Sendable
  <2>4. serialize(v) = serialize_int(Seconds(ticks))
    BY <2>2 DEF serialize
  <2> QED BY <2>1, <2>2, <2>3, <2>4, TimeRoundTrip
<1>3. CASE rid # 5
  <2>1. PICK d : d = <<64, n, rid, 0, 0, 0, 0, 0>>
    OBVIOUS
  <2>2. PICK v : v = Coordinate(fix, rid)
    OBVIOUS
  <2>3. v = <<"Float", d>> /\ get_resource_type(v) = "Float" /\ Datum(v) = d
    BY <1>1, <1>3, <2>1, <2>2 DEF Coordinate, Value, get_resource_type, Datum
  <2>4. d \in Seq(Byte) /\ Len(d) = 8
    <3>1. PICK B : B = Byte
      OBVIOUS
    <3>2. 0 \in B /\ 64 \in B /\ rid \in B /\ n \in B
      BY SMT, <3>1 DEF Byte, MaxByte, Coordinates
    <3>3. d \in Seq(B) /\ Len(d) = 8
      BY SMT, <2>1, <3>2
    <3> QED BY <3>1, <3>3
  <2>5. Sendable(v)
    BY <2>3, <2>4 DEF Sendable, OfType, Value
  <2>6. serialize(v) = d
    BY <2>3 DEF serialize
  <2>7. Len(serialize(v)) <= 8
    <3>1. 8 <= 8
      BY SMT
    <3> QED BY <2>4, <2>6, <3>1
  <2> QED BY <2>2, <2>4, <2>5, <2>6, <2>7
<1> QED BY <1>2, <1>3

(* A read that succeeds gives a coordinate of a valid position. *)
LEMMA ReadMeasures ==
    ASSUME NEW st, StateOK(Location, st), NEW iid, NEW rid, NEW fix \in GpsAnswers,
           read_resource(Location, st, iid, rid, NoId, fix).res.ok
    PROVE  <<rid, read_resource(Location, st, iid, rid, NoId, fix).res.value>> \in Measured
<1>1. PICK r : r = read_resource(Location, st, iid, rid, NoId, fix)
  OBVIOUS
<1>2. r = ReadLocation(st, iid, rid, fix)
  BY <1>1 DEF read_resource, Server, Security, Device, Location, Connectivity
<1>3. PICK now : now = TakeFix(st, fix)
  OBVIOUS
<1>4. ~Err("NotFound").ok
  BY DEF Err
<1>5. now.has /\ rid \in Coordinates /\ r = Done(Ok(Coordinate(now.fix, rid)), now)
  BY <1>1, <1>2, <1>3, <1>4 DEF ReadLocation, Done, Coordinates
<1>6. r.res.value = Coordinate(now.fix, rid)
  BY <1>5 DEF Done, Ok
<1>7. LocationOK(now) /\ FixOK(now)
  BY <1>3, MovesOK DEF StateOK
<1>8. now.fix \in {f \in GpsAnswers : f.valid}
  BY <1>5, <1>7 DEF LocationOK, FixOK
<1> QED BY <1>1, <1>5, <1>6, <1>8 DEF Measured

LEMMA MeasuredItems ==
    ASSUME NEW items \in Seq(Measured)
    PROVE  /\ ItemsOK(items)
           /\ \A i \in 1 .. Len(items) :
                /\ items[i][1] \in U16
                /\ \E fix \in GpsAnswers : fix.valid /\ items[i][2] = Coordinate(fix, items[i][1])
                /\ serialize(items[i][2]) \in Seq(Byte) /\ Len(serialize(items[i][2])) <= 8
<1>1. ASSUME NEW i \in 1 .. Len(items)
      PROVE  \E rid \in Coordinates : \E fix \in GpsAnswers :
               fix.valid /\ items[i] = <<rid, Coordinate(fix, rid)>>
  <2>1. items[i] \in Measured
    BY ElementOfSeq
  <2> QED BY <2>1 DEF Measured
<1>2. Coordinates \subseteq U16
  BY SMT DEF Coordinates, U16, MaxU16
<1>3. ASSUME NEW i \in 1 .. Len(items)
      PROVE  /\ items[i][1] \in U16
             /\ \E fix \in GpsAnswers : fix.valid /\ items[i][2] = Coordinate(fix, items[i][1])
             /\ Sendable(items[i][2])
             /\ serialize(items[i][2]) \in Seq(Byte) /\ Len(serialize(items[i][2])) <= 8
  <2>1. PICK rid \in Coordinates : \E fix \in GpsAnswers :
               fix.valid /\ items[i] = <<rid, Coordinate(fix, rid)>>
    BY <1>1
  <2>2. PICK fix \in GpsAnswers : fix.valid /\ items[i] = <<rid, Coordinate(fix, rid)>>
    BY <2>1
  <2>3. PICK v : v = Coordinate(fix, rid)
    OBVIOUS
  <2>4. items[i][1] = rid /\ items[i][2] = v
    BY <2>2, <2>3
  <2>5. Sendable(v) /\ serialize(v) \in Seq(Byte) /\ Len(serialize(v)) <= 8
    BY <2>3, CoordinateOK
  <2> QED BY <1>2, <2>2, <2>3, <2>4, <2>5
<1>4. items \in Seq(U16 \X {m[2] : m \in Measured})
  <2>1. PICK V : V = {m[2] : m \in Measured}
    OBVIOUS
  <2>2. Measured \subseteq U16 \X V
    BY <1>2, <2>1 DEF Measured
  <2>3. items \in [1 .. Len(items) -> Measured] /\ Len(items) \in Nat
    BY LenProperties
  <2>4. items \in [1 .. Len(items) -> U16 \X V]
    BY <2>2, <2>3
  <2>5. items \in Seq(U16 \X V)
    BY <2>3, <2>4, SeqDef
  <2> QED BY <2>1, <2>5
<1>5. DOMAIN items = 1 .. Len(items)
  BY LenProperties
<1> QED BY <1>3, <1>4, <1>5 DEF ItemsOK

(* At most 22 resources are read, each a coordinate of a valid position.   *)
LEMMA InstanceMeasured ==
    ASSUME NEW st, StateOK(Location, st), NEW iid,
           NEW fixes, Provided(Location, fixes, Len(list_resources(Location)))
    PROVE  LET items == ReadInstance(Location, st, iid, fixes).items
           IN  items \in Seq(Measured) /\ Len(items) <= 22
<1>0. PICK o \in Objects : o = Location
  BY DEF Objects
<1> DEFINE p == <<o, st, iid, fixes>>
           n == Len(list_resources(o))
<1>1. n \in Nat /\ n <= 22
  <2>1. n \in 1 .. 22
    BY ListOK
  <2> HIDE DEF n
  <2> QED BY SMT, <2>1
<1>2. PICK f : /\ f[0] = [items |-> <<>>, st |-> st]
               /\ \A k \in 1 .. n : f[k] = ReadOne(p, f[k - 1], k)
               /\ ReadInstance(o, st, iid, fixes) = f[n]
  BY ReadUnfolds
<1>3. p[1] = o /\ p[4] = fixes /\ Provided(o, fixes, n)
  BY <1>0
<1> HIDE DEF p, n
<1> DEFINE Good(e, k) == StateOK(o, e.st) /\ e.items \in Seq(Measured) /\ Len(e.items) <= k
           T == {k \in Nat : k <= n => Good(f[k], k)}
<1>4. 0 \in T
  <2>1. <<>> \in Seq(Measured) /\ Len(<<>>) = 0
    BY EmptySeq
  <2>2. PICK e : e = f[0] /\ e.items = <<>> /\ e.st = st
    BY <1>2
  <2>3. Good(e, 0)
    BY <1>0, <2>1, <2>2
  <2> HIDE DEF Good
  <2> QED BY <2>2, <2>3
<1>5. ASSUME NEW k \in Nat, k \in T PROVE k + 1 \in T
  <2> SUFFICES ASSUME k + 1 <= n PROVE Good(f[k + 1], k + 1)
    OBVIOUS
  <2>1. k + 1 \in 1 .. n /\ (k + 1) - 1 = k /\ k <= n
    BY <1>1
  <2>2. PICK before : before = f[k] /\ Good(before, k)
    BY <1>5, <2>1
  <2>3. f[k + 1] = ReadOne(p, before, k + 1)
    BY <1>2, <2>1, <2>2
  <2>4. PICK fix \in GpsAnswers : fix = fixes[k + 1]
    BY <1>0, <1>3, <2>1 DEF Provided
  <2>5. PICK rid : rid = list_resources(o)[k + 1]
    OBVIOUS
  <2>6. PICK r : r = read_resource(o, before.st, p[3], rid, NoId, fix)
    OBVIOUS
  <2>7. PICK m : m = <<rid, r.res.value>>
    OBVIOUS
  <2>8. f[k + 1] = [items |-> before.items \o IF r.res.ok THEN <<m>> ELSE <<>>, st |-> r.st]
    BY <1>3, <2>3, <2>4, <2>6, <2>7, <2>5 DEF ReadOne
  <2>9. StateOK(o, r.st)
    BY <2>2, <2>6, ReadEffect DEF ReadOK
  <2>10. PICK s \in Seq(Measured), l \in Nat : s = before.items /\ l = Len(s) /\ l <= k
    BY <2>2, LenProperties
  <2>11. CASE r.res.ok
    <3>1. m \in Measured
      BY <1>0, <2>2, <2>6, <2>7, <2>11, ReadMeasures
    <3>2. <<m>> \in Seq(Measured) /\ Len(<<m>>) = 1
      BY <3>1
    <3>3. s \o <<m>> \in Seq(Measured) /\ Len(s \o <<m>>) = l + 1
      BY <2>10, <3>2, ConcatProperties
    <3>4. l + 1 <= k + 1
      BY <2>10
    <3> QED BY <2>8, <2>9, <2>10, <2>11, <3>3, <3>4
  <2>12. CASE ~r.res.ok
    <3>1. s \o <<>> = s
      BY ConcatEmptySeq
    <3>2. l <= k + 1
      BY <2>10
    <3> QED BY <2>8, <2>9, <2>10, <2>12, <3>1, <3>2
  <2> QED BY <2>11, <2>12
<1>6. Nat \subseteq T
  <2> HIDE DEF T
  <2> QED BY <1>4, <1>5, Rd!SetInduction
<1>7. Good(f[n], n)
  BY <1>1, <1>6
<1>8. PICK items \in Seq(Measured), l \in Nat : items = f[n].items /\ l = Len(items) /\ l <= n
  BY <1>7, LenProperties
<1>9. l <= 22
  BY SMT, <1>1, <1>8
<1> QED BY <1>0, <1>2, <1>8, <1>9

(* Every record is a coordinate of a valid position. *)
Positions(recs) ==
    \A i \in DOMAIN recs : \E fix \in GpsAnswers :
      fix.valid /\ recs[i].value = serialize(Coordinate(fix, recs[i].id))

LEMMA MeasuredRecords ==
    ASSUME NEW items \in Seq(Measured), NEW depth
    PROVE  Positions(ItemRecords(items, depth))
<1> SUFFICES ASSUME NEW i \in 1 .. Len(items)
             PROVE  \E fix \in GpsAnswers :
                      /\ fix.valid
                      /\ ItemRecords(items, depth)[i].value
                           = serialize(Coordinate(fix, ItemRecords(items, depth)[i].id))
  BY DEF Positions, ItemRecords
<1>1. PICK fix \in GpsAnswers : fix.valid /\ items[i][2] = Coordinate(fix, items[i][1])
  BY MeasuredItems
<1>2. PICK rec : rec = ItemRecords(items, depth)[i]
  OBVIOUS
<1>3. rec = DecodedRecord(Resource, items[i][1], serialize(items[i][2]), depth)
  BY <1>2 DEF ItemRecords
<1>4. rec.id = items[i][1] /\ rec.value = serialize(items[i][2])
  BY <1>3 DEF DecodedRecord
<1> QED BY <1>1, <1>2, <1>4

(* The coordinates of an instance fit the length of a record.              *)
LEMMA MeasuredFit ==
    ASSUME NEW items \in Seq(Measured), Len(items) <= 22
    PROVE  Len(FlattenSeq(Encodings(items))) <= MaxValue
<1> DEFINE seqs == Encodings(items)
<1>1. PICK n \in Nat : n = Len(items) /\ n <= 22 /\ DOMAIN items = 1 .. n
  BY LenProperties
<1>2. ASSUME NEW i \in 1 .. n PROVE seqs[i] \in Seq(Byte) /\ Len(seqs[i]) <= 14
  <2>1. PICK id \in U16, v \in Seq(Byte) : id = items[i][1] /\ v = serialize(items[i][2]) /\ Len(v) <= 8
    BY <1>1, MeasuredItems
  <2>2. PICK l \in Nat : l = Len(v) /\ l <= 8
    BY <2>1, LenProperties
  <2>3. Resource \in 0 .. 3 /\ l <= MaxValue
    BY SMT, <2>2 DEF Resource, MaxValue
  <2>4. PICK e \in Seq(Byte) : e = encode_record(Resource, id, v) /\ Len(e) <= 6 + l
    BY <2>2, <2>3, EncodedLength
  <2>5. seqs[i] = e
    BY <1>1, <2>1, <2>4 DEF Encodings, encode_resource
  <2>6. PICK q \in Nat : q = Len(e)
    BY LenProperties
  <2>7. q <= 14
    BY SMT, <2>2, <2>4, <2>6
  <2> QED BY <2>5, <2>6, <2>7
<1>3. seqs \in [1 .. n -> Seq(Byte)]
  <2>1. seqs = [i \in 1 .. n |-> seqs[i]]
    BY <1>1 DEF Encodings
  <2> HIDE DEF seqs
  <2> QED BY <1>2, <2>1
<1> HIDE DEF seqs
<1>4. seqs \in Seq(Seq(Byte)) /\ Len(seqs) = n
  <2>1. seqs \in Seq(Seq(Byte)) /\ DOMAIN seqs = 1 .. n
    BY <1>3, SeqDef
  <2>2. Len(seqs) \in Nat /\ DOMAIN seqs = 1 .. Len(seqs)
    BY <2>1, LenProperties
  <2> QED BY <2>1, <2>2, SameBound
<1>5. FlattenSeq(seqs) \in Seq(Byte) /\ Len(FlattenSeq(seqs)) <= 14 * n
  BY <1>2, <1>4, FlatLength
<1>6. PICK l \in Nat : l = Len(FlattenSeq(seqs)) /\ l <= 14 * n
  BY <1>5, LenProperties
<1>7. l <= MaxValue
  BY SMT, <1>1, <1>6 DEF MaxValue
<1> QED BY <1>6, <1>7 DEF seqs

(* An answer that may be Content has only coordinates of valid positions.  *)
PositionsOf(path, payload) ==
    LET recs == decode(payload).value
    IN  Positions(IF is_resource(path) THEN recs ELSE recs[1].children)

LEMMA InstancePositions ==
    ASSUME NEW path, PathOK(path), ~is_resource(path), NEW iid \in U16,
           NEW st, StateOK(Location, st), NEW fixes \in Fixes(path), path[1] = Location
    PROVE  PositionsOf(path, encode_instance_tlv(Location, st, iid, fixes).payload)
<1>1. PICK items \in Seq(Measured) :
        items = ReadInstance(Location, st, iid, fixes).items /\ Len(items) <= 22
  <2>1. path # NoPath
    BY NoPathEmpty DEF PathOK
  <2>2. Provided(Location, fixes, Len(list_resources(Location)))
    BY <2>1, AnswersGiven
  <2> QED BY <2>2, InstanceMeasured
<1>2. encode_instance_tlv(Location, st, iid, fixes).payload = encode_instance(iid, items)
  BY <1>1 DEF encode_instance_tlv
<1>3. ItemsOK(items) /\ Len(FlattenSeq(Encodings(items))) <= MaxValue
  BY <1>1, MeasuredItems, MeasuredFit
<1>4. PICK rec : /\ decode(encode_instance(iid, items)) = Ok(<<rec>>)
                 /\ rec.children = ItemRecords(items, 1)
  BY <1>3, DecodeInstance
<1>5. PICK recs : recs = decode(encode_instance(iid, items)).value /\ recs = <<rec>>
  BY <1>4 DEF Ok
<1>6. Positions(recs[1].children)
  BY <1>4, <1>5, MeasuredRecords
<1> QED BY <1>2, <1>5, <1>6 DEF PositionsOf

LEMMA ReadPositions ==
    ASSUME NEW path, PathOK(path), path[1] = Location, ~is_resource_instance(path),
           NEW st, StateOK(Location, st), NEW fixes \in Fixes(path),
           "Content" \in process_read(path, st, fixes).codes
    PROVE  PositionsOf(path, process_read(path, st, fixes).payload)
<1>0. PICK a : a = process_read(path, st, fixes)
  OBVIOUS
<1>1. Location \notin Tables /\ list_instances(Location, st) = {0} /\ 0 \in U16
  <2>1. Location \notin Tables
    BY DEF Tables, Location, Security, Server
  <2>2. 0 \in U16
    BY SMT DEF U16, MaxU16
  <2> QED BY <2>1, <2>2 DEF list_instances
<1>2. CASE is_object(path)
  <2>1. PICK e : e = encode_instance_tlv(Location, st, 0, fixes)
    OBVIOUS
  <2>2. a = Answer("Content", e.payload, e.st)
    BY <1>0, <1>1, <1>2, <2>1 DEF process_read
  <2>3. a.payload = e.payload
    BY <2>2 DEF Answer
  <2>4. ~is_resource(path)
    BY <1>2 DEF is_object, is_resource
  <2> QED BY <1>0, <1>1, <2>1, <2>3, <2>4, InstancePositions
<1>3. CASE ~is_object(path) /\ is_instance(path)
  <2>1. path[2] = 0
    <3>1. CASE path[2] \notin {0}
      <4>1. a = Answer("NotFound", <<>>, st)
        BY <1>0, <1>1, <1>3, <3>1 DEF process_read
      <4> QED BY <1>0, <4>1 DEF Answer
    <3> QED BY <3>1
  <2>2. PICK e : e = encode_instance_tlv(Location, st, 0, fixes)
    OBVIOUS
  <2>3. a = Answer("Content", e.payload, e.st)
    BY <1>0, <1>1, <1>3, <2>1, <2>2 DEF process_read
  <2>4. a.payload = e.payload
    BY <2>3 DEF Answer
  <2>5. ~is_resource(path)
    BY <1>3 DEF is_instance, is_resource
  <2> QED BY <1>0, <1>1, <2>2, <2>4, <2>5, InstancePositions
<1>4. CASE ~is_object(path) /\ ~is_instance(path) /\ is_resource(path)
  <2>1. PICK rid : rid = path[3]
    OBVIOUS
  <2>2. PICK r : r = read_resource(Location, st, path[2], rid, NoId, fixes[1])
    OBVIOUS
  <2>3. a = IF r.res.ok THEN Answer("Content", encode_resource(rid, r.res.value), r.st)
            ELSE Answer(CoapCode(r.res.error), <<>>, r.st)
    BY <1>0, <1>4, <2>1, <2>2 DEF process_read
  <2>4. PICK fix \in GpsAnswers : fix = fixes[1]
    <3>1. path # NoPath
      BY NoPathEmpty DEF PathOK
    <3>2. Provided(path[1], fixes, 1)
      BY <1>4, <3>1, AnswersGiven
    <3> QED BY <3>2 DEF Provided
  <2>5. ReadOK(Location, st, r)
    BY <2>2, <2>4, ReadEffect DEF Objects
  <2>6. r.res.ok
    <3>1. CASE ~r.res.ok
      <4>1. CoapCode(r.res.error) = "NotFound"
        BY <2>5, <3>1, Parts DEF ReadOK, CoapCode
      <4> QED BY <1>0, <2>3, <3>1, <4>1 DEF Answer
    <3> QED BY <3>1
  <2>7. PICK v : v = r.res.value /\ <<rid, v>> \in Measured
    BY <2>2, <2>4, <2>6, ReadMeasures
  <2>8. PICK id \in Coordinates : \E f \in GpsAnswers : f.valid /\ <<rid, v>> = <<id, Coordinate(f, id)>>
    BY <2>7 DEF Measured
  <2>9. PICK f \in GpsAnswers : f.valid /\ rid = id /\ v = Coordinate(f, id)
    BY <2>8
  <2>10. rid \in U16 /\ Sendable(v)
    <3>1. id \in U16
      BY SMT DEF Coordinates, U16, MaxU16
    <3> QED BY <2>9, <3>1, CoordinateOK
  <2>11. PICK rec : rec = DecodedRecord(Resource, rid, serialize(v), 0)
    OBVIOUS
  <2>12. decode(encode_resource(rid, v)) = Ok(<<rec>>)
    BY <2>10, <2>11, DecodeSingle
  <2>13. PICK recs : recs = decode(encode_resource(rid, v)).value /\ recs = <<rec>>
    BY <2>12 DEF Ok
  <2>14. rec.id = id /\ rec.value = serialize(Coordinate(f, id))
    BY <2>9, <2>11 DEF DecodedRecord
  <2>15. Positions(recs)
    BY <2>9, <2>13, <2>14 DEF Positions
  <2>16. a.payload = encode_resource(rid, v)
    BY <2>3, <2>6, <2>7 DEF Answer
  <2> QED BY <1>0, <1>4, <2>13, <2>15, <2>16 DEF PositionsOf
<1>5. is_object(path) \/ is_instance(path) \/ is_resource(path)
  BY DEF PathOK, is_object, is_instance, is_resource, is_resource_instance
<1> QED BY <1>2, <1>3, <1>4, <1>5

LEMMA GetStep ==
    ASSUME Inv, NEW p \in Paths, Get(p)
    PROVE  /\ exch'.method = "GET" /\ exch' # Idle
           /\ \E path : \E fixes \in Fixes(path) :
                Answered(path, NoBody, process_read(path, objs[path[1]], fixes))
<1>1. PICK path : path = parse(uri_path(p))
  OBVIOUS
<1>2. PICK fixes \in Fixes(path) :
        Handle("GET", p, NoBody, process_read(path, objs[path[1]], fixes))
  BY <1>1 DEF Get
<1>3. PICK A : A = process_read(path, objs[path[1]], fixes) /\ Handle("GET", p, NoBody, A)
  BY <1>2
<1>4. ASSUME PathOK(path), path[1] \in Objects PROVE HandlerOK(path, objs[path[1]], A)
  <2>1. path # NoPath
    BY <1>4, NoPathEmpty DEF PathOK
  <2>2. StateOK(path[1], objs[path[1]])
    BY <1>4 DEF Inv, ObjsOK
  <2> QED BY <1>3, <1>4, <2>1, <2>2, ReadHandlerOK
<1>5. exch'.method = "GET" /\ Answered(path, NoBody, A)
  BY <1>1, <1>3, <1>4, Handled
<1>6. exch' # Idle
  BY <1>3 DEF Handle, Idle
<1> QED BY <1>3, <1>5, <1>6

(* No coordinate of a position that is not valid is ever answered to a     *)
(* read of the object, its instance or a resource of it, though each       *)
(* resource of a read asks the provider for the position anew              *)
(* (process_read and encode_instance_tlv, src/client.cpp;                  *)
(* LocationObject::read_resource and refresh_position). This is an         *)
(* application that gives the position by a provider alone: what its calls *)
(* of update_position() do to a read that is under way is in               *)
(* LocationObject.                                                         *)
THEOREM PositionsValid == Spec => []PositionFromValidFix
<1>1. Init => PositionFromValidFix
  BY DEF Init, PositionFromValidFix
<1>2. ASSUME Inv, [Next]_vars, PositionFromValidFix PROVE PositionFromValidFix'
  <2>1. CASE exch' = exch
    BY <1>2, <2>1 DEF PositionFromValidFix
  <2>2. CASE exch' = Idle
    BY <2>2 DEF PositionFromValidFix, Idle
  <2>3. ASSUME NEW method \in {"PUT", "POST", "DELETE"}, NEW p, NEW b, NEW A, Handle(method, p, b, A)
        PROVE  PositionFromValidFix'
    <3>1. exch'.method # "GET"
      BY <2>3 DEF Handle
    <3> QED BY <3>1 DEF PositionFromValidFix
  <2>4. ASSUME NEW p \in Paths, Get(p) PROVE PositionFromValidFix'
    <3>1. PICK path : \E fixes \in Fixes(path) :
                Answered(path, NoBody, process_read(path, objs[path[1]], fixes))
      BY <1>2, <2>4, GetStep
    <3>2. PICK fixes \in Fixes(path) :
                Answered(path, NoBody, process_read(path, objs[path[1]], fixes))
      BY <3>1
    <3>3. PICK A : A = process_read(path, objs[path[1]], fixes) /\ Answered(path, NoBody, A)
      BY <3>2
    <3>4. exch'.path = path
      BY <3>3 DEF Answered
    <3> SUFFICES ASSUME exch'.code = "Content", path[1] = Location, ~is_resource_instance(path)
                 PROVE  PositionsOf(path, exch'.payload)
      BY <3>4 DEF PositionFromValidFix, PositionsOf, Positions
    <3>5. "Content" \notin Errors
      BY DEF Errors
    <3>6. PathOK(path) /\ "Content" \in A.codes /\ exch'.payload = A.payload
      BY <3>3, <3>5 DEF Answered
    <3>7. StateOK(Location, objs[Location])
      BY <1>2 DEF Inv, ObjsOK, Objects
    <3> QED BY <3>2, <3>3, <3>6, <3>7, ReadPositions
  <2>5. \A p, b : (Put(p, b) \/ Post(p, b) \/ Delete(p)) =>
          \E method \in {"PUT", "POST", "DELETE"} : \E c, A : Handle(method, p, c, A)
    BY DEF Put, Post, Delete
  <2>6. \A o, st : AppCall(o, st) => exch' = exch
    BY DEF AppCall
  <2>7. (Reply => exch' = Idle) /\ (UNCHANGED vars => exch' = exch)
    BY DEF Reply, vars
  <2> QED
    BY <1>2, <2>1, <2>2, <2>3, <2>4, <2>5, <2>6, <2>7
    DEF Next, AppCreates, AppAddsServer, AppRaises, AppClears, AppSetsDevice,
        AppSetsConnectivity
<1> QED BY <1>1, <1>2, Invariant, PTL DEF Spec

-----------------------------------------------------------------------------
(* What an answer says of an object. *)

(* What list_instances returns is finite. *)
LEMMA InstancesFinite ==
    ASSUME NEW o \in Objects, NEW st, StateOK(o, st)
    PROVE  list_instances(o, st) \subseteq U16 /\ IsFiniteSet(list_instances(o, st))
<1>1. CASE o \in Tables
  <2>1. PICK D : D = DOMAIN st.inst /\ D \subseteq U16 /\ list_instances(o, st) = D
    BY <1>1 DEF StateOK, TableOK, InstancesOK, list_instances
  <2>2. IsFiniteSet(U16)
    <3>1. PICK m \in Int : m = MaxU16
      BY SMT DEF MaxU16
    <3>2. IsFiniteSet(0 .. m)
      BY FS_Interval
    <3> QED BY <3>1, <3>2 DEF U16
  <2> QED BY <2>1, <2>2, FS_Subset
<1>2. CASE o \notin Tables
  <2>1. list_instances(o, st) = {0}
    BY <1>2 DEF list_instances
  <2>2. 0 \in U16
    BY Ranges
  <2> QED BY <2>1, <2>2, FS_Singleton
<1> QED BY <1>1, <1>2

(* What FirstValues says of each object. *)
LEMMA FirstValuesForm ==
    /\ \A o \in Tables : \A st, iid, h : h \in FirstValues(o, st, iid) <=>
         \E rid \in DOMAIN Fields(o) :
            h = <<rid, Value(FieldType(Fields(o)[rid]), st.inst[iid][rid])>>
    /\ \A o \in {Device, Connectivity} : \A st, iid, h : h \in FirstValues(o, st, iid) <=>
         \E rid \in DOMAIN st :
            \/ rid \notin Multiple(o) /\ h = <<rid, st[rid]>>
            \/ rid \in Multiple(o) /\ st[rid] # <<>> /\ h = <<rid, st[rid][1]>>
<1>1. ASSUME NEW o \in Tables, NEW st, NEW iid, NEW h
      PROVE  h \in FirstValues(o, st, iid) <=>
               \E rid \in DOMAIN Fields(o) :
                  h = <<rid, Value(FieldType(Fields(o)[rid]), st.inst[iid][rid])>>
  <2>1. Resources(o, st) = DOMAIN Fields(o)
    BY <1>1 DEF Resources
  <2>2. \A rid : Values(o, st, iid, rid)
                   = <<Value(FieldType(Fields(o)[rid]), st.inst[iid][rid])>>
    BY <1>1 DEF Values
  <2>3. \A v : <<v>> # <<>> /\ <<v>>[1] = v
    OBVIOUS
  <2> QED BY <2>1, <2>2, <2>3 DEF FirstValues
<1>2. ASSUME NEW o \in {Device, Connectivity}, NEW st, NEW iid, NEW h
      PROVE  h \in FirstValues(o, st, iid) <=>
               \E rid \in DOMAIN st :
                  \/ rid \notin Multiple(o) /\ h = <<rid, st[rid]>>
                  \/ rid \in Multiple(o) /\ st[rid] # <<>> /\ h = <<rid, st[rid][1]>>
  <2>1. o \notin Tables
    BY Kind
  <2>2. PICK M : M = Multiple(o)
    OBVIOUS
  <2>3. Resources(o, st) = DOMAIN st
    BY <2>1 DEF Resources
  <2>4. \A rid : Values(o, st, iid, rid) = IF rid \in M THEN st[rid] ELSE <<st[rid]>>
    BY <2>1, <2>2 DEF Values
  <2>5. \A v : <<v>> # <<>> /\ <<v>>[1] = v
    OBVIOUS
  <2>6. h \in FirstValues(o, st, iid) <=>
          \E rid \in DOMAIN st :
            Values(o, st, iid, rid) # <<>> /\ h = <<rid, Values(o, st, iid, rid)[1]>>
    BY <2>3 DEF FirstValues
  <2> QED BY <2>2, <2>4, <2>5, <2>6
<1> QED BY <1>1, <1>2

(* Each is a ResourceValue, of a resource that list_resources names; a     *)
(* resource has one.                                                       *)
LEMMA FirstValuesOK ==
    ASSUME NEW o \in Objects \ {Location}, NEW st, StateOK(o, st),
           NEW iid \in list_instances(o, st), NEW h \in FirstValues(o, st, iid)
    PROVE  \E rid, v : h = <<rid, v>> /\ rid \in U16 /\ Listed(o, rid) /\ OfType(v)
<1>1. CASE o \in Tables
  <2>1. iid \in DOMAIN st.inst
    BY <1>1 DEF list_instances
  <2>2. PICK fields : fields = st.inst[iid] /\ InstanceOK(o, fields)
    BY <1>1, <2>1 DEF StateOK, TableOK, InstancesOK
  <2>3. PICK rid \in DOMAIN Fields(o) :
          h = <<rid, Value(FieldType(Fields(o)[rid]), fields[rid])>>
    BY <1>1, <2>2, FirstValuesForm
  <2>4. PICK field \in Kinds : field = Fields(o)[rid] /\ InWidth(field, fields[rid])
    BY <1>1, <2>2, FieldKinds DEF InstanceOK
  <2>5. OfType(Value(FieldType(field), fields[rid]))
    BY <2>4, FieldValueOK
  <2>6. rid \in U16 /\ Listed(o, rid)
    BY <1>1, FieldKinds, ListAll
  <2> QED BY <2>3, <2>4, <2>5, <2>6
<1>2. CASE o \in {Device, Connectivity}
  <2>1. HeldOK(o, st)
    BY <1>2, Kind DEF StateOK, DeviceOK, ConnectivityOK
  <2>2. PICK rid \in DOMAIN st :
          \/ rid \notin Multiple(o) /\ h = <<rid, st[rid]>>
          \/ rid \in Multiple(o) /\ st[rid] # <<>> /\ h = <<rid, st[rid][1]>>
    BY <1>2, FirstValuesForm
  <2>3. rid \in U16 /\ Listed(o, rid)
    <3>1. CASE o = Device
      <4>1. rid \in (0 .. 21) \ {4, 5, 12}
        BY <3>1 DEF StateOK, DeviceOK
      <4>2. rid \in Nat /\ rid <= 65535
        BY SMT, <4>1
      <4> QED BY <3>1, <4>1, <4>2, ListAll, Ranges
    <3>2. CASE o = Connectivity
      <4>1. rid \in 0 .. 10
        BY <3>2 DEF StateOK, ConnectivityOK
      <4>2. rid \in Nat /\ rid <= 65535
        BY SMT, <4>1
      <4> QED BY <3>2, <4>1, <4>2, ListAll, Ranges
    <3> QED BY <1>2, <3>1, <3>2
  <2>4. PICK held : held = st[rid] /\ Holdable(o, rid, held)
    BY <2>1 DEF HeldOK
  <2>5. CASE rid \notin Multiple(o) /\ h = <<rid, held>>
    <3>1. OfType(held)
      BY <2>4, <2>5 DEF Holdable
    <3> QED BY <2>3, <2>5, <3>1
  <2>6. CASE rid \in Multiple(o) /\ held # <<>> /\ h = <<rid, held[1]>>
    <3>1. PICK S : held \in Seq(S) /\ \A i \in DOMAIN held : OfType(held[i])
      BY <2>4, <2>6 DEF Holdable
    <3>2. 1 \in DOMAIN held
      BY <2>6, <3>1, EmptySeq, LenProperties
    <3> QED BY <2>3, <2>6, <3>1, <3>2
  <2> QED BY <2>2, <2>4, <2>5, <2>6
<1> QED BY <1>1, <1>2, Kind

LEMMA FirstValuesOne ==
    ASSUME NEW o \in Objects \ {Location}, NEW st, NEW iid,
           NEW h \in FirstValues(o, st, iid), NEW g \in FirstValues(o, st, iid), h[1] = g[1]
    PROVE  h = g
<1>1. CASE o \in Tables
  <2>1. PICK r \in DOMAIN Fields(o) :
          h = <<r, Value(FieldType(Fields(o)[r]), st.inst[iid][r])>>
    BY <1>1, FirstValuesForm
  <2>2. PICK q \in DOMAIN Fields(o) :
          g = <<q, Value(FieldType(Fields(o)[q]), st.inst[iid][q])>>
    BY <1>1, FirstValuesForm
  <2> QED BY <2>1, <2>2
<1>2. CASE o \in {Device, Connectivity}
  <2>1. PICK r \in DOMAIN st :
          \/ r \notin Multiple(o) /\ h = <<r, st[r]>>
          \/ r \in Multiple(o) /\ st[r] # <<>> /\ h = <<r, st[r][1]>>
    BY <1>2, FirstValuesForm
  <2>2. PICK q \in DOMAIN st :
          \/ q \notin Multiple(o) /\ g = <<q, st[q]>>
          \/ q \in Multiple(o) /\ st[q] # <<>> /\ g = <<q, st[q][1]>>
    BY <1>2, FirstValuesForm
  <2> QED BY <2>1, <2>2
<1> QED BY <1>1, <1>2, Kind

(* What a read of resource rid of an instance says: what the object holds, *)
(* if it holds anything.                                                   *)
Says(o, st, iid, rid, res) ==
    /\ res.ok => iid \in list_instances(o, st) /\ <<rid, res.value>> \in FirstValues(o, st, iid)
    /\ iid \in list_instances(o, st) =>
         \A h \in FirstValues(o, st, iid) : h[1] = rid => res.ok /\ h = <<rid, res.value>>

LEMMA ReadSays ==
    ASSUME NEW o \in Objects \ {Location}, NEW st, StateOK(o, st), NEW iid, NEW rid, NEW fix
    PROVE  LET r == read_resource(o, st, iid, rid, NoId, fix)
           IN  r.st = st /\ Says(o, st, iid, rid, r.res)
<1>0. PICK r : r = read_resource(o, st, iid, rid, NoId, fix)
  OBVIOUS
<1>1. CASE o \in Tables
  <2>1. r = Done(ReadField(o, st, iid, rid), st)
    <3>1. CASE o = Server
      BY <1>0, <3>1 DEF read_resource, ReadServer, Server, Security, Device, Location, Connectivity
    <3>2. CASE o = Security
      BY <1>0, <3>2 DEF read_resource, ReadSecurity, Server, Security, Device, Location, Connectivity
    <3> QED BY <1>1, <3>1, <3>2 DEF Tables
  <2>2. PICK v : v = Value(FieldType(Fields(o)[rid]), st.inst[iid][rid])
    OBVIOUS
  <2>3. r.st = st /\ r.res = IF iid \notin DOMAIN st.inst \/ rid \notin DOMAIN Fields(o)
                             THEN Err("NotFound") ELSE Ok(v)
    BY <2>1, <2>2, Parts DEF ReadField, Taken
  <2>4. list_instances(o, st) = DOMAIN st.inst
    BY <1>1 DEF list_instances
  <2>5. ASSUME r.res.ok PROVE iid \in DOMAIN st.inst /\ <<rid, r.res.value>> \in FirstValues(o, st, iid)
    <3>1. iid \in DOMAIN st.inst /\ rid \in DOMAIN Fields(o) /\ r.res.value = v
      BY <2>3, <2>5, Parts
    <3> QED BY <1>1, <2>2, <3>1, FirstValuesForm
  <2>6. ASSUME iid \in DOMAIN st.inst, NEW h \in FirstValues(o, st, iid), h[1] = rid
        PROVE  r.res.ok /\ h = <<rid, r.res.value>>
    <3>1. PICK q \in DOMAIN Fields(o) :
            h = <<q, Value(FieldType(Fields(o)[q]), st.inst[iid][q])>>
      BY <1>1, FirstValuesForm
    <3>2. q = rid /\ h = <<rid, v>>
      BY <2>2, <2>6, <3>1
    <3>3. r.res = Ok(v)
      BY <2>3, <2>6, <3>2
    <3> QED BY <3>2, <3>3, Parts
  <2> QED BY <1>0, <2>3, <2>4, <2>5, <2>6 DEF Says
<1>2. CASE o \in {Device, Connectivity}
  <2>1. PICK one : one = st[rid]
    OBVIOUS
  <2>2. PICK M : M = Multiple(o)
    OBVIOUS
  <2>3. r.st = st /\ r.res = IF iid # 0 \/ rid \notin DOMAIN st THEN Err("NotFound")
                             ELSE IF rid \in M
                             THEN IF one # <<>> THEN Ok(one[1])
                                  ELSE IF o = Device /\ rid = 11 THEN Ok(NoError) ELSE Err("NotFound")
                             ELSE Ok(one)
    <3>1. CASE o = Device
      <4>1. r = Done(ReadDevice(st, iid, rid, NoId), st)
        BY <1>0, <3>1 DEF read_resource, Server, Security, Device, Location, Connectivity
      <4> QED BY <2>1, <2>2, <3>1, <4>1, Parts DEF ReadDevice, ReadMulti
    <3>2. CASE o = Connectivity
      <4>1. r = Done(ReadConnectivity(st, iid, rid, NoId), st)
        BY <1>0, <3>2 DEF read_resource, Server, Security, Device, Location, Connectivity
      <4> QED BY <2>1, <2>2, <3>2, <4>1, Parts, Kind DEF ReadConnectivity, ReadMulti
    <3> QED BY <1>2, <3>1, <3>2
  <2>4. list_instances(o, st) = {0}
    BY <1>2, Kind DEF list_instances
  <2>5. ~(o = Device /\ rid = 11 /\ one = <<>>)
    BY <2>1 DEF StateOK, DeviceOK, ErrorsOK
  <2>6. ASSUME r.res.ok PROVE iid = 0 /\ <<rid, r.res.value>> \in FirstValues(o, st, iid)
    <3>1. iid = 0 /\ rid \in DOMAIN st
      BY <2>3, <2>6, Parts
    <3>2. \/ rid \in M /\ one # <<>> /\ r.res = Ok(one[1])
          \/ rid \notin M /\ r.res = Ok(one)
      BY <2>3, <2>5, <2>6, Parts
    <3>3. \/ rid \in M /\ one # <<>> /\ r.res.value = one[1]
          \/ rid \notin M /\ r.res.value = one
      BY <3>2, Parts
    <3> QED BY <1>2, <2>1, <2>2, <3>1, <3>3, FirstValuesForm
  <2>7. ASSUME iid = 0, NEW h \in FirstValues(o, st, iid), h[1] = rid
        PROVE  r.res.ok /\ h = <<rid, r.res.value>>
    <3>1. PICK q \in DOMAIN st :
            \/ q \notin M /\ h = <<q, st[q]>>
            \/ q \in M /\ st[q] # <<>> /\ h = <<q, st[q][1]>>
      BY <1>2, <2>2, FirstValuesForm
    <3>2. q = rid /\ st[q] = one
      BY <2>1, <2>7, <3>1
    <3>3. CASE rid \notin M /\ h = <<rid, one>>
      <4>1. r.res = Ok(one)
        BY <2>3, <2>7, <3>2, <3>3
      <4> QED BY <3>3, <4>1, Parts
    <3>4. CASE rid \in M /\ one # <<>> /\ h = <<rid, one[1]>>
      <4>1. r.res = Ok(one[1])
        BY <2>3, <2>7, <3>2, <3>4
      <4> QED BY <3>4, <4>1, Parts
    <3> QED BY <3>1, <3>2, <3>3, <3>4
  <2> QED BY <1>0, <2>3, <2>4, <2>6, <2>7 DEF Says
<1> QED BY <1>1, <1>2, Kind

(* items has the elements of H that belong to the first k ids of L. *)
Covers(items, H, L, k) ==
    /\ items \in Seq(H)
    /\ \A i \in 1 .. Len(items) : \E j \in 1 .. k : L[j] = items[i][1]
    /\ \A h \in H : (\E j \in 1 .. k : L[j] = h[1]) => \E i \in 1 .. Len(items) : items[i] = h
    /\ \A i, j \in 1 .. Len(items) : items[i] = items[j] => i = j

(* One id more. *)
LEMMA CoversNext ==
    ASSUME NEW H, NEW L, NEW n \in Nat, \A i, j \in 1 .. n : L[i] = L[j] => i = j,
           NEW k \in Nat, k + 1 <= n, NEW s, Covers(s, H, L, k),
           NEW rid, rid = L[k + 1], NEW v, NEW ok \in BOOLEAN, ok => <<rid, v>> \in H,
           \A h \in H : h[1] = rid => ok /\ h = <<rid, v>>
    PROVE  Covers(s \o IF ok THEN <<<<rid, v>>>> ELSE <<>>, H, L, k + 1)
<1>1. s \in Seq(H) /\ Len(s) \in Nat
  BY LenProperties DEF Covers
<1>2. PICK m \in Nat : m = Len(s)
  BY <1>1
<1>3. /\ \A i \in 1 .. m : \E j \in 1 .. k : L[j] = s[i][1]
      /\ \A h \in H : (\E j \in 1 .. k : L[j] = h[1]) => \E i \in 1 .. m : s[i] = h
      /\ \A i, j \in 1 .. m : s[i] = s[j] => i = j
  BY <1>2 DEF Covers
<1>4. \A j \in 1 .. k + 1 : j \in 1 .. k \/ j = k + 1
  OBVIOUS
<1>5. \A j \in 1 .. k : j \in 1 .. k + 1 /\ L[j] # rid
  <2> SUFFICES ASSUME NEW j \in 1 .. k PROVE j \in 1 .. k + 1 /\ L[j] # rid
    OBVIOUS
  <2>1. j \in 1 .. n /\ k + 1 \in 1 .. n /\ j # k + 1 /\ j \in 1 .. k + 1
    OBVIOUS
  <2> QED BY <2>1
<1>6. CASE ~ok
  <2>1. s \o <<>> = s
    BY <1>1, ConcatEmptySeq
  <2>2. \A h \in H : (\E j \in 1 .. k + 1 : L[j] = h[1]) => \E i \in 1 .. m : s[i] = h
    BY <1>3, <1>4, <1>6
  <2>3. \A i \in 1 .. m : \E j \in 1 .. k + 1 : L[j] = s[i][1]
    BY <1>3, <1>5
  <2>4. Covers(s, H, L, k + 1)
    BY <1>1, <1>2, <1>3, <2>2, <2>3 DEF Covers
  <2> QED BY <1>6, <2>1, <2>4
<1>7. CASE ok
  <2>1. PICK h \in H : h = <<rid, v>>
    BY <1>7
  <2>2. <<h>> \in Seq(H) /\ Len(<<h>>) = 1 /\ <<h>>[1] = h
    OBVIOUS
  <2>3. PICK t : t = s \o <<h>>
    OBVIOUS
  <2>4. /\ t \in Seq(H) /\ Len(t) = m + 1 /\ t[m + 1] = h
        /\ \A i \in 1 .. m : t[i] = s[i]
    <3>1. t \in Seq(H) /\ Len(t) = m + 1
      BY <1>1, <1>2, <2>2, <2>3, ConcatProperties
    <3>2. \A i \in 1 .. m : t[i] = s[i]
      BY <1>1, <1>2, <2>2, <2>3, ConcatProperties
    <3>3. t[m + 1] = h
      <4>1. m + 1 \in 1 .. m + 1 /\ ~(m + 1 <= m) /\ (m + 1) - m = 1
        OBVIOUS
      <4> QED BY <1>1, <1>2, <2>2, <2>3, <4>1, ConcatProperties
    <3> QED BY <3>1, <3>2, <3>3
  <2>5. \A i \in 1 .. m + 1 : i \in 1 .. m \/ i = m + 1
    OBVIOUS
  <2>6. \A i \in 1 .. m : i \in 1 .. m + 1 /\ t[i] # h
    <3> SUFFICES ASSUME NEW i \in 1 .. m PROVE i \in 1 .. m + 1 /\ t[i] # h
      OBVIOUS
    <3>1. i \in 1 .. m + 1
      OBVIOUS
    <3>2. PICK j \in 1 .. k : L[j] = s[i][1]
      BY <1>3
    <3>3. t[i] = s[i] /\ L[j] # rid
      BY <1>5, <2>4
    <3> QED BY <2>1, <3>1, <3>2, <3>3
  <2>7. m + 1 \in 1 .. m + 1 /\ k + 1 \in 1 .. k + 1
    OBVIOUS
  <2>8. \A i \in 1 .. m + 1 : \E j \in 1 .. k + 1 : L[j] = t[i][1]
    BY <1>3, <1>5, <2>1, <2>4, <2>5, <2>7
  <2>9. \A g \in H : (\E j \in 1 .. k + 1 : L[j] = g[1]) => \E i \in 1 .. m + 1 : t[i] = g
    <3> SUFFICES ASSUME NEW g \in H, NEW j \in 1 .. k + 1, L[j] = g[1]
                 PROVE  \E i \in 1 .. m + 1 : t[i] = g
      OBVIOUS
    <3>1. CASE j = k + 1
      BY <2>1, <2>4, <2>7, <3>1
    <3>2. CASE j \in 1 .. k
      <4>1. PICK i \in 1 .. m : s[i] = g
        BY <1>3, <3>2
      <4> QED BY <2>4, <2>6, <4>1
    <3> QED BY <1>4, <3>1, <3>2
  <2>10. \A i, j \in 1 .. m + 1 : t[i] = t[j] => i = j
    <3> SUFFICES ASSUME NEW i \in 1 .. m + 1, NEW j \in 1 .. m + 1, t[i] = t[j] PROVE i = j
      OBVIOUS
    <3>1. CASE i \in 1 .. m /\ j \in 1 .. m
      BY <1>3, <2>4, <3>1
    <3> QED BY <2>4, <2>5, <2>6, <3>1
  <2>11. Covers(t, H, L, k + 1)
    BY <2>4, <2>8, <2>9, <2>10 DEF Covers
  <2> QED BY <1>7, <2>1, <2>3, <2>11
<1> QED BY <1>6, <1>7

(* What is read of an instance is what the object holds. *)
LEMMA ReadEnumerates ==
    ASSUME NEW o \in Objects \ {Location}, NEW st, StateOK(o, st),
           NEW iid \in list_instances(o, st), NEW fixes
    PROVE  /\ ReadInstance(o, st, iid, fixes).st = st
           /\ Enumerates(ReadInstance(o, st, iid, fixes).items, FirstValues(o, st, iid))
<1> DEFINE p == <<o, st, iid, fixes>>
           n == Len(list_resources(o))
           L == list_resources(o)
           H == FirstValues(o, st, iid)
<1>1. n \in Nat /\ \A i, j \in 1 .. n : L[i] = L[j] => i = j
  BY ListOK, ListEach
<1>2. PICK f : /\ f[0] = [items |-> <<>>, st |-> st]
               /\ \A k \in 1 .. n : f[k] = ReadOne(p, f[k - 1], k)
               /\ ReadInstance(o, st, iid, fixes) = f[n]
  BY ReadUnfolds
<1>3. p[1] = o /\ p[3] = iid /\ p[4] = fixes
  OBVIOUS
<1>4. \A rid, fix : LET r == read_resource(o, st, iid, rid, NoId, fix)
                    IN  r.st = st /\ Says(o, st, iid, rid, r.res) /\ r.res.ok \in BOOLEAN
  <2> SUFFICES ASSUME NEW rid, NEW fix
               PROVE  LET r == read_resource(o, st, iid, rid, NoId, fix)
                      IN  r.st = st /\ Says(o, st, iid, rid, r.res) /\ r.res.ok \in BOOLEAN
    OBVIOUS
  <2>1. PICK r : r = read_resource(o, st, iid, rid, NoId, fix) /\ ReadOK(o, st, r)
    BY ReadEffect
  <2>2. PICK res : res = r.res /\ ((\E v : res = Ok(v)) \/ res = Err("NotFound"))
    BY <2>1 DEF ReadOK
  <2>3. res.ok \in BOOLEAN
    <3>1. Err("NotFound").ok = FALSE /\ \A v : Ok(v).ok = TRUE
      BY Parts
    <3> QED BY <2>2, <3>1
  <2> QED BY <2>1, <2>2, <2>3, ReadSays
<1>5. \A h \in H : \E j \in 1 .. n : L[j] = h[1]
  <2> SUFFICES ASSUME NEW h \in H PROVE \E j \in 1 .. n : L[j] = h[1]
    OBVIOUS
  <2>1. PICK rid, v : h = <<rid, v>> /\ Listed(o, rid)
    BY FirstValuesOK
  <2> QED BY <2>1 DEF Listed
<1>6. H = FirstValues(o, st, iid) /\ L = list_resources(o)
  OBVIOUS
<1> HIDE DEF p, n, L, H
<1> DEFINE Good(e, k) == e.st = st /\ Covers(e.items, H, L, k)
           T == {k \in Nat : k <= n => Good(f[k], k)}
<1>7. 0 \in T
  <2>1. PICK s : s = <<>> /\ s \in Seq(H) /\ Len(s) = 0
    BY EmptySeq
  <2>2. \A j : j \notin 1 .. 0
    OBVIOUS
  <2>3. Covers(s, H, L, 0)
    BY <2>1, <2>2 DEF Covers
  <2>4. f[0].st = st /\ f[0].items = s
    BY <1>2, <2>1
  <2> QED BY <2>3, <2>4
<1>8. ASSUME NEW k \in Nat, k \in T PROVE k + 1 \in T
  <2> SUFFICES ASSUME k + 1 <= n PROVE Good(f[k + 1], k + 1)
    OBVIOUS
  <2>1. k + 1 \in 1 .. n /\ (k + 1) - 1 = k /\ k <= n
    BY <1>1
  <2>2. PICK before : before = f[k] /\ Good(before, k)
    BY <1>8, <2>1
  <2>3. f[k + 1] = ReadOne(p, before, k + 1)
    BY <1>2, <2>1, <2>2
  <2>4. PICK rid : rid = L[k + 1]
    OBVIOUS
  <2>5. PICK r : r = read_resource(o, st, iid, rid, NoId, fixes[k + 1])
    OBVIOUS
  <2>6. PICK v : v = r.res.value
    OBVIOUS
  <2>7. PICK ok \in BOOLEAN : ok = r.res.ok
    BY <1>4, <2>5
  <2>8. f[k + 1] = [items |-> before.items \o IF ok THEN <<<<rid, v>>>> ELSE <<>>, st |-> r.st]
    BY <1>3, <1>6, <2>2, <2>3, <2>4, <2>5, <2>6, <2>7 DEF ReadOne
  <2>9. r.st = st /\ Says(o, st, iid, rid, r.res)
    BY <1>4, <2>5
  <2>10. ok => <<rid, v>> \in H
    BY <1>6, <2>6, <2>7, <2>9 DEF Says
  <2>11. \A h \in H : h[1] = rid => ok /\ h = <<rid, v>>
    BY <1>6, <2>6, <2>7, <2>9 DEF Says
  <2>12. PICK s : s = before.items /\ Covers(s, H, L, k)
    BY <2>2
  <2>13. Covers(s \o IF ok THEN <<<<rid, v>>>> ELSE <<>>, H, L, k + 1)
    BY <1>1, <2>4, <2>10, <2>11, <2>12, CoversNext
  <2> QED BY <2>8, <2>9, <2>12, <2>13
<1>9. Nat \subseteq T
  <2> HIDE DEF T
  <2> QED BY <1>7, <1>8, Rd!SetInduction
<1>10. Good(f[n], n)
  BY <1>1, <1>9
<1>11. Enumerates(f[n].items, H)
  BY <1>5, <1>10 DEF Covers, Enumerates
<1> QED BY <1>2, <1>6, <1>10, <1>11

(* The records of what an instance holds describe it. *)
LEMMA InstanceDescribed ==
    ASSUME NEW o \in Objects \ {Location}, NEW st, StateOK(o, st),
           NEW iid \in list_instances(o, st),
           NEW items, Enumerates(items, FirstValues(o, st, iid)), ItemsOK(items), NEW depth
    PROVE  Describes(ItemRecords(items, depth), o, st, iid)
<1> DEFINE recs == ItemRecords(items, depth)
<1>1. PICK H : H = FirstValues(o, st, iid)
  OBVIOUS
<1>2. PICK n \in Nat : n = Len(items) /\ n = Cardinality(H) /\ items \in Seq(H)
  BY <1>1, Counted DEF Enumerates
<1>3. Len(recs) = n /\ DOMAIN recs = 1 .. n
  <2>1. PICK S : S = {recs[i] : i \in 1 .. n}
    OBVIOUS
  <2>2. recs = [i \in 1 .. n |-> recs[i]]
    BY <1>2 DEF ItemRecords
  <2> HIDE DEF recs
  <2>3. recs \in [1 .. n -> S]
    BY <2>1, <2>2
  <2>4. recs \in Seq(S) /\ DOMAIN recs = 1 .. n
    BY <2>3, SeqDef
  <2> QED BY <2>4, LenProperties, SameBound
<1>4. ASSUME NEW h \in H
      PROVE  \E i \in DOMAIN recs :
               /\ recs[i].type = Resource /\ recs[i].id = h[1]
               /\ decode_resource(recs[i].value, get_resource_type(h[2])) = Ok(Received(h[2]))
  <2>1. PICK i \in 1 .. n : items[i] = h
    BY <1>1, <1>2 DEF Enumerates
  <2>2. PICK rid, v : h = <<rid, v>> /\ OfType(v)
    BY <1>1, FirstValuesOK
  <2>3. h[1] = rid /\ h[2] = v
    BY <2>2
  <2>4. PICK b : /\ b = serialize(v)
                 /\ decode_resource(b, get_resource_type(v)) = Ok(Received(v))
    BY <2>2, ValueSerialized
  <2>5. recs[i] = DecodedRecord(Resource, rid, b, depth)
    BY <1>2, <2>1, <2>3, <2>4 DEF ItemRecords
  <2>6. PICK rec : rec = DecodedRecord(Resource, rid, b, depth)
    OBVIOUS
  <2>7. rec.type = Resource /\ rec.id = rid /\ rec.value = b
    BY <2>6 DEF DecodedRecord
  <2> HIDE DEF recs
  <2> QED BY <1>3, <2>3, <2>4, <2>5, <2>6, <2>7
<1> HIDE DEF recs
<1>5. Describes(recs, o, st, iid)
  BY <1>1, <1>2, <1>3, <1>4 DEF Describes
<1> QED BY <1>5 DEF recs

(* What AnswerDescribesObject asks of an answer, if st is the object's     *)
(* state.                                                                  *)
Described(path, payload, st) ==
    LET o    == path[1]
        recs == decode(payload).value
        iids == IF is_object(path) THEN list_instances(o, st) ELSE {path[2]}
    IN  IF is_resource(path)
        THEN \E h \in FirstValues(o, st, path[2]) :
               /\ h[1] = path[3] /\ Len(recs) = 1 /\ recs[1].id = h[1]
               /\ decode_resource(recs[1].value, get_resource_type(h[2]))
                    = Ok(Received(h[2]))
        ELSE /\ Len(recs) = Cardinality(iids)
             /\ \A iid \in iids : \E i \in DOMAIN recs :
                  /\ recs[i].type = ObjectInstance /\ recs[i].id = iid
                  /\ Describes(recs[i].children, o, st, iid)

(* encode_instance_tlv changes nothing, and what it encodes describes the  *)
(* instance if its bytes fit the length of a record.                       *)
LEMMA InstanceEncoded ==
    ASSUME NEW o \in Objects \ {Location}, NEW st, StateOK(o, st),
           NEW iid \in list_instances(o, st), NEW fixes
    PROVE  LET e     == encode_instance_tlv(o, st, iid, fixes)
               items == ReadInstance(o, st, iid, fixes).items
           IN  /\ e.st = st /\ e.payload = encode_instance(iid, items) /\ e.payload \in Seq(Byte)
               /\ Len(e.payload) <= MaxValue =>
                    /\ ItemsOK(items) /\ Len(FlattenSeq(Encodings(items))) <= MaxValue
                    /\ \A depth : Describes(ItemRecords(items, depth), o, st, iid)
<1>1. PICK items : items = ReadInstance(o, st, iid, fixes).items
  OBVIOUS
<1>2. ReadInstance(o, st, iid, fixes).st = st /\ Enumerates(items, FirstValues(o, st, iid))
  BY <1>1, ReadEnumerates
<1>3. PICK e : e = encode_instance_tlv(o, st, iid, fixes)
  OBVIOUS
<1>4. e.st = st /\ e.payload = encode_instance(iid, items)
  BY <1>1, <1>2, <1>3 DEF encode_instance_tlv
<1>5. PICK flat \in Seq(Byte) : /\ flat = FlattenSeq(Encodings(items))
                                /\ Len(flat) <= MaxValue => ItemsOK(items)
  <2>1. \A h \in FirstValues(o, st, iid) : \E rid, v : h = <<rid, v>> /\ rid \in U16 /\ OfType(v)
    BY FirstValuesOK
  <2>2. PICK H : H = FirstValues(o, st, iid) /\ items \in Seq(H)
    BY <1>2 DEF Enumerates
  <2> QED BY <2>1, <2>2, HeldEncoded
<1>6. ObjectInstance \in 0 .. 3 /\ iid \in U16 /\ MaxValue \in Nat
  BY SMT, InstancesFinite DEF ObjectInstance, MaxValue
<1>7. PICK p \in Seq(Byte) : p = encode_record(ObjectInstance, iid, flat) /\ Len(p) >= Len(flat)
  BY <1>6, EncodedLonger
<1>8. e.payload = p
  BY <1>4, <1>5, <1>7 DEF encode_instance, Encodings
<1>9. Len(p) <= MaxValue => Len(flat) <= MaxValue
  <2>1. PICK x \in Nat, y \in Nat, z \in Nat : x = Len(flat) /\ y = Len(p) /\ z = MaxValue
    BY <1>6, LenProperties
  <2>2. x <= y
    BY <1>7, <2>1
  <2>3. y <= z => x <= z
    BY <2>2
  <2> QED BY <2>1, <2>3
<1>10. ASSUME Len(p) <= MaxValue PROVE \A depth : Describes(ItemRecords(items, depth), o, st, iid)
  BY <1>2, <1>5, <1>9, <1>10, InstanceDescribed
<1> QED BY <1>1, <1>3, <1>4, <1>5, <1>8, <1>9, <1>10

(* An answer with one instance describes it. *)
LEMMA OneDescribed ==
    ASSUME NEW o \in Objects \ {Location}, NEW st, StateOK(o, st),
           NEW iid \in list_instances(o, st), NEW fixes, NEW path, ~is_resource(path), path[1] = o,
           (IF is_object(path) THEN list_instances(o, st) ELSE {path[2]}) = {iid},
           Len(encode_instance_tlv(o, st, iid, fixes).payload) <= MaxValue
    PROVE  Described(path, encode_instance_tlv(o, st, iid, fixes).payload, st)
<1>1. PICK e, items : /\ e = encode_instance_tlv(o, st, iid, fixes)
                      /\ items = ReadInstance(o, st, iid, fixes).items
  OBVIOUS
<1>2. PICK payload : payload = e.payload /\ Len(payload) <= MaxValue
  BY <1>1
<1>3. /\ payload = encode_instance(iid, items)
      /\ ItemsOK(items) /\ Len(FlattenSeq(Encodings(items))) <= MaxValue
      /\ \A depth : Describes(ItemRecords(items, depth), o, st, iid)
  BY <1>1, <1>2, InstanceEncoded
<1>4. iid \in U16
  BY InstancesFinite
<1>5. PICK rec : /\ decode(payload) = Ok(<<rec>>)
                 /\ rec.type = ObjectInstance /\ rec.id = iid
                 /\ rec.children = ItemRecords(items, 1)
  BY <1>3, <1>4, DecodeInstance
<1>6. PICK recs : recs = decode(payload).value /\ recs = <<rec>>
  BY <1>5 DEF Ok
<1>7. Len(recs) = 1 /\ 1 \in DOMAIN recs /\ recs[1] = rec
  BY <1>6
<1>8. Cardinality({iid}) = 1
  BY FS_Singleton
<1>9. Describes(rec.children, o, st, iid)
  BY <1>3, <1>5
<1> QED BY <1>1, <1>2, <1>5, <1>6, <1>7, <1>8, <1>9 DEF Described

(* An answer with all the instances of an object describes each.           *)
LEMMA AllDescribed ==
    ASSUME NEW o \in Objects \ {Location}, NEW st, StateOK(o, st), NEW fixes,
           NEW path, is_object(path), path[1] = o, NEW payload,
           payload = LET iids == SetToSeq(list_instances(o, st))
                     IN  FlattenSeq([i \in DOMAIN iids |->
                           encode_instance_tlv(o, st, iids[i], fixes).payload]),
           Len(payload) <= MaxValue
    PROVE  Described(path, payload, st)
<1>1. PICK D : D = list_instances(o, st) /\ D \subseteq U16 /\ IsFiniteSet(D)
  BY InstancesFinite
<1>2. PICK iids : iids = SetToSeq(D) /\ Enumerates(iids, D)
  BY <1>1, SetToSeqOK
<1>3. PICK n \in Nat : n = Len(iids) /\ n = Cardinality(D) /\ DOMAIN iids = 1 .. n /\ iids \in Seq(D)
  <2>1. iids \in Seq(D)
    BY <1>2 DEF Enumerates
  <2>2. Len(iids) \in Nat /\ Len(iids) = Cardinality(D)
    BY <1>2, Counted
  <2>3. DOMAIN iids = 1 .. Len(iids)
    BY <2>1, LenProperties
  <2> QED BY <2>1, <2>2, <2>3
<1>4. \A i \in 1 .. n : iids[i] \in D
  BY <1>3, ElementOfSeq
<1> DEFINE e(i) == encode_instance_tlv(o, st, iids[i], fixes).payload
           items == [i \in 1 .. n |-> ReadInstance(o, st, iids[i], fixes).items]
           seqs == [i \in 1 .. n |-> e(i)]
<1>5. payload = FlattenSeq(seqs)
  BY <1>1, <1>2, <1>3
<1>6. ASSUME NEW i \in 1 .. n
      PROVE  /\ e(i) = encode_instance(iids[i], items[i]) /\ e(i) \in Seq(Byte)
             /\ Len(e(i)) <= MaxValue =>
                  /\ ItemsOK(items[i]) /\ Len(FlattenSeq(Encodings(items[i]))) <= MaxValue
                  /\ \A depth : Describes(ItemRecords(items[i], depth), o, st, iids[i])
  <2>1. PICK iid \in D : iid = iids[i]
    BY <1>4
  <2>2. PICK its : its = ReadInstance(o, st, iid, fixes).items /\ items[i] = its
    BY <2>1
  <2>3. PICK p : p = encode_instance_tlv(o, st, iid, fixes).payload /\ e(i) = p
    BY <2>1
  <2>4. /\ p = encode_instance(iid, its) /\ p \in Seq(Byte)
        /\ Len(p) <= MaxValue =>
             /\ ItemsOK(its) /\ Len(FlattenSeq(Encodings(its))) <= MaxValue
             /\ \A depth : Describes(ItemRecords(its, depth), o, st, iid)
    BY <1>1, <2>2, <2>3, InstanceEncoded
  <2> HIDE DEF items, e
  <2> QED BY <2>1, <2>2, <2>3, <2>4
<1> HIDE DEF items, e
<1>7. seqs \in Seq(Seq(Byte)) /\ Len(seqs) = n /\ \A i \in 1 .. n : seqs[i] = e(i)
  <2>1. \A i \in 1 .. n : seqs[i] = e(i)
    OBVIOUS
  <2>2. seqs \in [1 .. n -> Seq(Byte)]
    BY <1>6
  <2> HIDE DEF seqs
  <2>3. seqs \in Seq(Seq(Byte)) /\ DOMAIN seqs = 1 .. n
    BY <2>2, SeqDef
  <2> QED BY <2>1, <2>3, LenProperties, SameBound
<1>8. ASSUME NEW i \in 1 .. n PROVE Len(e(i)) <= MaxValue
  <2> HIDE DEF seqs
  <2>1. FlattenSeq(seqs) \in Seq(Byte) /\ Len(seqs[i]) \in Nat /\ Len(seqs[i]) <= Len(FlattenSeq(seqs))
    BY <1>7, FlatLonger
  <2>2. PICK x \in Nat, y \in Nat, z \in Nat : x = Len(seqs[i]) /\ y = Len(payload) /\ z = MaxValue
    <3>1. MaxValue \in Nat
      BY SMT DEF MaxValue
    <3> QED BY <1>5, <2>1, <3>1, LenProperties
  <2>3. x <= y /\ y <= z
    BY <1>5, <2>1, <2>2
  <2>4. x <= z
    BY <2>3
  <2> QED BY <1>7, <2>2, <2>4
<1>9. seqs = [i \in 1 .. n |-> encode_instance(iids[i], items[i])]
  BY <1>6
<1> HIDE DEF seqs
<1>10. \A i \in 1 .. n : /\ iids[i] \in U16 /\ ItemsOK(items[i])
                         /\ Len(FlattenSeq(Encodings(items[i]))) <= MaxValue
  BY <1>1, <1>4, <1>6, <1>8
<1> DEFINE Decodes(p, recs) ==
             /\ decode(p) = Ok(recs) /\ Len(recs) = n /\ DOMAIN recs = 1 .. n
             /\ \A i \in 1 .. n :
                  /\ recs[i].type = ObjectInstance /\ recs[i].id = iids[i]
                  /\ recs[i].children = ItemRecords(items[i], 1)
<1>11. PICK recs : Decodes(payload, recs)
  <2>1. payload = FlattenSeq(InstanceEncodings(n, iids, items))
    BY <1>5, <1>9 DEF InstanceEncodings
  <2>2. PICK flat : flat = FlattenSeq(InstanceEncodings(n, iids, items))
    OBVIOUS
  <2>3. PICK recs : Decodes(flat, recs)
    BY <1>10, <2>2, DecodeInstances
  <2> HIDE DEF Decodes
  <2> QED BY <2>1, <2>2, <2>3
<1>12. decode(payload).value = recs
  BY <1>11 DEF Ok
<1>13. ASSUME NEW iid \in D
       PROVE  \E i \in DOMAIN recs : /\ recs[i].type = ObjectInstance /\ recs[i].id = iid
                                     /\ Describes(recs[i].children, o, st, iid)
  <2>1. PICK i \in 1 .. n : iids[i] = iid
    BY <1>2, <1>3 DEF Enumerates
  <2>2. Describes(ItemRecords(items[i], 1), o, st, iid)
    BY <1>6, <1>8, <2>1
  <2> QED BY <1>11, <2>1, <2>2
<1>14. ~is_resource(path)
  BY DEF is_object, is_resource
<1> QED BY <1>1, <1>3, <1>11, <1>12, <1>13, <1>14 DEF Described

(* An answer with one resource describes it. *)
LEMMA ResourceDescribed ==
    ASSUME NEW path, is_resource(path), NEW st, NEW rid, rid = path[3], NEW v,
           path[1] \in Objects \ {Location}, StateOK(path[1], st),
           path[2] \in list_instances(path[1], st), <<rid, v>> \in FirstValues(path[1], st, path[2]),
           Len(encode_resource(rid, v)) <= MaxValue
    PROVE  Described(path, encode_resource(rid, v), st)
<1>1. PICK h : h = <<rid, v>> /\ h \in FirstValues(path[1], st, path[2]) /\ h[1] = rid /\ h[2] = v
  OBVIOUS
<1>2. rid \in U16 /\ OfType(v)
  <2>1. PICK id, w : h = <<id, w>> /\ id \in U16 /\ OfType(w)
    BY <1>1, FirstValuesOK
  <2> QED BY <1>1, <2>1
<1>3. PICK b \in Seq(Byte) : /\ b = serialize(v)
                              /\ decode_resource(b, get_resource_type(v)) = Ok(Received(v))
  BY <1>2, ValueSerialized
<1>4. Sendable(v)
  <2>1. Resource \in 0 .. 3 /\ MaxValue \in Nat
    BY SMT DEF Resource, MaxValue
  <2>2. PICK p \in Seq(Byte) : p = encode_record(Resource, rid, b) /\ Len(p) >= Len(b)
    BY <1>2, <2>1, EncodedLonger
  <2>3. encode_resource(rid, v) = p
    BY <1>3, <2>2 DEF encode_resource
  <2>4. PICK x \in Nat, y \in Nat, z \in Nat : x = Len(b) /\ y = Len(p) /\ z = MaxValue
    BY <2>1, LenProperties
  <2>5. x <= y /\ y <= z
    BY <2>2, <2>3, <2>4
  <2>6. x <= z
    BY <2>5
  <2> QED BY <1>2, <1>3, <2>4, <2>6, ValueSerialized
<1>5. PICK rec : rec = DecodedRecord(Resource, rid, b, 0)
  OBVIOUS
<1>6. rec.id = rid /\ rec.value = b
  BY <1>5 DEF DecodedRecord
<1>7. decode(encode_resource(rid, v)) = Ok(<<rec>>)
  BY <1>2, <1>3, <1>4, <1>5, DecodeSingle
<1>8. PICK recs : recs = decode(encode_resource(rid, v)).value /\ recs = <<rec>>
  BY <1>7 DEF Ok
<1>9. Len(recs) = 1 /\ recs[1] = rec
  BY <1>8
<1> QED BY <1>1, <1>3, <1>6, <1>8, <1>9 DEF Described

(* A read changes nothing, and its answer describes the object. *)
LEMMA ReadDescribed ==
    ASSUME NEW path, PathOK(path), path[1] \in Objects \ {Location}, ~is_resource_instance(path),
           NEW st, StateOK(path[1], st), NEW fixes,
           "Content" \in process_read(path, st, fixes).codes,
           Len(process_read(path, st, fixes).payload) <= MaxValue
    PROVE  /\ process_read(path, st, fixes).st = st
           /\ Described(path, process_read(path, st, fixes).payload, st)
<1>0. PICK a : a = process_read(path, st, fixes)
  OBVIOUS
<1>1. PICK o \in Objects \ {Location} : o = path[1]
  OBVIOUS
<1>2. ASSUME NEW iid \in list_instances(o, st), ~is_resource(path),
             (IF is_object(path) THEN list_instances(o, st) ELSE {path[2]}) = {iid},
             a = LET e == encode_instance_tlv(o, st, iid, fixes)
                 IN  Answer("Content", e.payload, e.st)
      PROVE  a.st = st /\ Described(path, a.payload, st)
  <2>1. PICK e : e = encode_instance_tlv(o, st, iid, fixes)
    OBVIOUS
  <2>2. a.payload = e.payload /\ a.st = e.st
    BY <1>2, <2>1 DEF Answer
  <2>3. e.st = st
    BY <1>1, <2>1, InstanceEncoded
  <2>4. Len(e.payload) <= MaxValue
    BY <1>0, <2>2
  <2>5. Described(path, e.payload, st)
    BY <1>1, <1>2, <2>1, <2>4, OneDescribed
  <2> QED BY <2>2, <2>3, <2>5
<1>3. CASE is_object(path) /\ o \in Tables
  <2>1. PICK payload : payload =
              LET iids == SetToSeq(list_instances(o, st))
              IN  FlattenSeq([i \in DOMAIN iids |->
                    encode_instance_tlv(o, st, iids[i], fixes).payload])
    OBVIOUS
  <2>2. a = Answer("Content", payload, st)
    BY <1>0, <1>1, <1>3, <2>1 DEF process_read
  <2>3. a.payload = payload /\ a.st = st
    BY <2>2 DEF Answer
  <2>4. Len(payload) <= MaxValue
    BY <1>0, <2>3
  <2>5. Described(path, payload, st)
    BY <1>1, <1>3, <2>1, <2>4, AllDescribed
  <2> QED BY <1>0, <2>3, <2>5
<1>4. CASE is_object(path) /\ o \notin Tables
  <2>1. list_instances(o, st) = {0}
    BY <1>4 DEF list_instances
  <2>2. PICK zero : zero = 0
    OBVIOUS
  <2>3. ~is_resource(path)
    BY <1>4 DEF is_object, is_resource
  <2>4. a = LET e == encode_instance_tlv(o, st, zero, fixes)
            IN  Answer("Content", e.payload, e.st)
    BY <1>0, <1>1, <1>4, <2>2 DEF process_read
  <2>5. a.st = st /\ Described(path, a.payload, st)
    BY <1>2, <1>4, <2>1, <2>2, <2>3, <2>4
  <2> QED BY <1>0, <2>5
<1>5. CASE ~is_object(path) /\ is_instance(path)
  <2>1. PICK iid : iid = path[2]
    OBVIOUS
  <2>2. iid \in list_instances(o, st)
    <3>1. CASE iid \notin list_instances(o, st)
      <4>1. a = Answer("NotFound", <<>>, st)
        BY <1>0, <1>1, <1>5, <2>1, <3>1 DEF process_read
      <4> QED BY <1>0, <4>1 DEF Answer
    <3> QED BY <3>1
  <2>3. ~is_resource(path)
    BY <1>5 DEF is_instance, is_resource
  <2>4. a = LET e == encode_instance_tlv(o, st, iid, fixes)
            IN  Answer("Content", e.payload, e.st)
    BY <1>0, <1>1, <1>5, <2>1, <2>2 DEF process_read
  <2>5. a.st = st /\ Described(path, a.payload, st)
    BY <1>2, <1>5, <2>1, <2>2, <2>3, <2>4
  <2> QED BY <1>0, <2>5
<1>6. CASE ~is_object(path) /\ ~is_instance(path) /\ is_resource(path)
  <2>1. PICK iid, rid : iid = path[2] /\ rid = path[3]
    OBVIOUS
  <2>2. PICK r : r = read_resource(o, st, iid, rid, NoId, fixes[1])
    OBVIOUS
  <2>3. a = IF r.res.ok THEN Answer("Content", encode_resource(rid, r.res.value), r.st)
            ELSE Answer(CoapCode(r.res.error), <<>>, r.st)
    BY <1>0, <1>1, <1>6, <2>1, <2>2 DEF process_read
  <2>4. r.st = st /\ Says(o, st, iid, rid, r.res)
    BY <1>1, <2>2, ReadSays
  <2>5. ReadOK(o, st, r)
    BY <1>1, <2>2, ReadEffect
  <2>6. r.res.ok
    <3>1. CASE ~r.res.ok
      <4>1. CoapCode(r.res.error) = "NotFound"
        BY <2>5, <3>1, Parts DEF ReadOK, CoapCode
      <4> QED BY <1>0, <2>3, <3>1, <4>1 DEF Answer
    <3> QED BY <3>1
  <2>7. PICK v : v = r.res.value /\ iid \in list_instances(o, st) /\ <<rid, v>> \in FirstValues(o, st, iid)
    BY <2>4, <2>6 DEF Says
  <2>8. a.payload = encode_resource(rid, v) /\ a.st = st
    BY <2>3, <2>4, <2>6, <2>7 DEF Answer
  <2>9. Len(encode_resource(rid, v)) <= MaxValue
    BY <1>0, <2>8
  <2>10. Described(path, encode_resource(rid, v), st)
    BY <1>1, <1>6, <2>1, <2>7, <2>9, ResourceDescribed
  <2> QED BY <1>0, <2>8, <2>10
<1>7. is_object(path) \/ is_instance(path) \/ is_resource(path)
  BY DEF PathOK, is_object, is_instance, is_resource, is_resource_instance
<1> QED BY <1>3, <1>4, <1>5, <1>6, <1>7

(* What a read of the object, an instance or a resource is answered names  *)
(* every instance of a table once, and of an instance every resource that  *)
(* has a value once, under its id and with its value: of a multiple        *)
(* resource with the first of its values (the others are not answered at   *)
(* all), of a time with its whole seconds. It says so as long as the       *)
(* answer has fewer than 2^24 bytes (process_read and encode_instance_tlv, *)
(* src/client.cpp; the read_resource and list_resources of the objects;    *)
(* TlvEncoder).                                                            *)
THEOREM AnswersDescribe == Spec => []AnswerDescribesObject
<1>1. Init => AnswerDescribesObject
  BY DEF Init, AnswerDescribesObject
<1>2. ASSUME Inv, [Next]_vars, AnswerDescribesObject PROVE AnswerDescribesObject'
  <2>1. CASE exch' = exch /\ objs' = objs
    BY <1>2, <2>1 DEF AnswerDescribesObject
  <2>2. CASE exch' = Idle
    BY <2>2 DEF AnswerDescribesObject
  <2>3. ASSUME NEW method \in {"PUT", "POST", "DELETE"}, NEW p, NEW b, NEW A, Handle(method, p, b, A)
        PROVE  AnswerDescribesObject'
    <3>1. exch'.method # "GET"
      BY <2>3 DEF Handle
    <3> QED BY <3>1 DEF AnswerDescribesObject
  <2>4. ASSUME NEW p \in Paths, Get(p) PROVE AnswerDescribesObject'
    <3>1. PICK path : \E fixes \in Fixes(path) :
                Answered(path, NoBody, process_read(path, objs[path[1]], fixes))
      BY <1>2, <2>4, GetStep
    <3>2. PICK fixes \in Fixes(path) :
                Answered(path, NoBody, process_read(path, objs[path[1]], fixes))
      BY <3>1
    <3>3. PICK A : A = process_read(path, objs[path[1]], fixes) /\ Answered(path, NoBody, A)
      BY <3>2
    <3>4. exch'.path = path
      BY <3>3 DEF Answered
    <3> SUFFICES ASSUME exch'.code = "Content", path[1] # Location, ~is_resource_instance(path),
                        Len(exch'.payload) <= MaxValue
                 PROVE  Described(path, exch'.payload, objs'[path[1]])
      BY <3>4 DEF AnswerDescribesObject, Described
    <3>5. "Content" \notin Errors
      BY DEF Errors
    <3>6. /\ PathOK(path) /\ path[1] \in Objects /\ "Content" \in A.codes
          /\ exch'.payload = A.payload /\ objs'[path[1]] = A.st
      BY <3>3, <3>5 DEF Answered
    <3>7. StateOK(path[1], objs[path[1]])
      BY <1>2, <3>6 DEF Inv, ObjsOK
    <3>8. PICK st : st = objs[path[1]]
      OBVIOUS
    <3>9. A.st = st /\ Described(path, A.payload, st)
      BY <3>3, <3>6, <3>7, <3>8, ReadDescribed
    <3> QED BY <3>6, <3>9
  <2>5. \A p, b : (Put(p, b) \/ Post(p, b) \/ Delete(p)) =>
          \E method \in {"PUT", "POST", "DELETE"} : \E c, A : Handle(method, p, c, A)
    BY DEF Put, Post, Delete
  <2>6. \A o, st : AppCall(o, st) => exch' = Idle
    BY DEF AppCall
  <2>7. (Reply => exch' = Idle) /\ (UNCHANGED vars => exch' = exch /\ objs' = objs)
    BY DEF Reply, vars
  <2> QED
    BY <1>2, <2>1, <2>2, <2>3, <2>4, <2>5, <2>6, <2>7
    DEF Next, AppCreates, AppAddsServer, AppRaises, AppClears, AppSetsDevice,
        AppSetsConnectivity
<1> QED BY <1>1, <1>2, Invariant, PTL DEF Spec
===============================================================================
