------------------------------ MODULE LwM2MTypes ------------------------------
(***************************************************************************)
(* The value types of the library: Result (include/lwm2m/result.hpp),      *)
(* ResourceValue and its types (src/resource.cpp), and object paths        *)
(* (src/types.cpp).  A ResourceValue is a pair of its type and its datum;  *)
(* a string is the sequence of its bytes, like opaque data.                *)
(***************************************************************************)
EXTENDS Integers, Sequences

MaxByte == 255
MaxU16  == 65535
Byte == 0 .. MaxByte
U16  == 0 .. MaxU16

(* Result<T>: a value or the code of an error. *)
Ok(v)  == [ok |-> TRUE, value |-> v]
Err(c) == [ok |-> FALSE, error |-> c]

(* ResourceValue, and the type its variant holds. *)
Value(type, datum) == <<type, datum>>
get_resource_type(value) == value[1]
Datum(value) == value[2]

ResourceTypes == {"None", "Boolean", "Integer", "UnsignedInteger", "Float",
                  "String", "Opaque", "Time", "ObjectLink"}

-----------------------------------------------------------------------------
(* A path is its one to four ids.  The text of a path is the sequence of   *)
(* the segments between its slashes; what is no number is Empty or Word.   *)
Empty == -1
Word  == -2

NoPath == <<>>

(* ObjectPath::parse: "" and "/" are no path, nor is one that ends in a    *)
(* slash; of the first four segments each has to be a 16-bit number, what  *)
(* comes after them is not looked at.                                      *)
parse(segments) ==
    LET used == SubSeq(segments, 1, IF Len(segments) > 4 THEN 4 ELSE Len(segments))
    IN  IF \/ segments = <<>>
           \/ segments[Len(segments)] = Empty
           \/ \E i \in DOMAIN used : used[i] \notin U16
        THEN NoPath ELSE used

is_object(path)            == Len(path) = 1
is_instance(path)          == Len(path) = 2
is_resource(path)          == Len(path) = 3
is_resource_instance(path) == Len(path) = 4
===============================================================================
