--------------------------- MODULE MCObjectDispatch ---------------------------
(* A small instance of ObjectDispatch for TLC. *)
EXTENDS ObjectDispatch

Int64(n) == Value("Integer", n)
Text(n)  == Value("String", [i \in 1 .. n |-> IF i = n THEN 70 ELSE 0])

MCPaths ==
    {<<0>>, <<1>>, <<4>>, <<6>>, <<9>>, <<0, 0>>, <<1, 0>>, <<1, 65535>>, <<3, 0>>, <<6, 0>>,
     <<0, 0, 2>>, <<1, 0, 0>>, <<1, 0, 1>>, <<1, 0, 8>>, <<3, 0, 11>>, <<3, 0, 12>>,
     <<3, 0, 14>>, <<6, 0, 5>>, <<3, 0, 11, 0>>, <<1, 0, 1, 0, Word>>,
     <<>>, <<Empty, 3, 0>>, <<1, Empty>>, <<Word>>, <<65536>>}

Nest(n) == FoldLeft(LAMBDA b, i : encode_record(ObjectInstance, i, b), <<>>, [i \in 1 .. n |-> i])

Body(items, tail, cut) == [items |-> items, tail |-> tail, cut |-> cut]

MCBodies ==
    {Body(<<>>, <<>>, 0),
     Body(<<<<1, Int64(65536)>>>>, <<>>, 0),
     Body(<<<<1, Int64(65536)>>>>, <<>>, 1),
     Body(<<<<14, Text(7)>>>>, <<>>, 0),
     Body(<<<<0, Text(9)>>, <<77, Int64(-32769)>>, <<0, Int64(128)>>, <<6, Value("Boolean", TRUE)>>,
            <<7, Text(8)>>>>, Nest(10), 0),
     Body(<<<<2, Int64(-129)>>, <<255, Text(0)>>, <<256, Text(255)>>, <<65535, Text(256)>>,
            <<5, Value("Opaque", <<255>>)>>>>,
          encode_multi_resource(6, <<<<0, Int64(-1)>>, <<300, Int64(8388608)>>>>), 0),
     Body(<<<<3, Value("UnsignedInteger", 16777216)>>, <<7, Value("Float", <<64, 1, 2, 3, 4, 5, 6, 7>>)>>,
            <<2, Value("Time", 1700000001)>>, <<0, Value("ObjectLink", <<65535, 1>>)>>>>, <<>>, 0)}

MCGps == {NoFix, [n |-> 1, valid |-> TRUE], [n |-> 2, valid |-> FALSE]}

MCConfigs ==
    {<<Server, [Blank(Server) EXCEPT ![0] = 1, ![1] = 300]>>,
     <<Security, [Blank(Security) EXCEPT ![0] = <<99>>, ![2] = 0, ![3] = <<7>>, ![5] = <<8>>]>>}

MCSettings == {<<Device, 9, Int64(255)>>, <<Connectivity, 6, Int64(200)>>,
               <<Connectivity, 4, <<Text(7), Text(9)>>>>}

MCErrorCodes == {Int64(0), Int64(1)}
===============================================================================
