--------------------------- MODULE MCAuthMessagePb ---------------------------
(***************************************************************************)
(* The codec with empty, one byte and two byte payloads, timestamps of one *)
(* and two byte varints, -1 (a ten byte varint), and the fragments a       *)
(* hostile peer appends.                                                   *)
(***************************************************************************)
EXTENDS AuthMessagePb

\* n bytes 0xFF: varint groups of 127 that continue
Ones(n) == [k \in 1..n |-> 255]

MCPayloads == {<<>>, <<7>>, <<200, 0>>}

MCTimestamps == {0, 1, 127, 300, -1}

MCFragments == {
    <<10>> \o Ones(8) \o <<127>>,           \* Message of length 2^63 - 1: postIndex wraps
    <<10>> \o Ones(9) \o <<1>>,             \* Message of negative length
    <<32>> \o Ones(10) \o <<1>>,            \* an eleven byte varint
    <<32, 5>>,                              \* a second Timestamp: the last wins
    <<11>>,                                 \* field 1 with wire type 3
    <<12>>,                                 \* wire type 4 outside a group
    <<0>>,                                  \* field number 0
    <<130, 128, 128, 128, 64>>,             \* int32(wire >> 3) negative
    <<138, 128, 128, 128, 128, 1, 1, 5>>,   \* bit 35 of the tag dropped: field 1
    <<42, 1, 7>>,                           \* unknown field 5, bytes
    <<43, 40, 5, 44>>,                      \* unknown group holding a varint
    <<41, 1, 2>>,                           \* unknown fixed64 cut short
    <<45, 1, 2, 3, 4>>,                     \* unknown fixed32
    <<46>>,                                 \* wire type 6
    <<42>> \o Ones(8) \o <<127>>,           \* unknown bytes of length 2^63 - 1
    <<42>> \o Ones(8) \o <<63>>,            \* unknown bytes past the end
    <<43, 42>> \o Ones(8) \o <<63>>}        \* the same inside a group
=============================================================================
