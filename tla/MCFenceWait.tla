---------------------------- MODULE MCFenceWait ----------------------------
(***************************************************************************)
(* FenceWait for TLC: guests that announce packets of one kind or another, *)
(* indirect buffers nested one deeper than is followed.                    *)
(***************************************************************************)
EXTENDS FenceWait

Draw(prim, source, num, count, words) ==
    [op |-> "draw", count |-> count, words |-> words,
     initiator |-> prim + 64 * source + 65536 * num]
Points == Draw(1, 2, 1, 1, 0)
Type0Packet(base, one, values) == [op |-> "type0", base |-> base, one |-> one, values |-> values]
Constants(bank, index, values) == [op |-> "constant", bank |-> bank, index |-> index, values |-> values]
VertexSize(dwords) == Constants(1, 0, <<3, 4 * dwords>>)
Load(type, hash, size) ==
    [op |-> "load", count |-> 5, start |-> 0, size |-> size, type |-> type, hash |-> hash]
Counter == [op |-> "event", count |-> 3, counter |-> TRUE, word |-> "cursor", value |-> 0]
To(b) == [op |-> "indirect", count |-> 2, to |-> b]
Op(op) == [op |-> op, count |-> 1]

MCBuffer ==
    ("drawn" :> <<VertexSize(3), Points>>) @@
    ("one" :> <<VertexSize(6), To("two"), Points>>) @@
    ("two" :> <<To("three"), Op("unknown")>>) @@
    ("three" :> <<Type0Packet(8710, FALSE, <<5>>), To("one"), Op("stop"), Points>>)

\* Vertex shaders 7 and 9, and 8, which is not translated
MCTranslation ==
    (0 :> [success |-> FALSE, stride |-> 0]) @@ (7 :> [success |-> TRUE, stride |-> 24]) @@
    (8 :> [success |-> FALSE, stride |-> 48]) @@ (9 :> [success |-> TRUE, stride |-> 48])

MCIndices == <<0, 1, 1, 3, 0, 2>> \o [i \in 1..44 |-> 0]
MCWatched == {8192, 8700, 8710, 18432, 18433, 20482, 20483}

\* Register writes of every form, and a draw that shows what they left
RegisterMenu ==
    {VertexSize(6), Type0Packet(18432, FALSE, <<3, 12>>), Type0Packet(18433, TRUE, <<48, 36>>),
     Type0Packet(20482, FALSE, <<1, 1>>), Constants(4, 518, <<5>>), Constants(5, 0, <<7>>),
     [op |-> "draw_indx", count |-> 2, initiator |-> 1], Points,
     Draw(8, 2, 3, 1, 0)}

\* Every way a draw is refused, cut or expanded
DrawMenu ==
    {VertexSize(12), Load(0, 7, 3), Load(0, 8, 3), Load(1, 9, 3), Load(0, 9, 4),
     Draw(5, 2, 1, 1, 0), Draw(4, 1, 1, 1, 0), Draw(4, 2, 5, 1, 0),
     Draw(4, 0, 3, 1, 2), Draw(4, 0, 3, 3, 0), Draw(6, 0, 3, 3, 2), Draw(8, 0, 6, 3, 5),
     Draw(8, 0, 6, 3, 6)}

\* Buffers within buffers
NestedMenu == {To("one"), To("three"), VertexSize(3), Op("interrupt"), Counter}

\* Draws that are waited for, and cursors
FenceMenu ==
    {To("drawn")}

MCMenus == {RegisterMenu, DrawMenu, NestedMenu}
MCFenceMenus == {FenceMenu}
MCCursors == {5}
=============================================================================
