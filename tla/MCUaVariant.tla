---------------------------- MODULE MCUaVariant ----------------------------
(* Instances of UaVariant for TLC: integers of one to three bits, and a real *)
(* type with a mantissa of two bits.                                         *)
EXTENDS UaVariant

MCLow == [t \in {"Boolean", "Byte", "Int16", "Float"} |->
    CASE t = "Int16" -> -4 [] t = "Float" -> -16 [] OTHER -> 0]
MCHigh == [t \in {"Boolean", "Byte", "Int16", "Float"} |->
    CASE t = "Boolean" -> 1 [] t = "Byte" -> 3 [] t = "Int16" -> 3 [] OTHER -> 16]
MCSize == [t \in Types |->
    CASE t \in {"Boolean", "Byte"} -> 1 [] OTHER -> 2]

\* The real type has 0, 1, 2, 3, 4, 6, 8, 12 and 16 halves; of two values equally
\* near the one with the even mantissa is taken.
NearestMagnitude(h) ==
    CASE h = 5 -> 4 [] h = 7 -> 8 [] h \in 9..10 -> 8
      [] h \in {11, 13} -> 12 [] h \in 14..20 -> 16 [] OTHER -> h
MCNearest(r, h) == IF h >= 0 THEN NearestMagnitude(h) ELSE -NearestMagnitude(-h)

\* The reals on both sides of the limits come from conversions: the lowest Int16,
\* -4, becomes -8 halves, and NaN read as an integer becomes every other one.
MCSamples == [t \in Types |->
    CASE t = "Boolean" -> {1}
      [] t = "Byte" -> {3}
      [] t = "Int16" -> {-4}
      [] t = "Float" -> {-1, NaN}
      [] OTHER -> {<<"text">>}]
FewSamples == [t \in Types |->
    CASE t \in IntTypes -> {0, 1} [] t = "Float" -> {-1} [] OTHER -> {<<"text">>}]

MCShapes == {<<>>, <<1, 2>>, <<-1, -2>>}
FewShapes == {<<1, 2>>}
\* None, and one that fits an array of one element only.
MCReceivedShapes == {<<>>, <<1>>}
=============================================================================
