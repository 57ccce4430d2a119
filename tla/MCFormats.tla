----------------------------- MODULE MCFormats -----------------------------
(***************************************************************************)
(* The cells of CellConvert: every Arrow type with the values at which a   *)
(* driver decides differently, geometries of every type with their empty   *)
(* and degenerate forms, and what other programs store.  A power of ten    *)
(* beyond 10^9 does not exist, i128 ends at 2^31 - 1, f32 is exact for     *)
(* decimals up to 999, f64 up to 99,999, and rust_decimal holds 999,999.   *)
(***************************************************************************)
EXTENDS CellConvert

Of(types, kind, sizes) == {Arrow(Type(t), Value(kind, n)) : t \in types, n \in sizes}

Scales == 0..5
Attributes ==
    Of(Ints \cup Floats \cup Dates \cup Times \cup {"Bool", "Utf8", "Binary", "List"}, "null", {0})
    \cup Of({"Bool"}, "bool", {1})
    \cup Of({"Int8", "UInt8"}, "int", {8}) \cup Of({"Int16", "UInt16"}, "int", {16})
    \cup Of({"Int32", "UInt32"}, "int", {20, 32}) \cup Of({"Int64"}, "int", {20, 53, 63})
    \cup Of({"UInt64"}, "int", {63, 64})
    \cup Of({"Float32"}, "float", {24}) \cup Of({"Float64"}, "float", {24, 53})
    \cup Of(Floats, "nan", {0})
    \cup Of({"Utf8"}, "text", {0, 10, 254, 255}) \cup Of({"Utf8"}, "odd", {10})
    \cup Of({"Binary"}, "bytes", {4}) \cup Of({"List"}, "list", {1})
    \cup Of(Dates, "date", {0}) \cup Of(Naive \cup Zoned, "time", {6})
    \cup Of({"TsNs", "TsNsTz"}, "time", {9}) \cup Of({"Ts", "TsTz"}, "far", {6})
    \cup {Arrow([t |-> t, s |-> s], Value("dec", n)) :
            t \in Decimals, s \in Scales, n \in {0, 1, 7, 120, 999, -999, 10203, 99999}}
    \cup {Arrow([t |-> "DecimalWide", s |-> s], Value("dec", n)) :
            s \in Scales, n \in {100000, 99990000, 1000000, -1000000}}
    \cup {Arrow([t |-> t, s |-> 2], Null) : t \in Decimals}

G(ty, parts) == [ty |-> ty, parts |-> parts]
Geometries ==
    {G(1, <<<<<<7>>>>>>), G(1, <<<<<<0>>>>>>),
     G(2, <<<<<<1, 2>>>>>>), G(2, <<<<<<1>>>>>>), G(2, <<<<<<>>>>>>), G(2, <<<<<<1, 0>>>>>>),
     G(3, <<<<<<1, 2, 3, 1>>, <<4, 5, 6, 4>>>>>>), G(3, <<<<>>>>), G(3, <<<<<<>>>>>>),
     G(4, <<<<<<1>>>>, <<<<2>>>>>>), G(4, <<>>),
     G(5, <<<<<<1, 2>>>>, <<<<3, 4>>>>>>), G(5, <<<<<<1, 2>>>>>>),
     G(6, <<<<<<1, 2, 3, 1>>>>, <<<<4, 5, 6, 4>>>>>>), G(6, <<>>)}

GeomCells ==
    {GeomCell(s, EncodeWkb(g)) : s \in {0}, g \in Geometries}
    \cup {GeomCell(g.ty, EncodeWkb(g)) : g \in Geometries}
    \cup {GeomCell(1, EncodeWkb(G(2, <<<<<<1, 2>>>>>>)))}
    \cup {GeomCell(2, WkbIn("BE", G(2, <<<<<<1, 2>>>>>>))),
          GeomCell(1, SubSeq(EncodeWkb(G(1, <<<<<<7>>>>>>)), 1, 2)),
          GeomCell(1, EncodeWkb(G(1, <<<<<<7>>>>>>)) \o <<Byte(0)>>),
          GeomCell(2, EncodeEwkb(EncodeWkb(G(2, <<<<<<1, 2>>>>>>)), 4))}
    \cup {Arrow([t |-> "Geom", s |-> s], Null) : s \in {0, 1}}

McCells == Attributes \cup GeomCells

\* Cells of other programs: classes that are not the column's, and numerics of
\* any weight and scale.
McValues ==
    {By("gpkg", Stored(Type(decl), as, v)) :
        decl \in {"INTEGER", "DOUBLE", "TEXT", "BLOB", "DATE", "DATETIME", "BOOLEAN", "MEDIUMINT"},
        <<as, v>> \in {<<"int", Value("int", 63)>>, <<"real", Value("float", 53)>>,
                       <<"text", Value("text", 5)>>, <<"text", Value("date", 0)>>,
                       <<"text", Value("time", 9)>>, <<"blob", Value("bytes", 4)>>,
                       <<"null", Null>>}}
    \cup {By("postgis", [Stored([t |-> decl, s |-> 2], "-", Value("dec", 0))
                            EXCEPT !.w = <<digits, weight, sign>>]) :
            decl \in {"numeric", "numeric_wide", "numeric_any"},
            digits \in {<<>>, <<5>>, <<12, 3400>>, <<9999, 9999, 9999>>},
            weight \in -3..2, sign \in {"pos", "neg", "nan"}}

\* A bare multipoint, an empty list and no WKT at all.
Word(ty) == [k |-> "word", o |-> "-", v |-> ty]
McTexts == {<<Word(4), Sign("("), XY("-", 1), Sign(","), XY("-", 2), Sign(")")>>,
            <<Word(5), Sign("("), Sign(")")>>, <<Byte(1)>>}
============================================================================
