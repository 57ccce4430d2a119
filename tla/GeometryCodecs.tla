-------------------------- MODULE GeometryCodecs --------------------------
(***************************************************************************)
(* The geometry codecs of shpx-geom: WKB, PostGIS EWKB, GeoPackage blobs,  *)
(* SpatiaLite blobs, and the text forms of CSV (WKT) and GeoJSON.          *)
(*                                                                         *)
(* A geometry is its type (1 Point, 2 LineString, 3 Polygon, 4..6 their    *)
(* Multi forms) and its parts: a part is a sequence of point sequences,    *)
(* the rings of a polygon; a point has one part with one sequence of one.  *)
(* An encoding is a sequence of tokens: a byte, an unsigned word in a byte *)
(* order, a pair of coordinates in a byte order.  Coordinates are numbers  *)
(* that name a pair; the pair 0 is (NaN, NaN), PostGIS's empty point.      *)
(***************************************************************************)
EXTENDS Integers, Sequences, SequencesExt

Refused == [ty |-> 0, parts |-> <<>>]     \* Err(Error::Geometry), of a decoder
Orders  == {"LE", "BE"}

Byte(v)  == [k |-> "byte", o |-> "-", v |-> v]
U32(o, v) == [k |-> "u32", o |-> o, v |-> v]
XY(o, p) == [k |-> "xy", o |-> o, v |-> p]
Sign(k)  == [k |-> k, o |-> "-", v |-> 0]
NoBytes  == <<Sign("refused")>>           \* the same where bytes are returned

\* What a decoder may be given.
Token == [k : {"byte", "u32", "xy", "word", "(", ")", ","}, o : Orders \cup {"-"}, v : Nat]
Input == Seq(Token)

\* The geometries there are.
Part(ty) == {part \in Seq(Seq(Nat)) : /\ ty < 3 => Len(part) = 1
                                      /\ ty = 1 => Len(part[1]) = 1}
Geometry == {g \in [ty : 1..6, parts : Seq(Seq(Seq(Nat)))] :
                IF g.ty <= 3 THEN Len(g.parts) = 1 /\ g.parts[1] \in Part(g.ty)
                ELSE \A i \in DOMAIN g.parts : g.parts[i] \in Part(g.ty - 3)}

OrderOf(byte) == IF byte = 1 THEN "LE" ELSE "BE"
OrderByte(o)  == Byte(IF o = "LE" THEN 1 ELSE 0)

Coords(g) == UNION {UNION {ToSet(g.parts[p][r]) : r \in DOMAIN g.parts[p]} : p \in DOMAIN g.parts}

----------------------------------------------------------------------------
(* Writing the binary forms. *)

Counted(o, items) == <<U32(o, Len(items))>> \o FlattenSeq(items)

PointsOut(o, pts) == Counted(o, [i \in DOMAIN pts |-> <<XY(o, pts[i])>>])

\* What follows the type of a simple geometry.
PartOut(o, ty, part) ==
    CASE ty = 1 -> <<XY(o, part[1][1])>>
      [] ty = 2 -> PointsOut(o, part[1])
      [] OTHER  -> Counted(o, [i \in DOMAIN part |-> PointsOut(o, part[i])])

\* The type and what follows it; a child of a Multi starts with `mark`.
ShapeOut(o, g, mark) ==
    <<U32(o, g.ty)>> \o
    IF g.ty <= 3
    THEN PartOut(o, g.ty, g.parts[1])
    ELSE Counted(o, [i \in DOMAIN g.parts |->
                        <<mark, U32(o, g.ty - 3)>> \o PartOut(o, g.ty - 3, g.parts[i])])

\* wkb::encode writes LE; a foreign WKB may come in either order.
WkbIn(o, g) == <<OrderByte(o)>> \o ShapeOut(o, g, OrderByte(o))

EncodeWkb(g) == WkbIn("LE", g)

----------------------------------------------------------------------------
(* Reading: a reader is a function of what is left of the input, and gives *)
(* what it read and what is left then.                                     *)

Stop == [ok |-> FALSE, in |-> <<>>, out |-> 0]
Got(in, out) == [ok |-> TRUE, in |-> in, out |-> out]

\* Rust's `?`: go on with what was read, or stop.
Then(r, Step(_, _)) == IF r.ok THEN Step(r.in, r.out) ELSE Stop

\* Nothing may be left.
Whole(r) == IF r.ok /\ r.in = <<>> THEN r.out ELSE Refused

\* Cursor::take, read_u32, read_f64: refused at the end of the input.
Take(in, k, o) == IF in /= <<>> /\ Head(in).k = k /\ Head(in).o = o
                  THEN Got(Tail(in), Head(in).v) ELSE Stop

\* Items one after the other: what there is after i of them.
Repeated(in, item) ==
    LET read[i \in Nat] ==
            IF i = 0 THEN Got(in, <<>>)
            ELSE Then(read[i - 1], LAMBDA rest, items :
                   Then(item[rest], LAMBDA left, x : Got(left, Append(items, x))))
    IN  read

\* A count that cannot fit into what is left is refused before anything is
\* allocated (ensure_remaining_for).
CountedIn(o, item) ==
    [in \in Input |->
        Then(Take(in, "u32", o),
             LAMBDA rest, n : IF n <= Len(rest) THEN Repeated(rest, item)[n] ELSE Stop)]

PointsIn(o) == CountedIn(o, [in \in Input |-> Take(in, "xy", o)])

PartIn(o, ty) ==
    [in \in Input |->
        CASE ty = 1 -> Then(Take(in, "xy", o), LAMBDA rest, p : Got(rest, <<<<p>>>>))
          [] ty = 2 -> Then(PointsIn(o)[in], LAMBDA rest, pts : Got(rest, <<pts>>))
          [] OTHER  -> CountedIn(o, PointsIn(o))[in]]

ShapeIn(o, ty, child) ==
    [in \in Input |->
        IF ty <= 3 THEN Then(PartIn(o, ty)[in], LAMBDA rest, part : Got(rest, <<part>>))
        ELSE CountedIn(o, child)[in]]

\* Byte order and type; `out` is the pair.
WkbHeader(in) ==
    Then(Take(in, "byte", "-"), LAMBDA rest, b :
      Then(Take(rest, "u32", OrderOf(b)), LAMBDA left, ty :
        IF b \in {0, 1} THEN Got(left, <<OrderOf(b), ty>>) ELSE Stop))

\* Every child has a header of its own, and must be of the Multi's type.
WkbChild(ty) ==
    [in \in Input |->
        Then(WkbHeader(in), LAMBDA rest, h :
          IF h[2] = ty - 3 THEN PartIn(h[1], ty - 3)[rest] ELSE Stop)]

ReadGeom(w) ==
    Then(WkbHeader(w), LAMBDA rest, h :
      IF h[2] \notin 1..6 THEN Stop
      ELSE Then(ShapeIn(h[1], h[2], WkbChild(h[2]))[rest],
                LAMBDA left, parts : Got(left, [ty |-> h[2], parts |-> parts])))

DecodeWkb(w) == Whole(ReadGeom(w))

----------------------------------------------------------------------------
(* EWKB: flags in the high bits of the type (scaled: SRID 32, M 64, Z 128) *)
(* and the SRID behind it; the rest is passed through without a look.      *)

SridFlag == 32
HasZM(ty) == ty >= 64

EncodeEwkb(w, srid) ==
    LET h == WkbHeader(w)
    IN  IF ~h.ok \/ h.out[2] >= SridFlag THEN NoBytes
        ELSE <<w[1], U32(h.out[1], h.out[2] + SridFlag), U32(h.out[1], srid)>> \o h.in

\* Mutant: the SRID is removed, its flag is not.
StripSridKeepsFlag(e) ==
    LET h == WkbHeader(e)
        s == Take(h.in, "u32", h.out[1])
    IN  IF ~h.ok \/ ~s.ok THEN NoBytes
        ELSE IF h.out[2] < SridFlag THEN e
        ELSE SubSeq(e, 1, 2) \o s.in

\* strip_srid: plain WKB passes through as it is.
StripSrid(e) ==
    LET h == WkbHeader(e)
        s == Take(h.in, "u32", h.out[1])
    IN  IF ~h.ok \/ HasZM(h.out[2]) THEN NoBytes
        ELSE IF h.out[2] < SridFlag THEN e
        ELSE IF ~s.ok THEN NoBytes
        ELSE <<e[1], U32(h.out[1], h.out[2] - SridFlag)>> \o s.in

----------------------------------------------------------------------------
(* GeoPackage: "GP", version, flags, SRS id, envelope, then WKB as it is. *)

EnvelopePairs == <<0, 2, 3, 3, 4>>     \* coordinate pairs, by code 0..4

GpkgBlob(o, code, srid, w) ==
    <<Byte(71), Byte(80), Byte(0), Byte((IF o = "LE" THEN 1 ELSE 0) + 2 * code), U32(o, srid)>>
    \o [i \in 1..EnvelopePairs[code + 1] |-> XY(o, i)] \o w

EncodeGpkg(w, srid) == GpkgBlob("LE", 0, srid, w)

\* The WKB in a blob, which nobody looks at.
DecodeGpkg(b) ==
    LET flags == b[4].v
        code  == (flags \div 2) % 8
        end   == 5 + EnvelopePairs[code + 1]
    IN  IF \/ Len(b) < 5
           \/ SubSeq(b, 1, 3) /= <<Byte(71), Byte(80), Byte(0)>>
           \/ code > 4
           \/ Len(b) < end
        THEN NoBytes ELSE SubSeq(b, end + 1, Len(b))

----------------------------------------------------------------------------
(* SpatiaLite: start, byte order, SRID, the two corners of the MBR, which  *)
(* nobody reads, 124, the geometry with a mark before each child, 254.     *)

Mark == Byte(105)

SpatialiteShape(o, g) == ShapeOut(o, g, Mark)

SpatialiteBlob(o, g, srid) ==
    <<Byte(0), OrderByte(o), U32(o, srid), XY(o, 1), XY(o, 2), Byte(124)>>
    \o SpatialiteShape(o, g) \o <<Byte(254)>>

\* compute_mbr refuses a geometry without a finite coordinate.
HasMbr(g) == ~(Coords(g) \subseteq {0})

\* encode of a geometry that was WKB.
EncodeSpatialite(g, srid) == IF HasMbr(g) THEN SpatialiteBlob("LE", g, srid) ELSE NoBytes

SpatialiteChild(o, ty) ==
    [in \in Input |->
        Then(Take(in, "byte", "-"), LAMBDA rest, m :
          Then(Take(rest, "u32", o), LAMBDA left, t :
            IF m = Mark.v /\ t = ty - 3 THEN PartIn(o, ty - 3)[left] ELSE Stop))]

\* Type and geometry, up to the end mark.
SpatialiteGeom(o) ==
    [in \in Input |->
        Then(Take(in, "u32", o), LAMBDA rest, ty :
          IF ty \notin 1..6 THEN Stop
          ELSE Then(ShapeIn(o, ty, SpatialiteChild(o, ty))[rest],
                    LAMBDA left, parts : Got(left, [ty |-> ty, parts |-> parts])))]

\* Reads the blob, and writes the geometry as WKB again.
DecodeSpatialite(b) ==
    LET r == SpatialiteGeom(OrderOf(b[2].v))[SubSeq(b, 7, Len(b))]
    IN  IF \/ Len(b) < 8 \/ b[1] /= Byte(0) \/ b[2].v \notin {0, 1} \/ b[6] /= Byte(124)
           \/ ~r.ok \/ r.in /= <<Byte(254)>>
        THEN NoBytes ELSE EncodeWkb(r.out)

----------------------------------------------------------------------------
(* WKT, and the nested arrays of GeoJSON, which differ in how a point is   *)
(* written and in whether an empty list can be read.                       *)

ListOut(items) == <<Sign("(")>>
                  \o FlattenSeq([i \in DOMAIN items |->
                        IF i = 1 THEN items[i] ELSE <<Sign(",")>> \o items[i]])
                  \o <<Sign(")")>>
PointOut(form, p) == IF form = "wkt" THEN ListOut(<<<<XY("-", p)>>>>) ELSE <<XY("-", p)>>
LineOut(pts) == ListOut([i \in DOMAIN pts |-> <<XY("-", pts[i])>>])

PartText(form, ty, part) ==
    CASE ty = 1 -> PointOut(form, part[1][1])
      [] ty = 2 -> LineOut(part[1])
      [] OTHER  -> ListOut([i \in DOMAIN part |-> LineOut(part[i])])

EncodeText(form, g) ==
    <<[k |-> "word", o |-> "-", v |-> g.ty]>> \o
    IF g.ty <= 3 THEN PartText(form, g.ty, g.parts[1])
    ELSE ListOut([i \in DOMAIN g.parts |-> PartText(form, g.ty - 3, g.parts[i])])

Starts(in, k) == in /= <<>> /\ Head(in).k = k

\* After an item comes another, or the end of the list.
AfterItem(acc, r) ==
    LET To(at) == [at |-> at, in |-> Tail(r.in), out |-> Append(acc.out, r.out)]
    IN  CASE r.ok /\ Starts(r.in, ",") -> To("item")
          [] r.ok /\ Starts(r.in, ")") -> To("end")
          [] OTHER -> [acc EXCEPT !.at = "error"]

NextItem(acc, item) ==
    IF acc.at = "item" THEN AfterItem(acc, item[acc.in]) ELSE acc

Listed(in, item) ==
    LET read[i \in Nat] == IF i = 0 THEN [at |-> "item", in |-> in, out |-> <<>>]
                           ELSE NextItem(read[i - 1], item)
    IN  read

\* The items behind a "(", of which there are no more than tokens.
Items(in, item) ==
    LET end == Listed(in, item)[Len(in)]
    IN  IF end.at = "end" THEN Got(end.in, end.out) ELSE Stop

ListIn(form, item) ==
    [in \in Input |->
        IF ~Starts(in, "(") THEN Stop
        ELSE IF form = "json" /\ Starts(Tail(in), ")") THEN Got(Tail(Tail(in)), <<>>)
        ELSE Items(Tail(in), item)]

\* A number that f64::parse takes: NaN is written, but not read.
PairIn == [in \in Input |->
              Then(Take(in, "xy", "-"), LAMBDA rest, p : IF p = 0 THEN Stop ELSE Got(rest, p))]

\* Mutant: a ")" that is missing at the end is supplied.
LineInClosed(form) ==
    [in \in Input |-> IF ListIn(form, PairIn)[in].ok THEN ListIn(form, PairIn)[in]
                      ELSE ListIn(form, PairIn)[Append(in, Sign(")"))]]

LineIn(form) == ListIn(form, PairIn)

PointIn(form) ==
    [in \in Input |->
        IF form = "json" THEN PairIn[in]
        ELSE Then(LineIn(form)[in],
                  LAMBDA rest, pts : IF Len(pts) = 1 THEN Got(rest, pts[1]) ELSE Stop)]

PartOfText(form, ty) ==
    [in \in Input |->
        CASE ty = 1 -> Then(PointIn(form)[in], LAMBDA rest, p : Got(rest, <<<<p>>>>))
          [] ty = 2 -> Then(LineIn(form)[in], LAMBDA rest, pts : Got(rest, <<pts>>))
          [] OTHER  -> ListIn(form, LineIn(form))[in]]

\* Mutant: the points of a MULTIPOINT are bare.
ChildOfTextBare(form, ty) == PartOfText(IF ty = 4 THEN "json" ELSE form, ty - 3)

\* MULTIPOINT takes (1 2, 3 4) and ((1 2), (3 4)).
ChildOfText(form, ty) ==
    [in \in Input |->
        PartOfText(IF ty = 4 /\ ~Starts(in, "(") THEN "json" ELSE form, ty - 3)[in]]

\* parse_geom: the word for the type, and what it asks for.
PartsOfText(form, ty) ==
    [in \in Input |->
        IF ty <= 3 THEN Then(PartOfText(form, ty)[in], LAMBDA rest, part : Got(rest, <<part>>))
        ELSE ListIn(form, ChildOfText(form, ty))[in]]

GeomOfText(form, text) ==
    Then(Take(text, "word", "-"), LAMBDA in, ty :
      IF ty \notin 1..6 THEN Stop
      ELSE Then(PartsOfText(form, ty)[in],
                LAMBDA rest, parts : Got(rest, [ty |-> ty, parts |-> parts])))

DecodeText(form, text) == Whole(GeomOfText(form, text))

----------------------------------------------------------------------------
(* The shapes of a shapefile (shp/geometry.rs): lines and multi-lines are  *)
(* one Polyline type, a MultiPolygon is written as one list of rings.  The *)
(* shapefile crate asserts that a line has two points, and takes the first *)
(* point of a shape for its bounding box.                                  *)

ShapeWritable(g) ==
    /\ Coords(g) /= {}
    /\ g.ty \in {2, 5} =>
          \A p \in DOMAIN g.parts : \A r \in DOMAIN g.parts[p] : Len(g.parts[p][r]) >= 2

\* What shp_to_geom makes of the shape that geom_to_shp wrote.
ThroughShape(g) ==
    CASE g.ty \in {2, 5} ->
            IF Len(g.parts) = 1 THEN [g EXCEPT !.ty = 2] ELSE [g EXCEPT !.ty = 5]
      [] g.ty \in {3, 6} -> [ty |-> 3, parts |-> <<FlattenSeq(g.parts)>>]
      [] OTHER -> g
============================================================================
