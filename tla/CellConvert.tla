---------------------------- MODULE CellConvert ----------------------------
(***************************************************************************)
(* One cell of a layer on its way through shpx: a command writes it with   *)
(* a driver, the file or table may be damaged, the next command reads it   *)
(* with the same driver and writes it with any.  An attribute goes through *)
(* the type tables and conversions of ColumnTypes, a geometry through the  *)
(* codecs of GeometryCodecs.                                               *)
(*                                                                         *)
(* The servers and libraries behind the drivers are external: PostGIS and  *)
(* SQL Server parse and check the WKB they are sent, SpatiaLite turns one  *)
(* it cannot read into NULL, geozero reads the WKB for FlatGeobuf.         *)
(***************************************************************************)
EXTENDS ColumnTypes, GeometryCodecs

CONSTANTS Cells,      \* the cells to begin with, as a reader yields them
          Values,     \* attribute cells other programs stored: [by, stored],
          Shapes,     \* the geometries of theirs, and
          Texts,      \* what stands in the geometry column of their CSV files
          MaxTrips    \* bound: how often the cell is written

Losses  == {"error", "warn", "skip"}
Drivers == {"postgis", "sqlserver", "gpkg", "spatialite", "fgb", "shp", "geojson", "csv", "parquet"}
Srid    == 3

----------------------------------------------------------------------------
(* The cells there are. *)

AttributeTypes == Ints \cup Floats \cup Dates \cup Times \cup Decimals \cup {"Bool", "Utf8", "Binary", "List"}

\* The values of a type, null apart.
Kinds(t) == CASE t = "Bool"      -> {"bool"}
              [] t \in Ints      -> {"int"}
              [] t \in Floats    -> {"float", "nan", "int", "dec"}
              [] t \in Dates     -> {"date"}
              [] t \in Times     -> {"time", "far"}
              [] t \in Decimals  -> {"dec"}
              [] t = "Binary"    -> {"bytes"}
              [] t = "List"      -> {"list"}
              [] t = "Utf8"      -> {"text", "odd", "bool", "int", "float", "nan", "dec", "date",
                                     "time", "far", "bytes"}
              [] OTHER           -> {"geom"}

Bits(t) == CASE t \in {"Int8", "UInt8"} -> 8 [] t \in {"Int16", "UInt16"} -> 16
             [] t \in {"Int32", "UInt32"} -> 32 [] t = "Int64" -> 63 [] OTHER -> 64

\* A number fits its type, and a text that was bytes is not what it was.
Fits(t, v) ==
    /\ v.k = "null" => v.n = 0
    /\ t \in Ints => v.n \in 0..Bits(t)
    /\ t \in Floats => AsF64(v) = v
    /\ t \in Decimals => v.n \in (0 - MaxAcc)..MaxAcc
    /\ t = "Utf8" /\ v.k = "bytes" => v.lost

\* A cell of a RecordBatch.
ArrowCell(c) ==
    /\ c.at = "arrow"
    /\ c.type.t \in AttributeTypes \cup {"Geom"} /\ c.type.s \in Nat
    /\ c.v.k \in Kinds(c.type.t) \cup {"null"} /\ c.v.n \in Int /\ c.v.lost \in BOOLEAN
    /\ c.v.k = "geom" => c.v.n = 0
    /\ Fits(c.type.t, c.v)
    /\ c.w \in Input
    /\ c = [at |-> "arrow", type |-> [t |-> c.type.t, s |-> c.type.s],
            v |-> [k |-> c.v.k, n |-> c.v.n, lost |-> c.v.lost], w |-> c.w]

\* SQLite keeps any class of value in a column of any type.
SqliteKinds == [int |-> {"int"}, real |-> {"float"}, text |-> {"text", "date", "time"},
                blob |-> {"bytes"}, null |-> {"null"}]

SqliteCell(st) ==
    /\ st.decl.t \in DOMAIN SqliteArrow /\ st.as \in DOMAIN SqliteKinds
    /\ st.v.k \in SqliteKinds[st.as]
    /\ st.v.n \in (IF st.v.k = "null" THEN {0} ELSE 0..63)
    /\ st = Stored(Type(st.decl.t), st.as, Value(st.v.k, st.v.n))

\* A numeric has any weight.
NumericCell(st) ==
    /\ st.decl.t \in {"numeric", "numeric_wide", "numeric_any"} /\ st.decl.s \in Nat
    /\ st.w[1] \in Seq(0..(NBase - 1)) /\ st.w[2] \in Int /\ st.w[3] \in {"pos", "neg", "nan"}
    /\ st = [Stored([t |-> st.decl.t, s |-> st.decl.s], "-", Value("dec", 0))
                EXCEPT !.w = <<st.w[1], st.w[2], st.w[3]>>]

ForeignValue(f) ==
    \/ f.by \in {"gpkg", "spatialite"} /\ SqliteCell(f.stored)
    \/ f.by = "postgis" /\ NumericCell(f.stored)

ASSUME CellConvertAssumption ==
    /\ MaxTrips \in Nat
    /\ \A c \in Cells : ArrowCell(c)
    /\ \A f \in Values : ForeignValue(f)
    /\ \A g \in Shapes : g \in Geometry
    /\ \A text \in Texts : text \in Input

\* What other programs have stored: geometries in either byte order, blobs with
\* any envelope, texts that may be no WKT.
By(d, st) == [by |-> d, stored |-> st]
InColumn(ty, w) == [Stored([t |-> "Geom", s |-> ty], "-", Value("geom", 0)) EXCEPT !.w = w]

Foreign ==
    Values
    \cup {By("gpkg", InColumn(g.ty, GpkgBlob(o, code, Srid, WkbIn(o, g)))) :
              g \in Shapes, o \in Orders, code \in 0..4}
    \cup {By("spatialite", InColumn(g.ty, SpatialiteBlob(o, g, Srid))) :
              g \in {h \in Shapes : HasMbr(h)}, o \in Orders}
    \cup {By("postgis", InColumn(g.ty, EncodeEwkb(WkbIn(o, g), Srid))) : g \in Shapes, o \in Orders}
    \cup {By("csv", InColumn(0, text)) : text \in Texts}

----------------------------------------------------------------------------
(* One cell and where it is. *)

VARIABLES
    loss,      \* --on-loss
    sample,    \* what a FlatGeobuf reader's sample shows of the layer
    stage,     \* "arrow" (in a RecordBatch), "stored", or where it ended:
               \* "refused", "dropped" (the column), "unreadable"
    cell,      \* the cell in Arrow, as it was last
    stored,    \* the cell in the file or table, as it was last
    by,        \* the driver that stored it, "none" before that
    before,    \* what that driver's writer was given, and
    from,      \* the driver that had read it
    own,       \* shpx stored it, not another program
    damaged,   \* the stored bytes were cut or added to: "no", "now", or
               \* those of an earlier trip
    trips
vars == <<loss, sample, stage, cell, stored, by, before, from, own, damaged, trips>>

IsGeom(c) == c.v.k = "geom"
GeomCell(decl, w) == [Arrow([t |-> "Geom", s |-> decl], Value("geom", 0)) EXCEPT !.w = w]

----------------------------------------------------------------------------
(* Geometry columns.  The number of a geometry type declares a column of   *)
(* that type, 0 one of any.  A writer is given the cell c and the geometry *)
(* g its WKB decodes to, or Refused, for whoever decodes it.               *)

Takes(c, g) == c.type.s \in {0, g.ty}
StoredGeom(c, w) == [Stored(c.type, "-", c.v) EXCEPT !.w = w]

\* encode_geometry wraps the WKB unread; the server parses it.
PutPostgis(c, g) ==
    IF g = Refused \/ ~Takes(c, g) \/ EncodeEwkb(c.w, Srid) = NoBytes THEN WriteError
    ELSE StoredGeom(c, EncodeEwkb(EncodeWkb(g), Srid))

\* STGeomFromWKB of the WKB as it is; the column takes every type.
PutSqlServer(c, g) == IF g = Refused \/ 0 \in Coords(g) THEN WriteError
                      ELSE StoredGeom(c, EncodeWkb(g))

\* write_batch decodes the WKB for the layer's extent, and stores it as it is.
PutGpkg(c, g) == IF g = Refused THEN WriteError ELSE StoredGeom(c, EncodeGpkg(c.w, Srid))

\* GeomFromWKB(?, srid): NULL for what it cannot read.
PutSpatialite(c, g) ==
    IF ~HasMbr(g) THEN Stored(c.type, "-", Gone)
    ELSE IF ~Takes(c, g) THEN WriteError
    ELSE StoredGeom(c, EncodeSpatialite(g, Srid))

\* geozero does not look for anything behind the geometry.
PutFlatGeobuf(c, r) ==
    IF ~r.ok \/ c.type.s /= r.out.ty THEN WriteError ELSE StoredGeom(c, EncodeWkb(r.out))

\* The shape type of the file, from the declared type; geom_to_shp.
ShapeType(ty) == CASE ty = 2 -> 5 [] ty = 3 -> 6 [] OTHER -> ty
PutShape(c, g) ==
    IF \/ g = Refused \/ ~ShapeWritable(g)
       \/ c.type.s = 0 \/ ShapeType(g.ty) /= ShapeType(c.type.s)
    THEN WriteError
    ELSE [StoredGeom(c, EncodeWkb(ThroughShape(g))) EXCEPT !.decl.s = ShapeType(@)]

PutText(form, c, g) == IF g = Refused THEN WriteError ELSE StoredGeom(c, EncodeText(form, g))

PutDecoded(d, c, g) ==
    CASE d = "postgis"    -> PutPostgis(c, g)
      [] d = "sqlserver"  -> PutSqlServer(c, g)
      [] d = "gpkg"       -> PutGpkg(c, g)
      [] d = "spatialite" -> PutSpatialite(c, g)
      [] d = "fgb"        -> PutFlatGeobuf(c, ReadGeom(c.w))
      [] d = "shp"        -> PutShape(c, g)
      [] d \in {"csv", "geojson"} -> PutText(IF d = "csv" THEN "wkt" ELSE "json", c, g)
      [] OTHER            -> StoredGeom(c, c.w)

PutGeom(d, c) ==
    IF c.v.k /= "null" THEN PutDecoded(d, c, DecodeWkb(c.w))
    ELSE IF d \in {"fgb", "shp"} THEN WriteError ELSE Stored(c.type, "-", Null)

\* A reader that keeps the declared type, and one that takes it from the row.
Declared(st, w) == IF w = NoBytes THEN ReadError ELSE GeomCell(st.decl.s, w)
TypeOfRow(w) == IF WkbHeader(w).ok THEN GeomCell(WkbHeader(w).out[2], w) ELSE ReadError
Parsed(g)    == IF g = Refused THEN ReadError ELSE GeomCell(g.ty, EncodeWkb(g))

Probed == {"postgis", "sqlserver", "csv", "geojson"}
GetGeom(d, st) ==
    IF st.v.k = "null" \/ (d = "csv" /\ st.w = <<>>)
    THEN Arrow([st.decl EXCEPT !.s = IF d \in Probed THEN 0 ELSE @],
               IF st.v.k = "null" THEN st.v ELSE Gone)
    ELSE CASE d = "postgis"    -> TypeOfRow(StripSrid(st.w))
           [] d = "sqlserver"  -> TypeOfRow(st.w)
           [] d = "gpkg"       -> Declared(st, DecodeGpkg(st.w))
           [] d = "spatialite" -> Declared(st, DecodeSpatialite(st.w))
           [] d \in {"csv", "geojson"} ->
                 Parsed(DecodeText(IF d = "csv" THEN "wkt" ELSE "json", st.w))
           [] OTHER            -> Declared(st, st.w)

----------------------------------------------------------------------------
(* Cells of either kind. *)

Put(d, c, bulk, policy) ==
    IF c.type.t = "Geom" THEN PutGeom(d, c)
    ELSE CASE d = "postgis"    -> PutPg(c)
           [] d = "sqlserver"  -> PutMs(c, bulk)
           [] d \in {"gpkg", "spatialite"} -> PutSqlite(c, policy)
           [] d = "fgb"        -> PutFgb(c, policy)
           [] d = "shp"        -> PutShp(c, policy)
           [] d = "csv"        -> PutCsv(c, policy)
           [] d = "geojson"    -> PutGeoJson(c, policy)
           [] OTHER            -> PutParquet(c)

Get(d, st, seen) ==
    IF st.decl.t = "Geom" THEN GetGeom(d, st)
    ELSE CASE d = "postgis"    -> GetPg(st)
           [] d = "sqlserver"  -> GetMs(st)
           [] d \in {"gpkg", "spatialite"} -> GetSqlite(st)
           [] d = "fgb"        -> GetFgb(st, seen)
           [] d = "shp"        -> GetShp(st)
           [] d = "csv"        -> GetCsv(st)
           [] d = "geojson"    -> GetGeoJson(st)
           [] OTHER            -> GetParquet(st)

InArrow == /\ cell \in Cells
           /\ stage = "arrow" /\ stored = LeftOut /\ by = "none" /\ own = TRUE

InStore == \E f \in Foreign :
              /\ stored = f.stored /\ by = f.by
              /\ stage = "stored" /\ cell = ReadError /\ own = FALSE

Init == /\ loss \in Losses /\ sample \in Samples
        /\ InArrow \/ InStore
        /\ before = cell /\ from = "none" /\ damaged = "no" /\ trips = 0

\* write_batch of a driver; SQL Server has a bulk and a batch path.
Write(d, bulk) ==
    /\ stage = "arrow" /\ trips < MaxTrips
    /\ bulk => d = "sqlserver"
    /\ stored' = Put(d, cell, bulk, loss)
    /\ stage' = stored'.at
    /\ by' = d /\ before' = cell /\ from' = by
    /\ own' = TRUE /\ trips' = trips + 1
    /\ damaged' = IF damaged = "now" THEN "earlier" ELSE damaged
    /\ UNCHANGED <<loss, sample, cell>>

\* The stored bytes of a geometry are cut off, or something follows them.
Damage(w) ==
    /\ stage = "stored" /\ damaged = "no" /\ IsGeom(stored)
    /\ by \in {"gpkg", "spatialite", "geojson", "csv"}
    /\ stored' = [stored EXCEPT !.w = w]
    /\ damaged' = "now"
    /\ UNCHANGED <<loss, sample, stage, cell, by, before, from, own, trips>>

CutOff(w) == {SubSeq(w, 1, n) : n \in 0..(Len(w) - 1)}
AddedTo(w) == {Append(w, t) : t \in {Byte(0), Byte(254), XY("LE", 1), XY("-", 1), Sign(")")}}

Read == /\ stage = "stored"
        /\ cell' = Get(by, stored, sample)
        /\ stage' = cell'.at
        /\ UNCHANGED <<loss, sample, stored, by, before, from, own, damaged, trips>>

Terminated == /\ \/ stage \in {"refused", "dropped", "unreadable"}
                 \/ stage = "arrow" /\ trips = MaxTrips
              /\ UNCHANGED vars

Next == \/ \E d \in Drivers, bulk \in BOOLEAN : Write(d, bulk)
        \/ \E w \in CutOff(stored.w) \cup AddedTo(stored.w) : Damage(w)
        \/ Read
        \/ Terminated

Spec == Init /\ [][Next]_vars

----------------------------------------------------------------------------
(* Properties. *)

\* The same value; for a geometry, bytes that mean the same.
Exact(a, b) ==
    /\ b.v.lost => a.v.lost
    /\ b.v.k = a.v.k
    /\ IsGeom(a) => DecodeWkb(a.w) = DecodeWkb(b.w)
    /\ ~b.v.lost => b.v.n = a.v.n

\* What drivers change without asking --on-loss: of a geometry,
GeomChanged(d, g) ==
    \/ d = "shp" /\ (ShapeType(g.ty) = 6 \/ (g.ty = 5 /\ Len(g.parts) = 1))
    \/ d = "spatialite" /\ ~HasMbr(g)
    \/ d = "fgb" /\ g = Refused

\* and of an attribute.
SilentlyChanged(d, c, seen) ==
    CASE IsGeom(c) -> GeomChanged(d, DecodeWkb(c.w))
      [] c.v.k = "time" -> c.v.n > 6 /\ c.type.t \in Times
                           /\ d \in {"postgis", "sqlserver", "gpkg", "spatialite", "fgb"}
      [] c.v.k = "nan"  -> d \in {"gpkg", "spatialite"}
      [] c.v.k = "date" -> d = "fgb" /\ c.type.t \in Dates /\ seen = "cut"
      [] c.v.k = "null" -> d = "csv"
      [] c.v.k = "text" -> d = "shp" /\ c.v.n = 0
      [] OTHER -> d = "shp" /\ \/ c.type.t \in {"Int64", "UInt32", "Decimal"}
                               \/ c.type.t \in Floats

\* Under --on-loss error a driver either refuses a cell or stores what its
\* own reader gives back as the same value; what it changes unasked is listed.
ErrorMeansExact ==
    loss = "error" /\ stage = "arrow" /\ own /\ damaged /= "now" /\ trips > 0
    => Exact(before, cell) \/ SilentlyChanged(by, before, sample)

HasEmptyList(g) == \/ g.parts = <<>>
                   \/ \E part \in ToSet(g.parts) : part = <<>> \/ <<>> \in ToSet(part)

GeomUnreadable(d, g) ==
    \/ d \in {"csv", "geojson"} /\ 0 \in Coords(g)
    \/ d = "csv" /\ HasEmptyList(g)

\* What drivers write and cannot read.
KnownUnreadable(d, c) ==
    \/ d \in {"gpkg", "spatialite"} /\ c.type.t \in {"Int8", "Int16", "Int32", "Float32"}
    \/ d = "sqlserver" /\ TooWide(c.v)
    \/ IsGeom(c) /\ GeomUnreadable(d, DecodeWkb(c.w))

\* A driver reads the cells it has written, except for the types and values
\* it is known not to.
OwnReaderReads ==
    stage = "unreadable" /\ own /\ damaged = "no" => KnownUnreadable(by, before)

\* Bytes that were cut off or added to are never taken for another geometry:
\* they are refused when they are read or by whoever decodes the WKB next, or
\* mean what they did; an empty CSV cell is a null.
DamageIsNoticed ==
    damaged = "now" /\ stage = "arrow" /\ own
    => \/ DecodeWkb(cell.w) \in {Refused, DecodeWkb(before.w)}
       \/ cell.v = Gone /\ by = "csv" /\ stored.w = <<>>

\* Reading settles the type and the value: what a driver has read it writes
\* under the loss policy it was read under, and reads as it was.  Only the numbers of a
\* shapefile do not settle at once: they come back as Float64, to be written
\* as f32.
SecondTripStable ==
    by = from /\ own /\ damaged = "no" /\ stage /= "stored"
    => /\ stage = "arrow"
       /\ cell.type = before.type
       /\ Exact(before, cell) \/ (by = "shp" /\ before.v.k \in {"int", "float", "dec"})

\* Doc claim, src/crates/shpx-driver-gpkg/src/reader.rs:615-616: Int8/16/32
\* columns are held as i64, so that a GeoPackage's integers can all be read.
IntegersAreReadAsInt64 ==
    by = "gpkg" /\ before.type.t \in Ints /\ own => stage /= "unreadable"
============================================================================
