--------------------------- MODULE SampledReader ---------------------------
(***************************************************************************)
(* The readers that look at the first rows of their source before they     *)
(* know its schema, and then stream it: FlatGeobuf (which date columns     *)
(* hold only dates), GeoJSON as FeatureCollection ("fc") and as lines      *)
(* ("ndjson"), CSV (the geometry type), and SpatiaLite's --query mode.     *)
(*                                                                         *)
(* FlatGeobuf keeps the sampled rows and goes on with the same iterator;   *)
(* the others forget them and open the source again.  The layer has one    *)
(* attribute column; a row is what its cell and its geometry hold.         *)
(***************************************************************************)
EXTENDS Naturals, Sequences

CONSTANTS Jobs,         \* what there is to read, records of AllJobs
          BatchSize     \* rows of a full batch (READ_BATCH_SIZE)

GeoJson == {"fc", "ndjson"}
Formats == {"fgb", "csv", "query"} \cup GeoJson
Cells == [fgb    |-> {"null", "date", "datetime"},
          fc     |-> {"absent", "null", "bool", "int", "float", "text", "struct"},
          ndjson |-> {"absent", "null", "bool", "int", "float", "text", "struct"},
          csv    |-> {"text"},
          query  |-> {"null", "int", "real", "numeral", "text", "blob"}]
Geoms == {"none", "point", "line", "collection"}

AllJobs == [format : Formats,
            limit  : Nat,       \* SAMPLE_LIMIT (0: FlatGeobuf without a DateTime
                                \* column), SHPX_GEOJSON_INFER_SAMPLE
            rows   : Seq([cell : UNION {Cells[f] : f \in Formats}, geom : Geoms]),
            cut    : {"whole", "inside", "comma"},   \* where the file ends
            crs    : {"fine", "unknown"}]  \* a `crs` member before `features`

ASSUME SampledReaderAssumption ==
    /\ BatchSize \in Nat \ {0}
    /\ Jobs \subseteq AllJobs
    /\ \A j \in Jobs : \A i \in 1..Len(j.rows) : j.rows[i].cell \in Cells[j.format]

VARIABLES
    job,
    phase,     \* "crs", "sample", "stream"
    taken,     \* rows taken into the sample
    met,       \* the sample met the end of the source
    column,    \* the type of the column once inferred, or "none"
    geom,      \* the geometry type in the schema
    buffer,    \* the sampled rows still to be yielded (FgbReader.sample)
    pos,       \* rows taken from the stream of batches()
    out,       \* the rows yielded: their number and what became of the cell
    outcome,   \* as in LayerStream
    cause      \* why outcome is "err"
vars == <<job, phase, taken, met, column, geom, buffer, pos, out, outcome, cause>>

Rows == job.rows

Init == /\ job \in Jobs
        /\ phase = "crs" /\ taken = 0 /\ met = FALSE
        /\ column = "none" /\ geom = "Geometry"
        /\ buffer = <<>> /\ pos = 0 /\ out = <<>>
        /\ outcome = "open" /\ cause = "none"

\* Mutant: one row more than there are.
FeatureOffByOne(n) == IF n <= Len(Rows) THEN "row"
                      ELSE IF job.cut = "inside" THEN "err" ELSE "end"

\* The source's iterator after n rows.  A file cut after the comma that
\* follows a feature: the JSON deserializer finds nothing more and the
\* FeatureCollection iterator ends as if it had seen the closing bracket.  A
\* text file of lines that is cut between two lines is just shorter.
Feature(n) == IF n < Len(Rows) THEN "row"
              ELSE IF job.cut = "inside" THEN "err" ELSE "end"

Fail(why) == outcome' = "err" /\ cause' = why

----------------------------------------------------------------------------
(* open() *)

\* parse_crs_member and parse_crs_name.
CrsReadable == job.crs = "fine"

\* extract_top_level_crs_value: a CRS it cannot read is an error, even if
\* --src-crs is given.
ProbeCrs ==
    /\ phase = "crs" /\ outcome = "open"
    /\ IF job.format = "fc" /\ ~CrsReadable
       THEN Fail("crs") /\ phase' = phase
       ELSE phase' = "sample" /\ UNCHANGED <<outcome, cause>>
    /\ UNCHANGED <<job, taken, met, column, geom, buffer, pos, out>>

\* CSV stops at the first geometry; the query is asked for one row.
SampleFull ==
    CASE job.format \in GeoJson \cup {"fgb"} -> taken >= job.limit
      [] job.format = "csv" -> \E i \in 1..taken : Rows[i].geom # "none"
      [] job.format = "query" -> taken = 1

SampleRow ==
    /\ phase = "sample" /\ outcome = "open" /\ ~SampleFull
    /\ CASE Feature(taken) = "row" -> taken' = taken + 1 /\ UNCHANGED <<met, outcome, cause>>
         [] Feature(taken) = "end" -> ~met /\ met' = TRUE /\ UNCHANGED <<taken, outcome, cause>>
         [] Feature(taken) = "err" -> Fail("syntax") /\ UNCHANGED <<taken, met>>
    /\ UNCHANGED <<job, phase, column, geom, buffer, pos, out>>

SampledCells == {Rows[i].cell : i \in 1..taken} \ {"absent", "null"}

\* Mutant: a column that began as Float is set back to Int by an integer.
MergeLastWins(prev, new) ==
    IF prev \in {"none", new} THEN new
    ELSE IF {prev, new} = {"int", "float"} THEN new
    ELSE "mixed"

\* ColumnState::update: Int widens to Float, anything else is a mixture.
Merge(prev, new) ==
    IF prev \in {"none", new} THEN new
    ELSE IF {prev, new} = {"int", "float"} THEN "float"
    ELSE "mixed"

\* ColumnState.inferred after n features; a null and a feature without the key
\* leave it alone.
Merged[n \in 0..Len(Rows)] ==
    IF n = 0 THEN "none"
    ELSE IF Rows[n].cell \in {"absent", "null"} THEN Merged[n - 1]
    ELSE Merge(Merged[n - 1], Rows[n].cell)

\* infer_columns and into_arrow_type: a key that the sample does not have makes
\* no column; one whose values are all null makes a text column.
InferJson ==
    IF \A i \in 1..taken : Rows[i].cell = "absent" THEN "none"
    ELSE IF "struct" \in SampledCells THEN "Utf8"
    ELSE CASE Merged[taken] = "bool" -> "Boolean" [] Merged[taken] = "int" -> "Int64"
           [] Merged[taken] = "float" -> "Float64" [] OTHER -> "Utf8"

\* refine_arrow_types, called if the sample is the whole file.
Refine == IF met /\ SampledCells = {"date"} THEN "Date32" ELSE "Timestamp"

\* ProbeKind::infer_arrow_type.
InferQuery == CASE Rows[1].cell \in {"null", "text", "numeral"} -> "Utf8"
                [] Rows[1].cell = "int" -> "Int64"
                [] Rows[1].cell = "real" -> "Float64"
                [] Rows[1].cell = "blob" -> "Binary"

\* unify_geometry_type.  FlatGeobuf takes the type from its header; CSV and
\* --query have one row with a geometry at most.
SampledGeoms == {Rows[i].geom : i \in 1..taken} \ {"none"}
UnifyGeometry == CASE SampledGeoms = {"point"} -> "Point"
                   [] SampledGeoms = {"line"} -> "LineString"
                   [] OTHER -> "Geometry"

\* A GeometryCollection in GeoJSON's sample, no row or no geometry in the
\* first row of --query.
SampleRefused == \/ job.format \in GeoJson /\ "collection" \in SampledGeoms
                 \/ job.format = "query" /\ SampledGeoms = {}

\* The schema is built and, but for FlatGeobuf, the source opened again.
Infer ==
    /\ phase = "sample" /\ outcome = "open" /\ (SampleFull \/ met)
    /\ IF SampleRefused
       THEN Fail("geometry") /\ UNCHANGED <<phase, column, geom, buffer, pos>>
       ELSE /\ phase' = "stream"
            /\ column' = CASE job.format \in GeoJson -> InferJson
                           [] job.format = "fgb" -> Refine
                           [] job.format = "csv" -> "Utf8"
                           [] job.format = "query" -> InferQuery
            /\ geom' = IF job.format = "fgb" THEN "Geometry" ELSE UnifyGeometry
            /\ IF job.format = "fgb"
               THEN buffer' = [i \in 1..taken |-> i] /\ pos' = taken
               ELSE buffer' = <<>> /\ pos' = 0
            /\ UNCHANGED <<outcome, cause>>
    /\ UNCHANGED <<job, taken, met, out>>

----------------------------------------------------------------------------
(* What a cell becomes in a column of the given type: itself ("same"), the  *)
(* same value in another representation ("converted"), NULL, a value with   *)
(* its fraction cut off ("truncated"), nothing at all ("dropped"), or an    *)
(* error.                                                                   *)

\* append_value
JsonCell(t, c) ==
    CASE t = "none" -> "dropped"
      [] t # "none" /\ c \in {"absent", "null"} -> "null"
      [] t = "Boolean" /\ c = "bool" -> "same"
      [] t = "Int64" /\ c = "int" -> "same"
      [] t = "Float64" /\ c \in {"int", "float"} -> IF c = "float" THEN "same" ELSE "converted"
      [] t = "Utf8" /\ c \notin {"absent", "null"} -> IF c = "text" THEN "same" ELSE "converted"
      [] OTHER -> "null"

\* build_array, parse_date32 and parse_timestamp_micros
FgbCell(t, c) == CASE c = "null" -> "null"
                   [] c = "date" -> IF t = "Date32" THEN "same" ELSE "converted"
                   [] c = "datetime" -> IF t = "Date32" THEN "error" ELSE "same"

\* decode_value, coerce_int, coerce_float and coerce_text; a "numeral" is a
\* TEXT that parses as a number.
QueryCell(t, c) ==
    CASE c = "null" -> "null"
      [] t = "Utf8" /\ c # "null" -> IF c \in {"text", "numeral"} THEN "same" ELSE "converted"
      [] t = "Int64" /\ c \in {"int", "numeral"} -> IF c = "int" THEN "same" ELSE "converted"
      [] t = "Int64" /\ c = "real" -> "truncated"
      [] t = "Float64" /\ c \in {"int", "real", "numeral"} ->
            IF c = "real" THEN "same" ELSE "converted"
      [] t = "Binary" /\ c = "blob" -> "same"
      [] OTHER -> "error"

Cell(i) == CASE job.format \in GeoJson -> JsonCell(column, Rows[i].cell)
             [] job.format = "fgb" -> FgbCell(column, Rows[i].cell)
             [] job.format = "csv" -> "same"
             [] job.format = "query" -> QueryCell(column, Rows[i].cell)

\* geometry_to_geom and wkt::decode refuse a GeometryCollection, and so does
\* the SpatiaLite blob's codec; FlatGeobuf passes WKB on.
BadGeometry(i) == job.format # "fgb" /\ Rows[i].geom = "collection"

----------------------------------------------------------------------------
(* batches() *)

MinOf(a, b) == IF a < b THEN a ELSE b

\* How many rows the stream adds to `n` that are there already.
FromStream(n) == MinOf(BatchSize - n, Len(Rows) - pos)

\* Mutant: a full chunk from the sample throws away what the sample has left.
NextBatchForgets ==
    /\ phase = "stream" /\ outcome = "open"
    /\ LET old == SubSeq(buffer, 1, MinOf(Len(buffer), BatchSize))
           n == FromStream(Len(old))
           chunk == old \o [i \in 1..n |-> pos + i]
       IN  /\ chunk # <<>>
           /\ \A k \in 1..Len(chunk) : Cell(chunk[k]) # "error" /\ ~BadGeometry(chunk[k])
           /\ out' = out \o [k \in 1..Len(chunk) |-> [row |-> chunk[k], cell |-> Cell(chunk[k])]]
           /\ buffer' = <<>> /\ pos' = pos + n
    /\ UNCHANGED <<job, phase, taken, met, column, geom, outcome, cause>>

\* One call of next(): the rest of the sample, then the stream, up to a full
\* batch.  An error loses the rows of its batch and ends the iteration.
NextBatch ==
    /\ phase = "stream" /\ outcome = "open"
    /\ LET old == SubSeq(buffer, 1, MinOf(Len(buffer), BatchSize))
           n == FromStream(Len(old))
           chunk == old \o [i \in 1..n |-> pos + i]
           short == Len(chunk) < BatchSize /\ ~(met /\ job.format = "fgb")
       IN  IF short /\ Feature(pos + n) = "err"
             THEN Fail("syntax") /\ UNCHANGED <<buffer, pos, out>>
           ELSE IF \E k \in 1..Len(chunk) : BadGeometry(chunk[k])
             THEN Fail("geometry") /\ UNCHANGED <<buffer, pos, out>>
           ELSE IF \E k \in 1..Len(chunk) : Cell(chunk[k]) = "error"
             THEN Fail("type") /\ UNCHANGED <<buffer, pos, out>>
           ELSE IF chunk = <<>>
             THEN outcome' = "end" /\ UNCHANGED <<buffer, pos, out, cause>>
           ELSE /\ out' = out \o [k \in 1..Len(chunk) |->
                                     [row |-> chunk[k], cell |-> Cell(chunk[k])]]
                /\ buffer' = SubSeq(buffer, Len(old) + 1, Len(buffer))
                /\ pos' = pos + n
                /\ UNCHANGED <<outcome, cause>>
    /\ UNCHANGED <<job, phase, taken, met, column, geom>>

\* Reading fails; the caller gives up.
IoFails == /\ outcome = "open" /\ Fail("io")
           /\ UNCHANGED <<job, phase, taken, met, column, geom, buffer, pos, out>>
Cancel  == /\ outcome = "open" /\ outcome' = "cancelled"
           /\ UNCHANGED <<job, phase, taken, met, column, geom, buffer, pos, out, cause>>

Terminated == outcome # "open" /\ UNCHANGED vars

Advance == ProbeCrs \/ SampleRow \/ Infer \/ NextBatch
Next == Advance \/ IoFails \/ Cancel \/ Terminated

\* convert calls next() until it ends.
Spec == Init /\ [][Next]_vars /\ WF_vars(Advance)

----------------------------------------------------------------------------
(* Properties. *)

\* The type invariant.
TypeOK ==
    /\ job \in AllJobs /\ phase \in {"crs", "sample", "stream"}
    /\ taken \in 0..Len(Rows) /\ met \in BOOLEAN
    /\ column \in {"none", "Boolean", "Int64", "Float64", "Utf8", "Binary",
                   "Date32", "Timestamp"}
    /\ geom \in {"Geometry", "Point", "LineString"}
    /\ pos \in 0..Len(Rows)
    /\ \A i \in DOMAIN buffer : buffer[i] \in 1..taken
    /\ \A i \in DOMAIN out : out[i].row \in 1..Len(Rows)
    /\ outcome \in {"open", "end", "err", "cancelled"}
    /\ cause \in {"none", "crs", "syntax", "geometry", "type", "io"}
    /\ outcome = "err" <=> cause # "none"

\* The rows come out once, in order and in full batches, also where a batch
\* spans the border between the sample and the stream, and the iteration ends.
LS == INSTANCE LayerStream WITH rows <- Len(Rows),
                                seen <- [i \in 1..Len(out) |-> out[i].row]
RefinesLayerStream == LS!Spec

\* What the sample has seen is not lost to the schema made from it: no row of
\* it is nulled, truncated or dropped.
SampleIsExact ==
    \A i \in DOMAIN out :
        out[i].row <= taken /\ Rows[out[i].row].cell \notin {"absent", "null"}
            => out[i].cell \in {"same", "converted"}

\* The schema's geometry type holds for the whole sample, and does not fail
\* rows the reader would otherwise have passed on: the only row that can stop
\* the iteration for the type of its cell is one that --query's LIMIT 1 probe
\* did not see.
SchemaFits ==
    /\ phase = "stream" /\ geom # "Geometry" =>
         \A i \in 1..taken : Rows[i].geom \in {"none", IF geom = "Point" THEN "point" ELSE "line"}
    /\ cause = "type" => job.format = "query"

\* No sampled value is lost and no unsampled one breaks the schema.
SampleDecides == SampleIsExact /\ SchemaFits

----------------------------------------------------------------------------
(* What the documentation says, which the code does not do. *)

\* docs/GEOJSON.md: a key that first appears after the sample makes no column,
\* but the demotion of a column of mixed types "stays effective".
MixedTypesDemoted ==
    \A i \in DOMAIN out :
        job.format \in GeoJson /\ column # "none" /\ out[i].cell = "null"
            => Rows[out[i].row].cell \in {"absent", "null"}
============================================================================
