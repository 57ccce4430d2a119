---------------------------- MODULE FileConvert ----------------------------
(***************************************************************************)
(* `shpx convert` onto a file: cli/commands/convert.rs drives one of the   *)
(* seven file drivers, and what counts is what the driver's own reader     *)
(* finds at the path afterwards, when the command succeeds, fails half way *)
(* or is killed.                                                           *)
(*                                                                         *)
(* The drivers differ in the ORDER in which they check, destroy and create *)
(* (the plans below, one entry per statement of open() and finish() that   *)
(* can fail or that changes the disk), in what they keep in memory until   *)
(* when, and in what Drop does on the way out.  A row is its position in   *)
(* the source; rows[i] says what is special about row i.                   *)
(***************************************************************************)
EXTENDS Naturals, Sequences, FiniteSets

CONSTANTS Jobs,     \* the commands, records of AllJobs
          Ends      \* Ends[b]: rows in the first b batches of the source

Sqlite    == {"gpkg", "spatialite"}
Texts     == {"geojson", "ndjson", "csv"}
Drivers   == Sqlite \cup Texts \cup {"shp", "fgb", "parquet"}
CrsKinds  == {"none", "epsg", "rareEpsg", "wkt", "esri"}
RowKinds  == {"plain", "null", "otherType", "lossy"}

AllJobs == [driver    : Drivers,
            overwrite : BOOLEAN,
            create    : {"if-not-exists", "always", "never"},
            index     : BOOLEAN,     \* SpatiaLite: an R*Tree is asked for
            loss      : {"error", "warn", "skip"},
            reproject : BOOLEAN,     \* --reproject
            insert    : {"auto", "bulk", "batch"},
            old       : BOOLEAN,     \* the path holds a layer of this name
            self      : BOOLEAN,     \* and it is the source of the command
            crs       : CrsKinds,    \* writer_crs
            fieldCrs  : CrsKinds,    \* the CRS in the geometry's metadata
            geom      : BOOLEAN,     \* the schema has a geometry column
            cols      : {"plain", "lossy", "foreign"},
            rows      : Seq(RowKinds)]

NBatches == Cardinality(DOMAIN Ends) - 1
NRows    == Ends[NBatches]

ASSUME FileConvertAssumption ==
    /\ NBatches \in Nat /\ Ends \in [0..NBatches -> Nat] /\ Ends[0] = 0
    /\ \A b \in 1..NBatches : Ends[b - 1] < Ends[b]
    /\ Jobs \subseteq AllJobs
    /\ \A j \in Jobs : Len(j.rows) = NRows

VARIABLES
    job,     \* the command line and what it meets
    phase,   \* "plan", "open", "write", "finish", "end"
    step,    \* the next entry of the plan of this phase
    row,     \* rows taken from the source
    box,     \* the rows in the in-memory bounding box (GpkgWriter.bbox)
    file,    \* what is at the path
    result   \* "none", "ok", "killed", or "failed" with failedIn
vars == <<job, phase, step, row, box, file, result>>

\* `has`: whose table it holds; `new`: the new rows in it, after the old ones
\* if it has those; `parts`: what was created around them; `whole`: headers,
\* footers and trailers are in place; `torn`: a destructor met an I/O error,
\* and buffered rows or headers never reached the disk.
Content(has, crs) == [has |-> has, new |-> 0, parts |-> {}, whole |-> FALSE,
                      torn |-> FALSE, crs |-> crs, box |-> {}, index |-> FALSE]
Absent == Content("none", "none")
Old    == [Content("old", "old") EXCEPT !.whole = TRUE]

Init == /\ job \in Jobs
        /\ phase = "plan" /\ step = 1
        /\ row = 0 /\ box = {}
        /\ file = IF job.old THEN Old ELSE Absent
        /\ result = "none"

----------------------------------------------------------------------------
(* The plans: what open() and finish() do, in the order of the code. *)

ConvertPlan == <<"openRead", "reproject", "insertMode">>

GpkgOpen == <<"exists", "remove", "createDb", "geometry", "crs", "table",
              "contents", "geomColumn">>
SpatialiteOpen == <<"options", "removeIfAsked", "createDb", "geometry", "crs",
                    "strategy", "geomColumn">>
ShpOpen == <<"exists", "geometry", "columns", "truncate", "prj", "cpg">>
FgbOpen == <<"exists", "geometry", "columns", "crs">>
\* Mutant: GeoJsonWriter::open creates the file before it looks at the columns.
GeoJsonOpenCreates == <<"crs", "exists", "truncate", "columns", "header">>

GeoJsonOpen == <<"crs", "exists", "columns", "truncate", "header">>

\* Mutant: CsvWriter::open truncates before it looks whether the file exists.
CsvOpenTruncates == <<"truncate", "exists", "columns", "header">>

CsvOpen == <<"exists", "truncate", "columns", "header">>

\* create_new and truncate are one system call each.
ParquetOpen == <<"exists", "truncate", "geometry", "header">>

OpenPlan == [gpkg |-> GpkgOpen, spatialite |-> SpatialiteOpen, shp |-> ShpOpen,
             fgb |-> FgbOpen, geojson |-> GeoJsonOpen, ndjson |-> GeoJsonOpen,
             csv |-> CsvOpen, parquet |-> ParquetOpen]

GpkgFinish == <<"bbox", "close">>
SpatialiteFinish == <<"index", "close">>
FgbFinish == <<"truncate", "close">>
\* The trailer of a FeatureCollection, the footer of Parquet, a flush; of a
\* shapefile nothing but the end of its Writer.
StreamFinish == <<"close">>

FinishPlan == [d \in Drivers |->
                 CASE d = "gpkg" -> GpkgFinish
                   [] d = "spatialite" -> SpatialiteFinish
                   [] d = "fgb" -> FgbFinish
                   [] OTHER -> StreamFinish]

Plan == CASE phase = "plan" -> ConvertPlan
          [] phase = "open" -> OpenPlan[job.driver]
          [] phase = "finish" -> FinishPlan[job.driver]

At(s) == phase \in {"plan", "open", "finish"} /\ Plan[step] = s

NextPhase == [plan |-> "open", open |-> "write", finish |-> "end"]

Advance == /\ IF step = Len(Plan)
              THEN phase' = NextPhase[phase] /\ step' = 1
              ELSE phase' = phase /\ step' = step + 1
           /\ result' = IF phase' = "end" THEN "ok" ELSE result

\* Of the rows in a buffer any prefix may have reached the disk.
Flushed(f) == {[f EXCEPT !.new = n] : n \in f.new..row}

\* What a writer may leave when it is dropped; an I/O error on the way is told
\* to nobody.  Without a FeatureCollection's trailer or a Parquet footer there
\* is no layer; the text formats can be read row by row, as far as the
\* BufWriter's Drop gets.  Drop of the shapefile crate's Writer flushes and
\* writes the headers: a shapefile with the rows so far is left behind, or
\* one that is torn.  The SQLite transaction is rolled back and an FGB or
\* Parquet file in the making is forgotten.
Dropped(f) ==
    CASE f.has = "new" /\ job.driver \in Texts -> Flushed(f)
      [] f.has = "new" /\ job.driver = "shp" ->
           {[f EXCEPT !.new = row, !.whole = TRUE]}
             \cup {[g EXCEPT !.torn = TRUE] : g \in Flushed(f)}
      [] OTHER -> {f}

FailedIn == [plan |-> "failed in plan", open |-> "failed in open",
             write |-> "failed in write", finish |-> "failed in finish"]

\* `?` on the way: the writer is dropped without finish(), exit status 1.
Fail == /\ phase' = "end" /\ result' = FailedIn[phase]
        /\ step' = step /\ file' \in Dropped(file)

\* A step that only checks.
Check(s, ok) == /\ At(s)
                /\ IF ok THEN Advance /\ UNCHANGED file ELSE Fail
                /\ UNCHANGED <<job, row, box>>

\* A step that changes the disk: it works, or its I/O fails.
Effect(s, content) == /\ At(s)
                      /\ (Advance /\ file' = content) \/ Fail
                      /\ UNCHANGED <<job, row, box>>

----------------------------------------------------------------------------
(* convert.rs, before the writer. *)

OpenRead == Effect("openRead", file)

\* --reproject needs the CRS of the source; job.crs is then the target's.
Reproject == Check("reproject", ~(job.reproject /\ job.crs = "none"))

\* No file driver has the capability bulk_load.
InsertMode == Check("insertMode", job.insert # "bulk")

----------------------------------------------------------------------------
(* open(): checks. *)

CheckOptions == Check("options", ~(job.overwrite /\ job.create = "never"))

Exists == Check("exists", job.overwrite \/ file.has = "none")

\* GeoJSON and CSV write a layer without geometry too.
Geometry == Check("geometry", job.geom)

\* Columns without a counterpart: structured ones for CSV and GeoJSON, the
\* last arm of map_arrow_to_dbf, UnsupportedType of FlatGeobuf.
ForeignColumnsPass == job.driver # "fgb"
                      /\ job.loss \in (IF job.driver = "shp" THEN {"warn", "skip"}
                                                             ELSE {"skip"})
Columns == Check("columns", CASE job.cols = "plain" -> TRUE
                              [] job.cols = "lossy" -> job.loss # "error"
                              [] job.cols = "foreign" -> ForeignColumnsPass)

\* The CRS that reaches the file.  gpkg keeps a WKT under a number of its own
\* (register_srs); SpatiaLite knows SRIDs only; a .prj holds WKT1, which the
\* bundled table lacks for a rare EPSG code; FlatGeobuf drops the WKT as soon
\* as there is any authority code; GeoJSON is reprojected to EPSG:4326;
\* Parquet's `geo` key is shadowed by the schema embedded in the file.
GpkgSrs       == IF job.crs = "none" THEN "undefined" ELSE job.crs    \* srs_id 0
GpkgCrs       == IF GpkgSrs = "undefined" THEN "none" ELSE GpkgSrs
Srid          == IF job.crs \in {"epsg", "rareEpsg"} THEN job.crs ELSE "0"
SpatialiteCrs == IF Srid = "0" THEN "none" ELSE Srid
WritesPrj     == job.crs \notin {"none", "rareEpsg"}
ShpCrs        == IF WritesPrj THEN job.crs ELSE file.crs
FgbCrsArgs    == [code |-> job.crs \in {"epsg", "rareEpsg", "esri"}, wkt |-> job.crs = "wkt"]
FgbCrs        == CASE FgbCrsArgs.wkt -> "wkt"
                   [] job.crs = "esri" -> "code only"
                   [] OTHER -> job.crs
ParquetCrs    == job.fieldCrs
CrsInFile == CASE job.driver = "gpkg" -> GpkgCrs
               [] job.driver = "spatialite" -> SpatialiteCrs
               [] job.driver = "shp" -> ShpCrs
               [] job.driver = "fgb" -> FgbCrs
               [] job.driver = "parquet" -> ParquetCrs
               [] job.driver = "csv" -> "none"
               [] OTHER -> "4326"

\* on_loss is asked when the CRS cannot be recorded; GeoJSON only needs PROJ
\* to know it.
CrsStep == Check("crs", job.driver \in Texts \/ CrsInFile # "none" \/ job.loss # "error")

\* .prj: an unknown CRS under `error` stops here, after the old files went.
Prj == /\ At("prj")
       /\ IF job.crs = "rareEpsg" /\ job.loss = "error"
          THEN Fail
          ELSE Advance /\ file' = [file EXCEPT !.crs = ShpCrs]
       /\ UNCHANGED <<job, row, box>>

----------------------------------------------------------------------------
(* open(): effects. *)

\* --overwrite of gpkg, which `exists` let through, takes the -wal and -shm
\* files along.
Remove == Effect("remove", Absent)

RemoveIfAsked == IF job.overwrite THEN Effect("removeIfAsked", Absent)
                                  ELSE Check("removeIfAsked", TRUE)

\* SQLite's open creates the file; every statement of init_meta_tables and
\* InitSpatialMetadata commits by itself.
CreateDb == Effect("createDb",
                [file EXCEPT !.parts = @ \cup {"meta"}])

\* File::create, and the five files of a shapefile but for the .prj.
Truncate == Effect("truncate",
                Content("new", IF job.driver = "shp" THEN file.crs ELSE CrsInFile))

Header == Effect("header", [file EXCEPT !.parts = @ \cup {"header"}])
Cpg    == Effect("cpg", [file EXCEPT !.parts = @ \cup {"cpg"}])

\* CREATE TABLE of gpkg; arrow_to_decl refuses a foreign column here.
Table == /\ At("table")
         /\ \/ Fail
            \/ /\ job.cols # "foreign" /\ Advance
               /\ file' = [file EXCEPT !.has = "new", !.crs = CrsInFile,
                                       !.parts = @ \cup {"table"}]
         /\ UNCHANGED <<job, row, box>>

Contents == Effect("contents", [file EXCEPT !.parts = @ \cup {"contents"}])

\* gpkg_geometry_columns, or AddGeometryColumn.
GeomColumn == Effect("geomColumn", [file EXCEPT !.parts = @ \cup {"geomColumn"}])

\* apply_create_table_strategy: a table that is there is kept and appended
\* to, its geometry column included, or is created, or is an error.
Strategy ==
    /\ At("strategy") /\ (file.has = "old" => job.create # "always")
    /\ \/ Fail
       \/ /\ file.has = "old"
          /\ phase' = "write" /\ step' = 1 /\ UNCHANGED <<file, result>>
       \/ /\ file.has = "none" /\ job.create # "never" /\ job.cols # "foreign"
          /\ Advance
          /\ file' = [file EXCEPT !.has = "new", !.crs = CrsInFile,
                                  !.parts = @ \cup {"table"}]
    /\ UNCHANGED <<job, row, box>>

\* drop_existing_geo_table; the CREATE TABLE that follows is another
\* transaction.
DropOld ==
    /\ At("strategy") /\ file.has = "old" /\ job.create = "always"
    /\ \/ Fail
       \/ file' = [file EXCEPT !.has = "none"] /\ UNCHANGED <<phase, step, result>>
    /\ UNCHANGED <<job, row, box>>

----------------------------------------------------------------------------
(* write_batch, row by row. *)

\* A row the driver refuses.  SpatiaLite's triggers compare the geometry with
\* the declared type; gpkg only looks at decimals, FlatGeobuf at UInt64,
\* GeoJSON at UInt64 and NaN, the shapefile at the text, under on_loss.
Refused(kind) ==
    \/ kind = "null" /\ job.driver \in {"shp", "fgb"}
    \/ kind = "otherType" /\ job.driver \in {"shp", "spatialite"}
    \/ kind = "lossy" /\ job.loss = "error" /\ job.driver \notin {"csv", "parquet"}

\* update_geom: the box grows as a row is inserted, and does not shrink when it
\* is rolled back.
Grown(i) == IF job.rows[i] = "null" THEN box ELSE box \cup {i}

\* Mutant: each row is committed by itself.
WriteRowCommits ==
    /\ phase = "write" /\ row < NRows
    /\ IF Refused(job.rows[row + 1])
       THEN Fail /\ UNCHANGED <<row, box>>
       ELSE /\ row' = row + 1
            /\ box' = Grown(row + 1)
            /\ file' = IF job.driver \in Sqlite THEN [file EXCEPT !.new = row + 1] ELSE file
            /\ UNCHANGED <<phase, step, result>>
    /\ UNCHANGED job

\* Mutant: the bounding box takes only the first row of a batch.
BoxFirstOnly ==
    /\ phase = "write" /\ row < NRows
    /\ IF Refused(job.rows[row + 1])
       THEN Fail /\ UNCHANGED <<row, box>>
       ELSE /\ row' = row + 1
            /\ box' = {row + 1}
            /\ file' = IF job.driver \in Sqlite /\ \E b \in 1..NBatches : Ends[b] = row + 1
                       THEN [file EXCEPT !.new = row + 1] ELSE file
            /\ UNCHANGED <<phase, step, result>>
    /\ UNCHANGED job

\* A row is encoded and handed to the writer; the last one of a batch commits
\* the transaction of gpkg and SpatiaLite, which may fail.
WriteRow ==
    /\ phase = "write" /\ row < NRows
    /\ IF Refused(job.rows[row + 1])
       THEN Fail /\ UNCHANGED <<row, box>>
       ELSE /\ row' = row + 1
            /\ box' = Grown(row + 1)
            /\ file' = IF job.driver \in Sqlite /\ \E b \in 1..NBatches : Ends[b] = row + 1
                       THEN [file EXCEPT !.new = row + 1] ELSE file
            /\ UNCHANGED <<phase, step, result>>
    /\ UNCHANGED job

\* The disk is full, the database busy, the source breaks: `?` again.
WriteFails == /\ phase = "write" /\ Fail
              /\ UNCHANGED <<job, row, box>>

\* The reader still reads the file that open() truncated (--overwrite onto
\* the source): it has the rest in its buffer, or it meets the end of file.
SourceTruncated == job.self /\ file.has = "new" /\ job.driver \in Texts \cup {"shp"}

\* The iterator returns None.
SourceEnds == /\ phase = "write"
              /\ row = NRows \/ (SourceTruncated /\ row \in {Ends[b] : b \in 0..NBatches})
              /\ phase' = "finish" /\ step' = 1
              /\ UNCHANGED <<job, row, box, file, result>>

----------------------------------------------------------------------------
(* finish() *)

Bbox == Effect("bbox", IF box = {} THEN file ELSE [file EXCEPT !.box = box])

\* The 0 that CreateSpatialIndex answers on failure is not looked at.
Index == /\ At("index")
         /\ \/ Advance /\ file' \in {[file EXCEPT !.index = i] : i \in {FALSE, job.index}}
            \/ job.index /\ Fail
         /\ UNCHANGED <<job, row, box>>

\* Mutant: the CSV header is counted as a row.
CloseCountsHeader == Effect("close", [file EXCEPT !.whole = TRUE,
                       !.new = IF job.driver = "csv" THEN row + 1 ELSE row])

\* ShpWriter::finish has nothing to close and answers Ok; the shapefile
\* crate's Writer is dropped as it returns, and does what it can.
ShpClose == /\ At("close")
            /\ Advance /\ file' \in Dropped(file)
            /\ UNCHANGED <<job, row, box>>

Close == IF job.driver = "shp"
         THEN ShpClose
         ELSE Effect("close", [file EXCEPT !.whole = TRUE, !.new = row])

\* The process is killed: no Drop runs, SQLite rolls back when it is opened
\* again.
Kill == /\ phase # "end"
        /\ phase' = "end" /\ result' = "killed"
        /\ file' \in IF file.has = "new" /\ job.driver \in Texts
                     THEN Flushed(file) ELSE {file}
        /\ UNCHANGED <<job, step, row, box>>

Terminated == phase = "end" /\ UNCHANGED vars

Next == \/ OpenRead \/ Reproject \/ InsertMode
        \/ CheckOptions \/ Exists \/ Geometry \/ Columns \/ CrsStep \/ Prj
        \/ Remove \/ RemoveIfAsked \/ CreateDb \/ Truncate \/ Header \/ Cpg
        \/ Table \/ Contents \/ GeomColumn \/ Strategy \/ DropOld
        \/ WriteRow \/ WriteFails \/ SourceEnds
        \/ Bbox \/ Index \/ Close \/ Kill \/ Terminated

Spec == Init /\ [][Next]_vars

----------------------------------------------------------------------------
(* What the readers of the same drivers make of the path. *)

\* GpkgReader::open: the metadata tables, the row of gpkg_contents and the
\* row of gpkg_geometry_columns.
GpkgOpens == {"meta", "table", "contents", "geomColumn"} \subseteq file.parts
SpatialiteOpens == {"meta", "table", "geomColumn"} \subseteq file.parts
\* NdjsonStream, CsvReader: a row at a time, after the header of a CSV file.
RowsOpen == file.whole \/ file.new > 0

Opens == \/ file.has = "old"
         \/ /\ file.has = "new"
            /\ CASE job.driver = "gpkg" -> GpkgOpens
                 [] job.driver = "spatialite" -> SpatialiteOpens
                 [] job.driver \in {"csv", "ndjson"} -> RowsOpen
                 [] OTHER -> file.whole

----------------------------------------------------------------------------
(* Properties. *)

Failures == {FailedIn[p] : p \in DOMAIN FailedIn}

\* The type invariant.
TypeOK ==
    /\ job \in AllJobs
    /\ phase \in {"plan", "open", "write", "finish", "end"}
    /\ step \in 1..8
    /\ row \in 0..NRows /\ box \subseteq 1..row
    /\ file \in [has : {"none", "old", "new"}, new : 0..row, whole : BOOLEAN,
                 torn : BOOLEAN,
                 parts : SUBSET {"meta", "table", "contents", "geomColumn", "header", "cpg"},
                 crs : CrsKinds \cup {"old", "4326", "code only"},
                 box : SUBSET (1..NRows), index : BOOLEAN]
    /\ result \in {"none", "ok", "killed"} \cup Failures

\* The shapefile crate's Writer met an I/O error when it was dropped.
TornShapefile == job.driver = "shp" /\ file.torn

\* Exit status 0 means that the layer can be opened and has every row of the
\* source, after the old ones where --create-table let it append, and for a
\* GeoPackage that its extent covers exactly the rows with a geometry.  Under
\* --on-loss error the layer has the CRS it was given, but for a shapefile
\* without one, which keeps the .prj that was there.  The exceptions: a
\* shapefile or a text file converted onto itself, and a shapefile whose last
\* bytes could not be written.
SuccessReadsBack ==
    result = "ok" /\ ~SourceTruncated /\ ~TornShapefile =>
        /\ Opens /\ file.new = NRows
        /\ file.has = "old" <=> job.old /\ ~job.overwrite /\ job.create # "always"
        /\ job.driver = "gpkg" =>
             file.box = {i \in 1..NRows : job.rows[i] # "null"}
        /\ job.driver \in Sqlite \cup {"shp"} /\ job.loss = "error" /\ file.has = "new" =>
             \/ file.crs = job.crs
             \/ job.driver = "shp" /\ job.crs = "none" /\ job.old

\* Whatever happens and whenever, a later reader of a GeoPackage or
\* SpatiaLite file is given whole batches of the source.
WholeBatches == job.driver \in Sqlite /\ Opens => \E b \in 0..NBatches : file.new = Ends[b]

\* Without --overwrite or --create-table=always no failure and no crash takes
\* away a layer that was there.
KeepsOld == job.old /\ ~job.overwrite /\ job.create # "always" => file.has = "old"

\* What the writer can tell at once it will not write.
Unwritable ==
    \/ job.cols = "lossy" /\ job.loss = "error"
    \/ job.cols = "foreign" /\ ~ForeignColumnsPass
    \/ ~job.geom /\ job.driver \in {"shp", "fgb"}
    \/ job.crs = "none" /\ job.driver = "fgb" /\ job.loss = "error"
    \/ job.driver = "fgb" /\ \E i \in 1..NRows : Refused(job.rows[i])

\* Even with --overwrite a layer survives a command that the GeoJSON,
\* shapefile (but for the .prj) or FlatGeobuf writer must refuse; FlatGeobuf,
\* which writes nothing before finish(), also spares it when it is a row that
\* is refused.  CSV, Parquet, GeoPackage and SpatiaLite do not promise this.
RefusalKeepsOld ==
    job.old /\ Unwritable /\ job.driver \in {"geojson", "ndjson", "shp", "fgb"}
        => file.has = "old"
============================================================================
