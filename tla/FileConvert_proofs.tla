------------------------- MODULE FileConvert_proofs -------------------------
(***************************************************************************)
(* What `shpx convert` onto a file promises for every command line, every  *)
(* source and every failure, proved with TLAPS.                            *)
(*                                                                         *)
(* A command goes through the plan of its driver.  The argument is about   *)
(* the ORDER of the entries: Opened is the set of those that open() has    *)
(* behind it; the plan lemmas say, once for all eight plans, what is       *)
(* behind an entry when it is its turn; and the invariant says, for each   *)
(* entry that is behind, what it has checked or what it left on the disk.  *)
(***************************************************************************)
EXTENDS FileConvert, TLAPS

\* How many entries of its plan open() has behind it, and which ones.
Entries == IF phase = "open" THEN step - 1
           ELSE IF phase \in {"write", "finish"} \/ result = "ok"
           THEN Len(OpenPlan[job.driver]) ELSE 0
First(d, n) == {OpenPlan[d][i] : i \in 1..n}
Opened == First(job.driver, Entries)

\* The command has not failed and was not killed.
Live == phase # "end" \/ result = "ok"

\* There is nothing to lose, or the user said it may go.
Clear == job.overwrite \/ ~job.old

\* A layer that is there is to be kept.
Kept == job.old /\ ~job.overwrite /\ job.create # "always"

Initial == IF job.old THEN Old ELSE Absent

\* The drivers that write one file from its beginning have begun.
Emptied == IF job.driver = "fgb" THEN (phase = "finish" /\ step = 2) \/ result = "ok"
                                 ELSE "truncate" \in Opened

\* The extent of a GeoPackage is written.
Boxed == (phase = "finish" /\ step = 2) \/ result = "ok"

----------------------------------------------------------------------------
(* The inductive invariant. *)

\* Where the command stands.
PhaseInv ==
    /\ job \in Jobs
    /\ phase \in {"plan", "open", "finish"} => step \in 1..Len(Plan)
    /\ phase = "end" <=> result # "none"
    /\ phase \in {"plan", "open"} => row = 0 /\ file.new = 0 /\ file.box = {}

\* What is known once the check s of open() is passed.
Promise(s) ==
    /\ s = "exists" => Clear
    /\ s = "geometry" => job.geom
    /\ s = "columns" /\ job.cols = "lossy" => job.loss # "error"
    /\ s = "columns" /\ job.cols = "foreign" => ForeignColumnsPass
    /\ s = "crs" =>
          /\ job.driver # "shp"
          /\ job.driver \in Texts \/ CrsInFile # "none" \/ job.loss # "error"
    /\ s = "prj" /\ job.crs = "rareEpsg" => job.loss # "error"

CheckInv == \A s \in Opened : Promise(s)

\* What became of the rows.
RowInv ==
    /\ box = {i \in 1..row : job.rows[i] # "null"}
    /\ job.driver = "fgb" => \A i \in 1..row : ~Refused(job.rows[i])
    /\ phase = "finish" \/ result = "ok" => row = NRows \/ SourceTruncated
    /\ Live /\ job.driver = "gpkg" => file.box = IF Boxed THEN box ELSE {}
    /\ result = "ok" => TornShapefile \/ (file.new = row /\ file.whole)

\* GeoJSON, NDJSON, CSV, Parquet, FlatGeobuf, the shapefile: the path is as it
\* was until it is truncated.
StreamInv == Live /\ job.driver \notin Sqlite =>
    /\ ~Emptied => file = Initial
    /\ Emptied => file.has = "new"
    /\ job.driver = "shp" => file.crs = IF "prj" \in Opened /\ WritesPrj
                                       THEN job.crs ELSE Initial.crs

\* GeoPackage: after the removal there is what the entries since then made.
GpkgInv == Live /\ job.driver = "gpkg" =>
    /\ "remove" \notin Opened => file.has = Initial.has
    /\ "remove" \in Opened => file.has = IF "table" \in Opened THEN "new" ELSE "none"
    /\ "createDb" \in Opened => "meta" \in file.parts
    /\ "table" \in Opened => "table" \in file.parts /\ file.crs = CrsInFile
    /\ "contents" \in Opened => "contents" \in file.parts
    /\ "geomColumn" \in Opened => "geomColumn" \in file.parts

\* SpatiaLite: the table is the old one, to be appended to, or a new one.
SpatialiteInv == Live /\ job.driver = "spatialite" =>
    /\ "removeIfAsked" \notin Opened => file.has = Initial.has
    /\ "removeIfAsked" \in Opened /\ "strategy" \notin Opened =>
         \/ file.has = "old" /\ job.old /\ ~job.overwrite
         \/ file.has = "none" /\ ~Kept
    /\ "createDb" \in Opened => "meta" \in file.parts
    /\ "strategy" \in Opened =>
         \/ file.has = "old" /\ Kept
         \/ /\ file.has = "new" /\ ~Kept
            /\ "table" \in file.parts /\ file.crs = CrsInFile
            /\ "geomColumn" \in Opened => "geomColumn" \in file.parts

\* What holds of the path even after a failure.
DiskInv ==
    /\ KeepsOld /\ RefusalKeepsOld
    /\ job.driver \in Sqlite => \E b \in 0..NBatches : file.new = Ends[b]

IInv == TypeOK /\ PhaseInv /\ CheckInv /\ RowInv
        /\ StreamInv /\ GpkgInv /\ SpatialiteInv /\ DiskInv


----------------------------------------------------------------------------
(* The plans.  Each lemma reads the eight tuples once. *)

\* The plans of open(), entry by entry.
LEMMA OpenPlans ==
    ASSUME NEW d \in Drivers
    PROVE  /\ Len(OpenPlan[d]) \in 4..8
           /\ d = "gpkg" => OpenPlan[d] = GpkgOpen
           /\ d = "spatialite" => OpenPlan[d] = SpatialiteOpen
           /\ d = "shp" => OpenPlan[d] = ShpOpen
           /\ d = "fgb" => OpenPlan[d] = FgbOpen
           /\ d \in {"geojson", "ndjson"} => OpenPlan[d] = GeoJsonOpen
           /\ d = "csv" => OpenPlan[d] = CsvOpen
           /\ d = "parquet" => OpenPlan[d] = ParquetOpen
  BY DEF OpenPlan, Drivers, Sqlite, Texts, GpkgOpen, SpatialiteOpen, ShpOpen, FgbOpen,
         GeoJsonOpen, CsvOpen, ParquetOpen

\* What is behind an entry of a plan when it is its turn.
LEMMA PlanOrder ==
    ASSUME NEW d \in Drivers, NEW k \in 1..Len(OpenPlan[d])
    PROVE  LET s == OpenPlan[d][k]
               B == First(d, k - 1)
           IN
             /\ s \notin B
             /\ s \in {"remove", "truncate", "table"} => "exists" \in B
             /\ s \in {"remove", "table", "contents"} => d = "gpkg"
             /\ s = "remove" => B \cap {"createDb", "table", "contents", "geomColumn"} = {}
             /\ s \in {"options", "removeIfAsked", "strategy"} => d = "spatialite"
             /\ s = "removeIfAsked" => B \cap {"createDb", "strategy", "geomColumn"} = {}
             /\ s \in {"createDb", "geomColumn"} => d \in Sqlite
             /\ s \in {"createDb", "table", "geomColumn"} /\ d = "gpkg" => "remove" \in B
             /\ s \in {"createDb", "strategy"} /\ d = "spatialite" => "removeIfAsked" \in B
             /\ s = "createDb" => B \cap {"table", "strategy"} = {}
             /\ s = "strategy" => "geomColumn" \notin B
             /\ s = "strategy" => {"options", "removeIfAsked", "createDb", "geometry", "crs"} \subseteq B
             /\ s \in {"truncate", "header", "prj", "cpg"} => d \notin Sqlite \cup {"fgb"}
             /\ s \in {"prj", "cpg"} => d = "shp"
             /\ s \in {"header", "prj", "cpg"} => "truncate" \in B
             /\ s = "truncate" /\ d \in {"shp", "geojson", "ndjson"} => "columns" \in B
             /\ s = "truncate" /\ d = "shp" => "geometry" \in B /\ "prj" \notin B
             /\ s = "crs" => d # "shp"
             /\ s = "exists" =>
                   d # "spatialite" /\ "remove" \notin B /\ "truncate" \notin B
             /\ s \notin {"openRead", "reproject", "insertMode", "bbox", "index", "close"}
<1> DEFINE P == OpenPlan[d]
           B == First(d, k - 1)
<1>1. /\ \A b \in B : \E i \in 1..(k - 1) : b = P[i]
      /\ \A i \in 1..(k - 1) : P[i] \in B
  BY DEF First
<1>2. d \in Sqlite <=> d \in {"gpkg", "spatialite"}
  BY DEF Sqlite
<1> HIDE DEF P, B
<1>3. CASE d = "gpkg"
  <2>0. P = GpkgOpen
    BY <1>3, OpenPlans DEF P
  <2>1. /\ Len(P) = 8
        /\ P[1] = "exists" /\ P[2] = "remove" /\ P[3] = "createDb" /\ P[4] = "geometry"
        /\ P[5] = "crs" /\ P[6] = "table" /\ P[7] = "contents" /\ P[8] = "geomColumn"
    BY <2>0 DEF GpkgOpen
  <2>2. k \in {1, 2, 3, 4, 5, 6, 7, 8}
    BY <2>1 DEF P
  <2> QED BY SMTT(20), <1>1, <1>2, <1>3, <2>1, <2>2 DEF P, B
<1>4. CASE d = "spatialite"
  <2>0. P = SpatialiteOpen
    BY <1>4, OpenPlans DEF P
  <2>1. /\ Len(P) = 7
        /\ P[1] = "options" /\ P[2] = "removeIfAsked" /\ P[3] = "createDb" /\ P[4] = "geometry"
        /\ P[5] = "crs" /\ P[6] = "strategy" /\ P[7] = "geomColumn"
    BY <2>0 DEF SpatialiteOpen
  <2>2. k \in {1, 2, 3, 4, 5, 6, 7}
    BY <2>1 DEF P
  <2> QED BY <1>1, <1>2, <1>4, <2>1, <2>2 DEF P, B
<1>5. CASE d = "shp"
  <2>0. P = ShpOpen
    BY <1>5, OpenPlans DEF P
  <2>1. /\ Len(P) = 6
        /\ P[1] = "exists" /\ P[2] = "geometry" /\ P[3] = "columns" /\ P[4] = "truncate"
        /\ P[5] = "prj" /\ P[6] = "cpg"
    BY <2>0 DEF ShpOpen
  <2>2. k \in {1, 2, 3, 4, 5, 6}
    BY <2>1 DEF P
  <2> QED BY <1>1, <1>2, <1>5, <2>1, <2>2 DEF P, B
<1>6. CASE d = "fgb"
  <2>0. P = FgbOpen
    BY <1>6, OpenPlans DEF P
  <2>1. /\ Len(P) = 4
        /\ P[1] = "exists" /\ P[2] = "geometry" /\ P[3] = "columns" /\ P[4] = "crs"
    BY <2>0 DEF FgbOpen
  <2>2. k \in {1, 2, 3, 4}
    BY <2>1 DEF P
  <2> QED BY <1>1, <1>2, <1>6, <2>1, <2>2 DEF P, B
<1>7. CASE d \in {"geojson", "ndjson"}
  <2>0. P = GeoJsonOpen
    BY <1>7, OpenPlans DEF P
  <2>1. /\ Len(P) = 5
        /\ P[1] = "crs" /\ P[2] = "exists" /\ P[3] = "columns" /\ P[4] = "truncate"
        /\ P[5] = "header"
    BY <2>0 DEF GeoJsonOpen
  <2>2. k \in {1, 2, 3, 4, 5}
    BY <2>1 DEF P
  <2> QED BY <1>1, <1>2, <1>7, <2>1, <2>2 DEF P, B
<1>8. CASE d = "csv"
  <2>0. P = CsvOpen
    BY <1>8, OpenPlans DEF P
  <2>1. /\ Len(P) = 4
        /\ P[1] = "exists" /\ P[2] = "truncate" /\ P[3] = "columns" /\ P[4] = "header"
    BY <2>0 DEF CsvOpen
  <2>2. k \in {1, 2, 3, 4}
    BY <2>1 DEF P
  <2> QED BY <1>1, <1>2, <1>8, <2>1, <2>2 DEF P, B
<1>9. CASE d = "parquet"
  <2>0. P = ParquetOpen
    BY <1>9, OpenPlans DEF P
  <2>1. /\ Len(P) = 4
        /\ P[1] = "exists" /\ P[2] = "truncate" /\ P[3] = "geometry" /\ P[4] = "header"
    BY <2>0 DEF ParquetOpen
  <2>2. k \in {1, 2, 3, 4}
    BY <2>1 DEF P
  <2> QED BY <1>1, <1>2, <1>9, <2>1, <2>2 DEF P, B
<1> QED BY <1>3, <1>4, <1>5, <1>6, <1>7, <1>8, <1>9 DEF Drivers, Sqlite, Texts

\* What open() has behind it at its end.
LEMMA PlanWhole ==
    ASSUME NEW d \in Drivers
    PROVE  LET B == First(d, Len(OpenPlan[d]))
           IN
           /\ d # "spatialite" => "exists" \in B
           /\ d \in {"shp", "fgb", "geojson", "ndjson"} => "columns" \in B
           /\ d \in {"shp", "fgb"} => "geometry" \in B
           /\ d \in Sqlite \cup {"fgb"} => "crs" \in B
           /\ d = "gpkg" => {"remove", "createDb", "table", "contents", "geomColumn"} \subseteq B
           /\ d = "spatialite" =>
                 {"removeIfAsked", "createDb", "strategy", "geomColumn"} \subseteq B
           /\ d = "spatialite" =>
                 B \subseteq {"options", "removeIfAsked", "createDb", "geometry", "crs",
                             "strategy", "geomColumn"}
           /\ d = "shp" => "prj" \in B
           /\ d \in Sqlite \cup {"fgb"} <=> "truncate" \notin B
<1> DEFINE P == OpenPlan[d]
           B == First(d, Len(OpenPlan[d]))
<1>1. B = {P[i] : i \in 1..Len(P)}
  BY DEF First
<1>2. d \in Sqlite <=> d \in {"gpkg", "spatialite"}
  BY DEF Sqlite
<1> HIDE DEF P, B
<1>3. CASE d = "gpkg"
  <2>1. P = GpkgOpen
    BY <1>3, OpenPlans DEF P
  <2>2. /\ Len(P) = 8
        /\ P[1] = "exists" /\ P[2] = "remove" /\ P[3] = "createDb" /\ P[4] = "geometry"
        /\ P[5] = "crs" /\ P[6] = "table" /\ P[7] = "contents" /\ P[8] = "geomColumn"
    BY <2>1 DEF GpkgOpen
  <2>3. 1..Len(P) = {1, 2, 3, 4, 5, 6, 7, 8}
    BY <2>2
  <2>4. /\ {"exists", "remove", "createDb", "crs", "table", "contents", "geomColumn"} \subseteq B
        /\ "truncate" \notin B
    BY <1>1, <2>2, <2>3
  <2> QED BY <1>2, <1>3, <2>4 DEF B
<1>4. CASE d = "spatialite"
  <2>1. P = SpatialiteOpen
    BY <1>4, OpenPlans DEF P
  <2>2. /\ Len(P) = 7
        /\ P[1] = "options" /\ P[2] = "removeIfAsked" /\ P[3] = "createDb" /\ P[4] = "geometry"
        /\ P[5] = "crs" /\ P[6] = "strategy" /\ P[7] = "geomColumn"
    BY <2>1 DEF SpatialiteOpen
  <2>3. 1..Len(P) = {1, 2, 3, 4, 5, 6, 7}
    BY <2>2
  <2>4. B = {"options", "removeIfAsked", "createDb", "geometry",
            "crs", "strategy", "geomColumn"}
    BY <1>1, <2>2, <2>3
  <2> QED BY <1>2, <1>4, <2>4 DEF B
<1>5. CASE d = "shp"
  <2>1. P = ShpOpen
    BY <1>5, OpenPlans DEF P
  <2>2. /\ Len(P) = 6
        /\ P[1] = "exists" /\ P[2] = "geometry" /\ P[3] = "columns" /\ P[4] = "truncate"
        /\ P[5] = "prj" /\ P[6] = "cpg"
    BY <2>1 DEF ShpOpen
  <2>3. 1..Len(P) = {1, 2, 3, 4, 5, 6}
    BY <2>2
  <2>4. B = {"exists", "geometry", "columns", "truncate", "prj", "cpg"}
    BY <1>1, <2>2, <2>3
  <2> QED BY <1>2, <1>5, <2>4 DEF B
<1>6. CASE d = "fgb"
  <2>1. P = FgbOpen
    BY <1>6, OpenPlans DEF P
  <2>2. /\ Len(P) = 4
        /\ P[1] = "exists" /\ P[2] = "geometry" /\ P[3] = "columns" /\ P[4] = "crs"
    BY <2>1 DEF FgbOpen
  <2>3. 1..Len(P) = {1, 2, 3, 4}
    BY <2>2
  <2>4. B = {"exists", "geometry", "columns", "crs"}
    BY <1>1, <2>2, <2>3
  <2> QED BY <1>2, <1>6, <2>4 DEF B
<1>7. CASE d \in {"geojson", "ndjson"}
  <2>1. P = GeoJsonOpen
    BY <1>7, OpenPlans DEF P
  <2>2. /\ Len(P) = 5
        /\ P[1] = "crs" /\ P[2] = "exists" /\ P[3] = "columns" /\ P[4] = "truncate"
        /\ P[5] = "header"
    BY <2>1 DEF GeoJsonOpen
  <2>3. 1..Len(P) = {1, 2, 3, 4, 5}
    BY <2>2
  <2>4. B = {"crs", "exists", "columns", "truncate", "header"}
    BY <1>1, <2>2, <2>3
  <2> QED BY <1>2, <1>7, <2>4 DEF B
<1>8. CASE d = "csv"
  <2>1. P = CsvOpen
    BY <1>8, OpenPlans DEF P
  <2>2. /\ Len(P) = 4
        /\ P[1] = "exists" /\ P[2] = "truncate" /\ P[3] = "columns" /\ P[4] = "header"
    BY <2>1 DEF CsvOpen
  <2>3. 1..Len(P) = {1, 2, 3, 4}
    BY <2>2
  <2>4. B = {"exists", "truncate", "columns", "header"}
    BY <1>1, <2>2, <2>3
  <2> QED BY <1>2, <1>8, <2>4 DEF B
<1>9. CASE d = "parquet"
  <2>1. P = ParquetOpen
    BY <1>9, OpenPlans DEF P
  <2>2. /\ Len(P) = 4
        /\ P[1] = "exists" /\ P[2] = "truncate" /\ P[3] = "geometry" /\ P[4] = "header"
    BY <2>1 DEF ParquetOpen
  <2>3. 1..Len(P) = {1, 2, 3, 4}
    BY <2>2
  <2>4. B = {"exists", "truncate", "geometry", "header"}
    BY <1>1, <2>2, <2>3
  <2> QED BY <1>2, <1>9, <2>4 DEF B
<1> QED BY <1>3, <1>4, <1>5, <1>6, <1>7, <1>8, <1>9 DEF Drivers, Sqlite, Texts

\* The plans of finish().
LEMMA FinishOrder ==
    ASSUME NEW d \in Drivers
    PROVE  /\ Len(FinishPlan[d]) \in 1..2
           /\ \A k \in 1..Len(FinishPlan[d]) :
                 LET s == FinishPlan[d][k]
                 IN  /\ s \in {"bbox", "index", "truncate", "close"}
                     /\ s # "close" => k = 1 /\ Len(FinishPlan[d]) = 2
                     /\ s = "close" => k = Len(FinishPlan[d])
                     /\ s = "bbox" => d = "gpkg"
                     /\ s = "index" => d = "spatialite"
                     /\ s = "truncate" => d = "fgb"
                     /\ s = "close" /\ d \in {"gpkg", "fgb"} => k = 2
<1> DEFINE F == FinishPlan[d]
<1>1. /\ d = "gpkg" => F = GpkgFinish
      /\ d = "spatialite" => F = SpatialiteFinish
      /\ d = "fgb" => F = FgbFinish
      /\ d \notin {"gpkg", "spatialite", "fgb"} => F = StreamFinish
  BY DEF FinishPlan
<1> HIDE DEF F
<1>2. \A k \in 1..2 : k = 1 \/ k = 2
  OBVIOUS
<1>3. CASE d = "gpkg"
  <2>1. Len(F) = 2 /\ F[1] = "bbox" /\ F[2] = "close"
    BY <1>1, <1>3 DEF GpkgFinish
  <2> QED BY <1>2, <1>3, <2>1 DEF F
<1>4. CASE d = "spatialite"
  <2>1. Len(F) = 2 /\ F[1] = "index" /\ F[2] = "close"
    BY <1>1, <1>4 DEF SpatialiteFinish
  <2> QED BY <1>2, <1>4, <2>1 DEF F
<1>5. CASE d = "fgb"
  <2>1. Len(F) = 2 /\ F[1] = "truncate" /\ F[2] = "close"
    BY <1>1, <1>5 DEF FgbFinish
  <2> QED BY <1>2, <1>5, <2>1 DEF F
<1>6. CASE d \notin {"gpkg", "spatialite", "fgb"}
  <2>1. Len(F) = 1 /\ F[1] = "close"
    BY <1>1, <1>6 DEF StreamFinish
  <2>2. \A k \in 1..1 : k = 1
    OBVIOUS
  <2> QED BY <1>6, <2>1, <2>2 DEF F
<1> QED BY <1>3, <1>4, <1>5, <1>6

----------------------------------------------------------------------------
(* Going on in a plan. *)

\* The job of the command.
LEMMA JobType ==
    ASSUME TypeOK
    PROVE  /\ job.driver \in Drivers /\ job.crs \in CrsKinds /\ job.fieldCrs \in CrsKinds
           /\ job.overwrite \in BOOLEAN /\ job.old \in BOOLEAN /\ job.index \in BOOLEAN
  BY DEF TypeOK, AllJobs

\* The entry whose turn it is.
LEMMA Here ==
    ASSUME TypeOK, PhaseInv, NEW s, At(s)
    PROVE  /\ phase \in {"plan", "open", "finish"} /\ result = "none" /\ Live
           /\ step \in 1..Len(Plan) /\ s = Plan[step] /\ Len(Plan) \in 1..8
           /\ phase = "plan" => s \in {"openRead", "reproject", "insertMode"}
           /\ phase = "open" =>
                 /\ s \notin {"openRead", "reproject", "insertMode", "bbox", "index", "close"}
                 /\ Plan = OpenPlan[job.driver]
                 /\ Opened = First(job.driver, step - 1)
           /\ phase = "finish" =>
                 s \in {"bbox", "index", "truncate", "close"} /\ Plan = FinishPlan[job.driver]
<1>1. phase \in {"plan", "open", "finish"} /\ result = "none" /\ Live
      /\ step \in 1..Len(Plan) /\ s = Plan[step] /\ job.driver \in Drivers
  BY JobType DEF At, PhaseInv, Live
<1>2. CASE phase = "plan"
  <2>1. Plan = ConvertPlan
    BY <1>2 DEF Plan
  <2>2. Len(ConvertPlan) = 3 /\ ConvertPlan[1] = "openRead"
        /\ ConvertPlan[2] = "reproject" /\ ConvertPlan[3] = "insertMode"
    BY DEF ConvertPlan
  <2> QED BY <1>1, <1>2, <2>1, <2>2
<1>3. CASE phase = "open"
  <2>1. Plan = OpenPlan[job.driver] /\ Entries = step - 1
    BY <1>3 DEF Plan, Entries
  <2>2. Len(Plan) \in 1..8
    BY <1>1, <2>1, OpenPlans
  <2>3. Opened = First(job.driver, step - 1)
    BY <2>1 DEF Opened
  <2>4. s \notin {"openRead", "reproject", "insertMode", "bbox", "index", "close"}
    <3>1. s = OpenPlan[job.driver][step] /\ step \in 1..Len(OpenPlan[job.driver])
      BY <1>1, <2>1
    <3> QED BY <1>1, <2>3, <3>1, PlanOrder
  <2> QED BY <1>1, <1>3, <2>1, <2>2, <2>3, <2>4
<1>4. CASE phase = "finish"
  <2>1. Plan = FinishPlan[job.driver]
    BY <1>4 DEF Plan
  <2> QED BY <1>1, <1>4, <2>1, FinishOrder
<1> QED BY <1>1, <1>2, <1>3, <1>4

\* Where Advance leads, and what open() has behind it then.
LEMMA AdvanceIs ==
    ASSUME TypeOK, PhaseInv, NEW s, At(s), Advance, UNCHANGED job
    PROVE  /\ step' \in 1..8 /\ result' \in {"none", "ok"} /\ Live'
           /\ phase' \in {"plan", "open", "finish"} => step' \in 1..Len(Plan')
           /\ phase' = "end" <=> result' # "none"
           /\ phase = "plan" => phase' \in {"plan", "open"} /\ Opened' = {}
           /\ phase = "open" => phase' \in {"open", "write"} /\ Opened' = Opened \cup {s}
           /\ phase = "finish" =>
                 /\ phase' \in {"finish", "end"} /\ Opened' = Opened
                 /\ phase' = "end" <=> step = Len(Plan)
                 /\ phase' = "finish" => step' = step + 1
<1>1. /\ phase \in {"plan", "open", "finish"} /\ result = "none" /\ s = Plan[step]
      /\ step \in 1..Len(Plan) /\ Len(Plan) \in 1..8 /\ job.driver \in Drivers
  BY Here, JobType
<1>2. CASE step = Len(Plan)
  <2>1. phase' = NextPhase[phase] /\ step' = 1
        /\ result' = IF phase' = "end" THEN "ok" ELSE "none"
    BY <1>1, <1>2 DEF Advance
  <2>2. CASE phase = "plan"
    <3>1. phase' = "open" /\ result' = "none"
      BY <2>1, <2>2 DEF NextPhase
    <3>2. Entries' = 0 /\ Plan' = OpenPlan[job.driver]
      BY <2>1, <3>1 DEF Entries, Plan
    <3>3. Len(Plan') \in 4..8
      BY <1>1, <3>2, OpenPlans
    <3>4. Opened' = {}
      BY <3>2 DEF Opened, First
    <3>5. step' \in 1..8 /\ step' \in 1..Len(Plan')
      <4>1. \A n \in 4..8 : 1 \in 1..n /\ 1 \in 1..8
        OBVIOUS
      <4> QED BY <2>1, <3>3, <4>1
    <3> QED BY <2>1, <2>2, <3>1, <3>4, <3>5 DEF Live
  <2>3. CASE phase = "open"
    <3>1. phase' = "write" /\ result' = "none"
      BY <2>1, <2>3 DEF NextPhase
    <3>2. Entries' = step /\ Entries = step - 1 /\ Plan = OpenPlan[job.driver]
      BY <1>2, <2>3, <3>1 DEF Entries, Plan
    <3>3. 1..step = (1..(step - 1)) \cup {step}
      BY <1>1
    <3>4. Opened' = Opened \cup {s}
      BY <1>1, <3>2, <3>3 DEF Opened, First
    <3> QED BY <2>1, <2>3, <3>1, <3>4 DEF Live
  <2>4. CASE phase = "finish"
    <3>1. phase' = "end" /\ result' = "ok"
      BY <2>1, <2>4 DEF NextPhase
    <3>2. Opened' = Opened
      BY <2>4, <3>1 DEF Opened, First, Entries
    <3> QED BY <1>2, <2>1, <2>4, <3>1, <3>2 DEF Live
  <2> QED BY <1>1, <2>2, <2>3, <2>4
<1>3. CASE step # Len(Plan)
  <2>1. phase' = phase /\ step' = step + 1 /\ result' = "none" /\ Plan' = Plan
    BY <1>1, <1>3 DEF Advance, Plan
  <2>2. step' \in 1..8 /\ step' \in 1..Len(Plan')
    <3> DEFINE n == Len(Plan)
    <3>0. n \in 1..8 /\ step \in 1..n /\ step # n
      BY <1>1, <1>3
    <3> HIDE DEF n
    <3>1. step + 1 \in 1..8 /\ step + 1 \in 1..n
      BY <3>0
    <3> QED BY <2>1, <3>1 DEF n
  <2>3. phase = "plan" => Opened' = {}
    BY <2>1 DEF Opened, First, Entries
  <2>4. phase = "finish" => Opened' = Opened
    BY <2>1 DEF Opened, First, Entries
  <2>5. ASSUME phase = "open" PROVE Opened' = Opened \cup {s}
    <3>1. Entries' = step /\ Entries = step - 1 /\ Plan = OpenPlan[job.driver]
      BY <1>1, <2>1, <2>5 DEF Entries, Plan
    <3>2. 1..step = (1..(step - 1)) \cup {step}
      BY <1>1
    <3> QED BY <1>1, <3>1, <3>2 DEF Opened, First
  <2> QED BY <1>1, <1>3, <2>1, <2>2, <2>3, <2>4, <2>5 DEF Live
<1> QED BY <1>2, <1>3

----------------------------------------------------------------------------
(* Steps that end the command. *)

FileOf(n) == [has : {"none", "old", "new"}, new : 0..n, whole : BOOLEAN,
              torn : BOOLEAN,
              parts : SUBSET {"meta", "table", "contents", "geomColumn", "header", "cpg"},
              crs : CrsKinds \cup {"old", "4326", "code only"},
              box : SUBSET (1..NRows), index : BOOLEAN]

\* The rows of the source, and where its batches end.
LEMMA Sizes == NBatches \in Nat /\ NRows \in Nat /\ NRows = Ends[NBatches] /\ Ends[0] = 0
               /\ 0 \in 0..NBatches /\ NBatches \in 0..NBatches
<1>1. NBatches \in Nat /\ Ends \in [0..NBatches -> Nat] /\ Ends[0] = 0
  BY FileConvertAssumption
<1>2. 0 \in 0..NBatches /\ NBatches \in 0..NBatches
  BY <1>1
<1> QED BY <1>1, <1>2 DEF NRows

\* The type of the path and of the row count.
LEMMA FileType ==
    ASSUME TypeOK
    PROVE  file \in FileOf(row) /\ row \in Nat /\ row <= NRows /\ file.new \in 0..row
<1>1. file \in FileOf(row) /\ row \in 0..NRows
  BY DEF TypeOK, FileOf
<1>2. file.new \in 0..row
  BY <1>1 DEF FileOf
<1> QED BY <1>1, <1>2, Sizes

\* How a command fails.
LEMMA FailuresAre ==
    /\ Failures = {"failed in plan", "failed in open", "failed in write", "failed in finish"}
    /\ \A p \in {"plan", "open", "write", "finish"} : FailedIn[p] \in Failures
<1>1. DOMAIN FailedIn = {"plan", "open", "write", "finish"}
  BY DEF FailedIn
<1>2. /\ FailedIn["plan"] = "failed in plan" /\ FailedIn["open"] = "failed in open"
      /\ FailedIn["write"] = "failed in write" /\ FailedIn["finish"] = "failed in finish"
  BY DEF FailedIn
<1> QED BY <1>1, <1>2 DEF Failures

\* A command that is over keeps what it has left on the disk.
LEMMA EndKeeps ==
    ASSUME IInv, phase' = "end", result' \in {"killed"} \cup Failures,
           UNCHANGED <<job, step, row, box>>,
           file' \in FileOf(row), file'.has = file.has,
           job.driver \in Sqlite => file' = file
    PROVE  IInv'
<1>1. result' # "ok" /\ result' # "none" /\ ~Live'
  BY FailuresAre DEF Live
<1>2. Opened' = {}
  BY <1>1 DEF Opened, First, Entries
<1>3. TypeOK'
  BY DEF IInv, TypeOK, FileOf
<1>4. PhaseInv' /\ CheckInv'
  BY <1>1, <1>2 DEF IInv, PhaseInv, CheckInv
<1>5. RowInv'
  <2>1. \A i : Refused(job.rows[i])' <=> Refused(job.rows[i])
    BY DEF Refused
  <2> QED BY <1>1, <2>1 DEF IInv, RowInv
<1>6. StreamInv' /\ GpkgInv' /\ SpatialiteInv'
  BY <1>1 DEF StreamInv, GpkgInv, SpatialiteInv
<1>7. DiskInv'
  <2>1. KeepsOld'
    BY DEF IInv, DiskInv, KeepsOld
  <2>2. RefusalKeepsOld'
    BY DEF IInv, DiskInv, RefusalKeepsOld, Unwritable, Refused, ForeignColumnsPass
  <2> QED BY <2>1, <2>2 DEF IInv, DiskInv
<1> QED BY <1>3, <1>4, <1>5, <1>6, <1>7 DEF IInv

\* What a buffer leaves of the path.
LEMMA FlushedIs ==
    ASSUME TypeOK, NEW g \in Flushed(file)
    PROVE  /\ g \in FileOf(row) /\ g.has = file.has /\ g.box = file.box /\ g.parts = file.parts
           /\ g.crs = file.crs
<1>1. file \in FileOf(row) /\ row \in Nat /\ file.new \in 0..row
  BY FileType
<1>2. PICK n \in file.new..row : g = [file EXCEPT !.new = n]
  BY DEF Flushed
<1>3. n \in 0..row
  BY <1>1, <1>2
<1> QED BY <1>1, <1>2, <1>3 DEF FileOf

\* What a writer leaves when it is dropped.
LEMMA DroppedIs ==
    ASSUME TypeOK, NEW g \in Dropped(file)
    PROVE  /\ g \in FileOf(row) /\ g.has = file.has /\ g.box = file.box /\ g.parts = file.parts
           /\ g.crs = file.crs
           /\ job.driver \in Sqlite => g = file
           /\ job.driver = "shp" /\ file.has = "new" => g.torn \/ (g.new = row /\ g.whole)
<1>1. file \in FileOf(row) /\ row \in 0..row
  BY FileType
<1>2. CASE file.has = "new" /\ job.driver \in Texts
  <2>1. g \in Flushed(file)
    BY <1>2 DEF Dropped, Texts
  <2> QED BY <1>2, <2>1, FlushedIs DEF Sqlite, Texts
<1>3. CASE file.has = "new" /\ job.driver = "shp"
  <2>1. \/ g = [file EXCEPT !.new = row, !.whole = TRUE]
        \/ \E h \in Flushed(file) : g = [h EXCEPT !.torn = TRUE]
    BY <1>3 DEF Dropped, Texts
  <2>2. CASE g = [file EXCEPT !.new = row, !.whole = TRUE]
    BY <1>1, <1>3, <2>2 DEF FileOf, Sqlite
  <2>3. CASE \E h \in Flushed(file) : g = [h EXCEPT !.torn = TRUE]
    <3>1. PICK h \in Flushed(file) : g = [h EXCEPT !.torn = TRUE]
      BY <2>3
    <3>2. h \in FileOf(row) /\ h.has = file.has /\ h.box = file.box /\ h.parts = file.parts
          /\ h.crs = file.crs
      BY FlushedIs
    <3> QED BY <1>3, <3>1, <3>2 DEF FileOf, Sqlite
  <2> QED BY <2>1, <2>2, <2>3
<1>4. CASE ~(file.has = "new" /\ job.driver \in Texts \cup {"shp"})
  <2>1. g = file
    BY <1>4 DEF Dropped
  <2> QED BY <1>1, <1>4, <2>1
<1> QED BY <1>2, <1>3, <1>4

\* An error.
LEMMA FailKeeps ==
    ASSUME IInv, phase # "end", Fail, UNCHANGED <<job, row, box>>
    PROVE  IInv'
<1>1. phase' = "end" /\ step' = step /\ result' \in Failures /\ file' \in Dropped(file)
  BY FailuresAre DEF IInv, TypeOK, Fail
<1>2. /\ file' \in FileOf(row) /\ file'.has = file.has
      /\ job.driver \in Sqlite => file' = file
  BY <1>1, DroppedIs DEF IInv
<1> QED BY <1>1, <1>2, EndKeeps

\* The process is killed.
LEMMA KillKeeps ==
    ASSUME IInv, Kill
    PROVE  IInv'
<1>1. file \in FileOf(row)
  BY FileType DEF IInv
<1>2. file' \in FileOf(row) /\ file'.has = file.has
  BY <1>1, FlushedIs DEF Kill, IInv
<1>3. job.driver \in Sqlite => file' = file
  BY DEF Kill, Sqlite, Texts
<1> QED BY <1>2, <1>3, EndKeeps DEF Kill

----------------------------------------------------------------------------
(* Steps of the plans before the first row. *)

\* The CRS that reaches the file depends on the command alone, but for the
\* shapefile.
LEMMA CrsKept ==
    ASSUME UNCHANGED job, job.driver # "shp"
    PROVE  CrsInFile' = CrsInFile
  BY DEF CrsInFile, GpkgCrs, GpkgSrs, SpatialiteCrs, Srid, FgbCrs, FgbCrsArgs, ParquetCrs

\* It is one of the kinds there are.
LEMMA CrsType ==
    ASSUME TypeOK
    PROVE  /\ ShpCrs \in CrsKinds \cup {"old", "4326", "code only"}
           /\ CrsInFile \in CrsKinds \cup {"old", "4326", "code only"}
<1>1. job.crs \in CrsKinds /\ job.fieldCrs \in CrsKinds
  BY JobType
<1>2. file.crs \in CrsKinds \cup {"old", "4326", "code only"}
  BY FileType DEF FileOf
<1>3. ShpCrs \in CrsKinds \cup {"old", "4326", "code only"}
  BY <1>1, <1>2 DEF ShpCrs
<1>4. CrsInFile \in CrsKinds \cup {"old", "4326", "code only"}
  BY ZenonT(60), <1>1, <1>3 DEF CrsInFile, GpkgCrs, GpkgSrs, SpatialiteCrs, Srid, FgbCrs, FgbCrsArgs,
     ParquetCrs, CrsKinds
<1> QED BY <1>3, <1>4

\* What the checks have said is still true.
LEMMA PromiseKept ==
    ASSUME UNCHANGED job, NEW s, Promise(s)
    PROVE  Promise(s)'
<1>1. s = "crs" => CrsInFile' = CrsInFile
  BY CrsKept DEF Promise
<1> QED BY <1>1 DEF Promise, Clear, ForeignColumnsPass

\* An entry before open() is passed.
LEMMA PlanKeeps ==
    ASSUME IInv, NEW s, At(s), phase = "plan", Advance, UNCHANGED <<job, row, box, file>>
    PROVE  IInv'
<1>1. /\ step' \in 1..8 /\ result' \in {"none", "ok"} /\ Live /\ Live'
      /\ phase' \in {"plan", "open"} => step' \in 1..Len(Plan')
      /\ phase' = "end" <=> result' # "none"
      /\ phase' \in {"plan", "open"} /\ Opened' = {} /\ result = "none"
  BY AdvanceIs, Here DEF IInv
<1>2. result' = "none" /\ ~Boxed' /\ ~Boxed /\ ~Emptied' /\ ~Emptied /\ Opened = {}
  <2>1. Opened = {}
    BY <1>1 DEF Opened, First, Entries
  <2> QED BY <1>1, <2>1 DEF Boxed, Emptied
<1>3. TypeOK'
  BY <1>1 DEF IInv, TypeOK
<1>4. PhaseInv' /\ CheckInv'
  BY <1>1 DEF IInv, PhaseInv, CheckInv
<1>5. RowInv'
  <2>1. \A i : Refused(job.rows[i])' <=> Refused(job.rows[i])
    BY DEF Refused
  <2> QED BY <1>1, <1>2, <2>1 DEF IInv, RowInv
<1>6. Initial' = Initial
  BY DEF Initial
<1>7. StreamInv' /\ GpkgInv' /\ SpatialiteInv'
  BY <1>1, <1>2, <1>6 DEF IInv, StreamInv, GpkgInv, SpatialiteInv
<1>8. DiskInv'
  BY DEF IInv, DiskInv, KeepsOld, RefusalKeepsOld, Unwritable, Refused, ForeignColumnsPass
<1> QED BY <1>3, <1>4, <1>5, <1>7, <1>8 DEF IInv

\* What an entry of open() leaves alone whatever it does to the path.
LEMMA OpenKeeps ==
    ASSUME IInv, NEW s, At(s), phase = "open", Advance, UNCHANGED <<job, row, box>>,
           file' \in FileOf(row), file'.new = 0, file'.box = {}, Promise(s)
    PROVE  /\ TypeOK' /\ PhaseInv' /\ CheckInv' /\ RowInv'
           /\ Opened' = Opened \cup {s} /\ Live /\ Live' /\ Initial' = Initial
           /\ job.driver = "fgb" => ~Emptied /\ ~Emptied'
           /\ job.driver # "fgb" => (Emptied <=> "truncate" \in Opened)
           /\ job.driver # "fgb" => (Emptied' <=> "truncate" \in Opened \cup {s})
           /\ job.driver # "shp" => CrsInFile' = CrsInFile
           /\ job.driver \in Sqlite => \E b \in 0..NBatches : file'.new = Ends[b]
<1>1. /\ step' \in 1..8 /\ result' \in {"none", "ok"} /\ Live /\ Live'
      /\ phase' \in {"plan", "open", "finish"} => step' \in 1..Len(Plan')
      /\ phase' = "end" <=> result' # "none"
      /\ phase' \in {"open", "write"} /\ Opened' = Opened \cup {s} /\ result = "none"
  BY AdvanceIs, Here DEF IInv
<1>2. result' = "none" /\ ~Boxed' /\ ~Boxed
  BY <1>1 DEF Boxed
<1>3. TypeOK'
  BY <1>1 DEF IInv, TypeOK, FileOf
<1>4. PhaseInv'
  BY <1>1 DEF IInv, PhaseInv
<1>5. CheckInv'
  BY <1>1, PromiseKept DEF IInv, CheckInv
<1>6. RowInv'
  <2>1. \A i : Refused(job.rows[i])' <=> Refused(job.rows[i])
    BY DEF Refused
  <2> QED BY <1>1, <1>2, <2>1 DEF IInv, RowInv
<1>7. Initial' = Initial
  BY DEF Initial
<1>8. /\ job.driver = "fgb" => ~Emptied /\ ~Emptied'
      /\ job.driver # "fgb" => (Emptied <=> "truncate" \in Opened)
      /\ job.driver # "fgb" => (Emptied' <=> "truncate" \in Opened \cup {s})
  BY <1>1, <1>2 DEF Emptied
<1>9. \E b \in 0..NBatches : file'.new = Ends[b]
  BY Sizes
<1> QED BY <1>1, <1>3, <1>4, <1>5, <1>6, <1>7, <1>8, <1>9, CrsKept

\* The path is type-correct before it is touched.
LEMMA OpenFile ==
    ASSUME IInv, phase = "open"
    PROVE  file \in FileOf(row) /\ file.new = 0 /\ file.box = {}
  BY FileType DEF IInv, PhaseInv

\* The layer that is there stays there if the path still holds it.
LEMMA HasKept ==
    ASSUME IInv, UNCHANGED job, file'.has = file.has
    PROVE  KeepsOld' /\ RefusalKeepsOld'
  BY DEF IInv, DiskInv, KeepsOld, RefusalKeepsOld, Unwritable, Refused, ForeignColumnsPass

\* A check of open() is passed.
LEMMA CheckKeeps ==
    ASSUME IInv, NEW s, s \in {"options", "exists", "geometry", "columns", "crs"},
           At(s), phase = "open", Advance, UNCHANGED <<job, row, box, file>>, Promise(s)
    PROVE  IInv'
<1>1. /\ TypeOK' /\ PhaseInv' /\ CheckInv' /\ RowInv'
      /\ Opened' = Opened \cup {s} /\ Live /\ Live' /\ Initial' = Initial
      /\ job.driver = "fgb" => ~Emptied /\ ~Emptied'
      /\ job.driver # "fgb" => (Emptied' <=> Emptied)
      /\ job.driver # "shp" => CrsInFile' = CrsInFile
      /\ job.driver \in Sqlite => \E b \in 0..NBatches : file'.new = Ends[b]
  BY OpenFile, OpenKeeps
<1>2. StreamInv' /\ GpkgInv'
  BY <1>1 DEF IInv, StreamInv, GpkgInv, WritesPrj, Sqlite
<1>3. SpatialiteInv'
  BY <1>1 DEF IInv, SpatialiteInv, Kept
<1>4. DiskInv'
  BY <1>1, HasKept DEF DiskInv
<1> QED BY <1>1, <1>2, <1>3, <1>4 DEF IInv

----------------------------------------------------------------------------
(* The effects of open(). *)

\* Whose turn it is in open(), and what is behind.
LEMMA Turn ==
    ASSUME IInv, NEW s, At(s), phase = "open"
    PROVE  /\ job.driver \in Drivers /\ step \in 1..Len(OpenPlan[job.driver])
           /\ s = OpenPlan[job.driver][step] /\ Opened = First(job.driver, step - 1)
  BY Here, JobType DEF IInv

\* Who may be without a layer after a check of what is there.
LEMMA MayGo ==
    ASSUME IInv, UNCHANGED job, "exists" \in Opened
    PROVE  KeepsOld'
  BY DEF IInv, CheckInv, Promise, Clear, KeepsOld

\* File::create of a driver that begins its file in open().
LEMMA TruncateKeeps ==
    ASSUME IInv, At("truncate"), phase = "open", Advance, UNCHANGED <<job, row, box>>,
           file' = Content("new", IF job.driver = "shp" THEN file.crs ELSE CrsInFile)
    PROVE  IInv'
<1>1. /\ job.driver \notin Sqlite \cup {"fgb"} /\ "exists" \in Opened
      /\ job.driver \in {"shp", "geojson", "ndjson"} => "columns" \in Opened
      /\ job.driver = "shp" => "geometry" \in Opened /\ "prj" \notin Opened
      /\ "truncate" \notin Opened
  BY Turn, PlanOrder
<1>2. file' \in FileOf(row) /\ file'.new = 0 /\ file'.box = {} /\ file'.has = "new"
      /\ file'.crs = IF job.driver = "shp" THEN file.crs ELSE CrsInFile
  <2>1. row \in Nat /\ 0 \in 0..row
    BY FileType DEF IInv
  <2>2. file.crs \in CrsKinds \cup {"old", "4326", "code only"}
        /\ CrsInFile \in CrsKinds \cup {"old", "4326", "code only"}
    BY CrsType, OpenFile DEF IInv, FileOf
  <2> QED BY <2>1, <2>2 DEF Content, FileOf
<1>3. /\ TypeOK' /\ PhaseInv' /\ CheckInv' /\ RowInv'
      /\ Opened' = Opened \cup {"truncate"} /\ Live /\ Live' /\ Initial' = Initial
      /\ job.driver = "fgb" => ~Emptied /\ ~Emptied'
      /\ job.driver # "fgb" => (Emptied <=> "truncate" \in Opened)
      /\ job.driver # "fgb" => (Emptied' <=> "truncate" \in Opened \cup {"truncate"})
      /\ job.driver # "shp" => CrsInFile' = CrsInFile
      /\ job.driver \in Sqlite => \E b \in 0..NBatches : file'.new = Ends[b]
  BY <1>2, OpenKeeps DEF Promise
<1>4. StreamInv'
  BY <1>1, <1>2, <1>3 DEF IInv, StreamInv
<1>5. GpkgInv' /\ SpatialiteInv'
  BY <1>1 DEF GpkgInv, SpatialiteInv, Sqlite
<1>6. RefusalKeepsOld'
  <2> SUFFICES ASSUME job.driver \in {"geojson", "ndjson", "shp"} PROVE ~Unwritable'
    BY <1>1 DEF RefusalKeepsOld
  <2>1. Promise("columns") /\ (job.driver = "shp" => job.geom)
    BY <1>1 DEF IInv, CheckInv, Promise
  <2> QED BY <2>1 DEF Promise, Unwritable, ForeignColumnsPass
<1>7. DiskInv'
  BY <1>1, <1>3, <1>6, MayGo DEF DiskInv
<1> QED BY <1>3, <1>4, <1>5, <1>7 DEF IInv

\* The .prj of a shapefile.
LEMMA PrjKeeps ==
    ASSUME IInv, At("prj"), phase = "open", Advance, UNCHANGED <<job, row, box>>,
           ~(job.crs = "rareEpsg" /\ job.loss = "error"),
           file' = [file EXCEPT !.crs = ShpCrs]
    PROVE  IInv'
<1>1. job.driver = "shp" /\ "truncate" \in Opened /\ "prj" \notin Opened
  BY Turn, PlanOrder
<1>2. file' \in FileOf(row) /\ file'.new = 0 /\ file'.box = {} /\ file'.has = file.has
      /\ file'.crs = ShpCrs
  BY CrsType, OpenFile DEF IInv, FileOf
<1>3. /\ TypeOK' /\ PhaseInv' /\ CheckInv' /\ RowInv'
      /\ Opened' = Opened \cup {"prj"} /\ Live /\ Live' /\ Initial' = Initial
      /\ job.driver = "fgb" => ~Emptied /\ ~Emptied'
      /\ job.driver # "fgb" => (Emptied <=> "truncate" \in Opened)
      /\ job.driver # "fgb" => (Emptied' <=> "truncate" \in Opened \cup {"prj"})
      /\ job.driver # "shp" => CrsInFile' = CrsInFile
      /\ job.driver \in Sqlite => \E b \in 0..NBatches : file'.new = Ends[b]
  BY <1>2, OpenKeeps DEF Promise
<1>4. StreamInv'
  BY <1>1, <1>2, <1>3 DEF IInv, StreamInv, ShpCrs, WritesPrj
<1>5. GpkgInv' /\ SpatialiteInv'
  BY <1>1 DEF GpkgInv, SpatialiteInv
<1>6. DiskInv'
  BY <1>2, <1>3, HasKept DEF DiskInv
<1> QED BY <1>3, <1>4, <1>5, <1>6 DEF IInv

\* The header of a text or Parquet file, the .cpg, the metadata tables, the
\* row of gpkg_contents, the geometry column: something is added to the path.
LEMMA PartKeeps ==
    ASSUME IInv, NEW s, s \in {"header", "cpg", "createDb", "contents", "geomColumn"},
           NEW e, e = (IF s = "createDb" THEN "meta" ELSE s),
           At(s), phase = "open", Advance, UNCHANGED <<job, row, box>>,
           file' = [file EXCEPT !.parts = @ \cup {e}]
    PROVE  IInv'
<1>1. /\ s \in {"header", "cpg"} =>
            job.driver \notin Sqlite \cup {"fgb"} /\ "truncate" \in Opened
      /\ s \in {"createDb", "contents", "geomColumn"} => job.driver \in Sqlite
  BY Turn, PlanOrder DEF Sqlite
<1>2. file' \in FileOf(row) /\ file'.new = 0 /\ file'.box = {} /\ file'.has = file.has
      /\ file'.crs = file.crs /\ file'.parts = file.parts \cup {e}
  BY OpenFile DEF FileOf
<1>3. /\ TypeOK' /\ PhaseInv' /\ CheckInv' /\ RowInv'
      /\ Opened' = Opened \cup {s} /\ Live /\ Live' /\ Initial' = Initial
      /\ job.driver = "fgb" => ~Emptied /\ ~Emptied'
      /\ job.driver # "fgb" => (Emptied <=> "truncate" \in Opened)
      /\ job.driver # "fgb" => (Emptied' <=> "truncate" \in Opened \cup {s})
      /\ job.driver # "shp" => CrsInFile' = CrsInFile
      /\ job.driver \in Sqlite => \E b \in 0..NBatches : file'.new = Ends[b]
  BY <1>2, OpenKeeps DEF Promise
<1>4. StreamInv'
  BY <1>1, <1>2, <1>3 DEF IInv, StreamInv, WritesPrj
<1>5. GpkgInv'
  BY <1>2, <1>3 DEF IInv, GpkgInv
<1>6. SpatialiteInv'
  BY <1>2, <1>3 DEF IInv, SpatialiteInv, Kept
<1>7. DiskInv'
  BY <1>2, <1>3, HasKept DEF DiskInv
<1> QED BY <1>3, <1>4, <1>5, <1>6, <1>7 DEF IInv

\* --overwrite of a GeoPackage.
LEMMA RemoveKeeps ==
    ASSUME IInv, At("remove"), phase = "open", Advance, UNCHANGED <<job, row, box>>,
           file' = Absent
    PROVE  IInv'
<1>1. /\ job.driver = "gpkg" /\ "exists" \in Opened
      /\ Opened \cap {"createDb", "table", "contents", "geomColumn"} = {}
  BY Turn, PlanOrder
<1>2. file' \in FileOf(row) /\ file'.new = 0 /\ file'.box = {} /\ file'.has = "none"
  <2>1. 0 \in 0..row
    BY FileType DEF IInv
  <2> QED BY <2>1 DEF Absent, Content, FileOf, CrsKinds
<1>3. /\ TypeOK' /\ PhaseInv' /\ CheckInv' /\ RowInv'
      /\ Opened' = Opened \cup {"remove"} /\ Live /\ Live' /\ Initial' = Initial
      /\ job.driver = "fgb" => ~Emptied /\ ~Emptied'
      /\ job.driver # "fgb" => (Emptied <=> "truncate" \in Opened)
      /\ job.driver # "fgb" => (Emptied' <=> "truncate" \in Opened \cup {"remove"})
      /\ job.driver # "shp" => CrsInFile' = CrsInFile
      /\ job.driver \in Sqlite => \E b \in 0..NBatches : file'.new = Ends[b]
  BY <1>2, OpenKeeps DEF Promise
<1>4. StreamInv' /\ SpatialiteInv'
  BY <1>1 DEF StreamInv, SpatialiteInv, Sqlite
<1>5. GpkgInv'
  BY <1>1, <1>2, <1>3 DEF GpkgInv
<1>6. DiskInv'
  BY <1>1, <1>3, MayGo DEF DiskInv, RefusalKeepsOld
<1> QED BY <1>3, <1>4, <1>5, <1>6 DEF IInv

\* --overwrite of a SpatiaLite file, or not.
LEMMA RemoveIfAskedKeeps ==
    ASSUME IInv, At("removeIfAsked"), phase = "open", Advance, UNCHANGED <<job, row, box>>,
           file' = IF job.overwrite THEN Absent ELSE file
    PROVE  IInv'
<1>1. /\ job.driver = "spatialite"
      /\ Opened \cap {"createDb", "strategy", "geomColumn"} = {}
      /\ "removeIfAsked" \notin Opened
  BY Turn, PlanOrder
<1>2. file' \in FileOf(row) /\ file'.new = 0 /\ file'.box = {}
      /\ file'.has = IF job.overwrite THEN "none" ELSE file.has
  <2>1. 0 \in 0..row
    BY FileType DEF IInv
  <2> QED BY <2>1, OpenFile DEF Absent, Content, FileOf, CrsKinds
<1>3. /\ TypeOK' /\ PhaseInv' /\ CheckInv' /\ RowInv'
      /\ Opened' = Opened \cup {"removeIfAsked"} /\ Live /\ Live' /\ Initial' = Initial
      /\ job.driver = "fgb" => ~Emptied /\ ~Emptied'
      /\ job.driver # "fgb" => (Emptied <=> "truncate" \in Opened)
      /\ job.driver # "fgb" => (Emptied' <=> "truncate" \in Opened \cup {"removeIfAsked"})
      /\ job.driver # "shp" => CrsInFile' = CrsInFile
      /\ job.driver \in Sqlite => \E b \in 0..NBatches : file'.new = Ends[b]
  BY <1>2, OpenKeeps DEF Promise
<1>4. StreamInv' /\ GpkgInv'
  BY <1>1 DEF StreamInv, GpkgInv, Sqlite
<1>5. SpatialiteInv'
  <2>1. file.has = IF job.old THEN "old" ELSE "none"
    BY <1>1, <1>3 DEF IInv, SpatialiteInv, Initial, Old, Absent, Content
  <2> QED BY <1>1, <1>2, <1>3, <2>1 DEF SpatialiteInv, Kept
<1>6. DiskInv'
  BY <1>1, <1>2, <1>3 DEF IInv, DiskInv, KeepsOld, RefusalKeepsOld
<1> QED BY <1>3, <1>4, <1>5, <1>6 DEF IInv

\* CREATE TABLE of a GeoPackage.
LEMMA TableKeeps ==
    ASSUME IInv, At("table"), phase = "open", Advance, UNCHANGED <<job, row, box>>,
           file' = [file EXCEPT !.has = "new", !.crs = CrsInFile, !.parts = @ \cup {"table"}]
    PROVE  IInv'
<1>1. job.driver = "gpkg" /\ "exists" \in Opened /\ "remove" \in Opened
  BY Turn, PlanOrder
<1>2. file' \in FileOf(row) /\ file'.new = 0 /\ file'.box = {} /\ file'.has = "new"
      /\ file'.crs = CrsInFile /\ file'.parts = file.parts \cup {"table"}
  BY CrsType, OpenFile DEF IInv, FileOf
<1>3. /\ TypeOK' /\ PhaseInv' /\ CheckInv' /\ RowInv'
      /\ Opened' = Opened \cup {"table"} /\ Live /\ Live' /\ Initial' = Initial
      /\ job.driver = "fgb" => ~Emptied /\ ~Emptied'
      /\ job.driver # "fgb" => (Emptied <=> "truncate" \in Opened)
      /\ job.driver # "fgb" => (Emptied' <=> "truncate" \in Opened \cup {"table"})
      /\ job.driver # "shp" => CrsInFile' = CrsInFile
      /\ job.driver \in Sqlite => \E b \in 0..NBatches : file'.new = Ends[b]
  BY <1>2, OpenKeeps DEF Promise
<1>4. StreamInv' /\ SpatialiteInv'
  BY <1>1 DEF StreamInv, SpatialiteInv, Sqlite
<1>5. GpkgInv'
  BY <1>1, <1>2, <1>3 DEF IInv, GpkgInv
<1>6. DiskInv'
  BY <1>1, <1>3, MayGo DEF DiskInv, RefusalKeepsOld
<1> QED BY <1>3, <1>4, <1>5, <1>6 DEF IInv

\* CREATE TABLE of a SpatiaLite file without such a table.
LEMMA CreateKeeps ==
    ASSUME IInv, At("strategy"), phase = "open", Advance, UNCHANGED <<job, row, box>>,
           file.has = "none",
           file' = [file EXCEPT !.has = "new", !.crs = CrsInFile, !.parts = @ \cup {"table"}]
    PROVE  IInv'
<1>1. /\ job.driver = "spatialite" /\ "removeIfAsked" \in Opened
      /\ "geomColumn" \notin Opened /\ "strategy" \notin Opened
  BY Turn, PlanOrder
<1>2. file' \in FileOf(row) /\ file'.new = 0 /\ file'.box = {} /\ file'.has = "new"
      /\ file'.crs = CrsInFile /\ file'.parts = file.parts \cup {"table"}
  BY CrsType, OpenFile DEF IInv, FileOf
<1>3. /\ TypeOK' /\ PhaseInv' /\ CheckInv' /\ RowInv'
      /\ Opened' = Opened \cup {"strategy"} /\ Live /\ Live' /\ Initial' = Initial
      /\ job.driver = "fgb" => ~Emptied /\ ~Emptied'
      /\ job.driver # "fgb" => (Emptied <=> "truncate" \in Opened)
      /\ job.driver # "fgb" => (Emptied' <=> "truncate" \in Opened \cup {"strategy"})
      /\ job.driver # "shp" => CrsInFile' = CrsInFile
      /\ job.driver \in Sqlite => \E b \in 0..NBatches : file'.new = Ends[b]
  BY <1>2, OpenKeeps DEF Promise
<1>4. StreamInv' /\ GpkgInv'
  BY <1>1 DEF StreamInv, GpkgInv, Sqlite
<1>5. ~Kept
  BY <1>1, <1>3 DEF IInv, SpatialiteInv
<1>6. SpatialiteInv'
  BY <1>1, <1>2, <1>3, <1>5 DEF IInv, SpatialiteInv, Kept
<1>7. DiskInv'
  BY <1>1, <1>3, <1>5 DEF DiskInv, KeepsOld, RefusalKeepsOld, Kept
<1> QED BY <1>3, <1>4, <1>6, <1>7 DEF IInv

\* Appending to a SpatiaLite table that is there ends open().
LEMMA AppendKeeps ==
    ASSUME IInv, At("strategy"), file.has = "old", job.create # "always",
           phase' = "write", step' = 1, UNCHANGED <<job, row, box, file, result>>
    PROVE  IInv'
<1>1. phase = "open" /\ result = "none" /\ Live
  BY Here DEF IInv
<1>2. /\ job.driver = "spatialite" /\ "strategy" \notin Opened
      /\ {"options", "removeIfAsked", "createDb", "geometry", "crs"} \subseteq Opened
  BY <1>1, Turn, PlanOrder
<1>3. result' = "none" /\ Live' /\ ~Boxed /\ ~Boxed' /\ Initial' = Initial
  BY <1>1 DEF Live, Boxed, Initial
<1>4. Opened' = First(job.driver, Len(OpenPlan[job.driver]))
  BY DEF Opened, Entries
<1>5. Opened' \subseteq Opened \cup {"strategy", "geomColumn"} /\ "strategy" \in Opened'
  <2> DEFINE B == First(job.driver, Len(OpenPlan[job.driver]))
  <2>1. /\ {"removeIfAsked", "createDb", "strategy", "geomColumn"} \subseteq B
        /\ B \subseteq {"options", "removeIfAsked", "createDb", "geometry", "crs",
                       "strategy", "geomColumn"}
    BY <1>2, JobType, PlanWhole DEF IInv
  <2> HIDE DEF B
  <2> QED BY <1>2, <1>4, <2>1 DEF B
<1>6. TypeOK'
  <2>1. step' \in 1..8
    OBVIOUS
  <2> QED BY <2>1 DEF IInv, TypeOK
<1>7. PhaseInv'
  BY <1>3 DEF IInv, PhaseInv
<1>8. CheckInv'
  <2>1. Promise("strategy") /\ Promise("geomColumn")
    BY DEF Promise
  <2> QED BY <1>5, <2>1, PromiseKept DEF IInv, CheckInv
<1>9. RowInv'
  <2>1. \A i : Refused(job.rows[i])' <=> Refused(job.rows[i])
    BY DEF Refused
  <2> QED BY <1>1, <1>3, <2>1 DEF IInv, RowInv
<1>10. StreamInv' /\ GpkgInv'
  BY <1>2 DEF StreamInv, GpkgInv, Sqlite
<1>11. SpatialiteInv'
  <2>1. job.old /\ ~job.overwrite /\ "meta" \in file.parts
    BY <1>1, <1>2 DEF IInv, SpatialiteInv
  <2> QED BY <1>2, <1>4, <1>5, <2>1, JobType, PlanWhole DEF IInv, SpatialiteInv, Kept
<1>12. DiskInv'
  BY HasKept DEF IInv, DiskInv
<1> QED BY <1>6, <1>7, <1>8, <1>9, <1>10, <1>11, <1>12 DEF IInv

\* --create-table=always drops the old SpatiaLite table before it creates the
\* new one.
LEMMA DropKeeps ==
    ASSUME IInv, At("strategy"), job.create = "always", file' = [file EXCEPT !.has = "none"],
           UNCHANGED <<job, row, box, phase, step, result>>
    PROVE  IInv'
<1>1. phase = "open" /\ result = "none" /\ Live
  BY Here DEF IInv
<1>2. /\ job.driver = "spatialite" /\ "strategy" \notin Opened
      /\ "removeIfAsked" \in Opened
  BY <1>1, Turn, PlanOrder
<1>3. file' \in FileOf(row) /\ file'.new = file.new /\ file'.box = file.box
      /\ file'.has = "none" /\ file'.parts = file.parts
  BY FileType DEF IInv, FileOf
<1>4. Opened' = Opened /\ Live' /\ Boxed' = Boxed /\ Initial' = Initial /\ Plan' = Plan
  BY <1>1 DEF Opened, First, Entries, Live, Boxed, Initial, Plan
<1>5. TypeOK'
  BY ZenonT(60), <1>3 DEF IInv, TypeOK, FileOf
<1>6. PhaseInv' /\ CheckInv'
  BY <1>1, <1>3, <1>4, PromiseKept DEF IInv, PhaseInv, CheckInv
<1>7. RowInv'
  <2>1. \A i : Refused(job.rows[i])' <=> Refused(job.rows[i])
    BY DEF Refused
  <2> QED BY <1>1, <1>2, <1>3, <1>4, <2>1 DEF IInv, RowInv
<1>8. StreamInv' /\ GpkgInv'
  BY <1>2 DEF StreamInv, GpkgInv, Sqlite
<1>9. SpatialiteInv'
  <2>1. ~Kept'
    BY DEF Kept
  <2>2. "createDb" \in Opened => "meta" \in file.parts
    BY <1>1, <1>2 DEF IInv, SpatialiteInv
  <2> QED BY <1>2, <1>3, <1>4, <2>1, <2>2 DEF SpatialiteInv
<1>10. DiskInv'
  BY <1>2, <1>3 DEF IInv, DiskInv, KeepsOld, RefusalKeepsOld
<1> QED BY <1>5, <1>6, <1>7, <1>8, <1>9, <1>10 DEF IInv

----------------------------------------------------------------------------
(* The rows. *)

\* A row is taken and written.
LEMMA RowKeeps ==
    ASSUME IInv, phase = "write", row < NRows, ~Refused(job.rows[row + 1]),
           row' = row + 1, box' = Grown(row + 1),
           file' = IF job.driver \in Sqlite /\ \E b \in 1..NBatches : Ends[b] = row + 1
                   THEN [file EXCEPT !.new = row + 1] ELSE file,
           UNCHANGED <<job, phase, step, result>>
    PROVE  IInv'
<1>1. row \in Nat /\ NRows \in Nat /\ NBatches \in Nat
  BY FileType, Sizes DEF IInv
<1>2. 1..(row + 1) = (1..row) \cup {row + 1} /\ row + 1 \in 0..NRows /\ row + 1 \in 0..(row + 1)
      /\ 0..row \subseteq 0..(row + 1)
  BY <1>1
<1>3. file' \in FileOf(row + 1) /\ file'.has = file.has /\ file'.box = file.box
      /\ file'.parts = file.parts /\ file'.crs = file.crs /\ file'.whole = file.whole
  BY <1>2, FileType DEF IInv, FileOf
<1>4. /\ Opened' = Opened /\ Live /\ Live' /\ Boxed' = Boxed /\ ~Boxed /\ Initial' = Initial
      /\ Emptied' = Emptied /\ result = "none"
  <2>1. Opened' = Opened
    BY DEF Opened, First, Entries
  <2> QED BY <2>1 DEF IInv, PhaseInv, Live, Boxed, Initial, Emptied
<1>5. box' = {i \in 1..(row + 1) : job.rows[i] # "null"}
  BY <1>2 DEF IInv, RowInv, Grown
<1>6. TypeOK'
  <2>1. box' \subseteq 1..(row + 1)
    BY <1>5
  <2> QED BY <1>2, <1>3, <2>1 DEF IInv, TypeOK, FileOf
<1>7. PhaseInv' /\ CheckInv'
  BY <1>4, PromiseKept DEF IInv, PhaseInv, CheckInv
<1>8. RowInv'
  <2>1. \A i : Refused(job.rows[i])' <=> Refused(job.rows[i])
    BY DEF Refused
  <2> QED BY <1>2, <1>3, <1>4, <1>5, <2>1 DEF IInv, RowInv
<1>9. StreamInv'
  BY <1>3, <1>4 DEF IInv, StreamInv, WritesPrj
<1>10. GpkgInv' /\ SpatialiteInv'
  <2>1. job.driver # "shp" => CrsInFile' = CrsInFile
    BY CrsKept
  <2> QED BY <1>3, <1>4, <2>1 DEF IInv, GpkgInv, SpatialiteInv, Kept
<1>11. DiskInv'
  <2>1. ASSUME job.driver \in Sqlite PROVE \E b \in 0..NBatches : file'.new = Ends[b]
    <3>1. CASE \E b \in 1..NBatches : Ends[b] = row + 1
      <4>1. file'.new = row + 1
        BY <2>1, <3>1, FileType DEF IInv, FileOf
      <4>2. 1..NBatches \subseteq 0..NBatches
        BY <1>1
      <4> QED BY <3>1, <4>1, <4>2
    <3>2. CASE ~(\E b \in 1..NBatches : Ends[b] = row + 1)
      BY <2>1, <3>2 DEF IInv, DiskInv
    <3> QED BY <3>1, <3>2
  <2> QED BY <1>3, <2>1, HasKept DEF DiskInv
<1> QED BY <1>6, <1>7, <1>8, <1>9, <1>10, <1>11 DEF IInv

\* The source has no more rows.
LEMMA EndsKeeps ==
    ASSUME IInv, SourceEnds
    PROVE  IInv'
<1>1. /\ phase = "write" /\ phase' = "finish" /\ step' = 1 /\ UNCHANGED <<job, row, box, file, result>>
      /\ row = NRows \/ SourceTruncated
  BY DEF SourceEnds
<1>2. /\ Opened' = Opened /\ Live /\ Live' /\ ~Boxed' /\ ~Boxed /\ Initial' = Initial
      /\ Emptied' = Emptied /\ result = "none"
  <2>1. Opened' = Opened
    BY <1>1 DEF Opened, First, Entries
  <2> QED BY <1>1, <2>1 DEF IInv, PhaseInv, Live, Boxed, Initial, Emptied
<1>3. TypeOK'
  <2>1. step' \in 1..8
    BY <1>1
  <2> QED BY <1>1, <2>1 DEF IInv, TypeOK
<1>4. PhaseInv'
  <2>1. Plan' = FinishPlan[job.driver]
    BY <1>1 DEF Plan
  <2>2. Len(Plan') \in 1..2
    BY <2>1, JobType, FinishOrder DEF IInv
  <2>3. \A n \in 1..2 : 1 \in 1..n
    OBVIOUS
  <2>4. step' \in 1..Len(Plan')
    BY <1>1, <2>2, <2>3
  <2> QED BY <1>1, <1>2, <2>4 DEF IInv, PhaseInv
<1>5. CheckInv'
  BY <1>1, <1>2, PromiseKept DEF IInv, CheckInv
<1>6. RowInv'
  <2>1. \A i : Refused(job.rows[i])' <=> Refused(job.rows[i])
    BY <1>1 DEF Refused
  <2>2. SourceTruncated' <=> SourceTruncated
    BY <1>1 DEF SourceTruncated
  <2> QED BY <1>1, <1>2, <2>1, <2>2 DEF IInv, RowInv
<1>7. StreamInv'
  BY <1>1, <1>2 DEF IInv, StreamInv, WritesPrj
<1>8. GpkgInv' /\ SpatialiteInv'
  <2>1. job.driver # "shp" => CrsInFile' = CrsInFile
    BY <1>1, CrsKept
  <2> QED BY <1>1, <1>2, <2>1 DEF IInv, GpkgInv, SpatialiteInv, Kept
<1>9. DiskInv'
  BY <1>1, HasKept DEF IInv, DiskInv
<1> QED BY <1>3, <1>4, <1>5, <1>6, <1>7, <1>8, <1>9 DEF IInv

----------------------------------------------------------------------------
(* finish(). *)

\* Whose turn it is in finish(), what is behind, and where an entry leads.
LEMMA FinishTurn ==
    ASSUME IInv, NEW s, At(s), phase = "finish", Advance, UNCHANGED <<job, row, box>>
    PROVE  /\ Live /\ Live' /\ Opened' = Opened /\ Initial' = Initial /\ TypeOK
           /\ step' \in 1..8 /\ result = "none" /\ result' \in {"none", "ok"}
           /\ phase' = "end" <=> result' # "none"
           /\ phase' \in {"plan", "open", "finish"} => step' \in 1..Len(Plan')
           /\ s = "close" => phase' = "end" /\ result' = "ok"
           /\ s # "close" => step = 1 /\ step' = 2 /\ phase' = "finish" /\ result' = "none"
           /\ s = "close" /\ job.driver \in {"gpkg", "fgb"} => step = 2
           /\ s = "bbox" => job.driver = "gpkg"
           /\ s = "index" => job.driver = "spatialite"
           /\ s = "truncate" => job.driver = "fgb"
<1>1. /\ step \in 1..Len(Plan) /\ s = Plan[step] /\ Plan = FinishPlan[job.driver]
      /\ result = "none" /\ Live /\ job.driver \in Drivers
  BY Here, JobType DEF IInv
<1>2. /\ s # "close" => step = 1 /\ Len(Plan) = 2
      /\ s = "close" => step = Len(Plan)
      /\ s = "close" /\ job.driver \in {"gpkg", "fgb"} => step = 2
      /\ s = "bbox" => job.driver = "gpkg"
      /\ s = "index" => job.driver = "spatialite"
      /\ s = "truncate" => job.driver = "fgb"
  BY <1>1, FinishOrder
<1>3. /\ step' \in 1..8 /\ result' \in {"none", "ok"} /\ Live' /\ Opened' = Opened
      /\ phase' = "end" <=> result' # "none"
      /\ phase' \in {"plan", "open", "finish"} => step' \in 1..Len(Plan')
      /\ phase' \in {"finish", "end"}
      /\ phase' = "end" <=> step = Len(Plan)
      /\ phase' = "finish" => step' = step + 1
  BY AdvanceIs DEF IInv
<1>4. TypeOK /\ Initial' = Initial
  BY DEF IInv, Initial
<1>5. CASE s = "close"
  <2>1. step = Len(Plan)
    BY <1>2, <1>5
  <2>2. phase' = "end" /\ result' = "ok"
    BY <1>3, <2>1
  <2> QED BY <1>1, <1>2, <1>3, <1>4, <1>5, <2>2
<1>6. CASE s # "close"
  <2>1. step = 1 /\ Len(Plan) = 2
    BY <1>2, <1>6
  <2>2. step' = 2 /\ phase' = "finish" /\ result' = "none"
    BY <1>3, <2>1
  <2> QED BY <1>1, <1>2, <1>3, <1>4, <1>6, <2>1, <2>2
<1> QED BY <1>5, <1>6

\* What an entry of finish() leaves alone if the path keeps its rows.
LEMMA FinishKeeps ==
    ASSUME IInv, NEW s, At(s), phase = "finish", Advance, UNCHANGED <<job, row, box>>,
           file' \in FileOf(row), file'.has = file.has \/ job.driver = "fgb",
           job.driver = "gpkg" => file'.box = box,
           s = "close" => TornShapefile' \/ (file'.new = row /\ file'.whole)
    PROVE  TypeOK' /\ PhaseInv' /\ CheckInv' /\ RowInv'
<1>1. /\ Live /\ Live' /\ Opened' = Opened
      /\ step' \in 1..8 /\ result' \in {"none", "ok"} /\ result = "none"
      /\ phase' = "end" <=> result' # "none"
      /\ phase' \in {"plan", "open", "finish"} => step' \in 1..Len(Plan')
      /\ s = "close" => phase' = "end" /\ result' = "ok"
      /\ s # "close" => step' = 2 /\ phase' = "finish" /\ result' = "none"
  BY FinishTurn
<1>2. TypeOK'
  BY <1>1 DEF IInv, TypeOK, FileOf
<1>3. PhaseInv' /\ CheckInv'
  BY <1>1, PromiseKept DEF IInv, PhaseInv, CheckInv
<1>4. RowInv'
  <2>1. \A i : Refused(job.rows[i])' <=> Refused(job.rows[i])
    BY DEF Refused
  <2>2. SourceTruncated' <=> SourceTruncated
    BY DEF SourceTruncated, Texts
  <2>3. Boxed'
    BY <1>1 DEF Boxed
  <2>4. row = NRows \/ SourceTruncated
    BY DEF IInv, RowInv
  <2>5. result' = "ok" => TornShapefile' \/ (file'.new = row /\ file'.whole)
    BY <1>1
  <2> QED BY <2>1, <2>2, <2>3, <2>4, <2>5 DEF IInv, RowInv
<1> QED BY <1>2, <1>3, <1>4

\* The extent of a GeoPackage is written, or there is none.
LEMMA BboxKeeps ==
    ASSUME IInv, At("bbox"), phase = "finish", Advance, UNCHANGED <<job, row, box>>,
           file' = IF box = {} THEN file ELSE [file EXCEPT !.box = box]
    PROVE  IInv'
<1>1. /\ job.driver = "gpkg" /\ step = 1 /\ Live /\ Live' /\ Opened' = Opened /\ result = "none"
      /\ Initial' = Initial
  BY FinishTurn
<1>2. file.box = {}
  BY <1>1 DEF IInv, RowInv, Boxed
<1>3. file \in FileOf(row) /\ box \in SUBSET (1..NRows)
  <2>1. row \in Nat /\ row <= NRows /\ NRows \in Nat /\ box \subseteq 1..row
    BY FileType, Sizes DEF IInv, TypeOK
  <2> QED BY <2>1, FileType DEF IInv
<1>4. file' \in FileOf(row) /\ file'.box = box /\ file'.has = file.has /\ file'.new = file.new
      /\ file'.parts = file.parts /\ file'.crs = file.crs
  BY <1>2, <1>3 DEF FileOf
<1>5. TypeOK' /\ PhaseInv' /\ CheckInv' /\ RowInv'
  BY <1>4, FinishKeeps
<1>6. StreamInv' /\ SpatialiteInv'
  BY <1>1 DEF StreamInv, SpatialiteInv, Sqlite
<1>7. GpkgInv'
  <2>1. CrsInFile' = CrsInFile
    BY <1>1, CrsKept
  <2> QED BY <1>1, <1>4, <2>1 DEF IInv, GpkgInv
<1>8. DiskInv'
  BY <1>4, HasKept DEF IInv, DiskInv
<1> QED BY <1>5, <1>6, <1>7, <1>8 DEF IInv

\* The R*Tree of a SpatiaLite table is made, or was refused unnoticed.
LEMMA IndexKeeps ==
    ASSUME IInv, At("index"), phase = "finish", Advance, UNCHANGED <<job, row, box>>,
           file' \in {[file EXCEPT !.index = i] : i \in {FALSE, job.index}}
    PROVE  IInv'
<1>1. /\ job.driver = "spatialite" /\ Live /\ Live' /\ Opened' = Opened /\ Initial' = Initial
  BY FinishTurn
<1>2. file' \in FileOf(row) /\ file'.has = file.has /\ file'.new = file.new
      /\ file'.parts = file.parts /\ file'.crs = file.crs
  <2>1. file \in FileOf(row) /\ job.index \in BOOLEAN
    BY FileType, JobType DEF IInv
  <2>2. PICK i \in BOOLEAN : file' = [file EXCEPT !.index = i]
    BY <2>1
  <2> QED BY <2>1, <2>2 DEF FileOf
<1>3. TypeOK' /\ PhaseInv' /\ CheckInv' /\ RowInv'
  BY <1>1, <1>2, FinishKeeps
<1>4. StreamInv' /\ GpkgInv'
  BY <1>1 DEF StreamInv, GpkgInv, Sqlite
<1>5. SpatialiteInv'
  <2>1. CrsInFile' = CrsInFile
    BY <1>1, CrsKept
  <2> QED BY <1>1, <1>2, <2>1 DEF IInv, SpatialiteInv, Kept
<1>6. DiskInv'
  BY <1>2, HasKept DEF IInv, DiskInv
<1> QED BY <1>3, <1>4, <1>5, <1>6 DEF IInv

\* FlatGeobuf begins its file when it has every row.
LEMMA FgbKeeps ==
    ASSUME IInv, At("truncate"), phase = "finish", Advance, UNCHANGED <<job, row, box>>,
           file' = Content("new", IF job.driver = "shp" THEN file.crs ELSE CrsInFile)
    PROVE  IInv'
<1>1. /\ job.driver = "fgb" /\ Live /\ Live' /\ step' = 2 /\ phase' = "finish"
      /\ result = "none" /\ step = 1
  BY FinishTurn
<1>2. file' \in FileOf(row) /\ file'.has = "new"
  <2>1. 0 \in 0..row
    BY FileType DEF IInv
  <2> QED BY <1>1, <2>1, CrsType DEF IInv, Content, FileOf
<1>3. TypeOK' /\ PhaseInv' /\ CheckInv' /\ RowInv'
  BY <1>1, <1>2, FinishKeeps
<1>4. Emptied'
  BY <1>1 DEF Emptied
<1>5. StreamInv' /\ GpkgInv' /\ SpatialiteInv'
  BY <1>1, <1>2, <1>4 DEF StreamInv, GpkgInv, SpatialiteInv
<1>6. {"exists", "geometry", "columns", "crs"} \subseteq Opened
  <2>1. Opened = First("fgb", Len(OpenPlan["fgb"]))
    BY <1>1 DEF Opened, Entries
  <2>2. "fgb" \in Drivers
    BY DEF Drivers
  <2> QED BY <2>1, <2>2, PlanWhole
<1>7. RefusalKeepsOld'
  <2>1. row = NRows /\ \A i \in 1..row : ~Refused(job.rows[i])
    BY <1>1 DEF IInv, RowInv, SourceTruncated, Texts
  <2>2. Promise("geometry") /\ Promise("columns") /\ Promise("crs")
    BY <1>6 DEF IInv, CheckInv
  <2>3. job.crs = "none" => CrsInFile = "none"
    BY <1>1 DEF CrsInFile, FgbCrs, FgbCrsArgs, Texts
  <2>4. job.driver \notin Texts
    BY <1>1 DEF Texts
  <2>5. ~Unwritable
    BY <1>1, <2>1, <2>2, <2>3, <2>4 DEF Promise, Unwritable
  <2>6. ~Unwritable'
    BY <2>5 DEF Unwritable, ForeignColumnsPass, Refused
  <2> QED BY <2>6 DEF RefusalKeepsOld
<1>8. DiskInv'
  BY <1>1, <1>6, <1>7, MayGo DEF DiskInv, Sqlite
<1> QED BY <1>3, <1>5, <1>8 DEF IInv

\* The last statement of finish(): the command succeeds.
LEMMA CloseKeeps ==
    ASSUME IInv, At("close"), phase = "finish", Advance, UNCHANGED <<job, row, box>>,
           file' \in FileOf(row), file'.has = file.has, file'.box = file.box,
           file'.parts = file.parts, file'.crs = file.crs,
           TornShapefile' \/ (file'.new = row /\ file'.whole)
    PROVE  IInv'
<1>1. /\ Live /\ Live' /\ Opened' = Opened /\ Initial' = Initial
      /\ phase' = "end" /\ result' = "ok"
      /\ job.driver \in {"gpkg", "fgb"} => step = 2
  BY FinishTurn
<1>2. job.driver = "gpkg" => file.box = box
  BY <1>1 DEF IInv, RowInv, Boxed
<1>3. TypeOK' /\ PhaseInv' /\ CheckInv' /\ RowInv'
  BY <1>2, FinishKeeps
<1>4. StreamInv'
  <2>1. job.driver \notin Sqlite => (Emptied' <=> Emptied) /\ Emptied
    <3>1. Opened = First(job.driver, Len(OpenPlan[job.driver]))
      BY DEF Opened, Entries
    <3>2. job.driver \in Drivers
      BY JobType DEF IInv
    <3>3. job.driver \in Sqlite \cup {"fgb"} \/ "truncate" \in Opened
      BY <3>1, <3>2, PlanWhole
    <3> QED BY <1>1, <3>3 DEF Emptied
  <2> QED BY <1>1, <2>1 DEF IInv, StreamInv, WritesPrj
<1>5. GpkgInv' /\ SpatialiteInv'
  <2>1. job.driver # "shp" => CrsInFile' = CrsInFile
    BY CrsKept
  <2> QED BY <1>1, <2>1 DEF IInv, GpkgInv, SpatialiteInv, Kept
<1>6. DiskInv'
  <2>1. ASSUME job.driver \in Sqlite PROVE \E b \in 0..NBatches : file'.new = Ends[b]
    <3>1. row = NRows
      BY <2>1 DEF IInv, RowInv, SourceTruncated, Sqlite, Texts
    <3>2. ~TornShapefile'
      BY <2>1 DEF TornShapefile, Sqlite
    <3> QED BY <3>1, <3>2, Sizes
  <2> QED BY <2>1, HasKept DEF DiskInv
<1> QED BY <1>3, <1>4, <1>5, <1>6 DEF IInv

----------------------------------------------------------------------------
(* The invariant. *)

\* In which phase an entry is met.
LEMMA PhaseOf ==
    ASSUME IInv, NEW s, At(s)
    PROVE  /\ s \in {"openRead", "reproject", "insertMode"} => phase = "plan"
           /\ s \in {"bbox", "index", "close"} => phase = "finish"
           /\ s = "truncate" => phase \in {"open", "finish"}
           /\ s \notin {"openRead", "reproject", "insertMode", "bbox", "index", "close",
                       "truncate"} => phase = "open"
           /\ phase # "end"
  BY Here DEF IInv

\* finish() of the drivers that report what goes wrong, and of the shapefile.
LEMMA CloseStep ==
    ASSUME IInv, Close
    PROVE  IInv'
<1>1. /\ At("close") /\ UNCHANGED <<job, row, box>> /\ phase = "finish" /\ phase # "end"
      /\ TypeOK /\ Live
  BY PhaseOf, Here DEF Close, ShpClose, Effect, IInv
<1>2. CASE Fail
  BY <1>1, <1>2, FailKeeps
<1>3. CASE job.driver = "shp" /\ ShpClose
  <2>1. Advance /\ file' \in Dropped(file)
    BY <1>3 DEF ShpClose
  <2>2. file.has = "new"
    <3>1. Emptied
      <4>1. Opened = First("shp", Len(OpenPlan["shp"]))
        BY <1>1, <1>3 DEF Opened, Entries
      <4>2. "shp" \in Drivers /\ "shp" \notin Sqlite \cup {"fgb"}
        BY DEF Drivers, Sqlite
      <4>3. "truncate" \in Opened
        BY <4>1, <4>2, PlanWhole
      <4> QED BY <1>3, <4>3 DEF Emptied
    <3> QED BY <1>1, <1>3, <3>1 DEF IInv, StreamInv, Sqlite
  <2>3. /\ file' \in FileOf(row) /\ file'.has = file.has /\ file'.box = file.box
        /\ file'.parts = file.parts /\ file'.crs = file.crs
        /\ file'.torn \/ (file'.new = row /\ file'.whole)
    BY <1>1, <1>3, <2>1, <2>2, DroppedIs
  <2>4. TornShapefile' \/ (file'.new = row /\ file'.whole)
    BY <1>1, <1>3, <2>3 DEF TornShapefile
  <2> QED BY <1>1, <2>1, <2>3, <2>4, CloseKeeps
<1>4. CASE Advance /\ file' = [file EXCEPT !.whole = TRUE, !.new = row]
  <2>1. row \in 0..row /\ file \in FileOf(row)
    BY <1>1, FileType
  <2>2. file' \in FileOf(row) /\ file'.has = file.has /\ file'.box = file.box /\ file'.whole
        /\ file'.parts = file.parts /\ file'.crs = file.crs /\ file'.new = row
    BY <1>4, <2>1 DEF FileOf
  <2> QED BY <1>1, <1>4, <2>2, CloseKeeps
<1> QED BY <1>2, <1>3, <1>4 DEF Close, Effect

\* Before the first entry.
LEMMA InitIInv == Init => IInv
<1> SUFFICES ASSUME Init PROVE IInv
  OBVIOUS
<1>1. /\ job \in Jobs /\ phase = "plan" /\ step = 1 /\ row = 0 /\ box = {} /\ file = Initial
      /\ result = "none" /\ job \in AllJobs
  BY FileConvertAssumption DEF Init, Initial
<1>2. /\ file.has = (IF job.old THEN "old" ELSE "none") /\ file.new = 0 /\ file.box = {}
      /\ file \in FileOf(0)
  <2>1. 0 \in 0..0
    OBVIOUS
  <2> QED BY <1>1, <2>1 DEF Initial, Old, Absent, Content, FileOf, CrsKinds
<1>3. Opened = {} /\ ~Emptied /\ ~Boxed /\ Live
  BY <1>1 DEF Opened, First, Entries, Emptied, Boxed, Live
<1>4. 1..0 = {} /\ 1 \in 1..8 /\ 0 \in 0..NRows
  BY Sizes
<1>5. TypeOK
  BY <1>1, <1>2, <1>4 DEF TypeOK, FileOf
<1>6. PhaseInv
  <2>1. Plan = ConvertPlan /\ Len(ConvertPlan) = 3 /\ 1 \in 1..3
    BY <1>1 DEF Plan, ConvertPlan
  <2> QED BY <1>1, <1>2, <2>1 DEF PhaseInv
<1>7. CheckInv /\ RowInv
  BY <1>1, <1>2, <1>3, <1>4 DEF CheckInv, RowInv
<1>8. StreamInv /\ GpkgInv /\ SpatialiteInv
  BY <1>1, <1>3 DEF StreamInv, GpkgInv, SpatialiteInv
<1>9. DiskInv
  BY <1>2, Sizes DEF DiskInv, KeepsOld, RefusalKeepsOld
<1> QED BY <1>5, <1>6, <1>7, <1>8, <1>9 DEF IInv

\* The steps before the writer.
LEMMA PlanSteps ==
    ASSUME IInv, OpenRead \/ Reproject \/ InsertMode
    PROVE  IInv'
<1>1. PICK s \in {"openRead", "reproject", "insertMode"} :
         At(s) /\ ((Advance /\ file' = file) \/ Fail) /\ UNCHANGED <<job, row, box>>
  BY DEF OpenRead, Reproject, InsertMode, Effect, Check
<1>2. phase = "plan" /\ phase # "end"
  BY <1>1, PhaseOf
<1> QED BY <1>1, <1>2, PlanKeeps, FailKeeps

\* The checks of open() let through what they promise, or fail.
LEMMA CheckSteps ==
    ASSUME IInv, CheckOptions \/ Exists \/ Geometry \/ Columns \/ CrsStep
    PROVE  IInv'
<1>1. PICK s \in {"options", "exists", "geometry", "columns", "crs"} :
         /\ At(s) /\ UNCHANGED <<job, row, box>>
         /\ Fail \/ /\ Advance /\ UNCHANGED file
                    /\ s = "exists" => job.overwrite \/ file.has = "none"
                    /\ s = "geometry" => job.geom
                    /\ s = "columns" /\ job.cols = "lossy" => job.loss # "error"
                    /\ s = "columns" /\ job.cols = "foreign" => ForeignColumnsPass
                    /\ s = "crs" => job.driver \in Texts \/ CrsInFile # "none"
                                   \/ job.loss # "error"
  <2>1. CASE CheckOptions
    BY <2>1 DEF CheckOptions, Check
  <2>2. CASE Exists
    BY <2>2 DEF Exists, Check
  <2>3. CASE Geometry
    BY <2>3 DEF Geometry, Check
  <2>4. CASE Columns
    BY <2>4 DEF Columns, Check
  <2>5. CASE CrsStep
    BY <2>5 DEF CrsStep, Check
  <2> QED BY <2>1, <2>2, <2>3, <2>4, <2>5
<1>2. phase = "open" /\ phase # "end"
  BY <1>1, PhaseOf
<1>3. CASE Fail
  BY <1>1, <1>2, <1>3, FailKeeps
<1>4. CASE ~Fail
  <2>1. s = "exists" /\ file.has = "none" => ~job.old
    <3> SUFFICES ASSUME s = "exists", file.has = "none" PROVE ~job.old
      OBVIOUS
    <3>1. /\ job.driver \in Drivers /\ job.driver # "spatialite"
          /\ "remove" \notin Opened /\ "truncate" \notin Opened
      BY <1>1, <1>2, Turn, PlanOrder
    <3>2. Live /\ result = "none"
      BY <1>1, Here DEF IInv
    <3>3. file.has = Initial.has
      <4>1. CASE job.driver = "gpkg"
        BY <3>1, <3>2, <4>1 DEF IInv, GpkgInv
      <4>2. CASE job.driver # "gpkg"
        <5>1. job.driver \notin Sqlite /\ ~Emptied
          BY <1>2, <3>1, <3>2, <4>2 DEF Sqlite, Emptied
        <5> QED BY <3>2, <5>1 DEF IInv, StreamInv
      <4> QED BY <4>1, <4>2
    <3> QED BY <3>3 DEF Initial, Old, Content
  <2>2. s = "crs" => job.driver # "shp"
    BY <1>1, <1>2, Turn, PlanOrder
  <2>3. Promise(s)
    BY <1>1, <1>4, <2>1, <2>2 DEF Promise, Clear
  <2> QED BY <1>1, <1>2, <1>4, <2>3, CheckKeeps
<1> QED BY <1>3, <1>4

\* The effects of open().
LEMMA EffectSteps ==
    ASSUME IInv,
           \/ Prj \/ Remove \/ RemoveIfAsked \/ CreateDb \/ Truncate \/ Header \/ Cpg
           \/ Table \/ Contents \/ GeomColumn \/ Strategy \/ DropOld
    PROVE  IInv'
<1>0. ASSUME Fail, UNCHANGED <<job, row, box>>, NEW s, At(s) PROVE IInv'
  BY <1>0, PhaseOf, FailKeeps
<1>1. CASE Prj
  BY <1>0, <1>1, PhaseOf, PrjKeeps DEF Prj
<1>2. CASE Remove
  BY <1>0, <1>2, PhaseOf, RemoveKeeps DEF Remove, Effect
<1>3. CASE RemoveIfAsked
  BY <1>0, <1>3, PhaseOf, RemoveIfAskedKeeps DEF RemoveIfAsked, Effect, Check
<1>4. CASE CreateDb
  BY <1>0, <1>4, PhaseOf, PartKeeps DEF CreateDb, Effect
<1>5. CASE Header
  BY <1>0, <1>5, PhaseOf, PartKeeps DEF Header, Effect
<1>6. CASE Cpg
  BY <1>0, <1>6, PhaseOf, PartKeeps DEF Cpg, Effect
<1>7. CASE Contents
  BY <1>0, <1>7, PhaseOf, PartKeeps DEF Contents, Effect
<1>8. CASE GeomColumn
  BY <1>0, <1>8, PhaseOf, PartKeeps DEF GeomColumn, Effect
<1>9. CASE Truncate
  BY <1>0, <1>9, PhaseOf, TruncateKeeps, FgbKeeps DEF Truncate, Effect
<1>10. CASE Table
  BY <1>0, <1>10, PhaseOf, TableKeeps DEF Table
<1>11. CASE Strategy
  <2>1. At("strategy") /\ phase = "open" /\ UNCHANGED <<job, row, box>>
        /\ (file.has = "old" => job.create # "always")
    BY <1>11, PhaseOf DEF Strategy
  <2>2. CASE Fail
    BY <1>0, <2>1, <2>2
  <2>3. CASE file.has = "old" /\ phase' = "write" /\ step' = 1 /\ UNCHANGED <<file, result>>
    BY <2>1, <2>3, AppendKeeps
  <2>4. CASE /\ file.has = "none" /\ Advance
             /\ file' = [file EXCEPT !.has = "new", !.crs = CrsInFile,
                                     !.parts = @ \cup {"table"}]
    BY <2>1, <2>4, CreateKeeps
  <2> QED BY <1>11, <2>2, <2>3, <2>4 DEF Strategy
<1>12. CASE DropOld
  BY <1>0, <1>12, PhaseOf, DropKeeps DEF DropOld
<1> QED BY <1>1, <1>2, <1>3, <1>4, <1>5, <1>6, <1>7, <1>8, <1>9, <1>10, <1>11, <1>12

\* The rows, finish() and the end.
LEMMA LateSteps ==
    ASSUME IInv, WriteRow \/ WriteFails \/ SourceEnds \/ Bbox \/ Index \/ Close \/ Kill
    PROVE  IInv'
<1>1. CASE WriteRow
  <2>1. CASE Refused(job.rows[row + 1])
    BY <1>1, <2>1, FailKeeps DEF WriteRow
  <2>2. CASE ~Refused(job.rows[row + 1])
    BY <1>1, <2>2, RowKeeps DEF WriteRow
  <2> QED BY <2>1, <2>2
<1>2. CASE WriteFails
  BY <1>2, FailKeeps DEF WriteFails
<1>3. CASE SourceEnds
  BY <1>3, EndsKeeps
<1>4. CASE Bbox
  BY <1>4, PhaseOf, BboxKeeps, FailKeeps DEF Bbox, Effect
<1>5. CASE Index
  BY <1>5, PhaseOf, IndexKeeps, FailKeeps DEF Index
<1>6. CASE Close
  BY <1>6, CloseStep
<1>7. CASE Kill
  BY <1>7, KillKeeps
<1> QED BY <1>1, <1>2, <1>3, <1>4, <1>5, <1>6, <1>7

\* A step that changes nothing.
LEMMA StutterKeeps ==
    ASSUME IInv, UNCHANGED vars
    PROVE  IInv'
<1> USE DEF vars
<1>1. /\ Opened' = Opened /\ (Live' <=> Live) /\ (Boxed' <=> Boxed) /\ Initial' = Initial
      /\ Plan' = Plan /\ (SourceTruncated' <=> SourceTruncated)
  BY DEF Opened, First, Entries, Live, Boxed, Initial, Plan, SourceTruncated
<1>2. Emptied' <=> Emptied
  BY <1>1 DEF Emptied
<1>3. CrsInFile' = CrsInFile
  BY DEF CrsInFile, GpkgCrs, GpkgSrs, SpatialiteCrs, Srid, FgbCrs, FgbCrsArgs, ParquetCrs,
     ShpCrs, WritesPrj
<1>4. TypeOK' /\ PhaseInv' /\ CheckInv'
  BY ZenonT(60), <1>1, PromiseKept DEF IInv, TypeOK, PhaseInv, CheckInv
<1>5. RowInv'
  <2>1. \A i : Refused(job.rows[i])' <=> Refused(job.rows[i])
    BY DEF Refused
  <2>2. TornShapefile' <=> TornShapefile
    BY DEF TornShapefile
  <2> QED BY <1>1, <2>1, <2>2 DEF IInv, RowInv
<1>6. StreamInv' /\ GpkgInv' /\ SpatialiteInv'
  BY <1>1, <1>2, <1>3 DEF IInv, StreamInv, GpkgInv, SpatialiteInv, WritesPrj, Kept
<1>7. DiskInv'
  BY HasKept DEF IInv, DiskInv
<1> QED BY <1>4, <1>5, <1>6, <1>7 DEF IInv

\* Every step keeps the invariant.
LEMMA NextIInv == IInv /\ [Next]_vars => IInv'
  BY PlanSteps, CheckSteps, EffectSteps, LateSteps, StutterKeeps DEF Next, Terminated

\* It holds throughout.
LEMMA Invariance == Spec => []IInv
  BY InitIInv, NextIInv, PTL DEF Spec

----------------------------------------------------------------------------
(* The properties. *)

\* Every command: the variables keep their types.
THEOREM TypeCorrect == Spec => []TypeOK
<1>1. IInv => TypeOK
  BY DEF IInv
<1> QED BY <1>1, Invariance, PTL

\* Without --overwrite and --create-table=always a layer that was there is
\* there after every failure and every crash, whatever the driver.
THEOREM OldLayerKept == Spec => []KeepsOld
<1>1. IInv => KeepsOld
  BY DEF IInv, DiskInv
<1> QED BY <1>1, Invariance, PTL

\* Even --overwrite does not destroy a layer for a source that the GeoJSON,
\* shapefile or FlatGeobuf writer must refuse.
THEOREM RefusalSpares == Spec => []RefusalKeepsOld
<1>1. IInv => RefusalKeepsOld
  BY DEF IInv, DiskInv
<1> QED BY <1>1, Invariance, PTL

\* A GeoPackage or SpatiaLite file holds whole batches whenever the command
\* fails or is killed.
THEOREM BatchesAreWhole == Spec => []WholeBatches
<1>1. IInv => WholeBatches
  BY DEF IInv, DiskInv, WholeBatches
<1> QED BY <1>1, Invariance, PTL

\* Exit status 0: the layer can be opened and has every row, the extent of a
\* GeoPackage is that of its geometries, and no CRS was lost under
\* --on-loss error; unless it is a shapefile whose Writer could not write its
\* last bytes, or a file converted onto itself.
THEOREM ExitZeroReadsBack == Spec => []SuccessReadsBack
<1>1. IInv => SuccessReadsBack
  <2> SUFFICES ASSUME IInv, result = "ok", ~SourceTruncated, ~TornShapefile
               PROVE  SuccessReadsBack
    BY DEF SuccessReadsBack
  <2>1. /\ job.driver \in Drivers /\ job.crs \in CrsKinds /\ Live
        /\ row = NRows /\ file.new = NRows /\ file.whole
        /\ box = {i \in 1..NRows : job.rows[i] # "null"}
    BY JobType DEF IInv, Live, RowInv
  <2>2. Opened = First(job.driver, Len(OpenPlan[job.driver]))
    BY DEF IInv, PhaseInv, Opened, Entries
  <2>3. /\ job.driver # "spatialite" => "exists" \in Opened
        /\ job.driver \in Sqlite => "crs" \in Opened
        /\ job.driver = "gpkg" =>
              {"remove", "createDb", "table", "contents", "geomColumn"} \subseteq Opened
        /\ job.driver = "spatialite" =>
              {"removeIfAsked", "createDb", "strategy", "geomColumn"} \subseteq Opened
        /\ job.driver = "shp" => "prj" \in Opened
        /\ job.driver \in Sqlite \cup {"fgb"} <=> "truncate" \notin Opened
    BY <2>1, <2>2, PlanWhole
  <2>4. job.driver # "spatialite" => file.has = "new" /\ ~Kept
    <3>1. job.driver # "spatialite" => ~Kept
      BY <2>3 DEF IInv, CheckInv, Promise, Clear, Kept
    <3>2. CASE job.driver = "gpkg"
      BY <2>1, <2>3, <3>1, <3>2 DEF IInv, GpkgInv
    <3>3. CASE job.driver \notin Sqlite
      <4>1. Emptied
        BY <2>3, <3>3 DEF Emptied
      <4> QED BY <2>1, <3>1, <3>3, <4>1 DEF IInv, StreamInv
    <3> QED BY <3>1, <3>2, <3>3 DEF Sqlite
  <2>5. CASE job.driver = "gpkg"
    <3>1. /\ {"meta", "table", "contents", "geomColumn"} \subseteq file.parts
          /\ file.crs = CrsInFile /\ file.box = box
      BY <2>1, <2>3, <2>5 DEF IInv, GpkgInv, RowInv, Boxed
    <3>2. CrsInFile = job.crs \/ CrsInFile = "none"
      BY <2>5 DEF CrsInFile, GpkgCrs, GpkgSrs
    <3>3. job.loss = "error" => CrsInFile # "none"
      BY <2>3, <2>5 DEF IInv, CheckInv, Promise, Sqlite, Texts
    <3> QED BY <2>1, <2>4, <2>5, <3>1, <3>2, <3>3
            DEF SuccessReadsBack, Opens, GpkgOpens, Kept, Sqlite
  <2>6. CASE job.driver = "spatialite"
    <3>1. /\ "meta" \in file.parts
          /\ \/ file.has = "old" /\ Kept
             \/ /\ file.has = "new" /\ ~Kept
                /\ {"table", "geomColumn"} \subseteq file.parts /\ file.crs = CrsInFile
      BY <2>1, <2>3, <2>6 DEF IInv, SpatialiteInv
    <3>2. CrsInFile = job.crs \/ CrsInFile = "none"
      BY <2>6 DEF CrsInFile, SpatialiteCrs, Srid
    <3>3. job.loss = "error" => CrsInFile # "none"
      BY <2>3, <2>6 DEF IInv, CheckInv, Promise, Sqlite, Texts
    <3> QED BY <2>1, <2>6, <3>1, <3>2, <3>3
            DEF SuccessReadsBack, Opens, SpatialiteOpens, Kept
  <2>7. CASE job.driver \notin Sqlite
    <3>1. file.has = "new" /\ ~Kept /\ job.driver # "gpkg" /\ job.driver # "spatialite"
      BY <2>4, <2>7 DEF Sqlite
    <3>2. Opens
      BY <2>1, <3>1 DEF Opens, RowsOpen
    <3>3. ASSUME job.driver = "shp", job.loss = "error"
          PROVE  file.crs = job.crs \/ (job.crs = "none" /\ job.old)
      <4>1. Promise("prj") /\ file.crs = IF WritesPrj THEN job.crs ELSE Initial.crs
        BY <2>1, <2>3, <2>7, <3>3 DEF IInv, CheckInv, StreamInv
      <4>2. ~job.old => Initial.crs = "none"
        BY DEF Initial, Absent, Content
      <4> QED BY <3>3, <4>1, <4>2 DEF Promise, WritesPrj
    <3> QED BY <2>1, <2>7, <3>1, <3>2, <3>3 DEF SuccessReadsBack, Kept
  <2> QED BY <2>5, <2>6, <2>7 DEF Sqlite
<1> QED BY <1>1, Invariance, PTL
=============================================================================
