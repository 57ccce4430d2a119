# shpx in TLA+

shpx converts spatial data between files and databases (`shpx convert IN OUT`).
This directory models what can go wrong in it: the reader threads and pagers,
the readers that guess their schema from a sample, the writers that load a
shared database table or replace a file, and what each format does to a value
and a geometry on the way out and back in. TLC checks the models on small
instances, TLAPS proves what readers and writers promise for every value of the
constants.

Paths below are relative to `src/crates/`.

## 1. The system

One process runs one conversion. `shpx-cli/src/commands/convert.rs` opens a
reader, opens a writer, and pulls Arrow `RecordBatch`es from
`LayerReader::batches()` into `write_batch` (run_batch) or hands the iterator to
`bulk_write` (run_bulk), then calls `finish`. The first error ends the process.

| component | state it keeps | operations | what is hard | what makes it correct | model |
|---|---|---|---|---|---|
| PostGIS / SQL Server / Shapefile reader | OS thread, open SELECT or file, row buffer, `sync_channel(2)` | `open` spawns; the thread fetches, converts, sends; `BatchIter::next`; drop | two threads; errors and panics behind queued batches; cancellation while blocked | ordered prefix; the end means all rows; bounded memory; the thread goes away | StreamBridge |
| GeoPackage / SpatiaLite scan (`shpx-rdb-common/src/streaming.rs`) | last rowid or offset, `done` | one SELECT per batch | other connections write between two SELECTs; exact multiples of the batch size | no row twice, none that stayed missed; the scan ends | RowidPager |
| FlatGeobuf, GeoJSON, CSV, `--query` readers | sample, iterator, inferred schema | `open` samples, `next` | the border between sample and stream; rows that do not fit what the sample said; truncated files | every row once; the sample loses nothing | SampledReader |
| PostGIS writer | connection, `table_was_created`, COPY sink | `open` (drop, probe, create), `write_batch`, `bulk_write`, `finish` (index) | several processes on one table; stale probes; commits without an answer | whole batches; exit 0 means complete; index as asked | PgWriter |
| SQL Server writer | connection, pending batches, `#temp` table | the same, in chunks through `#temp` | no ROLLBACK; chunk thresholds; failure between two chunks | each row committed once; whole chunks; bounded pending rows | MssqlWriter |
| GeoPackage, SpatiaLite, Shapefile, FlatGeobuf, GeoJSON, CSV, GeoParquet writers | file or database, bounding box, buffers | `open`, `write_batch`, `finish`, drop | seven orders of check, destroy and create; metadata committed row by row; headers and footers written last; errors and kills in between | success can be read back; old layers survive where the code spares them | FileConvert |
| Type tables and value conversions of the nine drivers | none | Arrow to declared type to Arrow; `--on-loss` | two tables per driver that must agree; limits of the target types | what is lost is announced; what is written can be read | ColumnTypes, PgNumeric, CellConvert |
| Geometry codecs (`shpx-geom`) | cursor | encode and decode WKB, EWKB, GeoPackage and SpatiaLite blobs, WKT, GeoJSON | byte orders, flags, counts, empty parts, damaged input | decode after encode; damage is refused | GeometryCodecs, CellConvert |
| CLI | options | driver choice, reprojection, the loops above | order of opening and dropping | as for the writers | FileConvert, PgWriter |

They interact by calls in one thread, except for the channel between a reader's
thread and the conversion, and for the database, which processes share.

PROJECT.json lists each component with what is modelled, and under "hazards" what
can go wrong at which line.

## 2. The modules

| module | models | role |
|---|---|---|
| `LayerStream` | the contract of `LayerReader::batches()` | abstract, implemented by StreamBridge, RowidPager and SampledReader |
| `StreamBridge` | reader thread, channel, `BatchIter` | detailed |
| `RowidPager` | `KeysetRowsIter`, `OffsetRowsIter` and the batch iterators over them | detailed |
| `SampledReader` | the readers that sample | detailed |
| `LayerSink` | what conversions promise about their target | abstract, implemented by PgWriter and MssqlWriter |
| `PgWriter` | PostGIS writer and the server | detailed |
| `MssqlWriter` | SQL Server writer, staging and the server | detailed |
| `FileConvert` | `convert` onto a file, seven drivers | detailed |
| `PgNumeric` | `numeric` in base 10,000 (`copy_binary.rs`) | pure |
| `ColumnTypes` | type tables and cells of nine drivers; EXTENDS PgNumeric | pure |
| `GeometryCodecs` | the codecs over tokens | pure |
| `CellConvert` | one cell through writer, damage, reader, writer; EXTENDS the three above | state machine |
| `MC*` | constants of the small instances | |
| `StreamBridge_proofs`, `RowidPager_proofs`, `SampledReader_proofs` | the readers | theorems |
| `PgWriter_proofs`, `MssqlWriter_proofs`, `FileConvert_proofs` | the writers | theorems |
| `GeometryCodecs_proofs`, `CellConvert_proofs` | the codecs, and the cells of the nine drivers; the second EXTENDS the first | theorems |

A definition marked "Mutant" is a plausible bug. It is not part of the model;
put in the place of the definition below it, it makes TLC report the property
PROJECT.json names for it. Every checked property has one.

### LayerStream and LayerSink

`LayerStream` yields the rows of a layer in order, in full batches but for the
last, and says "end" only after the last row. It may fail or be dropped at any
time, and it does not stall.

`LayerSink` is a set of conversions. Each makes its load durable in the order of
the source, transaction by transaction; a transaction ends only at one of the
load's `cuts`. Success is reported only for a complete load, and a failure may
carry one last commit whose answer was lost. PostGIS COPY has a single cut,
`write_batch` one per batch, SQL Server bulk loads one per chunk.

### StreamBridge

- A row is its position in the source, a batch the interval of rows it holds.
- `wpc` is where the worker thread is: `open`, `fetch`, `convert`, `send`,
  `sendErr` (about to send an error), `exit`. `buf` and `chunk` are the `Vec` and
  the batch split off it, `chan` the channel, `seen` what `next()` returned.
- `cpc` is the caller. `recv` is inside `next()`: a blocked caller cannot drop
  the iterator, which is why `Cancel` is not enabled there.
- `ConvertInWorker` separates PostGIS and SQL Server, which build the
  RecordBatch in the thread, from Shapefile, which does it in `next()`.
- `Faults` selects what the environment may do: the query fails, the stream
  breaks, a batch does not convert, the conversion panics. The build unwinds on
  panic, so a panic drops the sender like a normal return. Panics of the
  Shapefile thread (inside the `shapefile` crate) are not modelled.

### RowidPager

- A table is a set of rowids (negative ones included, as in SQLite); a SELECT
  reads one state of it. `Page` is the result of the SELECT, `Yield` the rest of
  `execute_batch`, `Exhausted` an `Ok(None)`. `InsertRow` and `DeleteRow` are
  other connections.
- `kept` is a history: the rows that were there from the start until now.
- OFFSET queries have no ORDER BY; the model takes the rowid order of a scan.

### PgWriter

- `opt[p]` is the command line of process p, chosen in the initial state.
  `pc[p]` is the statement it sends next: `open`, `drop`, `probe`, `create`,
  `load`, `copy`, `commit`, `index`, `end`.
- `tbl` is the table the name stands for; a table is named after the process
  that created it, so dropped tables keep their rows as history in `rows`.
- `tgt[p]` is the table p's transaction has locked. DROP TABLE and CREATE INDEX
  wait for it (`Unlocked`).
- `idxOn` is the owner of the index name, which PostgreSQL keeps per schema and
  not per table.
- `Fail` ends a process at any statement, `CommitUnanswered` commits and loses
  the answer. A rerun is a process that starts after another one ended.
- `register_srs_if_missing` is left out: nothing modelled reads spatial_ref_sys.

### MssqlWriter

- The same processes and tables. A row is its position, `Ends[b]` the last row
  of batch b; batches may be empty and of different sizes.
- `read - sent` are the batches in `pending`, `staged` the content of the
  `#temp` table, `txn` the target rows not yet committed, `log` the commits.
- There is no ROLLBACK in the code: `End` closes the connection, and that is what
  undoes `txn` and releases `tgt`.
- A spatial index needs a bounding box, a primary key (only a table prepared by
  hand has one) and a table without that index.

### SampledReader

- A row is one attribute cell and one geometry; `Cells` lists the kinds a driver
  tells apart. `job` is the source: format, sample limit, rows, where the file is
  cut off, whether a `crs` member can be read.
- `phase` is where `open()` is: the CRS probe, the sample (`SampleRow`, one row
  at a time), then the stream. `Infer` builds the schema; all but FlatGeobuf open
  the source again (`pos` = 0), FlatGeobuf keeps the sample in `buffer`.
- `NextBatch` is one `next()`. `out` records what became of each cell: "same",
  "converted", "null", "truncated", "dropped".
- LayerStream is over the rows that are in the file. A FeatureCollection cut
  after a comma ends silently after them (section 5).

### FileConvert

- `job` is a command line, what is at the path, and what is special about the
  source. `OpenPlan` and `FinishPlan` list, per driver, the statements of `open`
  and `finish` that can fail or that change the disk, in the code's order; each
  entry is an action. The order is the point: which checks come before the old
  file is gone.
- `file` is what is at the path: whose layer, how many new rows, which parts are
  in place, whether header and trailer are whole, the CRS, extent and index.
- `Fail` is `?` with the writer dropped (`Dropped` says what Drop leaves
  behind), `Kill` the end of the process without it. After a kill any prefix of
  a text writer's rows may be on the disk; SQLite rolls back.
- `Opens` is what the driver's own reader demands of the file.
- SQLite's transactions, `BufWriter`, and the shapefile, flatgeobuf and parquet
  crates are external; the model uses that a commit is atomic and that the last
  two write nothing readable before their footer.
- `ShpWriter::finish` answers Ok and closes nothing (`ShpClose`): the crate's
  Writer flushes its buffers and writes the headers when it is dropped after
  that, and an I/O error there is told to nobody. So `Dropped` leaves the
  shapefile complete or `torn`, and after `finish` the exit status is 0 either way.

### PgNumeric, ColumnTypes, GeometryCodecs, CellConvert

- A value is a kind and the room it needs (bits, length, precision of a time); a
  decimal is its integer, and PostGIS's numeric is computed digit by digit. The
  limits of i128, f32, f64 and rust_decimal are constants, scaled down in
  MCFormats.
- A `Put` operator is a writer (declared type, stored value, or a refusal under
  `--on-loss`), a `Get` operator the reader of the same driver.
- An encoding is a sequence of tokens: a byte, a word or a coordinate pair with
  its byte order, a bracket, a keyword. Coordinates are names, 0 the empty (NaN)
  point. A decoder returns what is left of the input and what it read; `Then` is
  Rust's `?` between two of them. A reader is a function on `Input`, repetition
  a recursive function of the number of items; there is no RECURSIVE operator, so
  that the codecs can be proved about.
- `Cells`, `Values`, `Shapes` and `Texts` are the cells to begin with and what
  other programs have stored. They are constants: `CellConvertAssumption` says
  only that they are cells of a RecordBatch (a number fits its type), values of
  SQLite's classes or `numeric`s with any digits and weight, geometries, texts.
- `Write`, `Damage` and `Read` take one cell through `MaxTrips` conversions.
  `own` tells shpx's cells from those of other programs.
- `sample` is what a FlatGeobuf reader's sample of 65,536 features shows of the
  layer: it does not reach the end of the file ("cut"), or it does and has other
  values of the column ("filled") or none ("alone"). The reader narrows a
  DateTime column to Date32 by it (`Refined`). It is chosen once, for a layer
  has the same number of rows on every trip.
- PostGIS, SQL Server and SpatiaLite parse the WKB they are sent, geozero that of
  FlatGeobuf; these four are external.

## 3. What is checked

Bounds are in the .cfg files and MC modules. `expect: violation` runs are
section 5.

| run | instance | shows |
|---|---|---|
| `bridge_pg` | 9 rows, batch 2, channel 2, all faults | the thread and the iterator give ordered rows, an honest end, bounded memory and prompt cancellation, and implement LayerStream |
| `bridge_shp` | 8 rows, batch 2, conversion in `next()` | the same contract for Shapefile, and a source that ends on a full batch |
| `pager_busy` | all 64 tables over rowids -1..4, batch 2, 2 foreign writes, faults | scans under concurrent writers |
| `pager_quiet` | all 256 tables over rowids -1..6, batch 2, faults | keyset and OFFSET scans implement LayerStream on a table nobody writes to |
| `sampled` | every source of up to 3 or 4 rows, every sample size up to 4, batch 2, three ways to end a file, faults | the sampling readers implement LayerStream, and the schema keeps what the sample had |
| `pg_two` | 2 processes, 7 command lines each, 2 batches of 2 pieces, faults | concurrent loads into PostGIS are safe, implement LayerSink and end |
| `mssql_two` | 2 processes, 7 command lines each, batches of 2, 0, 3, 1 rows, chunk 3, 2 rows per INSERT, faults | the same for SQL Server |
| `convert_files` | 8 outputs, every option and CRS a driver decides on, special rows first, inside and last, batches of 2 and 1 rows, error or kill at every step | what is left at the path |
| `formats` | 215 cells (each Arrow type at its limits, geometries with empty and one-point parts) and 473 that other programs stored (other classes, byte orders, every envelope, bare multipoints, no WKT); three kinds of sample, 2 trips, all policies, every cut and five additions | losses are announced or listed, written cells can be read, damage is noticed |

Why the bounds are enough:

- Bridge: 9 rows make four full batches and a short one, one more than channel
  and thread hold, so the thread blocks; 8 rows end on a full batch.
- Pager: the tables cover every number of rows from zero to three (or four)
  batches, every position of gaps, and full, short and absent last batches.
- Sampling: the sample is empty, shorter than a batch, a batch, longer, and the
  whole source; two cells of different kinds fall on either side of its end.
- Database writers: two processes suffice for every race over a name; the command
  lines contain the defaults, both ways to replace a table, both ways that
  refuse, all index choices. Two pieces of a batch show torn batches. In
  `mssql_two` the chunk threshold is met exactly, exceeded by a batch, and left
  open at the end, and an empty batch comes in between.
- Files: the plans do not depend on the number of rows; a full and a short batch
  show a commit between and a failure inside batches. MCFileConvert varies the
  options in groups that no driver decides on together.
- Formats: a conversion looks at one cell; two trips are what it takes to compare
  what a driver read with what it reads again, and what one driver made of it
  with what the next does. Scales 0..5 cover every remainder by four with a digit
  above and below the point.

Properties by question:

- *Does the reader give the right rows?* `PrefixInOrder`, `EndIsComplete`,
  `RefinesLayerStream`, `RowsRise`, `KeptRowsSeen`, `SampleDecides`.
- *Does it stop?* `DropReleasesWorker`, `CancelBound`, `ScanEnds`, and the
  liveness of `RefinesLayerStream`.
- *Is memory bounded?* `InFlightBound`, `PendingBound`.
- *What is in the table or the file after a success, a failure, a crash?*
  `SuccessIsComplete`, `SuccessIsVisible`, `WholeBatches`, `BulkIsAtomic`,
  `ExactlyOnce`, `WholeChunks`, `RefinesLayerSink`, `SuccessReadsBack`,
  `KeepsOld`, `RefusalKeepsOld`.
- *Is the index there?* `IndexAsAsked`.
- *Is the value the same?* `ErrorMeansExact`, `OwnReaderReads`,
  `SecondTripStable`, `DamageIsNoticed`.

The last group and `SuccessReadsBack` name exceptions. They are the cases in
which the code changes or loses something unasked, listed one by one so that a
new one shows; section 5 says what each is:

- `SilentlyChanged` and `KnownUnreadable`, by driver and value; the former holds
  the dates of a FlatGeobuf file that is longer than the reader's sample;
- `SourceTruncated`, a text file or shapefile converted onto itself;
- `TornShapefile`, a shapefile whose Writer met an I/O error in its Drop;
- the .prj that a shapefile written without a CRS finds at its path.

TLC finds a violation as soon as one of them is taken out of its property.
`SuccessReadsBack` says nothing of the spatial index, which may be missing.
`ScanEnds` is about a bounded number of foreign writes, and not about a table
that is appended to itself.

Fairness. `StreamBridge`: weak fairness of the worker and of the consumer. Both
are OS threads; the source is assumed to answer (a socket that never answers is
not modelled), and the caller either asks again or drops the iterator, because
both loops of `convert` do one of the two. `PgWriter` and `MssqlWriter`: weak
fairness of each process's own steps, none of failures; a lock that stays free
is granted. `RowidPager` and `SampledReader`: weak fairness of the reader, none
of other connections. Nothing requires an error to happen. `FileConvert` and
`CellConvert` have safety properties only: they are single sequential runs.

## 4. What is proved

`StreamBridge_proofs`, for any number of rows, batch size, capacity and set of
faults: `TypeCorrect`, `Order` (PrefixInOrder), `EndOfStream` (EndIsComplete),
`BoundedCancel` (CancelBound), `BoundedMemory` (InFlightBound),
`NothingAfterTheEnd` (after the end or an error nothing is delivered), and `Implements`: each step is a
step of LayerStream or a stutter. The refinement reads the None after a panic as
the failure it is (`Verdict`); that the code does not say so is a finding below.

The inductive invariant `IInv` says, besides types, that

- `QueueOK`: the queued batches continue `seen` without a gap, each starts where
  the one before ends, and each is cut well (full, or the last of the source);
- `BufferOK`: the worker's chunk and buffer continue the queue up to `fetched`;
- `WorkerOK`: what the worker's position says about `final`, `fault` and the
  buffer; an error message is the last message of a worker that has exited;
- `AfterDrop`: what the worker may still have fetched after the drop.

None of the properties is inductive alone: that `next()` returns a prefix needs
to know what is in the channel, and that the end is complete needs to know that
a worker which exits without a fault has sent its last chunk.

`RowidPager_proofs`, for any table, batch size and writes of others:
`TypeCorrect`; of a keyset scan `Rising` (RowsRise) and `NothingSkipped`
(KeptRowsSeen); and, when nobody writes, `QuietScanStreams`: each step of either
pager is a step of LayerStream or a stutter. (With writers there is no one layer to stream.)
The lemmas are about counting: `Rank` numbers a finite set of rowids, a page is
the `Slice` of the ranks it starts and ends at, and its last rowid is its
greatest. `KeysetInv` says that all rows seen are at or below `cursor`, and that
none of `kept` there is missing; `QuietInv` that `seen[i]` has rank i and that
the cursor stands between rank Len(seen) and the next.

`SampledReader_proofs`, for any set of jobs (any rows, sample limit, cut):
`TypeCorrect`, `SampleKept` (SampleDecides) and `InOrder`: each step is a step
of LayerStream or a stutter. `OrderInv` places `buffer` and `pos` behind what is
delivered, `SampleInv` bounds the sample, `ColumnInv` says that the schema fits
every cell the sample has met, and `CauseInv` that only a query stops at a cell
of the wrong type. That the type GeoJSON infers takes each value it was merged
from is an induction over the sample (`MergedIs`, `MergedAbsorbs`).

`PgWriter_proofs`, for any set of processes and commands and any number of
batches and pieces: `TypeCorrect`, `NoTornBatch` (WholeBatches),
`SuccessComplete` (SuccessIsComplete), `CopyAtomic` (BulkIsAtomic),
`SuccessVisible` (SuccessIsVisible), `IndexWhereAsked` (IndexAsAsked), and
`ImplementsSink`: each step is a step of LayerSink or a stutter. `IInv` relates
the open transaction to the position in the load (`TxnInv`), the durable rows to
`done` (`DurInv`), position and result (`PcInv`) and adds that a bulk load is in
one table (`BulkInv`); `VisInv` says, when nobody overwrites, that the table once
seen stays. `IndexInv` says that the index of the name is either on the table of
the name or not of this table at all, because DROP TABLE takes its index along.

`MssqlWriter_proofs`, for any set of processes and commands, any sizes of the
batches and any chunk size: `TypeCorrect`, `OnceEach` (ExactlyOnce),
`ChunksAreWhole` (WholeChunks), `SuccessComplete` (SuccessIsComplete),
`BoundedPending` (PendingBound), `SuccessVisible` (SuccessIsVisible), and
`ImplementsSink`. The log speaks of rows, the code counts batches. `From(p)` is
the first row that is not durable, `To(p)` the first that is not read: `LogInv`
says that the log is the rows before `From(p)`, each once and in order,
`LoadInv` that fewer than a chunk were pending before the last batch and that a
bulk load stands at the end of a chunk, `PcInv` which of the rows between the
two `#temp` and the open transaction hold at each statement. That a chunk ends
where `ChunkEnd` says, and that the last ends with the source, is an induction
over the chunks (`ChunkEndIs`, `ChunkEndClosed`).

`FileConvert_proofs`, for any command lines, rows and batches, all seven drivers:
`TypeCorrect`, `OldLayerKept` (KeepsOld), `RefusalSpares` (RefusalKeepsOld),
`BatchesAreWhole` (WholeBatches), `ExitZeroReadsBack` (SuccessReadsBack). The
lists of `OpenPlan` and `FinishPlan` are read once, in `PlanOrder`, `PlanWhole`
and `FinishOrder` (what precedes what, and that nothing is missing); everything
else argues with `Opened`, the entries already behind. `CheckInv` says what a
passed check has established (`Promise`), `RowInv` what the rows left in the
bounding box and that only a shapefile dropped at the end is torn, `StreamInv`, `GpkgInv` and `SpatialiteInv` what is at the path
while the process runs, `DiskInv` what holds of it after a failure too.
`SuccessReadsBack` needs all of them: that the reader opens the file follows from
the checks passed at the start and the parts made since. The theorem has the
exceptions of section 3, `TornShapefile` among them.

`GeometryCodecs_proofs`, for every geometry, byte order, SRID and input:
`WkbRoundTrip`, `EwkbRoundTrip`, `GpkgRoundTrip`, `SpatialiteRoundTrip`,
`TextRoundTrip` (what was written is read as it was; a text may refuse what its
grammar cannot say), and `WkbDamageSeen`, `GpkgDamageSeen`,
`SpatialiteDamageSeen`, `TextDamageSeen` (what was cut off or added to is not
read as another geometry). Two facts travel from the tokens up to each whole
encoding. `Reader(f, X)`: what f accepts it accepts the same when more follows;
so an input and a longer one cannot both be accepted to their ends, and that is
why damage is noticed. `Reads(f, e, x, X)`: of e, whatever follows, f reads x; so
the parts of an encoding can be read one after the other. Each combinator
(`CountedIn`, `ListIn`, the uses of `Then`) hands both on, and each codec is built of
those. The sets `Geoms("bin")`, `Geoms("wkt")`, `Geoms("json")` are the
geometries a form can say: WKT has no empty list, neither text has NaN.

`CellConvert_proofs`, for every set of cells and of stored values of other
programs, every limit of the number types and any number of trips:
`LossIsNeverSilent` (ErrorMeansExact), `ReadersTakeTheirOwn` (OwnReaderReads),
`NoDamageTaken` (DamageIsNoticed), `ReadingSettles` (SecondTripStable).

- The theorem they rest on is `Carries`: of any cell, driver, path and policy,
  the driver's own reader takes what its writer stored, refuses only what
  `KnownUnreadable` lists, changes under `error` only what `SilentlyChanged`
  lists, and yields a cell that is `Settled`; a settled cell is stored and read
  again as it was. It is proved driver by driver, `AttributeCarries` from the
  type tables, geometries from the codecs. `DecimalRoundTrip` is PostGIS's
  numeric: the digits of every Decimal128 at every scale add up to it again, and
  the accumulator never leaves i128 on the way.
- `Carries` and `AttributeCarries` hold for each of the three samples. A Date32
  cell of a FlatGeobuf file is settled only if the sample reached the end of the
  file; otherwise the reader yields a timestamp, which is listed in
  `SilentlyChanged` for the first trip and settled for the next.
- `Settled(d, c, policy, view)` is what the invariant needs and none of the four
  properties says: which types and values the reader of d yields. Without it
  SecondTripStable has nothing to start from: that a reader's cell is stored
  unchanged depends on what that reader can yield, not on the cell alone.
- The inductive invariant `IInv` relates the stored cell to the one its writer
  was given (`StoredByOwn`: `stored` is what `Put` made of `before`, or differs
  from it by damage), the cell in Arrow to the stored one (`InPlace`), and says
  that what was read is settled (`InBatch`). `FromOutside` is the same for other
  programs' cells: `ForeignReceived` shows that a reader refuses them or yields
  a settled cell, `BytesReceived` that it does so for any bytes at all.

All proofs assume only the named ASSUMEs of the modules, which TLC evaluates in
each run; `QuietScanStreams` also that nobody writes (`MaxWrites = 0`). The
prover cannot apply an induction theorem that takes an operator: `SetInduction`
states induction over a set of naturals instead (a set that holds 0 and, with a
number, the next), and what a fold or a recursive function computes for every
number follows from that. It, and a few lemmas on least elements and on repeated
steps, stand in each proof module that needs them.

Only model-checked: liveness (`DropReleasesWorker`, `ScanEnds`, the fairness
part of the refinements), which the prover does not reach, and the violations of
section 5. Every invariant and every action property that a passing run checks
is also proved. `IInv` of CellConvert speaks of all inputs and cannot be
evaluated; its consequences are what `formats` checks.

## 5. Where code and documentation disagree

Three are runs that find the violation; PROJECT.json "findings" has the quotes.

| run | what happens |
|---|---|
| `bridge_eof_doc` | a panic in the reader thread looks like the end of the data: exit status 0, rows missing |
| `geojson_mix_doc` | a GeoJSON value after the sample that is not of the column's type is read as null; GEOJSON.md says the column is still demoted to text |
| `formats_sqlite_doc` | a GeoPackage with an Int8, Int16 or Int32 column cannot be read: the builder is Int64, as its comment says, and the schema is not; Float32, and SpatiaLite, have the same fault |

The others were read in the code while modelling it and have no run.

Readers and writers of databases:

- PostGIS `table_was_created` is stale when two loads start together: `auto`
  indexes a table it did not create (writer.rs:100-103). `always` creates no index
  if another table of the schema owns the name (opts.rs:86 says it always does).
- SQL Server: `--create-table=always` drops a table without `--overwrite`
  (opts.rs:67 says it stops); `--create-index=always` on a table that has the
  index fails after all rows are committed (opts.rs:86 says it is safe).
- The pager never reads rows with rowid <= 0; streaming.rs:154 says nothing
  follows a short batch, which other writers can make untrue.
- `shp/reader.rs:15` says two batches are in flight, `InFlightBound` shows three.
- POSTGIS.md:139 says `--create-index=auto` indexes an existing table with
  if-not-exists; the code (like opts.rs) does not. POSTGIS.md:171 maps UInt64 to
  numeric(20,0); type_map.rs refuses it.
- An unconstrained PostGIS numeric is read as Decimal128(38,0), its fraction cut.
  SQL Server decimals beyond 96 bits pass in bulk mode, fail in batch mode, and
  cannot be read back.

Values and geometries (`SilentlyChanged`, `KnownUnreadable`):

- Shapefile stores Float64 as f32 and Int64, UInt32, decimals as f64 even under
  `--on-loss error`; the comment at shp/writer.rs:242 says this was checked when
  the schema was built, and it is not. MultiPolygons come back as one Polygon. A
  timestamp column planned as Date under `warn` has no arm that writes it: the
  conversion fails at the first value, ON_LOSS.md says the date part is written.
- CSV writes nulls as empty text and EMPTY or NaN geometries as WKT its own
  reader refuses; the same for GeoJSON and NaN.
- Dates written to FlatGeobuf come back as midnights of a UTC timestamp column
  when the file has 65,536 features or more (fgb/reader.rs:167, 631-637), and
  `--on-loss error` does not object. FGB.md:12 names no limit, the comment at
  fgb/reader.rs:11-14 does.
- SpatiaLite turns WKB it cannot parse, and empty geometries, into NULL;
  FlatGeobuf ignores bytes after the geometry; times are cut to microseconds.
- ON_LOSS.md says GeoJSON leaves out decimals, times and binaries under `warn`
  and `skip` alike; under `warn` the code keeps them as text or null.
- ON_LOSS.md:43 and :46 have GeoPackage and SpatiaLite store a UInt64 beyond
  i64::MAX as i64::MAX or NULL; type_map.rs refuses every UInt64 column before
  that. ON_LOSS.md:48 has FlatGeobuf store decimals as text; they become f64.
  ON_LOSS.md:58 says a column DBF has no type for never stops a conversion;
  dbf_schema.rs:194 refuses it under `error`.

Files:

- CSV truncates its target before it looks at the columns, Parquet before it
  looks for a geometry, GeoPackage and SpatiaLite delete theirs first of all: a
  command they must refuse has destroyed the layer it was to overwrite.
- A shapefile written without a CRS keeps the .prj of the one before.
- A shapefile's last bytes and headers are written in Drop, after `finish` has
  answered Ok (shp/writer.rs:148-153): if the disk is full then, the exit status
  is 0 and the layer is torn. shpx-core/src/driver.rs:82 and :89 say that
  `finish` finalizes, footer and closing included.
- CreateSpatialIndex answers 0 when it fails and the answer is not looked at
  (spatialite/writer.rs:149): success without the index. The comment at :144 says
  that a failure becomes an error.
- CSV, GeoJSON, Shapefile and Parquet destroy their own source under
  `--overwrite` onto it; SpatiaLite's append of a table to itself has no end once
  a page is full.
- FlatGeobuf drops the WKT of a CRS with any authority code; Parquet's embedded
  schema hides the CRS of the geo key, `--src-crs` included.
- A FeatureCollection cut after a comma ends silently. An array before
  `features` is taken for it. A `crs` member that cannot be read is an error even
  with `--src-crs`. CSV takes the geometry type from the first cell that has one.

## 6. What is not modelled, and the plan

Not modelled: formatting and logging; the registry (a linear search over a
constant list) and the runtime (a `OnceLock`); the benchmark; reprojection, PROJ
and the texts of coordinate systems (floating point, string formats);
character encodings, CSV quoting and the JSON grammar; the parsing of URIs and
table names; the row PostGIS's writer puts into spatial_ref_sys, which nothing
modelled reads; Z and M, which the readers refuse or drop; PostgreSQL's numeric
infinities, of which the decoder knows nothing (it has NaN); and, in CellConvert,
the type of a GeoJSON column with values of several kinds, which SampledReader
has. Two compositions would need the two sides in one model: a PostGIS table converted onto itself
with `--overwrite` (the reader's SELECT against the writer's DROP TABLE), and the
SpatiaLite self-append.

Next: StreamBridge composed with PgWriter, end to end, from `Implements` and
`ImplementsSink`: exit 0 means that all rows of the source table are durable.
