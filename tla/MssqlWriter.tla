---------------------------- MODULE MssqlWriter ----------------------------
(***************************************************************************)
(* The SQL Server writer as `shpx convert` drives it, against the server:  *)
(* processes of Procs, each one command, load into one table name.         *)
(*                                                                         *)
(* write_batch inserts a batch with several multi-row INSERTs between      *)
(* BEGIN TRAN and COMMIT TRAN.  bulk_write (staging.rs) gathers batches    *)
(* until they hold ChunkSize rows and then, in one transaction, copies     *)
(* them to a #temp table of its connection, moves them to the target with  *)
(* INSERT ... SELECT and truncates the #temp table.                        *)
(*                                                                         *)
(* A row is its position in the source, [from, to] stands for the rows     *)
(* from+1 .. to, and batch b ends at row Ends[b].  A process creates at    *)
(* most one table, named after it; Old is the one found at the start.      *)
(***************************************************************************)
EXTENDS Naturals, Sequences, FiniteSetsExt

CONSTANTS Procs,      \* the shpx processes
          Commands,   \* the options a process may be started with
          NBatches,   \* batches of the source
          Ends,       \* Ends[b]: rows in the first b batches
          ChunkSize,  \* SHPX_MSSQL_BULK_CHUNK (100,000)
          ChunkRows,  \* rows of a multi-row INSERT (multirow_chunk_rows)
          Faults,     \* TRUE if statements may fail and processes be killed
          None,       \* no table
          Old         \* the table found under the name at the start

AllCommands == [mode      : {"bulk", "batch"},
                overwrite : BOOLEAN,
                create    : {"if-not-exists", "always", "never"},
                index     : {"auto", "always", "never"},
                bbox      : BOOLEAN]  \* geography, or an SRID of bbox_for_epsg

ASSUME MssqlWriterAssumption ==
    /\ Commands \subseteq AllCommands
    /\ NBatches \in Nat
    /\ Ends \in [0..NBatches -> Nat] /\ Ends[0] = 0
    /\ \A b \in 1..NBatches : Ends[b - 1] <= Ends[b]
    /\ ChunkSize \in Nat \ {0} /\ ChunkRows \in Nat \ {0}
    /\ Faults \in BOOLEAN
    /\ None \notin Procs /\ Old \notin Procs /\ None # Old

NRows == Ends[NBatches]

Tables == Procs \cup {Old}

VARIABLES
    opt,      \* opt[p]: the command line of p
    pc,       \* pc[p]: the statement p sends next
    read,     \* read[p]: batches taken from the iterator
    sent,     \* sent[p]: batches whose transaction was committed; the ones
              \* after them up to read[p] are `pending`
    staged,   \* staged[p]: the rows in the #temp table of p
    txn,      \* txn[p]: the rows of the target that p has not committed
    tgt,      \* tgt[p]: the table that transaction has locked, or None
    log,      \* history: the commits of p, as the rows and their table
    result,   \* result[p]: "none" while p runs, then its exit status
    tbl,      \* the table the name stands for
    pk,       \* TRUE if Old has the primary key a spatial index needs
    idx       \* the tables with a spatial index

load == <<read, sent, staged, txn, log>>
vars == <<opt, pc, load, tgt, result, tbl, pk, idx>>

Rows(from, to) == [from |-> from, to |-> to]
Count(r) == r.to - r.from

Init == /\ opt \in [Procs -> Commands]
        /\ pc = [p \in Procs |-> "open"]
        /\ read = [p \in Procs |-> 0] /\ sent = [p \in Procs |-> 0]
        /\ staged = [p \in Procs |-> Rows(0, 0)]
        /\ txn = [p \in Procs |-> Rows(0, 0)]
        /\ tgt = [p \in Procs |-> None]
        /\ log = [p \in Procs |-> <<>>]
        /\ result = [p \in Procs |-> "none"]
        /\ tbl \in {None, Old}
        /\ pk \in BOOLEAN
        /\ idx \in {{}} \cup (IF pk /\ tbl = Old THEN {{Old}} ELSE {})

----------------------------------------------------------------------------
(* Helpers. *)

Goto(p, label) == pc' = [pc EXCEPT ![p] = label]

\* The process exits: its connection closes, and with it go the open
\* transaction (there is no ROLLBACK in the code) and the #temp table.
End(p, status) == /\ Goto(p, "end")
                  /\ result' = [result EXCEPT ![p] = status]
                  /\ tgt' = [tgt EXCEPT ![p] = None]

\* No process has a transaction open on t.
Unlocked(t) == t = None \/ \A p \in Procs : tgt[p] # t

\* COMMIT TRAN; an empty batch commits nothing.
Commit(p) == /\ log' = IF Count(txn[p]) = 0 THEN log
                       ELSE [log EXCEPT ![p] = Append(@,
                               [table |-> tgt[p], rows |-> txn[p]])]
             /\ txn' = [txn EXCEPT ![p] = Rows(@.to, @.to)]
             /\ sent' = [sent EXCEPT ![p] = read[p]]

----------------------------------------------------------------------------
(* SqlServerWriter::open. *)

Resolve(p) ==
    /\ pc[p] = "open"
    /\ IF opt[p].overwrite /\ opt[p].create = "never"
       THEN End(p, "err")
       ELSE /\ Goto(p, IF opt[p].overwrite THEN "drop" ELSE "probe")
            /\ UNCHANGED <<result, tgt>>
    /\ UNCHANGED <<opt, load, tbl, pk, idx>>

\* IF OBJECT_ID(...) IS NOT NULL, of --overwrite.
CheckDrop(p) ==
    /\ pc[p] = "drop"
    /\ Goto(p, IF tbl = None THEN "probe" ELSE "dropNow")
    /\ UNCHANGED <<opt, load, tgt, result, tbl, pk, idx>>

\* DROP TABLE, of --overwrite or of --create-table=always, waits for the
\* transactions open on the table and fails if the table is gone.
DropTable(p) ==
    /\ pc[p] \in {"dropNow", "redrop"} /\ Unlocked(tbl)
    /\ IF tbl = None
       THEN End(p, "err") /\ UNCHANGED <<tbl, idx>>
       ELSE /\ tbl' = None /\ idx' = idx \ {tbl}
            /\ Goto(p, IF pc[p] = "redrop" THEN "create" ELSE "probe")
            /\ UNCHANGED <<tgt, result>>
    /\ UNCHANGED <<opt, load, pk>>

\* Mutant: if-not-exists takes the way of always.
ProbeReplaces(p) ==
    /\ pc[p] = "probe"
    /\ IF opt[p].create = "never" /\ tbl = None
       THEN End(p, "err")
       ELSE /\ Goto(p, IF opt[p].create = "never" THEN "next"
                       ELSE IF tbl = None THEN "create" ELSE "redrop")
            /\ UNCHANGED <<result, tgt>>
    /\ UNCHANGED <<opt, load, tbl, pk, idx>>

\* table_exists, and the way each --create-table takes from its answer.
Probe(p) ==
    /\ pc[p] = "probe"
    /\ IF opt[p].create = "never" /\ tbl = None
       THEN End(p, "err")
       ELSE /\ Goto(p, CASE tbl = None -> "create"
                         [] tbl # None /\ opt[p].create = "always" -> "redrop"
                         [] OTHER -> "next")
            /\ UNCHANGED <<result, tgt>>
    /\ UNCHANGED <<opt, load, tbl, pk, idx>>

\* A plain CREATE TABLE: it fails if another process was faster.
CreateTable(p) ==
    /\ pc[p] = "create"
    /\ IF tbl = None
       THEN /\ tbl' = p /\ Goto(p, "next")
            /\ UNCHANGED <<tgt, result>>
       ELSE End(p, "err") /\ UNCHANGED tbl
    /\ UNCHANGED <<opt, load, pk, idx>>

----------------------------------------------------------------------------
(* The loops over the iterator: run_batch and run_bulk_chunks. *)

\* Mutant: the threshold is never compared.
PullBatchNoFlush(p) ==
    /\ pc[p] = "next" /\ read[p] < NBatches
    /\ read' = [read EXCEPT ![p] = @ + 1]
    /\ Goto(p, IF opt[p].mode = "bulk" THEN "next"
               ELSE IF Ends[read[p] + 1] = Ends[read[p]] THEN "commit"
               ELSE "insert")
    /\ UNCHANGED <<opt, sent, staged, txn, log, tgt, result, tbl, pk, idx>>

\* The iterator yields a batch.
PullBatch(p) ==
    /\ pc[p] = "next" /\ read[p] < NBatches
    /\ read' = [read EXCEPT ![p] = @ + 1]
    /\ Goto(p, IF opt[p].mode = "bulk"
               THEN IF Ends[read[p] + 1] - Ends[sent[p]] >= ChunkSize
                    THEN "stage" ELSE "next"
               ELSE IF Ends[read[p] + 1] = Ends[read[p]]
                    THEN "commit" ELSE "insert")
    /\ UNCHANGED <<opt, sent, staged, txn, log, tgt, result, tbl, pk, idx>>

\* Mutant: the last, partial chunk is forgotten.
SourceEndsNoFlush(p) ==
    /\ pc[p] = "next" /\ read[p] = NBatches
    /\ Goto(p, "index")
    /\ UNCHANGED <<opt, load, tgt, result, tbl, pk, idx>>

\* The iterator is exhausted; rows still pending are flushed.
SourceEnds(p) ==
    /\ pc[p] = "next" /\ read[p] = NBatches
    /\ Goto(p, IF opt[p].mode = "bulk" /\ Ends[read[p]] > Ends[sent[p]]
               THEN "stage" ELSE "index")
    /\ UNCHANGED <<opt, load, tgt, result, tbl, pk, idx>>

\* A statement writes `rows` to the target: the table must be there, and is
\* locked until the transaction ends.
WriteTarget(p, rows, next) ==
    IF tgt[p] = None /\ tbl = None
    THEN End(p, "err") /\ UNCHANGED txn
    ELSE /\ txn' = [txn EXCEPT ![p] = rows]
         /\ tgt' = [tgt EXCEPT ![p] = IF @ = None THEN tbl ELSE @]
         /\ Goto(p, next)
         /\ UNCHANGED result

\* Mutant: every INSERT takes ChunkRows rows.
InsertPastEnd(p) ==
    /\ pc[p] = "insert"
    /\ LET upTo == txn[p].to + ChunkRows
       IN  WriteTarget(p, Rows(txn[p].from, upTo),
                       IF upTo >= Ends[read[p]] THEN "commit" ELSE "insert")
    /\ UNCHANGED <<opt, read, sent, staged, log, tbl, pk, idx>>

\* Mutant: every INSERT is committed by itself.
InsertCommits(p) ==
    /\ pc[p] = "insert"
    /\ LET upTo == Min({txn[p].to + ChunkRows, Ends[read[p]]})
       IN  IF tbl = None THEN End(p, "err") /\ UNCHANGED <<txn, log>>
           ELSE /\ txn' = [txn EXCEPT ![p] = Rows(upTo, upTo)]
                /\ log' = [log EXCEPT ![p] = Append(@,
                              [table |-> tbl, rows |-> Rows(txn[p].from, upTo)])]
                /\ Goto(p, IF upTo = Ends[read[p]] THEN "commit" ELSE "insert")
                /\ UNCHANGED <<tgt, result>>
    /\ UNCHANGED <<opt, read, sent, staged, tbl, pk, idx>>

\* write_batch: one multi-row INSERT of at most ChunkRows rows.
Insert(p) ==
    /\ pc[p] = "insert"
    /\ LET upTo == Min({txn[p].to + ChunkRows, Ends[read[p]]})
       IN  WriteTarget(p, Rows(txn[p].from, upTo),
                       IF upTo = Ends[read[p]] THEN "commit" ELSE "insert")
    /\ UNCHANGED <<opt, read, sent, staged, log, tbl, pk, idx>>

\* flush_chunk: BEGIN TRAN and bulk_insert of the pending batches, which adds
\* to what the #temp table holds.
Stage(p) ==
    /\ pc[p] = "stage"
    /\ staged' = [staged EXCEPT ![p] =
                     Rows(IF Count(@) = 0 THEN Ends[sent[p]] ELSE @.from,
                          Ends[read[p]])]
    /\ Goto(p, "transfer")
    /\ UNCHANGED <<opt, read, sent, txn, log, tgt, result, tbl, pk, idx>>

\* flush_chunk: INSERT INTO target ... SELECT ... FROM #temp.
Transfer(p) ==
    /\ pc[p] = "transfer"
    /\ WriteTarget(p, staged[p], "truncate")
    /\ UNCHANGED <<opt, read, sent, staged, log, tbl, pk, idx>>

\* Mutant: the #temp table is not emptied.
TruncateForgotten(p) ==
    /\ pc[p] = "truncate"
    /\ Goto(p, "commit")
    /\ UNCHANGED <<opt, load, tgt, result, tbl, pk, idx>>

\* flush_chunk: TRUNCATE TABLE #temp.
Truncate(p) ==
    /\ pc[p] = "truncate"
    /\ staged' = [staged EXCEPT ![p] = Rows(@.to, @.to)]
    /\ Goto(p, "commit")
    /\ UNCHANGED <<opt, read, sent, txn, log, tgt, result, tbl, pk, idx>>

\* COMMIT TRAN of write_batch and of flush_chunk.
CommitTran(p) ==
    /\ pc[p] = "commit"
    /\ Commit(p)
    /\ tgt' = [tgt EXCEPT ![p] = None]
    /\ Goto(p, "next")
    /\ UNCHANGED <<opt, read, staged, result, tbl, pk, idx>>

----------------------------------------------------------------------------
(* finish, and what may go wrong anywhere. *)

\* maybe_create_spatial_index: CREATE SPATIAL INDEX, which has no IF NOT
\* EXISTS, needs a bounding box, a primary key and a table without one.
Finish(p) ==
    /\ pc[p] = "index"
    /\ \/ /\ opt[p].index # "always"
          /\ End(p, "ok") /\ UNCHANGED idx
       \/ /\ opt[p].index = "always" /\ (~opt[p].bbox \/ Unlocked(tbl))
          /\ IF opt[p].bbox /\ tbl = Old /\ pk /\ tbl \notin idx
             THEN End(p, "ok") /\ idx' = idx \cup {tbl}
             ELSE End(p, "err") /\ UNCHANGED idx
    /\ UNCHANGED <<opt, load, tbl, pk>>

\* Mutant: an Err of the iterator ends the loop as None does.
FailSwallowed(p) ==
    /\ Faults /\ pc[p] # "end"
    /\ End(p, IF pc[p] = "next" THEN "ok" ELSE "err")
    /\ UNCHANGED <<opt, load, tbl, pk, idx>>

\* A statement, the reader or a conversion fails, or the process is killed.
Fail(p) ==
    /\ Faults /\ pc[p] # "end"
    /\ End(p, "err")
    /\ UNCHANGED <<opt, load, tbl, pk, idx>>

\* The server commits but its answer never arrives.
CommitUnanswered(p) ==
    /\ Faults /\ pc[p] = "commit"
    /\ Commit(p)
    /\ End(p, "err")
    /\ UNCHANGED <<opt, read, staged, tbl, pk, idx>>

----------------------------------------------------------------------------
Open(p) == Resolve(p) \/ CheckDrop(p) \/ DropTable(p) \/ Probe(p) \/ CreateTable(p)

Load(p) == \/ PullBatch(p) \/ SourceEnds(p) \/ Insert(p)
           \/ Stage(p) \/ Transfer(p) \/ Truncate(p) \/ CommitTran(p)

Step(p) == Open(p) \/ Load(p) \/ Finish(p)

Terminated == (\A p \in Procs : pc[p] = "end") /\ UNCHANGED vars

Next == \/ \E p \in Procs : Step(p) \/ Fail(p) \/ CommitUnanswered(p)
        \/ Terminated

Spec == Init /\ [][Next]_vars

\* Every process that is not killed goes on, and the server answers.
FairSpec == Spec /\ \A p \in Procs : WF_vars(Step(p))

----------------------------------------------------------------------------
(* Properties. *)

Intervals == [from : 0..NRows, to : 0..NRows]

\* The type invariant.
TypeOK ==
    /\ opt \in [Procs -> Commands]
    /\ pc \in [Procs -> {"open", "drop", "dropNow", "probe", "redrop", "create",
                         "next", "insert", "stage", "transfer", "truncate",
                         "commit", "index", "end"}]
    /\ read \in [Procs -> 0..NBatches] /\ sent \in [Procs -> 0..NBatches]
    /\ staged \in [Procs -> Intervals] /\ txn \in [Procs -> Intervals]
    /\ tgt \in [Procs -> Tables \cup {None}]
    /\ log \in [Procs -> Seq([table : Tables, rows : Intervals])]
    /\ result \in [Procs -> {"none", "ok", "err"}]
    /\ tbl \in Tables \cup {None}
    /\ pk \in BOOLEAN
    /\ idx \subseteq Tables

\* The rows of p that are durable: the first Loaded(p), by ExactlyOnce.
Loaded(p) == IF log[p] = <<>> THEN 0 ELSE log[p][Len(log[p])].rows.to

\* Where a transaction of p may end: after any batch, or, for a bulk load,
\* after the first batch that brings the rows since the last end to ChunkSize.
FlushEnd(b) == Min({c \in b..NBatches :
                       c = NBatches \/ Ends[c] - Ends[b] >= ChunkSize})
ChunkEnd[i \in 0..NBatches] == IF i = 0 THEN 0 ELSE FlushEnd(ChunkEnd[i - 1])
BulkCuts == {Ends[ChunkEnd[i]] : i \in 0..NBatches} \cup {NRows}
BatchCuts == {Ends[b] : b \in 0..NBatches}
Cuts(p) == IF opt[p].mode = "bulk" THEN BulkCuts ELSE BatchCuts

\* A row is committed once: no transaction repeats rows of another, none
\* skips any, through the #temp table and across failures (flush_chunk).
ExactlyOnce ==
    \A p \in Procs : \A i \in 1..Len(log[p]) :
        /\ log[p][i].rows.from = (IF i = 1 THEN 0 ELSE log[p][i - 1].rows.to)
        /\ Count(log[p][i].rows) > 0

\* What is durable is whole batches, or for a bulk load whole chunks, at any
\* moment and after any failure, though no statement ever says ROLLBACK.
WholeChunks == \A p \in Procs : Loaded(p) \in Cuts(p)

\* A command that exits with status 0 has committed every row.
SuccessIsComplete == \A p \in Procs : result[p] = "ok" => Loaded(p) = NRows

\* A load that succeeded while no command had --overwrite or
\* --create-table=always is whole in the table the name stands for.
SuccessIsVisible ==
    (\A q \in Procs : ~opt[q].overwrite /\ opt[q].create # "always") =>
        \A p \in Procs : result[p] = "ok" =>
            \A i \in 1..Len(log[p]) : log[p][i].table = tbl

\* What a bulk load keeps in memory, and in the #temp table, is less than a
\* chunk and one batch (SQLSERVER.md: 10M rows do not overflow tempdb).
PendingBound ==
    \A p \in Procs :
        LET batches == {Ends[b] - Ends[b - 1] : b \in 1..NBatches}
            most == ChunkSize - 1 + Max({0} \cup batches)
        IN  /\ Ends[read[p]] - Ends[sent[p]] <= most
            /\ Count(staged[p]) <= most

\* The commands implement LayerSink, a bulk load chunk by chunk; so every
\* command ends, locks never leave two of them waiting for ever.
Sink == INSTANCE LayerSink WITH
            Size   <- NRows,
            cuts   <- [p \in Procs |-> Cuts(p)],
            loaded <- [p \in Procs |-> Loaded(p)]
RefinesLayerSink == Sink!Spec
============================================================================
