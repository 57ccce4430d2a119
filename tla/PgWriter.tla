------------------------------ MODULE PgWriter ------------------------------
(***************************************************************************)
(* The PostGIS writer as `shpx convert` drives it (run_bulk, run_batch),   *)
(* against the server it writes to: processes of Procs, each one command,  *)
(* load into one table name, at the same time or one after the other (a    *)
(* retry is a process that starts after another ended).                    *)
(*                                                                         *)
(* A batch is sent in Chunks pieces, multi-row INSERTs of write_batch or   *)
(* flushes of the COPY buffer; <<b, c>> is piece c of batch b.  A process  *)
(* creates at most one table, so a table is named after its creator; Old   *)
(* is the table that was there before.                                     *)
(* Statements outside a transaction are atomic, as PostgreSQL runs them.   *)
(* The row register_srs_if_missing may add to spatial_ref_sys is left out: *)
(* nothing below reads it.                                                 *)
(***************************************************************************)
EXTENDS Naturals, FiniteSets

CONSTANTS Procs,      \* the shpx processes
          Commands,   \* the options a process may be started with
          NBatches,   \* batches of the source
          Chunks,     \* pieces of a batch: ceil(rows / chunk_rows)
          None,       \* no table
          Old,        \* the table found under the name at the start
          Foreign     \* another table of the schema

AllCommands == [mode      : {"bulk", "batch"},        \* --insert-mode
                overwrite : BOOLEAN,                  \* --overwrite
                create    : {"if-not-exists", "always", "never"},
                index     : {"auto", "always", "never"}]

ASSUME PgWriterAssumption ==
    /\ Commands \subseteq AllCommands
    /\ NBatches \in Nat \ {0} /\ Chunks \in Nat \ {0}
    /\ None \notin Procs /\ Old \notin Procs /\ Foreign \notin Procs
    /\ None # Old /\ None # Foreign /\ Old # Foreign

Units == (1..NBatches) \X (1..Chunks)

Tables == Procs \cup {Old}

VARIABLES
    opt,      \* opt[p]: the command line of p
    pc,       \* pc[p]: the statement p sends next
    existed,  \* existed[p]: existed_before, what the probe of pg_class said
    batch,    \* batch[p]: batches p has sent whole
    chunk,    \* chunk[p]: pieces sent of the batch that follows them
    txn,      \* txn[p]: the units in p's open transaction
    tgt,      \* tgt[p]: the table that transaction has locked, or None
    done,     \* history: the batches of p that are durable
    result,   \* result[p]: "none" while p runs, then its exit status
    tbl,      \* the table the name stands for
    rows,     \* rows[t]: the <<process, batch, chunk>> committed to t, kept
              \* as a history when t is dropped
    idxOn     \* the table that owns the index named idx_<table>_<geom>

load == <<batch, chunk, txn, done>>
vars == <<opt, pc, existed, load, tgt, result, tbl, rows, idxOn>>

\* The table may be there; so may an index of that name, on it or, after a
\* rename or by the way names concatenate, on another table.
Init == /\ opt \in [Procs -> Commands]
        /\ pc = [p \in Procs |-> "open"]
        /\ existed = [p \in Procs |-> FALSE]
        /\ batch = [p \in Procs |-> 0] /\ chunk = [p \in Procs |-> 0]
        /\ txn = [p \in Procs |-> {}] /\ done = [p \in Procs |-> 0]
        /\ tgt = [p \in Procs |-> None]
        /\ result = [p \in Procs |-> "none"]
        /\ tbl \in {None, Old}
        /\ rows = [t \in Tables |-> {}]
        /\ idxOn \in {None, tbl, Foreign}

----------------------------------------------------------------------------
(* Helpers. *)

Goto(p, label) == pc' = [pc EXCEPT ![p] = label]

\* The process exits: its connection closes and its transaction is gone.
End(p, status) == /\ Goto(p, "end")
                  /\ result' = [result EXCEPT ![p] = status]
                  /\ tgt' = [tgt EXCEPT ![p] = None]

\* No process has a transaction open on t (ROW EXCLUSIVE lock).
Unlocked(t) == t = None \/ \A p \in Procs : tgt[p] # t

\* The transaction of p becomes durable.
Commit(p) == /\ rows' = [rows EXCEPT ![tgt[p]] = @ \cup
                            {<<p, u[1], u[2]>> : u \in txn[p]}]
             /\ done' = [done EXCEPT ![p] = batch[p]]
             /\ txn' = [txn EXCEPT ![p] = {}]

\* `table_was_created`.
WasCreated(p) == opt[p].create # "never" /\ ~existed[p]

----------------------------------------------------------------------------
(* PostgisWriter::open. *)

\* ResolvedWriteOpts::resolve rejects a DROP that nothing would undo.
Resolve(p) ==
    /\ pc[p] = "open"
    /\ IF opt[p].overwrite /\ opt[p].create = "never"
       THEN End(p, "err")
       ELSE /\ Goto(p, IF opt[p].overwrite THEN "drop" ELSE "probe")
            /\ UNCHANGED <<result, tgt>>
    /\ UNCHANGED <<opt, existed, load, tbl, rows, idxOn>>

\* DROP TABLE IF EXISTS waits for the transactions open on the table; the
\* index of the table goes with it.
DropTable(p) ==
    /\ pc[p] = "drop" /\ Unlocked(tbl)
    /\ tbl' = None
    /\ idxOn' = IF idxOn = tbl THEN None ELSE idxOn
    /\ Goto(p, "probe")
    /\ UNCHANGED <<opt, existed, load, tgt, result, rows>>

\* table_exists, and what --create-table=never makes of its answer.
Probe(p) ==
    /\ pc[p] = "probe"
    /\ existed' = [existed EXCEPT ![p] = tbl # None]
    /\ IF opt[p].create = "never" /\ tbl = None
       THEN End(p, "err")
       ELSE /\ Goto(p, IF opt[p].create = "never" THEN "load" ELSE "create")
            /\ UNCHANGED <<result, tgt>>
    /\ UNCHANGED <<opt, load, tbl, rows, idxOn>>

\* Mutant: `always` replaces the table, as the SQL Server writer does.
CreateTableReplaces(p) ==
    /\ pc[p] = "create"
    /\ tbl' = IF tbl = None \/ opt[p].create = "always" THEN p ELSE tbl
    /\ Goto(p, "load")
    /\ UNCHANGED <<opt, existed, load, tgt, result, rows, idxOn>>

\* CREATE TABLE [IF NOT EXISTS]: "relation already exists" stops `always`.
CreateTable(p) ==
    /\ pc[p] = "create"
    /\ \/ /\ tbl = None
          /\ tbl' = p /\ Goto(p, "load")
          /\ UNCHANGED <<result, tgt>>
       \/ /\ tbl # None /\ opt[p].create = "if-not-exists"
          /\ Goto(p, "load")
          /\ UNCHANGED <<tbl, result, tgt>>
       \/ /\ tbl # None /\ opt[p].create = "always"
          /\ End(p, "err")
          /\ UNCHANGED tbl
    /\ UNCHANGED <<opt, existed, load, rows, idxOn>>

----------------------------------------------------------------------------
(* bulk_write: one COPY for the whole iterator. *)

\* copy_in locks the table the name stands for at that moment.
BeginCopy(p) ==
    /\ pc[p] = "load" /\ opt[p].mode = "bulk"
    /\ IF tbl = None
       THEN End(p, "err")
       ELSE /\ tgt' = [tgt EXCEPT ![p] = tbl]
            /\ Goto(p, "copy")
            /\ UNCHANGED result
    /\ UNCHANGED <<opt, existed, load, tbl, rows, idxOn>>

\* Mutant: the loop over the pieces runs once too often.
SendPieceTooMany(p) ==
    /\ batch[p] <= NBatches
    /\ txn' = [txn EXCEPT ![p] = @ \cup {<<batch[p] + 1, chunk[p] + 1>>}]
    /\ IF chunk[p] + 1 = Chunks
       THEN /\ batch' = [batch EXCEPT ![p] = @ + 1]
            /\ chunk' = [chunk EXCEPT ![p] = 0]
       ELSE /\ chunk' = [chunk EXCEPT ![p] = @ + 1]
            /\ UNCHANGED batch
    /\ UNCHANGED done

\* The next piece of the batch in hand goes into the open transaction.
SendPiece(p) ==
    /\ batch[p] < NBatches
    /\ txn' = [txn EXCEPT ![p] = @ \cup {<<batch[p] + 1, chunk[p] + 1>>}]
    /\ IF chunk[p] + 1 = Chunks
       THEN /\ batch' = [batch EXCEPT ![p] = @ + 1]
            /\ chunk' = [chunk EXCEPT ![p] = 0]
       ELSE /\ chunk' = [chunk EXCEPT ![p] = @ + 1]
            /\ UNCHANGED batch
    /\ UNCHANGED done

CopyPiece(p) ==
    /\ pc[p] = "copy" /\ SendPiece(p)
    /\ UNCHANGED <<opt, pc, existed, tgt, result, tbl, rows, idxOn>>

\* Mutant: the COPY is finished, not abandoned, when the iterator fails.
FinishCopyAnyway(p) ==
    /\ pc[p] = "copy"
    /\ Commit(p)
    /\ tgt' = [tgt EXCEPT ![p] = None]
    /\ IF batch[p] = NBatches
       THEN Goto(p, "index") /\ UNCHANGED result
       ELSE Goto(p, "end") /\ result' = [result EXCEPT ![p] = "err"]
    /\ UNCHANGED <<opt, existed, batch, chunk, tbl, idxOn>>

\* The iterator is exhausted: CopyInSink::finish.
FinishCopy(p) ==
    /\ pc[p] = "copy" /\ batch[p] = NBatches
    /\ Commit(p)
    /\ tgt' = [tgt EXCEPT ![p] = None]
    /\ Goto(p, "index")
    /\ UNCHANGED <<opt, existed, batch, chunk, result, tbl, idxOn>>

----------------------------------------------------------------------------
(* write_batch: one transaction per batch. *)

\* Mutant: a COMMIT after every multi-row INSERT.
InsertThenCommit(p) ==
    /\ pc[p] = "load" /\ opt[p].mode = "batch"
    /\ IF tgt[p] = None /\ tbl = None
       THEN End(p, "err") /\ UNCHANGED load
       ELSE /\ SendPiece(p)
            /\ tgt' = [tgt EXCEPT ![p] = IF @ = None THEN tbl ELSE @]
            /\ Goto(p, "commit")
            /\ UNCHANGED result
    /\ UNCHANGED <<opt, existed, tbl, rows, idxOn>>

\* A multi-row INSERT; the first one of the transaction locks the table.
Insert(p) ==
    /\ pc[p] = "load" /\ opt[p].mode = "batch"
    /\ IF tgt[p] = None /\ tbl = None
       THEN End(p, "err") /\ UNCHANGED load
       ELSE /\ SendPiece(p)
            /\ tgt' = [tgt EXCEPT ![p] = IF @ = None THEN tbl ELSE @]
            /\ Goto(p, IF chunk[p] + 1 = Chunks THEN "commit" ELSE "load")
            /\ UNCHANGED result
    /\ UNCHANGED <<opt, existed, tbl, rows, idxOn>>

\* Mutant: the last batch is not asked for.
CommitBatchStopsEarly(p) ==
    /\ pc[p] = "commit"
    /\ Commit(p)
    /\ tgt' = [tgt EXCEPT ![p] = None]
    /\ Goto(p, IF batch[p] + 1 >= NBatches THEN "index" ELSE "load")
    /\ UNCHANGED <<opt, existed, batch, chunk, result, tbl, idxOn>>

\* tx.commit() succeeds; run_batch asks for the next batch or finishes.
CommitBatch(p) ==
    /\ pc[p] = "commit"
    /\ Commit(p)
    /\ tgt' = [tgt EXCEPT ![p] = None]
    /\ Goto(p, IF batch[p] = NBatches THEN "index" ELSE "load")
    /\ UNCHANGED <<opt, existed, batch, chunk, result, tbl, idxOn>>

----------------------------------------------------------------------------
(* finish, and what may go wrong anywhere. *)

\* maybe_create_gist_index.
WantsIndex(p) == \/ opt[p].index = "always"
                 \/ opt[p].index = "auto" /\ WasCreated(p)

\* Mutant: `always` leaves a table it did not create without an index.
FinishAutoOnly(p) ==
    /\ pc[p] = "index"
    /\ \/ /\ ~WantsIndex(p) \/ (tbl # None /\ Unlocked(tbl))
          /\ idxOn' = IF WantsIndex(p) /\ idxOn = None /\ ~existed[p]
                      THEN tbl ELSE idxOn
          /\ End(p, "ok")
       \/ /\ WantsIndex(p) /\ tbl = None
          /\ End(p, "err")
          /\ UNCHANGED idxOn
    /\ UNCHANGED <<opt, existed, load, tbl, rows>>

\* CREATE INDEX IF NOT EXISTS needs the table, waits for the transactions
\* open on it, and does nothing if the schema has an index of that name.
Finish(p) ==
    /\ pc[p] = "index"
    /\ \/ /\ ~WantsIndex(p) \/ (tbl # None /\ Unlocked(tbl))
          /\ idxOn' = IF WantsIndex(p) /\ idxOn = None THEN tbl ELSE idxOn
          /\ End(p, "ok")
       \/ /\ WantsIndex(p) /\ tbl = None
          /\ End(p, "err")
          /\ UNCHANGED idxOn
    /\ UNCHANGED <<opt, existed, load, tbl, rows>>

\* Mutant: an Err of the iterator ends the loop as None does.
FailSwallowed(p) ==
    /\ pc[p] # "end"
    /\ Goto(p, IF pc[p] = "load" THEN "index" ELSE "end")
    /\ result' = [result EXCEPT ![p] = IF pc[p] = "load" THEN @ ELSE "err"]
    /\ tgt' = [tgt EXCEPT ![p] = None]
    /\ txn' = [txn EXCEPT ![p] = {}]
    /\ UNCHANGED <<opt, existed, batch, chunk, done, tbl, rows, idxOn>>

\* A statement, the reader or a conversion fails, or the process is killed.
Fail(p) ==
    /\ pc[p] # "end"
    /\ End(p, "err")
    /\ txn' = [txn EXCEPT ![p] = {}]
    /\ UNCHANGED <<opt, existed, batch, chunk, done, tbl, rows, idxOn>>

\* The server commits but the connection breaks before its answer arrives,
\* or the process is killed while it waits for it.
CommitUnanswered(p) ==
    /\ pc[p] = "commit" \/ (pc[p] = "copy" /\ batch[p] = NBatches)
    /\ Commit(p)
    /\ End(p, "err")
    /\ UNCHANGED <<opt, existed, batch, chunk, tbl, idxOn>>

----------------------------------------------------------------------------
Step(p) == \/ Resolve(p) \/ DropTable(p) \/ Probe(p) \/ CreateTable(p)
           \/ BeginCopy(p) \/ CopyPiece(p) \/ FinishCopy(p)
           \/ Insert(p) \/ CommitBatch(p) \/ Finish(p)

Terminated == (\A p \in Procs : pc[p] = "end") /\ UNCHANGED vars

Next == \/ \E p \in Procs : Step(p) \/ Fail(p) \/ CommitUnanswered(p)
        \/ Terminated

Spec == Init /\ [][Next]_vars

\* Every process that is not killed goes on, and the server answers.
FairSpec == Spec /\ \A p \in Procs : WF_vars(Step(p))

----------------------------------------------------------------------------
(* Properties. *)

\* The type invariant.
TypeOK ==
    /\ opt \in [Procs -> Commands]
    /\ pc \in [Procs -> {"open", "drop", "probe", "create", "load", "copy",
                         "commit", "index", "end"}]
    /\ existed \in [Procs -> BOOLEAN]
    /\ batch \in [Procs -> 0..NBatches] /\ chunk \in [Procs -> 0..Chunks - 1]
    /\ txn \in [Procs -> SUBSET Units] /\ done \in [Procs -> 0..NBatches]
    /\ tgt \in [Procs -> Tables \cup {None}]
    /\ result \in [Procs -> {"none", "ok", "err"}]
    /\ tbl \in Tables \cup {None}
    /\ rows \in [Tables -> SUBSET (Procs \X (1..NBatches) \X (1..Chunks))]
    /\ idxOn \in Tables \cup {None, Foreign}

\* The units of p that are durable, in whatever table.
Committed(p) == {u \in Units : \E t \in Tables : <<p, u[1], u[2]>> \in rows[t]}

\* A command that exits with status 0 has made every row durable, whatever
\* the other processes did to the table meanwhile (run_bulk, run_batch).
SuccessIsComplete == \A p \in Procs : result[p] = "ok" => Committed(p) = Units

\* write_batch commits whole batches, in order, with no gap, at any moment
\* and after any failure: half a batch is never visible.
WholeBatches ==
    \A p \in Procs : \E k \in 0..NBatches : Committed(p) = (1..k) \X (1..Chunks)

\* bulk_write is all or nothing, and its rows are in one table: a failure,
\* a kill or a lost answer leaves none of the rows or all of them.
BulkIsAtomic ==
    \A p \in Procs : opt[p].mode = "bulk" =>
        \/ Committed(p) = {}
        \/ \E t \in Tables :
              \A u \in Units : <<p, u[1], u[2]>> \in rows[t]

\* A load that succeeded while no command had --overwrite is whole in the
\* table the name stands for.
SuccessIsVisible ==
    (\A q \in Procs : ~opt[q].overwrite) =>
        \A p \in Procs : result[p] = "ok" =>
            /\ tbl # None
            /\ \A u \in Units : <<p, u[1], u[2]>> \in rows[tbl]

\* Unless the name of the index belongs to another table, an index that was
\* asked for is on the table when the command reports success.
IndexAsAsked ==
    [][\A p \in Procs :
          /\ pc[p] = "index" /\ result'[p] = "ok" /\ WantsIndex(p)
          /\ idxOn # Foreign
          => idxOn' = tbl]_vars

\* The commands implement LayerSink: COPY is one transaction, write_batch is
\* one per batch.  In particular every command ends, if the server does not
\* hang: the locks of loads, DROP TABLE and CREATE INDEX never leave two
\* commands waiting for ever.
Sink == INSTANCE LayerSink WITH
            Size   <- NBatches,
            cuts   <- [p \in Procs |-> IF opt[p].mode = "bulk"
                                       THEN {NBatches} ELSE 1..NBatches],
            loaded <- done
RefinesLayerSink == Sink!Spec
============================================================================
