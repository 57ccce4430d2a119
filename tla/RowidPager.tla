----------------------------- MODULE RowidPager -----------------------------
(***************************************************************************)
(* The reader side of the GeoPackage and SpatiaLite drivers: a table is    *)
(* read one SELECT per batch, with nothing held open in between, while     *)
(* other connections may write to it.  KeysetRowsIter asks for the rows    *)
(* after the last rowid it saw, OffsetRowsIter (SpatiaLite --query) for    *)
(* the rows after as many as it saw.                                       *)
(*                                                                         *)
(* A row is its rowid, a signed integer.  A SELECT sees one snapshot.  The *)
(* order of an OFFSET query, which has no ORDER BY, is taken to be the     *)
(* rowid order of a table scan.                                            *)
(***************************************************************************)
EXTENDS Integers, Sequences, FiniteSets

CONSTANTS Keys,        \* the rowids there may be
          BatchSize,   \* READ_BATCH_SIZE (65,536)
          MaxWrites,   \* bound: changes other connections make
          Faults       \* TRUE if a SELECT may fail (SQLITE_BUSY, I/O)

ASSUME RowidPagerAssumption ==
    /\ Keys \subseteq Int /\ IsFiniteSet(Keys)
    /\ BatchSize \in Nat \ {0}
    /\ MaxWrites \in Nat
    /\ Faults \in BOOLEAN

VARIABLES
    mode,     \* "keyset" or "offset": which of the two iterators it is
    tbl,      \* the rows of the table
    cursor,   \* last_rowid, or offset
    done,     \* the iterator will not ask again
    seen,     \* history: the rows it returned
    outcome,  \* "open", then how the iteration finished
    kept,     \* history: the rows that were there from the start to now
    writes    \* changes made by other connections

vars == <<mode, tbl, cursor, done, seen, outcome, kept, writes>>

\* The table may hold any rows when the layer is opened.
Init == /\ mode \in {"keyset", "offset"}
        /\ tbl \in SUBSET Keys /\ kept = tbl
        /\ cursor = 0 /\ done = FALSE
        /\ seen = <<>> /\ outcome = "open"
        /\ writes = 0

----------------------------------------------------------------------------
(* next_batch. *)

\* The rows after position a of S, counted in rowid order, up to n of them.
After(S, a, n) == {r \in S : LET k == Cardinality({s \in S : s <= r})
                             IN  a < k /\ k <= a + n}

\* Mutant: `rowid >= ?1`.
PageFromCursor == IF mode = "keyset"
                  THEN After({r \in tbl : r >= cursor}, 0, BatchSize)
                  ELSE After(tbl, cursor, BatchSize)

\* What the SELECT of the next batch returns.
Page == IF mode = "keyset"
        THEN After({r \in tbl : r > cursor}, 0, BatchSize)
        ELSE After(tbl, cursor, BatchSize)

\* The rows of S in rowid order.
Ascending(S) == [i \in 1..Cardinality(S) |->
                    CHOOSE r \in S : Cardinality({s \in S : s <= r}) = i]

Last(S) == CHOOSE r \in S : \A s \in S : s <= r

\* Mutant: a full batch is taken for the last one too.
YieldFullIsLast ==
    /\ outcome = "open" /\ ~done /\ Page # {}
    /\ seen' = seen \o Ascending(Page)
    /\ cursor' = IF mode = "keyset" THEN Last(Page)
                                    ELSE cursor + Cardinality(Page)
    /\ done' = (Cardinality(Page) <= BatchSize)
    /\ UNCHANGED <<mode, tbl, outcome, kept, writes>>

\* Mutant: the next batch starts one rowid later.
YieldStartsPast ==
    /\ outcome = "open" /\ ~done /\ Page # {}
    /\ seen' = seen \o Ascending(Page)
    /\ cursor' = IF mode = "keyset" THEN Last(Page) + 1
                                    ELSE cursor + Cardinality(Page)
    /\ done' = (Cardinality(Page) < BatchSize)
    /\ UNCHANGED <<mode, tbl, outcome, kept, writes>>

\* A batch of rows: a short one is taken for the last.
Yield ==
    /\ outcome = "open" /\ ~done /\ Page # {}
    /\ seen' = seen \o Ascending(Page)
    /\ cursor' = IF mode = "keyset" THEN Last(Page)
                                    ELSE cursor + Cardinality(Page)
    /\ done' = (Cardinality(Page) < BatchSize)
    /\ UNCHANGED <<mode, tbl, outcome, kept, writes>>

\* Mutant: once done, next_batch gives an empty batch and not None.
ExhaustedGivesEmpty ==
    /\ outcome = "open"
    /\ done \/ Page = {}
    /\ done' = TRUE /\ outcome' = IF done THEN "open" ELSE "end"
    /\ UNCHANGED <<mode, tbl, cursor, seen, kept, writes>>

\* Ok(None): the page is empty, or the one before was short.
Exhausted ==
    /\ outcome = "open"
    /\ done \/ Page = {}
    /\ done' = TRUE /\ outcome' = "end"
    /\ UNCHANGED <<mode, tbl, cursor, seen, kept, writes>>

\* Err: the SELECT fails, and is not sent again.
SelectFails ==
    /\ Faults /\ outcome = "open" /\ ~done
    /\ done' = TRUE /\ outcome' = "err"
    /\ UNCHANGED <<mode, tbl, cursor, seen, kept, writes>>

\* Err: the rows came but cannot be converted (build_record_batch).  The
\* cursor is past them, and the caller does not ask again.
Unconvertible ==
    /\ Faults /\ outcome = "open" /\ ~done /\ Page # {}
    /\ cursor' = IF mode = "keyset" THEN Last(Page)
                                    ELSE cursor + Cardinality(Page)
    /\ done' = (Cardinality(Page) < BatchSize)
    /\ outcome' = "err"
    /\ UNCHANGED <<mode, tbl, seen, kept, writes>>

----------------------------------------------------------------------------
(* Other connections, between two batches. *)

InsertRow ==
    /\ writes < MaxWrites
    /\ \E r \in Keys \ tbl : tbl' = tbl \cup {r}
    /\ writes' = writes + 1
    /\ UNCHANGED <<mode, cursor, done, seen, outcome, kept>>

DeleteRow ==
    /\ writes < MaxWrites
    /\ \E r \in tbl : tbl' = tbl \ {r} /\ kept' = kept \ {r}
    /\ writes' = writes + 1
    /\ UNCHANGED <<mode, cursor, done, seen, outcome>>

----------------------------------------------------------------------------
Reader == Yield \/ Exhausted \/ SelectFails \/ Unconvertible

Terminated == outcome # "open" /\ UNCHANGED vars

Next == Reader \/ InsertRow \/ DeleteRow \/ Terminated

Spec == Init /\ [][Next]_vars

\* The caller keeps calling next().
FairSpec == Spec /\ WF_vars(Reader)

----------------------------------------------------------------------------
(* Properties. *)

\* The type invariant.
TypeOK ==
    /\ mode \in {"keyset", "offset"}
    /\ tbl \subseteq Keys /\ kept \subseteq tbl
    /\ cursor \in IF mode = "keyset" THEN Keys \cup {0} ELSE Nat
    /\ done \in BOOLEAN
    /\ seen \in Seq(Keys)
    /\ outcome \in {"open", "end", "err"}
    /\ writes \in 0..MaxWrites

\* The rows a keyset scan can reach.
Positive(S) == {r \in S : r > 0}

\* No row comes twice, and rowids only rise, whatever is inserted or deleted
\* between two batches of a keyset scan (KeysetRowsIter).
RowsRise == mode = "keyset" => \A i \in 1..Len(seen) - 1 : seen[i] < seen[i + 1]

\* A keyset scan that ended returned every row, with a positive rowid, that
\* was there all the time, whatever others did to the other rows.
KeptRowsSeen ==
    mode = "keyset" /\ outcome = "end" =>
        \A r \in Positive(kept) : \E i \in 1..Len(seen) : seen[i] = r

\* A scan ends once others stop writing, however the table grew meanwhile.
ScanEnds == <>(outcome # "open")

\* Over a table nobody writes to, either scan is the iterator LayerReader
\* promises: the rows in order, in full batches but for the last one.  The
\* layer of a keyset scan is the rows with a positive rowid.
Scanned == IF mode = "keyset" THEN Positive(tbl) ELSE tbl
Place(r) == Cardinality({s \in Scanned : s <= r})
Layer == INSTANCE LayerStream WITH
             rows <- Cardinality(Scanned),
             seen <- [i \in 1..Len(seen) |-> Place(seen[i])]
RefinesLayerStream == Layer!Spec
============================================================================
