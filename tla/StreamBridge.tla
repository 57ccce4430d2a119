---------------------------- MODULE StreamBridge ----------------------------
(***************************************************************************)
(* The reader side of the PostGIS, SQL Server and Shapefile drivers: an OS *)
(* thread ("worker") pulls rows from the source, cuts them into batches    *)
(* and sends them over a std::sync::mpsc::sync_channel(2) to the           *)
(* BatchIter the conversion pulls from.                                    *)
(*                                                                         *)
(* A row is its position in the source.  A batch is the interval of rows   *)
(* it holds, [from, to] standing for rows from+1 .. to.  PostGIS and SQL   *)
(* Server build the RecordBatch in the worker, Shapefile in                *)
(* BatchIter::next: ConvertInWorker tells the two apart.                   *)
(***************************************************************************)
EXTENDS Naturals, Sequences

CONSTANTS NRows,            \* rows of the source
          BatchSize,        \* DEFAULT_BATCH_SIZE / READ_BATCH_SIZE (65,536)
          Capacity,         \* capacity of the sync_channel (2)
          ConvertInWorker,  \* TRUE: postgis, sqlserver; FALSE: shp
          Faults            \* the failures the environment may inject

AllFaults == {"query", "stream", "convert", "panic"}

ASSUME StreamBridgeAssumption ==
    /\ NRows \in Nat
    /\ BatchSize \in Nat \ {0}
    /\ Capacity \in Nat \ {0}
    /\ ConvertInWorker \in BOOLEAN
    /\ Faults \subseteq AllFaults

VARIABLES
    wpc,      \* where the worker is; at "exit" tx and the connection are dropped
    fetched,  \* rows pulled from the source so far
    buf,      \* the Vec `buf`, as the interval of rows it holds
    chunk,    \* the batch being converted or sent
    final,    \* TRUE while `chunk` is the flush that follows the end of stream
    chan,     \* contents of the sync_channel
    seen,     \* history: the rows next() returned, in order
    outcome,  \* "open" while the receiver lives, then how it was given up
    cpc,      \* the caller: "reader" before batches(), "idle" between two calls
              \* of next(), "recv" inside one, "done" without a receiver
    fault,    \* history: what failed, "none" so far
    atDrop    \* history: `fetched` when the receiver was dropped

wvars == <<wpc, fetched, buf, chunk, final>>
cvars == <<seen, outcome, cpc, atDrop>>
vars  == <<wvars, chan, cvars, fault>>

Batch(from, to) == [tag |-> "ok", from |-> from, to |-> to]
ErrMsg == [tag |-> "err", from |-> 0, to |-> 0]
Size(b) == b.to - b.from
RowsOf(b) == [i \in 1..Size(b) |-> b.from + i]

RxAlive == outcome = "open"

Init == /\ wpc = "open" /\ fetched = 0
        /\ buf = Batch(0, 0) /\ chunk = Batch(0, 0) /\ final = FALSE
        /\ chan = <<>>
        /\ seen = <<>> /\ outcome = "open" /\ cpc = "reader" /\ atDrop = 0
        /\ fault = "none"

----------------------------------------------------------------------------
(* The worker thread. *)

\* query_raw / simple_query / Reader::from_path answers, or fails.
OpenSource ==
    /\ wpc = "open"
    /\ \/ wpc' = "fetch" /\ UNCHANGED fault
       \/ "query" \in Faults /\ wpc' = "sendErr" /\ fault' = "query"
    /\ UNCHANGED <<fetched, buf, chunk, final, chan, cvars>>

\* Mutant: the rows are cloned, mem::replace does not empty `buf`.
TakeChunkKeepsBuf(upTo, isFinal) ==
    /\ chunk' = Batch(buf.from, upTo)
    /\ buf' = [buf EXCEPT !.to = upTo]
    /\ final' = isFinal
    /\ wpc' = IF ConvertInWorker THEN "convert" ELSE "send"

\* Ownership of the rows of `buf` moves to `chunk`; `buf` restarts empty.
TakeChunk(upTo, isFinal) ==
    /\ chunk' = Batch(buf.from, upTo)
    /\ buf' = Batch(upTo, upTo)
    /\ final' = isFinal
    /\ wpc' = IF ConvertInWorker THEN "convert" ELSE "send"

\* Mutant: the end of the stream is noticed one row late.
FetchRowPastEnd ==
    /\ wpc = "fetch" /\ fetched <= NRows
    /\ fetched' = fetched + 1
    /\ IF fetched + 1 - buf.from >= BatchSize
       THEN TakeChunk(fetched + 1, FALSE)
       ELSE /\ buf' = [buf EXCEPT !.to = fetched + 1]
            /\ UNCHANGED <<wpc, chunk, final>>
    /\ UNCHANGED <<chan, cvars, fault>>

\* One row arrives; a full buffer becomes a chunk.
FetchRow ==
    /\ wpc = "fetch" /\ fetched < NRows
    /\ fetched' = fetched + 1
    /\ IF fetched + 1 - buf.from >= BatchSize
       THEN TakeChunk(fetched + 1, FALSE)
       ELSE /\ buf' = [buf EXCEPT !.to = fetched + 1]
            /\ UNCHANGED <<wpc, chunk, final>>
    /\ UNCHANGED <<chan, cvars, fault>>

\* Mutant: the partial buffer is not flushed.
StreamEndNoFlush ==
    /\ wpc = "fetch" /\ fetched = NRows
    /\ wpc' = "exit"
    /\ UNCHANGED <<fetched, buf, chunk, final, chan, cvars, fault>>

\* The stream ends: a partial buffer is flushed, an empty one is not.
StreamEnd ==
    /\ wpc = "fetch" /\ fetched = NRows
    /\ IF Size(buf) > 0
       THEN TakeChunk(fetched, TRUE)
       ELSE wpc' = "exit" /\ UNCHANGED <<buf, chunk, final>>
    /\ UNCHANGED <<fetched, chan, cvars, fault>>

\* Mutant: the error of the stream is taken for its end.
StreamErrorSwallowed ==
    /\ wpc = "fetch" /\ "stream" \in Faults
    /\ wpc' = "exit" /\ fault' = "stream"
    /\ UNCHANGED <<fetched, buf, chunk, final, chan, cvars>>

\* The stream breaks; the rows still in `buf` are lost with the worker.
StreamFails ==
    /\ wpc = "fetch" /\ "stream" \in Faults
    /\ wpc' = "sendErr" /\ fault' = "stream"
    /\ UNCHANGED <<fetched, buf, chunk, final, chan, cvars>>

\* rows_to_record_batch: a batch, an Err, or a panic that unwinds the thread
\* (an Arrow builder whose i32 offsets overflow panics, it returns no Err).
Convert ==
    /\ wpc = "convert"
    /\ \/ wpc' = "send" /\ UNCHANGED fault
       \/ "convert" \in Faults /\ wpc' = "sendErr" /\ fault' = "convert"
       \/ "panic" \in Faults /\ wpc' = "exit" /\ fault' = "panic"
    /\ UNCHANGED <<fetched, buf, chunk, final, chan, cvars>>

\* Mutant: an unbounded channel instead of sync_channel(2).
SendBatchUnbounded ==
    /\ wpc = "send" /\ RxAlive
    /\ chan' = Append(chan, chunk)
    /\ wpc' = IF final THEN "exit" ELSE "fetch"
    /\ UNCHANGED <<fetched, buf, chunk, final, cvars, fault>>

\* tx.send(Ok(batch)) finds a free slot.
SendBatch ==
    /\ wpc = "send" /\ RxAlive /\ Len(chan) < Capacity
    /\ chan' = Append(chan, chunk)
    /\ wpc' = IF final THEN "exit" ELSE "fetch"
    /\ UNCHANGED <<fetched, buf, chunk, final, cvars, fault>>

\* tx.send(Err(e)) finds a free slot; the worker returns after it.
SendError ==
    /\ wpc = "sendErr" /\ RxAlive /\ Len(chan) < Capacity
    /\ chan' = Append(chan, ErrMsg)
    /\ wpc' = "exit"
    /\ UNCHANGED <<fetched, buf, chunk, final, cvars, fault>>

\* Mutant: the result of send() is ignored in the loop.
SendResultIgnored ==
    /\ wpc \in {"send", "sendErr"} /\ ~RxAlive
    /\ wpc' = IF wpc = "send" /\ ~final THEN "fetch" ELSE "exit"
    /\ UNCHANGED <<fetched, buf, chunk, final, chan, cvars, fault>>

\* Mutant: a failed send() is retried.
SendRetried ==
    /\ wpc \in {"send", "sendErr"} /\ ~RxAlive
    /\ UNCHANGED vars

\* send() returns Err: the receiver is gone, whether or not it was blocked.
SendDisconnected ==
    /\ wpc \in {"send", "sendErr"} /\ ~RxAlive
    /\ wpc' = "exit"
    /\ UNCHANGED <<fetched, buf, chunk, final, chan, cvars, fault>>

----------------------------------------------------------------------------
(* The consumer: the thread of `shpx convert`. *)

\* Mutant: next() does not set self.rx to None.
DropRxKept(how) == /\ outcome' = how /\ cpc' = "idle"
                   /\ atDrop' = fetched
                   /\ chan' = <<>>

\* The receiver goes, and the batches still queued with it.
DropRx(how) == /\ outcome' = how /\ cpc' = "done"
               /\ atDrop' = fetched
               /\ chan' = <<>>

\* LayerReader::batches() takes the receiver out of the reader.
Batches ==
    /\ cpc = "reader" /\ cpc' = "idle"
    /\ UNCHANGED <<wvars, chan, seen, outcome, atDrop, fault>>

\* The caller enters BatchIter::next(): from here it can only wait in recv().
CallNext ==
    /\ cpc = "idle" /\ cpc' = "recv"
    /\ UNCHANGED <<wvars, chan, seen, outcome, atDrop, fault>>

\* next() receives a batch and returns it.
RecvBatch ==
    /\ cpc = "recv" /\ chan # <<>> /\ Head(chan).tag = "ok"
    /\ seen' = seen \o RowsOf(Head(chan))
    /\ chan' = Tail(chan)
    /\ cpc' = "idle"
    /\ UNCHANGED <<wvars, outcome, atDrop, fault>>

\* next() receives a chunk it cannot turn into a RecordBatch (shp only).
RecvUnconvertible ==
    /\ ~ConvertInWorker /\ "convert" \in Faults
    /\ cpc = "recv" /\ chan # <<>> /\ Head(chan).tag = "ok"
    /\ DropRx("err") /\ fault' = "convert"
    /\ UNCHANGED <<wvars, seen>>

\* next() receives the worker's error.
RecvError ==
    /\ cpc = "recv" /\ chan # <<>> /\ Head(chan).tag = "err"
    /\ DropRx("err")
    /\ UNCHANGED <<wvars, seen, fault>>

\* next() finds the channel empty and its sender gone.
RecvDisconnected ==
    /\ cpc = "recv" /\ chan = <<>> /\ wpc = "exit"
    /\ DropRx("end")
    /\ UNCHANGED <<wvars, seen, fault>>

\* The caller gives up: a writer failed, or open_write did before batches().
Cancel ==
    /\ cpc \in {"reader", "idle"}
    /\ DropRx("cancelled")
    /\ UNCHANGED <<wvars, seen, fault>>

----------------------------------------------------------------------------
Worker == \/ OpenSource \/ FetchRow \/ StreamEnd \/ StreamFails
          \/ Convert \/ SendBatch \/ SendError \/ SendDisconnected

Consumer == \/ Batches \/ CallNext \/ RecvBatch \/ RecvUnconvertible
            \/ RecvError \/ RecvDisconnected \/ Cancel

\* Both threads are done.
Terminated == wpc = "exit" /\ ~RxAlive /\ UNCHANGED vars

Next == Worker \/ Consumer \/ Terminated

Spec == Init /\ [][Next]_vars

\* Both threads are scheduled, the source keeps answering, and the caller
\* either calls next() again or drops the iterator.
FairSpec == Spec /\ WF_vars(Worker) /\ WF_vars(Consumer)

----------------------------------------------------------------------------
(* Properties. *)

Intervals == [tag : {"ok"}, from : 0..NRows, to : 0..NRows]

\* The type invariant.
TypeOK ==
    /\ wpc \in {"open", "fetch", "convert", "send", "sendErr", "exit"}
    /\ fetched \in 0..NRows
    /\ buf \in Intervals /\ chunk \in Intervals
    /\ final \in BOOLEAN
    /\ cpc \in {"reader", "idle", "recv", "done"}
    /\ chan \in Seq(Intervals \cup {ErrMsg})
    /\ seen \in Seq(1..NRows)
    /\ outcome \in {"open", "end", "err", "cancelled"}
    /\ fault \in {"none"} \cup AllFaults
    /\ atDrop \in 0..NRows

\* The caller is given a prefix of the source: no row twice, none skipped,
\* none out of order, across any interleaving of the two threads.
PrefixInOrder == \A i \in 1..Len(seen) : seen[i] = i

\* When next() says None, either every row was returned and nothing failed,
\* or the worker panicked: an error the worker reports is never mistaken for
\* the end of the layer (BatchIter::next).
EndIsComplete ==
    outcome = "end" => \/ Len(seen) = NRows /\ fault = "none"
                       \/ fault = "panic"

\* Backpressure: while the receiver lives, the rows held between the source
\* and the caller never exceed the channel's batches plus one.
InFlightBound ==
    RxAlive => fetched - Len(seen) <= (Capacity + 1) * BatchSize

\* Once the receiver is dropped the worker pulls at most one more batch
\* from the source before it notices (STREAMING.md, cancellation).
CancelBound == ~RxAlive => fetched - atDrop <= BatchSize

\* Nothing is delivered after the iterator finished: no batch follows an
\* error, the end, or the drop of the iterator.
FinishedStaysFinished == [][~RxAlive => UNCHANGED <<seen, outcome>>]_vars

\* Dropping the receiver, wherever the worker is, lets it exit and release
\* the connection and the SELECT it holds.
DropReleasesWorker == ~RxAlive ~> wpc = "exit"

\* The bridge is the iterator that LayerReader::batches() promises, if the
\* None that follows a panic of the worker is read as the failure it is.
Verdict == IF outcome = "end" /\ fault = "panic" THEN "err" ELSE outcome
Layer == INSTANCE LayerStream WITH rows <- NRows, outcome <- Verdict
RefinesLayerStream == Layer!Spec

----------------------------------------------------------------------------
(* What comments and docs say, which the code does not do. *)

\* shp/reader.rs on recv() failing: "worker dropped tx = the data ran out".
EndMeansDataExhausted == outcome = "end" => Len(seen) = NRows
============================================================================
