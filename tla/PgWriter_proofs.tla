--------------------------- MODULE PgWriter_proofs ---------------------------
(***************************************************************************)
(* What PgWriter promises for every set of processes, every mix of         *)
(* options, and every number of batches and pieces, proved with TLAPS.     *)
(*                                                                         *)
(* The invariants of PgWriter speak of rows; they follow from the          *)
(* counters of the code once it is known which rows the counters stand     *)
(* for: DurInv says the durable rows of p are its first done[p] batches,   *)
(* TxnInv that its open transaction holds what was sent after them, and    *)
(* PcInv where each counter may be at each statement.                      *)
(***************************************************************************)
EXTENDS PgWriter, TLAPS

Bs == 1..NBatches
Cs == 1..Chunks

\* The open transaction of p: the batches sent whole since the last commit,
\* and the pieces sent of the one after them.
TxnInv(p) == pc[p] # "end" =>
    \A b \in Bs, c \in Cs :
        <<b, c>> \in txn[p] <=> \/ done[p] < b /\ b <= batch[p]
                                \/ b = batch[p] + 1 /\ c <= chunk[p]

\* The durable rows of p: its first done[p] batches.
DurInv(p) == \A b \in Bs, c \in Cs :
    (\E t \in Tables : <<p, b, c>> \in rows[t]) <=> b <= done[p]

\* Where the counters of p are, statement by statement.
PcInv(p) ==
    /\ pc[p] \in {"open", "drop", "probe", "create"} =>
           batch[p] = 0 /\ chunk[p] = 0 /\ done[p] = 0 /\ tgt[p] = None
    /\ pc[p] = "load" =>
           /\ done[p] = batch[p]
           /\ chunk[p] # 0 => tgt[p] # None
           /\ opt[p].mode = "bulk" => batch[p] = 0 /\ chunk[p] = 0
    /\ pc[p] = "copy" =>
           opt[p].mode = "bulk" /\ done[p] = 0 /\ tgt[p] # None
    /\ pc[p] = "commit" =>
           /\ opt[p].mode = "batch" /\ tgt[p] # None
           /\ chunk[p] = 0 /\ batch[p] = done[p] + 1
    /\ pc[p] = "index" => done[p] = NBatches
    /\ batch[p] = NBatches => chunk[p] = 0
    /\ pc[p] = "load" /\ opt[p].mode = "batch" => done[p] < NBatches
    /\ result[p] = "none" <=> pc[p] # "end"
    /\ result[p] = "ok" => done[p] = NBatches

\* The rows of a finished COPY are in one table.
BulkInv(p) == opt[p].mode = "bulk" =>
    \/ done[p] = 0
    \/ \E t \in Tables : \A b \in Bs, c \in Cs : <<p, b, c>> \in rows[t]

\* The inductive invariant.
IInv == TypeOK /\ \A p \in Procs : TxnInv(p) /\ DurInv(p) /\ PcInv(p) /\ BulkInv(p)

\* A step of p leaves what belongs to the other processes alone.
Frame(p) == \A q \in Procs \ {p} :
    /\ opt'[q] = opt[q] /\ pc'[q] = pc[q] /\ batch'[q] = batch[q]
    /\ chunk'[q] = chunk[q] /\ txn'[q] = txn[q] /\ done'[q] = done[q]
    /\ tgt'[q] = tgt[q] /\ result'[q] = result[q]
    /\ \A t \in Tables, b \in Bs, c \in Cs :
          <<q, b, c>> \in rows'[t] <=> <<q, b, c>> \in rows[t]

PStep(p) == Step(p) \/ Fail(p) \/ CommitUnanswered(p)

----------------------------------------------------------------------------
(* Type correctness. *)

\* The initial state has its type.
LEMMA InitType == Init => TypeOK
  BY PgWriterAssumption, SMT DEF Init, TypeOK, Tables

\* What a commit does to `rows`, unit by unit.
LEMMA CommitRows ==
    ASSUME TypeOK, NEW p \in Procs, tgt[p] \in Tables, Commit(p)
    PROVE  /\ rows' \in [Tables -> SUBSET (Procs \X (1..NBatches) \X (1..Chunks))]
           /\ \A t \in Tables, q \in Procs, b \in Bs, c \in Cs :
                 <<q, b, c>> \in rows'[t]
                    <=> \/ <<q, b, c>> \in rows[t]
                        \/ q = p /\ t = tgt[p] /\ <<b, c>> \in txn[p]
           /\ done' = [done EXCEPT ![p] = batch[p]]
           /\ txn' = [txn EXCEPT ![p] = {}]
<1>1. txn[p] \in SUBSET Units /\ Units = (1..NBatches) \X (1..Chunks)
  BY DEF TypeOK, Units
<1> DEFINE New == {<<p, u[1], u[2]>> : u \in txn[p]}
<1>2. New \in SUBSET (Procs \X (1..NBatches) \X (1..Chunks))
  BY <1>1
<1>3. \A q \in Procs, b \in Bs, c \in Cs :
         <<q, b, c>> \in New <=> q = p /\ <<b, c>> \in txn[p]
  BY <1>1 DEF Bs, Cs
<1>4. rows' = [rows EXCEPT ![tgt[p]] = @ \cup New]
  BY DEF Commit
<1>5. rows \in [Tables -> SUBSET (Procs \X (1..NBatches) \X (1..Chunks))]
  BY DEF TypeOK
<1> HIDE DEF New
<1>6. rows' \in [Tables -> SUBSET (Procs \X (1..NBatches) \X (1..Chunks))]
  BY <1>2, <1>4, <1>5
<1>7. \A t \in Tables : rows'[t] = IF t = tgt[p] THEN rows[t] \cup New ELSE rows[t]
  BY <1>4, <1>5
<1>8. ASSUME NEW t \in Tables, NEW q \in Procs, NEW b \in Bs, NEW c \in Cs
      PROVE  <<q, b, c>> \in rows'[t]
                <=> \/ <<q, b, c>> \in rows[t]
                    \/ q = p /\ t = tgt[p] /\ <<b, c>> \in txn[p]
  <2>1. <<q, b, c>> \in New <=> q = p /\ <<b, c>> \in txn[p]
    BY <1>3
  <2>2. CASE t = tgt[p]
    <3>1. rows'[t] = rows[t] \cup New
      BY <1>7, <2>2
    <3> QED BY <2>1, <2>2, <3>1
  <2>3. CASE t # tgt[p]
    <3>1. rows'[t] = rows[t]
      BY <1>7, <2>3
    <3> QED BY <2>3, <3>1
  <2> QED BY <2>2, <2>3
<1> QED BY <1>6, <1>8 DEF Commit

\* What sending one piece does.
LEMMA SendPieceType ==
    ASSUME TypeOK, NEW p \in Procs, SendPiece(p)
    PROVE  /\ txn' \in [Procs -> SUBSET Units] /\ done' = done
           /\ batch' \in [Procs -> 0..NBatches]
           /\ chunk' \in [Procs -> 0..Chunks - 1]
<1>1. batch[p] \in 0..NBatches /\ chunk[p] \in 0..Chunks - 1 /\ batch[p] < NBatches
  BY DEF TypeOK, SendPiece
<1>2. <<batch[p] + 1, chunk[p] + 1>> \in Units
  BY <1>1, PgWriterAssumption DEF Units
<1>3. txn' \in [Procs -> SUBSET Units]
  BY <1>2 DEF TypeOK, SendPiece
<1>4. batch' \in [Procs -> 0..NBatches] /\ chunk' \in [Procs -> 0..Chunks - 1]
  <2>1. CASE chunk[p] + 1 = Chunks
    BY <1>1, <2>1, PgWriterAssumption DEF TypeOK, SendPiece
  <2>2. CASE chunk[p] + 1 # Chunks
    BY <1>1, <2>2, PgWriterAssumption DEF TypeOK, SendPiece
  <2> QED BY <2>1, <2>2
<1> QED BY <1>3, <1>4 DEF SendPiece

\* Every step of a process keeps the type invariant.
LEMMA StepType ==
    ASSUME TypeOK, NEW p \in Procs, PStep(p)
    PROVE  TypeOK'
<1>1. CASE Resolve(p)
  BY <1>1 DEF TypeOK, Resolve, End, Goto, load
<1>2. CASE DropTable(p)
  BY <1>2 DEF TypeOK, DropTable, Goto, load
<1>3. CASE Probe(p)
  BY <1>3 DEF TypeOK, Probe, End, Goto, load
<1>4. CASE CreateTable(p)
  BY <1>4 DEF TypeOK, CreateTable, End, Goto, load, Tables
<1>5. CASE BeginCopy(p)
  BY <1>5 DEF TypeOK, BeginCopy, End, Goto, load
<1>6. CASE CopyPiece(p)
  BY <1>6, SendPieceType DEF TypeOK, CopyPiece
<1>7. CASE Insert(p)
  <2>1. CASE tgt[p] = None /\ tbl = None
    BY <1>7, <2>1 DEF TypeOK, Insert, End, Goto, load
  <2>2. CASE ~(tgt[p] = None /\ tbl = None)
    <3>1. SendPiece(p)
      BY <1>7, <2>2 DEF Insert
    <3>2. /\ txn' \in [Procs -> SUBSET Units] /\ done' = done
          /\ batch' \in [Procs -> 0..NBatches]
          /\ chunk' \in [Procs -> 0..Chunks - 1]
      BY <3>1, SendPieceType
    <3>3. tgt' \in [Procs -> Tables \cup {None}]
      BY <1>7, <2>2 DEF TypeOK, Insert
    <3>4. pc' \in [Procs -> {"open", "drop", "probe", "create", "load", "copy",
                             "commit", "index", "end"}]
      BY <1>7, <2>2 DEF TypeOK, Insert, Goto
    <3> QED BY <1>7, <2>2, <3>2, <3>3, <3>4 DEF TypeOK, Insert
  <2> QED BY <2>1, <2>2
<1> DEFINE RowsType == rows' \in [Tables -> SUBSET (Procs \X (1..NBatches) \X (1..Chunks))]
<1> HIDE DEF RowsType
<1>8. ASSUME Commit(p)
      PROVE  RowsType /\ done' \in [Procs -> 0..NBatches] /\ txn' \in [Procs -> SUBSET Units]
  <2>1. done' \in [Procs -> 0..NBatches] /\ txn' \in [Procs -> SUBSET Units]
    BY <1>8 DEF TypeOK, Commit
  <2>2. CASE tgt[p] \in Tables
    BY <1>8, <2>1, <2>2, CommitRows DEF RowsType
  <2>3. CASE tgt[p] \notin Tables
    BY ZenonT(60), <1>8, <2>1, <2>3 DEF Commit, TypeOK, RowsType
  <2> QED BY <2>2, <2>3
<1>9. CASE FinishCopy(p)
  <2>1. Commit(p)
    BY <1>9 DEF FinishCopy
  <2> QED BY <1>8, <1>9, <2>1 DEF TypeOK, FinishCopy, Goto, RowsType
<1>10. CASE CommitBatch(p)
  <2>1. Commit(p)
    BY <1>10 DEF CommitBatch
  <2> QED BY <1>8, <1>10, <2>1 DEF TypeOK, CommitBatch, Goto, RowsType
<1>11. CASE CommitUnanswered(p)
  <2>1. Commit(p)
    BY <1>11 DEF CommitUnanswered
  <2> QED BY <1>8, <1>11, <2>1 DEF TypeOK, CommitUnanswered, End, Goto, RowsType
<1>12. CASE Finish(p)
  BY <1>12 DEF TypeOK, Finish, End, Goto, load
<1>13. CASE Fail(p)
  BY <1>13 DEF TypeOK, Fail, End, Goto
<1> QED BY <1>1, <1>2, <1>3, <1>4, <1>5, <1>6, <1>7, <1>9, <1>10, <1>11,
           <1>12, <1>13 DEF PStep, Step

\* Every command line, every server, every schedule: the variables keep
\* their types.
THEOREM TypeCorrect == Spec => []TypeOK
<1>1. TypeOK /\ [Next]_vars => TypeOK'
  <2> SUFFICES ASSUME TypeOK, [Next]_vars PROVE TypeOK'
    OBVIOUS
  <2>1. CASE UNCHANGED vars
    BY <2>1 DEF TypeOK, vars, load
  <2>2. CASE Next
    <3>1. CASE \E p \in Procs : PStep(p)
      BY <3>1, StepType
    <3>2. CASE Terminated
      BY <2>1, <3>2 DEF Terminated, TypeOK, vars, load
    <3> QED BY <2>2, <3>1, <3>2 DEF Next, PStep
  <2> QED BY <2>1, <2>2
<1> QED BY <1>1, InitType, PTL DEF Spec

----------------------------------------------------------------------------
(* A step of one process and the others. *)

\* A step of p changes nothing that belongs to another process.
LEMMA StepFrame ==
    ASSUME TypeOK, NEW p \in Procs, PStep(p)
    PROVE  Frame(p)
<1>1. CASE Resolve(p)
  BY <1>1 DEF TypeOK, Frame, Resolve, End, Goto, load
<1>2. CASE DropTable(p)
  BY <1>2 DEF TypeOK, Frame, DropTable, Goto, load
<1>3. CASE Probe(p)
  BY <1>3 DEF TypeOK, Frame, Probe, End, Goto, load
<1>4. CASE CreateTable(p)
  BY <1>4 DEF TypeOK, Frame, CreateTable, End, Goto, load
<1>5. CASE BeginCopy(p)
  BY <1>5 DEF TypeOK, Frame, BeginCopy, End, Goto, load
<1>6. CASE CopyPiece(p)
  BY <1>6 DEF TypeOK, Frame, CopyPiece, SendPiece
<1>7. CASE Insert(p)
  BY <1>7 DEF TypeOK, Frame, Insert, SendPiece, End, Goto, load
<1>12. CASE Finish(p)
  BY <1>12 DEF TypeOK, Frame, Finish, End, Goto, load
<1>13. CASE Fail(p)
  BY <1>13 DEF TypeOK, Frame, Fail, End, Goto
<1>8. ASSUME Commit(p), NEW q \in Procs \ {p}
      PROVE  /\ done'[q] = done[q] /\ txn'[q] = txn[q]
             /\ \A t \in Tables, b \in Bs, c \in Cs :
                   <<q, b, c>> \in rows'[t] <=> <<q, b, c>> \in rows[t]
  <2>1. done'[q] = done[q] /\ txn'[q] = txn[q]
    BY <1>8 DEF TypeOK, Commit
  <2>2. CASE tgt[p] \in Tables
    BY ZenonT(60), <1>8, <2>1, <2>2, CommitRows
  <2>3. CASE tgt[p] \notin Tables
    BY <1>8, <2>1, <2>3 DEF Commit, TypeOK
  <2> QED BY <2>2, <2>3
<1>9. CASE FinishCopy(p)
  <2>1. Commit(p)
    BY <1>9 DEF FinishCopy
  <2> QED BY <1>8, <1>9, <2>1 DEF TypeOK, Frame, FinishCopy, Goto
<1>10. CASE CommitBatch(p)
  <2>1. Commit(p)
    BY <1>10 DEF CommitBatch
  <2> QED BY <1>8, <1>10, <2>1 DEF TypeOK, Frame, CommitBatch, Goto
<1>11. CASE CommitUnanswered(p)
  <2>1. Commit(p)
    BY <1>11 DEF CommitUnanswered
  <2> QED BY <1>8, <1>11, <2>1 DEF TypeOK, Frame, CommitUnanswered, End, Goto
<1> QED BY <1>1, <1>2, <1>3, <1>4, <1>5, <1>6, <1>7, <1>9, <1>10, <1>11,
           <1>12, <1>13 DEF PStep, Step

\* What frames p away keeps the parts of the invariant that speak of p.
LEMMA FrameKeeps ==
    ASSUME IInv, NEW p \in Procs, Frame(p), NEW q \in Procs \ {p}
    PROVE  TxnInv(q)' /\ DurInv(q)' /\ PcInv(q)' /\ BulkInv(q)'
<1>1. TxnInv(q)'
  BY ZenonT(60) DEF IInv, Frame, TxnInv
<1>2. DurInv(q)'
  BY DEF IInv, Frame, DurInv
<1>3. PcInv(q)'
  BY DEF IInv, Frame, PcInv
<1>4. BulkInv(q)'
  BY DEF IInv, Frame, BulkInv
<1> QED BY <1>1, <1>2, <1>3, <1>4

----------------------------------------------------------------------------
(* What a step of p does to its own invariants. *)

\* A step that sends nothing, commits nothing and empties no transaction.
LEMMA QuietKeeps ==
    ASSUME IInv, NEW p \in Procs, UNCHANGED <<opt, load, rows>>,
           pc[p] # "end", PcInv(p)'
    PROVE  TxnInv(p)' /\ DurInv(p)' /\ PcInv(p)' /\ BulkInv(p)'
<1>1. TxnInv(p)'
  BY DEF IInv, TxnInv, load
<1>2. DurInv(p)'
  BY DEF IInv, DurInv, load
<1>3. BulkInv(p)'
  BY DEF IInv, BulkInv, load
<1> QED BY <1>1, <1>2, <1>3

\* One more piece in the open transaction.
LEMMA PieceKeeps ==
    ASSUME IInv, NEW p \in Procs, SendPiece(p), UNCHANGED <<opt, rows>>,
           pc[p] \in {"copy", "load"}, done[p] <= batch[p], PcInv(p)'
    PROVE  TxnInv(p)' /\ DurInv(p)' /\ PcInv(p)' /\ BulkInv(p)'
<1>0. /\ batch[p] \in 0..NBatches /\ chunk[p] \in 0..Chunks - 1
      /\ batch[p] < NBatches /\ done[p] \in 0..NBatches /\ done' = done
  BY DEF IInv, TypeOK, SendPiece
<1>1. TxnInv(p)'
  <2> SUFFICES ASSUME NEW b \in Bs, NEW c \in Cs
               PROVE  <<b, c>> \in txn'[p] <=>
                          \/ done'[p] < b /\ b <= batch'[p]
                          \/ b = batch'[p] + 1 /\ c <= chunk'[p]
    BY DEF TxnInv
  <2>1. <<b, c>> \in txn[p] <=> \/ done[p] < b /\ b <= batch[p]
                                \/ b = batch[p] + 1 /\ c <= chunk[p]
    BY DEF IInv, TxnInv
  <2>2. <<b, c>> \in txn'[p] <=> \/ <<b, c>> \in txn[p]
                                 \/ b = batch[p] + 1 /\ c = chunk[p] + 1
    BY DEF IInv, TypeOK, SendPiece
  <2>3. CASE chunk[p] + 1 = Chunks
    <3>1. batch'[p] = batch[p] + 1 /\ chunk'[p] = 0
      BY <2>3 DEF IInv, TypeOK, SendPiece
    <3> QED BY <1>0, <2>1, <2>2, <2>3, <3>1, PgWriterAssumption DEF Bs, Cs
  <2>4. CASE chunk[p] + 1 # Chunks
    <3>1. batch'[p] = batch[p] /\ chunk'[p] = chunk[p] + 1
      BY <2>4 DEF IInv, TypeOK, SendPiece
    <3> QED BY <1>0, <2>1, <2>2, <2>4, <3>1, PgWriterAssumption DEF Bs, Cs
  <2> QED BY <2>3, <2>4
<1>2. DurInv(p)'
  BY <1>0 DEF IInv, DurInv
<1>3. BulkInv(p)'
  BY <1>0 DEF IInv, BulkInv
<1> QED BY <1>1, <1>2, <1>3

\* A commit at a batch boundary makes what was sent durable.
LEMMA CommitKeeps ==
    ASSUME IInv, NEW p \in Procs, Commit(p), UNCHANGED <<opt, batch, chunk>>,
           pc[p] # "end", tgt[p] # None, chunk[p] = 0, done[p] <= batch[p],
           opt[p].mode = "bulk" => done[p] = 0 /\ batch[p] = NBatches,
           PcInv(p)'
    PROVE  TxnInv(p)' /\ DurInv(p)' /\ PcInv(p)' /\ BulkInv(p)'
<1>1. tgt[p] \in Tables /\ TypeOK
  BY DEF IInv, TypeOK
<1>2. /\ \A t \in Tables, b \in Bs, c \in Cs :
            <<p, b, c>> \in rows'[t] <=> \/ <<p, b, c>> \in rows[t]
                                         \/ t = tgt[p] /\ <<b, c>> \in txn[p]
      /\ done' = [done EXCEPT ![p] = batch[p]]
      /\ txn' = [txn EXCEPT ![p] = {}]
  BY <1>1, CommitRows
<1>3. done'[p] = batch[p] /\ txn'[p] = {}
  BY <1>1, <1>2 DEF TypeOK
<1>4. batch[p] \in 0..NBatches /\ done[p] \in 0..NBatches
  BY <1>1 DEF TypeOK
<1>5. \A b \in Bs, c \in Cs :
         <<b, c>> \in txn[p] <=> done[p] < b /\ b <= batch[p]
  <2>1. \A b \in Bs, c \in Cs :
           <<b, c>> \in txn[p] <=> \/ done[p] < b /\ b <= batch[p]
                                   \/ b = batch[p] + 1 /\ c <= chunk[p]
    BY DEF IInv, TxnInv
  <2>2. \A c \in Cs : ~(c <= chunk[p])
    BY DEF Cs
  <2> QED BY <2>1, <2>2
<1>6. TxnInv(p)'
  <2>1. \A b \in Bs, c \in Cs : ~(\/ batch[p] < b /\ b <= batch[p]
                                  \/ b = batch[p] + 1 /\ c <= chunk[p])
    BY <1>4 DEF Bs, Cs
  <2> QED BY <1>3, <2>1 DEF TxnInv
<1>7. DurInv(p)'
  <2> SUFFICES ASSUME NEW b \in Bs, NEW c \in Cs
               PROVE  (\E t \in Tables : <<p, b, c>> \in rows'[t]) <=> b <= batch[p]
    BY <1>3 DEF DurInv
  <2>1. (\E t \in Tables : <<p, b, c>> \in rows[t]) <=> b <= done[p]
    BY DEF IInv, DurInv
  <2>2. (\E t \in Tables : <<p, b, c>> \in rows'[t])
           <=> (\E t \in Tables : <<p, b, c>> \in rows[t]) \/ <<b, c>> \in txn[p]
    BY <1>1, <1>2
  <2>3. b \in Nat
    BY DEF Bs
  <2> QED BY <1>4, <1>5, <2>1, <2>2, <2>3
<1>8. BulkInv(p)'
  <2> SUFFICES ASSUME opt[p].mode = "bulk"
               PROVE  \E t \in Tables : \A b \in Bs, c \in Cs : <<p, b, c>> \in rows'[t]
    BY DEF BulkInv
  <2>1. \A b \in Bs, c \in Cs : <<b, c>> \in txn[p]
    <3>1. done[p] = 0 /\ batch[p] = NBatches
      OBVIOUS
    <3>2. \A b \in Bs : done[p] < b /\ b <= batch[p]
      BY <3>1, PgWriterAssumption DEF Bs
    <3> QED BY <1>5, <3>2
  <2>2. \A b \in Bs, c \in Cs : <<p, b, c>> \in rows'[tgt[p]]
    BY <1>1, <1>2, <2>1
  <2> QED BY <1>1, <2>2
<1> QED BY <1>6, <1>7, <1>8

\* The open transaction is given up.
LEMMA FailKeeps ==
    ASSUME IInv, NEW p \in Procs, Fail(p)
    PROVE  TxnInv(p)' /\ DurInv(p)' /\ PcInv(p)' /\ BulkInv(p)'
<1>1. pc'[p] = "end" /\ result'[p] = "err" /\ UNCHANGED <<opt, batch, chunk, done, rows>>
  BY DEF IInv, TypeOK, Fail, End, Goto
<1>2. PcInv(p)'
  BY <1>1 DEF IInv, PcInv
<1>3. DurInv(p)' /\ BulkInv(p)' /\ TxnInv(p)'
  BY <1>1 DEF IInv, DurInv, BulkInv, TxnInv
<1> QED BY <1>2, <1>3

\* Every step of p keeps the parts of the invariant that speak of p.
LEMMA StepKeeps ==
    ASSUME IInv, NEW p \in Procs, PStep(p)
    PROVE  TxnInv(p)' /\ DurInv(p)' /\ PcInv(p)' /\ BulkInv(p)'
<1> USE DEF IInv
<1>0. PcInv(p) /\ TypeOK
  OBVIOUS
<1>1. CASE Resolve(p)
  <2>1. PcInv(p)' /\ pc[p] # "end" /\ UNCHANGED <<opt, load, rows>>
    BY <1>0, <1>1 DEF TypeOK, PcInv, Resolve, End, Goto, load
  <2> QED BY <2>1, QuietKeeps
<1>2. CASE DropTable(p)
  <2>1. PcInv(p)' /\ pc[p] # "end" /\ UNCHANGED <<opt, load, rows>>
    BY <1>0, <1>2 DEF TypeOK, PcInv, DropTable, Goto, load
  <2> QED BY <2>1, QuietKeeps
<1>3. CASE Probe(p)
  <2>1. PcInv(p)' /\ pc[p] # "end" /\ UNCHANGED <<opt, load, rows>>
    BY <1>0, <1>3, PgWriterAssumption DEF TypeOK, PcInv, Probe, End, Goto, load
  <2> QED BY <2>1, QuietKeeps
<1>4. CASE CreateTable(p)
  <2>1. PcInv(p)' /\ pc[p] # "end" /\ UNCHANGED <<opt, load, rows>>
    BY <1>0, <1>4, PgWriterAssumption DEF TypeOK, PcInv, CreateTable, End, Goto, load
  <2> QED BY <2>1, QuietKeeps
<1>5. CASE BeginCopy(p)
  <2>1. PcInv(p)' /\ pc[p] # "end" /\ UNCHANGED <<opt, load, rows>>
    BY <1>0, <1>5, PgWriterAssumption DEF TypeOK, PcInv, BeginCopy, End, Goto, load
  <2> QED BY <2>1, QuietKeeps
<1>6. CASE CopyPiece(p)
  <2>1. PcInv(p)' /\ pc[p] \in {"copy", "load"} /\ done[p] <= batch[p]
    BY <1>0, <1>6, PgWriterAssumption DEF TypeOK, PcInv, CopyPiece, SendPiece
  <2> QED BY <1>6, <2>1, PieceKeeps DEF CopyPiece
<1>7. CASE Insert(p)
  <2>1. CASE tgt[p] = None /\ tbl = None
    <3>1. PcInv(p)' /\ pc[p] # "end" /\ UNCHANGED <<opt, load, rows>>
      BY <1>0, <1>7, <2>1, PgWriterAssumption DEF TypeOK, PcInv, Insert, End, Goto, load
    <3> QED BY <3>1, QuietKeeps
  <2>2. CASE ~(tgt[p] = None /\ tbl = None)
    <3>1. SendPiece(p) /\ UNCHANGED <<opt, rows, result>> /\ pc[p] = "load"
      BY <1>7, <2>2 DEF Insert
    <3>2. tgt'[p] # None
      BY <1>7, <2>2 DEF TypeOK, Insert
    <3>3. pc'[p] = IF chunk[p] + 1 = Chunks THEN "commit" ELSE "load"
      BY <1>7, <2>2 DEF TypeOK, Insert, Goto
    <3>4. PcInv(p)'
      <4>1. opt[p].mode = "batch" /\ done[p] = batch[p] /\ result[p] = "none"
        BY <1>0, <1>7 DEF PcInv, Insert
      <4> QED BY <1>0, <3>1, <3>2, <3>3, <4>1, PgWriterAssumption
              DEF TypeOK, PcInv, SendPiece
    <3>5. done[p] <= batch[p]
      BY <1>0, <3>1 DEF PcInv, TypeOK
    <3> QED BY <3>1, <3>4, <3>5, PieceKeeps
  <2> QED BY <2>1, <2>2
<1>8. CASE FinishCopy(p)
  <2>1. Commit(p) /\ UNCHANGED <<opt, batch, chunk>> /\ pc[p] # "end"
    BY <1>8 DEF FinishCopy
  <2>2. tgt[p] # None /\ chunk[p] = 0 /\ done[p] = 0 /\ batch[p] = NBatches
    BY <1>0, <1>8 DEF PcInv, FinishCopy
  <2>3. PcInv(p)'
    BY <1>0, <1>8, <2>2 DEF TypeOK, PcInv, FinishCopy, Commit, Goto
  <2> QED BY <1>0, <2>1, <2>2, <2>3, PgWriterAssumption, CommitKeeps DEF TypeOK
<1>9. CASE CommitBatch(p)
  <2>1. Commit(p) /\ UNCHANGED <<opt, batch, chunk>> /\ pc[p] # "end"
    BY <1>9 DEF CommitBatch
  <2>2. /\ tgt[p] # None /\ chunk[p] = 0 /\ batch[p] = done[p] + 1
        /\ opt[p].mode # "bulk"
    BY <1>0, <1>9 DEF PcInv, CommitBatch
  <2>3. PcInv(p)'
    BY <1>0, <1>9, <2>2, PgWriterAssumption DEF TypeOK, PcInv, CommitBatch, Commit, Goto
  <2>4. done[p] <= batch[p]
    BY <1>0, <2>2 DEF TypeOK
  <2> QED BY <2>1, <2>2, <2>3, <2>4, CommitKeeps
<1>10. CASE CommitUnanswered(p)
  <2>1. Commit(p) /\ UNCHANGED <<opt, batch, chunk>> /\ pc[p] # "end"
    BY <1>10 DEF CommitUnanswered
  <2>2. /\ tgt[p] # None /\ chunk[p] = 0
        /\ opt[p].mode = "bulk" => done[p] = 0 /\ batch[p] = NBatches
    BY <1>0, <1>10 DEF PcInv, CommitUnanswered
  <2>3. done[p] <= batch[p]
    BY <1>0, <1>10, PgWriterAssumption DEF PcInv, CommitUnanswered, TypeOK
  <2>4. PcInv(p)'
    BY <1>0, <1>10, <2>2 DEF TypeOK, PcInv, CommitUnanswered, Commit, End, Goto
  <2> QED BY <2>1, <2>2, <2>3, <2>4, CommitKeeps
<1>11. CASE Finish(p)
  <2>1. PcInv(p)' /\ pc[p] # "end" /\ UNCHANGED <<opt, load, rows>>
    BY <1>0, <1>11, PgWriterAssumption DEF TypeOK, PcInv, Finish, End, Goto, load
  <2> QED BY <2>1, QuietKeeps
<1>12. CASE Fail(p)
  BY <1>12, FailKeeps
<1> QED BY <1>1, <1>2, <1>3, <1>4, <1>5, <1>6, <1>7, <1>8, <1>9, <1>10, <1>11,
           <1>12 DEF PStep, Step

\* The inductive invariant holds initially.
LEMMA InitIInv == Init => IInv
<1> SUFFICES ASSUME Init PROVE IInv
  OBVIOUS
<1>1. TypeOK
  BY InitType
<1>2. ASSUME NEW p \in Procs
      PROVE  TxnInv(p) /\ DurInv(p) /\ PcInv(p) /\ BulkInv(p)
  <2>1. TxnInv(p)
    BY PgWriterAssumption DEF Init, TxnInv, Bs, Cs
  <2>2. DurInv(p)
    BY PgWriterAssumption DEF Init, DurInv, Bs, Cs
  <2>3. PcInv(p)
    BY PgWriterAssumption DEF Init, PcInv
  <2>4. BulkInv(p)
    BY DEF Init, BulkInv
  <2> QED BY <2>1, <2>2, <2>3, <2>4
<1> QED BY <1>1, <1>2 DEF IInv

\* Every step keeps the inductive invariant.
LEMMA NextIInv == IInv /\ [Next]_vars => IInv'
<1> SUFFICES ASSUME IInv, [Next]_vars PROVE IInv'
  OBVIOUS
<1>1. CASE UNCHANGED vars
  BY <1>1 DEF IInv, TypeOK, TxnInv, DurInv, PcInv, BulkInv, vars, load
<1>2. ASSUME NEW p \in Procs, PStep(p) PROVE IInv'
  <2>1. TypeOK' /\ Frame(p)
    BY <1>2, StepType, StepFrame DEF IInv
  <2>2. ASSUME NEW q \in Procs
        PROVE  TxnInv(q)' /\ DurInv(q)' /\ PcInv(q)' /\ BulkInv(q)'
    <3>1. CASE q = p
      BY <1>2, <3>1, StepKeeps
    <3>2. CASE q # p
      BY <2>1, <3>2, FrameKeeps
    <3> QED BY <3>1, <3>2
  <2> QED BY <2>1, <2>2 DEF IInv
<1> QED BY <1>1, <1>2 DEF Next, PStep, Terminated

\* The inductive invariant holds throughout.
LEMMA Invariance == Spec => []IInv
  BY InitIInv, NextIInv, PTL DEF Spec

----------------------------------------------------------------------------
(* The properties. *)

\* The durable rows of a process are its first done[p] batches, whole.
LEMMA CommittedIs ==
    ASSUME IInv, NEW p \in Procs
    PROVE  Committed(p) = (1..done[p]) \X (1..Chunks)
<1>1. done[p] \in 0..NBatches
  BY DEF IInv, TypeOK
<1>2. \A b \in Bs, c \in Cs : <<b, c>> \in Committed(p) <=> b <= done[p]
  BY DEF IInv, DurInv, Committed, Units, Bs, Cs
<1>3. \A u \in Committed(p) : u \in (1..done[p]) \X (1..Chunks)
  <2> SUFFICES ASSUME NEW u \in Committed(p)
               PROVE  u \in (1..done[p]) \X (1..Chunks)
    OBVIOUS
  <2>1. u \in Units
    BY DEF Committed
  <2>2. PICK b \in Bs, c \in Cs : u = <<b, c>>
    BY <2>1 DEF Units, Bs, Cs
  <2>3. b <= done[p]
    BY <1>2, <2>2
  <2> QED BY <1>1, <2>2, <2>3 DEF Bs, Cs
<1>4. \A u \in (1..done[p]) \X (1..Chunks) : u \in Committed(p)
  <2> SUFFICES ASSUME NEW u \in (1..done[p]) \X (1..Chunks)
               PROVE  u \in Committed(p)
    OBVIOUS
  <2>1. PICK b \in 1..done[p], c \in Cs : u = <<b, c>>
    BY DEF Cs
  <2>2. b \in Bs /\ b <= done[p]
    BY <1>1, <2>1, PgWriterAssumption DEF Bs
  <2> QED BY <1>2, <2>1, <2>2
<1> QED BY <1>3, <1>4

\* Half a batch is never durable, whatever fails and whenever.
THEOREM NoTornBatch == Spec => []WholeBatches
<1>1. IInv => WholeBatches
  <2> SUFFICES ASSUME IInv, NEW p \in Procs
               PROVE  \E k \in 0..NBatches : Committed(p) = (1..k) \X (1..Chunks)
    BY DEF WholeBatches
  <2>1. done[p] \in 0..NBatches
    BY DEF IInv, TypeOK
  <2> QED BY <2>1, CommittedIs
<1> QED BY <1>1, Invariance, PTL

\* Exit status 0 is only ever reported of a complete load.
THEOREM SuccessComplete == Spec => []SuccessIsComplete
<1>1. IInv => SuccessIsComplete
  <2> SUFFICES ASSUME IInv, NEW p \in Procs, result[p] = "ok"
               PROVE  Committed(p) = Units
    BY DEF SuccessIsComplete
  <2>1. done[p] = NBatches
    BY DEF IInv, PcInv
  <2> QED BY <2>1, CommittedIs DEF Units
<1> QED BY <1>1, Invariance, PTL

\* A COPY leaves all of its rows, in one table, or none.
THEOREM CopyAtomic == Spec => []BulkIsAtomic
<1>1. IInv => BulkIsAtomic
  <2> SUFFICES ASSUME IInv, NEW p \in Procs, opt[p].mode = "bulk"
               PROVE  \/ Committed(p) = {}
                      \/ \E t \in Tables :
                            \A u \in Units : <<p, u[1], u[2]>> \in rows[t]
    BY DEF BulkIsAtomic
  <2>1. CASE done[p] = 0
    <3>1. Committed(p) = (1..0) \X (1..Chunks)
      BY <2>1, CommittedIs
    <3>2. 1..0 = {}
      OBVIOUS
    <3> QED BY <3>1, <3>2
  <2>2. CASE \E t \in Tables : \A b \in Bs, c \in Cs : <<p, b, c>> \in rows[t]
    BY <2>2 DEF Units, Bs, Cs
  <2> QED BY <2>1, <2>2 DEF IInv, BulkInv
<1> QED BY <1>1, Invariance, PTL

----------------------------------------------------------------------------
(* Without --overwrite the name stands for one table for good. *)

VisInv == (\A q \in Procs : ~opt[q].overwrite) =>
    /\ \A p \in Procs : pc[p] # "drop" /\ tgt[p] \in {None, tbl}
    /\ \A t \in Tables, p \in Procs, b \in Bs, c \in Cs :
          <<p, b, c>> \in rows[t] => t = tbl

\* The invariant about the visible table holds initially.
LEMMA InitVis == Init => VisInv
  BY DEF Init, VisInv

\* Every step keeps the invariant about the visible table.
LEMMA StepVis ==
    ASSUME IInv, VisInv, NEW p \in Procs, PStep(p)
    PROVE  VisInv'
<1> USE DEF IInv
<1>0. TypeOK
  OBVIOUS
<1>1. CASE Resolve(p)
  BY <1>0, <1>1 DEF TypeOK, VisInv, Resolve, End, Goto
<1>2. CASE DropTable(p)
  BY <1>0, <1>2 DEF TypeOK, VisInv, DropTable
<1>3. CASE Probe(p)
  BY <1>0, <1>3 DEF TypeOK, VisInv, Probe, End, Goto
<1>4. CASE CreateTable(p)
  <2>1. CASE UNCHANGED tbl
    BY <1>0, <1>4, <2>1 DEF TypeOK, VisInv, CreateTable, End, Goto
  <2>2. CASE tbl = None
    <3> SUFFICES ASSUME \A q \in Procs : ~opt[q].overwrite
                 PROVE  VisInv'
      BY <1>4 DEF VisInv, CreateTable
    <3>1. \A t \in Tables : t # tbl
      BY <2>2, PgWriterAssumption DEF Tables
    <3>2. \A t \in Tables, q \in Procs, b \in Bs, c \in Cs : <<q, b, c>> \notin rows[t]
      BY <3>1 DEF VisInv
    <3>3. \A q \in Procs : pc'[q] # "drop" /\ tgt'[q] = None
      BY <1>0, <1>4, <2>2 DEF TypeOK, VisInv, CreateTable, End, Goto
    <3> QED BY <1>4, <3>2, <3>3 DEF VisInv, CreateTable
  <2> QED BY <1>4, <2>1, <2>2 DEF CreateTable
<1>5. CASE BeginCopy(p)
  BY <1>0, <1>5 DEF TypeOK, VisInv, BeginCopy, End, Goto
<1>6. CASE CopyPiece(p)
  BY <1>0, <1>6 DEF TypeOK, VisInv, CopyPiece
<1>7. CASE Insert(p)
  BY <1>0, <1>7 DEF TypeOK, VisInv, Insert, End, Goto
<1>8. ASSUME Commit(p), UNCHANGED <<opt, tbl>>, tgt[p] # None,
             \A q \in Procs : pc'[q] \in {pc[q], "end", "index", "load"},
             \A q \in Procs : tgt'[q] \in {tgt[q], None}
      PROVE  VisInv'
  <2> SUFFICES ASSUME \A q \in Procs : ~opt[q].overwrite
               PROVE  VisInv'
    BY <1>8 DEF VisInv
  <2>1. tgt[p] \in Tables /\ tgt[p] = tbl
    BY <1>0, <1>8 DEF TypeOK, VisInv
  <2>2. \A t \in Tables, q \in Procs, b \in Bs, c \in Cs :
           <<q, b, c>> \in rows'[t] => <<q, b, c>> \in rows[t] \/ t = tgt[p]
    BY <1>0, <1>8, <2>1, CommitRows
  <2>3. \A t \in Tables, q \in Procs, b \in Bs, c \in Cs :
           <<q, b, c>> \in rows'[t] => t = tbl'
    BY <1>8, <2>1, <2>2 DEF VisInv
  <2>4. \A q \in Procs : pc'[q] # "drop" /\ tgt'[q] \in {None, tbl'}
    BY <1>8 DEF VisInv
  <2> QED BY <2>3, <2>4 DEF VisInv
<1>9. CASE FinishCopy(p)
  BY <1>0, <1>8, <1>9 DEF TypeOK, PcInv, FinishCopy, Goto
<1>10. CASE CommitBatch(p)
  BY <1>0, <1>8, <1>10 DEF TypeOK, PcInv, CommitBatch, Goto
<1>11. CASE CommitUnanswered(p)
  BY <1>0, <1>8, <1>11 DEF TypeOK, PcInv, CommitUnanswered, End, Goto
<1>12. CASE Finish(p)
  BY <1>0, <1>12 DEF TypeOK, VisInv, Finish, End, Goto
<1>13. CASE Fail(p)
  BY <1>0, <1>13 DEF TypeOK, VisInv, Fail, End, Goto
<1> QED BY <1>1, <1>2, <1>3, <1>4, <1>5, <1>6, <1>7, <1>9, <1>10, <1>11,
           <1>12, <1>13 DEF PStep, Step

\* A successful load is whole in the table under the name, however many
\* loads ran beside it, when none of them had --overwrite.
THEOREM SuccessVisible == Spec => []SuccessIsVisible
<1>1. IInv /\ VisInv /\ [Next]_vars => VisInv'
  <2> SUFFICES ASSUME IInv, VisInv, [Next]_vars PROVE VisInv'
    OBVIOUS
  <2>1. CASE UNCHANGED vars
    BY <2>1 DEF VisInv, vars, load
  <2> QED BY <2>1, StepVis DEF Next, PStep, Terminated
<1>2. IInv /\ VisInv => SuccessIsVisible
  <2> SUFFICES ASSUME IInv, VisInv, \A q \in Procs : ~opt[q].overwrite,
                      NEW p \in Procs, result[p] = "ok"
               PROVE  /\ tbl # None
                      /\ \A u \in Units : <<p, u[1], u[2]>> \in rows[tbl]
    BY DEF SuccessIsVisible
  <2>1. done[p] = NBatches
    BY DEF IInv, PcInv
  <2>2. ASSUME NEW b \in Bs, NEW c \in Cs
        PROVE  tbl # None /\ <<p, b, c>> \in rows[tbl]
    <3>1. b <= done[p]
      BY <2>1 DEF Bs
    <3>2. PICK t \in Tables : <<p, b, c>> \in rows[t]
      BY <3>1 DEF IInv, DurInv
    <3>3. t = tbl
      BY <3>2 DEF VisInv
    <3> QED BY <3>2, <3>3, PgWriterAssumption DEF Tables
  <2>3. 1 \in Bs /\ 1 \in Cs
    BY PgWriterAssumption DEF Bs, Cs
  <2> QED BY <2>2, <2>3 DEF Units, Bs, Cs
<1> QED BY <1>1, <1>2, InitVis, Invariance, PTL DEF Spec

----------------------------------------------------------------------------
(* The index. *)

\* The index of that name is on the table under the name or on a foreign one:
\* DROP TABLE takes the index along.
IndexInv == idxOn \in {None, tbl, Foreign}

\* Every step keeps it.
LEMMA StepIndex ==
    ASSUME IndexInv, NEW p \in Procs, PStep(p)
    PROVE  IndexInv'
<1>1. CASE DropTable(p)
  BY <1>1 DEF IndexInv, DropTable
<1>2. CASE CreateTable(p)
  BY <1>2 DEF IndexInv, CreateTable
<1>3. CASE Finish(p)
  BY <1>3 DEF IndexInv, Finish
<1>4. CASE UNCHANGED <<tbl, idxOn>>
  BY <1>4 DEF IndexInv
<1>5. DropTable(p) \/ CreateTable(p) \/ Finish(p) \/ UNCHANGED <<tbl, idxOn>>
  BY DEF PStep, Step, Resolve, Probe, BeginCopy, CopyPiece, FinishCopy, Insert,
         CommitBatch, Fail, CommitUnanswered
<1> QED BY <1>1, <1>2, <1>3, <1>4, <1>5

\* A command that reports success leaves the index it was asked for on the
\* table under the name, unless another table owns an index of that name.
THEOREM IndexWhereAsked == Spec => IndexAsAsked
<1>1. Init => IndexInv
  BY DEF Init, IndexInv
<1>2. IndexInv /\ [Next]_vars => IndexInv'
  <2> SUFFICES ASSUME IndexInv, [Next]_vars PROVE IndexInv'
    OBVIOUS
  <2>1. CASE UNCHANGED vars
    BY <2>1 DEF IndexInv, vars
  <2> QED BY <2>1, StepIndex DEF Next, PStep, Terminated
<1> DEFINE A == \A p \in Procs :
                  /\ pc[p] = "index" /\ result'[p] = "ok" /\ WantsIndex(p)
                  /\ idxOn # Foreign
                  => idxOn' = tbl
<1>3. IInv /\ IndexInv /\ [Next]_vars => [A]_vars
  <2> SUFFICES ASSUME IInv, IndexInv, Next,
                      NEW p \in Procs, pc[p] = "index", result'[p] = "ok", WantsIndex(p),
                      idxOn # Foreign
               PROVE  idxOn' = tbl \/ UNCHANGED vars
    OBVIOUS
  <2>1. TypeOK /\ result[p] = "none"
    BY DEF IInv, PcInv
  <2>2. CASE Terminated
    BY <2>2 DEF Terminated
  <2>3. CASE \E q \in Procs : PStep(q)
    <3>1. PICK q \in Procs : PStep(q)
      BY <2>3
    <3>2. q = p
      <4> SUFFICES ASSUME q # p PROVE FALSE
        OBVIOUS
      <4>1. result'[p] = result[p]
        BY <2>1, <3>1, StepFrame DEF Frame
      <4> QED BY <2>1, <4>1
    <3>3. Finish(p) \/ result'[p] # "ok"
      BY <2>1, <3>1, <3>2 DEF PStep, Step, Resolve, DropTable, Probe, CreateTable,
         BeginCopy, CopyPiece, FinishCopy, Insert, CommitBatch, Fail, End,
         CommitUnanswered, TypeOK
    <3>4. CASE Finish(p)
      <4>1. CASE idxOn' = IF WantsIndex(p) /\ idxOn = None THEN tbl ELSE idxOn
        BY <4>1 DEF IndexInv
      <4>2. CASE End(p, "err")
        <5>1. result'[p] = "err"
          BY <2>1, <4>2 DEF End, TypeOK
        <5> QED BY <5>1
      <4> QED BY <3>4, <4>1, <4>2 DEF Finish
    <3> QED BY <3>3, <3>4
  <2> QED BY <2>2, <2>3 DEF Next, PStep
<1> QED BY <1>1, <1>2, <1>3, Invariance, PTL DEF Spec, IndexAsAsked

----------------------------------------------------------------------------
(* The safety part of the refinement of LayerSink. *)

\* Every step of the writers is a step of LayerSink or none at all.
THEOREM ImplementsSink == Spec => Sink!Init /\ [][Sink!Next]_(Sink!vars)
<1> DEFINE G == [p \in Procs |-> IF opt[p].mode = "bulk"
                                  THEN {NBatches} ELSE 1..NBatches]
<1>1. Init => Sink!Init
  <2>1. \A p \in Procs : G[p] \in {C \in SUBSET (0..NBatches) : NBatches \in C}
    BY PgWriterAssumption
  <2> QED BY <2>1 DEF Init, Sink!Init
<1>2. ASSUME IInv, NEW p \in Procs, PStep(p)
      PROVE  Sink!Next \/ UNCHANGED Sink!vars
  <2>0. PcInv(p) /\ TypeOK /\ (opt' = opt => G' = G)
    BY <1>2 DEF IInv
  <2>1. opt' = opt
    BY <1>2 DEF PStep, Step, Resolve, DropTable, Probe, CreateTable, BeginCopy,
       CopyPiece, FinishCopy, Insert, CommitBatch, Finish, Fail, CommitUnanswered
  <2>2. /\ NBatches \in Nat \ {0} /\ done[p] \in 0..NBatches
        /\ G[p] = IF opt[p].mode = "bulk" THEN {NBatches} ELSE 1..NBatches
    BY <2>0, PgWriterAssumption DEF TypeOK
  <2>3. CASE UNCHANGED <<done, result>>
    BY <2>0, <2>1, <2>3 DEF Sink!vars
  <2>4. CASE Commit(p) /\ UNCHANGED result /\ pc[p] \in {"copy", "commit"}
             /\ (pc[p] = "copy" => batch[p] = NBatches)
    <3>1. result[p] = "none" /\ batch[p] \in G[p] /\ Sink!IsNextCut(p, batch[p])
      BY <2>0, <2>2, <2>4 DEF PcInv, Sink!IsNextCut, TypeOK
    <3>2. done' = [done EXCEPT ![p] = batch[p]]
      BY <2>4 DEF Commit
    <3>3. Sink!Commit(p)
      BY <2>0, <2>1, <2>4, <3>1, <3>2 DEF Sink!Commit, Sink!Advance
    <3> QED BY <3>3 DEF Sink!Next, Sink!Step
  <2>5. CASE /\ pc[p] # "end" /\ result' = [result EXCEPT ![p] = "err"]
             /\ UNCHANGED done
    BY <2>0, <2>1, <2>5 DEF PcInv, Sink!Next, Sink!Step, Sink!Fail
  <2>6. CASE CommitUnanswered(p)
    <3>1. result[p] = "none" /\ batch[p] \in G[p] /\ Sink!IsNextCut(p, batch[p])
      BY <2>0, <2>2, <2>6 DEF PcInv, Sink!IsNextCut, TypeOK, CommitUnanswered
    <3>2. done' = [done EXCEPT ![p] = batch[p]] /\ result' = [result EXCEPT ![p] = "err"]
      BY <2>6 DEF CommitUnanswered, Commit, End
    <3>3. Sink!Fail(p)
      BY <2>0, <2>1, <3>1, <3>2 DEF Sink!Fail, Sink!Advance
    <3> QED BY <3>3 DEF Sink!Next, Sink!Step
  <2>7. CASE Finish(p)
    <3>1. result[p] = "none" /\ done[p] = NBatches /\ done' = done
      BY <2>0, <2>7 DEF PcInv, Finish, load
    <3>2. CASE result' = [result EXCEPT ![p] = "ok"]
      <4>1. Sink!Succeed(p)
        BY <2>0, <2>1, <3>1, <3>2 DEF Sink!Succeed
      <4> QED BY <4>1 DEF Sink!Next, Sink!Step
    <3> QED BY <2>5, <2>7, <3>1, <3>2 DEF Finish, End
  <2>8. CASE FinishCopy(p) \/ CommitBatch(p)
    BY <2>4, <2>8 DEF FinishCopy, CommitBatch
  <2>9. CASE Fail(p)
    BY <2>5, <2>9 DEF Fail, End
  <2>10. CASE \/ Resolve(p) \/ DropTable(p) \/ Probe(p) \/ CreateTable(p)
              \/ BeginCopy(p) \/ CopyPiece(p) \/ Insert(p)
    BY <2>3, <2>5, <2>10 DEF Resolve, DropTable, Probe, CreateTable, BeginCopy,
       CopyPiece, Insert, SendPiece, End, load
  <2> QED BY <1>2, <2>6, <2>7, <2>8, <2>9, <2>10 DEF PStep, Step
<1>3. IInv /\ [Next]_vars => [Sink!Next]_(Sink!vars)
  <2> SUFFICES ASSUME IInv, [Next]_vars PROVE [Sink!Next]_(Sink!vars)
    OBVIOUS
  <2>1. CASE UNCHANGED vars
    BY <2>1 DEF vars, load, Sink!vars
  <2> QED BY <1>2, <2>1 DEF Next, PStep, Terminated
<1> QED BY <1>1, <1>3, Invariance, PTL DEF Spec
============================================================================
