------------------------- MODULE MssqlWriter_proofs -------------------------
(***************************************************************************)
(* What MssqlWriter promises for every set of processes, every mix of      *)
(* options, every sequence of batches and every chunk size, proved with    *)
(* TLAPS.                                                                  *)
(*                                                                         *)
(* The invariants of MssqlWriter speak of the log of commits; they follow  *)
(* from the counters of the code once it is known which rows they stand    *)
(* for.  The rows of the source that matter to p at any moment lie between *)
(* From(p), what is durable, and To(p), what was read: LoadInv says so,    *)
(* and PcInv which of them the #temp table and the open transaction hold   *)
(* at each statement.                                                      *)
(***************************************************************************)
EXTENDS MssqlWriter, FiniteSetsExt, WellFoundedInduction, TLAPS

----------------------------------------------------------------------------
(* Numbers and repetition. *)

\* A set of naturals that is not empty has a least element.
LEMMA LeastNumber ==
    ASSUME NEW T \in SUBSET Nat, T # {}
    PROVE  \E m \in T : \A n \in T : m <= n
<1> DEFINE R == OpToRel(<, Nat)
<1>1. \A x, y \in Nat : <<x, y>> \in R <=> x < y
  BY DEF OpToRel
<1>2. IsWellFoundedOn(R, Nat)
  BY NatLessThanWellFounded
<1> HIDE DEF R
<1>3. PICK m \in T : \A n \in T : ~(<<n, m>> \in R)
  BY <1>2, WFMin
<1>4. ASSUME NEW n \in T PROVE m <= n
  <2>1. m \in Nat /\ n \in Nat
    OBVIOUS
  <2>2. ~(n < m)
    BY <1>1, <1>3, <2>1
  <2> QED BY <2>1, <2>2
<1> QED BY <1>4

\* What holds of 0 and passes from n to n + 1 holds of every number.
LEMMA SetInduction ==
    ASSUME NEW T, 0 \in T, \A n \in Nat : n \in T => n + 1 \in T
    PROVE  \A n \in Nat : n \in T
<1> SUFFICES ASSUME Nat \ T # {} PROVE FALSE
  OBVIOUS
<1>1. PICK m \in Nat \ T : \A n \in Nat \ T : m <= n
  BY LeastNumber
<1>2. m - 1 \in Nat /\ m - 1 \notin Nat \ T
  BY <1>1
<1> QED BY <1>1, <1>2

\* Min is the least element of a set of naturals.
LEMMA MinIs ==
    ASSUME NEW S \in SUBSET Nat, S # {}
    PROVE  Min(S) \in S /\ \A y \in S : Min(S) <= y
<1>1. \E x \in S : \A y \in S : x <= y
  BY LeastNumber
<1> QED BY <1>1 DEF Min

\* Max is the largest element of a bounded set of naturals.
LEMMA MaxIs ==
    ASSUME NEW S \in SUBSET Nat, S # {}, NEW n \in Nat, \A y \in S : y <= n
    PROVE  Max(S) \in S /\ \A y \in S : y <= Max(S)
<1> DEFINE U == {u \in Nat : \A y \in S : y <= u}
<1>1. PICK u \in U : \A v \in U : u <= v
  <2>1. U \in SUBSET Nat /\ n \in U
    OBVIOUS
  <2> QED BY <2>1, LeastNumber
<1>2. u \in S
  <2> SUFFICES ASSUME u \notin S PROVE FALSE
    OBVIOUS
  <2>1. \A y \in S : y \in Nat /\ y < u
    BY <1>1
  <2>2. PICK y \in S : TRUE
    OBVIOUS
  <2>3. u \in Nat /\ u - 1 \in Nat
    BY <2>1, <2>2
  <2>4. \A z \in S : z <= u - 1
    BY <2>1, <2>3
  <2>5. u - 1 \in U
    BY <2>3, <2>4
  <2> QED BY <1>1, <2>3, <2>5
<1>3. \E x \in S : \A y \in S : x >= y
  BY <1>1, <1>2
<1> QED BY <1>3 DEF Max

\* g repeats `step` from c, N times, inside S.
Repeats(g, S, c, step, N) ==
    /\ g \in [0..N -> S]
    /\ g[0] = c
    /\ \A i \in 1..N : g[i] = step[g[i - 1]]

\* Repeating a step of S, from c and N times, gives a function.
LEMMA Iteration ==
    ASSUME NEW S, NEW c \in S, NEW step \in [S -> S], NEW N \in Nat
    PROVE  \E g : Repeats(g, S, c, step, N)
<1> DEFINE T == {n \in Nat : \E g : Repeats(g, S, c, step, n)}
<1>1. 0 \in T
  <2> DEFINE g == [i \in 0..0 |-> c]
  <2>1. g \in [0..0 -> S] /\ g[0] = c
    OBVIOUS
  <2>2. \A i \in 1..0 : g[i] = step[g[i - 1]]
    OBVIOUS
  <2> HIDE DEF g
  <2> QED BY <2>1, <2>2 DEF Repeats
<1>2. ASSUME NEW n \in Nat, n \in T PROVE n + 1 \in T
  <2>1. PICK g : Repeats(g, S, c, step, n)
    BY <1>2
  <2> DEFINE h == [i \in 0..(n + 1) |-> IF i <= n THEN g[i] ELSE step[g[n]]]
  <2>2. h \in [0..(n + 1) -> S] /\ h[0] = c
    BY <2>1 DEF Repeats
  <2>3. \A i \in 1..(n + 1) : h[i] = step[h[i - 1]]
    <3> TAKE i \in 1..(n + 1)
    <3>1. CASE i <= n
      BY <2>1, <3>1 DEF Repeats
    <3>2. CASE i = n + 1
      BY <2>1, <3>2 DEF Repeats
    <3> QED BY <3>1, <3>2
  <2> HIDE DEF h
  <2> QED BY <2>2, <2>3 DEF Repeats
<1> HIDE DEF T
<1>3. N \in T
  BY <1>1, <1>2, SetInduction
<1> QED BY <1>3 DEF T

----------------------------------------------------------------------------
(* The rows of a load, and the invariant. *)

Batches == 0..NBatches

\* The rows of p before From(p) are durable, those up to To(p) were read.
From(p) == Ends[sent[p]]
To(p)   == Ends[read[p]]

\* No transaction of p has touched the target.
Idle(p) == txn[p] = Rows(From(p), From(p)) /\ tgt[p] = None

\* What holds of the load of p at any statement and after any failure.
LoadInv(p) ==
    /\ sent[p] <= read[p]
    /\ read[p] # sent[p] => Ends[read[p] - 1] - From(p) < ChunkSize
    /\ Count(staged[p]) = 0 \/ staged[p] = Rows(From(p), To(p))
    /\ opt[p].mode = "bulk" => \E i \in Batches : sent[p] = ChunkEnd[i]

\* The log of p: a row is committed once, and the last one is row From(p).
LogInv(p) ==
    /\ \A i \in 1..Len(log[p]) :
          /\ log[p][i].rows.from = (IF i = 1 THEN 0 ELSE log[p][i - 1].rows.to)
          /\ Count(log[p][i].rows) > 0
    /\ Loaded(p) = From(p)

\* Where the counters of p are, statement by statement.
PcInv(p) ==
    /\ pc[p] \in {"open", "drop", "dropNow", "probe", "redrop", "create"} =>
           read[p] = 0 /\ sent[p] = 0 /\ Idle(p) /\ Count(staged[p]) = 0
    /\ pc[p] = "next" =>
           /\ Idle(p) /\ Count(staged[p]) = 0
           /\ To(p) - From(p) < ChunkSize
           /\ opt[p].mode = "batch" => read[p] = sent[p]
    /\ pc[p] = "insert" =>
           /\ opt[p].mode = "batch" /\ read[p] = sent[p] + 1
           /\ txn[p].from = From(p) /\ From(p) <= txn[p].to /\ txn[p].to < To(p)
           /\ tgt[p] = None => txn[p].to = From(p)
           /\ Count(staged[p]) = 0
    /\ pc[p] \in {"stage", "transfer", "truncate"} =>
           /\ opt[p].mode = "bulk"
           /\ read[p] = FlushEnd(sent[p]) /\ From(p) < To(p)
    /\ pc[p] = "stage" => Idle(p) /\ Count(staged[p]) = 0
    /\ pc[p] = "transfer" => Idle(p) /\ staged[p] = Rows(From(p), To(p))
    /\ pc[p] = "truncate" =>
           /\ staged[p] = Rows(From(p), To(p))
           /\ txn[p] = Rows(From(p), To(p)) /\ tgt[p] # None
    /\ pc[p] = "commit" =>
           /\ txn[p] = Rows(From(p), To(p)) /\ Count(staged[p]) = 0
           /\ From(p) < To(p) => tgt[p] # None
           /\ IF opt[p].mode = "bulk" THEN read[p] = FlushEnd(sent[p])
                                      ELSE read[p] = sent[p] + 1
    /\ pc[p] = "index" => From(p) = NRows
    /\ result[p] = "none" <=> pc[p] # "end"
    /\ result[p] = "ok" => From(p) = NRows

\* The inductive invariant.
IInv == TypeOK /\ \A p \in Procs : LoadInv(p) /\ LogInv(p) /\ PcInv(p)

----------------------------------------------------------------------------
(* Where batches and chunks end. *)

\* The rows of the first b batches are more, the larger b is.
LEMMA EndsMonotone ==
    ASSUME NEW a \in Batches, NEW b \in Batches, a <= b
    PROVE  Ends[a] \in Nat /\ Ends[b] \in Nat /\ Ends[a] <= Ends[b]
<1> DEFINE T == {n \in Nat : \A c \in Batches : c = a + n => Ends[a] <= Ends[c]}
<1>0. /\ NBatches \in Nat /\ Ends \in [Batches -> Nat]
      /\ \A c \in 1..NBatches : Ends[c - 1] <= Ends[c]
  BY MssqlWriterAssumption DEF Batches
<1>1. 0 \in T
  BY <1>0 DEF Batches
<1>2. ASSUME NEW n \in Nat, n \in T PROVE n + 1 \in T
  <2> SUFFICES ASSUME NEW c \in Batches, c = a + (n + 1) PROVE Ends[a] <= Ends[c]
    OBVIOUS
  <2>1. c - 1 \in Batches /\ c - 1 = a + n /\ c \in 1..NBatches
    BY <1>0 DEF Batches
  <2>2. Ends[a] <= Ends[c - 1] /\ Ends[c - 1] <= Ends[c]
    BY <1>0, <1>2, <2>1
  <2> QED BY <1>0, <2>1, <2>2
<1> HIDE DEF T
<1>3. \A n \in Nat : n \in T
  BY <1>1, <1>2, SetInduction
<1>4. b - a \in T /\ b = a + (b - a)
  BY <1>0, <1>3 DEF Batches
<1> QED BY <1>0, <1>4 DEF T

\* FlushEnd(b) is the first batch from b on that ends a chunk.
LEMMA FlushEndIs ==
    ASSUME NEW b \in Batches
    PROVE  /\ FlushEnd(b) \in b..NBatches
           /\ FlushEnd(b) = NBatches \/ Ends[FlushEnd(b)] - Ends[b] >= ChunkSize
           /\ \A c \in b..NBatches :
                 c = NBatches \/ Ends[c] - Ends[b] >= ChunkSize => FlushEnd(b) <= c
<1> DEFINE S == {c \in b..NBatches : c = NBatches \/ Ends[c] - Ends[b] >= ChunkSize}
<1>1. S \in SUBSET Nat /\ NBatches \in S
  BY MssqlWriterAssumption DEF Batches
<1>2. Min(S) \in S /\ \A y \in S : Min(S) <= y
  BY <1>1, MinIs
<1>3. FlushEnd(b) = Min(S)
  BY DEF FlushEnd
<1> QED BY <1>2, <1>3

\* A chunk holds at least one batch.
LEMMA FlushEndGrows ==
    ASSUME NEW b \in Batches
    PROVE  FlushEnd(b) \in Batches /\ (b < NBatches => b < FlushEnd(b))
<1>1. /\ NBatches \in Nat /\ ChunkSize \in Nat \ {0} /\ Ends[b] \in Nat
  BY MssqlWriterAssumption DEF Batches
<1>2. /\ FlushEnd(b) \in b..NBatches
      /\ FlushEnd(b) = NBatches \/ Ends[FlushEnd(b)] - Ends[b] >= ChunkSize
  BY FlushEndIs
<1>3. Ends[b] - Ends[b] < ChunkSize
  BY <1>1
<1> QED BY <1>1, <1>2, <1>3 DEF Batches

\* What the recursion of ChunkEnd computes.
LEMMA ChunkEndIs ==
    /\ ChunkEnd \in [Batches -> Batches] /\ ChunkEnd[0] = 0
    /\ \A i \in 1..NBatches : ChunkEnd[i] = FlushEnd(ChunkEnd[i - 1])
<1> DEFINE step == [b \in Batches |-> FlushEnd(b)]
<1>0. NBatches \in Nat /\ 0 \in Batches
  BY MssqlWriterAssumption DEF Batches
<1>1. step \in [Batches -> Batches]
  BY FlushEndGrows
<1>2. \A b \in Batches : step[b] = FlushEnd(b)
  OBVIOUS
<1> HIDE DEF step
<1>3. PICK g : Repeats(g, Batches, 0, step, NBatches)
  BY <1>0, <1>1, Iteration
<1>4. \A i \in 1..NBatches : g[i - 1] \in Batches /\ g[i] = FlushEnd(g[i - 1])
  BY <1>0, <1>2, <1>3 DEF Repeats
<1>5. g = [i \in 0..NBatches |-> IF i = 0 THEN 0 ELSE FlushEnd(g[i - 1])]
  BY <1>0, <1>3, <1>4 DEF Repeats
<1>11. ChunkEnd = [i \in 0..NBatches |-> IF i = 0 THEN 0 ELSE FlushEnd(ChunkEnd[i - 1])]
  BY <1>5 DEF ChunkEnd
<1>12. ChunkEnd = [i \in Batches |-> ChunkEnd[i]]
  BY <1>11 DEF Batches
<1>6. ChunkEnd[0] = 0 /\ \A i \in 1..NBatches : ChunkEnd[i] = FlushEnd(ChunkEnd[i - 1])
  BY <1>0, <1>11 DEF Batches
<1> DEFINE T == {n \in Nat : n \in Batches => ChunkEnd[n] \in Batches}
<1>7. 0 \in T
  BY <1>0, <1>6 DEF Batches
<1>8. ASSUME NEW n \in Nat, n \in T PROVE n + 1 \in T
  <2> SUFFICES ASSUME n + 1 \in Batches PROVE ChunkEnd[n + 1] \in Batches
    OBVIOUS
  <2>1. ChunkEnd[n] \in Batches /\ n + 1 # 0 /\ (n + 1) - 1 = n
    BY <1>0, <1>8 DEF Batches
  <2>2. ChunkEnd[n + 1] = FlushEnd(ChunkEnd[n])
    BY <1>0, <1>6, <2>1 DEF Batches
  <2> QED BY <2>1, <2>2, FlushEndGrows
<1>9. \A n \in Nat : n \in T
  <2> HIDE DEF T
  <2> QED BY <1>7, <1>8, SetInduction
<1>10. \A i \in Batches : ChunkEnd[i] \in Batches
  BY <1>0, <1>9 DEF Batches
<1> QED BY <1>12, <1>6, <1>10

\* Chunks end in the order of the source.
LEMMA ChunkEndOrder ==
    ASSUME NEW i \in Batches, NEW j \in Batches, i <= j
    PROVE  ChunkEnd[i] <= ChunkEnd[j]
<1> DEFINE T == {n \in Nat : \A k \in Batches : k = i + n => ChunkEnd[i] <= ChunkEnd[k]}
<1>0. NBatches \in Nat /\ \A k \in Batches : ChunkEnd[k] \in Batches
  BY MssqlWriterAssumption, ChunkEndIs
<1>1. 0 \in T
  BY <1>0 DEF Batches
<1>2. ASSUME NEW n \in Nat, n \in T PROVE n + 1 \in T
  <2> SUFFICES ASSUME NEW k \in Batches, k = i + (n + 1) PROVE ChunkEnd[i] <= ChunkEnd[k]
    OBVIOUS
  <2>1. k - 1 \in Batches /\ k - 1 = i + n /\ k \in 1..NBatches
    BY <1>0 DEF Batches
  <2>2. ChunkEnd[k] = FlushEnd(ChunkEnd[k - 1]) /\ ChunkEnd[k - 1] \in Batches
    BY <1>0, <2>1, ChunkEndIs
  <2>3. ChunkEnd[i] <= ChunkEnd[k - 1] /\ ChunkEnd[k] \in ChunkEnd[k - 1]..NBatches
    BY <1>2, <2>1, <2>2, FlushEndIs
  <2> QED BY <1>0, <2>2, <2>3 DEF Batches
<1> HIDE DEF T
<1>3. \A n \in Nat : n \in T
  BY <1>1, <1>2, SetInduction
<1>4. j - i \in T /\ j = i + (j - i)
  BY <1>0, <1>3 DEF Batches
<1> QED BY <1>4 DEF T

\* After the chunks of the load comes nothing: the last one ends the source.
LEMMA ChunkEndLast == ChunkEnd[NBatches] = NBatches
<1> DEFINE T == {n \in Nat : n \in Batches => n <= ChunkEnd[n]}
<1>0. NBatches \in Nat /\ \A k \in Batches : ChunkEnd[k] \in Batches
  BY MssqlWriterAssumption, ChunkEndIs
<1>1. 0 \in T
  BY <1>0 DEF Batches
<1>2. ASSUME NEW n \in Nat, n \in T PROVE n + 1 \in T
  <2> SUFFICES ASSUME n + 1 \in Batches PROVE n + 1 <= ChunkEnd[n + 1]
    OBVIOUS
  <2>1. n \in Batches /\ n + 1 \in 1..NBatches /\ (n + 1) - 1 = n
    BY <1>0 DEF Batches
  <2>2. ChunkEnd[n + 1] = FlushEnd(ChunkEnd[n]) /\ n <= ChunkEnd[n]
    BY <1>2, <2>1, ChunkEndIs
  <2>3. ChunkEnd[n] < NBatches => ChunkEnd[n] < ChunkEnd[n + 1]
    BY <1>0, <2>1, <2>2, FlushEndGrows
  <2>4. ChunkEnd[n] <= ChunkEnd[n + 1]
    BY <1>0, <2>1, ChunkEndOrder
  <2> QED BY <1>0, <2>1, <2>2, <2>3, <2>4 DEF Batches
<1> HIDE DEF T
<1>3. NBatches \in T
  BY <1>0, <1>1, <1>2, SetInduction
<1> QED BY <1>0, <1>3 DEF T, Batches

\* What ends the chunk after a chunk of the load ends a chunk of the load.
LEMMA ChunkEndClosed ==
    ASSUME NEW i \in Batches
    PROVE  \E j \in Batches : FlushEnd(ChunkEnd[i]) = ChunkEnd[j]
<1>0. NBatches \in Nat
  BY MssqlWriterAssumption
<1>1. CASE i < NBatches
  <2>1. i + 1 \in 1..NBatches /\ (i + 1) - 1 = i /\ i + 1 \in Batches
    BY <1>0, <1>1 DEF Batches
  <2> QED BY <2>1, ChunkEndIs
<1>2. CASE i = NBatches
  <2>1. ChunkEnd[i] = NBatches /\ NBatches \in Batches
    BY <1>0, <1>2, ChunkEndLast DEF Batches
  <2>2. FlushEnd(NBatches) = NBatches
    BY <1>0, <2>1, FlushEndIs
  <2> QED BY <2>1, <2>2
<1> QED BY <1>0, <1>1, <1>2 DEF Batches

----------------------------------------------------------------------------
(* Type correctness, and a step of one process and the others. *)

PStep(p) == Step(p) \/ Fail(p) \/ CommitUnanswered(p)

PcTypes == [Procs -> {"open", "drop", "dropNow", "probe", "redrop", "create",
                      "next", "insert", "stage", "transfer", "truncate",
                      "commit", "index", "end"}]

\* A step of p leaves what belongs to the other processes alone.
Frame(p) == \A q \in Procs \ {p} :
    /\ opt'[q] = opt[q] /\ pc'[q] = pc[q] /\ read'[q] = read[q]
    /\ sent'[q] = sent[q] /\ staged'[q] = staged[q] /\ txn'[q] = txn[q]
    /\ tgt'[q] = tgt[q] /\ log'[q] = log[q] /\ result'[q] = result[q]

\* The counters of a process and the rows they stand for.
LEMMA Counters ==
    ASSUME TypeOK, NEW p \in Procs
    PROVE  /\ NBatches \in Nat /\ NRows \in Nat
           /\ read[p] \in Batches /\ sent[p] \in Batches
           /\ From(p) \in 0..NRows /\ To(p) \in 0..NRows
           /\ From(p) \in Nat /\ To(p) \in Nat
           /\ sent[p] <= read[p] => From(p) <= To(p)
           /\ staged[p] \in Intervals /\ txn[p] \in Intervals
           /\ opt[p].mode \in {"bulk", "batch"}
<1>1. NBatches \in Nat /\ Ends \in [Batches -> Nat] /\ NBatches \in Batches
  BY MssqlWriterAssumption DEF Batches
<1>2. /\ read[p] \in Batches /\ sent[p] \in Batches
      /\ staged[p] \in Intervals /\ txn[p] \in Intervals
  BY DEF TypeOK, Batches
<1>3. \A b \in Batches : Ends[b] \in 0..NRows
  <2> TAKE b \in Batches
  <2>1. b <= NBatches
    BY <1>1 DEF Batches
  <2> QED BY <1>1, <2>1, EndsMonotone DEF NRows
<1>4. sent[p] <= read[p] => From(p) <= To(p)
  BY <1>2, EndsMonotone DEF From, To
<1>5. opt[p].mode \in {"bulk", "batch"}
  BY MssqlWriterAssumption DEF TypeOK, AllCommands
<1> QED BY <1>1, <1>2, <1>3, <1>4, <1>5 DEF From, To, NRows

\* The initial state has its type.
LEMMA InitType == Init => TypeOK
<1> SUFFICES ASSUME Init PROVE TypeOK
  OBVIOUS
<1>1. NBatches \in Nat /\ NRows \in Nat
  BY MssqlWriterAssumption DEF NRows
<1>2. Rows(0, 0) \in Intervals
  BY <1>1 DEF Rows, Intervals
<1>3. log \in [Procs -> Seq([table : Tables, rows : Intervals])]
  BY DEF Init
<1>4. idx \subseteq Tables
  BY DEF Init, Tables
<1> QED BY <1>1, <1>2, <1>3, <1>4 DEF Init, TypeOK, Tables

\* A commit appends the rows of the transaction to the log, if it has any.
LEMMA CommitType ==
    ASSUME TypeOK, NEW p \in Procs, Commit(p),
           Count(txn[p]) # 0 => tgt[p] # None
    PROVE  /\ txn' \in [Procs -> Intervals] /\ sent' \in [Procs -> 0..NBatches]
           /\ log' \in [Procs -> Seq([table : Tables, rows : Intervals])]
<1>1. txn[p] \in Intervals /\ tgt[p] \in Tables \cup {None}
  BY DEF TypeOK
<1>2. Rows(txn[p].to, txn[p].to) \in Intervals
  BY <1>1 DEF Rows, Intervals
<1>3. txn' \in [Procs -> Intervals]
  BY <1>2 DEF Commit, TypeOK
<1>4. sent' \in [Procs -> 0..NBatches]
  BY DEF Commit, TypeOK
<1>5. CASE Count(txn[p]) = 0
  BY <1>3, <1>4, <1>5 DEF Commit, TypeOK
<1>6. CASE Count(txn[p]) # 0
  <2> DEFINE entry == [table |-> tgt[p], rows |-> txn[p]]
  <2>1. entry \in [table : Tables, rows : Intervals]
    BY <1>1, <1>6
  <2>2. log' = [log EXCEPT ![p] = Append(@, entry)]
    BY <1>6 DEF Commit
  <2> HIDE DEF entry
  <2> DEFINE E == [table : Tables, rows : Intervals]
  <2>3. log \in [Procs -> Seq(E)] /\ entry \in E
    BY <2>1 DEF TypeOK
  <2> HIDE DEF E
  <2>4. Append(log[p], entry) \in Seq(E)
    BY <2>3
  <2>5. log' \in [Procs -> Seq(E)]
    BY <2>2, <2>3, <2>4
  <2> QED BY <1>3, <1>4, <2>5 DEF E
<1> QED BY <1>5, <1>6

\* A statement that writes rows to the target.
LEMMA WriteType ==
    ASSUME TypeOK, NEW p \in Procs, NEW rows \in Intervals, NEW next,
           next \in {"insert", "commit", "truncate"}, WriteTarget(p, rows, next)
    PROVE  /\ txn' \in [Procs -> Intervals] /\ pc' \in PcTypes
           /\ tgt' \in [Procs -> Tables \cup {None}]
           /\ result' \in [Procs -> {"none", "ok", "err"}]
<1>1. CASE tgt[p] = None /\ tbl = None
  <2>1. txn' = txn /\ pc' = [pc EXCEPT ![p] = "end"]
        /\ result' = [result EXCEPT ![p] = "err"] /\ tgt' = [tgt EXCEPT ![p] = None]
    BY <1>1 DEF WriteTarget, End, Goto
  <2> QED BY <2>1 DEF TypeOK, PcTypes
<1>2. CASE ~(tgt[p] = None /\ tbl = None)
  <2>1. txn' = [txn EXCEPT ![p] = rows] /\ pc' = [pc EXCEPT ![p] = next]
        /\ tgt' = [tgt EXCEPT ![p] = IF tgt[p] = None THEN tbl ELSE tgt[p]]
        /\ result' = result
    BY <1>2 DEF WriteTarget, Goto
  <2>2. txn' \in [Procs -> Intervals] /\ pc' \in PcTypes
        /\ result' \in [Procs -> {"none", "ok", "err"}]
    BY <2>1 DEF TypeOK, PcTypes
  <2>3. tgt' \in [Procs -> Tables \cup {None}]
    <3>1. (IF tgt[p] = None THEN tbl ELSE tgt[p]) \in Tables \cup {None}
      BY DEF TypeOK
    <3> QED BY <2>1, <3>1 DEF TypeOK
  <2> QED BY <2>2, <2>3
<1> QED BY <1>1, <1>2

\* The rows an INSERT reaches.
LEMMA InsertUpTo ==
    ASSUME TypeOK, NEW p \in Procs, txn[p].to <= To(p),
           NEW upTo, upTo = Min({txn[p].to + ChunkRows, Ends[read[p]]})
    PROVE  /\ upTo \in 0..NRows /\ upTo <= To(p)
           /\ txn[p].to <= upTo
           /\ txn[p].to < To(p) => txn[p].to < upTo
           /\ Rows(txn[p].from, upTo) \in Intervals
<1>1. To(p) \in 0..NRows /\ NRows \in Nat /\ txn[p] \in Intervals
  BY Counters
<1>2. txn[p].to \in 0..NRows /\ txn[p].from \in 0..NRows /\ ChunkRows \in Nat \ {0}
  BY <1>1, MssqlWriterAssumption DEF Intervals
<1> DEFINE S == {txn[p].to + ChunkRows, Ends[read[p]]}
<1>3. S \in SUBSET Nat /\ S # {}
  BY <1>1, <1>2 DEF To
<1>4. Min(S) \in S /\ \A y \in S : Min(S) <= y
  BY <1>3, MinIs
<1>5. upTo \in 0..NRows /\ upTo <= To(p) /\ txn[p].to <= upTo
      /\ (txn[p].to < To(p) => txn[p].to < upTo)
  BY <1>1, <1>2, <1>4 DEF To
<1> QED BY <1>2, <1>5 DEF Rows, Intervals

\* Every step of a process keeps the type invariant.
LEMMA StepType ==
    ASSUME IInv, NEW p \in Procs, PStep(p)
    PROVE  TypeOK'
<1>0. TypeOK /\ PcInv(p)
  BY DEF IInv
<1>1. CASE Resolve(p)
  BY ZenonT(60), <1>0, <1>1 DEF TypeOK, Resolve, End, Goto, load
<1>2. CASE CheckDrop(p)
  BY <1>0, <1>2 DEF TypeOK, CheckDrop, Goto, load
<1>3. CASE DropTable(p)
  BY ZenonT(60), <1>0, <1>3 DEF TypeOK, DropTable, End, Goto, load
<1>4. CASE Probe(p)
  BY <1>0, <1>4 DEF TypeOK, Probe, End, Goto, load
<1>5. CASE CreateTable(p)
  BY ZenonT(60), <1>0, <1>5 DEF TypeOK, CreateTable, End, Goto, load, Tables
<1>6. CASE PullBatch(p)
  <2>1. NBatches \in Nat /\ read[p] \in 0..NBatches /\ read[p] < NBatches
    BY <1>0, <1>6, MssqlWriterAssumption DEF TypeOK, PullBatch
  <2>2. read' \in [Procs -> 0..NBatches]
    BY <1>0, <1>6, <2>1 DEF TypeOK, PullBatch
  <2>3. pc' \in PcTypes
    BY <1>0, <1>6 DEF TypeOK, PullBatch, Goto, PcTypes
  <2> QED BY <1>0, <1>6, <2>2, <2>3 DEF TypeOK, PullBatch, PcTypes
<1>7. CASE SourceEnds(p)
  BY <1>0, <1>7 DEF TypeOK, SourceEnds, Goto, load
<1>8. CASE Insert(p)
  <2> DEFINE upTo == Min({txn[p].to + ChunkRows, Ends[read[p]]})
             next == IF upTo = Ends[read[p]] THEN "commit" ELSE "insert"
  <2>1. txn[p].to < To(p)
    BY <1>0, <1>8 DEF PcInv, Insert
  <2>2. txn[p].to <= To(p)
    BY <1>0, <2>1, Counters DEF Intervals
  <2>3. Rows(txn[p].from, upTo) \in Intervals
    BY <1>0, <2>2, InsertUpTo
  <2>4. WriteTarget(p, Rows(txn[p].from, upTo), next)
    BY <1>8 DEF Insert
  <2>5. next \in {"insert", "commit", "truncate"}
    OBVIOUS
  <2> HIDE DEF upTo, next
  <2>6. /\ txn' \in [Procs -> Intervals] /\ pc' \in PcTypes
        /\ tgt' \in [Procs -> Tables \cup {None}]
        /\ result' \in [Procs -> {"none", "ok", "err"}]
    BY <1>0, <2>3, <2>4, <2>5, WriteType
  <2> QED BY <1>0, <1>8, <2>6 DEF TypeOK, Insert, PcTypes
<1>9. CASE Stage(p)
  <2>1. To(p) \in 0..NRows /\ From(p) \in 0..NRows /\ staged[p] \in Intervals
    BY <1>0, Counters
  <2>2. Rows(IF Count(staged[p]) = 0 THEN Ends[sent[p]] ELSE staged[p].from,
             Ends[read[p]]) \in Intervals
    BY <2>1 DEF Rows, Intervals, From, To
  <2>3. staged' \in [Procs -> Intervals]
    BY <1>0, <1>9, <2>2 DEF TypeOK, Stage
  <2> QED BY <1>0, <1>9, <2>3 DEF TypeOK, Stage, Goto
<1>10. CASE Transfer(p)
  <2>1. /\ txn' \in [Procs -> Intervals] /\ pc' \in PcTypes
        /\ tgt' \in [Procs -> Tables \cup {None}]
        /\ result' \in [Procs -> {"none", "ok", "err"}]
    BY <1>0, <1>10, WriteType DEF TypeOK, Transfer
  <2> QED BY <1>0, <1>10, <2>1 DEF TypeOK, Transfer, PcTypes
<1>11. CASE Truncate(p)
  <2>1. Rows(staged[p].to, staged[p].to) \in Intervals
    BY <1>0 DEF TypeOK, Rows, Intervals
  <2>2. staged' \in [Procs -> Intervals]
    BY <1>0, <1>11, <2>1 DEF TypeOK, Truncate
  <2> QED BY <1>0, <1>11, <2>2 DEF TypeOK, Truncate, Goto
<1>12. ASSUME pc[p] = "commit", Commit(p)
       PROVE  /\ txn' \in [Procs -> Intervals] /\ sent' \in [Procs -> 0..NBatches]
              /\ log' \in [Procs -> Seq([table : Tables, rows : Intervals])]
  <2>1. txn[p] = Rows(From(p), To(p)) /\ (From(p) < To(p) => tgt[p] # None)
    BY <1>0, <1>12 DEF PcInv
  <2>2. From(p) \in Nat /\ To(p) \in Nat /\ From(p) <= To(p)
    BY <1>0, Counters DEF IInv, LoadInv
  <2>3. Count(txn[p]) # 0 => tgt[p] # None
    BY <2>1, <2>2 DEF Count, Rows
  <2> QED BY <1>0, <1>12, <2>3, CommitType
<1>13. CASE CommitTran(p)
  BY <1>0, <1>12, <1>13 DEF TypeOK, CommitTran, Goto
<1>14. CASE CommitUnanswered(p)
  BY <1>0, <1>12, <1>14 DEF TypeOK, CommitUnanswered, End, Goto
<1>15. CASE Finish(p)
  <2>1. tbl \in Tables \cup {None} /\ (tbl = Old => tbl \in Tables)
    BY <1>0 DEF TypeOK, Tables
  <2> QED BY ZenonT(60), <1>0, <1>15, <2>1 DEF TypeOK, Finish, End, Goto, load
<1>16. CASE Fail(p)
  BY <1>0, <1>16 DEF TypeOK, Fail, End, Goto, load
<1> QED BY <1>1, <1>2, <1>3, <1>4, <1>5, <1>6, <1>7, <1>8, <1>9, <1>10, <1>11,
           <1>13, <1>14, <1>15, <1>16 DEF PStep, Step, Open, Load

\* A step of p changes nothing that belongs to another process.
LEMMA StepFrame ==
    ASSUME TypeOK, NEW p \in Procs, PStep(p)
    PROVE  Frame(p)
<1>1. CASE Resolve(p) \/ CheckDrop(p) \/ DropTable(p) \/ Probe(p) \/ CreateTable(p)
  BY <1>1 DEF TypeOK, Frame, Resolve, CheckDrop, DropTable, Probe, CreateTable,
     End, Goto, load
<1>2. CASE PullBatch(p) \/ SourceEnds(p) \/ Stage(p) \/ Truncate(p)
  BY <1>2 DEF TypeOK, Frame, PullBatch, SourceEnds, Stage, Truncate, Goto, load
<1>3. CASE Insert(p) \/ Transfer(p)
  BY <1>3 DEF TypeOK, Frame, Insert, Transfer, WriteTarget, End, Goto
<1>4. CASE CommitTran(p) \/ CommitUnanswered(p)
  BY <1>4 DEF TypeOK, Frame, CommitTran, CommitUnanswered, Commit, End, Goto
<1>5. CASE Finish(p) \/ Fail(p)
  BY <1>5 DEF TypeOK, Frame, Finish, Fail, End, Goto, load
<1> QED BY <1>1, <1>2, <1>3, <1>4, <1>5 DEF PStep, Step, Open, Load

\* What frames p away keeps the parts of the invariant that speak of p.
LEMMA FrameKeeps ==
    ASSUME IInv, NEW p \in Procs, Frame(p), NEW q \in Procs \ {p}
    PROVE  LoadInv(q)' /\ LogInv(q)' /\ PcInv(q)'
<1>1. /\ opt'[q] = opt[q] /\ pc'[q] = pc[q] /\ read'[q] = read[q]
      /\ sent'[q] = sent[q] /\ staged'[q] = staged[q] /\ txn'[q] = txn[q]
      /\ tgt'[q] = tgt[q] /\ log'[q] = log[q] /\ result'[q] = result[q]
  BY DEF Frame
<1>2. LoadInv(q)'
  BY <1>1 DEF IInv, LoadInv, From, To
<1>3. LogInv(q)'
  BY <1>1 DEF IInv, LogInv, Loaded, From
<1>4. PcInv(q)'
  BY <1>1 DEF IInv, PcInv, Idle, From, To
<1> QED BY <1>2, <1>3, <1>4

----------------------------------------------------------------------------
(* What a step of p does to its own invariants. *)

\* The batch that brings the pending rows to ChunkSize ends the chunk.
LEMMA ChunkFull ==
    ASSUME NEW a \in Batches, NEW b \in Batches, a <= b, b < NBatches,
           Ends[b] - Ends[a] < ChunkSize, Ends[b + 1] - Ends[a] >= ChunkSize
    PROVE  FlushEnd(a) = b + 1
<1>1. NBatches \in Nat /\ ChunkSize \in Nat /\ \A c \in Batches : Ends[c] \in Nat
  BY MssqlWriterAssumption DEF Batches
<1>2. b + 1 \in a..NBatches
  BY <1>1 DEF Batches
<1>3. FlushEnd(a) <= b + 1 /\ FlushEnd(a) \in a..NBatches /\ FlushEnd(a) \in Batches
  BY <1>1, <1>2, FlushEndIs, FlushEndGrows
<1>4. ~(FlushEnd(a) <= b)
  <2> SUFFICES ASSUME FlushEnd(a) <= b PROVE FALSE
    OBVIOUS
  <2>1. Ends[FlushEnd(a)] <= Ends[b]
    BY <1>3, EndsMonotone
  <2>2. FlushEnd(a) # NBatches
    BY <1>1, <1>3 DEF Batches
  <2>3. Ends[FlushEnd(a)] - Ends[a] >= ChunkSize
    BY <2>2, FlushEndIs
  <2> QED BY <1>1, <1>3, <2>1, <2>3
<1> QED BY <1>1, <1>3, <1>4 DEF Batches

\* At the end of the source the pending rows are the last chunk.
LEMMA ChunkLast ==
    ASSUME NEW a \in Batches, Ends[NBatches] - Ends[a] < ChunkSize
    PROVE  FlushEnd(a) = NBatches
<1>1. /\ NBatches \in Nat /\ ChunkSize \in Nat /\ \A c \in Batches : Ends[c] \in Nat
      /\ NBatches \in Batches
  BY MssqlWriterAssumption DEF Batches
<1>2. FlushEnd(a) \in Batches /\ FlushEnd(a) <= NBatches
  BY <1>1, FlushEndGrows DEF Batches
<1>3. Ends[FlushEnd(a)] <= Ends[NBatches]
  BY <1>1, <1>2, EndsMonotone
<1>4. FlushEnd(a) = NBatches \/ Ends[FlushEnd(a)] - Ends[a] >= ChunkSize
  BY FlushEndIs
<1>5. Ends[a] \in Nat /\ Ends[FlushEnd(a)] \in Nat /\ Ends[NBatches] \in Nat
  BY <1>1, <1>2
<1>6. ~(Ends[FlushEnd(a)] - Ends[a] >= ChunkSize)
  BY <1>1, <1>3, <1>5
<1> QED BY <1>4, <1>6

\* A step that reads nothing, stages nothing and commits nothing.
LEMMA QuietKeeps ==
    ASSUME IInv, NEW p \in Procs, UNCHANGED <<opt, read, sent, staged, log>>
    PROVE  LoadInv(p)' /\ LogInv(p)'
<1>1. LoadInv(p)'
  BY DEF IInv, LoadInv, From, To
<1>2. LogInv(p)'
  BY DEF IInv, LogInv, Loaded, From
<1> QED BY <1>1, <1>2

\* Taking a batch from the iterator.
LEMMA PullKeeps ==
    ASSUME IInv, NEW p \in Procs, PullBatch(p)
    PROVE  LoadInv(p)' /\ LogInv(p)' /\ PcInv(p)'
<1>1. /\ TypeOK /\ pc[p] = "next" /\ read[p] < NBatches /\ result[p] = "none"
      /\ Idle(p) /\ Count(staged[p]) = 0 /\ To(p) - From(p) < ChunkSize
      /\ opt[p].mode = "batch" => read[p] = sent[p]
      /\ sent[p] <= read[p]
  BY DEF IInv, PullBatch, PcInv, LoadInv
<1>2. /\ NBatches \in Nat /\ read[p] \in Batches /\ sent[p] \in Batches
      /\ From(p) \in Nat /\ To(p) \in Nat /\ From(p) <= To(p)
      /\ opt[p].mode \in {"bulk", "batch"}
  BY <1>1, Counters
<1>3. /\ read'[p] = read[p] + 1 /\ read[p] + 1 \in Batches
      /\ UNCHANGED <<opt, sent, staged, txn, log, tgt, result>>
      /\ pc'[p] = IF opt[p].mode = "bulk"
                  THEN IF Ends[read[p] + 1] - Ends[sent[p]] >= ChunkSize
                       THEN "stage" ELSE "next"
                  ELSE IF Ends[read[p] + 1] = Ends[read[p]]
                       THEN "commit" ELSE "insert"
  BY <1>1, <1>2 DEF TypeOK, PullBatch, Goto, Batches
<1>4. LoadInv(p)'
  BY <1>1, <1>2, <1>3 DEF IInv, LoadInv, From, To, Batches
<1>5. LogInv(p)'
  BY <1>3 DEF IInv, LogInv, Loaded, From
<1>6. /\ From(p)' = From(p) /\ To(p)' = Ends[read[p] + 1] /\ To(p) = Ends[read[p]]
      /\ Ends[read[p] + 1] \in Nat /\ To(p) <= Ends[read[p] + 1]
      /\ From(p) = Ends[sent[p]] /\ (Idle(p) => Idle(p)')
      /\ ChunkSize \in Nat \ {0}
  <2>1. read[p] <= read[p] + 1
    BY <1>2 DEF Batches
  <2> QED BY <1>2, <1>3, <2>1, EndsMonotone, MssqlWriterAssumption DEF From, To, Idle
<1>7. PcInv(p)'
  <2>1. CASE pc'[p] = "stage"
    <3>1. opt[p].mode = "bulk" /\ Ends[read[p] + 1] - Ends[sent[p]] >= ChunkSize
      BY <1>3, <2>1
    <3>2. FlushEnd(sent[p]) = read[p] + 1
      BY <1>1, <1>2, <1>6, <3>1, ChunkFull
    <3>3. From(p)' < To(p)'
      BY <1>2, <1>6, <3>1
    <3> QED BY <1>1, <1>3, <1>6, <2>1, <3>1, <3>2, <3>3 DEF PcInv
  <2>2. CASE pc'[p] = "next"
    <3>1. To(p)' - From(p)' < ChunkSize /\ opt[p].mode = "bulk"
      BY <1>2, <1>3, <1>6, <2>2
    <3> QED BY <1>1, <1>3, <1>6, <2>2, <3>1 DEF PcInv
  <2>3. CASE pc'[p] = "commit"
    <3>1. opt[p].mode = "batch" /\ read[p] = sent[p] /\ To(p)' = From(p)'
      BY <1>1, <1>2, <1>3, <1>6, <2>3
    <3>2. ~(From(p)' < To(p)') /\ txn'[p] = Rows(From(p)', To(p)')
      BY <1>1, <1>2, <1>3, <1>6, <3>1 DEF Idle
    <3> QED BY <1>1, <1>3, <2>3, <3>1, <3>2 DEF PcInv
  <2>4. CASE pc'[p] = "insert"
    <3>1. opt[p].mode = "batch" /\ read[p] = sent[p] /\ To(p) = From(p)
      BY <1>1, <1>2, <1>3, <1>6, <2>4
    <3>2. From(p)' < To(p)' /\ txn'[p] = Rows(From(p)', From(p)')
      BY <1>1, <1>2, <1>3, <1>6, <2>4, <3>1 DEF Idle
    <3>3. /\ txn'[p].from = From(p)' /\ txn'[p].to = From(p)'
          /\ From(p)' <= txn'[p].to /\ txn'[p].to < To(p)'
      BY <1>2, <1>6, <3>2 DEF Rows
    <3> QED BY <1>1, <1>3, <2>4, <3>1, <3>3 DEF PcInv
  <2> QED BY <1>3, <2>1, <2>2, <2>3, <2>4
<1> QED BY <1>4, <1>5, <1>7

\* A statement that writes rows to the target, from which PcInv follows.
LEMMA WriteIs ==
    ASSUME TypeOK, NEW p \in Procs, NEW rows, NEW next, WriteTarget(p, rows, next)
    PROVE  \/ pc'[p] = "end" /\ result'[p] = "err"
           \/ /\ pc'[p] = next /\ result' = result
              /\ txn'[p] = rows /\ tgt'[p] # None
  BY DEF TypeOK, WriteTarget, End, Goto

\* A multi-row INSERT.
LEMMA InsertKeeps ==
    ASSUME IInv, NEW p \in Procs, Insert(p)
    PROVE  LoadInv(p)' /\ LogInv(p)' /\ PcInv(p)'
<1> DEFINE upTo == Min({txn[p].to + ChunkRows, Ends[read[p]]})
           next == IF upTo = Ends[read[p]] THEN "commit" ELSE "insert"
<1>1. /\ TypeOK /\ result[p] = "none"
      /\ opt[p].mode = "batch" /\ read[p] = sent[p] + 1
      /\ txn[p].from = From(p) /\ From(p) <= txn[p].to /\ txn[p].to < To(p)
      /\ Count(staged[p]) = 0
  BY DEF IInv, Insert, PcInv
<1>2. /\ From(p) \in Nat /\ To(p) \in Nat /\ txn[p].to \in Nat
  BY <1>1, Counters DEF Intervals
<1>3. UNCHANGED <<opt, read, sent, staged, log>> /\ From(p)' = From(p) /\ To(p)' = To(p)
  BY DEF Insert, From, To
<1>4. LoadInv(p)' /\ LogInv(p)'
  BY <1>3, QuietKeeps
<1>5. upTo \in Nat /\ upTo <= To(p) /\ From(p) <= upTo
  <2>1. txn[p].to <= To(p)
    BY <1>1, <1>2
  <2>2. upTo \in 0..NRows /\ upTo <= To(p) /\ txn[p].to <= upTo
    BY <1>1, <2>1, InsertUpTo
  <2> QED BY <1>1, <1>2, <2>2
<1>6. next = IF upTo = To(p) THEN "commit" ELSE "insert"
  BY DEF To
<1>7. WriteTarget(p, Rows(From(p), upTo), next)
  BY <1>1 DEF Insert
<1> HIDE DEF upTo, next
<1>8. \/ pc'[p] = "end" /\ result'[p] = "err"
      \/ /\ pc'[p] = next /\ result' = result
         /\ txn'[p] = Rows(From(p), upTo) /\ tgt'[p] # None
  BY <1>1, <1>7, WriteIs
<1>9. PcInv(p)'
  <2>1. CASE pc'[p] = "end" /\ result'[p] = "err"
    BY <2>1 DEF PcInv
  <2>2. CASE /\ pc'[p] = next /\ result' = result
             /\ txn'[p] = Rows(From(p), upTo) /\ tgt'[p] # None
    <3>1. CASE upTo = To(p)
      BY <1>1, <1>3, <1>6, <2>2, <3>1 DEF PcInv
    <3>2. CASE upTo # To(p)
      <4>1. upTo < To(p)
        BY <1>2, <1>5, <3>2
      <4> QED BY <1>1, <1>3, <1>5, <1>6, <2>2, <3>2, <4>1 DEF PcInv, Rows
    <3> QED BY <3>1, <3>2
  <2> QED BY <1>8, <2>1, <2>2
<1> QED BY <1>4, <1>9

\* The pending batches go to the #temp table.
LEMMA StageKeeps ==
    ASSUME IInv, NEW p \in Procs, Stage(p)
    PROVE  LoadInv(p)' /\ LogInv(p)' /\ PcInv(p)'
<1>1. /\ TypeOK /\ LoadInv(p) /\ result[p] = "none" /\ opt[p].mode = "bulk"
      /\ read[p] = FlushEnd(sent[p]) /\ From(p) < To(p)
      /\ Idle(p) /\ Count(staged[p]) = 0
  BY DEF IInv, Stage, PcInv
<1>2. /\ pc'[p] = "transfer" /\ staged'[p] = Rows(From(p), To(p))
      /\ UNCHANGED <<opt, read, sent, txn, log, tgt, result>>
  BY <1>1 DEF TypeOK, Stage, Goto, From, To
<1>3. From(p)' = From(p) /\ To(p)' = To(p) /\ Idle(p)'
  BY <1>1, <1>2 DEF From, To, Idle
<1>4. LoadInv(p)'
  BY <1>1, <1>2, <1>3 DEF LoadInv
<1>5. LogInv(p)'
  BY <1>2, <1>3 DEF IInv, LogInv, Loaded
<1>6. PcInv(p)'
  BY <1>1, <1>2, <1>3 DEF PcInv
<1> QED BY <1>4, <1>5, <1>6

\* INSERT ... SELECT moves them to the target.
LEMMA TransferKeeps ==
    ASSUME IInv, NEW p \in Procs, Transfer(p)
    PROVE  LoadInv(p)' /\ LogInv(p)' /\ PcInv(p)'
<1>1. /\ TypeOK /\ result[p] = "none" /\ opt[p].mode = "bulk"
      /\ read[p] = FlushEnd(sent[p]) /\ From(p) < To(p)
      /\ staged[p] = Rows(From(p), To(p))
  BY DEF IInv, Transfer, PcInv
<1>2. /\ UNCHANGED <<opt, read, sent, staged, log>>
      /\ WriteTarget(p, staged[p], "truncate")
  BY DEF Transfer
<1>3. LoadInv(p)' /\ LogInv(p)'
  BY <1>2, QuietKeeps
<1>4. From(p)' = From(p) /\ To(p)' = To(p)
  BY <1>2 DEF From, To
<1>5. \/ pc'[p] = "end" /\ result'[p] = "err"
      \/ /\ pc'[p] = "truncate" /\ result' = result
         /\ txn'[p] = staged[p] /\ tgt'[p] # None
  BY <1>1, <1>2, WriteIs
<1>6. PcInv(p)'
  BY <1>1, <1>2, <1>4, <1>5 DEF PcInv
<1> QED BY <1>3, <1>6

\* TRUNCATE TABLE empties the #temp table.
LEMMA TruncateKeeps ==
    ASSUME IInv, NEW p \in Procs, Truncate(p)
    PROVE  LoadInv(p)' /\ LogInv(p)' /\ PcInv(p)'
<1>1. /\ TypeOK /\ LoadInv(p) /\ result[p] = "none" /\ opt[p].mode = "bulk"
      /\ read[p] = FlushEnd(sent[p]) /\ From(p) < To(p)
      /\ txn[p] = Rows(From(p), To(p)) /\ tgt[p] # None
  BY DEF IInv, Truncate, PcInv
<1>2. /\ pc'[p] = "commit" /\ staged'[p] = Rows(staged[p].to, staged[p].to)
      /\ UNCHANGED <<opt, read, sent, txn, log, tgt, result>>
  BY <1>1 DEF TypeOK, Truncate, Goto
<1>3. From(p)' = From(p) /\ To(p)' = To(p) /\ Count(staged'[p]) = 0
  <2>1. staged[p].to \in Nat
    BY <1>1, Counters DEF Intervals
  <2> QED BY <1>2, <2>1 DEF From, To, Count, Rows
<1>4. LoadInv(p)'
  BY <1>1, <1>2, <1>3 DEF LoadInv
<1>5. LogInv(p)'
  BY <1>2, <1>3 DEF IInv, LogInv, Loaded
<1>6. PcInv(p)'
  BY <1>1, <1>2, <1>3 DEF PcInv
<1> QED BY <1>4, <1>5, <1>6

\* A commit makes durable what was read, and nothing else.
LEMMA CommitKeeps ==
    ASSUME IInv, NEW p \in Procs, pc[p] = "commit", Commit(p),
           UNCHANGED <<opt, read, staged>>
    PROVE  /\ LoadInv(p)' /\ LogInv(p)'
           /\ sent'[p] = read[p] /\ From(p)' = To(p) /\ To(p)' = To(p)
           /\ txn'[p] = Rows(To(p), To(p)) /\ Count(staged'[p]) = 0
<1>1. /\ TypeOK /\ LoadInv(p) /\ LogInv(p) /\ Count(staged[p]) = 0
      /\ txn[p] = Rows(From(p), To(p))
      /\ opt[p].mode = "bulk" => read[p] = FlushEnd(sent[p])
      /\ sent[p] <= read[p]
  BY DEF IInv, PcInv, LoadInv
<1>2. From(p) \in Nat /\ To(p) \in Nat /\ From(p) <= To(p)
  BY <1>1, Counters
<1>3. /\ txn[p].from = From(p) /\ txn[p].to = To(p)
      /\ Count(txn[p]) = To(p) - From(p)
  BY <1>1 DEF Rows, Count
<1>4. sent'[p] = read[p] /\ txn'[p] = Rows(To(p), To(p))
  BY <1>1, <1>3 DEF Commit, TypeOK
<1>5. From(p)' = To(p) /\ To(p)' = To(p)
  BY <1>4 DEF From, To
<1>6. LoadInv(p)'
  <2>1. opt[p].mode = "bulk" => \E i \in Batches : read[p] = ChunkEnd[i]
    BY <1>1, ChunkEndClosed DEF LoadInv
  <2>2. sent'[p] <= read'[p] /\ ~(read'[p] # sent'[p])
    BY <1>1, <1>4, Counters DEF Batches
  <2> QED BY <1>1, <1>4, <2>1, <2>2 DEF LoadInv
<1>7. LogInv(p)'
  <2>1. CASE Count(txn[p]) = 0
    <3>1. log' = log /\ To(p) = From(p)
      BY <1>2, <1>3, <2>1 DEF Commit
    <3> QED BY <1>1, <1>5, <3>1 DEF LogInv, Loaded
  <2>2. CASE Count(txn[p]) # 0
    <3> DEFINE entry == [table |-> tgt[p], rows |-> txn[p]]
               E == [table : Tables, rows : Intervals]
    <3>1. log[p] \in Seq(E) /\ log'[p] = Append(log[p], entry) /\ entry.rows = txn[p]
      BY <1>1, <2>2 DEF TypeOK, Commit
    <3> HIDE DEF entry, E
    <3>2. /\ Len(log'[p]) = Len(log[p]) + 1 /\ Len(log[p]) \in Nat
          /\ \A i \in 1..Len(log[p]) : log'[p][i] = log[p][i]
          /\ log'[p][Len(log[p]) + 1] = entry
      BY <3>1
    <3>3. Loaded(p)' = To(p)
      <4>1. log'[p] # <<>>
        BY <3>1, <3>2
      <4> QED BY <1>3, <3>1, <3>2, <4>1 DEF Loaded
    <3>4. ASSUME NEW i \in 1..Len(log'[p])
          PROVE  /\ log'[p][i].rows.from = (IF i = 1 THEN 0 ELSE log'[p][i - 1].rows.to)
                 /\ Count(log'[p][i].rows) > 0
      <4>1. CASE i <= Len(log[p])
        <5>1. i \in 1..Len(log[p]) /\ (i # 1 => i - 1 \in 1..Len(log[p]))
          BY <3>2, <4>1
        <5> QED BY ZenonT(60), <1>1, <3>2, <5>1 DEF LogInv
      <4>2. CASE i = Len(log[p]) + 1
        <5>1. log'[p][i].rows = txn[p] /\ Count(txn[p]) > 0
          BY <1>2, <1>3, <2>2, <3>1, <3>2, <4>2
        <5>2. Loaded(p) = (IF i = 1 THEN 0 ELSE log'[p][i - 1].rows.to)
          <6>1. CASE i = 1
            <7>1. log[p] = <<>>
              BY <3>1, <3>2, <4>2, <6>1
            <7> QED BY <6>1, <7>1 DEF Loaded
          <6>2. CASE i # 1
            <7>1. /\ log[p] # <<>> /\ i - 1 = Len(log[p])
                  /\ i - 1 \in 1..Len(log[p])
              BY <3>1, <3>2, <4>2, <6>2
            <7> QED BY <3>2, <6>2, <7>1 DEF Loaded
          <6> QED BY <6>1, <6>2
        <5> QED BY <1>1, <1>3, <5>1, <5>2 DEF LogInv
      <4> QED BY <3>2, <4>1, <4>2
    <3> QED BY <1>5, <3>3, <3>4 DEF LogInv
  <2> QED BY <2>1, <2>2
<1> QED BY <1>1, <1>4, <1>5, <1>6, <1>7

\* Every step of p keeps the parts of the invariant that speak of p.
LEMMA StepKeeps ==
    ASSUME IInv, NEW p \in Procs, PStep(p)
    PROVE  LoadInv(p)' /\ LogInv(p)' /\ PcInv(p)'
<1>0. /\ TypeOK /\ PcInv(p) /\ LoadInv(p)
      /\ From(p) \in Nat /\ To(p) \in Nat /\ From(p) <= To(p)
      /\ ChunkSize \in Nat \ {0} /\ NBatches \in Nat /\ sent[p] \in Batches
      /\ opt[p].mode \in {"bulk", "batch"}
  BY Counters, MssqlWriterAssumption DEF IInv, LoadInv
<1>1. ASSUME UNCHANGED <<opt, load>>
      PROVE  /\ LoadInv(p)' /\ LogInv(p)'
             /\ From(p)' = From(p) /\ To(p)' = To(p)
             /\ tgt'[p] = tgt[p] => (Idle(p) <=> Idle(p)')
  BY <1>1, QuietKeeps DEF load, From, To, Idle
<1> DEFINE Opening == {"open", "drop", "dropNow", "probe", "redrop", "create"}
<1>2. ASSUME pc[p] \in Opening, UNCHANGED <<opt, load>>,
             \/ pc'[p] = "end" /\ result'[p] = "err"
             \/ pc'[p] \in Opening \cup {"next"} /\ UNCHANGED <<tgt, result>>
      PROVE  LoadInv(p)' /\ LogInv(p)' /\ PcInv(p)'
  <2>1. /\ read[p] = 0 /\ sent[p] = 0 /\ Idle(p) /\ Count(staged[p]) = 0
        /\ result[p] = "none"
    BY <1>0, <1>2 DEF PcInv
  <2>2. UNCHANGED <<read, sent, staged>>
    BY <1>2 DEF load
  <2>3. To(p) - From(p) < ChunkSize
    BY <1>0, <2>1 DEF From, To
  <2>4. PcInv(p)'
    BY <1>1, <1>2, <2>1, <2>2, <2>3 DEF PcInv
  <2> QED BY <1>1, <1>2, <2>4
<1>3. CASE Open(p)
  <2>1. pc[p] \in Opening /\ UNCHANGED <<opt, load>>
    BY <1>3 DEF Open, Resolve, CheckDrop, DropTable, Probe, CreateTable
  <2>2. \/ pc'[p] = "end" /\ result'[p] = "err"
        \/ pc'[p] \in Opening \cup {"next"} /\ UNCHANGED <<tgt, result>>
    <3>1. CASE Resolve(p) \/ CheckDrop(p)
      BY <1>0, <3>1 DEF TypeOK, Resolve, CheckDrop, End, Goto
    <3>2. CASE DropTable(p) \/ Probe(p)
      BY <1>0, <3>2 DEF TypeOK, DropTable, Probe, End, Goto
    <3>3. CASE CreateTable(p)
      BY <1>0, <3>3 DEF TypeOK, CreateTable, End, Goto
    <3> QED BY <1>3, <3>1, <3>2, <3>3 DEF Open
  <2> QED BY <1>2, <2>1, <2>2
<1>4. CASE SourceEnds(p)
  <2>1. /\ UNCHANGED <<opt, load, tgt, result>> /\ read[p] = NBatches
        /\ pc[p] = "next" /\ result[p] = "none"
        /\ pc'[p] = IF opt[p].mode = "bulk" /\ To(p) > From(p)
                    THEN "stage" ELSE "index"
    BY <1>0, <1>4 DEF TypeOK, SourceEnds, Goto, PcInv, From, To
  <2>2. To(p) = NRows
    BY <2>1 DEF To, NRows
  <2>3. CASE opt[p].mode = "bulk" /\ To(p) > From(p)
    <3>1. FlushEnd(sent[p]) = NBatches
      BY <1>0, <2>1, <2>2, ChunkLast DEF PcInv, From, NRows
    <3> QED BY <1>0, <1>1, <2>1, <2>3, <3>1 DEF PcInv, load
  <2>4. CASE ~(opt[p].mode = "bulk" /\ To(p) > From(p))
    <3>1. From(p) = NRows
      <4>1. CASE opt[p].mode = "bulk"
        BY <1>0, <2>2, <2>4, <4>1
      <4>2. CASE opt[p].mode = "batch"
        BY <1>0, <2>1, <2>2, <4>2 DEF PcInv, From, To
      <4> QED BY <1>0, <4>1, <4>2
    <3> QED BY <1>1, <2>1, <2>4, <3>1 DEF PcInv
  <2> QED BY <2>3, <2>4
<1>5. CASE CommitTran(p)
  <2>1. /\ pc[p] = "commit" /\ Commit(p) /\ UNCHANGED <<opt, read, staged, result>>
        /\ pc'[p] = "next" /\ tgt'[p] = None /\ result[p] = "none"
    BY <1>0, <1>5 DEF TypeOK, CommitTran, Goto, PcInv
  <2>2. /\ LoadInv(p)' /\ LogInv(p)'
        /\ sent'[p] = read[p] /\ From(p)' = To(p) /\ To(p)' = To(p)
        /\ txn'[p] = Rows(To(p), To(p)) /\ Count(staged'[p]) = 0
    BY <2>1, CommitKeeps
  <2>3. Idle(p)' /\ To(p)' - From(p)' < ChunkSize
    BY <1>0, <2>1, <2>2 DEF Idle
  <2> QED BY <2>1, <2>2, <2>3 DEF PcInv
<1>6. CASE CommitUnanswered(p)
  <2>1. /\ pc[p] = "commit" /\ Commit(p) /\ UNCHANGED <<opt, read, staged>>
        /\ pc'[p] = "end" /\ result'[p] = "err"
    BY <1>0, <1>6 DEF TypeOK, CommitUnanswered, End, Goto
  <2>2. LoadInv(p)' /\ LogInv(p)'
    BY <2>1, CommitKeeps
  <2> QED BY <2>1, <2>2 DEF PcInv
<1>7. CASE Finish(p) \/ Fail(p)
  <2>1. /\ UNCHANGED <<opt, load>> /\ pc'[p] = "end"
        /\ \/ result'[p] = "err"
           \/ pc[p] = "index" /\ result'[p] = "ok"
    BY <1>0, <1>7 DEF TypeOK, Finish, Fail, End, Goto
  <2> QED BY <1>0, <1>1, <2>1 DEF PcInv
<1> QED BY <1>3, <1>4, <1>5, <1>6, <1>7, PullKeeps, InsertKeeps, StageKeeps,
           TransferKeeps, TruncateKeeps DEF PStep, Step, Load

\* The inductive invariant holds initially.
LEMMA InitIInv == Init => IInv
<1> SUFFICES ASSUME Init, NEW p \in Procs PROVE TypeOK /\ LoadInv(p) /\ LogInv(p) /\ PcInv(p)
  BY InitType DEF IInv
<1>1. TypeOK
  BY InitType
<1>2. /\ Ends[0] = 0 /\ NBatches \in Nat /\ 0 \in Batches /\ ChunkEnd[0] = 0
      /\ read[p] = 0 /\ sent[p] = 0 /\ staged[p] = Rows(0, 0) /\ txn[p] = Rows(0, 0)
      /\ tgt[p] = None /\ log[p] = <<>> /\ result[p] = "none" /\ pc[p] = "open"
  BY MssqlWriterAssumption, ChunkEndIs DEF Init, Batches
<1>3. From(p) = 0 /\ To(p) = 0 /\ Count(staged[p]) = 0 /\ Idle(p)
  BY <1>2 DEF From, To, Count, Rows, Idle
<1>4. LoadInv(p)
  BY <1>2, <1>3 DEF LoadInv
<1>5. LogInv(p)
  BY <1>2, <1>3 DEF LogInv, Loaded
<1>6. PcInv(p)
  BY <1>2, <1>3 DEF PcInv
<1> QED BY <1>1, <1>4, <1>5, <1>6

\* Every step keeps the inductive invariant.
LEMMA NextIInv == IInv /\ [Next]_vars => IInv'
<1> SUFFICES ASSUME IInv, [Next]_vars PROVE IInv'
  OBVIOUS
<1>1. CASE UNCHANGED vars
  <2>1. TypeOK'
    BY <1>1 DEF IInv, TypeOK, vars, load
  <2>2. ASSUME NEW p \in Procs PROVE LoadInv(p)' /\ LogInv(p)' /\ PcInv(p)'
    BY <1>1 DEF IInv, LoadInv, LogInv, PcInv, Idle, From, To, Loaded, vars, load
  <2> QED BY <2>1, <2>2 DEF IInv
<1>2. ASSUME NEW p \in Procs, PStep(p) PROVE IInv'
  <2>1. TypeOK' /\ Frame(p)
    BY <1>2, StepType, StepFrame DEF IInv
  <2>2. ASSUME NEW q \in Procs PROVE LoadInv(q)' /\ LogInv(q)' /\ PcInv(q)'
    <3>1. CASE q = p
      BY <1>2, <3>1, StepKeeps
    <3>2. CASE q # p
      BY <2>1, <3>2, FrameKeeps
    <3> QED BY <3>1, <3>2
  <2> QED BY <2>1, <2>2 DEF IInv
<1> QED BY <1>1, <1>2 DEF Next, PStep, Terminated

\* The inductive invariant holds throughout.
LEMMA Invariance == Spec => []IInv
  BY InitIInv, NextIInv, PTL DEF Spec

----------------------------------------------------------------------------
(* The properties. *)

\* Every command line, every server, every schedule: the variables keep
\* their types.
THEOREM TypeCorrect == Spec => []TypeOK
<1>1. IInv => TypeOK
  BY DEF IInv
<1> QED BY <1>1, Invariance, PTL

\* A row is committed once, whatever fails and whenever: the transactions of
\* a load follow one another in the source without gap or overlap.
THEOREM OnceEach == Spec => []ExactlyOnce
<1>1. IInv => ExactlyOnce
  BY DEF IInv, LogInv, ExactlyOnce
<1> QED BY <1>1, Invariance, PTL

\* What is durable ends where a batch, or a chunk of a bulk load, ends.
THEOREM ChunksAreWhole == Spec => []WholeChunks
<1>1. IInv => WholeChunks
  <2> SUFFICES ASSUME IInv, NEW p \in Procs PROVE Loaded(p) \in Cuts(p)
    BY DEF WholeChunks
  <2>1. Loaded(p) = Ends[sent[p]] /\ sent[p] \in 0..NBatches
    BY Counters DEF IInv, LogInv, From, Batches
  <2>2. CASE opt[p].mode = "bulk"
    <3>1. PICK i \in 0..NBatches : sent[p] = ChunkEnd[i]
      BY <2>2 DEF IInv, LoadInv, Batches
    <3> QED BY <2>1, <2>2, <3>1 DEF Cuts, BulkCuts
  <2>3. CASE opt[p].mode # "bulk"
    BY <2>1, <2>3 DEF Cuts, BatchCuts
  <2> QED BY <2>2, <2>3
<1> QED BY <1>1, Invariance, PTL

\* Exit status 0 is only ever reported of a load whose rows are all durable.
THEOREM SuccessComplete == Spec => []SuccessIsComplete
<1>1. IInv => SuccessIsComplete
  BY DEF IInv, LogInv, PcInv, SuccessIsComplete
<1> QED BY <1>1, Invariance, PTL

\* Less than a chunk and one batch is pending, or in the #temp table.
THEOREM BoundedPending == Spec => []PendingBound
<1>1. IInv => PendingBound
  <2> DEFINE batches == {Ends[b] - Ends[b - 1] : b \in 1..NBatches}
             S == {0} \cup batches
  <2> SUFFICES ASSUME IInv, NEW p \in Procs
               PROVE  /\ Ends[read[p]] - Ends[sent[p]] <= ChunkSize - 1 + Max(S)
                      /\ Count(staged[p]) <= ChunkSize - 1 + Max(S)
    BY DEF PendingBound
  <2>1. /\ NBatches \in Nat /\ NRows \in Nat /\ ChunkSize \in Nat \ {0}
        /\ \A b \in Batches : Ends[b] \in Nat
        /\ \A b \in 1..NBatches : Ends[b - 1] <= Ends[b]
    BY MssqlWriterAssumption DEF Batches, NRows
  <2>2. ASSUME NEW b \in 1..NBatches
        PROVE  Ends[b] - Ends[b - 1] \in Nat /\ Ends[b] - Ends[b - 1] <= NRows
    <3>1. b \in Batches /\ b - 1 \in Batches /\ NBatches \in Batches /\ b <= NBatches
      BY <2>1 DEF Batches
    <3>2. Ends[b] <= NRows
      BY <3>1, EndsMonotone DEF NRows
    <3> QED BY <2>1, <3>1, <3>2
  <2>3. S \in SUBSET Nat /\ S # {} /\ \A y \in S : y <= NRows
    BY <2>1, <2>2
  <2>4. Max(S) \in S /\ \A y \in S : y <= Max(S)
    BY <2>1, <2>3, MaxIs
  <2>5. Max(S) \in Nat /\ 0 <= Max(S)
    BY <2>3, <2>4
  <2>6. /\ sent[p] \in Batches /\ read[p] \in Batches /\ LoadInv(p)
        /\ From(p) \in Nat /\ To(p) \in Nat
    BY Counters DEF IInv
  <2>7. To(p) - From(p) <= ChunkSize - 1 + Max(S)
    <3>1. CASE read[p] = sent[p]
      BY <2>1, <2>5, <2>6, <3>1 DEF From, To
    <3>2. CASE read[p] # sent[p]
      <4>1. /\ read[p] \in 1..NBatches /\ read[p] - 1 \in Batches
            /\ Ends[read[p] - 1] - From(p) < ChunkSize
        BY <2>1, <2>6, <3>2 DEF LoadInv, Batches
      <4>2. Ends[read[p]] - Ends[read[p] - 1] \in S
        BY <4>1
      <4>3. To(p) - Ends[read[p] - 1] <= Max(S)
        BY <2>4, <4>2 DEF To
      <4>4. Ends[read[p] - 1] \in Nat
        BY <2>1, <4>1
      <4> HIDE DEF S
      <4> QED BY <2>1, <2>5, <2>6, <4>1, <4>3, <4>4
    <3> QED BY <3>1, <3>2
  <2>8. Count(staged[p]) <= ChunkSize - 1 + Max(S)
    <3> HIDE DEF S
    <3>1. CASE Count(staged[p]) = 0
      BY <2>1, <2>5, <3>1
    <3>2. CASE staged[p] = Rows(From(p), To(p))
      BY <2>7, <3>2 DEF Count, Rows
    <3> QED BY <2>6, <3>1, <3>2 DEF LoadInv
  <2> QED BY <2>7, <2>8 DEF From, To
<1> QED BY <1>1, Invariance, PTL

----------------------------------------------------------------------------
(* Without --overwrite and --create-table=always the name stands for one   *)
(* table for good.                                                         *)

VisInv == (\A q \in Procs : ~opt[q].overwrite /\ opt[q].create # "always") =>
    \A p \in Procs : /\ pc[p] \notin {"drop", "dropNow", "redrop"}
                     /\ tgt[p] \in {None, tbl}
                     /\ \A i \in 1..Len(log[p]) : log[p][i].table = tbl

\* Every step keeps the invariant about the visible table.
LEMMA StepVis ==
    ASSUME IInv, VisInv, NEW p \in Procs, PStep(p)
    PROVE  VisInv'
<1>0. TypeOK /\ PcInv(p)
  BY DEF IInv
<1>1. opt' = opt
  BY DEF PStep, Step, Open, Load, Resolve, CheckDrop, DropTable, Probe, CreateTable,
     PullBatch, SourceEnds, Insert, Stage, Transfer, Truncate, CommitTran, Finish,
     Fail, CommitUnanswered
<1> SUFFICES ASSUME \A q \in Procs : ~opt[q].overwrite /\ opt[q].create # "always"
             PROVE  \A q \in Procs :
                       /\ pc'[q] \notin {"drop", "dropNow", "redrop"}
                       /\ tgt'[q] \in {None, tbl'}
                       /\ \A i \in 1..Len(log'[q]) : log'[q][i].table = tbl'
  BY <1>1 DEF VisInv
<1>2. \A q \in Procs : /\ pc[q] \notin {"drop", "dropNow", "redrop"}
                       /\ tgt[q] \in {None, tbl}
                       /\ \A i \in 1..Len(log[q]) : log[q][i].table = tbl
  BY DEF VisInv
<1>3. ASSUME UNCHANGED <<log, tbl>>,
             \A q \in Procs : pc'[q] \notin {"drop", "dropNow", "redrop"},
             \A q \in Procs : tgt'[q] \in {tgt[q], None, tbl}
      PROVE  \A q \in Procs :
                /\ pc'[q] \notin {"drop", "dropNow", "redrop"}
                /\ tgt'[q] \in {None, tbl'}
                /\ \A i \in 1..Len(log'[q]) : log'[q][i].table = tbl'
  BY <1>2, <1>3
<1>4. CASE Resolve(p) \/ CheckDrop(p) \/ Probe(p)
  BY <1>0, <1>2, <1>3, <1>4 DEF TypeOK, Resolve, CheckDrop, Probe, End, Goto, load
<1>5. CASE DropTable(p)
  BY <1>2, <1>5 DEF DropTable
<1>6. CASE CreateTable(p)
  <2>1. CASE UNCHANGED tbl
    BY <1>0, <1>2, <1>3, <1>6, <2>1 DEF TypeOK, CreateTable, End, Goto, load
  <2>2. CASE tbl = None
    <3>1. None \notin Tables
      BY MssqlWriterAssumption DEF Tables
    <3>2. ASSUME NEW q \in Procs, NEW i \in 1..Len(log[q]) PROVE FALSE
      <4> DEFINE E == [table : Tables, rows : Intervals]
      <4>0. log[q] \in Seq(E)
        BY <1>0 DEF TypeOK
      <4>1. E = [table : Tables, rows : Intervals]
        OBVIOUS
      <4> HIDE DEF E
      <4>2. log[q][i] \in E
        BY <4>0
      <4>3. log[q][i].table \in Tables
        BY <4>1, <4>2
      <4> QED BY <1>2, <2>2, <3>1, <4>3
    <3>3. \A q \in Procs : tgt'[q] = None /\ pc'[q] \notin {"drop", "dropNow", "redrop"}
      BY <1>0, <1>2, <1>6, <2>2 DEF TypeOK, CreateTable, End, Goto
    <3>4. log' = log
      BY <1>6 DEF CreateTable, load
    <3> QED BY <3>2, <3>3, <3>4
  <2> QED BY <1>6, <2>1, <2>2 DEF CreateTable
<1>7. CASE PullBatch(p) \/ SourceEnds(p) \/ Stage(p) \/ Truncate(p)
  BY SMTT(20), <1>0, <1>2, <1>3, <1>7 DEF TypeOK, PullBatch, SourceEnds, Stage, Truncate, Goto, load
<1>8. CASE Insert(p) \/ Transfer(p)
  BY SMTT(20), <1>0, <1>2, <1>3, <1>8 DEF TypeOK, Insert, Transfer, WriteTarget, End, Goto
<1>9. CASE CommitTran(p) \/ CommitUnanswered(p)
  <2>1. /\ pc[p] = "commit" /\ Commit(p) /\ tbl' = tbl
        /\ \A q \in Procs : pc'[q] \notin {"drop", "dropNow", "redrop"}
        /\ \A q \in Procs : tgt'[q] \in {tgt[q], None}
    BY <1>0, <1>2, <1>9 DEF TypeOK, CommitTran, CommitUnanswered, End, Goto
  <2>2. CASE Count(txn[p]) = 0
    BY <1>3, <2>1, <2>2 DEF Commit
  <2>3. CASE Count(txn[p]) # 0
    <3> DEFINE entry == [table |-> tgt[p], rows |-> txn[p]]
               E == [table : Tables, rows : Intervals]
    <3>1. tgt[p] # None
      <4>1. From(p) \in Nat /\ To(p) \in Nat /\ From(p) <= To(p)
        BY <1>0, Counters DEF IInv, LoadInv
      <4> QED BY <1>0, <2>1, <2>3, <4>1 DEF PcInv, Count, Rows
    <3>2. entry.table = tbl
      BY <1>2, <3>1
    <3>3. log \in [Procs -> Seq(E)] /\ log' = [log EXCEPT ![p] = Append(@, entry)]
      BY <1>0, <2>1, <2>3 DEF TypeOK, Commit
    <3> HIDE DEF entry, E
    <3>4. ASSUME NEW q \in Procs, NEW i \in 1..Len(log'[q])
          PROVE  log'[q][i].table = tbl
      <4>1. CASE q = p
        <5>1. log[p] \in Seq(E) /\ log'[p] = Append(log[p], entry)
          BY <3>3
        <5>2. (i \in 1..Len(log[p]) /\ log'[p][i] = log[p][i]) \/ log'[p][i] = entry
          BY <4>1, <5>1
        <5> QED BY <1>2, <3>2, <4>1, <5>2
      <4>2. CASE q # p
        BY <1>2, <3>3, <4>2
      <4> QED BY <4>1, <4>2
    <3> QED BY <1>2, <2>1, <3>4
  <2> QED BY <2>2, <2>3
<1>10. CASE Finish(p) \/ Fail(p)
  BY SMTT(20), <1>0, <1>2, <1>3, <1>10 DEF TypeOK, Finish, Fail, End, Goto, load
<1> QED BY <1>4, <1>5, <1>6, <1>7, <1>8, <1>9, <1>10 DEF PStep, Step, Open, Load

\* A load that succeeded is whole in the table under the name, however many
\* loads ran beside it, when none of them drops a table.
THEOREM SuccessVisible == Spec => []SuccessIsVisible
<1>1. Init => VisInv
  BY DEF Init, VisInv
<1>2. IInv /\ VisInv /\ [Next]_vars => VisInv'
  <2> SUFFICES ASSUME IInv, VisInv, [Next]_vars PROVE VisInv'
    OBVIOUS
  <2>1. CASE UNCHANGED vars
    BY <2>1 DEF VisInv, vars, load
  <2> QED BY <2>1, StepVis DEF Next, PStep, Terminated
<1>3. VisInv => SuccessIsVisible
  BY DEF VisInv, SuccessIsVisible
<1> QED BY <1>1, <1>2, <1>3, Invariance, PTL DEF Spec

----------------------------------------------------------------------------
(* The safety part of the refinement of LayerSink. *)

\* A transaction may end anywhere between the ends of the source.
LEMMA CutsType ==
    ASSUME NEW p \in Procs
    PROVE  Cuts(p) \in SUBSET (0..NRows) /\ NRows \in Cuts(p)
<1>0. NBatches \in Nat /\ NRows \in Nat /\ NBatches \in Batches
  BY MssqlWriterAssumption DEF Batches, NRows
<1>1. \A b \in Batches : Ends[b] \in 0..NRows
  <2> TAKE b \in Batches
  <2>1. b <= NBatches
    BY <1>0 DEF Batches
  <2> QED BY <1>0, <2>1, EndsMonotone DEF NRows
<1>2. \A i \in Batches : Ends[ChunkEnd[i]] \in 0..NRows
  BY <1>1, ChunkEndIs
<1>3. BulkCuts \in SUBSET (0..NRows) /\ NRows \in BulkCuts
  BY <1>0, <1>2 DEF BulkCuts, Batches
<1>4. BatchCuts \in SUBSET (0..NRows) /\ NRows \in BatchCuts
  BY <1>0, <1>1 DEF BatchCuts, Batches, NRows
<1> QED BY <1>3, <1>4 DEF Cuts

\* A commit that commits rows ends at the next cut of the load.
LEMMA CommitAdvances ==
    ASSUME IInv, NEW p \in Procs, pc[p] = "commit", From(p) < To(p)
    PROVE  To(p) \in Cuts(p) /\ \A d \in Cuts(p) : d <= From(p) \/ To(p) <= d
<1>1. /\ TypeOK /\ LoadInv(p)
      /\ IF opt[p].mode = "bulk" THEN read[p] = FlushEnd(sent[p])
                                 ELSE read[p] = sent[p] + 1
  BY DEF IInv, PcInv
<1>2. /\ NBatches \in Nat /\ read[p] \in Batches /\ sent[p] \in Batches
      /\ From(p) \in Nat /\ To(p) \in Nat /\ To(p) <= NRows /\ NRows \in Nat
  BY <1>1, Counters
<1>3. CASE opt[p].mode = "bulk"
  <2>1. PICK i \in Batches : sent[p] = ChunkEnd[i]
    BY <1>1, <1>3 DEF LoadInv
  <2>2. i < NBatches
    <3> SUFFICES ASSUME i = NBatches PROVE FALSE
      BY <1>2 DEF Batches
    <3>1. sent[p] = NBatches /\ read[p] = NBatches
      BY <1>1, <1>2, <1>3, <2>1, ChunkEndLast, FlushEndGrows, FlushEndIs DEF Batches
    <3> QED BY <1>2, <3>1 DEF From, To
  <2>3. i + 1 \in Batches /\ i + 1 \in 1..NBatches /\ (i + 1) - 1 = i
    BY <1>2, <2>2 DEF Batches
  <2>4. read[p] = ChunkEnd[i + 1]
    BY <1>1, <1>3, <2>1, <2>3, ChunkEndIs
  <2>5. To(p) \in Cuts(p)
    BY <1>3, <2>3, <2>4 DEF Cuts, BulkCuts, To, Batches
  <2>6. ASSUME NEW j \in Batches
        PROVE  Ends[ChunkEnd[j]] <= From(p) \/ To(p) <= Ends[ChunkEnd[j]]
    <3>0. ChunkEnd[i] \in Batches /\ ChunkEnd[j] \in Batches /\ ChunkEnd[i + 1] \in Batches
      BY <2>3, ChunkEndIs
    <3>1. CASE j <= i
      <4>1. ChunkEnd[j] <= ChunkEnd[i]
        BY <3>1, ChunkEndOrder
      <4> QED BY <2>1, <3>0, <4>1, EndsMonotone DEF From
    <3>2. CASE i + 1 <= j
      <4>1. ChunkEnd[i + 1] <= ChunkEnd[j]
        BY <2>3, <3>2, ChunkEndOrder
      <4> QED BY <2>4, <3>0, <4>1, EndsMonotone DEF To
    <3> QED BY <1>2, <3>1, <3>2 DEF Batches
  <2>7. \A d \in Cuts(p) : d <= From(p) \/ To(p) <= d
    BY <1>2, <1>3, <2>6 DEF Cuts, BulkCuts, Batches
  <2> QED BY <2>5, <2>7
<1>4. CASE opt[p].mode # "bulk"
  <2>1. To(p) \in Cuts(p)
    BY <1>2, <1>4 DEF Cuts, BatchCuts, To, Batches
  <2>2. ASSUME NEW b \in Batches PROVE Ends[b] <= From(p) \/ To(p) <= Ends[b]
    <3>1. CASE b <= sent[p]
      BY <1>2, <3>1, EndsMonotone DEF From
    <3>2. CASE read[p] <= b
      BY <1>2, <3>2, EndsMonotone DEF To
    <3> QED BY <1>1, <1>2, <1>4, <3>1, <3>2 DEF Batches
  <2>3. \A d \in Cuts(p) : d <= From(p) \/ To(p) <= d
    BY <1>4, <2>2 DEF Cuts, BatchCuts, Batches
  <2> QED BY <2>1, <2>3
<1> QED BY <1>3, <1>4

\* Every step of the writers is a step of LayerSink or none at all.
THEOREM ImplementsSink == Spec => Sink!Init /\ [][Sink!Next]_(Sink!vars)
<1> DEFINE C == [p \in Procs |-> Cuts(p)]
           L == [p \in Procs |-> Loaded(p)]
<1>1. Init => Sink!Init
  <2> SUFFICES ASSUME Init PROVE Sink!Init
    OBVIOUS
  <2>1. C \in [Procs -> {D \in SUBSET (0..NRows) : NRows \in D}]
    BY CutsType
  <2>2. L = [p \in Procs |-> 0] /\ result = [p \in Procs |-> "none"]
    BY DEF Init, Loaded
  <2> QED BY <2>1, <2>2 DEF Sink!Init
<1>2. ASSUME IInv, NEW p \in Procs, PStep(p)
      PROVE  Sink!Next \/ UNCHANGED Sink!vars
  <2>0. /\ TypeOK /\ PcInv(p) /\ LoadInv(p) /\ Loaded(p) = From(p)
        /\ From(p) \in Nat /\ To(p) \in Nat /\ From(p) <= To(p)
    BY <1>2, Counters DEF IInv, LogInv, LoadInv
  <2>1. opt' = opt /\ C' = C
    BY <1>2 DEF PStep, Step, Open, Load, Resolve, CheckDrop, DropTable, Probe, CreateTable,
     PullBatch, SourceEnds, Insert, Stage, Transfer, Truncate, CommitTran, Finish,
     Fail, CommitUnanswered, Cuts
  <2>2. log' = log => L' = L
    BY DEF Loaded
  <2>3. ASSUME pc[p] = "commit", Commit(p), UNCHANGED <<opt, read, staged>>
        PROVE  L' = L \/ Sink!Advance(p)
    <3>1. CASE From(p) < To(p)
      <4>1. Loaded(p)' = To(p)
        BY <2>3, <1>2, CommitKeeps DEF LogInv
      <4>2. \A q \in Procs \ {p} : Loaded(q)' = Loaded(q)
        BY <2>0, <2>3 DEF Commit, Loaded, TypeOK
      <4>3. L' = [L EXCEPT ![p] = To(p)]
        BY <4>1, <4>2
      <4>4. /\ To(p) \in C[p] /\ L[p] = From(p)
            /\ \A d \in C[p] : d <= L[p] \/ To(p) <= d
        BY <1>2, <2>0, <2>3, <3>1, CommitAdvances
      <4> QED BY <3>1, <4>3, <4>4 DEF Sink!Advance, Sink!IsNextCut
    <3>2. CASE ~(From(p) < To(p))
      <4>1. Count(txn[p]) = 0
        BY <2>0, <2>3, <3>2 DEF PcInv, Count, Rows
      <4> QED BY <2>2, <2>3, <4>1 DEF Commit
    <3> QED BY <3>1, <3>2
  <2>4. CASE CommitTran(p)
    <3>1. /\ pc[p] = "commit" /\ Commit(p) /\ UNCHANGED <<opt, read, staged>>
          /\ result[p] = "none" /\ result' = result
      BY <2>0, <2>4 DEF CommitTran, PcInv
    <3>2. L' = L \/ Sink!Advance(p)
      BY <2>3, <3>1
    <3> QED BY <2>1, <3>1, <3>2 DEF Sink!vars, Sink!Next, Sink!Step, Sink!Commit
  <2>5. CASE CommitUnanswered(p)
    <3>1. /\ pc[p] = "commit" /\ Commit(p) /\ UNCHANGED <<opt, read, staged>>
          /\ result[p] = "none" /\ result' = [result EXCEPT ![p] = "err"]
      BY <2>0, <2>5 DEF CommitUnanswered, End, PcInv
    <3>2. L' = L \/ Sink!Advance(p)
      BY <2>3, <3>1
    <3> QED BY <2>1, <3>1, <3>2 DEF Sink!Next, Sink!Step, Sink!Fail
  <2>6. CASE /\ log' = log /\ pc[p] # "end"
             /\ result' = [result EXCEPT ![p] = "err"]
    BY <2>0, <2>1, <2>2, <2>6 DEF PcInv, Sink!Next, Sink!Step, Sink!Fail
  <2>7. CASE log' = log /\ result' = result
    BY <2>1, <2>2, <2>7 DEF Sink!vars
  <2>8. CASE Finish(p)
    <3>1. /\ result[p] = "none" /\ L[p] = NRows /\ log' = log
          /\ result' \in {[result EXCEPT ![p] = "ok"], [result EXCEPT ![p] = "err"]}
      BY <2>0, <2>8 DEF PcInv, Finish, End, load
    <3>2. CASE result' = [result EXCEPT ![p] = "ok"]
      BY <2>1, <2>2, <3>1, <3>2 DEF Sink!Next, Sink!Step, Sink!Succeed
    <3> QED BY <2>6, <2>8, <3>1, <3>2 DEF Finish
  <2>9. CASE Fail(p)
    BY <2>6, <2>9 DEF Fail, End, load
  <2>10. CASE Open(p)
    BY <2>6, <2>7, <2>10 DEF Open, Resolve, CheckDrop, DropTable, Probe,
       CreateTable, End, load
  <2>11. CASE PullBatch(p) \/ SourceEnds(p) \/ Stage(p) \/ Truncate(p)
    BY <2>7, <2>11 DEF PullBatch, SourceEnds, Stage, Truncate, load
  <2>12. CASE Insert(p) \/ Transfer(p)
    BY <2>6, <2>7, <2>12 DEF Insert, Transfer, WriteTarget, End
  <2> QED BY <1>2, <2>4, <2>5, <2>8, <2>9, <2>10, <2>11, <2>12 DEF PStep, Step, Load
<1>3. IInv /\ [Next]_vars => [Sink!Next]_(Sink!vars)
  <2> SUFFICES ASSUME IInv, [Next]_vars PROVE [Sink!Next]_(Sink!vars)
    OBVIOUS
  <2>1. CASE UNCHANGED vars
    BY <2>1 DEF vars, load, Sink!vars, Cuts, Loaded
  <2> QED BY <1>2, <2>1 DEF Next, PStep, Terminated
<1> QED BY <1>1, <1>3, Invariance, PTL DEF Spec
=============================================================================
