------------------------ MODULE SampledReader_proofs ------------------------
(***************************************************************************)
(* Proofs about the sampling readers, for every set of jobs, every size of *)
(* sample and of batch:                                                    *)
(*   TypeCorrect   the type invariant;                                     *)
(*   InOrder       every step is a step of LayerStream or stutters;        *)
(*   SampleKept    SampleDecides: no sampled value is lost, and none that  *)
(*                 was not sampled fails the schema.                       *)
(***************************************************************************)
EXTENDS SampledReader, FiniteSetsExt, WellFoundedInduction, TLAPS

----------------------------------------------------------------------------
(* Numbers, repetition and sequences. *)

\* A set of naturals that is not empty has a least element.
LEMMA LeastNumber ==
    ASSUME NEW T \in SUBSET Nat, T # {}
    PROVE  \E m \in T : \A n \in T : m <= n
<1> DEFINE R == OpToRel(<, Nat)
<1>1. \A x, y \in Nat : <<x, y>> \in R <=> x < y
  BY DEF OpToRel
<1>2. IsWellFoundedOn(R, Nat)
  BY NatLessThanWellFounded
<1> HIDE DEF R
<1>3. PICK m \in T : \A n \in T : ~(<<n, m>> \in R)
  BY <1>2, WFMin
<1>4. ASSUME NEW n \in T PROVE m <= n
  <2>1. m \in Nat /\ n \in Nat
    OBVIOUS
  <2>2. ~(n < m)
    BY <1>1, <1>3, <2>1
  <2> QED BY <2>1, <2>2
<1> QED BY <1>4

\* What holds of 0 and passes from n to n + 1 holds of every number.
LEMMA SetInduction ==
    ASSUME NEW T, 0 \in T, \A n \in Nat : n \in T => n + 1 \in T
    PROVE  \A n \in Nat : n \in T
<1> SUFFICES ASSUME Nat \ T # {} PROVE FALSE
  OBVIOUS
<1>1. PICK m \in Nat \ T : \A n \in Nat \ T : m <= n
  BY LeastNumber
<1>2. m - 1 \in Nat /\ m - 1 \notin Nat \ T
  BY <1>1
<1> QED BY <1>1, <1>2

\* g folds step over 1..N from c, inside S: step also gets the number it is at.
FoldsOver(g, S, c, step, N) ==
    /\ g \in [0..N -> S]
    /\ g[0] = c
    /\ \A i \in 1..N : g[i] = step[<<i, g[i - 1]>>]

\* A step that depends on the number it is at folds to a function too.
LEMMA NumberedIteration ==
    ASSUME NEW S, NEW c \in S, NEW N \in Nat, NEW step \in [(1..N) \X S -> S]
    PROVE  \E g : FoldsOver(g, S, c, step, N)
<1> DEFINE T == {n \in Nat : n <= N => \E g : FoldsOver(g, S, c, step, n)}
<1>1. 0 \in T
  <2> DEFINE g == [i \in 0..0 |-> c]
  <2>1. g \in [0..0 -> S] /\ g[0] = c
    OBVIOUS
  <2>2. \A i \in 1..0 : g[i] = step[<<i, g[i - 1]>>]
    OBVIOUS
  <2> HIDE DEF g
  <2> QED BY <2>1, <2>2 DEF FoldsOver
<1>2. ASSUME NEW n \in Nat, n \in T PROVE n + 1 \in T
  <2> SUFFICES ASSUME n + 1 <= N PROVE \E g : FoldsOver(g, S, c, step, n + 1)
    OBVIOUS
  <2>1. PICK g : FoldsOver(g, S, c, step, n)
    BY <1>2
  <2> DEFINE h == [i \in 0..(n + 1) |-> IF i <= n THEN g[i] ELSE step[<<n + 1, g[n]>>]]
  <2>2. n + 1 \in 1..N /\ g[n] \in S /\ step[<<n + 1, g[n]>>] \in S
    BY <2>1 DEF FoldsOver
  <2>3. h \in [0..(n + 1) -> S] /\ h[0] = c
    BY <2>1, <2>2 DEF FoldsOver
  <2>4. \A i \in 1..(n + 1) : h[i] = step[<<i, h[i - 1]>>]
    <3> TAKE i \in 1..(n + 1)
    <3>1. CASE i <= n
      BY <2>1, <3>1 DEF FoldsOver
    <3>2. CASE i = n + 1
      <4>1. ~(n + 1 <= n) /\ n <= n /\ n + 1 \in 0..(n + 1) /\ n \in 0..(n + 1) /\ (n + 1) - 1 = n
        OBVIOUS
      <4>2. h[n + 1] = step[<<n + 1, g[n]>>] /\ h[n] = g[n]
        BY <4>1
      <4> QED BY <3>2, <4>1, <4>2
    <3> QED BY <3>1, <3>2
  <2> HIDE DEF h
  <2> QED BY <2>3, <2>4 DEF FoldsOver
<1> HIDE DEF T
<1>3. N \in T
  BY <1>1, <1>2, SetInduction
<1> QED BY <1>3 DEF T

\* A function on 1..n is a sequence of length n.
LEMMA FunctionIsSeq ==
    ASSUME NEW S, NEW n \in Nat, NEW f \in [1..n -> S]
    PROVE  f \in Seq(S) /\ Len(f) = n
OBVIOUS

\* What stands where when one sequence follows another.
LEMMA JoinIs ==
    ASSUME NEW S, NEW A \in Seq(S), NEW B \in Seq(S),
           NEW a, a = Len(A), NEW b, b = Len(B)
    PROVE  /\ A \o B \in Seq(S) /\ Len(A \o B) = a + b
           /\ \A i \in 1..a : (A \o B)[i] = A[i]
           /\ \A i \in 1..b : (A \o B)[a + i] = B[i]
<1>1. A \o B \in Seq(S) /\ Len(A \o B) = a + b
  OBVIOUS
<1>2. \A i \in 1..a : (A \o B)[i] = A[i]
  OBVIOUS
<1>3. \A i \in 1..b : (A \o B)[a + i] = B[i]
  OBVIOUS
<1> QED BY <1>1, <1>2, <1>3

----------------------------------------------------------------------------
(* The invariant. *)

Outcomes == {"same", "converted", "null", "truncated", "dropped", "error"}
Kinds == {"none", "bool", "int", "float", "text", "struct", "mixed"}

\* A cell that holds a value.
HasValue(i) == Rows[i].cell \notin {"absent", "null"}

\* How far the sample has come.
SampleInv ==
    /\ job \in Jobs
    /\ taken <= Len(Rows)
    /\ met => taken = Len(Rows)
    /\ job.format = "query" => taken <= 1

\* Where the iterator is: the rows in `out` are the first ones, those of the
\* buffer follow, and `pos` is behind both.
OrderInv ==
    /\ buffer \in Seq(Nat) /\ out \in Seq([row : Nat, cell : Outcomes])
    /\ \A i \in 1..Len(out) : out[i].row = i /\ out[i].cell = Cell(i)
    /\ phase # "stream" => buffer = <<>> /\ out = <<>> /\ pos = 0
    /\ phase = "stream" =>
         /\ pos = Len(out) + Len(buffer)
         /\ \A i \in 1..Len(buffer) : buffer[i] = Len(out) + i
         /\ Len(buffer) > 0 => pos = taken

\* The schema holds for all that the sample has seen.
ColumnInv ==
    phase = "stream" =>
        /\ \A i \in 1..taken : HasValue(i) => Cell(i) \in {"same", "converted"}
        /\ geom # "Geometry" =>
             \A i \in 1..taken :
                 Rows[i].geom \in {"none", IF geom = "Point" THEN "point" ELSE "line"}
        /\ job.format = "fgb" =>
             /\ column \in {"Date32", "Timestamp"}
             /\ column = "Date32" => \A i \in 1..Len(Rows) : Rows[i].cell # "datetime"

CauseInv == cause = "type" => job.format = "query"

IInv == TypeOK /\ SampleInv /\ OrderInv /\ ColumnInv /\ CauseInv

----------------------------------------------------------------------------
(* The rows, and what the columns make of their cells. *)

\* What a job is.
LEMMA JobIs ==
    ASSUME job \in Jobs
    PROVE  /\ job \in AllJobs /\ job.format \in Formats /\ job.limit \in Nat
           /\ Len(Rows) \in Nat
           /\ \A i \in 1..Len(Rows) : Rows[i].cell \in Cells[job.format] /\ Rows[i].geom \in Geoms
<1>1. job \in AllJobs /\ \A i \in 1..Len(Rows) : Rows[i].cell \in Cells[job.format]
  BY SampledReaderAssumption DEF Rows
<1>2. /\ Rows \in Seq([cell : UNION {Cells[f] : f \in Formats}, geom : Geoms])
      /\ job.format \in Formats /\ job.limit \in Nat
  BY <1>1 DEF AllJobs, Rows
<1>3. /\ Len(Rows) \in Nat
      /\ \A i \in 1..Len(Rows) : Rows[i].geom \in Geoms
  <2> DEFINE R == [cell : UNION {Cells[f] : f \in Formats}, geom : Geoms]
  <2>1. \A r \in R : r.geom \in Geoms
    OBVIOUS
  <2>2. Rows \in Seq(R)
    BY <1>2
  <2> HIDE DEF R
  <2> QED BY <2>1, <2>2
<1> QED BY <1>1, <1>2, <1>3

\* What a cell becomes, by format.
LEMMA CellIs ==
    ASSUME job \in Jobs, NEW i \in 1..Len(Rows)
    PROVE  /\ Cell(i) \in Outcomes
           /\ Cell(i) = "error" =>
                job.format = "query" \/ (job.format = "fgb" /\ column = "Date32"
                                         /\ Rows[i].cell = "datetime")
<1>1. Rows[i].cell \in Cells[job.format] /\ job.format \in Formats
  BY JobIs
<1>2. CASE job.format \in GeoJson
  <2>1. Cell(i) = JsonCell(column, Rows[i].cell)
    BY <1>2 DEF Cell, GeoJson
  <2>2. JsonCell(column, Rows[i].cell) \in Outcomes \ {"error"}
    BY DEF JsonCell, Outcomes
  <2> QED BY <2>1, <2>2
<1>3. CASE job.format = "fgb"
  <2>1. Cell(i) = FgbCell(column, Rows[i].cell)
    BY <1>3 DEF Cell, GeoJson
  <2>2. Rows[i].cell \in {"null", "date", "datetime"}
    BY <1>1, <1>3 DEF Cells
  <2> QED BY <1>3, <2>1, <2>2 DEF FgbCell, Outcomes
<1>4. CASE job.format = "csv"
  <2>1. Cell(i) = "same"
    BY <1>4 DEF Cell, GeoJson
  <2> QED BY <2>1 DEF Outcomes
<1>5. CASE job.format = "query"
  <2>1. Cell(i) = QueryCell(column, Rows[i].cell)
    BY <1>5 DEF Cell, GeoJson
  <2>2. QueryCell(column, Rows[i].cell) \in Outcomes
    BY DEF QueryCell, Outcomes
  <2> QED BY <1>5, <2>1, <2>2
<1> QED BY <1>1, <1>2, <1>3, <1>4, <1>5 DEF Formats, GeoJson

----------------------------------------------------------------------------
(* The type that GeoJSON infers. *)

\* Merging adds a kind to the one so far.
Absorbs(t, c) == t \in {c, "mixed"} \/ (t = "float" /\ c = "int")

\* Merging two kinds gives one that absorbs both, and what the first absorbed.
LEMMA MergeIs ==
    ASSUME NEW prev \in Kinds, NEW c \in Kinds, c # "none"
    PROVE  /\ Merge(prev, c) \in Kinds \ {"none"}
           /\ Absorbs(Merge(prev, c), c)
           /\ \A b \in Kinds : Absorbs(prev, b) /\ b # "none" => Absorbs(Merge(prev, c), b)
BY DEF Merge, Kinds, Absorbs

\* What the recursion of Merged computes.
LEMMA MergedIs ==
    ASSUME job \in Jobs, job.format \in GeoJson
    PROVE  /\ Merged[0] = "none"
           /\ \A n \in 1..Len(Rows) :
                /\ Rows[n].cell \in {"absent", "null"} \cup (Kinds \ {"none", "mixed"})
                /\ Merged[n] = IF ~HasValue(n) THEN Merged[n - 1]
                               ELSE Merge(Merged[n - 1], Rows[n].cell)
<1> DEFINE N == Len(Rows)
           Into(n, t) == IF Rows[n].cell \in {"absent", "null"} THEN t
                         ELSE Merge(t, Rows[n].cell)
           step == [x \in (1..N) \X Kinds |-> Into(x[1], x[2])]
<1>1. N \in Nat
  BY JobIs
<1>2. \A n \in 1..N : Rows[n].cell \in {"absent", "null"} \cup (Kinds \ {"none", "mixed"})
  BY JobIs DEF Cells, GeoJson, Kinds
<1>3. ASSUME NEW n \in 1..N, NEW t \in Kinds PROVE Into(n, t) \in Kinds
  <2>1. CASE Rows[n].cell \in {"absent", "null"}
    BY <2>1
  <2>2. CASE Rows[n].cell \notin {"absent", "null"}
    <3>1. Rows[n].cell \in Kinds /\ Rows[n].cell # "none"
      BY <1>2, <2>2
    <3> QED BY <2>2, <3>1, MergeIs
  <2> QED BY <2>1, <2>2
<1> HIDE DEF Into, N
<1>4. step \in [(1..N) \X Kinds -> Kinds]
  BY <1>3
<1>5. \A n \in 1..N, t \in Kinds : step[<<n, t>>] = Into(n, t)
  OBVIOUS
<1> HIDE DEF step
<1>6. PICK g : FoldsOver(g, Kinds, "none", step, N)
  <2>1. "none" \in Kinds
    BY DEF Kinds
  <2> QED BY <1>1, <1>4, <2>1, NumberedIteration
<1>7. \A n \in 1..N : g[n - 1] \in Kinds /\ g[n] = Into(n, g[n - 1])
  <2> TAKE n \in 1..N
  <2>1. g[n - 1] \in Kinds
    BY <1>1, <1>6 DEF FoldsOver
  <2>2. g[n] = step[<<n, g[n - 1]>>]
    BY <1>6 DEF FoldsOver
  <2> QED BY <1>5, <2>1, <2>2
<1>8. g = [n \in 0..N |-> IF n = 0 THEN "none" ELSE Into(n, g[n - 1])]
  BY <1>1, <1>6, <1>7 DEF FoldsOver
<1>9. Merged = [n \in 0..N |-> IF n = 0 THEN "none" ELSE Into(n, Merged[n - 1])]
  <2>1. Merged = CHOOSE h : h = [n \in 0..N |-> IF n = 0 THEN "none" ELSE Into(n, h[n - 1])]
    BY DEF Merged, Into, N
  <2> QED BY <1>8, <2>1
<1>10. /\ Merged[0] = "none"
       /\ \A n \in 1..N : Merged[n] = Into(n, Merged[n - 1])
  BY <1>1, <1>9
<1> QED BY <1>2, <1>10 DEF Into, N, HasValue

\* The kind after n features absorbs every kind among them.
LEMMA MergedAbsorbs ==
    ASSUME job \in Jobs, job.format \in GeoJson, NEW n \in 0..Len(Rows)
    PROVE  /\ Merged[n] \in Kinds
           /\ \A i \in 1..n : HasValue(i) => Absorbs(Merged[n], Rows[i].cell)
<1> DEFINE P(m) == /\ Merged[m] \in Kinds
                   /\ \A i \in 1..m : HasValue(i) => Absorbs(Merged[m], Rows[i].cell)
           T == {m \in Nat : m <= Len(Rows) => P(m)}
<1>0. Len(Rows) \in Nat
  BY JobIs
<1>1. 0 \in T
  BY MergedIs DEF Kinds
<1>2. ASSUME NEW m \in Nat, m \in T PROVE m + 1 \in T
  <2> SUFFICES ASSUME m + 1 <= Len(Rows) PROVE P(m + 1)
    OBVIOUS
  <2>1. P(m) /\ m + 1 \in 1..Len(Rows) /\ (m + 1) - 1 = m
    BY <1>0, <1>2
  <2>2. Rows[m + 1].cell \in {"absent", "null"} \cup (Kinds \ {"none", "mixed"})
    BY <2>1, MergedIs
  <2>3. CASE ~HasValue(m + 1)
    <3>1. Merged[m + 1] = Merged[m]
      BY <2>1, <2>3, MergedIs
    <3> QED BY <2>1, <2>3, <3>1
  <2>4. CASE HasValue(m + 1)
    <3>1. Merged[m + 1] = Merge(Merged[m], Rows[m + 1].cell)
      BY <2>1, <2>4, MergedIs
    <3>2. Rows[m + 1].cell \in Kinds /\ Rows[m + 1].cell # "none"
      BY <2>2, <2>4 DEF HasValue
    <3>3. \A i \in 1..m : HasValue(i) => Rows[i].cell \in Kinds /\ Rows[i].cell # "none"
      <4> TAKE i \in 1..m
      <4>1. i \in 1..Len(Rows)
        BY <1>0, <2>1
      <4>2. Rows[i].cell \in {"absent", "null"} \cup (Kinds \ {"none", "mixed"})
        BY <4>1, MergedIs
      <4> QED BY <4>2 DEF HasValue
    <3>4. \A i \in 1..m : HasValue(i) => Absorbs(Merged[m + 1], Rows[i].cell)
      BY <2>1, <3>1, <3>2, <3>3, MergeIs
    <3>5. Merged[m + 1] \in Kinds /\ Absorbs(Merged[m + 1], Rows[m + 1].cell)
      BY <2>1, <3>1, <3>2, MergeIs
    <3>6. \A i \in 1..(m + 1) : i \in 1..m \/ i = m + 1
      OBVIOUS
    <3> QED BY <3>4, <3>5, <3>6
  <2> QED BY <2>3, <2>4
<1> HIDE DEF T
<1>3. n \in T
  BY <1>0, <1>1, <1>2, SetInduction
<1> QED BY <1>0, <1>3 DEF T

\* The column GeoJSON makes keeps every value of the sample.
LEMMA InferJsonFits ==
    ASSUME job \in Jobs, job.format \in GeoJson, taken \in 0..Len(Rows),
           NEW i \in 1..taken, HasValue(i)
    PROVE  JsonCell(InferJson, Rows[i].cell) \in {"same", "converted"}
<1>0. Len(Rows) \in Nat /\ i \in 1..Len(Rows)
  BY JobIs
<1>1. Rows[i].cell \in Kinds \ {"none", "mixed"}
  BY <1>0, MergedIs DEF HasValue
<1>2. Merged[taken] \in Kinds /\ Absorbs(Merged[taken], Rows[i].cell)
  BY MergedAbsorbs
<1>3. ~ \A k \in 1..taken : Rows[k].cell = "absent"
  BY DEF HasValue
<1>4. CASE "struct" \in SampledCells
  <2>1. InferJson = "Utf8"
    BY <1>3, <1>4 DEF InferJson
  <2> QED BY <1>1, <2>1 DEF JsonCell, Kinds
<1>5. CASE "struct" \notin SampledCells
  <2>1. Rows[i].cell # "struct"
    BY <1>5 DEF SampledCells, HasValue
  <2>2. InferJson = CASE Merged[taken] = "bool" -> "Boolean" [] Merged[taken] = "int" -> "Int64"
                      [] Merged[taken] = "float" -> "Float64" [] OTHER -> "Utf8"
    BY <1>3, <1>5 DEF InferJson
  <2> DEFINE t == Merged[taken]
             c == Rows[i].cell
  <2>3. t \in Kinds /\ Absorbs(t, c) /\ c \in {"bool", "int", "float", "text"}
    BY <1>1, <1>2, <2>1 DEF Kinds
  <2>4. InferJson = CASE t = "bool" -> "Boolean" [] t = "int" -> "Int64"
                      [] t = "float" -> "Float64" [] OTHER -> "Utf8"
    BY <2>2
  <2> HIDE DEF t, c
  <2>5. JsonCell(InferJson, c) \in {"same", "converted"}
    BY <2>3, <2>4 DEF Absorbs, JsonCell, Kinds
  <2> QED BY <2>5 DEF c
<1> QED BY <1>4, <1>5

----------------------------------------------------------------------------
(* A batch: what the buffer gives, then what the stream gives. *)

Old == SubSeq(buffer, 1, MinOf(Len(buffer), BatchSize))
New == FromStream(Len(Old))
Chunk == Old \o [i \in 1..New |-> pos + i]
Rest == SubSeq(buffer, Len(Old) + 1, Len(buffer))

\* The lengths of the parts.
LEMMA Lengths ==
    ASSUME IInv, phase = "stream"
    PROVE  /\ Len(Rows) \in Nat /\ Len(out) \in Nat /\ Len(buffer) \in Nat
           /\ BatchSize \in Nat \ {0}
           /\ pos \in 0..Len(Rows) /\ pos = Len(out) + Len(buffer)
           /\ Old \in Seq(Nat) /\ Rest \in Seq(Nat)
           /\ Len(Old) = MinOf(Len(buffer), BatchSize)
           /\ Len(Rest) = Len(buffer) - Len(Old)
           /\ \A i \in 1..Len(Old) : Old[i] = Len(out) + i
           /\ \A i \in 1..Len(Rest) : Rest[i] = Len(out) + Len(Old) + i
<1>1. /\ Len(Rows) \in Nat /\ pos \in 0..Len(Rows)
      /\ BatchSize \in Nat \ {0}
  BY JobIs, SampledReaderAssumption DEF IInv, SampleInv, TypeOK
<1>2. /\ out \in Seq([row : Nat, cell : Outcomes]) /\ buffer \in Seq(Nat)
      /\ pos = Len(out) + Len(buffer)
      /\ \A i \in 1..Len(buffer) : buffer[i] = Len(out) + i
  BY DEF IInv, OrderInv
<1>3. Len(out) \in Nat /\ Len(buffer) \in Nat
  BY <1>2
<1> DEFINE m == MinOf(Len(buffer), BatchSize)
<1>4. m \in 0..Len(buffer)
  BY <1>1, <1>3 DEF MinOf
<1> HIDE DEF m
<1>5. /\ SubSeq(buffer, 1, m) \in Seq(Nat) /\ Len(SubSeq(buffer, 1, m)) = m
      /\ \A i \in 1..m : SubSeq(buffer, 1, m)[i] = buffer[i]
  BY <1>2, <1>3, <1>4
<1>6. Old = SubSeq(buffer, 1, m)
  BY DEF Old, m
<1>7. Len(Old) = m /\ \A i \in 1..m : Old[i] = Len(out) + i
  BY <1>2, <1>3, <1>4, <1>5, <1>6
<1>8. /\ SubSeq(buffer, m + 1, Len(buffer)) \in Seq(Nat)
      /\ Len(SubSeq(buffer, m + 1, Len(buffer))) = Len(buffer) - m
      /\ \A i \in 1..(Len(buffer) - m) :
           SubSeq(buffer, m + 1, Len(buffer))[i] = buffer[m + i]
  BY <1>2, <1>3, <1>4
<1>9. Rest = SubSeq(buffer, m + 1, Len(buffer))
  BY <1>7 DEF Rest
<1>10. \A i \in 1..(Len(buffer) - m) : Rest[i] = Len(out) + m + i
  <2> TAKE i \in 1..(Len(buffer) - m)
  <2>1. m + i \in 1..Len(buffer) /\ Rest[i] = buffer[m + i]
    BY <1>3, <1>4, <1>8, <1>9
  <2>2. buffer[m + i] = Len(out) + (m + i)
    BY <1>2, <2>1
  <2> QED BY <1>3, <1>4, <2>1, <2>2
<1> QED BY <1>1, <1>2, <1>3, <1>5, <1>6, <1>7, <1>8, <1>9, <1>10 DEF m

\* The batch holds the rows that follow those in `out`, up to a full batch.
LEMMA ChunkIs ==
    ASSUME IInv, phase = "stream"
    PROVE  /\ New \in Nat /\ pos + New <= Len(Rows)
           /\ Chunk \in Seq(Nat) /\ Len(Chunk) = Len(Old) + New /\ Len(Chunk) <= BatchSize
           /\ \A k \in 1..Len(Chunk) : Chunk[k] = Len(out) + k
           /\ pos + New = Len(out) + Len(Chunk) + Len(Rest)
           /\ Len(Rest) > 0 => New = 0
           /\ Len(Chunk) = BatchSize \/ Len(out) + Len(Chunk) = Len(Rows)
<1> DEFINE n == Len(Rows)
           a == Len(out)
           b == Len(buffer)
           o == Len(Old)
           r == Len(Rest)
<1>1. /\ n \in Nat /\ a \in Nat /\ b \in Nat /\ BatchSize \in Nat \ {0}
      /\ pos \in 0..n /\ pos = a + b /\ o = MinOf(b, BatchSize) /\ r = b - o
      /\ New = MinOf(BatchSize - o, n - pos)
  BY Lengths DEF New, FromStream
<1>2. Old \in Seq(Nat) /\ \A i \in 1..o : Old[i] = a + i
  BY Lengths
<1> HIDE DEF n, a, b, o, r
<1>3. /\ o \in Nat /\ o <= b /\ o <= BatchSize /\ r \in Nat
      /\ (o = b \/ o = BatchSize)
  BY <1>1 DEF MinOf
<1>4. New \in Nat /\ pos + New <= n /\ o + New <= BatchSize
  BY <1>1, <1>3 DEF MinOf
<1>5. r > 0 => New = 0
  BY <1>1, <1>3, <1>4
<1>6. o + New = BatchSize \/ (New = n - pos /\ o = b)
  BY <1>1, <1>3, <1>4 DEF MinOf
<1> DEFINE R == [i \in 1..New |-> pos + i]
<1>7. R \in Seq(Nat) /\ Len(R) = New /\ \A i \in 1..New : R[i] = pos + i
  <2>1. \A i \in 1..New : pos + i \in Nat
    BY <1>1, <1>4
  <2>2. New \in Nat /\ DOMAIN R = 1..New /\ R \in [1..New -> Nat]
    BY <1>4, <2>1
  <2> QED BY <2>2
<1>8. Chunk = Old \o R
  BY DEF Chunk
<1> HIDE DEF R
<1>9. /\ Chunk \in Seq(Nat) /\ Len(Chunk) = o + New
      /\ \A k \in 1..o : Chunk[k] = Old[k]
      /\ \A i \in 1..New : Chunk[o + i] = R[i]
  BY <1>2, <1>3, <1>4, <1>7, <1>8 DEF o
<1>10. \A k \in 1..(o + New) : Chunk[k] = a + k
  <2> TAKE k \in 1..(o + New)
  <2>1. CASE k <= o
    BY <1>2, <1>9, <2>1
  <2>2. CASE ~(k <= o)
    <3> DEFINE i == k - o
    <3>1. i \in 1..New /\ k = o + i /\ o = b
      BY <1>1, <1>3, <1>4, <1>6, <2>2
    <3> HIDE DEF i
    <3>2. Chunk[k] = pos + i
      BY <1>7, <1>9, <3>1
    <3> QED BY <1>1, <1>3, <3>1, <3>2
  <2> QED BY <1>3, <1>4, <2>1, <2>2
<1>11. pos + New = a + (o + New) + r
  BY <1>1, <1>3, <1>4
<1>12. o + New = BatchSize \/ a + (o + New) = n
  BY <1>1, <1>3, <1>4, <1>6
<1> QED BY <1>4, <1>5, <1>9, <1>10, <1>11, <1>12 DEF n, a, o, r

----------------------------------------------------------------------------
(* The invariant, action by action. *)

\* What rows and cells are depends on the job and the column only.
LEMMA SameCells ==
    ASSUME job' = job, column' = column
    PROVE  /\ Rows' = Rows
           /\ \A i : Cell(i)' = Cell(i) /\ (HasValue(i)' <=> HasValue(i))
BY DEF Rows, Cell, HasValue

\* The invariant holds when a reader is opened.
LEMMA InitInv == Init => IInv
<1> SUFFICES ASSUME Init PROVE IInv
  OBVIOUS
<1>1. job \in Jobs
  BY DEF Init
<1>2. job \in AllJobs /\ Len(Rows) \in Nat
  BY <1>1, JobIs
<1>3. TypeOK
  <2>1. buffer = <<>> /\ out = <<>> /\ DOMAIN buffer = {} /\ DOMAIN out = {}
    BY DEF Init
  <2>2. 0 \in 0..Len(Rows)
    BY <1>2
  <2> QED BY <1>2, <2>1, <2>2 DEF Init, TypeOK
<1>4. SampleInv
  BY <1>1, <1>2 DEF Init, SampleInv
<1>5. OrderInv
  BY DEF Init, OrderInv
<1>6. ColumnInv /\ CauseInv
  BY DEF Init, ColumnInv, CauseInv
<1> QED BY <1>3, <1>4, <1>5, <1>6 DEF IInv

\* A step that only says how the iteration ended.
LEMMA OutcomeSteps ==
    ASSUME IInv, UNCHANGED <<job, phase, taken, met, column, geom, buffer, pos, out>>,
           outcome' \in {"open", "end", "err", "cancelled"},
           cause' \in {"none", "crs", "syntax", "geometry", "type", "io"},
           outcome' = "err" <=> cause' # "none",
           cause' = "type" => job.format = "query"
    PROVE  IInv'
<1>1. Rows' = Rows /\ \A i : Cell(i)' = Cell(i) /\ (HasValue(i)' <=> HasValue(i))
  BY SameCells
<1>2. TypeOK'
  BY <1>1 DEF IInv, TypeOK
<1>3. SampleInv'
  BY <1>1 DEF IInv, SampleInv
<1>4. OrderInv'
  BY <1>1 DEF IInv, OrderInv
<1>5. ColumnInv'
  BY <1>1 DEF IInv, ColumnInv
<1>6. CauseInv'
  BY DEF CauseInv
<1> QED BY <1>2, <1>3, <1>4, <1>5, <1>6 DEF IInv

\* An error of another cause than the type of a cell.
LEMMA FailSteps ==
    ASSUME IInv, NEW why \in {"crs", "syntax", "geometry", "io"}, Fail(why),
           UNCHANGED <<job, phase, taken, met, column, geom, buffer, pos, out>>
    PROVE  IInv'
BY OutcomeSteps DEF Fail

\* Looking for a crs member reads no row.
LEMMA ProbeCrsInv == IInv /\ ProbeCrs => IInv'
<1> SUFFICES ASSUME IInv, ProbeCrs PROVE IInv'
  OBVIOUS
<1>1. CASE Fail("crs") /\ phase' = phase
  BY <1>1, FailSteps DEF ProbeCrs
<1>2. CASE phase' = "sample" /\ UNCHANGED <<outcome, cause>>
  <2>1. Rows' = Rows /\ \A i : Cell(i)' = Cell(i) /\ (HasValue(i)' <=> HasValue(i))
    BY SameCells DEF ProbeCrs
  <2>2. TypeOK' /\ SampleInv'
    BY <1>2, <2>1 DEF IInv, TypeOK, SampleInv, ProbeCrs
  <2>3. OrderInv'
    BY <1>2, <2>1 DEF IInv, OrderInv, ProbeCrs
  <2>4. ColumnInv' /\ CauseInv'
    BY <1>2, <2>1 DEF IInv, ColumnInv, CauseInv, ProbeCrs
  <2> QED BY <2>2, <2>3, <2>4 DEF IInv
<1> QED BY <1>1, <1>2 DEF ProbeCrs

\* The source's iterator ends or fails only behind the last row.
LEMMA SampleRowInv == IInv /\ SampleRow => IInv'
<1> SUFFICES ASSUME IInv, SampleRow PROVE IInv'
  OBVIOUS
<1>1. /\ phase = "sample" /\ phase' = "sample" /\ outcome = "open" /\ ~SampleFull
      /\ UNCHANGED <<job, column, geom, buffer, pos, out>>
  BY DEF SampleRow
<1>2. /\ Rows' = Rows /\ Len(Rows) \in Nat /\ taken \in 0..Len(Rows)
      /\ \A i : Cell(i)' = Cell(i)
  BY <1>1, SameCells, JobIs DEF IInv, SampleInv, TypeOK
<1>3. CASE Fail("syntax") /\ UNCHANGED <<taken, met>>
  BY <1>1, <1>3, FailSteps
<1>4. CASE taken' = taken + 1 /\ Feature(taken) = "row" /\ UNCHANGED <<met, outcome, cause>>
  <2>1. taken < Len(Rows)
    BY <1>4 DEF Feature
  <2>2. ~met
    BY <1>2, <2>1 DEF IInv, SampleInv
  <2>3. job.format = "query" => taken = 0
    <3> SUFFICES ASSUME job.format = "query" PROVE taken = 0
      OBVIOUS
    <3>1. taken # 1
      BY <1>1 DEF SampleFull, GeoJson
    <3> QED BY <1>2, <3>1 DEF IInv, SampleInv
  <2>4. TypeOK'
    BY <1>1, <1>2, <1>4, <2>1 DEF IInv, TypeOK
  <2>5. SampleInv'
    BY <1>1, <1>2, <1>4, <2>1, <2>2, <2>3 DEF IInv, SampleInv
  <2>6. OrderInv'
    BY <1>1, <1>2, <1>4 DEF IInv, OrderInv
  <2>7. ColumnInv' /\ CauseInv'
    BY <1>1, <1>4 DEF IInv, ColumnInv, CauseInv
  <2> QED BY <2>4, <2>5, <2>6, <2>7 DEF IInv
<1>5. CASE met' = TRUE /\ Feature(taken) = "end" /\ UNCHANGED <<taken, outcome, cause>>
  <2>1. taken = Len(Rows)
    BY <1>2, <1>5 DEF Feature
  <2>2. TypeOK'
    BY <1>1, <1>2, <1>5 DEF IInv, TypeOK
  <2>3. SampleInv'
    BY <1>1, <1>2, <1>5, <2>1 DEF IInv, SampleInv
  <2>4. OrderInv'
    BY <1>1, <1>2, <1>5 DEF IInv, OrderInv
  <2>5. ColumnInv' /\ CauseInv'
    BY <1>1, <1>5 DEF IInv, ColumnInv, CauseInv
  <2> QED BY <2>2, <2>3, <2>4, <2>5 DEF IInv
<1> QED BY <1>3, <1>4, <1>5 DEF SampleRow, Feature

\* The column each format infers keeps what the sample has seen.
LEMMA InferFits ==
    ASSUME IInv, Infer, phase' = "stream", job' = job,
           NEW i \in 1..taken, HasValue(i)
    PROVE  Cell(i)' \in {"same", "converted"}
<1>1. /\ job.format \in Formats /\ Len(Rows) \in Nat /\ taken \in 0..Len(Rows)
      /\ i \in 1..Len(Rows) /\ Rows[i].cell \in Cells[job.format] /\ Rows' = Rows
      /\ phase = "sample"
  BY JobIs DEF IInv, SampleInv, TypeOK, Infer, Rows
<1>2. column' = CASE job.format \in GeoJson -> InferJson
                  [] job.format = "fgb" -> Refine
                  [] job.format = "csv" -> "Utf8"
                  [] job.format = "query" -> InferQuery
  BY <1>1 DEF Infer, Fail
<1>3. CASE job.format \in GeoJson
  <2>1. Cell(i)' = JsonCell(InferJson, Rows[i].cell)
    BY <1>1, <1>2, <1>3 DEF Cell, GeoJson
  <2> QED BY <1>1, <1>3, <2>1, InferJsonFits DEF IInv, SampleInv
<1>4. CASE job.format = "fgb"
  <2>1. Cell(i)' = FgbCell(Refine, Rows[i].cell)
    BY <1>1, <1>2, <1>4 DEF Cell, GeoJson
  <2>2. Rows[i].cell \in {"date", "datetime"} /\ Rows[i].cell \in SampledCells
    BY <1>1, <1>4 DEF Cells, HasValue, SampledCells
  <2>3. Refine = "Date32" => Rows[i].cell = "date"
    BY <2>2 DEF Refine
  <2>4. Refine \in {"Date32", "Timestamp"}
    BY DEF Refine
  <2> QED BY <2>1, <2>2, <2>3, <2>4 DEF FgbCell
<1>5. CASE job.format = "csv"
  BY <1>5 DEF Cell, GeoJson
<1>6. CASE job.format = "query"
  <2>1. i = 1
    BY <1>1, <1>6 DEF IInv, SampleInv
  <2>2. Cell(i)' = QueryCell(InferQuery, Rows[1].cell)
    BY <1>1, <1>2, <1>6, <2>1 DEF Cell, GeoJson
  <2>3. Rows[1].cell \in {"int", "real", "numeral", "text", "blob"}
    BY <1>1, <1>6, <2>1 DEF Cells, HasValue
  <2> QED BY <2>2, <2>3 DEF InferQuery, QueryCell
<1> QED BY <1>1, <1>3, <1>4, <1>5, <1>6 DEF Formats, GeoJson

\* The column's type is one of those the formats infer.
LEMMA InferType ==
    ASSUME IInv, Infer, phase' = "stream"
    PROVE  column' \in {"none", "Boolean", "Int64", "Float64", "Utf8", "Binary",
                        "Date32", "Timestamp"}
<1>1. /\ job \in Jobs /\ job.format \in Formats /\ Len(Rows) \in Nat /\ taken \in 0..Len(Rows)
      /\ phase = "sample"
  BY JobIs DEF IInv, SampleInv, TypeOK, Infer
<1>2. ~SampleRefused /\ column' = CASE job.format \in GeoJson -> InferJson
                                    [] job.format = "fgb" -> Refine
                                    [] job.format = "csv" -> "Utf8"
                                    [] job.format = "query" -> InferQuery
  BY <1>1 DEF Infer, Fail
<1>3. CASE job.format = "query"
  <2>1. \E i \in 1..taken : TRUE
    BY <1>2, <1>3 DEF SampleRefused, SampledGeoms
  <2>2. 1 \in 1..Len(Rows)
    BY <1>1, <2>1
  <2>3. Rows[1].cell \in {"null", "int", "real", "numeral", "text", "blob"}
    BY <1>1, <1>3, <2>2, JobIs DEF Cells
  <2> QED BY <1>2, <1>3, <2>3 DEF InferQuery, GeoJson
<1>4. CASE job.format # "query"
  <2>1. InferJson \in {"none", "Boolean", "Int64", "Float64", "Utf8"}
    BY DEF InferJson
  <2> QED BY <1>1, <1>2, <1>4, <2>1 DEF Refine, Formats, GeoJson
<1> QED BY <1>3, <1>4

\* The schema is made from the sample; the stream starts over, or where the
\* sample ended.
LEMMA InferInv == IInv /\ Infer => IInv'
<1> SUFFICES ASSUME IInv, Infer PROVE IInv'
  OBVIOUS
<1>1. /\ phase = "sample" /\ job' = job /\ taken' = taken /\ met' = met /\ out' = out
      /\ Rows' = Rows /\ out = <<>>
  BY DEF Infer, Rows, IInv, OrderInv
<1>2. CASE SampleRefused
  BY <1>1, <1>2, FailSteps DEF Infer
<1>3. CASE ~SampleRefused
  <2>1. /\ phase' = "stream" /\ outcome' = outcome /\ cause' = cause
        /\ geom' = IF job.format = "fgb" THEN "Geometry" ELSE UnifyGeometry
        /\ IF job.format = "fgb" THEN buffer' = [i \in 1..taken |-> i] /\ pos' = taken
                                 ELSE buffer' = <<>> /\ pos' = 0
    BY <1>3 DEF Infer
  <2>2. /\ Len(Rows) \in Nat /\ taken \in 0..Len(Rows) /\ job.format \in Formats
        /\ job \in Jobs /\ (met => taken = Len(Rows))
    BY JobIs DEF IInv, SampleInv, TypeOK
  <2>3. /\ buffer' \in Seq(Nat) /\ pos' = Len(buffer')
        /\ \A i \in 1..Len(buffer') : buffer'[i] = i /\ i \in 1..taken
        /\ Len(buffer') > 0 => pos' = taken
    <3>1. CASE job.format = "fgb"
      <4> DEFINE B == [i \in 1..taken |-> i]
      <4>1. taken \in Nat /\ B \in [1..taken -> Nat] /\ DOMAIN B = 1..taken
            /\ \A i \in 1..taken : B[i] = i
        BY <2>2
      <4>2. buffer' = B /\ pos' = taken
        BY <2>1, <3>1
      <4> HIDE DEF B
      <4>3. B \in Seq(Nat) /\ Len(B) = taken
        BY <4>1
      <4> QED BY <4>1, <4>2, <4>3
    <3>2. CASE job.format # "fgb"
      BY <2>1, <2>2, <3>2
    <3> QED BY <3>1, <3>2
  <2>4. geom' \in {"Geometry", "Point", "LineString"}
    BY SMTT(20), <2>1 DEF UnifyGeometry
  <2>5. TypeOK'
    <3>1. DOMAIN buffer' = 1..Len(buffer') /\ DOMAIN out' = {}
      BY <1>1, <2>3
    <3>2. pos' \in 0..Len(Rows)
      BY <2>1, <2>2, <2>3
    <3>3. \A i \in DOMAIN buffer' : buffer'[i] \in 1..taken
      BY <2>3, <3>1
    <3> QED BY <1>1, <2>1, <2>4, <3>1, <3>2, <3>3, InferType DEF IInv, TypeOK
  <2>6. SampleInv'
    BY <1>1 DEF IInv, SampleInv
  <2>7. OrderInv'
    <3>1. Len(out') = 0 /\ out' \in Seq([row : Nat, cell : Outcomes])
      BY <1>1
    <3>2. Len(buffer') \in Nat
      BY <2>3
    <3> QED BY <1>1, <2>1, <2>3, <3>1, <3>2 DEF OrderInv
  <2>8. ColumnInv'
    <3>1. \A i \in 1..taken : HasValue(i)' => Cell(i)' \in {"same", "converted"}
      BY <1>1, <2>1, InferFits DEF HasValue
    <3>2. geom' # "Geometry" =>
             \A i \in 1..taken :
                 Rows[i].geom \in {"none", IF geom' = "Point" THEN "point" ELSE "line"}
      <4> SUFFICES ASSUME geom' # "Geometry", NEW i \in 1..taken, Rows[i].geom # "none"
                   PROVE  Rows[i].geom = IF geom' = "Point" THEN "point" ELSE "line"
        OBVIOUS
      <4>1. Rows[i].geom \in SampledGeoms
        BY DEF SampledGeoms
      <4>2. geom' = UnifyGeometry
        BY <2>1
      <4> QED BY <4>1, <4>2 DEF UnifyGeometry
    <3>3. job.format = "fgb" =>
             /\ column' \in {"Date32", "Timestamp"}
             /\ column' = "Date32" => \A i \in 1..Len(Rows) : Rows[i].cell # "datetime"
      <4> SUFFICES ASSUME job.format = "fgb"
                   PROVE  /\ column' \in {"Date32", "Timestamp"}
                          /\ column' = "Date32" => \A i \in 1..Len(Rows) : Rows[i].cell # "datetime"
        OBVIOUS
      <4>1. column' = Refine
        BY <1>1, <1>3 DEF Infer, GeoJson
      <4>2. ASSUME Refine = "Date32", NEW i \in 1..Len(Rows) PROVE Rows[i].cell # "datetime"
        <5>1. SampledCells = {"date"} /\ i \in 1..taken
          BY <2>2, <4>2 DEF Refine
        <5> QED BY <5>1 DEF SampledCells
      <4> QED BY <4>1, <4>2 DEF Refine
    <3> QED BY <1>1, <3>1, <3>2, <3>3 DEF ColumnInv
  <2>9. CauseInv'
    BY <1>1, <2>1 DEF IInv, CauseInv
  <2> QED BY <2>5, <2>6, <2>7, <2>8, <2>9 DEF IInv
<1> QED BY <1>2, <1>3

\* What a batch appends to `out`.
Given == [k \in 1..Len(Chunk) |-> [row |-> Chunk[k], cell |-> Cell(Chunk[k])]]

\* The rows of a batch continue those that were delivered, in order.
LEMMA GivenIs ==
    ASSUME IInv, phase = "stream"
    PROVE  /\ out \o Given \in Seq([row : Nat, cell : Outcomes])
           /\ Len(out \o Given) = Len(out) + Len(Chunk)
           /\ \A i \in 1..(Len(out) + Len(Chunk)) :
                /\ i \in 1..Len(Rows)
                /\ (out \o Given)[i].row = i /\ (out \o Given)[i].cell = Cell(i)
<1> DEFINE E == [row : Nat, cell : Outcomes]
           a == Len(out)
           c == Len(Chunk)
<1>1. /\ out \in Seq(E) /\ a \in Nat /\ c \in Nat /\ a + c <= Len(Rows) /\ Len(Rows) \in Nat
      /\ \A i \in 1..a : out[i].row = i /\ out[i].cell = Cell(i)
      /\ \A k \in 1..c : Chunk[k] = a + k
  <2>1. out \in Seq(E) /\ a \in Nat /\ Len(Rows) \in Nat
        /\ \A i \in 1..a : out[i].row = i /\ out[i].cell = Cell(i)
    BY Lengths DEF IInv, OrderInv
  <2>2. c \in Nat /\ pos + New <= Len(Rows) /\ pos + New = a + c + Len(Rest)
        /\ \A k \in 1..c : Chunk[k] = a + k
    BY ChunkIs
  <2>3. Len(Rest) \in Nat
    BY Lengths
  <2> HIDE DEF a, c
  <2> QED BY <2>1, <2>2, <2>3
<1>2. \A k \in 1..c : /\ a + k \in 1..Len(Rows) /\ a + k \in Nat
                      /\ Given[k] = [row |-> a + k, cell |-> Cell(a + k)]
  <2> TAKE k \in 1..c
  <2>1. Chunk[k] = a + k
    BY <1>1
  <2>2. Given[k] = [row |-> Chunk[k], cell |-> Cell(Chunk[k])]
    BY DEF Given
  <2> HIDE DEF a, c
  <2> QED BY <1>1, <2>1, <2>2
<1>3. \A k \in 1..c : Given[k] \in E
  <2> TAKE k \in 1..c
  <2>1. Cell(a + k) \in Outcomes
    BY <1>2, CellIs DEF IInv, SampleInv
  <2>2. [row |-> a + k, cell |-> Cell(a + k)] \in E
    BY <1>2, <2>1
  <2> QED BY <1>2, <2>2
<1>4. Given \in Seq(E) /\ Len(Given) = c
  <2>1. DOMAIN Given = 1..c /\ Given = [k \in 1..c |-> Given[k]]
    BY DEF Given
  <2>2. Given \in [1..c -> E] /\ c \in Nat
    <3> HIDE DEF E, a, c
    <3> QED BY <1>1, <1>3, <2>1
  <2> HIDE DEF E, a, c
  <2> QED BY <2>2, FunctionIsSeq
<1> HIDE DEF E
<1> DEFINE C == out \o Given
<1>5. /\ C \in Seq(E) /\ Len(C) = a + c
      /\ \A i \in 1..a : C[i] = out[i]
      /\ \A k \in 1..c : C[a + k] = Given[k]
  <2>1. out \in Seq(E) /\ Given \in Seq(E) /\ a = Len(out) /\ c = Len(Given)
    BY <1>1, <1>4
  <2> HIDE DEF a, c
  <2> QED BY <2>1, JoinIs
<1> HIDE DEF C
<1>6. ASSUME NEW i \in 1..(a + c)
      PROVE  i \in 1..Len(Rows) /\ C[i].row = i /\ C[i].cell = Cell(i)
  <2> HIDE DEF a, c
  <2>1. CASE i <= a
    BY <1>1, <1>5, <2>1
  <2>2. CASE ~(i <= a)
    <3> DEFINE k == i - a
    <3>1. k \in 1..c /\ a + k = i
      BY <1>1, <2>2
    <3> HIDE DEF k
    <3>2. C[i] = [row |-> i, cell |-> Cell(i)] /\ i \in 1..Len(Rows)
      BY <1>2, <1>5, <3>1
    <3> QED BY <3>2
  <2> QED BY <2>1, <2>2
<1> QED BY <1>5, <1>6 DEF C, E

\* The cases of one call of next().
LEMMA NextBatchCases ==
    ASSUME IInv, NextBatch
    PROVE  /\ phase = "stream" /\ outcome = "open"
           /\ UNCHANGED <<job, phase, taken, met, column, geom>>
           /\ \/ (Fail("syntax") \/ Fail("geometry")) /\ UNCHANGED <<buffer, pos, out>>
              \/ /\ \E k \in 1..Len(Chunk) : Cell(Chunk[k]) = "error"
                 /\ Fail("type") /\ UNCHANGED <<buffer, pos, out>>
              \/ Chunk = <<>> /\ outcome' = "end" /\ UNCHANGED <<buffer, pos, out, cause>>
              \/ /\ Chunk # <<>>
                 /\ out' = out \o Given /\ buffer' = Rest /\ pos' = pos + New
                 /\ UNCHANGED <<outcome, cause>>
BY DEF NextBatch, Chunk, Old, New, Rest, Given

\* A batch of the stream keeps it, and so does the error next() stops with.
LEMMA NextBatchInv == IInv /\ NextBatch => IInv'
<1> SUFFICES ASSUME IInv, NextBatch PROVE IInv'
  OBVIOUS
<1>1. /\ phase = "stream" /\ outcome = "open" /\ UNCHANGED <<job, phase, taken, met, column, geom>>
  BY NextBatchCases
<1>2. CASE (Fail("syntax") \/ Fail("geometry")) /\ UNCHANGED <<buffer, pos, out>>
  BY <1>1, <1>2, FailSteps
<1>3. CASE /\ \E k \in 1..Len(Chunk) : Cell(Chunk[k]) = "error"
           /\ Fail("type") /\ UNCHANGED <<buffer, pos, out>>
  <2>1. PICK k \in 1..Len(Chunk) : Cell(Chunk[k]) = "error"
    BY <1>3
  <2>2. Chunk[k] \in 1..Len(Rows)
    <3>1. /\ Len(out) \in Nat /\ Len(Chunk) \in Nat /\ Chunk[k] = Len(out) + k
          /\ Len(Rows) \in Nat /\ Len(Rest) \in Nat
          /\ Len(out) + Len(Chunk) + Len(Rest) <= Len(Rows)
      <4>1. /\ Len(out) \in Nat /\ Len(Rows) \in Nat /\ Len(Rest) \in Nat
        BY <1>1, Lengths
      <4>2. /\ Chunk \in Seq(Nat) /\ Chunk[k] = Len(out) + k
            /\ pos + New <= Len(Rows) /\ pos + New = Len(out) + Len(Chunk) + Len(Rest)
        BY <1>1, ChunkIs
      <4>3. Len(Chunk) \in Nat /\ Len(out) + Len(Chunk) + Len(Rest) <= Len(Rows)
        BY <4>2
      <4> QED BY <4>1, <4>2, <4>3
    <3> DEFINE a == Len(out)
               c == Len(Chunk)
               r == Len(Rest)
               n == Len(Rows)
    <3> HIDE DEF a, c, r, n
    <3>2. a + k \in 1..n
      BY <3>1 DEF a, c, r, n
    <3> QED BY <3>1, <3>2 DEF a, n
  <2>3. job.format = "query"
    BY <1>1, <2>1, <2>2, CellIs DEF IInv, SampleInv, ColumnInv
  <2> QED BY <1>1, <1>3, <2>3, OutcomeSteps DEF Fail
<1>4. CASE Chunk = <<>> /\ outcome' = "end" /\ UNCHANGED <<buffer, pos, out, cause>>
  <2>1. cause = "none"
    BY <1>1 DEF IInv, TypeOK
  <2> QED BY <1>1, <1>4, <2>1, OutcomeSteps
<1>5. CASE /\ out' = out \o Given /\ buffer' = Rest /\ pos' = pos + New
           /\ UNCHANGED <<outcome, cause>>
  <2>1. Rows' = Rows /\ \A i : Cell(i)' = Cell(i) /\ (HasValue(i)' <=> HasValue(i))
    BY <1>1, SameCells
  <2>2. /\ out' \in Seq([row : Nat, cell : Outcomes])
        /\ Len(out') = Len(out) + Len(Chunk)
        /\ \A i \in 1..Len(out') : i \in 1..Len(Rows) /\ out'[i].row = i /\ out'[i].cell = Cell(i)
    BY <1>1, <1>5, GivenIs
  <2>3. /\ buffer' \in Seq(Nat) /\ pos' = Len(out') + Len(buffer')
        /\ \A i \in 1..Len(buffer') : buffer'[i] = Len(out') + i
        /\ Len(buffer') > 0 => pos' = taken
        /\ pos' \in 0..Len(Rows)
    <3>1. /\ Rest \in Seq(Nat) /\ Len(Rest) = Len(buffer) - Len(Old)
          /\ \A i \in 1..Len(Rest) : Rest[i] = Len(out) + Len(Old) + i
          /\ Len(out) \in Nat /\ Len(Rows) \in Nat /\ pos \in 0..Len(Rows)
          /\ Len(buffer) \in Nat /\ Len(Rest) \in Nat /\ Len(Old) \in Nat
      BY <1>1, Lengths
    <3>2. /\ Len(Chunk) = Len(Old) + New /\ New \in Nat /\ pos + New <= Len(Rows)
          /\ pos + New = Len(out) + Len(Chunk) + Len(Rest)
          /\ Len(Rest) > 0 => New = 0
      BY <1>1, ChunkIs
    <3>3. Len(buffer) > 0 => pos = taken
      BY <1>1 DEF IInv, OrderInv
    <3> DEFINE a == Len(out)
               b == Len(buffer)
               c == Len(Chunk)
               o == Len(Old)
               r == Len(Rest)
    <3>4. buffer' = Rest /\ pos' = pos + New /\ Len(out') = a + c
      BY <1>5, <2>2
    <3> HIDE DEF a, b, c, o, r
    <3>5. a \in Nat /\ b \in Nat /\ c \in Nat /\ o \in Nat /\ r \in Nat /\ r = b - o /\ c = o + New
          /\ pos + New = a + c + r /\ (r > 0 => New = 0) /\ (b > 0 => pos = taken)
      BY <3>1, <3>2, <3>3 DEF a, b, c, o, r
    <3>6. r > 0 => /\ b > 0 /\ c = o /\ pos + New = pos
      BY <3>1, <3>2, <3>5
    <3>7. pos + New \in 0..Len(Rows)
      BY <3>1, <3>2
    <3>8. \A i \in 1..Len(Rest) : Rest[i] = (a + c) + i
      <4> TAKE i \in 1..Len(Rest)
      <4>1. r > 0 /\ i \in Nat
        BY <3>5 DEF r
      <4>2. Rest[i] = a + o + i
        BY <3>1 DEF a, o
      <4> QED BY <3>5, <3>6, <4>1, <4>2
    <3>9. /\ buffer' \in Seq(Nat) /\ Len(buffer') = r
          /\ \A i \in 1..Len(buffer') : buffer'[i] = Len(out') + i
      BY <3>1, <3>4, <3>8 DEF r
    <3> QED BY <3>4, <3>5, <3>6, <3>7, <3>9
  <2>4. TypeOK'
    <3>1. DOMAIN out' = 1..Len(out') /\ DOMAIN buffer' = 1..Len(buffer')
      BY <2>2, <2>3
    <3>2. \A i \in 1..Len(buffer') : buffer'[i] \in 1..taken
      <4> TAKE i \in 1..Len(buffer')
      <4>1. Len(buffer') \in Nat /\ Len(out') \in Nat /\ i > 0 /\ i <= Len(buffer')
        BY <2>2, <2>3
      <4>2. taken = Len(out') + Len(buffer') /\ buffer'[i] = Len(out') + i
        BY <2>3, <4>1
      <4> QED BY <4>1, <4>2
    <3>3. \A i \in DOMAIN out' : out'[i].row \in 1..Len(Rows)
      BY <2>2, <3>1
    <3> QED BY <1>1, <1>5, <2>1, <2>3, <3>1, <3>2, <3>3 DEF IInv, TypeOK
  <2>5. SampleInv'
    BY <1>1, <2>1 DEF IInv, SampleInv
  <2>6. OrderInv'
    BY <1>1, <2>1, <2>2, <2>3 DEF OrderInv
  <2>7. ColumnInv'
    BY <1>1, <2>1 DEF IInv, ColumnInv
  <2>8. CauseInv'
    BY <1>1, <1>5 DEF IInv, CauseInv
  <2> QED BY <2>4, <2>5, <2>6, <2>7, <2>8 DEF IInv
<1> QED BY <1>2, <1>3, <1>4, <1>5, NextBatchCases

\* The invariant is one.
LEMMA Induction == Spec => []IInv
<1>1. IInv /\ [Next]_vars => IInv'
  <2> SUFFICES ASSUME IInv, [Next]_vars PROVE IInv'
    OBVIOUS
  <2>1. CASE Advance
    BY <2>1, ProbeCrsInv, SampleRowInv, InferInv, NextBatchInv DEF Advance
  <2>2. CASE IoFails
    BY <2>2, FailSteps DEF IoFails
  <2>3. CASE Cancel
    <3>1. cause = "none"
      BY <2>3 DEF Cancel, IInv, TypeOK
    <3> QED BY <2>3, <3>1, OutcomeSteps DEF Cancel
  <2>4. CASE UNCHANGED vars
    <3>1. /\ outcome \in {"open", "end", "err", "cancelled"}
          /\ cause \in {"none", "crs", "syntax", "geometry", "type", "io"}
          /\ (outcome = "err" <=> cause # "none") /\ (cause = "type" => job.format = "query")
      BY DEF IInv, TypeOK, CauseInv
    <3> QED BY <2>4, <3>1, OutcomeSteps DEF vars
  <2> QED BY <2>1, <2>2, <2>3, <2>4 DEF Next, Terminated
<1> QED BY <1>1, InitInv, PTL DEF Spec

\* The type invariant of the sampling readers.
THEOREM TypeCorrect == Spec => []TypeOK
<1>1. IInv => TypeOK
  BY DEF IInv
<1> QED BY <1>1, Induction, PTL

\* No value the sample saw is lost to the schema made from it, and no row the
\* sample did not see fails that schema, but in --query mode.
THEOREM SampleKept == Spec => []SampleDecides
<1>1. ASSUME IInv PROVE SampleIsExact
  <2> SUFFICES ASSUME NEW i \in DOMAIN out, out[i].row <= taken,
                      Rows[out[i].row].cell \notin {"absent", "null"}
               PROVE  out[i].cell \in {"same", "converted"}
    BY DEF SampleIsExact
  <2>1. i \in 1..Len(out) /\ phase = "stream"
    BY SMTT(20), <1>1 DEF IInv, OrderInv, TypeOK
  <2>2. out[i].row = i /\ out[i].cell = Cell(i)
    BY <1>1, <2>1 DEF IInv, OrderInv
  <2>3. i \in 1..taken /\ HasValue(i)
    BY <1>1, <2>1, <2>2, JobIs DEF HasValue, IInv, SampleInv, TypeOK
  <2> QED BY <1>1, <2>1, <2>2, <2>3 DEF IInv, ColumnInv
<1>2. IInv => SchemaFits
  BY DEF IInv, ColumnInv, CauseInv, SchemaFits
<1> QED BY <1>1, <1>2, Induction, PTL DEF SampleDecides

----------------------------------------------------------------------------
(* LayerStream. *)

\* The numbers of the rows the caller was given: 1, 2, ...
Numbered == [i \in 1..Len(out) |-> out[i].row]

\* The rows delivered, as LayerStream counts them: the first Len(out).
LEMMA NumberedIs ==
    ASSUME IInv
    PROVE  Len(out) \in Nat /\ Numbered = LS!RowsAfter(0, Len(out)) /\ Len(Numbered) = Len(out)
<1>1. Len(out) \in Nat /\ \A i \in 1..Len(out) : out[i].row = i
  BY SMTT(20) DEF IInv, OrderInv
<1>2. Numbered = [i \in 1..Len(out) |-> i]
  BY <1>1 DEF Numbered
<1>3. [i \in 1..Len(out) |-> i] \in Seq(Nat) /\ Len([i \in 1..Len(out) |-> i]) = Len(out)
  BY <1>1
<1>4. LS!RowsAfter(0, Len(out)) = [i \in 1..Len(out) |-> i]
  BY <1>1 DEF LS!RowsAfter
<1> QED BY <1>1, <1>2, <1>3, <1>4

\* Rows in order, appended to rows in order.
LEMMA RowsConcat ==
    ASSUME NEW a \in Nat, NEW n \in Nat
    PROVE  LS!RowsAfter(0, a + n) = LS!RowsAfter(0, a) \o LS!RowsAfter(a, n)
<1> DEFINE A == LS!RowsAfter(0, a)
           B == LS!RowsAfter(a, n)
           D == LS!RowsAfter(0, a + n)
<1>1. /\ A \in Seq(Nat) /\ Len(A) = a /\ \A i \in 1..a : A[i] = i
  <2>1. \A i \in 1..a : 0 + i = i /\ i \in Nat
    OBVIOUS
  <2> QED BY <2>1 DEF LS!RowsAfter
<1>2. /\ B \in Seq(Nat) /\ Len(B) = n /\ \A i \in 1..n : B[i] = a + i
  <2>1. \A i \in 1..n : a + i \in Nat
    OBVIOUS
  <2> QED BY <2>1 DEF LS!RowsAfter
<1>3. D = [i \in 1..(a + n) |-> i]
  <2>1. \A i \in 1..(a + n) : 0 + i = i
    OBVIOUS
  <2> QED BY <2>1 DEF LS!RowsAfter
<1> HIDE DEF A, B, D
<1> DEFINE C == A \o B
<1>4. /\ C \in Seq(Nat) /\ Len(C) = a + n
      /\ \A i \in 1..a : C[i] = A[i]
      /\ \A i \in 1..n : C[a + i] = B[i]
  <2>1. A \in Seq(Nat) /\ B \in Seq(Nat) /\ a = Len(A) /\ n = Len(B)
    BY <1>1, <1>2
  <2> QED BY <2>1, JoinIs
<1> HIDE DEF C
<1>5. \A k \in 1..(a + n) : C[k] = k
  <2> TAKE k \in 1..(a + n)
  <2>1. CASE k <= a
    BY <1>1, <1>4, <2>1
  <2>2. CASE ~(k <= a)
    <3> DEFINE i == k - a
    <3>1. i \in 1..n /\ a + i = k
      BY <2>2
    <3> HIDE DEF i
    <3> QED BY <1>2, <1>4, <3>1
  <2> QED BY <2>1, <2>2
<1>6. C = [i \in 1..(a + n) |-> i]
  BY <1>4, <1>5
<1> QED BY <1>3, <1>6 DEF A, B, C, D

\* A step that says how the iteration ended, and no more.
LEMMA OutcomeMaps ==
    ASSUME UNCHANGED <<job, out>>
    PROVE  UNCHANGED <<Len(Rows), Numbered>>
BY DEF Rows, Numbered

\* A call of next() maps to a batch, to the end or to an error.
LEMMA NextBatchMaps ==
    ASSUME IInv, IInv', NextBatch
    PROVE  LS!Next
<1>1. phase = "stream" /\ outcome = "open" /\ UNCHANGED <<job, phase, taken, met, column, geom>>
  BY NextBatchCases
<1>2. CASE Fail("syntax") \/ Fail("geometry") \/ Fail("type")
  <2>1. outcome' = "err" /\ out' = out
    BY <1>2, NextBatchCases DEF Fail
  <2> QED BY <1>1, <2>1, OutcomeMaps DEF LS!Next, LS!Fail, Numbered
<1>3. CASE Chunk = <<>> /\ outcome' = "end" /\ UNCHANGED <<buffer, pos, out, cause>>
  <2>1. Len(Chunk) = 0 /\ Len(out) + Len(Chunk) = Len(Rows)
    BY <1>1, <1>3, ChunkIs, SampledReaderAssumption
  <2>2. Len(Numbered) = Len(Rows)
    BY <2>1, NumberedIs
  <2> QED BY <1>1, <1>3, <2>2, OutcomeMaps DEF LS!Next, LS!End, Numbered
<1>4. CASE /\ Chunk # <<>>
           /\ out' = out \o Given /\ buffer' = Rest /\ pos' = pos + New
           /\ UNCHANGED <<outcome, cause>>
  <2> DEFINE a == Len(out)
             n == Len(Chunk)
  <2>1. /\ a \in Nat /\ Len(out') = a + n /\ Chunk \in Seq(Nat) /\ n \in Nat
        /\ n <= BatchSize /\ (n = BatchSize \/ a + n = Len(Rows))
    BY <1>1, <1>4, GivenIs, ChunkIs, NumberedIs
  <2>2. n \in 1..BatchSize
    <3>1. n # 0
      BY <1>4, <2>1
    <3> HIDE DEF n
    <3> QED BY <2>1, <3>1, SampledReaderAssumption
  <2>3. a + n <= Len(Rows)
    <3>1. Len(Rest) \in Nat /\ Len(Rows) \in Nat
      BY <1>1, Lengths
    <3>2. pos + New = a + n + Len(Rest) /\ pos + New <= Len(Rows)
      BY <1>1, ChunkIs
    <3> HIDE DEF a, n
    <3> QED BY <2>1, <3>1, <3>2
  <2>4. Numbered' = Numbered \o LS!RowsAfter(a, n)
    <3>1. Numbered = LS!RowsAfter(0, a)
      BY NumberedIs
    <3>2. Numbered' = LS!RowsAfter(0, a + n)
      <4>1. Len(out') \in Nat /\ \A i \in 1..Len(out') : out'[i].row = i
        BY DEF IInv, OrderInv
      <4>2. Numbered' = [i \in 1..(a + n) |-> i]
        BY <2>1, <4>1 DEF Numbered
      <4>3. \A i \in 1..(a + n) : 0 + i = i
        BY <2>1
      <4> QED BY <4>2, <4>3 DEF LS!RowsAfter
    <3> HIDE DEF a, n
    <3> QED BY <2>1, <3>1, <3>2, RowsConcat
  <2>5. Len(Numbered) = a
    BY NumberedIs
  <2>6. UNCHANGED <<Len(Rows), outcome>>
    BY <1>1, <1>4 DEF Rows
  <2>7. LS!Yield
    BY <1>1, <2>1, <2>2, <2>3, <2>4, <2>5, <2>6 DEF LS!Yield, Numbered
  <2> QED BY <2>7 DEF LS!Next
<1> QED BY <1>2, <1>3, <1>4, NextBatchCases

\* Every sampling reader is a LayerStream: the rows come out once each, in
\* order and in full batches, also across the border between the sample and
\* the stream, and the end is said only of a layer whose rows all came out.
THEOREM InOrder == Spec => LS!Init /\ [][LS!Next]_(LS!vars)
<1>1. Init => LS!Init
  <2> SUFFICES ASSUME Init PROVE LS!Init
    OBVIOUS
  <2>1. out = <<>> /\ outcome = "open" /\ Len(Rows) \in Nat /\ Len(out) = 0
    BY JobIs DEF Init
  <2>2. [i \in 1..Len(out) |-> out[i].row] = <<>>
    BY <2>1
  <2> QED BY <2>1, <2>2 DEF LS!Init
<1>2. IInv /\ IInv' /\ [Next]_vars => [LS!Next]_(LS!vars)
  <2> SUFFICES ASSUME IInv, IInv', [Next]_vars PROVE [LS!Next]_(LS!vars)
    OBVIOUS
  <2>1. CASE ProbeCrs \/ SampleRow \/ Infer
    <3>1. outcome = "open" /\ UNCHANGED <<job, out>> /\ (outcome' = outcome \/ outcome' = "err")
      BY <2>1 DEF ProbeCrs, SampleRow, Infer, Fail, Feature
    <3>2. UNCHANGED <<Len(Rows), Numbered>>
      BY <3>1, OutcomeMaps
    <3> QED BY <3>1, <3>2 DEF LS!vars, LS!Next, LS!Fail, Numbered
  <2>2. CASE NextBatch
    BY <2>2, NextBatchMaps
  <2>3. CASE IoFails
    <3>1. outcome = "open" /\ UNCHANGED <<job, out>> /\ outcome' = "err"
      BY <2>3 DEF IoFails, Fail
    <3> QED BY <3>1, OutcomeMaps DEF LS!Next, LS!Fail, Numbered
  <2>4. CASE Cancel
    <3>1. outcome = "open" /\ UNCHANGED <<job, out>> /\ outcome' = "cancelled"
      BY <2>4 DEF Cancel
    <3> QED BY <3>1, OutcomeMaps DEF LS!Next, LS!Cancel, Numbered
  <2>5. CASE UNCHANGED vars
    BY <2>5, OutcomeMaps DEF vars, LS!vars, Numbered
  <2> QED BY <2>1, <2>2, <2>3, <2>4, <2>5 DEF Next, Advance, Terminated
<1> QED BY <1>1, <1>2, Induction, PTL DEF Spec
=============================================================================
