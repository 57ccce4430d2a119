-------------------------- MODULE RowidPager_proofs --------------------------
(***************************************************************************)
(* What RowidPager promises for every table, every batch size and any      *)
(* number of writes of other connections, proved with TLAPS.               *)
(*                                                                         *)
(* A page is cut out of a table by counting: row r is the Rank(T, r)-th of *)
(* T.  The lemmas say that counting a finite set of rowids numbers them    *)
(* without a gap, and so what a page of a table, and the batch made of it, *)
(* hold.                                                                   *)
(***************************************************************************)
EXTENDS RowidPager, FunctionTheorems, FiniteSetTheorems, TLAPS

----------------------------------------------------------------------------
(* Sequences that are joined. *)

\* What stands where when one sequence follows another.
LEMMA JoinIs ==
    ASSUME NEW S, NEW A \in Seq(S), NEW B \in Seq(S),
           NEW a, a = Len(A), NEW b, b = Len(B)
    PROVE  /\ A \o B \in Seq(S) /\ Len(A \o B) = a + b
           /\ \A i \in 1..a : (A \o B)[i] = A[i]
           /\ \A i \in 1..b : (A \o B)[a + i] = B[i]
<1>1. A \o B \in Seq(S) /\ Len(A \o B) = a + b
  OBVIOUS
<1>2. \A i \in 1..a : (A \o B)[i] = A[i]
  OBVIOUS
<1>3. \A i \in 1..b : (A \o B)[a + i] = B[i]
  OBVIOUS
<1> QED BY <1>1, <1>2, <1>3

----------------------------------------------------------------------------
(* Pages. *)

Rank(T, r) == Cardinality({s \in T : s <= r})

\* The rows of T from the (lo + 1)-th to the hi-th.
Slice(T, lo, hi) == {r \in T : lo < Rank(T, r) /\ Rank(T, r) <= hi}

Rowids(T) == T \subseteq Int /\ IsFiniteSet(T)

----------------------------------------------------------------------------
(* Counting a finite set of rowids. *)

\* A row is counted somewhere from 1 on.
LEMMA RankType ==
    ASSUME NEW T, Rowids(T), NEW r \in T
    PROVE  Rank(T, r) \in 1..Cardinality(T) /\ Cardinality(T) \in Nat
<1> DEFINE A == {s \in T : s <= r}
<1>1. /\ IsFiniteSet(A) /\ Cardinality(A) <= Cardinality(T)
      /\ Cardinality(A) \in Nat /\ Cardinality(T) \in Nat
  BY FS_Subset, FS_CardinalityType DEF Rowids
<1>2. Cardinality(A) # 0
  <2>1. r \in A
    BY DEF Rowids
  <2> QED BY <1>1, <2>1, FS_EmptySet
<1> QED BY <1>1, <1>2 DEF Rank

\* The larger rowid is counted later.
LEMMA RankRises ==
    ASSUME NEW T, Rowids(T), NEW r \in T, NEW t \in T
    PROVE  r < t <=> Rank(T, r) < Rank(T, t)
<1>1. ASSUME NEW a \in T, NEW b \in T, a < b PROVE Rank(T, a) < Rank(T, b)
  <2> DEFINE A == {s \in T : s <= a}
             B == {s \in T : s <= b}
  <2>0. a \in Int /\ b \in Int /\ \A s \in T : s \in Int
    BY DEF Rowids
  <2>1. \A s \in T : s <= a => s <= b
    BY <1>1, <2>0
  <2>2. b <= b /\ ~(b <= a)
    BY <1>1, <2>0
  <2>3. A \in SUBSET B /\ b \in B /\ b \notin A
    BY <2>1, <2>2
  <2>4. IsFiniteSet(B)
    BY FS_Subset DEF Rowids
  <2>5. Cardinality(A) <= Cardinality(B) /\ Cardinality(A) # Cardinality(B)
    BY <2>3, <2>4, FS_Subset
  <2>6. Cardinality(A) \in Nat /\ Cardinality(B) \in Nat
    BY <2>3, <2>4, FS_Subset, FS_CardinalityType
  <2> QED BY <2>5, <2>6 DEF Rank
<1>2. Rank(T, r) \in Nat /\ Rank(T, t) \in Nat /\ r \in Int /\ t \in Int
  <2>1. \A q \in T : Rank(T, q) \in 1..Cardinality(T) /\ Cardinality(T) \in Nat
    BY RankType
  <2>2. r \in Int /\ t \in Int
    BY DEF Rowids
  <2> QED BY <2>1, <2>2
<1>3. CASE r < t
  BY <1>1, <1>3
<1>4. CASE t < r
  <2>1. Rank(T, t) < Rank(T, r)
    BY <1>1, <1>4
  <2> QED BY <1>2, <1>4, <2>1
<1>5. CASE r = t
  BY <1>2, <1>5
<1> QED BY <1>2, <1>3, <1>4, <1>5

\* Every number up to the size of T counts a row.
LEMMA RankOnto ==
    ASSUME NEW T, Rowids(T), NEW i \in 1..Cardinality(T)
    PROVE  \E r \in T : Rank(T, r) = i
<1> DEFINE N == 1..Cardinality(T)
           f == [r \in T |-> Rank(T, r)]
<1>1. f \in [T -> N]
  BY RankType
<1>2. \A a, b \in T : f[a] = f[b] => a = b
  <2> SUFFICES ASSUME NEW a \in T, NEW b \in T, Rank(T, a) = Rank(T, b) PROVE a = b
    OBVIOUS
  <2>1. ~(a < b) /\ ~(b < a)
    BY RankRises, RankType
  <2> QED BY <2>1 DEF Rowids
<1>3. f \in Injection(T, N)
  BY <1>1, <1>2, Fun_IsInj
<1>4. Cardinality(T) \in Nat
  BY FS_CardinalityType DEF Rowids
<1>5. IsFiniteSet(N) /\ Cardinality(N) = Cardinality(T)
  BY <1>4, FS_Interval
<1>6. f \in Surjection(T, N)
  BY <1>3, <1>5, FS_Injection
<1>7. \A t \in N : \E s \in T : f[s] = t
  <2> HIDE DEF f, N
  <2> QED BY <1>6, Fun_SurjectionProperties
<1> QED BY <1>7

\* How many rows a slice has, and how they are counted inside it.
LEMMA SliceIs ==
    ASSUME NEW T, Rowids(T), NEW lo \in Nat, NEW hi \in Nat,
           lo <= hi, hi <= Cardinality(T)
    PROVE  Rowids(Slice(T, lo, hi)) /\ Cardinality(Slice(T, lo, hi)) = hi - lo
<1> DEFINE Q == Slice(T, lo, hi)
           N == (lo + 1)..hi
           f == [r \in Q |-> Rank(T, r)]
<1>1. Q \in SUBSET T /\ Rowids(Q)
  BY FS_Subset DEF Slice, Rowids
<1>2. f \in [Q -> N]
  BY RankType DEF Slice
<1>3. \A a, b \in Q : f[a] = f[b] => a = b
  <2> SUFFICES ASSUME NEW a \in Q, NEW b \in Q, Rank(T, a) = Rank(T, b) PROVE a = b
    OBVIOUS
  <2>1. ~(a < b) /\ ~(b < a)
    BY <1>1, RankRises, RankType
  <2> QED BY <1>1, <2>1 DEF Rowids
<1>4. \A t \in N : \E s \in Q : f[s] = t
  <2> TAKE t \in N
  <2>1. t \in 1..Cardinality(T)
    BY FS_CardinalityType DEF Rowids
  <2>2. PICK s \in T : Rank(T, s) = t
    BY <2>1, RankOnto
  <2>3. s \in Q
    BY <2>2 DEF Slice
  <2> QED BY <2>2, <2>3
<1>5. f \in Bijection(Q, N)
  <2>1. f \in Injection(Q, N) /\ f \in Surjection(Q, N)
    BY <1>2, <1>3, <1>4, Fun_IsInj, Fun_IsSurj
  <2> QED BY <2>1, Fun_IsBij
<1>6. Cardinality(N) = Cardinality(Q)
  BY <1>1, <1>5, FS_Bijection DEF Rowids, ExistsBijection
<1>7. Cardinality(N) = hi - lo
  <2>1. lo + 1 \in Int /\ hi \in Int
    OBVIOUS
  <2>2. Cardinality(N) = IF lo + 1 > hi THEN 0 ELSE hi - (lo + 1) + 1
    BY <2>1, FS_Interval
  <2> QED BY <2>2
<1> QED BY <1>1, <1>6, <1>7

\* A row of a slice is counted lo earlier inside it.
LEMMA SliceRank ==
    ASSUME NEW T, Rowids(T), NEW lo \in Nat, NEW hi \in Nat,
           lo <= hi, hi <= Cardinality(T), NEW r \in Slice(T, lo, hi)
    PROVE  Rank(T, r) = lo + Rank(Slice(T, lo, hi), r)
<1>1. r \in T /\ Rank(T, r) \in Nat /\ lo <= Rank(T, r) /\ Rank(T, r) <= hi
      /\ Rank(T, r) <= Cardinality(T) /\ Cardinality(T) \in Nat
  BY RankType DEF Slice
<1>2. {s \in Slice(T, lo, hi) : s <= r} = Slice(T, lo, Rank(T, r))
  <2>1. \A s \in T : s <= r <=> Rank(T, s) <= Rank(T, r)
    <3> TAKE s \in T
    <3>1. r < s <=> Rank(T, r) < Rank(T, s)
      BY <1>1, RankRises
    <3>2. r \in Int /\ s \in Int
      BY <1>1 DEF Rowids
    <3>3. Rank(T, s) \in Nat
      BY RankType
    <3> QED BY <1>1, <3>1, <3>2, <3>3
  <2>2. \A s \in T : Rank(T, s) \in Nat
    BY RankType
  <2> QED BY <1>1, <2>1, <2>2 DEF Slice
<1>3. Cardinality(Slice(T, lo, Rank(T, r))) = Rank(T, r) - lo
  BY <1>1, SliceIs
<1>4. Rank(Slice(T, lo, hi), r) = Rank(T, r) - lo
  BY <1>2, <1>3 DEF Rank
<1> QED BY <1>1, <1>4

\* What After cuts out of T.
LEMMA AfterIs ==
    ASSUME NEW T, Rowids(T), NEW a \in Nat, NEW n \in Nat \ {0}, a <= Cardinality(T)
    PROVE  /\ After(T, a, n) \subseteq T /\ Rowids(After(T, a, n))
           /\ Cardinality(After(T, a, n)) =
                 IF a + n <= Cardinality(T) THEN n ELSE Cardinality(T) - a
           /\ \A r \in T : r \in After(T, a, n) <=> a < Rank(T, r) /\ Rank(T, r) <= a + n
           /\ \A r \in After(T, a, n) : Rank(T, r) = a + Rank(After(T, a, n), r)
<1> DEFINE hi == IF a + n <= Cardinality(T) THEN a + n ELSE Cardinality(T)
<1>1. Cardinality(T) \in Nat
  BY FS_CardinalityType DEF Rowids
<1>2. \A r \in T : r \in After(T, a, n) <=> a < Rank(T, r) /\ Rank(T, r) <= a + n
  BY DEF After, Rank
<1>3. \A r \in T : Rank(T, r) \in Nat /\ Rank(T, r) <= Cardinality(T)
  BY RankType
<1>4. After(T, a, n) = Slice(T, a, hi)
  BY <1>1, <1>3 DEF After, Slice, Rank
<1>5. hi \in Nat /\ a <= hi /\ hi <= Cardinality(T)
  BY <1>1
<1>6. hi - a = IF a + n <= Cardinality(T) THEN n ELSE Cardinality(T) - a
  BY <1>1
<1> HIDE DEF hi
<1>7. Rowids(After(T, a, n)) /\ Cardinality(After(T, a, n)) = hi - a
  BY <1>4, <1>5, SliceIs
<1>8. \A r \in After(T, a, n) : Rank(T, r) = a + Rank(After(T, a, n), r)
  BY <1>4, <1>5, SliceRank
<1>9. After(T, a, n) \subseteq T
  BY DEF After
<1> QED BY <1>2, <1>6, <1>7, <1>8, <1>9

\* Ascending lists a set of rowids by their rank.
LEMMA AscendingIs ==
    ASSUME NEW P, Rowids(P)
    PROVE  /\ Ascending(P) \in Seq(P) /\ Len(Ascending(P)) = Cardinality(P)
           /\ \A i \in 1..Cardinality(P) :
                 Ascending(P)[i] \in P /\ Rank(P, Ascending(P)[i]) = i
           /\ \A r \in P : \E i \in 1..Cardinality(P) : Ascending(P)[i] = r
<1>1. Cardinality(P) \in Nat
  BY FS_CardinalityType DEF Rowids
<1> DEFINE th(i) == CHOOSE r \in P : Cardinality({s \in P : s <= r}) = i
<1>2. ASSUME NEW i \in 1..Cardinality(P)
      PROVE  th(i) \in P /\ Rank(P, th(i)) = i
  <2>1. \E r \in P : Cardinality({s \in P : s <= r}) = i
    BY RankOnto DEF Rank
  <2> QED BY <2>1 DEF Rank
<1>3. Ascending(P) = [i \in 1..Cardinality(P) |-> th(i)]
  BY DEF Ascending
<1> HIDE DEF th
<1>4. Ascending(P) \in [1..Cardinality(P) -> P]
  BY <1>2, <1>3
<1>5. \A i \in 1..Cardinality(P) :
         Ascending(P)[i] \in P /\ Rank(P, Ascending(P)[i]) = i
  BY <1>2, <1>3
<1>6. Ascending(P) \in Seq(P) /\ Len(Ascending(P)) = Cardinality(P)
  BY <1>1, <1>4
<1>7. ASSUME NEW r \in P
      PROVE  \E i \in 1..Cardinality(P) : Ascending(P)[i] = r
  <2>1. Rank(P, r) \in 1..Cardinality(P)
    BY RankType
  <2> DEFINE t == Ascending(P)[Rank(P, r)]
  <2>2. t \in P /\ Rank(P, t) = Rank(P, r)
    BY <1>5, <2>1
  <2>3. ~(t < r) /\ ~(r < t)
    BY <2>1, <2>2, RankRises
  <2>4. t \in Int /\ r \in Int
    BY <2>2 DEF Rowids
  <2>5. t = r
    BY <2>3, <2>4
  <2> QED BY <2>1, <2>5
<1> QED BY <1>5, <1>6, <1>7

\* Last is the row with the largest rowid.
LEMMA LastIs ==
    ASSUME NEW P, Rowids(P), P # {}
    PROVE  Last(P) \in P /\ \A s \in P : s <= Last(P)
<1>1. Cardinality(P) \in Nat /\ Cardinality(P) # 0
  BY FS_CardinalityType, FS_EmptySet DEF Rowids
<1>2. Cardinality(P) \in 1..Cardinality(P)
  BY <1>1
<1>3. PICK r \in P : Rank(P, r) = Cardinality(P)
  BY <1>2, RankOnto
<1>4. ASSUME NEW s \in P PROVE s <= r
  <2>1. ~(Rank(P, r) < Rank(P, s))
    BY <1>1, <1>3, RankType
  <2>2. ~(r < s)
    BY <2>1, RankRises
  <2> QED BY <2>2 DEF Rowids
<1>5. \E q \in P : \A s \in P : s <= q
  BY <1>4
<1> QED BY <1>5 DEF Last

----------------------------------------------------------------------------
(* The inductive invariant of a keyset scan, whatever others write. *)

Saw(r) == \E i \in 1..Len(seen) : seen[i] = r

\* The scan has passed the rows up to the cursor and returned those of them
\* that were there all the time; past a short page there are no others.
KeysetInv == mode = "keyset" =>
    /\ \A i \in 1..Len(seen) : seen[i] <= cursor
    /\ \A i \in 1..Len(seen) - 1 : seen[i] < seen[i + 1]
    /\ outcome # "err" => \A r \in kept : 0 < r /\ r <= cursor => Saw(r)
    /\ outcome # "err" /\ done => \A r \in kept : 0 < r => Saw(r)
    /\ outcome = "end" => done

IInv == TypeOK /\ KeysetInv

\* The rows a keyset scan has yet to pass.
Ahead == {r \in tbl : r > cursor}

\* What the next SELECT of a keyset scan returns: the first rows ahead, and
\* all of them if there are fewer than BatchSize.
LEMMA KeysetPage ==
    ASSUME TypeOK, mode = "keyset"
    PROVE  /\ Rowids(Ahead) /\ Rowids(Page) /\ Page \subseteq Ahead
           /\ \A s \in Page, r \in Ahead : r <= s => r \in Page
           /\ Cardinality(Page) < BatchSize => Page = Ahead
           /\ Page = {} => Ahead = {}
<1>1. /\ Rowids(Ahead) /\ BatchSize \in Nat \ {0}
  BY RowidPagerAssumption, FS_Subset DEF TypeOK, Rowids, Ahead
<1>2. Page = After(Ahead, 0, BatchSize)
  BY DEF Page, Ahead
<1>3. Cardinality(Ahead) \in Nat
  BY <1>1, FS_CardinalityType DEF Rowids
<1>4. /\ Page \subseteq Ahead /\ Rowids(Page)
      /\ Cardinality(Page) = IF 0 + BatchSize <= Cardinality(Ahead)
                             THEN BatchSize ELSE Cardinality(Ahead) - 0
      /\ \A r \in Ahead : r \in Page <=> 0 < Rank(Ahead, r) /\ Rank(Ahead, r) <= 0 + BatchSize
  BY <1>1, <1>2, <1>3, AfterIs
<1>5. \A r \in Ahead : Rank(Ahead, r) \in Nat /\ 0 < Rank(Ahead, r)
                       /\ Rank(Ahead, r) <= Cardinality(Ahead)
  BY <1>1, RankType
<1>6. ASSUME NEW s \in Page, NEW r \in Ahead, r <= s PROVE r \in Page
  <2>1. s \in Ahead /\ s \in Int /\ r \in Int
    BY <1>1, <1>4 DEF Rowids
  <2>2. ~(s < r)
    BY <1>6, <2>1
  <2>3. ~(Rank(Ahead, s) < Rank(Ahead, r))
    BY <1>1, <2>1, <2>2, RankRises
  <2> QED BY <1>1, <1>4, <1>5, <2>1, <2>3
<1>7. Cardinality(Page) < BatchSize => Page = Ahead
  <2> SUFFICES ASSUME Cardinality(Page) < BatchSize, NEW r \in Ahead PROVE r \in Page
    BY <1>4
  <2>1. Cardinality(Ahead) < BatchSize
    BY <1>1, <1>3, <1>4
  <2> QED BY <1>1, <1>3, <1>4, <1>5, <2>1
<1>8. Page = {} => Ahead = {}
  <2> SUFFICES ASSUME Page = {} PROVE Page = Ahead
    OBVIOUS
  <2>1. Cardinality(Page) = 0
    BY FS_EmptySet
  <2> QED BY <1>1, <1>7, <2>1
<1> QED BY <1>1, <1>4, <1>6, <1>7, <1>8

\* A page is a finite set of rows of the table, in either mode.
LEMMA PageType ==
    ASSUME TypeOK
    PROVE  Page \subseteq tbl /\ Rowids(Page) /\ Cardinality(Page) \in Nat
<1>1. Page \subseteq tbl
  BY DEF Page, After
<1>2. Rowids(tbl)
  BY RowidPagerAssumption, FS_Subset DEF TypeOK, Rowids
<1> QED BY <1>1, <1>2, FS_Subset, FS_CardinalityType DEF Rowids

\* Rowids and cursors are integers.
LEMMA SeenType ==
    ASSUME TypeOK
    PROVE  /\ Len(seen) \in Nat /\ cursor \in Int
           /\ \A i \in 1..Len(seen) : seen[i] \in Keys /\ seen[i] \in Int
<1>1. Len(seen) \in Nat /\ \A i \in 1..Len(seen) : seen[i] \in Keys
  <2>1. seen \in Seq(Keys)
    BY DEF TypeOK
  <2> QED BY <2>1
<1>2. Keys \subseteq Int
  BY RowidPagerAssumption
<1>3. cursor \in Int
  BY <1>2 DEF TypeOK
<1> QED BY <1>1, <1>2, <1>3

\* A batch is what the page holds, in rowid order.
LEMMA BatchIs ==
    ASSUME TypeOK, seen' = seen \o Ascending(Page)
    PROVE  /\ seen' \in Seq(Keys) /\ Len(seen) \in Nat
           /\ Len(seen') = Len(seen) + Cardinality(Page)
           /\ \A i \in 1..Len(seen) : seen'[i] = seen[i]
           /\ \A i \in 1..Cardinality(Page) :
                 seen'[Len(seen) + i] = Ascending(Page)[i]
<1>1. Page \subseteq Keys /\ Rowids(Page) /\ Cardinality(Page) \in Nat
  BY PageType DEF TypeOK
<1>2. Ascending(Page) \in Seq(Page) /\ Len(Ascending(Page)) = Cardinality(Page)
  BY <1>1, AscendingIs
<1>3. seen \in Seq(Keys) /\ Ascending(Page) \in Seq(Keys)
  BY <1>1, <1>2 DEF TypeOK
<1> QED BY <1>1, <1>2, <1>3

\* The steps that return a batch, or lose one, keep the type of the cursor.
LEMMA CursorType ==
    ASSUME TypeOK, Page # {}, UNCHANGED mode,
           cursor' = IF mode = "keyset" THEN Last(Page) ELSE cursor + Cardinality(Page)
    PROVE  cursor' \in IF mode' = "keyset" THEN Keys \cup {0} ELSE Nat
<1>1. Page \subseteq Keys /\ Rowids(Page) /\ Cardinality(Page) \in Nat
  BY PageType DEF TypeOK
<1>2. Last(Page) \in Keys
  BY <1>1, LastIs
<1> QED BY <1>1, <1>2 DEF TypeOK

\* Every step keeps the type invariant.
LEMMA StepType ==
    ASSUME TypeOK, [Next]_vars
    PROVE  TypeOK'
<1>1. CASE UNCHANGED vars
  BY <1>1 DEF TypeOK, vars
<1>2. CASE Yield
  BY <1>2, CursorType, BatchIs DEF TypeOK, Yield
<1>3. CASE Exhausted \/ SelectFails
  BY <1>3 DEF TypeOK, Exhausted, SelectFails
<1>4. CASE Unconvertible
  BY <1>4, CursorType DEF TypeOK, Unconvertible
<1>5. CASE InsertRow \/ DeleteRow
  <2>1. writes' \in 0..MaxWrites
    BY <1>5, RowidPagerAssumption DEF TypeOK, InsertRow, DeleteRow
  <2> QED BY <1>5, <2>1 DEF TypeOK, InsertRow, DeleteRow
<1> QED BY <1>1, <1>2, <1>3, <1>4, <1>5 DEF Next, Reader, Terminated

\* A batch moves the scan forward and leaves no row behind.
LEMMA YieldKeeps ==
    ASSUME IInv, Yield
    PROVE  KeysetInv'
<1> SUFFICES ASSUME mode = "keyset" PROVE KeysetInv'
  BY DEF KeysetInv, Yield
<1> DEFINE A == Ascending(Page)
           n == Cardinality(Page)
<1>1. /\ TypeOK /\ outcome = "open" /\ ~done /\ Page # {}
      /\ seen' = seen \o A /\ cursor' = Last(Page) /\ done' = (n < BatchSize)
      /\ UNCHANGED <<mode, tbl, outcome, kept>>
      /\ \A i \in 1..Len(seen) : seen[i] <= cursor
      /\ \A i \in 1..Len(seen) - 1 : seen[i] < seen[i + 1]
      /\ \A r \in kept : 0 < r /\ r <= cursor => Saw(r)
  BY DEF IInv, KeysetInv, Yield
<1>2. /\ Rowids(Ahead) /\ Rowids(Page) /\ Page \subseteq Ahead
      /\ \A s \in Page, r \in Ahead : r <= s => r \in Page
      /\ n < BatchSize => Page = Ahead
  BY <1>1, KeysetPage
<1>3. /\ Len(seen) \in Nat /\ Len(seen') = Len(seen) + n /\ n \in Nat
      /\ \A i \in 1..Len(seen) : seen'[i] = seen[i]
      /\ \A i \in 1..n : seen'[Len(seen) + i] = A[i]
  BY <1>1, BatchIs, PageType
<1>4. /\ \A i \in 1..n : A[i] \in Page /\ Rank(Page, A[i]) = i
      /\ \A r \in Page : \E i \in 1..n : A[i] = r
  BY <1>2, AscendingIs
<1>5. Last(Page) \in Page /\ \A s \in Page : s <= Last(Page)
  BY <1>1, <1>2, LastIs
<1>6. cursor \in Int /\ \A r \in Ahead : r \in Int /\ cursor < r
  BY <1>1, <1>2, RowidPagerAssumption DEF TypeOK, Rowids, Ahead
<1>7. Last(Page) \in Int /\ cursor < Last(Page)
  BY <1>2, <1>5, <1>6
<1>8. \A i \in 1..Len(seen) : seen[i] \in Int
  BY <1>1, SeenType
<1> HIDE DEF A, n
<1>9. ASSUME NEW k \in 1..Len(seen')
      PROVE  \/ k \in 1..Len(seen) /\ seen'[k] = seen[k]
             \/ \E i \in 1..n : k = Len(seen) + i /\ seen'[k] = A[i]
  <2>1. CASE k <= Len(seen)
    BY <1>3, <2>1
  <2>2. CASE ~(k <= Len(seen))
    <3>1. k - Len(seen) \in 1..n /\ k = Len(seen) + (k - Len(seen))
      BY <1>3, <2>2
    <3> QED BY <1>3, <3>1
  <2> QED BY <2>1, <2>2
<1>10. \A i \in 1..Len(seen') : seen'[i] <= cursor'
  <2> TAKE k \in 1..Len(seen')
  <2>1. CASE k \in 1..Len(seen) /\ seen'[k] = seen[k]
    BY <1>1, <1>6, <1>7, <1>8, <2>1
  <2>2. CASE \E i \in 1..n : k = Len(seen) + i /\ seen'[k] = A[i]
    BY <1>1, <1>4, <1>5, <2>2
  <2> QED BY <1>9, <2>1, <2>2
<1>11. \A i \in 1..Len(seen') - 1 : seen'[i] < seen'[i + 1]
  <2> TAKE k \in 1..Len(seen') - 1
  <2>0. k \in Nat /\ k >= 1 /\ k + 1 <= Len(seen) + n
    BY <1>3
  <2>1. CASE k + 1 <= Len(seen)
    <3>1. k \in 1..Len(seen) - 1 /\ k \in 1..Len(seen) /\ k + 1 \in 1..Len(seen)
      BY <1>3, <2>0, <2>1
    <3> QED BY <1>1, <1>3, <3>1
  <2>2. CASE k = Len(seen)
    <3>1. k \in 1..Len(seen) /\ 1 \in 1..n /\ k + 1 = Len(seen) + 1
      BY <1>3, <2>0, <2>2
    <3>2. seen'[k] = seen[k] /\ seen'[k + 1] = A[1] /\ A[1] \in Ahead
      BY <1>2, <1>3, <1>4, <3>1
    <3>3. seen[k] <= cursor /\ cursor < A[1] /\ A[1] \in Int /\ seen[k] \in Int
      BY <1>1, <1>6, <1>8, <3>1, <3>2
    <3> QED BY <1>6, <3>2, <3>3
  <2>3. CASE k > Len(seen)
    <3> DEFINE i == k - Len(seen)
    <3>1. i \in 1..n /\ i + 1 \in 1..n /\ k = Len(seen) + i /\ k + 1 = Len(seen) + (i + 1)
      BY <1>3, <2>0, <2>3
    <3> HIDE DEF i
    <3>2. /\ seen'[k] = A[i] /\ seen'[k + 1] = A[i + 1]
          /\ A[i] \in Page /\ A[i + 1] \in Page
          /\ Rank(Page, A[i]) = i /\ Rank(Page, A[i + 1]) = i + 1
      BY <1>3, <1>4, <3>1
    <3>3. i < i + 1
      BY <3>1
    <3>4. A[i] < A[i + 1]
      BY <1>2, <3>2, <3>3, RankRises
    <3> QED BY <3>2, <3>4
  <2> QED BY <1>3, <2>0, <2>1, <2>2, <2>3
<1>12. \A r \in kept : Saw(r) \/ r \in Page => Saw(r)'
  <2> SUFFICES ASSUME NEW r \in kept, Saw(r) \/ r \in Page
               PROVE  \E i \in 1..Len(seen') : seen'[i] = r
    BY DEF Saw
  <2>1. CASE Saw(r)
    <3>1. PICK i \in 1..Len(seen) : seen[i] = r
      BY <2>1 DEF Saw
    <3>2. i \in 1..Len(seen') /\ seen'[i] = r
      BY <1>3, <3>1
    <3> QED BY <3>2
  <2>2. CASE r \in Page
    <3>1. PICK i \in 1..n : A[i] = r
      BY <1>4, <2>2
    <3>2. Len(seen) + i \in 1..Len(seen') /\ seen'[Len(seen) + i] = r
      BY <1>3, <3>1
    <3> QED BY <3>2
  <2> QED BY <2>1, <2>2
<1>13. \A r \in kept : r \in Int /\ (r <= cursor \/ r \in Ahead)
  BY <1>1, <1>6, RowidPagerAssumption DEF TypeOK, Ahead
<1>14. \A r \in kept : 0 < r /\ r <= Last(Page) => Saw(r)'
  BY <1>1, <1>2, <1>5, <1>12, <1>13
<1>15. n < BatchSize => \A r \in kept : 0 < r => Saw(r)'
  BY <1>1, <1>2, <1>12, <1>13
<1> QED BY <1>1, <1>10, <1>11, <1>14, <1>15 DEF KeysetInv

\* The inductive invariant holds before the first SELECT.
LEMMA InitIInv == Init => IInv
<1> SUFFICES ASSUME Init PROVE IInv
  OBVIOUS
<1>1. seen = <<>> /\ Len(seen) = 0 /\ cursor = 0 /\ seen \in Seq(Keys)
  BY DEF Init
<1>2. TypeOK
  <2>1. cursor \in IF mode = "keyset" THEN Keys \cup {0} ELSE Nat
    BY <1>1
  <2>2. writes \in 0..MaxWrites
    BY RowidPagerAssumption DEF Init
  <2> QED BY <1>1, <2>1, <2>2 DEF Init, TypeOK
<1>3. KeysetInv
  <2>1. \A r \in kept : ~(0 < r /\ r <= cursor)
    BY <1>1, RowidPagerAssumption DEF Init
  <2> QED BY <1>1, <2>1 DEF Init, KeysetInv
<1> QED BY <1>2, <1>3 DEF IInv

\* Every step keeps the inductive invariant, those of other connections too.
LEMMA NextIInv == IInv /\ [Next]_vars => IInv'
<1> SUFFICES ASSUME IInv, [Next]_vars PROVE KeysetInv'
  BY StepType DEF IInv
<1>1. CASE UNCHANGED vars
  BY <1>1 DEF IInv, KeysetInv, Saw, vars
<1>2. CASE Yield
  BY <1>2, YieldKeeps
<1>3. CASE Exhausted
  <2> SUFFICES ASSUME mode = "keyset" PROVE KeysetInv'
    BY <1>3 DEF KeysetInv, Exhausted
  <2>1. UNCHANGED <<mode, tbl, cursor, seen, kept>> /\ done' = TRUE /\ outcome = "open"
    BY <1>3 DEF Exhausted
  <2>2. \A r \in kept : 0 < r => Saw(r)
    <3>1. CASE done
      BY <2>1, <3>1 DEF IInv, KeysetInv
    <3>2. CASE Page = {}
      <4>1. Ahead = {}
        BY <3>2, KeysetPage DEF IInv
      <4>2. \A r \in kept : r <= cursor
        BY <4>1, RowidPagerAssumption DEF IInv, TypeOK, Ahead
      <4> QED BY <2>1, <4>2 DEF IInv, KeysetInv
    <3> QED BY <1>3, <3>1, <3>2 DEF Exhausted
  <2> QED BY <2>1, <2>2 DEF IInv, KeysetInv, Saw
<1>4. CASE SelectFails
  BY <1>4 DEF IInv, KeysetInv, SelectFails
<1>5. CASE Unconvertible
  <2> SUFFICES ASSUME mode = "keyset" PROVE KeysetInv'
    BY <1>5 DEF KeysetInv, Unconvertible
  <2>1. /\ UNCHANGED <<mode, seen, kept>> /\ outcome' = "err"
        /\ cursor' = Last(Page) /\ Page # {} /\ TypeOK
    BY <1>5 DEF Unconvertible, IInv
  <2>2. Rowids(Page) /\ Page \subseteq Ahead
    BY <2>1, KeysetPage
  <2>3. Last(Page) \in Int /\ cursor \in Int /\ cursor < Last(Page)
    <3>1. Last(Page) \in Page /\ Page \subseteq Int
      BY <2>1, <2>2, LastIs DEF Rowids
    <3>2. cursor \in Int
      BY <2>1, SeenType
    <3> QED BY <2>2, <3>1, <3>2 DEF Ahead
  <2>4. \A i \in 1..Len(seen) : seen[i] \in Int /\ seen[i] <= cursor
    BY <2>1, SeenType DEF IInv, KeysetInv
  <2>5. \A i \in 1..Len(seen) : seen[i] <= cursor'
    BY <2>1, <2>3, <2>4
  <2> QED BY <2>1, <2>5 DEF IInv, KeysetInv
<1>6. CASE InsertRow
  BY <1>6 DEF IInv, KeysetInv, Saw, InsertRow
<1>7. CASE DeleteRow
  <2>1. kept' \subseteq kept /\ UNCHANGED <<mode, cursor, done, seen, outcome>>
    BY <1>7 DEF DeleteRow
  <2> QED BY <2>1 DEF IInv, KeysetInv, Saw
<1> QED BY <1>1, <1>2, <1>3, <1>4, <1>5, <1>6, <1>7 DEF Next, Reader, Terminated

\* The inductive invariant holds throughout.
LEMMA Invariance == Spec => []IInv
  BY InitIInv, NextIInv, PTL DEF Spec

----------------------------------------------------------------------------
(* The properties. *)

\* Every table, every schedule of writes: the variables keep their types.
THEOREM TypeCorrect == Spec => []TypeOK
<1>1. IInv => TypeOK
  BY DEF IInv
<1> QED BY <1>1, Invariance, PTL

\* A keyset scan returns no row twice and none out of order, whatever other
\* connections insert and delete between its batches.
THEOREM Rising == Spec => []RowsRise
<1>1. IInv => RowsRise
  BY DEF IInv, KeysetInv, RowsRise
<1> QED BY <1>1, Invariance, PTL

\* A keyset scan that says it is at the end has returned every row that was
\* in the table from its start to its end and has a positive rowid.
THEOREM NothingSkipped == Spec => []KeptRowsSeen
<1>1. IInv => KeptRowsSeen
  BY DEF IInv, KeysetInv, KeptRowsSeen, Saw, Positive
<1> QED BY <1>1, Invariance, PTL
----------------------------------------------------------------------------
(* The refinement: a table nobody writes to is streamed as LayerReader     *)
(* promises.  The rows a scan reaches are numbered by their rank, and the  *)
(* invariant says that the scan has returned the first Len(seen) of them.  *)

\* The row returned as the i-th is the i-th of those the scan reaches, the
\* cursor stands after it, and a short batch was the last.
QuietInv ==
    /\ TypeOK
    /\ Len(seen) <= Cardinality(Scanned)
    /\ \A i \in 1..Len(seen) : seen[i] \in Scanned /\ Rank(Scanned, seen[i]) = i
    /\ outcome = "open" /\ mode = "keyset" =>
         cursor >= 0 /\ \A r \in Scanned : cursor < r <=> Len(seen) < Rank(Scanned, r)
    /\ outcome = "open" /\ mode = "offset" => cursor = Len(seen)
    /\ outcome = "open" /\ done => Len(seen) = Cardinality(Scanned)

\* The rows a scan reaches are a finite set of rowids.
LEMMA ScannedType ==
    ASSUME TypeOK
    PROVE  Rowids(Scanned) /\ Cardinality(Scanned) \in Nat
<1>1. Rowids(tbl)
  BY RowidPagerAssumption, FS_Subset DEF TypeOK, Rowids
<1>2. Scanned \subseteq tbl
  BY DEF Scanned, Positive
<1> QED BY <1>1, <1>2, FS_Subset, FS_CardinalityType DEF Rowids

\* In either mode the next SELECT returns the rows that follow in the
\* numbering, as many as fit a batch.
LEMMA QuietPage ==
    ASSUME QuietInv, outcome = "open"
    PROVE  /\ Page \subseteq Scanned /\ Rowids(Page)
           /\ Cardinality(Page) =
                 IF Len(seen) + BatchSize <= Cardinality(Scanned) THEN BatchSize
                 ELSE Cardinality(Scanned) - Len(seen)
           /\ \A r \in Page : Rank(Scanned, r) = Len(seen) + Rank(Page, r)
<1>1. /\ Rowids(Scanned) /\ Cardinality(Scanned) \in Nat
      /\ Len(seen) \in Nat /\ BatchSize \in Nat \ {0}
      /\ Len(seen) <= Cardinality(Scanned) /\ TypeOK
  BY ScannedType, SeenType, RowidPagerAssumption DEF QuietInv
<1>2. CASE mode = "offset"
  <2>1. Page = After(Scanned, Len(seen), BatchSize)
    BY <1>2 DEF QuietInv, Page, Scanned
  <2> QED BY <1>1, <2>1, AfterIs
<1>3. CASE mode = "keyset"
  <2>1. Rowids(Ahead) /\ cursor \in Int
    BY <1>1, <1>3, KeysetPage, SeenType
  <2>2. Page = After(Ahead, 0, BatchSize)
    BY <1>3 DEF Page, Ahead
  <2>3. \A r \in Scanned : Rank(Scanned, r) \in Nat
                            /\ Rank(Scanned, r) <= Cardinality(Scanned)
    BY <1>1, RankType
  <2>4. Ahead = Slice(Scanned, Len(seen), Cardinality(Scanned))
    <3>1. \A r \in tbl : r \in Int
      BY <1>1, RowidPagerAssumption DEF TypeOK
    <3>2. Ahead = {r \in Scanned : cursor < r}
      BY <1>3, <2>1, <3>1 DEF QuietInv, Ahead, Scanned, Positive
    <3>3. \A r \in Scanned : cursor < r <=> Len(seen) < Rank(Scanned, r)
      BY <1>3 DEF QuietInv
    <3> QED BY <2>3, <3>2, <3>3 DEF Slice
  <2>5. Cardinality(Ahead) = Cardinality(Scanned) - Len(seen)
    BY <1>1, <2>4, SliceIs
  <2>6. \A r \in Ahead : Rank(Scanned, r) = Len(seen) + Rank(Ahead, r)
    BY <1>1, <2>4, SliceRank
  <2>7. /\ Page \subseteq Ahead /\ Rowids(Page)
        /\ Cardinality(Page) = IF 0 + BatchSize <= Cardinality(Ahead)
                               THEN BatchSize ELSE Cardinality(Ahead) - 0
        /\ \A r \in Page : Rank(Ahead, r) = 0 + Rank(Page, r)
    <3>1. Cardinality(Ahead) \in Nat
      BY <1>1, <2>5
    <3>2. 0 \in Nat /\ 0 <= Cardinality(Ahead)
      BY <3>1
    <3> QED BY <1>1, <2>1, <2>2, <3>2, AfterIs
  <2>8. \A r \in Page : Rank(Page, r) \in Nat
    BY <2>7, RankType
  <2>9. Page \subseteq Scanned
    BY <2>4, <2>7 DEF Slice
  <2>10. \A r \in Page : Rank(Scanned, r) = Len(seen) + Rank(Page, r)
    BY <2>6, <2>7, <2>8
  <2>11. Cardinality(Page) = IF Len(seen) + BatchSize <= Cardinality(Scanned)
                             THEN BatchSize ELSE Cardinality(Scanned) - Len(seen)
    BY <1>1, <2>5, <2>7
  <2> QED BY <2>7, <2>9, <2>10, <2>11
<1> QED BY <1>1, <1>2, <1>3 DEF TypeOK

\* A batch carries the numbering on.
LEMMA QuietYield ==
    ASSUME QuietInv, Yield
    PROVE  /\ QuietInv'
           /\ Len(seen) \in Nat /\ Cardinality(Page) \in 1..BatchSize
           /\ Len(seen') = Len(seen) + Cardinality(Page)
           /\ Cardinality(Page) = BatchSize \/ Len(seen') = Cardinality(Scanned)
<1> DEFINE A == Ascending(Page)
           n == Cardinality(Page)
<1>1. /\ TypeOK /\ outcome = "open" /\ ~done /\ Page # {}
      /\ seen' = seen \o A /\ done' = (n < BatchSize)
      /\ cursor' = IF mode = "keyset" THEN Last(Page) ELSE cursor + n
      /\ UNCHANGED <<mode, tbl, outcome>> /\ Scanned' = Scanned
  BY DEF QuietInv, Yield, Scanned, Positive
<1>2. TypeOK'
  BY <1>1, StepType DEF Next, Reader
<1>3. /\ Page \subseteq Scanned /\ Rowids(Page)
      /\ n = IF Len(seen) + BatchSize <= Cardinality(Scanned) THEN BatchSize
             ELSE Cardinality(Scanned) - Len(seen)
      /\ \A r \in Page : Rank(Scanned, r) = Len(seen) + Rank(Page, r)
  BY <1>1, QuietPage
<1>4. /\ Len(seen) \in Nat /\ Len(seen') = Len(seen) + n /\ n \in Nat
      /\ \A i \in 1..Len(seen) : seen'[i] = seen[i]
      /\ \A i \in 1..n : seen'[Len(seen) + i] = A[i]
  BY <1>1, BatchIs, PageType
<1>5. \A i \in 1..n : A[i] \in Page /\ Rank(Page, A[i]) = i
  BY <1>3, AscendingIs
<1>6. n # 0
  BY <1>1, <1>3, FS_EmptySet DEF Rowids
<1>7. Rowids(Scanned) /\ Cardinality(Scanned) \in Nat /\ BatchSize \in Nat \ {0}
  BY <1>1, ScannedType, RowidPagerAssumption
<1> HIDE DEF A
<1>8. /\ n \in 1..BatchSize /\ Len(seen') <= Cardinality(Scanned)
      /\ n = BatchSize \/ Len(seen') = Cardinality(Scanned)
      /\ n < BatchSize => Len(seen') = Cardinality(Scanned)
  <2> HIDE DEF n
  <2>1. Len(seen) <= Cardinality(Scanned)
    BY DEF QuietInv
  <2> QED BY <1>3, <1>4, <1>6, <1>7, <2>1
<1>9. \A k \in 1..Len(seen') : seen'[k] \in Scanned /\ Rank(Scanned, seen'[k]) = k
  <2> HIDE DEF n
  <2> TAKE k \in 1..Len(seen')
  <2>1. CASE k <= Len(seen)
    <3>1. k \in 1..Len(seen) /\ seen'[k] = seen[k]
      BY <1>4, <2>1
    <3> QED BY <3>1 DEF QuietInv
  <2>2. CASE ~(k <= Len(seen))
    <3> DEFINE i == k - Len(seen)
    <3>1. i \in 1..n /\ k = Len(seen) + i
      BY <1>4, <2>2
    <3> HIDE DEF i
    <3>2. seen'[k] = A[i] /\ A[i] \in Page /\ Rank(Page, A[i]) = i
      BY <1>4, <1>5, <3>1
    <3> QED BY <1>3, <3>1, <3>2
  <2> QED BY <2>1, <2>2
<1>10. mode = "keyset" =>
         cursor' >= 0 /\ \A r \in Scanned : cursor' < r <=> Len(seen') < Rank(Scanned, r)
  <2> SUFFICES ASSUME mode = "keyset"
               PROVE  Last(Page) >= 0
                      /\ \A r \in Scanned : Last(Page) < r <=> Len(seen') < Rank(Scanned, r)
    BY <1>1
  <2>1. Last(Page) \in Page /\ \A s \in Page : s <= Last(Page)
    BY <1>1, <1>3, LastIs
  <2>2. {s \in Page : s <= Last(Page)} = Page
    BY <2>1
  <2>3. Rank(Page, Last(Page)) = n
    BY <2>2 DEF Rank
  <2>4. Rank(Scanned, Last(Page)) = Len(seen')
    BY <1>3, <1>4, <2>1, <2>3
  <2>5. \A r \in Scanned : Last(Page) < r <=> Len(seen') < Rank(Scanned, r)
    BY <1>3, <1>7, <2>1, <2>4, RankRises
  <2>6. Last(Page) > 0 /\ Last(Page) \in Int
    BY <1>3, <2>1 DEF Scanned, Positive, Rowids
  <2> QED BY <2>5, <2>6
<1>11. mode = "offset" => cursor' = Len(seen')
  BY <1>1, <1>4 DEF QuietInv
<1>12. QuietInv'
  BY <1>1, <1>2, <1>8, <1>9, <1>10, <1>11 DEF QuietInv
<1> QED BY <1>4, <1>8, <1>12

\* Without writers every step keeps the rows and the invariant.
LEMMA QuietInduction ==
    ASSUME MaxWrites = 0
    PROVE  (Init => QuietInv) /\ (QuietInv /\ [Next]_vars => QuietInv')
<1>1. ASSUME Init PROVE QuietInv
  <2>1. TypeOK /\ Len(seen) = 0 /\ cursor = 0 /\ outcome = "open" /\ ~done
    BY <1>1, InitIInv DEF Init, IInv
  <2>2. Rowids(Scanned) /\ Cardinality(Scanned) \in Nat
    BY <2>1, ScannedType
  <2>3. \A r \in Scanned : Rank(Scanned, r) \in Nat /\ 0 < Rank(Scanned, r)
    BY <2>2, RankType
  <2>4. mode = "keyset" => \A r \in Scanned : 0 < r
    BY DEF Scanned, Positive
  <2> QED BY <2>1, <2>2, <2>3, <2>4 DEF QuietInv
<1>2. ASSUME QuietInv, [Next]_vars PROVE QuietInv'
  <2>1. TypeOK /\ TypeOK'
    BY <1>2, StepType DEF QuietInv
  <2>2. CASE UNCHANGED vars
    BY <1>2, <2>1, <2>2 DEF QuietInv, Scanned, Positive, Rank, vars
  <2>3. CASE Yield
    BY <1>2, <2>3, QuietYield
  <2>4. CASE Exhausted \/ SelectFails \/ Unconvertible
    <3>1. UNCHANGED <<mode, tbl, seen>> /\ outcome' # "open"
      BY <2>4 DEF Exhausted, SelectFails, Unconvertible
    <3> QED BY <1>2, <2>1, <3>1 DEF QuietInv, Scanned, Positive, Rank
  <2>5. ~InsertRow /\ ~DeleteRow
    <3>1. ~(writes < MaxWrites)
      BY <2>1 DEF TypeOK
    <3> QED BY <3>1 DEF InsertRow, DeleteRow
  <2> QED BY <1>2, <2>2, <2>3, <2>4, <2>5 DEF Next, Reader, Terminated
<1> QED BY <1>1, <1>2

\* The rows returned, by number, are 1, 2, 3 and so on.
Numbered == [i \in 1..Len(seen) |-> Place(seen[i])]

\* Where the numbering stands, read off the refinement mapping.
LEMMA NumberedIs ==
    ASSUME QuietInv
    PROVE  Len(seen) \in Nat /\ Numbered = [i \in 1..Len(seen) |-> i]
           /\ Numbered \in Seq(Nat) /\ Len(Numbered) = Len(seen)
<1>1. Len(seen) \in Nat
  BY SeenType DEF QuietInv
<1>2. \A i \in 1..Len(seen) : Place(seen[i]) = i
  BY DEF QuietInv, Place, Rank
<1>3. Numbered = [i \in 1..Len(seen) |-> i]
  BY <1>2 DEF Numbered
<1> QED BY <1>1, <1>3

\* Over a table nobody writes to, whatever is in it, a keyset scan and an
\* OFFSET scan start and step as the iterator LayerReader::batches()
\* promises: the rows in order, in full batches but for the last one, and
\* "the end" said only after all of them.
THEOREM QuietScanStreams ==
    ASSUME MaxWrites = 0
    PROVE  Spec => Layer!Init /\ [][Layer!Next]_(Layer!vars)
<1>1. Init => Layer!Init
  <2> SUFFICES ASSUME Init PROVE Layer!Init
    OBVIOUS
  <2>1. QuietInv /\ seen = <<>> /\ outcome = "open"
    BY QuietInduction DEF Init
  <2>2. Cardinality(Scanned) \in Nat
    BY <2>1, ScannedType DEF QuietInv
  <2>3. Numbered = <<>>
    BY <2>1 DEF Numbered
  <2> QED BY <2>1, <2>2, <2>3 DEF Layer!Init, Numbered
<1>2. QuietInv /\ QuietInv' /\ [Next]_vars => [Layer!Next]_(Layer!vars)
  <2> SUFFICES ASSUME QuietInv, QuietInv', [Next]_vars PROVE [Layer!Next]_(Layer!vars)
    OBVIOUS
  <2>1. CASE UNCHANGED vars
    <3>1. UNCHANGED <<Cardinality(Scanned), Numbered, outcome>>
      BY <2>1 DEF vars, Scanned, Positive, Numbered, Place
    <3> QED BY <3>1 DEF Layer!vars, Numbered
  <2>2. CASE Yield
    <3> DEFINE n == Cardinality(Page)
    <3>1. /\ Len(seen) \in Nat /\ n \in 1..BatchSize
          /\ Len(seen') = Len(seen) + n
          /\ n = BatchSize \/ Len(seen') = Cardinality(Scanned)
      BY <2>2, QuietYield
    <3>2. outcome = "open" /\ Scanned' = Scanned /\ outcome' = outcome
      BY <2>2 DEF Yield, Scanned, Positive
    <3>3. Len(seen) + n <= Cardinality(Scanned)
      BY <3>1, <3>2 DEF QuietInv
    <3>4. /\ Numbered = [i \in 1..Len(seen) |-> i] /\ Len(Numbered) = Len(seen)
          /\ Numbered \in Seq(Nat)
      BY NumberedIs
    <3>5. Numbered' = [i \in 1..Len(seen') |-> i]
      <4>1. Len(seen') \in Nat
        BY <3>1
      <4>2. \A i \in 1..Len(seen') : Place(seen[i])' = i
        BY DEF QuietInv, Place, Rank
      <4> QED BY <4>1, <4>2 DEF Numbered
    <3> HIDE DEF n
    <3>6. Numbered' = Numbered \o Layer!RowsAfter(Len(Numbered), n)
      <4> DEFINE R == Layer!RowsAfter(Len(Numbered), n)
      <4>1. R = [i \in 1..n |-> Len(seen) + i]
        BY <3>4 DEF Layer!RowsAfter
      <4>2. R \in Seq(Nat) /\ Len(R) = n
        BY <3>1, <4>1
      <4>3. \A i \in 1..n : R[i] = Len(seen) + i
        BY <4>1
      <4> HIDE DEF R
      <4> DEFINE C == Numbered \o R
      <4>0. n \in Nat
        BY <3>1
      <4>4. /\ C \in Seq(Nat) /\ Len(C) = Len(seen) + n
            /\ \A k \in 1..Len(seen) : C[k] = Numbered[k]
            /\ \A i \in 1..n : C[Len(seen) + i] = R[i]
        <5>1. Numbered \in Seq(Nat) /\ Len(seen) = Len(Numbered) /\ n = Len(R)
          BY <3>4, <4>2
        <5> QED BY <5>1, <4>2, JoinIs
      <4> HIDE DEF C
      <4>5. \A k \in 1..(Len(seen) + n) : C[k] = k
        <5> TAKE k \in 1..(Len(seen) + n)
        <5>1. CASE k <= Len(seen)
          <6>1. k \in 1..Len(seen)
            BY <5>1
          <6>2. Numbered[k] = k
            BY <3>4, <6>1
          <6> QED BY <4>4, <6>1, <6>2
        <5>2. CASE ~(k <= Len(seen))
          <6> DEFINE i == k - Len(seen)
          <6>1. i \in 1..n /\ k = Len(seen) + i
            BY <3>1, <4>0, <5>2
          <6> HIDE DEF i
          <6> QED BY <4>3, <4>4, <6>1
        <5> QED BY <5>1, <5>2
      <4>6. C = [k \in 1..(Len(seen) + n) |-> k]
        BY <4>4, <4>5
      <4> QED BY <3>1, <3>5, <4>6 DEF C, R
    <3>7. Layer!Yield
      BY <3>1, <3>2, <3>3, <3>4, <3>6 DEF Layer!Yield, Numbered
    <3> QED BY <3>7 DEF Layer!Next
  <2>3. CASE Exhausted
    <3>1. outcome = "open" /\ outcome' = "end" /\ (done \/ Page = {})
          /\ UNCHANGED <<Cardinality(Scanned), Numbered>>
      BY <2>3 DEF Exhausted, Scanned, Positive, Numbered, Place
    <3>2. Len(Numbered) = Cardinality(Scanned)
      <4>1. Len(seen) \in Nat /\ Len(Numbered) = Len(seen)
        BY NumberedIs
      <4>2. CASE done
        BY <3>1, <4>1, <4>2 DEF QuietInv
      <4>3. CASE Page = {}
        <5>1. Cardinality(Page) = 0
          BY <4>3, FS_EmptySet
        <5>2. Cardinality(Page) = IF Len(seen) + BatchSize <= Cardinality(Scanned)
                                  THEN BatchSize ELSE Cardinality(Scanned) - Len(seen)
          BY <3>1, QuietPage
        <5>3. Cardinality(Scanned) \in Nat
          BY ScannedType DEF QuietInv
        <5> QED BY <4>1, <5>1, <5>2, <5>3, RowidPagerAssumption
      <4> QED BY <3>1, <4>2, <4>3
    <3> QED BY <3>1, <3>2 DEF Layer!Next, Layer!End, Numbered
  <2>4. CASE SelectFails \/ Unconvertible
    <3>1. outcome = "open" /\ outcome' = "err"
          /\ UNCHANGED <<Cardinality(Scanned), Numbered>>
      BY <2>4 DEF SelectFails, Unconvertible, Scanned, Positive, Numbered, Place
    <3> QED BY <3>1 DEF Layer!Next, Layer!Fail, Numbered
  <2>5. ~InsertRow /\ ~DeleteRow
    <3>1. ~(writes < MaxWrites)
      BY DEF QuietInv, TypeOK
    <3> QED BY <3>1 DEF InsertRow, DeleteRow
  <2> QED BY <2>1, <2>2, <2>3, <2>4, <2>5 DEF Next, Reader, Terminated
<1> QED BY <1>1, <1>2, QuietInduction, PTL DEF Spec
============================================================================
