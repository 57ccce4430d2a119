------------------------- MODULE CellConvert_proofs --------------------------
(*****************************************************************************)
(* What CellConvert promises for every set of cells, everything that other   *)
(* programs may have stored, and any number of trips, proved with TLAPS.     *)
(*                                                                           *)
(* Carries is the heart of it: whatever a driver makes of a cell, its own    *)
(* reader takes it, as the same value or as one whose change is listed, and  *)
(* a cell that this reader has settled stays as it is.  It is proved driver  *)
(* by driver, for attributes from the type tables and for geometries from    *)
(* what GeometryCodecs_proofs says of the codecs.  The inductive invariant   *)
(* IInv says which writer was given which cell, so that Carries applies.     *)
(*****************************************************************************)
EXTENDS CellConvert, GeometryCodecs_proofs

----------------------------------------------------------------------------
(* Powers of ten, quotients and digits.                                    *)

\* Min is the least element of a set of naturals.
LEMMA MinIs ==
    ASSUME NEW S \in SUBSET Nat, S # {}
    PROVE  Min(S) \in S /\ \A y \in S : Min(S) <= y
<1>1. \E x \in S : \A y \in S : x <= y
  BY LeastNumber
<1> QED BY <1>1 DEF Min

\* Max is the largest element of a bounded set of naturals.
LEMMA MaxIs ==
    ASSUME NEW S \in SUBSET Nat, S # {}, NEW n \in Nat, \A y \in S : y <= n
    PROVE  Max(S) \in S /\ \A y \in S : y <= Max(S)
<1> DEFINE U == {u \in Nat : \A y \in S : y <= u}
<1>1. PICK u \in U : \A v \in U : u <= v
  <2>1. U \in SUBSET Nat /\ n \in U
    OBVIOUS
  <2> QED BY <2>1, LeastNumber
<1>2. u \in S
  <2> SUFFICES ASSUME u \notin S PROVE FALSE
    OBVIOUS
  <2>1. \A y \in S : y \in Nat /\ y < u
    BY <1>1
  <2>2. PICK y \in S : TRUE
    OBVIOUS
  <2>3. u \in Nat /\ u - 1 \in Nat
    BY <2>1, <2>2
  <2>4. \A z \in S : z <= u - 1
    BY <2>1, <2>3
  <2>5. u - 1 \in U
    BY <2>3, <2>4
  <2> QED BY <1>1, <2>3, <2>5
<1>3. \E x \in S : \A y \in S : x >= y
  BY <1>1, <1>2
<1> QED BY <1>3 DEF Max

\* What stands where when one sequence follows another.
LEMMA JoinIs ==
    ASSUME NEW S, NEW A \in Seq(S), NEW B \in Seq(S),
           NEW a, a = Len(A), NEW b, b = Len(B)
    PROVE  /\ A \o B \in Seq(S) /\ Len(A \o B) = a + b
           /\ \A i \in 1..a : (A \o B)[i] = A[i]
           /\ \A i \in 1..b : (A \o B)[a + i] = B[i]
<1>1. A \o B \in Seq(S) /\ Len(A \o B) = a + b
  OBVIOUS
<1>2. \A i \in 1..a : (A \o B)[i] = A[i]
  OBVIOUS
<1>3. \A i \in 1..b : (A \o B)[a + i] = B[i]
  OBVIOUS
<1> QED BY <1>1, <1>2, <1>3

\* A product of naturals is one, and grows with its factors.
LEMMA ProductIs ==
    ASSUME NEW a \in Nat, NEW b \in Nat
    PROVE  a * b \in Nat /\ (a >= 1 => a * b >= b) /\ (b >= 1 => a * b >= a)
<1> DEFINE T == {n \in Nat : /\ n * b \in Nat /\ (n >= 1 => n * b >= b) /\ (b >= 1 => n * b >= n)}
<1>1. 0 \in T
  OBVIOUS
<1>2. ASSUME NEW n \in Nat, n \in T PROVE n + 1 \in T
  <2>1. (n + 1) * b = n * b + b
    OBVIOUS
  <2> QED BY <1>2, <2>1
<1> HIDE DEF T
<1>3. a \in T
  BY <1>1, <1>2, SetInduction
<1> QED BY <1>3 DEF T

\* Powers of ten.
LEMMA PowIs == /\ Pow10 \in [Nat -> Nat] /\ Pow10[0] = 1
               /\ \A n \in Nat : Pow10[n + 1] = 10 * Pow10[n] /\ Pow10[n] >= 1
<1> DEFINE step == [p \in (Nat \ {0}) \X Nat |-> 10 * p[2]]
<1>1. PICK f : Recurses(f, Nat, 1, step)
  <2>1. step \in [(Nat \ {0}) \X Nat -> Nat]
    OBVIOUS
  <2> HIDE DEF step
  <2> QED BY <2>1, NaturalRecursion
<1>2. \A i \in Nat \ {0} : f[i] = 10 * f[i - 1]
  <2> TAKE i \in Nat \ {0}
  <2>1. <<i, f[i - 1]>> \in (Nat \ {0}) \X Nat
    BY <1>1 DEF Recurses
  <2> QED BY <1>1, <2>1 DEF Recurses
<1>3. f = [n \in Nat |-> IF n = 0 THEN 1 ELSE 10 * f[n - 1]]
  BY <1>1, <1>2 DEF Recurses
<1>4. Pow10 = [n \in Nat |-> IF n = 0 THEN 1 ELSE 10 * Pow10[n - 1]]
  BY <1>3 DEF Pow10
<1> HIDE DEF step
<1>5. \A n \in Nat : Pow10[n] = IF n = 0 THEN 1 ELSE 10 * Pow10[n - 1]
  BY <1>4
<1> DEFINE T == {n \in Nat : Pow10[n] \in Nat /\ Pow10[n] >= 1}
<1>6. 0 \in T
  BY <1>5
<1>7. ASSUME NEW n \in Nat, n \in T PROVE n + 1 \in T
  <2>1. Pow10[n + 1] = 10 * Pow10[n]
    BY <1>5
  <2> QED BY <1>7, <2>1
<1> HIDE DEF T
<1>8. \A n \in Nat : n \in T
  BY <1>6, <1>7, SetInduction
<1>9. \A n \in Nat : Pow10[n] \in Nat /\ Pow10[n] >= 1
  BY <1>8 DEF T
<1>10. \A n \in Nat : Pow10[n + 1] = 10 * Pow10[n]
  BY <1>5
<1>11. Pow10 \in [Nat -> Nat]
  BY <1>4, <1>9
<1> QED BY <1>5, <1>9, <1>10, <1>11

\* The powers that a digit of PostgreSQL's numeric is made of.
LEMMA SmallPows == Pow10[1] = 10 /\ Pow10[2] = 100 /\ Pow10[3] = 1000 /\ Pow10[4] = NBase
<1>1. Pow10[0 + 1] = 10 * Pow10[0] /\ Pow10[1 + 1] = 10 * Pow10[1]
      /\ Pow10[2 + 1] = 10 * Pow10[2] /\ Pow10[3 + 1] = 10 * Pow10[3] /\ Pow10[0] = 1
  BY PowIs
<1> QED BY <1>1 DEF NBase

\* They grow.
LEMMA PowGrows == ASSUME NEW a \in Nat, NEW b \in Nat, a <= b PROVE Pow10[a] <= Pow10[b]
<1> DEFINE T == {d \in Nat : Pow10[a] <= Pow10[a + d]}
<1>1. 0 \in T
  BY PowIs
<1>2. ASSUME NEW d \in Nat, d \in T PROVE d + 1 \in T
  <2>1. Pow10[(a + d) + 1] = 10 * Pow10[a + d] /\ Pow10[a + d] \in Nat /\ Pow10[a] \in Nat
    BY PowIs
  <2>2. a + (d + 1) = (a + d) + 1
    OBVIOUS
  <2> QED BY <1>2, <2>1, <2>2
<1> HIDE DEF T
<1>3. b - a \in T
  BY <1>1, <1>2, SetInduction
<1>4. a + (b - a) = b
  OBVIOUS
<1> QED BY <1>3, <1>4 DEF T

\* Shifting by four decimals is shifting by one digit.
LEMMA PowDigit == ASSUME NEW n \in Nat PROVE Pow10[n + 4] = 10000 * Pow10[n]
<1>1. Pow10[n + 1] = 10 * Pow10[n] /\ Pow10[(n + 1) + 1] = 10 * Pow10[n + 1]
      /\ Pow10[(n + 2) + 1] = 10 * Pow10[n + 2] /\ Pow10[(n + 3) + 1] = 10 * Pow10[n + 3]
  BY PowIs
<1>2. (n + 1) + 1 = n + 2 /\ (n + 2) + 1 = n + 3 /\ (n + 3) + 1 = n + 4 /\ Pow10[n] \in Nat
  BY PowIs
<1> QED BY <1>1, <1>2

\* i128 ends between 10^MaxPow and 10^(MaxPow + 1).
LEMMA AccIs == MaxAcc \in Nat /\ MaxPow \in Nat /\ MaxPow >= 4 /\ Pow10[MaxPow] <= MaxAcc
               /\ MaxAcc < Pow10[MaxPow + 1]
<1>1. Pow10[MaxPow + 1] = 10 * Pow10[MaxPow] /\ Pow10[MaxPow] \in Nat
  BY PowIs, NumericAssumption
<1>2. MaxAcc < 10 * Pow10[MaxPow]
  BY <1>1, NumericAssumption
<1> QED BY <1>1, <1>2, NumericAssumption DEF Width

\* Dividing by the base again and again, as from_scaled does.
LEMMA QuotientsAre ==
    ASSUME NEW n \in Nat
    PROVE  /\ Quotients(n) \in [Nat -> Nat] /\ Quotients(n)[0] = n
           /\ \A i \in Nat : Quotients(n)[i + 1] = Quotients(n)[i] \div NBase
<1> DEFINE step == [p \in (Nat \ {0}) \X Nat |-> p[2] \div NBase]
           Q == Quotients(n)
<1>1. PICK f : Recurses(f, Nat, n, step)
  <2>1. step \in [(Nat \ {0}) \X Nat -> Nat]
    BY DEF NBase
  <2> HIDE DEF step
  <2> QED BY <2>1, NaturalRecursion
<1>2. \A i \in Nat \ {0} : f[i] = f[i - 1] \div NBase
  <2> TAKE i \in Nat \ {0}
  <2>1. <<i, f[i - 1]>> \in (Nat \ {0}) \X Nat
    BY <1>1 DEF Recurses
  <2> QED BY <1>1, <2>1 DEF Recurses
<1>3. f = [i \in Nat |-> IF i = 0 THEN n ELSE f[i - 1] \div NBase]
  BY <1>1, <1>2 DEF Recurses
<1>4. Q = [i \in Nat |-> IF i = 0 THEN n ELSE Q[i - 1] \div NBase]
  BY <1>3 DEF Quotients
<1> HIDE DEF step, Q
<1>5. \A i \in Nat : Q[i] = IF i = 0 THEN n ELSE Q[i - 1] \div NBase
  BY <1>4
<1> DEFINE T == {i \in Nat : Q[i] \in Nat}
<1>6. 0 \in T
  BY <1>5
<1>7. ASSUME NEW i \in Nat, i \in T PROVE i + 1 \in T
  <2>1. Q[i + 1] = Q[i] \div NBase
    BY <1>5
  <2> QED BY <1>7, <2>1 DEF NBase
<1> HIDE DEF T
<1>8. \A i \in Nat : i \in T
  BY <1>6, <1>7, SetInduction
<1>9. \A i \in Nat : Q[i] \in Nat
  BY <1>8 DEF T
<1>10. \A i \in Nat : Q[i + 1] = Q[i] \div NBase
  BY <1>5
<1>11. Q \in [Nat -> Nat]
  BY <1>4, <1>9
<1> QED BY <1>5, <1>10, <1>11 DEF Q

\* What fits y times into M.
LEMMA FitsTimes ==
    ASSUME NEW x \in Nat, NEW y \in Nat, y >= 1, NEW M \in Nat
    PROVE  x <= M \div y <=> x * y <= M
<1> DEFINE k == M \div y
           t == M % y
<1>1. k \in Nat /\ t \in 0..(y - 1) /\ M = k * y + t
  BY DEF k, t
<1> HIDE DEF k, t
<1>2. CASE x <= k
  <2>1. k * y = x * y + (k - x) * y /\ (k - x) \in Nat
    BY <1>1, <1>2
  <2>2. (k - x) * y \in Nat /\ x * y \in Nat
    BY <2>1, ProductIs
  <2> QED BY <1>1, <1>2, <2>1, <2>2 DEF k
<1>3. CASE x > k
  <2>1. x * y = (k + 1) * y + (x - (k + 1)) * y /\ (x - (k + 1)) \in Nat
    BY <1>1, <1>3
  <2>2. (x - (k + 1)) * y \in Nat /\ (k + 1) * y = k * y + y
    BY <1>1, <2>1, ProductIs
  <2> QED BY <1>1, <1>3, <2>1, <2>2 DEF k
<1> QED BY <1>1, <1>2, <1>3

\* The digits of a number that an i128 holds.
Digits(n, L) ==
    /\ L \in Nat
    /\ LowDigits(n) = [i \in 1..L |-> Quotients(n)[i - 1] % NBase]
    /\ Quotients(n)[L] = 0
    /\ \A i \in Nat : i < L => Quotients(n)[i] > 0

\* A number that fits an i128 has some number of digits.
LEMMA LowDigitsAre == ASSUME NEW n \in Nat, n <= MaxAcc PROVE \E L : Digits(n, L)
<1> DEFINE q == Quotients(n)
           C == {c \in 0..(MaxPow + 1) : q[c] = 0}
           L == Min(C)
<1>0. q \in [Nat -> Nat] /\ q[0] = n /\ \A i \in Nat : q[i + 1] = q[i] \div NBase
  BY QuotientsAre
<1>1. q \in [Nat -> Nat] /\ q[0] = n /\ \A i \in Nat : q[i + 1] = q[i] \div 10000
  BY <1>0 DEF NBase
<1>2. MaxPow \in Nat /\ n < Pow10[MaxPow + 1]
  BY AccIs, PowIs
<1>a. LowDigits(n) = [i \in 1..L |-> q[i - 1] % NBase]
  BY DEF LowDigits
<1> HIDE DEF q
<1> DEFINE T == {i \in Nat : i <= MaxPow + 1 => q[i] < Pow10[(MaxPow + 1) - i]}
<1>3. 0 \in T
  BY <1>1, <1>2
<1>4. ASSUME NEW i \in Nat, i \in T PROVE i + 1 \in T
  <2> SUFFICES ASSUME i + 1 <= MaxPow + 1 PROVE q[i + 1] < Pow10[(MaxPow + 1) - (i + 1)]
    OBVIOUS
  <2> DEFINE k == (MaxPow + 1) - (i + 1)
  <2>1. k \in Nat /\ k + 1 = (MaxPow + 1) - i
    BY <1>2
  <2>2. Pow10[k + 1] = 10 * Pow10[k] /\ Pow10[k] \in Nat
    BY <2>1, PowIs
  <2>3. q[i] < Pow10[k + 1]
    <3>1. i <= MaxPow + 1
      BY <1>2
    <3> HIDE DEF k
    <3> QED BY <1>4, <2>1, <3>1
  <2>4. q[i] \in Nat /\ q[i + 1] = q[i] \div 10000
    BY <1>1
  <2> HIDE DEF k
  <2>5. q[i + 1] < Pow10[k]
    BY <2>2, <2>3, <2>4
  <2> QED BY <2>5 DEF k
<1> HIDE DEF T
<1>5. MaxPow + 1 \in T
  BY <1>2, <1>3, <1>4, SetInduction
<1>6. q[MaxPow + 1] = 0
  <2>1. q[MaxPow + 1] < Pow10[0]
    BY <1>2, <1>5 DEF T
  <2> QED BY <1>1, <1>2, <2>1, PowIs
<1>7. L \in C /\ \A y \in C : L <= y
  <2>1. C \in SUBSET Nat /\ MaxPow + 1 \in C
    BY <1>2, <1>6
  <2> HIDE DEF C
  <2> QED BY <2>1, MinIs
<1>8. \A i \in Nat : i < L => q[i] > 0
  BY <1>1, <1>2, <1>7
<1> HIDE DEF L
<1>9. L \in Nat /\ q[L] = 0
  BY <1>2, <1>7
<1> QED BY <1>8, <1>9, <1>a DEF Digits, q

\* The last digit that is not zero, and the digits up to it.
LEMMA TrimmedIs ==
    ASSUME NEW s \in Seq(Nat)
    PROVE  \E m \in 0..Len(s) :
              /\ TrimmedEnd(s) = SubSeq(s, 1, m)
              /\ m > 0 => s[m] # 0
              /\ \A i \in 1..Len(s) : i > m => s[i] = 0
<1> DEFINE S == {0} \cup {i \in DOMAIN s : s[i] /= 0}
           m == Max(S)
           n == Len(s)
<1>1. S \in SUBSET Nat /\ 0 \in S /\ n \in Nat /\ \A y \in S : y <= n
  OBVIOUS
<1> HIDE DEF S, n
<1>2. m \in S /\ \A y \in S : y <= m
  BY <1>1, MaxIs
<1> HIDE DEF m
<1>3. m \in 0..Len(s) /\ (m > 0 => s[m] # 0)
  BY <1>1, <1>2 DEF S, n
<1>4. \A i \in 1..Len(s) : i > m => s[i] = 0
  BY <1>1, <1>2 DEF S, n
<1>5. TrimmedEnd(s) = SubSeq(s, 1, m)
  BY DEF TrimmedEnd, m, S
<1> QED BY <1>3, <1>4, <1>5

----------------------------------------------------------------------------
(* PostgreSQL's binary numeric: what to_decimal makes of from_scaled's     *)
(* digits.                                                                 *)

\* A quotient is a number.
LEMMA QuotientIs == ASSUME NEW x \in Nat, NEW y \in Nat, y >= 1 PROVE x \div y \in Nat
OBVIOUS

Sum   == [ok : BOOLEAN, v : 0..MaxAcc]
Sums  == [acc : Sum, done : BOOLEAN]

\* checked_mul by a power of ten gives the product where an i128 holds it.
LEMMA ShiftIs ==
    ASSUME NEW acc \in Sum, NEW n \in Nat
    PROVE  /\ Shift(acc, n) \in Sum
           /\ acc.ok /\ n <= MaxPow /\ acc.v * Pow10[n] <= MaxAcc
              => Shift(acc, n) = Decimal(acc.v * Pow10[n])
<1>1. Pow10[n] \in Nat /\ Pow10[n] >= 1 /\ acc.v \in Nat /\ acc.v <= MaxAcc /\ MaxAcc \in Nat /\ MaxPow \in Nat
  BY PowIs, AccIs DEF Sum
<1>2. acc.v <= MaxAcc \div Pow10[n] <=> acc.v * Pow10[n] <= MaxAcc
  BY <1>1, FitsTimes
<1>3. acc.v * Pow10[n] \in Nat /\ MaxAcc \div Pow10[n] \in Nat
  BY <1>1, ProductIs, QuotientIs
<1>4. CASE ~acc.ok \/ n > MaxPow \/ acc.v > MaxAcc \div Pow10[n]
  <2>1. Shift(acc, n) = NoDecimal
    BY <1>4 DEF Shift
  <2>2. ~(acc.ok /\ n <= MaxPow /\ acc.v * Pow10[n] <= MaxAcc)
    BY <1>1, <1>2, <1>3, <1>4
  <2> QED BY <1>1, <2>1, <2>2 DEF NoDecimal, Sum
<1>5. CASE ~(~acc.ok \/ n > MaxPow \/ acc.v > MaxAcc \div Pow10[n])
  <2>1. Shift(acc, n) = Decimal(acc.v * Pow10[n])
    BY <1>5 DEF Shift
  <2>2. acc.v * Pow10[n] <= MaxAcc
    BY <1>1, <1>2, <1>3, <1>5
  <2> DEFINE x == acc.v * Pow10[n]
  <2>3. x \in 0..MaxAcc
    BY <1>1, <1>3, <2>2
  <2> HIDE DEF x
  <2>4. Decimal(x) \in Sum
    BY <2>3 DEF Decimal, Sum
  <2> QED BY <2>1, <2>4 DEF x
<1> QED BY <1>4, <1>5

\* checked_add gives the sum where an i128 holds it.
LEMMA AddIs ==
    ASSUME NEW acc \in Sum, NEW d \in Nat
    PROVE  /\ Add(acc, d) \in Sum
           /\ acc.ok /\ acc.v + d <= MaxAcc => Add(acc, d) = Decimal(acc.v + d)
<1>1. acc.v \in 0..MaxAcc /\ MaxAcc \in Nat
  BY AccIs DEF Sum
<1> QED BY <1>1 DEF Add, Sum, Decimal, NoDecimal

\* One turn of to_decimal's loop.
LEMMA TakeDigitIs ==
    ASSUME NEW n, n.digits \in Seq(Nat), n.weight \in Int, NEW target \in Int,
           NEW i \in 1..Len(n.digits), NEW s \in Sums
    PROVE  TakeDigit(n, target, s, i) \in Sums
<1> DEFINE e == Exponent(n, target, i)
           high == IF i > 1 /\ e + Width > 0 THEN Shift(s.acc, e + Width) ELSE s.acc
<1>1. e \in Int /\ n.digits[i] \in Nat /\ s.acc \in Sum /\ s.done \in BOOLEAN
  BY DEF Exponent, Sums, Width
<1> HIDE DEF e
<1>2. high \in Sum
  <2>1. CASE i > 1 /\ e + Width > 0
    BY <1>1, <2>1, ShiftIs DEF Width
  <2>2. CASE ~(i > 1 /\ e + Width > 0)
    BY <1>1, <2>2
  <2> QED BY <2>1, <2>2
<1>t. TakeDigit(n, target, s, i) =
        CASE s.done -> s
          [] ~s.done /\ e < 0 ->
                [acc  |-> IF 0 - e > MaxPow THEN NoDecimal ELSE Add(high, n.digits[i] \div Pow10[0 - e]),
                 done |-> TRUE]
          [] OTHER -> [s EXCEPT !.acc = Add(IF i = 1 THEN @ ELSE Shift(@, Width), n.digits[i])]
  BY DEF TakeDigit, e
<1> HIDE DEF high
<1>3. CASE s.done
  BY <1>3, <1>t
<1>4. CASE ~s.done /\ e < 0
  <2>0. 0 - e \in Nat
    BY <1>1, <1>4
  <2>1. Pow10[0 - e] \in Nat /\ Pow10[0 - e] >= 1
    BY <2>0, PowIs
  <2>2. n.digits[i] \div Pow10[0 - e] \in Nat
    BY <1>1, <2>1, QuotientIs
  <2>3. Add(high, n.digits[i] \div Pow10[0 - e]) \in Sum /\ NoDecimal \in Sum
    BY <1>2, <2>2, AddIs, AccIs DEF NoDecimal, Sum
  <2>4. TakeDigit(n, target, s, i) =
          [acc |-> IF 0 - e > MaxPow THEN NoDecimal ELSE Add(high, n.digits[i] \div Pow10[0 - e]), done |-> TRUE]
    BY <1>4, <1>t
  <2> QED BY <2>3, <2>4 DEF Sums
<1>5. CASE ~s.done /\ ~(e < 0)
  <2> DEFINE x == IF i = 1 THEN s.acc ELSE Shift(s.acc, Width)
  <2>1. x \in Sum
    BY <1>1, ShiftIs DEF Width
  <2>2. Add(x, n.digits[i]) \in Sum
    BY <1>1, <2>1, AddIs
  <2>3. TakeDigit(n, target, s, i) = [s EXCEPT !.acc = Add(x, n.digits[i])]
    BY <1>5, <1>t
  <2> HIDE DEF x
  <2> QED BY <2>2, <2>3 DEF Sums
<1> QED BY <1>1, <1>3, <1>4, <1>5

\* to_decimal's loop takes the digits one after the other.
LEMMA TakenIs ==
    ASSUME NEW n, n.digits \in Seq(Nat), n.weight \in Int, NEW target \in Int
    PROVE  /\ Taken(n, target) \in [0..Len(n.digits) -> Sums]
           /\ Taken(n, target)[0] = [acc |-> Decimal(0), done |-> FALSE]
           /\ \A i \in 1..Len(n.digits) :
                 Taken(n, target)[i] = TakeDigit(n, target, Taken(n, target)[i - 1], i)
<1> DEFINE N == Len(n.digits)
           zero == [acc |-> Decimal(0), done |-> FALSE]
           step == [p \in (1..N) \X Sums |-> TakeDigit(n, target, p[2], p[1])]
           s == Taken(n, target)
<1>1. N \in Nat /\ zero \in Sums
  BY AccIs DEF Sums, Sum, Decimal
<1>2. step \in [(1..N) \X Sums -> Sums]
  BY TakeDigitIs
<1>3. \A i \in 1..N, t \in Sums : step[<<i, t>>] = TakeDigit(n, target, t, i)
  OBVIOUS
<1>a. s = CHOOSE f : f = [i \in 0..N |-> IF i = 0 THEN zero ELSE TakeDigit(n, target, f[i - 1], i)]
  BY DEF Taken
<1> HIDE DEF step, zero, s, N
<1>4. PICK g : FoldsOver(g, Sums, zero, step, N)
  BY <1>1, <1>2, NumberedIteration
<1>5. g = [i \in 0..N |-> IF i = 0 THEN zero ELSE TakeDigit(n, target, g[i - 1], i)]
  <2>1. g \in [0..N -> Sums] /\ g[0] = zero /\ \A i \in 1..N : g[i] = step[<<i, g[i - 1]>>]
    BY <1>4 DEF FoldsOver
  <2>2. ASSUME NEW i \in 1..N PROVE g[i] = TakeDigit(n, target, g[i - 1], i)
    <3>1. g[i - 1] \in Sums
      BY <1>1, <2>1
    <3> QED BY <1>3, <2>1, <3>1
  <2> QED BY <1>1, <2>1, <2>2
<1>6. s = [i \in 0..N |-> IF i = 0 THEN zero ELSE TakeDigit(n, target, s[i - 1], i)]
  BY <1>5, <1>a
<1> DEFINE T == {i \in Nat : i <= N => s[i] \in Sums}
<1>7. 0 \in T
  BY <1>1, <1>6
<1>8. ASSUME NEW i \in Nat, i \in T PROVE i + 1 \in T
  <2> SUFFICES ASSUME i + 1 <= N PROVE s[i + 1] \in Sums
    OBVIOUS
  <2>1. i + 1 \in 1..N /\ (i + 1) - 1 = i /\ s[i] \in Sums
    BY <1>1, <1>8
  <2>2. s[i + 1] = TakeDigit(n, target, s[i], i + 1)
    BY <1>1, <1>6, <2>1
  <2> QED BY <2>1, <2>2, TakeDigitIs DEF N
<1> HIDE DEF T
<1>9. \A i \in Nat : i \in T
  BY <1>7, <1>8, SetInduction
<1>10. s \in [0..N -> Sums] /\ s[0] = zero /\ \A i \in 1..N : s[i] = TakeDigit(n, target, s[i - 1], i)
  BY <1>1, <1>6, <1>9 DEF T
<1> QED BY <1>10 DEF N, s, zero

\* Reading a numeric gives a number an i128 holds.
LEMMA ToDecimalIs ==
    ASSUME NEW n, n.digits \in Seq(Nat), n.weight \in Int, NEW target \in Int
    PROVE  /\ ToDecimal(n, target).ok \in BOOLEAN
           /\ ToDecimal(n, target).v \in (0 - MaxAcc)..MaxAcc
<1> DEFINE end == Taken(n, target)[Len(n.digits)]
           last == Exponent(n, target, Len(n.digits))
           abs == IF end.done \/ n.digits = <<>> \/ last <= 0 THEN end.acc ELSE Shift(end.acc, last)
<1>1. end \in Sums
  <2>1. Taken(n, target) \in [0..Len(n.digits) -> Sums]
    BY TakenIs
  <2>2. Len(n.digits) \in 0..Len(n.digits)
    OBVIOUS
  <2> QED BY <2>1, <2>2
<1>2. last \in Int
  BY DEF Exponent, Width
<1>t. ToDecimal(n, target) = IF n.sign = "nan" THEN NoDecimal
                             ELSE [abs EXCEPT !.v = IF n.sign = "neg" THEN 0 - @ ELSE @]
  BY DEF ToDecimal
<1> HIDE DEF end, last
<1>3. abs \in Sum
  <2>1. end.acc \in Sum
    BY <1>1 DEF Sums
  <2>2. last > 0 => Shift(end.acc, last) \in Sum
    BY <1>2, <2>1, ShiftIs
  <2> QED BY <1>2, <2>1, <2>2
<1> HIDE DEF abs
<1>4. MaxAcc \in Nat
  BY AccIs
<1>5. CASE n.sign = "nan"
  BY <1>4, <1>5, <1>t DEF NoDecimal
<1>6. CASE n.sign # "nan"
  <2>1. abs.v \in 0..MaxAcc /\ abs.ok \in BOOLEAN /\ abs = [ok |-> abs.ok, v |-> abs.v]
    BY <1>3 DEF Sum
  <2>2. ToDecimal(n, target) = [abs EXCEPT !.v = IF n.sign = "neg" THEN 0 - abs.v ELSE abs.v]
    BY <1>6, <1>t
  <2>3. ToDecimal(n, target).ok = abs.ok /\ ToDecimal(n, target).v = IF n.sign = "neg" THEN 0 - abs.v ELSE abs.v
    BY <2>1, <2>2
  <2> QED BY <1>4, <2>1, <2>3
<1> QED BY <1>5, <1>6

\* N spreads a with s decimals over base-10000 digits: L of them for what is
\* above the last s % 4 decimals, and one for those; m are left when the zeros
\* at the end are cut.
Odd(s)    == IF s % 4 = 0 THEN 0 ELSE 1
Upper(a, s) == a \div Pow10[s % 4]
Lower(a, s) == a % Pow10[s % 4]
Spread(N, a, s, L, m) ==
    /\ Digits(Upper(a, s), L)
    /\ N.digits \in Seq(Nat) /\ Len(N.digits) = m /\ N.weight \in Int
    /\ m \in 1..(L + Odd(s))
    /\ \A i \in 1..L : IF i <= m THEN N.digits[i] = Quotients(Upper(a, s))[L - i] % NBase
                       ELSE Quotients(Upper(a, s))[L - i] % NBase = 0
    /\ m <= L => Odd(s) = 0 \/ Lower(a, s) = 0
    /\ m > L => N.digits[m] = Lower(a, s) * Pow10[4 - (s % 4)]
    /\ \A i \in Nat : Exponent(N, s, i) = 4 * ((L + Odd(s)) - i) - (IF s % 4 = 0 THEN 0 ELSE 4 - (s % 4))

\* The two parts of a number.
LEMMA PartsAre ==
    ASSUME NEW a \in Nat, NEW s \in Nat
    PROVE  /\ s % 4 \in 0..3 /\ Upper(a, s) \in Nat /\ Lower(a, s) \in Nat
           /\ a = Upper(a, s) * Pow10[s % 4] + Lower(a, s)
           /\ Upper(a, s) <= a
           /\ s % 4 = 0 => Lower(a, s) = 0 /\ Upper(a, s) = a
           /\ Upper(a, s) * Pow10[s % 4] \in Nat
<1>1. s % 4 \in 0..3
  OBVIOUS
<1>2. CASE s % 4 = 0
  <2>1. Pow10[s % 4] = 1
    BY <1>2, PowIs
  <2> QED BY <1>1, <1>2, <2>1 DEF Upper, Lower
<1>3. CASE s % 4 = 1
  <2>1. Pow10[s % 4] = 10
    BY <1>3, SmallPows
  <2> QED BY SMTT(20), <1>1, <1>3, <2>1 DEF Upper, Lower
<1>4. CASE s % 4 = 2
  <2>1. Pow10[s % 4] = 100
    BY <1>4, SmallPows
  <2> QED BY SMTT(20), <1>1, <1>4, <2>1 DEF Upper, Lower
<1>5. CASE s % 4 = 3
  <2>1. Pow10[s % 4] = 1000
    BY <1>5, SmallPows
  <2> QED BY <1>1, <1>5, <2>1 DEF Upper, Lower
<1> QED BY <1>1, <1>2, <1>3, <1>4, <1>5

\* The digits of a number, with what stands below them in front.
LEMMA LowIs ==
    ASSUME NEW n \in Nat, NEW L, Digits(n, L), NEW B \in Seq(Nat), NEW p \in Nat, p = Len(B)
    PROVE  LET all == Reverse(B \o LowDigits(n)) IN
           /\ all \in Seq(Nat) /\ Len(all) = L + p /\ L \in Nat
           /\ \A i \in 1..L : all[i] = Quotients(n)[L - i] % NBase
           /\ \A i \in 1..p : all[L + i] = B[(p - i) + 1]
<1> DEFINE q == Quotients(n)
           D == LowDigits(n)
           low == B \o D
           all == Reverse(low)
<1>1. q \in [Nat -> Nat] /\ L \in Nat /\ D = [i \in 1..L |-> q[i - 1] % NBase]
  BY QuotientsAre DEF Digits
<1> HIDE DEF q, D
<1>2. ASSUME NEW i \in 1..L PROVE q[i - 1] % NBase \in Nat
  <2>1. i - 1 \in Nat
    BY <1>1
  <2>2. q[i - 1] \in Nat
    BY <1>1, <2>1
  <2> QED BY <2>2 DEF NBase
<1>3. D \in [1..L -> Nat] /\ L \in Nat
  BY <1>1, <1>2
<1>4. D \in Seq(Nat) /\ Len(D) = L
  BY <1>3, FunctionIsSeq
<1>5. /\ low \in Seq(Nat) /\ Len(low) = p + L
      /\ \A i \in 1..p : low[i] = B[i]
      /\ \A i \in 1..L : low[p + i] = D[i]
  BY <1>1, <1>4, JoinIs
<1>6. all = [i \in 1..(p + L) |-> low[((p + L) - i) + 1]]
  BY <1>5 DEF Reverse
<1> HIDE DEF low, all
<1>7. ASSUME NEW i \in 1..(p + L) PROVE low[((p + L) - i) + 1] \in Nat
  <2>1. ((p + L) - i) + 1 \in 1..(p + L)
    BY <1>1
  <2> QED BY <1>5, <2>1
<1>8. all \in [1..(p + L) -> Nat] /\ p + L \in Nat
  <2>1. p + L \in Nat
    BY <1>1
  <2> QED BY <1>6, <1>7, <2>1
<1>9. all \in Seq(Nat) /\ Len(all) = p + L
  BY <1>8, FunctionIsSeq
<1>10. ASSUME NEW i \in 1..L PROVE all[i] = q[L - i] % NBase
  <2>1. i \in 1..(p + L) /\ ((p + L) - i) + 1 = p + ((L - i) + 1) /\ (L - i) + 1 \in 1..L
        /\ ((L - i) + 1) - 1 = L - i
    BY <1>1
  <2>2. all[i] = low[p + ((L - i) + 1)]
    BY <1>6, <2>1
  <2>3. all[i] = D[(L - i) + 1]
    BY <1>5, <2>1, <2>2
  <2> QED BY <1>1, <2>1, <2>3
<1>11. ASSUME NEW i \in 1..p PROVE all[L + i] = B[(p - i) + 1]
  <2>1. L + i \in 1..(p + L) /\ ((p + L) - (L + i)) + 1 = (p - i) + 1 /\ (p - i) + 1 \in 1..p
    BY <1>1
  <2> QED BY <1>5, <1>6, <2>1
<1>12. /\ all \in Seq(Nat) /\ Len(all) = L + p /\ L \in Nat
       /\ \A i \in 1..L : all[i] = q[L - i] % NBase
       /\ \A i \in 1..p : all[L + i] = B[(p - i) + 1]
  BY <1>1, <1>9, <1>10, <1>11
<1> QED BY <1>12 DEF q, all, low, D

\* from_scaled spreads the number it is given.
LEMMA FromScaledIs ==
    ASSUME NEW a \in 1..MaxAcc, NEW s \in Nat, NEW sign
    PROVE  /\ FromScaled(a, s, sign).sign = sign
           /\ \E L, m : Spread(FromScaled(a, s, sign), a, s, L, m)
<1> DEFINE r == s % 4
           pad == IF r = 0 THEN 0 ELSE 4 - r
           u == Upper(a, s)
           B == IF r = 0 THEN <<>> ELSE <<Lower(a, s) * Pow10[pad]>>
           p == Odd(s)
           all == Reverse(B \o LowDigits(u))
           digits == TrimmedEnd(all)
           weight == IF digits = <<>> THEN 0 ELSE Len(all) - 1 - (s + pad) \div 4
           N == FromScaled(a, s, sign)
<1>1. N = [digits |-> digits, weight |-> weight, sign |-> sign]
  BY DEF FromScaled, Numeric, Width, Upper, Lower
<1>a. a \in Nat /\ a <= MaxAcc /\ a >= 1 /\ MaxAcc \in Nat
  BY AccIs
<1>2. /\ r \in 0..3 /\ u \in Nat /\ Lower(a, s) \in Nat /\ u <= a
      /\ a = u * Pow10[r] + Lower(a, s)
      /\ r = 0 => Lower(a, s) = 0 /\ u = a
  BY <1>a, PartsAre
<1>3. pad \in 0..3 /\ Pow10[pad] \in Nat /\ Pow10[pad] >= 1 /\ (s + pad) % 4 = 0
  BY SMTT(20), <1>2, PowIs
<1>4. p \in Nat /\ B \in Seq(Nat) /\ p = Len(B) /\ (r # 0 => B[1] = Lower(a, s) * Pow10[pad] /\ p = 1) /\ (r = 0 => p = 0)
  <2>1. Lower(a, s) * Pow10[pad] \in Nat
    BY <1>2, <1>3, ProductIs
  <2> QED BY <2>1 DEF Odd
<1> HIDE DEF N, u, B, p
<1>5. PICK L : Digits(u, L)
  BY <1>a, <1>2, LowDigitsAre
<1> DEFINE q == Quotients(u)
<1>6. /\ all \in Seq(Nat) /\ Len(all) = L + p /\ L \in Nat
      /\ \A i \in 1..L : all[i] = q[L - i] % NBase
      /\ \A i \in 1..p : all[L + i] = B[(p - i) + 1]
  <2>1. u \in Nat /\ B \in Seq(Nat) /\ p \in Nat /\ p = Len(B)
    BY <1>2, <1>4
  <2> QED BY SMTT(20), <1>5, <2>1, LowIs
<1> HIDE DEF all
<1>7. PICK m \in 0..Len(all) : /\ digits = SubSeq(all, 1, m)
                               /\ m > 0 => all[m] # 0
                               /\ \A i \in 1..Len(all) : i > m => all[i] = 0
  BY <1>6, TrimmedIs
<1> HIDE DEF digits
<1>8. q \in [Nat -> Nat] /\ q[0] = u /\ \A i \in Nat : q[i + 1] = q[i] \div NBase
  BY <1>2, QuotientsAre
<1>9. q[L] = 0 /\ \A i \in Nat : i < L => q[i] > 0
  BY <1>5 DEF Digits
<1> HIDE DEF q
<1>10. all[1] # 0 /\ L + p >= 1
  <2>1. CASE L >= 1
    <3>1. L - 1 \in Nat /\ (L - 1) + 1 = L /\ 1 \in 1..L
      BY <1>6, <2>1
    <3>2. q[L - 1] > 0 /\ q[L - 1] \div 10000 = 0 /\ q[L - 1] \in Nat
      BY <1>6, <1>8, <1>9, <3>1 DEF NBase
    <3>3. q[L - 1] % 10000 # 0
      BY <3>2
    <3> QED BY <1>4, <1>6, <2>1, <3>1, <3>3 DEF NBase
  <2>2. CASE L = 0
    <3>1. u = 0
      BY <1>8, <1>9, <2>2
    <3>2. Lower(a, s) = a /\ r # 0
      <4> HIDE DEF r
      <4>0. r \in Nat
        BY <1>2
      <4>1. Pow10[r] \in Nat
        BY <4>0, PowIs
      <4>2. u * Pow10[r] = 0
        BY <3>1, <4>1
      <4> QED BY <1>a, <1>2, <3>1, <4>2
    <3>p. p = 1 /\ 1 \in 1..p
      BY <1>4, <3>2
    <3>3. all[0 + 1] = B[(p - 1) + 1]
      BY <1>6, <2>2, <3>p
    <3>4. Lower(a, s) * Pow10[pad] >= 1
      <4> HIDE DEF pad
      <4>1. Lower(a, s) >= 1 /\ Lower(a, s) \in Nat /\ Pow10[pad] \in Nat /\ Pow10[pad] >= 1
        BY <1>a, <1>2, <1>3, <3>2
      <4> QED BY <4>1, ProductIs
    <3>5. all[1] = B[1]
      BY <3>p, <3>3
    <3> HIDE DEF pad
    <3> QED BY <1>4, <2>2, <3>2, <3>p, <3>4, <3>5
  <2> QED BY <1>6, <2>1, <2>2
<1>11. m >= 1
  BY <1>4, <1>6, <1>7, <1>10
<1>12. digits \in Seq(Nat) /\ Len(digits) = m /\ \A i \in 1..m : digits[i] = all[i]
  BY <1>6, <1>7
<1>13. digits # <<>> /\ weight = (L + p) - 1 - (s + pad) \div 4 /\ weight \in Int
  <2>1. digits # <<>>
    BY <1>11, <1>12
  <2>2. weight = Len(all) - 1 - (s + pad) \div 4 /\ (s + pad) \div 4 \in Int
    BY <1>3, <2>1
  <2> HIDE DEF weight, pad
  <2> QED BY <1>4, <1>6, <2>1, <2>2
<1> HIDE DEF weight, pad
<1>14. ASSUME NEW i \in Nat PROVE Exponent(N, s, i) = 4 * ((L + p) - i) - pad
  <2> DEFINE d == (s + pad) \div 4
  <2>1. 4 * d = s + pad /\ d \in Int
    BY <1>3
  <2>a. weight = (L + p) - 1 - d
    BY <1>13
  <2> HIDE DEF d
  <2>2. (weight - (i - 1)) * 4 + s = 4 * ((L + p) - i) - pad
    <3>1. L \in Nat /\ p \in Nat /\ pad \in Nat
      BY <1>3, <1>4, <1>6
    <3> HIDE DEF pad
    <3> QED BY <2>1, <2>a, <3>1
  <2>3. N.weight = weight
    BY <1>1
  <2> QED BY <2>2, <2>3 DEF Exponent, Width
<1>15. ASSUME NEW i \in 1..L
       PROVE  IF i <= m THEN digits[i] = q[L - i] % NBase ELSE q[L - i] % NBase = 0
  <2>1. i \in 1..Len(all) /\ all[i] = q[L - i] % NBase
    BY SMTT(20), <1>4, <1>6
  <2>2. CASE i <= m
    <3>1. i \in 1..m
      BY <1>6, <1>7, <2>2
    <3> QED BY <1>12, <2>1, <2>2, <3>1
  <2>3. CASE ~(i <= m)
    <3>1. i > m
      BY <1>6, <1>7, <2>3
    <3> QED BY <1>7, <2>1, <2>3, <3>1
  <2> QED BY <2>2, <2>3
<1>16. ASSUME m <= L PROVE p = 0 \/ Lower(a, s) = 0
  <2> SUFFICES ASSUME p # 0 PROVE Lower(a, s) = 0
    OBVIOUS
  <2>1. p = 1 /\ r # 0 /\ L + 1 \in 1..Len(all) /\ L + 1 > m
    BY SMTT(20), <1>4, <1>6, <1>16
  <2>2. all[L + 1] = B[(p - 1) + 1] /\ all[L + 1] = 0 /\ (p - 1) + 1 = 1
    BY <1>6, <1>7, <2>1
  <2>3. Lower(a, s) * Pow10[pad] = 0
    BY <1>4, <2>1, <2>2
  <2> QED BY <1>2, <1>3, <2>3, ProductIs
<1>17. ASSUME m > L PROVE digits[m] = Lower(a, s) * Pow10[4 - r]
  <2>0. m \in 0..(L + p) /\ m \in Nat
    BY <1>4, <1>6, <1>7
  <2>a. r = 0 => p = 0
    BY <1>4
  <2>b. r # 0 => p = 1
    BY <1>4
  <2>1. p = 1 /\ r # 0 /\ m = L + 1 /\ m \in 1..m /\ (p - 1) + 1 = 1
    <3> HIDE DEF r
    <3> QED BY <1>6, <1>11, <1>17, <2>0, <2>a, <2>b
  <2>2. all[L + 1] = B[1]
    BY <1>6, <2>1
  <2>3. pad = 4 - r
    BY <2>1 DEF pad
  <2> QED BY <1>4, <1>12, <2>1, <2>2, <2>3
<1>18. Spread(N, a, s, L, m)
  <2>1. N.digits = digits /\ N.weight = weight
    BY <1>1
  <2>2. Digits(Upper(a, s), L) /\ m \in 1..(L + Odd(s))
    BY <1>5, <1>6, <1>7, <1>11 DEF u, p
  <2>3. N.digits \in Seq(Nat) /\ Len(N.digits) = m /\ N.weight \in Int
    BY <1>12, <1>13, <2>1
  <2>4. \A i \in 1..L : IF i <= m THEN N.digits[i] = Quotients(Upper(a, s))[L - i] % NBase
                         ELSE Quotients(Upper(a, s))[L - i] % NBase = 0
    BY <1>15, <2>1 DEF q, u
  <2>5. m <= L => Odd(s) = 0 \/ Lower(a, s) = 0
    BY <1>16 DEF p
  <2>6. m > L => N.digits[m] = Lower(a, s) * Pow10[4 - (s % 4)]
    BY <1>17, <2>1
  <2>7. \A i \in Nat : Exponent(N, s, i) = 4 * ((L + Odd(s)) - i) - (IF s % 4 = 0 THEN 0 ELSE 4 - (s % 4))
    BY <1>14 DEF pad, p
  <2> QED BY <2>2, <2>3, <2>4, <2>5, <2>6, <2>7 DEF Spread
<1> QED BY <1>1, <1>18 DEF N

\* Quotients do not grow.
LEMMA QuotientBound ==
    ASSUME NEW n \in Nat, NEW i \in Nat
    PROVE  /\ Quotients(n)[i] \in Nat /\ Quotients(n)[i] <= n
           /\ Quotients(n)[i + 1] = Quotients(n)[i] \div 10000
           /\ Quotients(n)[i] = Quotients(n)[i + 1] * 10000 + (Quotients(n)[i] % NBase)
           /\ Quotients(n)[i] % NBase \in Nat
<1> DEFINE q == Quotients(n)
<1>1. q \in [Nat -> Nat] /\ q[0] = n /\ \A k \in Nat : q[k + 1] = q[k] \div NBase
  BY QuotientsAre
<1> HIDE DEF q
<1>2. ASSUME NEW k \in Nat
      PROVE /\ q[k] \in Nat /\ q[k + 1] = q[k] \div 10000 /\ q[k + 1] \in Nat
            /\ q[k] = q[k + 1] * 10000 + (q[k] % 10000) /\ q[k] % 10000 \in Nat
  <2>1. q[k] \in Nat /\ q[k + 1] = q[k] \div 10000
    BY <1>1 DEF NBase
  <2> QED BY <2>1
<1> DEFINE T == {k \in Nat : q[k] <= n}
<1>3. 0 \in T
  BY <1>1
<1>4. ASSUME NEW k \in Nat, k \in T PROVE k + 1 \in T
  <2>1. q[k + 1] <= q[k]
    BY <1>2
  <2>2. q[k] <= n /\ q[k] \in Nat /\ q[k + 1] \in Nat
    BY <1>2, <1>4
  <2> QED BY <2>1, <2>2
<1> HIDE DEF T
<1>5. i \in T
  BY <1>3, <1>4, SetInduction
<1> QED BY <1>2, <1>5 DEF T, q, NBase

\* Where the lowest k digits are zero, the rest stands for the number.
LEMMA ZerosBelow ==
    ASSUME NEW n \in Nat, NEW k \in Nat, \A j \in Nat : j < k => Quotients(n)[j] % NBase = 0
    PROVE  n = Quotients(n)[k] * Pow10[4 * k]
<1> DEFINE q == Quotients(n)
           T == {j \in Nat : j <= k => n = q[j] * Pow10[4 * j]}
<1>0. q[0] = n
  BY QuotientsAre
<1>1. 0 \in T
  BY <1>0, PowIs
<1>2. ASSUME NEW j \in Nat, j \in T PROVE j + 1 \in T
  <2> SUFFICES ASSUME j + 1 <= k PROVE n = q[j + 1] * Pow10[4 * (j + 1)]
    OBVIOUS
  <2>1. n = q[j] * Pow10[4 * j] /\ q[j] % NBase = 0
    BY <1>2
  <2>2. q[j] = q[j + 1] * 10000 + (q[j] % NBase) /\ q[j] \in Nat /\ q[j + 1] \in Nat
    <3>1. j + 1 \in Nat
      OBVIOUS
    <3>2. q[j + 1] \in Nat
      BY <3>1, QuotientBound
    <3>3. q[j] = q[j + 1] * 10000 + (q[j] % NBase) /\ q[j] \in Nat
      BY QuotientBound
    <3> QED BY <3>2, <3>3
  <2>3. Pow10[4 * j + 4] = 10000 * Pow10[4 * j] /\ Pow10[4 * j] \in Nat
    <3>1. 4 * j \in Nat
      OBVIOUS
    <3>2. Pow10[4 * j] \in Nat
      BY <3>1, PowIs
    <3>3. Pow10[4 * j + 4] = 10000 * Pow10[4 * j]
      BY <3>1, PowDigit
    <3> QED BY <3>2, <3>3
  <2> DEFINE x == q[j + 1]
             y == Pow10[4 * j]
  <2>4. q[j] = x * 10000 /\ x \in Nat /\ y \in Nat
    BY <2>1, <2>2, <2>3
  <2>5. 4 * (j + 1) = 4 * j + 4
    OBVIOUS
  <2> HIDE DEF x, y
  <2>6. (x * 10000) * y = x * (10000 * y)
    BY <2>4
  <2> QED BY <2>1, <2>3, <2>4, <2>5, <2>6 DEF x, y
<1> HIDE DEF T
<1>3. k \in T
  BY <1>1, <1>2, SetInduction
<1> QED BY <1>3 DEF T

\* A power of ten is a product of powers.
LEMMA PowParts ==
    ASSUME NEW k \in Nat, NEW r \in 0..3
    PROVE  Pow10[k + r] = Pow10[r] * Pow10[k]
<1>1. Pow10[k] \in Nat /\ Pow10[0] = 1 /\ Pow10[1] = 10 /\ Pow10[2] = 100 /\ Pow10[3] = 1000
  BY PowIs, SmallPows
<1>2. Pow10[k + 1] = 10 * Pow10[k] /\ Pow10[(k + 1) + 1] = 10 * Pow10[k + 1]
      /\ Pow10[(k + 2) + 1] = 10 * Pow10[k + 2]
  BY PowIs
<1>3. (k + 1) + 1 = k + 2 /\ (k + 2) + 1 = k + 3 /\ k + 0 = k
  OBVIOUS
<1>4. Pow10[k + 1] = 10 * Pow10[k] /\ Pow10[k + 2] = 100 * Pow10[k] /\ Pow10[k + 3] = 1000 * Pow10[k]
  BY <1>1, <1>2, <1>3
<1>5. r = 0 \/ r = 1 \/ r = 2 \/ r = 3
  OBVIOUS
<1>6. CASE r = 0
  BY <1>1, <1>3, <1>6
<1> QED BY <1>1, <1>4, <1>5, <1>6

\* While no digit below the scale is reached, the loop holds a quotient.
LEMMA LoopIs ==
    ASSUME NEW a \in 1..MaxAcc, NEW s \in Nat, NEW N, NEW L, NEW m, Spread(N, a, s, L, m)
    PROVE  \A i \in 0..m : i <= L => Taken(N, s)[i] = [acc |-> Decimal(Quotients(Upper(a, s))[L - i]),
                                                       done |-> FALSE]
<1> DEFINE u == Upper(a, s)
           q == Quotients(u)
           X == Taken(N, s)
           T == {i \in Nat : i <= m /\ i <= L => X[i] = [acc |-> Decimal(q[L - i]), done |-> FALSE]}
<1>1. /\ Digits(u, L) /\ L \in Nat /\ m \in Nat
      /\ N.digits \in Seq(Nat) /\ Len(N.digits) = m /\ N.weight \in Int
      /\ \A i \in 1..L : i <= m => N.digits[i] = q[L - i] % NBase
      /\ \A i \in Nat : Exponent(N, s, i) = 4 * ((L + Odd(s)) - i) - (IF s % 4 = 0 THEN 0 ELSE 4 - (s % 4))
  BY DEF Spread, Digits, Odd
<1>2. u \in Nat /\ u <= MaxAcc /\ MaxAcc \in Nat /\ MaxPow >= 4 /\ MaxPow \in Nat
  <2>1. a \in Nat /\ a <= MaxAcc /\ MaxAcc \in Nat /\ MaxPow >= 4 /\ MaxPow \in Nat
    BY AccIs
  <2>2. Upper(a, s) \in Nat /\ Upper(a, s) <= a
    BY <2>1, PartsAre
  <2> QED BY <2>1, <2>2
<1>3. X[0] = [acc |-> Decimal(0), done |-> FALSE] /\ \A i \in 1..m : X[i] = TakeDigit(N, s, X[i - 1], i)
  <2>1. Taken(N, s)[0] = [acc |-> Decimal(0), done |-> FALSE]
        /\ \A i \in 1..Len(N.digits) : Taken(N, s)[i] = TakeDigit(N, s, Taken(N, s)[i - 1], i)
    <3>1. N.digits \in Seq(Nat) /\ N.weight \in Int /\ s \in Int
      BY <1>1
    <3> QED BY <3>1, TakenIs
  <2> QED BY <1>1, <2>1
<1>4. q[L] = 0
  BY <1>1 DEF Digits
<1> HIDE DEF u
<1>5. ASSUME NEW i \in Nat
      PROVE /\ q[i] \in Nat /\ q[i] <= u /\ q[i + 1] = q[i] \div 10000
            /\ q[i] = q[i + 1] * 10000 + (q[i] % NBase) /\ q[i] % NBase \in Nat
  <2>1. u \in Nat
    BY <1>2
  <2>2. /\ Quotients(u)[i] \in Nat /\ Quotients(u)[i] <= u
        /\ Quotients(u)[i + 1] = Quotients(u)[i] \div 10000
        /\ Quotients(u)[i] = Quotients(u)[i + 1] * 10000 + (Quotients(u)[i] % NBase)
        /\ Quotients(u)[i] % NBase \in Nat
    <3>1. Quotients(u)[i] \in Nat
      BY <2>1, QuotientBound
    <3>2. Quotients(u)[i] <= u
      BY <2>1, QuotientBound
    <3>3. Quotients(u)[i + 1] = Quotients(u)[i] \div 10000
      BY <2>1, QuotientBound
    <3>4. Quotients(u)[i] = Quotients(u)[i + 1] * 10000 + (Quotients(u)[i] % NBase)
      BY <2>1, QuotientBound
    <3>5. Quotients(u)[i] % NBase \in Nat
      BY <3>1 DEF NBase
    <3> QED BY <3>1, <3>2, <3>3, <3>4, <3>5
  <2> QED BY <2>2
<1> HIDE DEF q, X, u
<1>6. 0 \in T
  <2>1. L - 0 = L
    BY <1>1
  <2> QED BY <1>3, <1>4, <2>1
<1>7. ASSUME NEW i \in Nat, i \in T PROVE i + 1 \in T
  <2> SUFFICES ASSUME i + 1 <= m, i + 1 <= L
               PROVE X[i + 1] = [acc |-> Decimal(q[L - (i + 1)]), done |-> FALSE]
    OBVIOUS
  <2> DEFINE k == L - (i + 1)
             e == Exponent(N, s, i + 1)
             d == N.digits[i + 1]
  <2>1. k \in Nat /\ k + 1 = L - i /\ i + 1 \in 1..m /\ i + 1 \in 1..L /\ (i + 1) - 1 = i
    BY <1>1
  <2>2. X[i] = [acc |-> Decimal(q[k + 1]), done |-> FALSE]
    <3>1. i <= m /\ i <= L
      BY <1>1
    <3>2. X[i] = [acc |-> Decimal(q[L - i]), done |-> FALSE]
      BY <1>7, <3>1
    <3> QED BY <2>1, <3>2
  <2>3. d = q[k] % NBase
    BY <1>1, <2>1
  <2>4. e >= 0 /\ e \in Int
    <3>1. s % 4 \in 0..3 /\ Odd(s) = (IF s % 4 = 0 THEN 0 ELSE 1)
      BY DEF Odd
    <3>2. e = 4 * ((L + Odd(s)) - (i + 1)) - (IF s % 4 = 0 THEN 0 ELSE 4 - (s % 4))
      BY <1>1
    <3> HIDE DEF e
    <3> QED BY <1>1, <3>1, <3>2
  <2>5. X[i + 1] = TakeDigit(N, s, X[i], i + 1)
    BY <1>3, <2>1
  <2>6. X[i + 1] = [X[i] EXCEPT !.acc = Add(IF i + 1 = 1 THEN @ ELSE Shift(@, Width), d)]
    BY <2>2, <2>4, <2>5 DEF TakeDigit
  <2> DEFINE acc == IF i + 1 = 1 THEN Decimal(q[k + 1]) ELSE Shift(Decimal(q[k + 1]), Width)
  <2>7. X[i + 1] = [acc |-> Add(acc, d), done |-> FALSE]
    <3> DEFINE Y == Decimal(q[k + 1])
    <3>1. X[i] = [acc |-> Y, done |-> FALSE]
      BY <2>2
    <3> HIDE DEF d, k, Y
    <3>2. X[i + 1] = [[acc |-> Y, done |-> FALSE] EXCEPT !.acc = Add(IF i + 1 = 1 THEN @ ELSE Shift(@, Width), d)]
      BY <2>6, <3>1
    <3>3. X[i + 1] = [acc |-> Add(IF i + 1 = 1 THEN Y ELSE Shift(Y, Width), d), done |-> FALSE]
      BY <3>2
    <3> QED BY <3>3 DEF Y
  <2> HIDE DEF e
  <2>8. /\ q[k] \in Nat /\ q[k] <= u /\ q[k + 1] \in Nat /\ q[k + 1] <= u /\ d \in Nat
        /\ q[k] = q[k + 1] * 10000 + d
    BY <1>5, <2>1, <2>3
  <2> HIDE DEF k, d
  <2>9. Decimal(q[k + 1]) \in Sum
    BY <1>2, <2>8 DEF Decimal, Sum
  <2>10. acc = Decimal(q[k + 1] * 10000)
    <3>1. CASE i + 1 = 1
      <4>1. q[k + 1] = 0
        <5>1. i = 0 /\ L - 0 = L
          BY <1>1, <3>1
        <5> QED BY <1>4, <2>1, <5>1
      <4> QED BY <3>1, <4>1
    <3>2. CASE i + 1 # 1
      <4>1. Decimal(q[k + 1]).ok /\ Decimal(q[k + 1]).v = q[k + 1] /\ Pow10[4] = 10000
        BY SmallPows DEF Decimal, NBase
      <4>2. q[k + 1] * 10000 <= MaxAcc
        BY <1>2, <2>8
      <4>3. Shift(Decimal(q[k + 1]), 4) = Decimal(q[k + 1] * 10000)
        BY SMTT(20), <1>2, <2>9, <4>1, <4>2, ShiftIs
      <4> QED BY <3>2, <4>3 DEF Width
    <3> QED BY <3>1, <3>2
  <2>11. acc \in Sum /\ acc.ok /\ acc.v = q[k + 1] * 10000 /\ q[k + 1] * 10000 + d <= MaxAcc
    <3>1. q[k + 1] * 10000 \in 0..MaxAcc /\ q[k + 1] * 10000 + d <= MaxAcc
      BY <1>2, <2>8
    <3> HIDE DEF acc
    <3> QED BY <2>10, <3>1 DEF Decimal, Sum
  <2> HIDE DEF acc
  <2>12. Add(acc, d) = Decimal(q[k + 1] * 10000 + d)
    <3>1. acc \in Sum /\ d \in Nat /\ acc.ok /\ acc.v + d <= MaxAcc
      BY <2>8, <2>11
    <3>2. Add(acc, d) = Decimal(acc.v + d)
      BY <3>1, AddIs
    <3> QED BY <2>11, <3>2
  <2>13. X[i + 1] = [acc |-> Decimal(q[k]), done |-> FALSE]
    BY <2>7, <2>8, <2>12
  <2> QED BY <2>13 DEF k
<1> HIDE DEF T
<1>8. \A i \in Nat : i \in T
  BY <1>6, <1>7, SetInduction
<1>9. \A i \in 0..m : i <= L => X[i] = [acc |-> Decimal(q[L - i]), done |-> FALSE]
  BY <1>8 DEF T
<1> QED BY <1>9 DEF q, X, u

\* What the loop over all digits leaves, moved to the scale.
Gathered(N, s) ==
    LET end  == Taken(N, s)[Len(N.digits)]
        last == Exponent(N, s, Len(N.digits))
    IN  IF end.done \/ N.digits = <<>> \/ last <= 0 THEN end.acc ELSE Shift(end.acc, last)

\* Where all the digits that are left stand above the cut, to_decimal gathers the
\* number,
LEMMA GatheredAbove ==
    ASSUME NEW a \in 1..MaxAcc, NEW s \in Nat, NEW N, NEW L, NEW m, Spread(N, a, s, L, m), m <= L
    PROVE  Gathered(N, s) = Decimal(a)
<1> DEFINE u == Upper(a, s)
           q == Quotients(u)
           r == s % 4
           k == L - m
           last == Exponent(N, s, m)
<1>0. a \in Nat /\ a >= 1 /\ a <= MaxAcc /\ MaxAcc \in Nat /\ MaxPow \in Nat /\ MaxAcc < Pow10[MaxPow + 1]
  BY AccIs
<1>1. /\ L \in Nat /\ m \in Nat /\ m >= 1 /\ k \in Nat
      /\ N.digits \in Seq(Nat) /\ Len(N.digits) = m /\ N.digits # <<>>
  <2>1. L \in Nat /\ m \in 1..(L + Odd(s)) /\ N.digits \in Seq(Nat) /\ Len(N.digits) = m
    BY DEF Spread, Digits
  <2>2. Odd(s) \in Nat
    BY DEF Odd
  <2> QED BY <2>1, <2>2
<1>2. r \in 0..3 /\ u \in Nat /\ a = u * Pow10[r]
  <2>1. /\ r \in 0..3 /\ u \in Nat /\ a = u * Pow10[r] + Lower(a, s)
        /\ r = 0 => Lower(a, s) = 0
        /\ u * Pow10[r] \in Nat
    BY <1>0, PartsAre
  <2>2. Odd(s) = 0 \/ Lower(a, s) = 0
    BY DEF Spread
  <2>3. Lower(a, s) = 0
    BY <2>1, <2>2 DEF Odd
  <2> HIDE DEF u, r
  <2> QED BY <2>1, <2>3
<1>3. last = 4 * k + r
  <2>1. last = 4 * ((L + Odd(s)) - m) - (IF r = 0 THEN 0 ELSE 4 - r)
    BY <1>1 DEF Spread
  <2>2. Odd(s) = IF r = 0 THEN 0 ELSE 1
    BY DEF Odd
  <2> HIDE DEF last, r
  <2> QED BY <1>1, <1>2, <2>1, <2>2
<1>4. Taken(N, s)[m] = [acc |-> Decimal(q[k]), done |-> FALSE]
  <2>1. m \in 0..m
    BY <1>1
  <2> QED BY <2>1, LoopIs
<1>5. u = q[k] * Pow10[4 * k]
  <2>1. ASSUME NEW j \in Nat, j < k PROVE q[j] % NBase = 0
    <3>1. L - j \in 1..L /\ ~(L - j <= m) /\ L - (L - j) = j
      BY <1>1, <2>1
    <3>2. \A i \in 1..L : IF i <= m THEN N.digits[i] = q[L - i] % NBase ELSE q[L - i] % NBase = 0
      BY DEF Spread
    <3> HIDE DEF q
    <3> QED BY <3>1, <3>2
  <2>2. k \in Nat /\ u \in Nat
    BY <1>1, <1>2
  <2> HIDE DEF k, u
  <2> QED BY <2>1, <2>2, ZerosBelow
<1>6. q[k] \in Nat
  <2>1. k \in Nat /\ u \in Nat
    BY <1>1, <1>2
  <2> HIDE DEF k, u
  <2> QED BY <2>1, QuotientBound
<1> DEFINE x == q[k]
<1> HIDE DEF u, q, r, k, last
<1>7. Pow10[last] = Pow10[r] * Pow10[4 * k] /\ last \in Nat /\ Pow10[r] \in Nat /\ Pow10[4 * k] \in Nat /\ Pow10[last] \in Nat
  <2>1. 4 * k \in Nat /\ r \in Nat /\ last \in Nat
    BY <1>1, <1>2, <1>3
  <2>2. Pow10[4 * k + r] = Pow10[r] * Pow10[4 * k]
    BY <1>2, <2>1, PowParts
  <2>3. Pow10[r] \in Nat /\ Pow10[4 * k] \in Nat /\ Pow10[last] \in Nat
    BY <2>1, PowIs
  <2> QED BY <1>3, <2>1, <2>2, <2>3
<1>8. a = x * Pow10[last]
  <2> DEFINE y == Pow10[4 * k]
             z == Pow10[r]
  <2>1. a = (x * y) * z /\ x \in Nat /\ y \in Nat /\ z \in Nat /\ Pow10[last] = z * y
    BY <1>2, <1>5, <1>6, <1>7
  <2> HIDE DEF x, y, z
  <2>2. (x * y) * z = x * (z * y)
    BY <2>1
  <2> QED BY <2>1, <2>2
<1>9. x >= 1 /\ x \in Nat
  <2>1. x # 0
    BY <1>0, <1>7, <1>8
  <2> QED BY <1>6, <2>1
<1>10. last <= MaxPow
  <2> SUFFICES ASSUME ~(last <= MaxPow) PROVE FALSE
    OBVIOUS
  <2>1. MaxPow + 1 \in Nat /\ MaxPow + 1 <= last
    BY <1>0, <1>7
  <2>2. Pow10[MaxPow + 1] <= Pow10[last] /\ Pow10[MaxPow + 1] \in Nat
    BY <1>7, <2>1, PowGrows, PowIs
  <2>3. x * Pow10[last] >= Pow10[last]
    BY <1>7, <1>9, ProductIs
  <2> HIDE DEF x
  <2> QED BY <1>0, <1>7, <1>8, <2>2, <2>3
<1>11. Decimal(x) \in Sum /\ Decimal(x).ok /\ Decimal(x).v = x
  <2>1. x <= a
    <3>1. Pow10[last] >= 1
      BY <1>7, PowIs
    <3>2. x * Pow10[last] >= x
      BY <1>7, <1>9, <3>1, ProductIs
    <3> HIDE DEF x
    <3> QED BY <1>8, <3>2
  <2>2. x \in 0..MaxAcc
    BY <1>0, <1>9, <2>1
  <2> HIDE DEF x
  <2> QED BY <2>2 DEF Sum, Decimal
<1>12. Shift(Decimal(x), last) = Decimal(a)
  <2> HIDE DEF x
  <2>1. Decimal(x).v * Pow10[last] <= MaxAcc
    BY <1>0, <1>8, <1>11
  <2>2. Shift(Decimal(x), last) = Decimal(Decimal(x).v * Pow10[last])
    BY <1>7, <1>10, <1>11, <2>1, ShiftIs
  <2> QED BY <1>8, <1>11, <2>2
<1>13. Gathered(N, s) = IF last <= 0 THEN Decimal(x) ELSE Shift(Decimal(x), last)
  BY <1>1, <1>4 DEF Gathered, last, x
<1>14. last <= 0 => x = a
  <2> HIDE DEF x
  <2>1. last <= 0 => last = 0
    BY <1>7
  <2>2. Pow10[0] = 1
    BY PowIs
  <2> QED BY <1>8, <1>9, <2>1, <2>2
<1> HIDE DEF x
<1> QED BY <1>12, <1>13, <1>14

\* and where the last of them is the one below it.
LEMMA GatheredBelow ==
    ASSUME NEW a \in 1..MaxAcc, NEW s \in Nat, NEW N, NEW L, NEW m, Spread(N, a, s, L, m), m > L
    PROVE  Gathered(N, s) = Decimal(a)
<1> DEFINE u == Upper(a, s)
           q == Quotients(u)
           r == s % 4
           low == Lower(a, s)
           pad == 4 - r
<1>0. a \in Nat /\ a >= 1 /\ a <= MaxAcc /\ MaxAcc \in Nat /\ MaxPow \in Nat /\ MaxPow >= 4
  BY AccIs
<1>1. /\ L \in Nat /\ m = L + 1 /\ Odd(s) = 1 /\ r # 0
      /\ N.digits \in Seq(Nat) /\ Len(N.digits) = m /\ N.digits # <<>> /\ N.weight \in Int
      /\ N.digits[m] = low * Pow10[pad]
      /\ q[L] = 0
  <2>1. L \in Nat /\ m \in 1..(L + Odd(s)) /\ N.digits \in Seq(Nat) /\ Len(N.digits) = m
        /\ N.digits[m] = low * Pow10[pad] /\ q[L] = 0 /\ N.weight \in Int
    BY DEF Spread, Digits
  <2>2. Odd(s) = IF r = 0 THEN 0 ELSE 1
    BY DEF Odd
  <2> HIDE DEF r, q, low, pad
  <2>3. Odd(s) = 1 /\ r # 0 /\ m = L + 1 /\ m >= 1
    BY <2>1, <2>2
  <2> QED BY <2>1, <2>3
<1>2. /\ r \in 1..3 /\ pad \in 1..3 /\ u \in Nat /\ low \in Nat /\ a = u * Pow10[r] + low
      /\ u * Pow10[r] \in Nat /\ u <= a
  <2>1. /\ r \in 0..3 /\ u \in Nat /\ low \in Nat /\ a = u * Pow10[r] + low
        /\ u * Pow10[r] \in Nat /\ u <= a
    BY <1>0, PartsAre
  <2>2. r \in 1..3 /\ pad \in 1..3
    <3> HIDE DEF r
    <3> QED BY <1>1, <2>1
  <2> QED BY <2>1, <2>2
<1>3. Taken(N, s)[L] = [acc |-> Decimal(u), done |-> FALSE]
  <2>1. L \in 0..m /\ L <= L /\ L - L = 0
    BY <1>1
  <2>2. q[0] = u
    <3>1. u \in Nat
      BY <1>2
    <3> HIDE DEF u
    <3> QED BY <3>1, QuotientsAre
  <2>3. Taken(N, s)[L] = [acc |-> Decimal(q[L - L]), done |-> FALSE]
    BY <2>1, LoopIs
  <2> QED BY <2>1, <2>2, <2>3
<1>4. Taken(N, s)[m] = TakeDigit(N, s, Taken(N, s)[L], m)
  <2>1. N.digits \in Seq(Nat) /\ N.weight \in Int /\ s \in Int /\ m \in 1..Len(N.digits) /\ m - 1 = L
    BY <1>1
  <2>2. \A i \in 1..Len(N.digits) : Taken(N, s)[i] = TakeDigit(N, s, Taken(N, s)[i - 1], i)
    BY <2>1, TakenIs
  <2> QED BY <2>1, <2>2
<1> DEFINE e == Exponent(N, s, m)
<1>5. e = 0 - pad /\ e + 4 = r /\ 0 - e = pad /\ e < 0
  <2>1. e = 4 * ((L + Odd(s)) - m) - (IF r = 0 THEN 0 ELSE 4 - r)
    BY <1>1 DEF Spread
  <2> HIDE DEF e, r
  <2>2. e = 0 - (4 - r) /\ r \in 1..3
    BY <1>1, <1>2, <2>1
  <2> QED BY <2>2
<1>6. Pow10[r] \in Nat /\ Pow10[pad] \in Nat /\ Pow10[pad] >= 1
  <2>1. r \in Nat /\ pad \in Nat
    BY <1>2
  <2> QED BY <2>1, PowIs
<1>7. Decimal(u) \in Sum /\ Decimal(u).ok /\ Decimal(u).v = u
  <2>1. u \in 0..MaxAcc
    <3> HIDE DEF u
    <3> QED BY <1>0, <1>2
  <2> HIDE DEF u
  <2> QED BY <2>1 DEF Sum, Decimal
<1> DEFINE high == IF m > 1 /\ e + Width > 0 THEN Shift(Decimal(u), e + Width) ELSE Decimal(u)
           b == u * Pow10[r]
<1>8. high = Decimal(b)
  <2>1. CASE m > 1
    <3>1. high = Shift(Decimal(u), r)
      BY <1>2, <1>5, <2>1 DEF Width
    <3>2. r \in Nat /\ r <= MaxPow
      BY <1>0, <1>2
    <3>3. Decimal(u).v * Pow10[r] <= MaxAcc
      <4> HIDE DEF r, u, low
      <4> QED BY <1>0, <1>2, <1>7
    <3>4. Shift(Decimal(u), r) = Decimal(Decimal(u).v * Pow10[r])
      <4> HIDE DEF r, u
      <4> QED BY <1>7, <3>2, <3>3, ShiftIs
    <3> QED BY <1>7, <3>1, <3>4
  <2>2. CASE ~(m > 1)
    <3>1. L = 0
      BY <1>1, <2>2
    <3>2. u = 0
      <4>1. u \in Nat
        BY <1>2
      <4> HIDE DEF u
      <4>2. Quotients(u)[0] = u
        BY <4>1, QuotientsAre
      <4> QED BY <1>1, <3>1, <4>2
    <3>3. b = 0
      <4> HIDE DEF r, u
      <4> QED BY <1>6, <3>2
    <3>4. high = Decimal(u)
      BY <2>2
    <3> HIDE DEF high, b, u
    <3> QED BY <3>2, <3>3, <3>4
  <2> QED BY <2>1, <2>2
<1> HIDE DEF u, q, r, low, pad, e
<1>9. N.digits[m] \div Pow10[pad] = low
  <2> DEFINE p == Pow10[pad]
  <2>1. p \in Nat /\ p >= 1 /\ low \in Nat /\ low * p \in Nat
    BY <1>2, <1>6, ProductIs
  <2> HIDE DEF p
  <2>2. (low * p) \div p = low
    <3> DEFINE d == (low * p) \div p
    <3>1. d \in Nat
      BY <2>1, QuotientIs
    <3>2. low <= d <=> low * p <= low * p
      BY <2>1, FitsTimes
    <3>3. low <= d
      BY <2>1, <3>2
    <3>4. low + 1 <= d <=> (low + 1) * p <= low * p
      <4>1. low + 1 \in Nat
        BY <2>1
      <4> HIDE DEF d
      <4> QED BY <2>1, <4>1, FitsTimes DEF d
    <3>5. (low + 1) * p = low * p + p
      BY <2>1
    <3> HIDE DEF d
    <3>6. ~(low + 1 <= d)
      BY <2>1, <3>4, <3>5
    <3> QED BY <2>1, <3>1, <3>3, <3>6 DEF d
  <2> QED BY <1>1, <2>2 DEF p
<1>10. high \in Sum /\ high.ok /\ high.v = b /\ b + low = a
  <2>1. b \in 0..MaxAcc /\ b + low = a
    <3>1. b \in Nat /\ low \in Nat /\ a = b + low
      BY <1>2
    <3> HIDE DEF b
    <3> QED BY <1>0, <3>1
  <2> HIDE DEF b, high
  <2> QED BY <1>8, <2>1 DEF Sum, Decimal
<1>11. Add(high, low) = Decimal(a)
  <2> HIDE DEF high, b
  <2>1. high.v + low <= MaxAcc /\ high.v + low = a
    BY <1>0, <1>10
  <2>2. low \in Nat
    BY <1>2
  <2>3. Add(high, low) = Decimal(high.v + low)
    BY <1>10, <2>1, <2>2, AddIs
  <2> QED BY <2>1, <2>3
<1>12. Taken(N, s)[m] = [acc |-> Add(high, low), done |-> TRUE]
  <2>1. ~(0 - e > MaxPow) /\ e < 0
    BY <1>0, <1>2, <1>5
  <2>2. Taken(N, s)[m] = TakeDigit(N, s, [acc |-> Decimal(u), done |-> FALSE], m)
    BY <1>3, <1>4
  <2>3. TakeDigit(N, s, [acc |-> Decimal(u), done |-> FALSE], m)
          = [acc |-> Add(high, N.digits[m] \div Pow10[0 - e]), done |-> TRUE]
    BY <2>1 DEF TakeDigit, e
  <2>4. N.digits[m] \div Pow10[0 - e] = low
    BY <1>5, <1>9
  <2> QED BY <2>2, <2>3, <2>4
<1> HIDE DEF high, b
<1> QED BY <1>1, <1>11, <1>12 DEF Gathered

\* A number that is not zero comes back from the digits it was spread over.
LEMMA ScaledRoundTrip ==
    ASSUME NEW a \in 1..MaxAcc, NEW s \in Nat, NEW sign \in {"pos", "neg"}
    PROVE  ToDecimal(FromScaled(a, s, sign), s) = Decimal(IF sign = "neg" THEN 0 - a ELSE a)
<1> DEFINE N == FromScaled(a, s, sign)
<1>1. N.sign = sign
  BY FromScaledIs
<1>2. PICK L, m : Spread(N, a, s, L, m)
  BY FromScaledIs
<1>3. Gathered(N, s) = Decimal(a)
  <2>1. m \in Int /\ L \in Int
    <3>1. L \in Nat /\ m \in 1..(L + Odd(s)) /\ Odd(s) \in Nat
      BY <1>2 DEF Spread, Digits, Odd
    <3> QED BY <3>1
  <2> HIDE DEF N
  <2>2. CASE m <= L
    BY <1>2, <2>2, GatheredAbove
  <2>3. CASE m > L
    BY <1>2, <2>3, GatheredBelow
  <2> QED BY <2>1, <2>2, <2>3
<1> HIDE DEF N
<1>4. ToDecimal(N, s) = [Gathered(N, s) EXCEPT !.v = IF sign = "neg" THEN 0 - @ ELSE @]
  BY <1>1 DEF ToDecimal, Gathered
<1>5. ToDecimal(N, s) = [[ok |-> TRUE, v |-> a] EXCEPT !.v = IF sign = "neg" THEN 0 - @ ELSE @]
  BY <1>3, <1>4 DEF Decimal
<1>6. ToDecimal(N, s) = Decimal(IF sign = "neg" THEN 0 - a ELSE a)
  BY <1>5 DEF Decimal
<1> QED BY <1>6 DEF N

\* A decimal comes back from PostgreSQL's binary numeric as it was.
THEOREM DecimalRoundTrip ==
    ASSUME NEW v \in (0 - MaxAcc)..MaxAcc, NEW s \in Nat
    PROVE  ToDecimal(FromDecimal(v, s), s) = Decimal(v)
<1>0. MaxAcc \in Nat
  BY AccIs
<1>1. CASE v = 0
  <2> DEFINE N == Numeric(<<>>, 0, "pos")
  <2>1. N.digits = <<>> /\ N.weight = 0 /\ N.sign = "pos" /\ N.digits \in Seq(Nat) /\ Len(N.digits) = 0
    BY DEF Numeric
  <2>2. FromDecimal(v, s) = N
    BY <1>1 DEF FromDecimal
  <2> HIDE DEF N
  <2>3. Taken(N, s)[0] = [acc |-> Decimal(0), done |-> FALSE]
    <3>1. N.digits \in Seq(Nat) /\ N.weight \in Int /\ s \in Int
      BY <2>1
    <3> QED BY <3>1, TakenIs
  <2>a. Gathered(N, s) = Decimal(0)
    BY <2>1, <2>3 DEF Gathered
  <2>b. ToDecimal(N, s) = [Gathered(N, s) EXCEPT !.v = @]
    BY <2>1 DEF ToDecimal, Gathered
  <2>4. ToDecimal(N, s) = [[ok |-> TRUE, v |-> 0] EXCEPT !.v = @]
    BY <2>a, <2>b DEF Decimal
  <2> QED BY <1>1, <2>2, <2>4 DEF Decimal
<1>2. CASE v > 0
  <2>1. v \in 1..MaxAcc /\ FromDecimal(v, s) = FromScaled(v, s, "pos")
    BY <1>0, <1>2 DEF FromDecimal
  <2>2. ToDecimal(FromScaled(v, s, "pos"), s) = Decimal(IF "pos" = "neg" THEN 0 - v ELSE v)
    BY <2>1, ScaledRoundTrip
  <2> QED BY <2>1, <2>2
<1>3. CASE v < 0
  <2>1. 0 - v \in 1..MaxAcc /\ FromDecimal(v, s) = FromScaled(0 - v, s, "neg") /\ 0 - (0 - v) = v
    BY <1>0, <1>3 DEF FromDecimal
  <2>2. ToDecimal(FromScaled(0 - v, s, "neg"), s) = Decimal(IF "neg" = "neg" THEN 0 - (0 - v) ELSE 0 - v)
    BY <2>1, ScaledRoundTrip
  <2> QED BY <2>1, <2>2
<1> QED BY <1>0, <1>1, <1>2, <1>3

----------------------------------------------------------------------------
(* Attributes, driver by driver: PostGIS.                                  *)

AttributeCell(c, t, s, k, n, l, w) ==
    /\ t \in AttributeTypes /\ s \in Nat /\ k \in Kinds(t) \cup {"null"} /\ n \in Int /\ l \in BOOLEAN
    /\ w \in Input
    /\ Fits(t, [k |-> k, n |-> n, lost |-> l])
    /\ c = [at |-> "arrow", type |-> [t |-> t, s |-> s], v |-> [k |-> k, n |-> n, lost |-> l], w |-> w]

\* What a driver's reader has made of a cell.
PgTypes == {"Bool", "Int16", "Int32", "Int64", "Float32", "Float64", "Utf8", "Binary", "Date32",
            "Ts", "TsTz", "Decimal", "DecimalWide"}
Cut(v) == v.k = "time" => v.n <= 6

\* An attribute of a type that the reader of d yields, with a value that its
\* writer stores unchanged under the policy; a FlatGeobuf reader yields dates if
\* it has viewed the whole file and a date in it.
SettledAttribute(d, c, policy, view) ==
    LET t == c.type.t IN
    /\ t \notin Decimals /\ d \notin {"sqlserver", "parquet"} => c.type.s = 0
    /\ d = "postgis" => t \in PgTypes /\ (t \in Times => Cut(c.v))
    /\ d = "sqlserver" => /\ t \in PgTypes /\ (t \in Times => Cut(c.v) /\ c.v.k # "far")
                          /\ t \in Floats => c.v.k # "nan"
                          /\ t \in Decimals => ~TooWide(c.v)
    /\ d \in {"gpkg", "spatialite"} =>
          /\ t \in {"Bool", "Int64", "Float64", "Utf8", "Binary", "Date32", "Ts"}
          /\ t = "Ts" => Cut(c.v)
          /\ t = "Float64" => c.v.k # "nan"
    /\ d = "fgb" => /\ t \in {"Bool", "Utf8", "Binary", "Date32", "TsTz"} \cup Ints \cup Floats
                    /\ t = "TsTz" => Cut(c.v)
                    /\ t = "Date32" => view # "cut" /\ (view = "filled" \/ c.v.k # "null")
                    /\ BeyondI64(t, c.v) => policy # "error"
    /\ d = "shp" => /\ t \in {"Utf8", "Float64", "Bool", "Date32"}
                    /\ t = "Utf8" => ~TooLong(c.v) /\ ~(c.v.k = "text" /\ c.v.n = 0)
    /\ d = "csv" => t = "Utf8" /\ c.v.k # "null"
    /\ d = "geojson" => /\ t \in {"Utf8", "Bool", "Int64", "Float64"}
                        /\ c.v.k = "null" => t = "Utf8"
                        /\ t = "Float64" => c.v.k # "nan"

\* What is read of the cell that was written of c.
Comes(d, c, policy, r, view) ==
    /\ r.at \in {"arrow", "unreadable"}
    /\ r.at = "unreadable" => KnownUnreadable(d, c)
    /\ r.at = "arrow" => ArrowCell(r) /\ r.type.t \in AttributeTypes /\ SettledAttribute(d, r, policy, view)
    /\ r.at = "arrow" /\ policy = "error" => Exact(c, r) \/ SilentlyChanged(d, c, view)

\* What a cell that this driver has read is on its second trip.
Stays(d, c, st, r) ==
    /\ st.at = "stored" /\ r.at = "arrow" /\ r.type = c.type
    /\ Exact(c, r) \/ (d = "shp" /\ c.v.k \in {"int", "float", "dec"})

\* PostGIS has a column type for these Arrow types, which its reader maps back.
LEMMA PgTable ==
    /\ DOMAIN PgDecls = PgTypes \cup {"TsNs", "TsNsTz"}
    /\ \A t \in PgTypes : PgArrow[PgDecls[t]] = t
    /\ PgArrow[PgDecls["TsNs"]] = "Ts" /\ PgArrow[PgDecls["TsNsTz"]] = "TsTz"
    /\ PgDecls["Decimal"] = "numeric" /\ PgDecls["DecimalWide"] = "numeric_wide"
    /\ \A t \in (PgTypes \cup {"TsNs", "TsNsTz"}) \ Decimals :
          PgDecls[t] \notin {"numeric", "numeric_wide", "numeric_any", "Geom"}
<1>1. DOMAIN PgDecls = PgTypes \cup {"TsNs", "TsNsTz"}
  BY DEF PgDecls, PgTypes
<1>2. /\ PgDecls["Bool"] = "boolean" /\ PgDecls["Int16"] = "smallint" /\ PgDecls["Int32"] = "integer"
      /\ PgDecls["Int64"] = "bigint" /\ PgDecls["Float32"] = "real" /\ PgDecls["Float64"] = "float8"
      /\ PgDecls["Utf8"] = "text" /\ PgDecls["Binary"] = "bytea" /\ PgDecls["Date32"] = "date"
      /\ PgDecls["Ts"] = "timestamp" /\ PgDecls["TsNs"] = "timestamp"
      /\ PgDecls["TsTz"] = "timestamptz" /\ PgDecls["TsNsTz"] = "timestamptz"
      /\ PgDecls["Decimal"] = "numeric" /\ PgDecls["DecimalWide"] = "numeric_wide"
  BY DEF PgDecls
<1>3. /\ PgArrow["boolean"] = "Bool" /\ PgArrow["smallint"] = "Int16" /\ PgArrow["integer"] = "Int32"
      /\ PgArrow["bigint"] = "Int64" /\ PgArrow["real"] = "Float32" /\ PgArrow["float8"] = "Float64"
      /\ PgArrow["text"] = "Utf8" /\ PgArrow["bytea"] = "Binary" /\ PgArrow["date"] = "Date32"
      /\ PgArrow["timestamp"] = "Ts" /\ PgArrow["timestamptz"] = "TsTz"
      /\ PgArrow["numeric"] = "Decimal" /\ PgArrow["numeric_wide"] = "DecimalWide"
  BY SMTT(20) DEF PgArrow
<1> QED BY <1>1, <1>2, <1>3 DEF PgTypes, Decimals

\* What a cell of each attribute type may hold.
LEMMA KindsAre ==
    ASSUME NEW t \in AttributeTypes
    PROVE  /\ t # "Geom" /\ "geom" \notin Kinds(t) /\ "null" \notin Kinds(t)
           /\ t \in Ints => Kinds(t) = {"int"}
           /\ t \in Floats => Kinds(t) = {"float", "nan", "int", "dec"}
           /\ t \in Dates => Kinds(t) = {"date"}
           /\ t \in Times => Kinds(t) = {"time", "far"}
           /\ t \in Decimals => Kinds(t) = {"dec"}
           /\ t = "Bool" => Kinds(t) = {"bool"}
           /\ t = "Binary" => Kinds(t) = {"bytes"}
           /\ t = "List" => Kinds(t) = {"list"}
           /\ t = "Utf8" => Kinds(t) = {"text", "odd", "bool", "int", "float", "nan", "dec", "date",
                                        "time", "far", "bytes"}
<1> USE DEF AttributeTypes, Ints, Floats, Dates, Times, Naive, Zoned, Decimals, Kinds
<1>1. CASE t \in Ints
  BY <1>1
<1>2. CASE t \in Floats
  BY <1>2
<1>3. CASE t \in Dates
  BY <1>3
<1>4. CASE t \in Times
  BY <1>4
<1>5. CASE t \in Decimals
  BY <1>5
<1>6. CASE t \in {"Bool", "Utf8", "Binary", "List"}
  BY <1>6
<1> QED BY <1>1, <1>2, <1>3, <1>4, <1>5, <1>6

\* Which type is of which family.
LEMMA Families ==
    /\ PgTypes \subseteq AttributeTypes
    /\ Ints \cap (Floats \cup Dates \cup Times \cup Decimals \cup {"Bool", "Utf8", "Binary", "List"}) = {}
    /\ Floats \cap (Dates \cup Times \cup Decimals \cup {"Bool", "Utf8", "Binary", "List"}) = {}
    /\ Dates \cap (Times \cup Decimals \cup {"Bool", "Utf8", "Binary", "List"}) = {}
    /\ Times \cap (Decimals \cup {"Bool", "Utf8", "Binary", "List"}) = {}
    /\ Decimals \cap {"Bool", "Utf8", "Binary", "List"} = {}
    /\ Times = {"Ts", "TsNs", "TsTz", "TsNsTz"}
BY DEF AttributeTypes, Ints, Floats, Dates, Times, Naive, Zoned, Decimals, PgTypes

\* A value that is one kind with a number.
LEMMA MicrosIs ==
    ASSUME NEW k, NEW n \in Int, NEW l \in BOOLEAN
    PROVE  LET v == [k |-> k, n |-> n, lost |-> l]
               m == Micros(v)
           IN  IF k = "time" /\ n > 6 THEN m = [k |-> k, n |-> 6, lost |-> TRUE] ELSE m = v
BY DEF Micros, Lost

\* A value that fits a type makes a cell of it.
ValueCell(r, u, z, k, n, l) ==
    /\ u \in AttributeTypes /\ z \in Nat /\ k \in Kinds(u) \cup {"null"} /\ n \in Int /\ l \in BOOLEAN
    /\ Fits(u, [k |-> k, n |-> n, lost |-> l])
    /\ r = Arrow([t |-> u, s |-> z], [k |-> k, n |-> n, lost |-> l])

\* The type and the value of such a cell.
LEMMA ArrowIs ==
    ASSUME NEW r, NEW u, NEW z, NEW k, NEW n, NEW l, ValueCell(r, u, z, k, n, l)
    PROVE  /\ ArrowCell(r) /\ r.at = "arrow" /\ r.type = [t |-> u, s |-> z]
           /\ r.type.t = u /\ r.type.s = z /\ r.v = [k |-> k, n |-> n, lost |-> l]
<1>1. r = [at |-> "arrow", type |-> [t |-> u, s |-> z], v |-> [k |-> k, n |-> n, lost |-> l], w |-> <<>>]
  BY DEF ValueCell, Arrow
<1>2. <<>> \in Input
  BY DEF Input
<1>3. ArrowCell(r)
  <2>1. r.at = "arrow" /\ r.type = [t |-> u, s |-> z] /\ r.v = [k |-> k, n |-> n, lost |-> l] /\ r.w = <<>>
    BY <1>1
  <2>2. r.type.t = u /\ r.type.s = z /\ r.v.k = k /\ r.v.n = n /\ r.v.lost = l
    BY <2>1
  <2>3. Fits(r.type.t, r.v)
    BY <2>1, <2>2 DEF ValueCell
  <2>4. r.v.k # "geom"
    <3>1. u \in AttributeTypes /\ k \in Kinds(u) \cup {"null"}
      BY DEF ValueCell
    <3> QED BY <2>2, <3>1, KindsAre
  <2> QED BY <1>1, <1>2, <2>1, <2>2, <2>3, <2>4 DEF ArrowCell, ValueCell
<1> QED BY <1>1, <1>3

\* What is left to show of a cell that came through.
LEMMA Through ==
    ASSUME NEW c, NEW t, NEW s, NEW k, NEW n, NEW l, NEW w, AttributeCell(c, t, s, k, n, l, w),
           NEW r, NEW u, NEW z, NEW j, NEW m, NEW i, ValueCell(r, u, z, j, m, i),
           NEW d, NEW policy, NEW view
    PROVE  /\ (/\ SettledAttribute(d, r, policy, view)
               /\ policy = "error" => (j = k /\ (i => l) /\ (~i => m = n)) \/ SilentlyChanged(d, c, view))
              => Comes(d, c, policy, r, view)
           /\ (j = k /\ (i => l) /\ (~i => m = n)) => Exact(c, r)
           /\ u = t /\ z = s => r.type = c.type
<1>1. /\ ArrowCell(r) /\ r.at = "arrow" /\ r.type = [t |-> u, s |-> z]
      /\ r.type.t = u /\ r.v = [k |-> j, n |-> m, lost |-> i] /\ u \in AttributeTypes
  BY ArrowIs DEF ValueCell
<1>2. c.v = [k |-> k, n |-> n, lost |-> l] /\ c.type = [t |-> t, s |-> s] /\ t \in AttributeTypes
      /\ k \in Kinds(t) \cup {"null"}
  BY DEF AttributeCell
<1>3. k # "geom"
  BY <1>2, KindsAre
<1>4. (j = k /\ (i => l) /\ (~i => m = n)) => Exact(c, r)
  <2>1. c.v.k = k /\ c.v.n = n /\ c.v.lost = l /\ r.v.k = j /\ r.v.n = m /\ r.v.lost = i
    BY <1>1, <1>2
  <2> QED BY <1>3, <2>1 DEF Exact, IsGeom
<1> QED BY <1>1, <1>2, <1>4 DEF Comes

\* A decimal comes back from PostGIS as it was,
LEMMA PgNumber ==
    ASSUME NEW c, NEW t, NEW s, NEW k, NEW n, NEW l, NEW w, AttributeCell(c, t, s, k, n, l, w), t \in Decimals
    PROVE  /\ PutPg(c).at = "stored"
           /\ \E i \in BOOLEAN : (i => l) /\ ValueCell(GetPg(PutPg(c)), t, s, k, n, i)
<1> DEFINE st == PutPg(c)
           v == [k |-> k, n |-> n, lost |-> l]
           N == FromDecimal(n, s)
           decl == [t |-> PgDecls[t], s |-> s]
<1>c. /\ t \in AttributeTypes /\ s \in Nat /\ k \in {"dec", "null"} /\ n \in Int /\ l \in BOOLEAN
      /\ Fits(t, v) /\ c.v = v /\ c.type = [t |-> t, s |-> s]
  BY KindsAre DEF AttributeCell
<1>0. n \in (0 - MaxAcc)..MaxAcc
  BY <1>c DEF Fits
<1>1. t \in PgTypes /\ PgArrow[PgDecls[t]] = t /\ t \in DOMAIN PgDecls /\ t \notin Times
      /\ PgDecls[t] \in {"numeric", "numeric_wide"}
  BY PgTable, Families DEF Decimals, PgTypes
<1>2. Timed(t, v) = v
  BY <1>1 DEF Timed
<1>3. NumericScale(decl) = s
  BY <1>1 DEF NumericScale
<1>4. CASE k = "null"
  <2>1. st = Stored(decl, "-", v)
    BY <1>1, <1>2, <1>4, <1>c DEF PutPg, PgCell
  <2>2. st.decl = decl /\ st.v = v /\ st.decl.t = PgDecls[t] /\ st.at = "stored"
    BY <2>1 DEF Stored
  <2>3. GetPg(st) = PgDecimal(st)
    BY <1>1, <2>2 DEF GetPg
  <2> HIDE DEF st
  <2>4. PgDecimal(st) = Arrow([t |-> t, s |-> s], Null)
    BY <1>1, <1>3, <1>4, <2>2 DEF PgDecimal
  <2>5. n = 0
    BY <1>4, <1>c DEF Fits
  <2>6. ValueCell(GetPg(st), t, s, k, n, FALSE)
    <3>1. Null = [k |-> k, n |-> n, lost |-> FALSE]
      BY <1>4, <2>5 DEF Null, Value
    <3>2. Fits(t, [k |-> k, n |-> n, lost |-> FALSE])
      BY <1>4, <1>c, <2>5, Families DEF Fits
    <3>3. k \in Kinds(t) \cup {"null"}
      BY <1>4
    <3> QED BY <1>c, <2>3, <2>4, <3>1, <3>2, <3>3 DEF ValueCell
  <2> QED BY <2>2, <2>6 DEF st
<1>5. CASE k = "dec"
  <2>1. st = [Stored(decl, "-", v) EXCEPT !.w = <<N.digits, N.weight, N.sign>>]
    BY <1>1, <1>2, <1>5, <1>c DEF PutPg, PgCell
  <2>2. /\ st.decl = decl /\ st.v = v /\ st.decl.t = PgDecls[t] /\ st.at = "stored"
        /\ st.w = <<N.digits, N.weight, N.sign>>
    BY <2>1 DEF Stored
  <2>3. GetPg(st) = PgDecimal(st)
    BY <1>1, <2>2 DEF GetPg
  <2>4. Numeric(N.digits, N.weight, N.sign) = N
    BY DEF FromDecimal, FromScaled, Numeric
  <2>5. ToDecimal(N, s) = [ok |-> TRUE, v |-> n]
    BY <1>0, <1>c, DecimalRoundTrip DEF Decimal
  <2>6. FromDecimal(n, s) = N
    OBVIOUS
  <2> HIDE DEF st, N
  <2>7. PgDecimal(st) = LET ty == [t |-> t, s |-> s]
                            i  == ToDecimal(N, s)
                        IN  IF ~i.ok THEN ReadError
                            ELSE Arrow(ty, IF FromDecimal(i.v, s) = N
                                           THEN [v EXCEPT !.n = i.v] ELSE Lost([v EXCEPT !.n = i.v]))
    BY <1>1, <1>3, <1>5, <2>2, <2>4 DEF PgDecimal
  <2>8. PgDecimal(st) = Arrow([t |-> t, s |-> s], [v EXCEPT !.n = n])
    BY <2>5, <2>6, <2>7
  <2>9. ValueCell(GetPg(st), t, s, k, n, l)
    <3>1. [v EXCEPT !.n = n] = v
      OBVIOUS
    <3>2. k \in Kinds(t) \cup {"null"}
      BY DEF AttributeCell
    <3> HIDE DEF v
    <3>3. GetPg(st) = Arrow([t |-> t, s |-> s], v)
      BY <2>3, <2>8, <3>1
    <3> QED BY <1>c, <3>2, <3>3 DEF ValueCell, v
  <2> QED BY <1>c, <2>2, <2>9 DEF st
<1> QED BY <1>4, <1>5, <1>c

\* and so does any other cell the driver stores, but for a time's nanoseconds.
LEMMA PgOther ==
    ASSUME NEW c, NEW t, NEW s, NEW k, NEW n, NEW l, NEW w, AttributeCell(c, t, s, k, n, l, w),
           t \in DOMAIN PgDecls, t \notin Decimals
    PROVE  /\ PutPg(c).at = "stored"
           /\ \E u, m, i : /\ ValueCell(GetPg(PutPg(c)), u, 0, k, m, i) /\ u \in PgTypes
                           /\ u \in Times => (k = "time" => m <= 6)
                           /\ u = t \/ (t \in {"TsNs", "TsNsTz"} /\ u \in Times)
                           /\ (m = n /\ i = l) \/ (t \in Times /\ k = "time" /\ n > 6)
<1> DEFINE st == PutPg(c)
           v == [k |-> k, n |-> n, lost |-> l]
           u == PgArrow[PgDecls[t]]
<1>c. /\ t \in AttributeTypes /\ s \in Nat /\ k \in Kinds(t) \cup {"null"} /\ n \in Int /\ l \in BOOLEAN
      /\ Fits(t, v) /\ c.v = v /\ c.type = [t |-> t, s |-> s]
  BY DEF AttributeCell
<1>1. /\ u \in PgTypes /\ PgDecls[t] \notin {"numeric", "numeric_wide", "numeric_any"}
      /\ u = t \/ (t \in {"TsNs", "TsNsTz"} /\ u \in Times)
  <2>1. t \in (PgTypes \cup {"TsNs", "TsNsTz"}) \ Decimals
    BY PgTable
  <2>2. PgDecls[t] \notin {"numeric", "numeric_wide", "numeric_any"}
    BY <2>1, PgTable
  <2>3. CASE t \in PgTypes
    BY <2>2, <2>3, PgTable
  <2>4. CASE t \in {"TsNs", "TsNsTz"}
    <3>1. u \in {"Ts", "TsTz"}
      BY <2>4, PgTable
    <3> HIDE DEF u
    <3> QED BY <2>2, <2>4, <3>1, Families DEF PgTypes
  <2> QED BY <2>1, <2>3, <2>4
<1>2. Kinds(u) = Kinds(t) /\ u \in AttributeTypes /\ (u \in Times <=> t \in Times)
  BY SMTT(20), <1>1, <1>c, KindsAre, Families
<1>3. st.decl.t = PgDecls[t] /\ st.v = Timed(t, v) /\ st.at = "stored"
  <2>1. st = Stored([t |-> PgDecls[t], s |-> s], "-", Timed(t, v))
    BY <1>c DEF PutPg, PgCell
  <2> QED BY <2>1 DEF Stored
<1> HIDE DEF st
<1>4. GetPg(st) = Arrow(Type(u), Timed(t, v))
  BY <1>1, <1>3 DEF GetPg
<1>5. CASE t \in Times /\ k = "time" /\ n > 6
  <2>0. PICK yes \in BOOLEAN : yes = TRUE
    OBVIOUS
  <2>1. Timed(t, v) = [k |-> k, n |-> 6, lost |-> yes]
    BY <1>5, <1>c, <2>0, MicrosIs DEF Timed
  <2>2. ValueCell(GetPg(st), u, 0, k, 6, yes)
    BY <1>2, <1>4, <1>5, <1>c, <2>0, <2>1, Families DEF ValueCell, Type, Fits
  <2>5. /\ ValueCell(GetPg(PutPg(c)), u, 0, k, 6, yes) /\ u \in PgTypes
        /\ u \in Times => (k = "time" => 6 <= 6)
        /\ u = t \/ (t \in {"TsNs", "TsNsTz"} /\ u \in Times)
        /\ (6 = n /\ yes = l) \/ (t \in Times /\ k = "time" /\ n > 6)
    <3> HIDE DEF u
    <3> QED BY <1>1, <1>5, <2>2 DEF st
  <2> HIDE DEF u
  <2>6. PutPg(c).at = "stored"
    BY <1>3 DEF st
  <2> QED BY ONLY <2>5, <2>6
<1>6. CASE ~(t \in Times /\ k = "time" /\ n > 6)
  <2>1. Timed(t, v) = v
    BY <1>6, <1>c, MicrosIs DEF Timed
  <2>2. Fits(u, v)
    BY <1>1, <1>c, Families DEF Fits
  <2>3. ValueCell(GetPg(st), u, 0, k, n, l)
    BY <1>2, <1>4, <1>6, <1>c, <2>1, <2>2 DEF ValueCell, Type
  <2>4. u \in Times => (k = "time" => n <= 6)
    BY <1>2, <1>6, <1>c
  <2>5. /\ ValueCell(GetPg(PutPg(c)), u, 0, k, n, l) /\ u \in PgTypes
        /\ u \in Times => (k = "time" => n <= 6)
        /\ u = t \/ (t \in {"TsNs", "TsNsTz"} /\ u \in Times)
        /\ (n = n /\ l = l) \/ (t \in Times /\ k = "time" /\ n > 6)
    <3> HIDE DEF u
    <3> QED BY <1>1, <2>3, <2>4 DEF st
  <2> HIDE DEF u
  <2>6. PutPg(c).at = "stored"
    BY <1>3 DEF st
  <2> QED BY ONLY <2>5, <2>6
<1> QED BY <1>5, <1>6

\* PostGIS carries an attribute.
LEMMA PgCarries ==
    ASSUME NEW c, NEW t, NEW s, NEW k, NEW n, NEW l, NEW w, AttributeCell(c, t, s, k, n, l, w),
           NEW policy, NEW view
    PROVE  /\ PutPg(c).at = "stored" => Comes("postgis", c, policy, GetPg(PutPg(c)), view)
           /\ SettledAttribute("postgis", c, policy, view) => Stays("postgis", c, PutPg(c), GetPg(PutPg(c)))
<1> DEFINE r == GetPg(PutPg(c))
<1>c. /\ t \in AttributeTypes /\ s \in Nat /\ k \in Kinds(t) \cup {"null"} /\ n \in Int /\ l \in BOOLEAN
      /\ c.v = [k |-> k, n |-> n, lost |-> l] /\ c.type = [t |-> t, s |-> s]
  BY DEF AttributeCell
<1>d. DOMAIN PgDecls = PgTypes \cup {"TsNs", "TsNsTz"} /\ Decimals \subseteq PgTypes
  BY PgTable DEF PgTypes, Decimals
<1>1. CASE t \in Decimals
  <2>1. PutPg(c).at = "stored"
    BY <1>1, PgNumber
  <2>2. PICK i \in BOOLEAN : (i => l) /\ ValueCell(r, t, s, k, n, i)
    BY <1>1, PgNumber
  <2>3. r.type.t = t /\ r.at = "arrow" /\ t \notin Times
    BY <1>1, <2>2, ArrowIs, Families
  <2>4. SettledAttribute("postgis", r, policy, view)
    BY <1>1, <1>d, <2>3 DEF SettledAttribute
  <2> HIDE DEF r
  <2> QED BY <2>1, <2>2, <2>3, <2>4, Through DEF Stays, r
<1>2. CASE t \notin Decimals /\ t \in DOMAIN PgDecls
  <2>1. PutPg(c).at = "stored"
    BY <1>2, PgOther
  <2>2. PICK u, m, i : /\ ValueCell(r, u, 0, k, m, i) /\ u \in PgTypes
                       /\ u \in Times => (k = "time" => m <= 6)
                       /\ u = t \/ (t \in {"TsNs", "TsNsTz"} /\ u \in Times)
                       /\ (m = n /\ i = l) \/ (t \in Times /\ k = "time" /\ n > 6)
    BY <1>2, PgOther
  <2>3. r.type = [t |-> u, s |-> 0] /\ r.at = "arrow" /\ r.v = [k |-> k, n |-> m, lost |-> i]
    <3> HIDE DEF r
    <3> QED BY <2>2, ArrowIs
  <2> HIDE DEF r
  <2>4. SettledAttribute("postgis", r, policy, view)
    BY <2>2, <2>3 DEF SettledAttribute, Cut
  <2>5. (m = n /\ i = l) \/ SilentlyChanged("postgis", c, view)
    BY <1>2, <1>c, <2>2 DEF SilentlyChanged, IsGeom
  <2>6. Comes("postgis", c, policy, r, view)
    BY <2>2, <2>4, <2>5, Through
  <2>7. ASSUME SettledAttribute("postgis", c, policy, view) PROVE Stays("postgis", c, PutPg(c), r)
    <3>1. t \in PgTypes /\ (t \in Times => (k = "time" => n <= 6)) /\ s = 0
      BY <1>2, <1>c, <2>7 DEF SettledAttribute, Cut
    <3>2. u = t
      BY <2>2, <3>1 DEF PgTypes
    <3>3. m = n /\ i = l
      BY <1>c, <2>2, <3>1
    <3>4. Exact(c, r) /\ r.type = c.type
      BY <2>2, <3>1, <3>2, <3>3, Through
    <3> QED BY <2>1, <2>3, <3>4 DEF Stays
  <2> QED BY <2>6, <2>7 DEF r
<1>3. CASE t \notin DOMAIN PgDecls
  <2>1. PutPg(c).at # "stored"
    BY <1>3, <1>c DEF PutPg, WriteError, Stored
  <2>2. ~SettledAttribute("postgis", c, policy, view)
    BY <1>3, <1>c, <1>d DEF SettledAttribute
  <2> QED BY <2>1, <2>2
<1> QED BY <1>1, <1>2, <1>3, <1>d

----------------------------------------------------------------------------
(* SQL Server.                                                             *)

\* SQL Server has a column type for these Arrow types, which its reader maps
\* back.
LEMMA MsTable ==
    /\ DOMAIN MsDecls = PgTypes \cup {"TsNs", "TsNsTz"}
    /\ \A t \in PgTypes : MsArrow[MsDecls[t]] = t
    /\ MsArrow[MsDecls["TsNs"]] = "Ts" /\ MsArrow[MsDecls["TsNsTz"]] = "TsTz"
    /\ \A t \in PgTypes \cup {"TsNs", "TsNsTz"} :
          MsDecls[t] # "Geom" /\ (MsDecls[t] \in {"decimal", "decimal_wide"} <=> t \in Decimals)
<1>1. DOMAIN MsDecls = PgTypes \cup {"TsNs", "TsNsTz"}
  BY DEF MsDecls, PgTypes
<1>2. /\ MsDecls["Bool"] = "bit" /\ MsDecls["Int16"] = "smallint" /\ MsDecls["Int32"] = "int"
      /\ MsDecls["Int64"] = "bigint" /\ MsDecls["Float32"] = "real" /\ MsDecls["Float64"] = "float"
      /\ MsDecls["Utf8"] = "nvarchar" /\ MsDecls["Binary"] = "varbinary" /\ MsDecls["Date32"] = "date"
      /\ MsDecls["Ts"] = "datetime2" /\ MsDecls["TsNs"] = "datetime2"
      /\ MsDecls["TsTz"] = "datetimeoffset" /\ MsDecls["TsNsTz"] = "datetimeoffset"
      /\ MsDecls["Decimal"] = "decimal" /\ MsDecls["DecimalWide"] = "decimal_wide"
  BY DEF MsDecls
<1>3. /\ MsArrow["bit"] = "Bool" /\ MsArrow["smallint"] = "Int16" /\ MsArrow["int"] = "Int32"
      /\ MsArrow["bigint"] = "Int64" /\ MsArrow["real"] = "Float32" /\ MsArrow["float"] = "Float64"
      /\ MsArrow["nvarchar"] = "Utf8" /\ MsArrow["varbinary"] = "Binary" /\ MsArrow["date"] = "Date32"
      /\ MsArrow["datetime2"] = "Ts" /\ MsArrow["datetimeoffset"] = "TsTz"
      /\ MsArrow["decimal"] = "Decimal" /\ MsArrow["decimal_wide"] = "DecimalWide"
  BY DEF MsArrow
<1> QED BY <1>1, <1>2, <1>3 DEF PgTypes, Decimals

\* A value whose type keeps microseconds.
TimedTo(c, t, k, n, l, m, i) ==
    /\ Timed(t, c.v) = [k |-> k, n |-> m, lost |-> i] /\ m \in Int /\ i \in BOOLEAN
    /\ Fits(t, [k |-> k, n |-> m, lost |-> i])
    /\ (m = n /\ i = l) \/ (t \in Times /\ k = "time" /\ n > 6)
    /\ t \in Times /\ k = "time" => m <= 6

\* Cutting a time to microseconds changes no other value.
LEMMA TimedIs ==
    ASSUME NEW c, NEW t, NEW s, NEW k, NEW n, NEW l, NEW w, AttributeCell(c, t, s, k, n, l, w)
    PROVE  \E m, i : TimedTo(c, t, k, n, l, m, i)
<1> DEFINE v == [k |-> k, n |-> n, lost |-> l]
<1>c. /\ t \in AttributeTypes /\ s \in Nat /\ k \in Kinds(t) \cup {"null"} /\ n \in Int /\ l \in BOOLEAN
      /\ Fits(t, v) /\ c.v = v
  BY DEF AttributeCell
<1>1. CASE t \in Times /\ k = "time" /\ n > 6
  <2>0. PICK yes \in BOOLEAN : yes = TRUE
    OBVIOUS
  <2>1. Timed(t, v) = [k |-> k, n |-> 6, lost |-> yes]
    BY <1>1, <1>c, <2>0, MicrosIs DEF Timed
  <2>2. Fits(t, [k |-> k, n |-> 6, lost |-> yes])
    BY <1>1, Families DEF Fits
  <2>3. /\ Timed(t, c.v) = [k |-> k, n |-> 6, lost |-> yes] /\ 6 \in Int /\ yes \in BOOLEAN
        /\ Fits(t, [k |-> k, n |-> 6, lost |-> yes])
        /\ (6 = n /\ yes = l) \/ (t \in Times /\ k = "time" /\ n > 6)
        /\ t \in Times /\ k = "time" => 6 <= 6
    BY <1>1, <1>c, <2>1, <2>2
  <2> QED BY <2>3 DEF TimedTo
<1>2. CASE ~(t \in Times /\ k = "time" /\ n > 6)
  <2>1. Timed(t, v) = v
    BY <1>2, <1>c, MicrosIs DEF Timed
  <2>2. t \in Times /\ k = "time" => n <= 6
    BY <1>2, <1>c
  <2>3. /\ Timed(t, c.v) = [k |-> k, n |-> n, lost |-> l] /\ n \in Int /\ l \in BOOLEAN
        /\ Fits(t, [k |-> k, n |-> n, lost |-> l])
        /\ (n = n /\ l = l) \/ (t \in Times /\ k = "time" /\ n > 6)
        /\ t \in Times /\ k = "time" => n <= 6
    BY <1>c, <2>1, <2>2
  <2> QED BY <2>3 DEF TimedTo
<1> QED BY <1>1, <1>2

\* What comes back from SQL Server: the cell but for a time's nanoseconds, unless
\* the decimal is too wide.
LEMMA MsReads ==
    ASSUME NEW c, NEW t, NEW s, NEW k, NEW n, NEW l, NEW w, AttributeCell(c, t, s, k, n, l, w),
           NEW bulk \in BOOLEAN, PutMs(c, bulk).at = "stored"
    PROVE  /\ t \in PgTypes \cup {"TsNs", "TsNsTz"} /\ (t \in Times => k # "far") /\ (t \in Floats => k # "nan")
           /\ PutMs(c, bulk).decl.t # "Geom"
           /\ IF t \in Decimals /\ TooWide(c.v) THEN GetMs(PutMs(c, bulk)) = ReadError
              ELSE \E u, m, i : /\ ValueCell(GetMs(PutMs(c, bulk)), u, s, k, m, i) /\ u \in PgTypes
                                /\ u \in Times /\ k = "time" => m <= 6
                                /\ u = t \/ (t \in {"TsNs", "TsNsTz"} /\ u \in Times)
                                /\ (m = n /\ i = l) \/ (t \in Times /\ k = "time" /\ n > 6)
<1> DEFINE st == PutMs(c, bulk)
           u == MsArrow[MsDecls[t]]
<1>c. /\ t \in AttributeTypes /\ s \in Nat /\ k \in Kinds(t) \cup {"null"} /\ n \in Int /\ l \in BOOLEAN
      /\ c.v = [k |-> k, n |-> n, lost |-> l] /\ c.type = [t |-> t, s |-> s] /\ c.v.k = k /\ c.type.t = t
      /\ c.type.s = s
  BY DEF AttributeCell
<1>1. st = IF t \notin DOMAIN MsDecls \/ (IF bulk THEN BulkRefuses(c) ELSE ParamRefuses(c)) THEN WriteError
           ELSE Stored([t |-> MsDecls[t], s |-> s], "-", Timed(t, c.v))
  BY <1>c DEF PutMs
<1>2. WriteError.at # "stored"
  BY DEF WriteError, Stored
<1> HIDE DEF st
<1>3. t \in DOMAIN MsDecls /\ ~BulkRefuses(c) /\ st = Stored([t |-> MsDecls[t], s |-> s], "-", Timed(t, c.v))
  BY <1>1, <1>2 DEF st, ParamRefuses
<1>4. t \in PgTypes \cup {"TsNs", "TsNsTz"} /\ (t \in Times => k # "far") /\ (t \in Floats => k # "nan")
  BY <1>3, <1>c, MsTable DEF BulkRefuses
<1>5. st.decl.t = MsDecls[t] /\ st.decl.s = s /\ st.v = Timed(t, c.v) /\ st.decl.t # "Geom"
      /\ (st.decl.t \in {"decimal", "decimal_wide"} <=> t \in Decimals)
  BY <1>3, <1>4, MsTable DEF Stored
<1>6. PICK m, i : /\ Timed(t, c.v) = [k |-> k, n |-> m, lost |-> i] /\ m \in Int /\ i \in BOOLEAN
                  /\ Fits(t, [k |-> k, n |-> m, lost |-> i])
                  /\ (m = n /\ i = l) \/ (t \in Times /\ k = "time" /\ n > 6)
                  /\ t \in Times /\ k = "time" => m <= 6
  <2>1. PICK m, i : TimedTo(c, t, k, n, l, m, i)
    BY TimedIs
  <2> QED BY <2>1 DEF TimedTo
<1>7. t \in Decimals => Timed(t, c.v) = c.v
  BY Families DEF Timed
<1>8. CASE t \in Decimals /\ TooWide(c.v)
  <2>1. GetMs(st) = ReadError
    BY <1>5, <1>7, <1>8 DEF GetMs
  <2> QED BY <1>4, <1>5, <1>8, <2>1 DEF st
<1>9. CASE ~(t \in Decimals /\ TooWide(c.v))
  <2>1. GetMs(st) = Arrow([t |-> u, s |-> s], [k |-> k, n |-> m, lost |-> i])
    BY <1>5, <1>6, <1>7, <1>9 DEF GetMs
  <2>2. (t \in PgTypes /\ u = t) \/ (t \in {"TsNs", "TsNsTz"} /\ u \in {"Ts", "TsTz"})
    BY <1>4, MsTable
  <2> HIDE DEF u
  <2>3. u \in PgTypes
    BY <1>4, <2>2 DEF PgTypes
  <2>4. Kinds(u) = Kinds(t) /\ u \in AttributeTypes /\ (u \in Times <=> t \in Times)
    BY SMTT(20), <2>2, <2>3, <1>c, KindsAre, Families
  <2>5. Fits(u, [k |-> k, n |-> m, lost |-> i])
    BY <1>6, <2>2, Families DEF Fits
  <2>6. /\ ValueCell(GetMs(st), u, s, k, m, i) /\ u \in PgTypes
        /\ u \in Times /\ k = "time" => m <= 6
        /\ u = t \/ (t \in {"TsNs", "TsNsTz"} /\ u \in Times)
        /\ (m = n /\ i = l) \/ (t \in Times /\ k = "time" /\ n > 6)
    BY <1>c, <1>6, <2>1, <2>2, <2>3, <2>4, <2>5, Families DEF ValueCell
  <2> QED BY <1>4, <1>5, <1>9, <2>6 DEF st
<1> QED BY <1>8, <1>9

\* SQL Server carries an attribute, on the bulk and on the batch path.
LEMMA MsCarries ==
    ASSUME NEW c, NEW t, NEW s, NEW k, NEW n, NEW l, NEW w, AttributeCell(c, t, s, k, n, l, w),
           NEW policy, NEW view,
           NEW bulk \in BOOLEAN
    PROVE  /\ PutMs(c, bulk).at = "stored" => Comes("sqlserver", c, policy, GetMs(PutMs(c, bulk)), view)
           /\ SettledAttribute("sqlserver", c, policy, view)
              => Stays("sqlserver", c, PutMs(c, bulk), GetMs(PutMs(c, bulk)))
<1> DEFINE st == PutMs(c, bulk)
           r == GetMs(st)
<1>c. /\ t \in AttributeTypes /\ s \in Nat /\ k \in Kinds(t) \cup {"null"} /\ n \in Int /\ l \in BOOLEAN
      /\ c.v = [k |-> k, n |-> n, lost |-> l] /\ c.type = [t |-> t, s |-> s] /\ c.v.k = k /\ c.type.t = t
      /\ c.v.n = n
  BY DEF AttributeCell
<1>1. ASSUME SettledAttribute("sqlserver", c, policy, view)
      PROVE st.at = "stored" /\ t \in PgTypes /\ (t \in Times /\ k = "time" => n <= 6)
            /\ ~(t \in Decimals /\ TooWide(c.v))
  <2>1. t \in PgTypes /\ (t \in Times => (k = "time" => n <= 6) /\ k # "far")
        /\ (t \in Floats => k # "nan") /\ (t \in Decimals => ~TooWide(c.v))
    BY <1>1, <1>c DEF SettledAttribute, Cut
  <2>2. t \in DOMAIN MsDecls
    BY <2>1, MsTable
  <2>3. ~BulkRefuses(c) /\ ~ParamRefuses(c)
    BY <1>c, <2>1 DEF BulkRefuses, ParamRefuses
  <2>4. st = Stored([t |-> MsDecls[t], s |-> s], "-", Timed(t, c.v))
    BY <1>c, <2>2, <2>3 DEF PutMs
  <2> QED BY <2>1, <2>4 DEF Stored
<1>2. ASSUME st.at = "stored"
      PROVE /\ Comes("sqlserver", c, policy, r, view)
            /\ SettledAttribute("sqlserver", c, policy, view) => Stays("sqlserver", c, st, r)
  <2>1. CASE t \in Decimals /\ TooWide(c.v)
    <3>1. r = ReadError
      BY <1>2, <2>1, MsReads
    <3>2. KnownUnreadable("sqlserver", c)
      BY <2>1 DEF KnownUnreadable
    <3>3. ReadError.at = "unreadable"
      BY DEF ReadError, Arrow
    <3>4. ~SettledAttribute("sqlserver", c, policy, view)
      BY <1>1, <2>1
    <3> QED BY <3>1, <3>2, <3>3, <3>4 DEF Comes
  <2>2. CASE ~(t \in Decimals /\ TooWide(c.v))
    <3>0. t \in PgTypes \cup {"TsNs", "TsNsTz"} /\ (t \in Times => k # "far") /\ (t \in Floats => k # "nan")
      BY <1>2, MsReads
    <3>1. PICK u, m, i : /\ ValueCell(r, u, s, k, m, i) /\ u \in PgTypes
                         /\ u \in Times /\ k = "time" => m <= 6
                         /\ u = t \/ (t \in {"TsNs", "TsNsTz"} /\ u \in Times)
                         /\ (m = n /\ i = l) \/ (t \in Times /\ k = "time" /\ n > 6)
      BY <1>2, <2>2, MsReads
    <3> HIDE DEF r
    <3>2. r.type = [t |-> u, s |-> s] /\ r.at = "arrow" /\ r.v = [k |-> k, n |-> m, lost |-> i]
          /\ r.type.t = u /\ r.v.k = k /\ r.v.n = m
      BY <3>1, ArrowIs
    <3>3. u \in Decimals => ~TooWide(r.v)
      <4> SUFFICES ASSUME u \in Decimals PROVE ~TooWide(r.v)
        OBVIOUS
      <4>1. u = t /\ t \notin Times
        BY <3>1, Families
      <4>2. r.v = c.v
        BY <1>c, <3>1, <3>2, <4>1
      <4> QED BY <2>2, <4>1, <4>2
    <3>4. u \in Times => t \in Times
      BY <3>1, Families
    <3>5. u \in Floats => u = t
      BY <3>1, Families
    <3>6. SettledAttribute("sqlserver", r, policy, view)
      BY <3>0, <3>1, <3>2, <3>3, <3>4, <3>5 DEF SettledAttribute, Cut
    <3>7. (m = n /\ i = l) \/ SilentlyChanged("sqlserver", c, view)
      BY <1>c, <3>1 DEF SilentlyChanged, IsGeom
    <3>8. Comes("sqlserver", c, policy, r, view)
      BY <3>1, <3>6, <3>7, Through
    <3>9. ASSUME SettledAttribute("sqlserver", c, policy, view) PROVE Stays("sqlserver", c, st, r)
      <4>1. t \in PgTypes /\ (t \in Times /\ k = "time" => n <= 6)
        BY <1>1, <3>9
      <4>2. u = t
        BY <3>1, <4>1 DEF PgTypes
      <4>3. m = n /\ i = l
        BY <1>c, <3>1, <4>1
      <4>4. Exact(c, r) /\ r.type = c.type
        BY <3>1, <4>2, <4>3, Through
      <4> QED BY <1>2, <3>2, <4>4 DEF Stays
    <3> QED BY <3>8, <3>9
  <2> QED BY <2>1, <2>2
<1> QED BY <1>1, <1>2

----------------------------------------------------------------------------
(* GeoPackage and SpatiaLite.                                              *)

SqTypes == {"Bool", "Int64", "Float64", "Utf8", "Binary", "Date32", "Ts"}
NoBuilder == {"Int8", "Int16", "Int32", "Float32"}

\* The SQLite types of the Arrow types, and what they are read as.
LEMMA SqTable ==
    /\ DOMAIN SqliteDecls = AttributeTypes \ {"UInt64", "List"}
    /\ \A t \in DOMAIN SqliteDecls : SqliteDecls[t] \in DOMAIN SqliteArrow /\ SqliteDecls[t] # "Geom"
    /\ \A t \in SqTypes \cup NoBuilder : SqliteArrow[SqliteDecls[t]] = t
    /\ \A t \in {"UInt8", "UInt16", "UInt32"} : SqliteArrow[SqliteDecls[t]] = "Int64"
    /\ SqliteArrow[SqliteDecls["Date64"]] = "Date32"
    /\ \A t \in Times : SqliteArrow[SqliteDecls[t]] = "Ts"
    /\ \A t \in Decimals : SqliteArrow[SqliteDecls[t]] = "Utf8"
<1>1. DOMAIN SqliteDecls = AttributeTypes \ {"UInt64", "List"}
  BY DEF SqliteDecls, AttributeTypes, Ints, Floats, Dates, Times, Naive, Zoned, Decimals
<1>2. /\ SqliteDecls["Bool"] = "BOOLEAN" /\ SqliteDecls["Int8"] = "TINYINT" /\ SqliteDecls["Int16"] = "SMALLINT"
      /\ SqliteDecls["Int32"] = "MEDIUMINT" /\ SqliteDecls["Int64"] = "INTEGER"
      /\ SqliteDecls["UInt8"] = "INTEGER" /\ SqliteDecls["UInt16"] = "INTEGER"
      /\ SqliteDecls["UInt32"] = "INTEGER" /\ SqliteDecls["Float32"] = "FLOAT"
      /\ SqliteDecls["Float64"] = "DOUBLE" /\ SqliteDecls["Utf8"] = "TEXT" /\ SqliteDecls["Binary"] = "BLOB"
      /\ SqliteDecls["Date32"] = "DATE" /\ SqliteDecls["Date64"] = "DATE"
      /\ SqliteDecls["Ts"] = "DATETIME" /\ SqliteDecls["TsNs"] = "DATETIME"
      /\ SqliteDecls["TsTz"] = "DATETIME" /\ SqliteDecls["TsNsTz"] = "DATETIME"
      /\ SqliteDecls["Decimal"] = "TEXT" /\ SqliteDecls["DecimalWide"] = "TEXT"
  BY DEF SqliteDecls
<1>3. /\ SqliteArrow["BOOLEAN"] = "Bool" /\ SqliteArrow["TINYINT"] = "Int8"
      /\ SqliteArrow["SMALLINT"] = "Int16" /\ SqliteArrow["MEDIUMINT"] = "Int32"
      /\ SqliteArrow["INTEGER"] = "Int64" /\ SqliteArrow["FLOAT"] = "Float32"
      /\ SqliteArrow["DOUBLE"] = "Float64" /\ SqliteArrow["TEXT"] = "Utf8"
      /\ SqliteArrow["BLOB"] = "Binary" /\ SqliteArrow["DATE"] = "Date32" /\ SqliteArrow["DATETIME"] = "Ts"
      /\ DOMAIN SqliteArrow = {"BOOLEAN", "TINYINT", "SMALLINT", "MEDIUMINT", "INTEGER", "FLOAT", "DOUBLE",
                               "TEXT", "BLOB", "DATE", "DATETIME"}
  BY DEF SqliteArrow
<1>4. \A t \in DOMAIN SqliteDecls : SqliteDecls[t] \in DOMAIN SqliteArrow /\ SqliteDecls[t] # "Geom"
  BY <1>1, <1>2, <1>3 DEF AttributeTypes, Ints, Floats, Dates, Times, Naive, Zoned, Decimals
<1>5. \A t \in SqTypes \cup NoBuilder : SqliteArrow[SqliteDecls[t]] = t
  BY <1>2, <1>3 DEF SqTypes, NoBuilder
<1>6. \A t \in Times : SqliteArrow[SqliteDecls[t]] = "Ts"
  BY <1>2, <1>3 DEF Times, Naive, Zoned
<1>7. \A t \in Decimals : SqliteArrow[SqliteDecls[t]] = "Utf8"
  BY <1>2, <1>3 DEF Decimals
<1> QED BY <1>1, <1>2, <1>3, <1>4, <1>5, <1>6, <1>7

\* What coercing a value does, type by type.
LEMMA CoercedIs ==
    ASSUME NEW as, NEW v
    PROVE  /\ \A u : as = "null" => Coerced(u, as, v) = Arrow(Type(u), v)
           /\ as # "null" =>
              /\ Coerced("Bool", as, v) = IF as \in {"int", "real"} \/ v.k = "int"
                                          THEN Arrow(Type("Bool"), AsBool(v)) ELSE ReadError
              /\ Coerced("Int64", as, v) = IF as = "int" \/ v.k = "int" THEN Arrow(Type("Int64"), v)
                                           ELSE IF as = "real"
                                                THEN Arrow(Type("Int64"), Lost(Value("int", 53))) ELSE ReadError
              /\ Coerced("Float64", as, v) = IF as \in {"real", "int"} \/ v.k \in {"int", "float"}
                                             THEN Arrow(Type("Float64"), AsF64(v)) ELSE ReadError
              /\ Coerced("Utf8", as, v) = Arrow(Type("Utf8"), IF v.k = "bytes" THEN Lost(v) ELSE v)
              /\ Coerced("Binary", as, v) = IF as = "blob" THEN Arrow(Type("Binary"), v) ELSE ReadError
              /\ Coerced("Date32", as, v) = IF as \in {"text", "blob"} /\ v.k = "date"
                                            THEN Arrow(Type("Date32"), v) ELSE ReadError
              /\ Coerced("Ts", as, v) = IF as \in {"text", "blob"} /\ v.k \in {"time", "far"}
                                        THEN Arrow(Type("Ts"), Micros(v)) ELSE ReadError
<1> USE DEF Coerced, Ints, Floats
<1>1. \A u : as = "null" => Coerced(u, as, v) = Arrow(Type(u), v)
  OBVIOUS
<1>2. as # "null" => Coerced("Bool", as, v) = IF as \in {"int", "real"} \/ v.k = "int"
                                          THEN Arrow(Type("Bool"), AsBool(v)) ELSE ReadError
  OBVIOUS
<1>3. as # "null" => Coerced("Int64", as, v) = IF as = "int" \/ v.k = "int" THEN Arrow(Type("Int64"), v)
                                           ELSE IF as = "real"
                                                THEN Arrow(Type("Int64"), Lost(Value("int", 53))) ELSE ReadError
  OBVIOUS
<1>4. as # "null" => Coerced("Float64", as, v) = IF as \in {"real", "int"} \/ v.k \in {"int", "float"}
                                             THEN Arrow(Type("Float64"), AsF64(v)) ELSE ReadError
  OBVIOUS
<1>5. as # "null" => Coerced("Utf8", as, v) = Arrow(Type("Utf8"), IF v.k = "bytes" THEN Lost(v) ELSE v)
  OBVIOUS
<1>6. as # "null" => Coerced("Binary", as, v) = IF as = "blob" THEN Arrow(Type("Binary"), v) ELSE ReadError
  OBVIOUS
<1>7. as # "null" => Coerced("Date32", as, v) = IF as \in {"text", "blob"} /\ v.k = "date"
                                            THEN Arrow(Type("Date32"), v) ELSE ReadError
  OBVIOUS
<1>8. as # "null" => Coerced("Ts", as, v) = IF as \in {"text", "blob"} /\ v.k \in {"time", "far"}
                                        THEN Arrow(Type("Ts"), Micros(v)) ELSE ReadError
  OBVIOUS
<1> HIDE DEF Coerced
<1> QED BY <1>1, <1>2, <1>3, <1>4, <1>5, <1>6, <1>7, <1>8

\* A value of a class in a column of an Arrow type.
SqRead(r, u, j, m, i) ==
    /\ ValueCell(r, u, 0, j, m, i) /\ u \in SqTypes
    /\ u = "Ts" /\ j = "time" => m <= 6
    /\ u = "Float64" => j # "nan"

\* Such a cell is settled: the driver writes it under any policy and reads it as
\* it was.
LEMMA SqReadIs ==
    ASSUME NEW r, NEW u, NEW j, NEW m, NEW i, SqRead(r, u, j, m, i), NEW d \in {"gpkg", "spatialite"},
           NEW policy, NEW view
    PROVE  SettledAttribute(d, r, policy, view)
<1>1. r.type = [t |-> u, s |-> 0] /\ r.type.t = u /\ r.type.s = 0 /\ r.v = [k |-> j, n |-> m, lost |-> i]
      /\ r.v.k = j /\ r.v.n = m
  <2>1. ValueCell(r, u, 0, j, m, i)
    BY DEF SqRead
  <2>2. r.type = [t |-> u, s |-> 0] /\ r.v = [k |-> j, n |-> m, lost |-> i]
    BY <2>1 DEF ValueCell, Arrow
  <2> QED BY <2>2
<1> QED BY <1>1 DEF SqRead, SettledAttribute, SqTypes, Cut

\* The same value, or one whose change is listed.
SqSame(d, c, t, k, n, l, u, j, m, i, view) ==
    /\ (j = k /\ m = n /\ i = l) \/ SilentlyChanged(d, c, view)
    /\ t = u /\ (t = "Ts" /\ k = "time" => n <= 6) /\ (t = "Float64" => k # "nan") => j = k /\ m = n /\ i = l
    /\ t \in SqTypes => u = t

\* What comes back from a SQLite file, of the types there is a builder for.
LEMMA SqReads ==
    ASSUME NEW c, NEW t, NEW s, NEW k, NEW n, NEW l, NEW w, AttributeCell(c, t, s, k, n, l, w),
           NEW policy, NEW view, PutSqlite(c, policy).at = "stored", NEW d \in {"gpkg", "spatialite"}
    PROVE  /\ t \in NoBuilder => GetSqlite(PutSqlite(c, policy)) = ReadError
           /\ t \notin NoBuilder => \E u, j, m, i : /\ SqRead(GetSqlite(PutSqlite(c, policy)), u, j, m, i)
                                                    /\ SqSame(d, c, t, k, n, l, u, j, m, i, view)
<1> DEFINE st == PutSqlite(c, policy)
           r == GetSqlite(st)
           v == [k |-> k, n |-> n, lost |-> l]
           u == SqliteArrow[SqliteDecls[t]]
<1>c. /\ t \in AttributeTypes /\ s \in Nat /\ k \in Kinds(t) \cup {"null"} /\ n \in Int /\ l \in BOOLEAN
      /\ c.v = v /\ c.v.k = k /\ c.type.t = t /\ Fits(t, v) /\ c.v.n = n
  BY DEF AttributeCell
<1>1. st = IF t \notin DOMAIN SqliteDecls THEN WriteError
           ELSE IF t \in Floats /\ k = "nan" THEN Stored(Type(SqliteDecls[t]), "null", Gone)
           ELSE IF t \in Decimals /\ k # "null"
                THEN OnLoss(policy, Stored(Type(SqliteDecls[t]), ClassOf(t, c.v), Timed(t, c.v)),
                                    Stored(Type(SqliteDecls[t]), ClassOf(t, c.v), Timed(t, c.v)))
           ELSE Stored(Type(SqliteDecls[t]), ClassOf(t, c.v), Timed(t, c.v))
  BY <1>c DEF PutSqlite
<1>2. WriteError.at # "stored"
  BY DEF WriteError, Stored
<1> HIDE DEF st
<1>3. t \in DOMAIN SqliteDecls /\ st = IF t \in Floats /\ k = "nan" THEN Stored(Type(SqliteDecls[t]), "null", Gone)
              ELSE Stored(Type(SqliteDecls[t]), ClassOf(t, c.v), Timed(t, c.v))
  BY <1>1, <1>2 DEF st, OnLoss
<1>4. st.decl.t \in DOMAIN SqliteArrow /\ SqliteArrow[st.decl.t] = u
  BY <1>3, SqTable DEF Stored, Type
<1>5. r = IF HasBuilder(u) THEN Coerced(u, st.as, st.v) ELSE ReadError
  BY <1>4 DEF GetSqlite
<1> HIDE DEF r
<1>6. CASE t \in NoBuilder
  <2>1. u = t
    BY <1>6, SqTable
  <2>2. r = ReadError
    BY <1>5, <1>6, <2>1 DEF HasBuilder, NoBuilder
  <2> QED BY <1>6, <2>2 DEF r, st
<1>7. CASE t \notin NoBuilder
  <2>0. /\ u \in SqTypes /\ (t \in SqTypes => u = t)
        /\ t \in {"UInt8", "UInt16", "UInt32"} => u = "Int64"
        /\ t = "Date64" => u = "Date32"
        /\ t \in Times => u = "Ts"
        /\ t \in Decimals => u = "Utf8"
        /\ t \in SqTypes \cup {"UInt8", "UInt16", "UInt32", "Date64"} \cup Times \cup Decimals
    <3>1. t \in SqTypes \cup {"UInt8", "UInt16", "UInt32", "Date64"} \cup Times \cup Decimals
      BY <1>3, <1>7, SqTable DEF SqTypes, NoBuilder, AttributeTypes, Ints, Floats, Dates
    <3>2. \A z \in SqTypes \cup NoBuilder : SqliteArrow[SqliteDecls[z]] = z
      BY SqTable
    <3>3. t \in SqTypes => u = t
      BY <3>2
    <3>4. /\ t \in {"UInt8", "UInt16", "UInt32"} => u = "Int64"
          /\ t = "Date64" => u = "Date32"
          /\ t \in Times => u = "Ts"
          /\ t \in Decimals => u = "Utf8"
      BY SqTable
    <3> HIDE DEF u
    <3> QED BY <3>1, <3>3, <3>4 DEF SqTypes
  <2> HIDE DEF u, v
  <2>1. HasBuilder(u) /\ r = Coerced(u, st.as, st.v)
    BY <1>5, <2>0 DEF HasBuilder, SqTypes
  <2>2. u \in AttributeTypes
    BY <2>0 DEF SqTypes, AttributeTypes, Ints, Floats, Dates, Times, Naive
  <2>f. t = "Float64" <=> t \in Floats
    BY <2>0, <1>7, Families DEF Floats, NoBuilder
  <2>3. CASE t \in Floats /\ k = "nan"
    <3>0. PICK yes \in BOOLEAN : yes = TRUE
      OBVIOUS
    <3>1. st.as = "null" /\ st.v = [k |-> "null", n |-> 0, lost |-> yes]
      BY <1>3, <2>3, <3>0 DEF Stored, Gone, Lost, Null, Value
    <3>2. r = Arrow(Type(u), [k |-> "null", n |-> 0, lost |-> yes])
      BY <2>1, <3>1 DEF Coerced
    <3>3. u = "Float64"
      BY <2>0, <2>3, <2>f DEF SqTypes
    <3>4. SqRead(r, u, "null", 0, yes)
      <4>1. Fits(u, [k |-> "null", n |-> 0, lost |-> yes])
        BY <3>3, Families DEF Fits, AsF64, Beyond, Floats
      <4> QED BY <2>0, <2>2, <3>0, <3>2, <3>3, <4>1 DEF SqRead, ValueCell, Type
    <3>5. SqSame(d, c, t, k, n, l, u, "null", 0, yes, view)
      BY <1>c, <2>3, <3>3, <2>f DEF SqSame, SilentlyChanged, IsGeom
    <3> QED BY <1>7, <3>4, <3>5 DEF r, st
  <2>4. CASE ~(t \in Floats /\ k = "nan")
    <3>1. st.as = ClassOf(t, c.v) /\ st.v = Timed(t, c.v)
      BY <1>3, <2>4 DEF Stored
    <3>2. PICK m, i : TimedTo(c, t, k, n, l, m, i)
      BY TimedIs
    <3> DEFINE x == [k |-> k, n |-> m, lost |-> i]
    <3>3. /\ st.v = x /\ m \in Int /\ i \in BOOLEAN
          /\ Fits(t, x)
          /\ (m = n /\ i = l) \/ (t \in Times /\ k = "time" /\ n > 6)
          /\ t \in Times /\ k = "time" => m <= 6
      BY <3>1, <3>2 DEF TimedTo
    <3>4. x.k = k /\ x.n = m /\ x.lost = i
      OBVIOUS
    <3> HIDE DEF x
    <3>5. /\ st.as = IF k = "null" THEN "null" ELSE IF t \in Ints \cup {"Bool"} THEN "int"
                     ELSE IF t \in Floats THEN "real" ELSE IF t = "Binary" THEN "blob" ELSE "text"
      BY <1>c, <3>1, Families DEF ClassOf
    <3>6. r = Arrow(Type(u), x)
      <4>1. CASE k = "null"
        <5>1. st.as = "null"
          BY <3>5, <4>1
        <5>2. \A y, z : Coerced(y, "null", z) = Arrow(Type(y), z)
          BY DEF Coerced
        <5> QED BY <2>1, <3>3, <5>1, <5>2
      <4>2. CASE k # "null" /\ t = "Bool"
        <5>1. u = "Bool" /\ st.as = "int" /\ x.k = "bool"
          BY <1>c, <2>0, <3>4, <3>5, <4>2, KindsAre DEF SqTypes
        <5>2. AsBool(x) = x
          BY <5>1 DEF AsBool
        <5> QED BY <2>1, <3>3, <5>1, <5>2, CoercedIs
      <4>3. CASE k # "null" /\ t \in {"Int64", "UInt8", "UInt16", "UInt32"}
        <5>1. u = "Int64" /\ st.as = "int"
          BY <2>0, <3>5, <4>3 DEF SqTypes, Ints
        <5> QED BY <2>1, <3>3, <5>1, CoercedIs
      <4>4. CASE k # "null" /\ t = "Float64"
        <5>1. u = "Float64" /\ st.as = "real"
          BY <2>0, <3>5, <4>4 DEF SqTypes, Ints, Floats
        <5>2. AsF64(x) = x
          BY <2>f, <3>3, <4>4 DEF Fits
        <5> QED BY <2>1, <3>3, <5>1, <5>2, CoercedIs
      <4>5. CASE k # "null" /\ t = "Utf8"
        <5>1. u = "Utf8" /\ st.as = "text"
          BY <2>0, <3>5, <4>5 DEF SqTypes, Ints, Floats
        <5>2. k = "bytes" => Lost(x) = x
          BY <3>3, <3>4, <4>5 DEF Fits, Lost, x
        <5> QED BY <2>1, <3>3, <3>4, <5>1, <5>2, CoercedIs
      <4>6. CASE k # "null" /\ t = "Binary"
        <5>1. u = "Binary" /\ st.as = "blob"
          BY <2>0, <3>5, <4>6 DEF SqTypes, Ints, Floats
        <5> QED BY <2>1, <3>3, <5>1, CoercedIs
      <4>7. CASE k # "null" /\ t \in {"Date32", "Date64"}
        <5>1. u = "Date32" /\ st.as = "text" /\ x.k = "date"
          BY <1>c, <2>0, <3>4, <3>5, <4>7, KindsAre DEF SqTypes, Ints, Floats, Dates
        <5> QED BY <2>1, <3>3, <5>1, CoercedIs
      <4>8. CASE k # "null" /\ t \in Times
        <5>1. u = "Ts" /\ st.as = "text" /\ x.k \in {"time", "far"}
          BY <1>c, <2>0, <3>4, <3>5, <4>8, KindsAre, Families
        <5>2. Micros(x) = x
          BY <3>3, <3>4, <4>8 DEF Micros
        <5> QED BY <2>1, <3>3, <5>1, <5>2, CoercedIs
      <4>9. CASE k # "null" /\ t \in Decimals
        <5>1. u = "Utf8" /\ st.as = "text" /\ x.k = "dec"
          BY <1>c, <2>0, <3>4, <3>5, <4>9, KindsAre, Families
        <5> QED BY <2>1, <3>3, <5>1, CoercedIs
      <4> QED BY <2>0, <4>1, <4>2, <4>3, <4>4, <4>5, <4>6, <4>7, <4>8, <4>9 DEF SqTypes, Times, Naive
    <3>7. Fits(u, x) /\ k \in Kinds(u) \cup {"null"}
      <4>1. CASE u = t
        BY <1>c, <3>3, <4>1
      <4>2. CASE t \in {"UInt8", "UInt16", "UInt32"}
        <5>1. u = "Int64" /\ t \in Ints /\ u \in Ints
          BY <2>0, <4>2 DEF Ints
        <5>2. Bits(t) \in {8, 16, 32} /\ Bits(u) = 63
          BY <4>2, <5>1 DEF Bits
        <5>3. m \in 0..63 /\ (k = "null" => m = 0)
          BY <3>3, <3>4, <5>1, <5>2 DEF Fits
        <5>4. Fits(u, x)
          BY <3>4, <5>1, <5>2, <5>3, Families DEF Fits
        <5> QED BY <1>c, <2>2, <5>1, <5>4, KindsAre
      <4>3. CASE t \in Dates \cup Times /\ u \in {"Date32", "Ts"} /\ (t \in Dates <=> u \in Dates) /\ (t \in Times <=> u \in Times)
        <5>1. Fits(u, x)
          BY <3>3, <4>3, Families DEF Fits
        <5> QED BY <1>c, <2>2, <4>3, <5>1, KindsAre
      <4>4. CASE t \in Decimals
        <5>1. u = "Utf8" /\ k \in {"dec", "null"}
          BY <1>c, <2>0, <4>4, KindsAre
        <5>2. Fits(u, x)
          BY <3>3, <3>4, <4>4, <5>1, Families DEF Fits
        <5> QED BY <2>2, <5>1, <5>2, KindsAre
      <4> QED BY <2>0, <4>1, <4>2, <4>3, <4>4 DEF SqTypes, Dates, Times, Naive, Zoned
    <3>a. ValueCell(r, u, 0, k, m, i)
      BY <2>0, <2>2, <3>3, <3>6, <3>7 DEF ValueCell, Type, x
    <3>b. u = "Ts" /\ k = "time" => t \in Times
      BY <2>0, Families
    <3>c. u = "Float64" => k # "nan"
      BY <2>0, <2>4, <2>f
    <3>8. SqRead(r, u, k, m, i)
      BY <2>0, <3>3, <3>a, <3>b, <3>c DEF SqRead
    <3>9. SqSame(d, c, t, k, n, l, u, k, m, i, view)
      BY <1>c, <2>0, <3>3 DEF SqSame, SilentlyChanged, IsGeom
    <3> QED BY <1>7, <3>8, <3>9 DEF r, st
  <2> QED BY <2>3, <2>4
<1> QED BY <1>6, <1>7

\* GeoPackage and SpatiaLite carry an attribute.
LEMMA SqCarries ==
    ASSUME NEW c, NEW t, NEW s, NEW k, NEW n, NEW l, NEW w, AttributeCell(c, t, s, k, n, l, w),
           NEW policy, NEW view,
           NEW d \in {"gpkg", "spatialite"}
    PROVE  /\ PutSqlite(c, policy).at = "stored" => Comes(d, c, policy, GetSqlite(PutSqlite(c, policy)), view)
           /\ SettledAttribute(d, c, policy, view)
              => Stays(d, c, PutSqlite(c, policy), GetSqlite(PutSqlite(c, policy)))
<1> DEFINE st == PutSqlite(c, policy)
           r == GetSqlite(st)
<1>c. /\ t \in AttributeTypes /\ s \in Nat /\ k \in Kinds(t) \cup {"null"} /\ n \in Int /\ l \in BOOLEAN
      /\ c.v = [k |-> k, n |-> n, lost |-> l] /\ c.type = [t |-> t, s |-> s] /\ c.v.k = k /\ c.type.t = t
      /\ c.v.n = n /\ c.type.s = s
  BY DEF AttributeCell
<1>1. ASSUME SettledAttribute(d, c, policy, view)
      PROVE /\ st.at = "stored" /\ t \in SqTypes /\ (t = "Ts" /\ k = "time" => n <= 6)
            /\ (t = "Float64" => k # "nan") /\ s = 0
  <2>1. /\ t \in SqTypes /\ (t = "Ts" /\ k = "time" => n <= 6) /\ (t = "Float64" => k # "nan")
        /\ t \notin Decimals => s = 0
    BY <1>1, <1>c DEF SettledAttribute, Cut, SqTypes
  <2>2. t \notin Decimals /\ t \in DOMAIN SqliteDecls /\ (t \in Floats => t = "Float64")
    BY <2>1, SqTable, <1>c DEF SqTypes, Decimals, Floats
  <2>3. st = Stored(Type(SqliteDecls[t]), ClassOf(t, c.v), Timed(t, c.v))
    BY <1>c, <2>1, <2>2 DEF PutSqlite
  <2> QED BY <2>1, <2>2, <2>3 DEF Stored
<1>2. ASSUME st.at = "stored"
      PROVE /\ Comes(d, c, policy, r, view)
            /\ SettledAttribute(d, c, policy, view) => Stays(d, c, st, r)
  <2>1. CASE t \in NoBuilder
    <3>1. r = ReadError
      BY <1>2, <2>1, SqReads
    <3>2. KnownUnreadable(d, c)
      BY <1>c, <2>1 DEF KnownUnreadable, NoBuilder
    <3>3. ReadError.at = "unreadable"
      BY DEF ReadError, Arrow
    <3>4. ~SettledAttribute(d, c, policy, view)
      BY <1>1, <2>1 DEF SqTypes, NoBuilder
    <3> QED BY <3>1, <3>2, <3>3, <3>4 DEF Comes
  <2>2. CASE t \notin NoBuilder
    <3>1. PICK u, j, m, i : SqRead(r, u, j, m, i) /\ SqSame(d, c, t, k, n, l, u, j, m, i, view)
      BY <1>2, <2>2, SqReads
    <3> HIDE DEF r
    <3>2. ValueCell(r, u, 0, j, m, i)
      BY <3>1 DEF SqRead
    <3>3. SettledAttribute(d, r, policy, view)
      BY <3>1, SqReadIs
    <3>4. (j = k /\ (i => l) /\ (~i => m = n)) \/ SilentlyChanged(d, c, view)
      BY <3>1 DEF SqSame
    <3>5. Comes(d, c, policy, r, view)
      BY <3>2, <3>3, <3>4, Through
    <3>6. ASSUME SettledAttribute(d, c, policy, view) PROVE Stays(d, c, st, r)
      <4>1. t \in SqTypes /\ (t = "Ts" /\ k = "time" => n <= 6) /\ (t = "Float64" => k # "nan") /\ s = 0
        BY <1>1, <3>6
      <4>2. u = t /\ j = k /\ m = n /\ i = l
        BY <3>1, <4>1 DEF SqSame
      <4>3. Exact(c, r) /\ r.type = c.type
        BY <3>2, <4>1, <4>2, Through
      <4>4. r.at = "arrow"
        BY <3>2 DEF ValueCell, Arrow
      <4> QED BY <1>2, <4>3, <4>4 DEF Stays
    <3> QED BY <3>5, <3>6
  <2> QED BY <2>1, <2>2
<1> QED BY <1>1, <1>2

\* What other programs have stored in a SQLite file is refused or settled.
LEMMA ForeignSqlite ==
    ASSUME NEW st, SqliteCell(st), NEW d \in {"gpkg", "spatialite"}, NEW policy, NEW view
    PROVE  /\ st.at = "stored" /\ st.decl.t # "Geom" /\ st.v.k # "geom"
           /\ LET r == GetSqlite(st) IN
              /\ r.at \in {"arrow", "unreadable"}
              /\ r.at = "arrow" => ArrowCell(r) /\ r.type.t \in AttributeTypes /\ SettledAttribute(d, r, policy, view)
<1> DEFINE r == GetSqlite(st)
           v == st.v
           u == SqliteArrow[st.decl.t]
<1>1. /\ st.decl.t \in {"BOOLEAN", "TINYINT", "SMALLINT", "MEDIUMINT", "INTEGER", "FLOAT", "DOUBLE",
                        "TEXT", "BLOB", "DATE", "DATETIME"}
      /\ st.decl.t \in DOMAIN SqliteArrow
      /\ st.as \in {"int", "real", "text", "blob", "null"}
      /\ st.as = "int" => v.k = "int"
      /\ st.as = "real" => v.k = "float"
      /\ st.as = "text" => v.k \in {"text", "date", "time"}
      /\ st.as = "blob" => v.k = "bytes"
      /\ st.as = "null" => v.k = "null" /\ v.n = 0
      /\ v.n \in 0..63
      /\ st.at = "stored"
      /\ v = [k |-> v.k, n |-> v.n, lost |-> FALSE]
  <2>1. st = Stored(Type(st.decl.t), st.as, Value(st.v.k, st.v.n))
    BY DEF SqliteCell
  <2>2. st.at = "stored" /\ st.v = Value(st.v.k, st.v.n)
    BY <2>1 DEF Stored
  <2>3. st.as \in DOMAIN SqliteKinds /\ st.v.k \in SqliteKinds[st.as] /\ st.decl.t \in DOMAIN SqliteArrow
        /\ st.v.n \in (IF st.v.k = "null" THEN {0} ELSE 0..63)
    BY DEF SqliteCell
  <2>4. /\ DOMAIN SqliteKinds = {"int", "real", "text", "blob", "null"}
        /\ SqliteKinds["int"] = {"int"} /\ SqliteKinds["real"] = {"float"}
        /\ SqliteKinds["text"] = {"text", "date", "time"} /\ SqliteKinds["blob"] = {"bytes"}
        /\ SqliteKinds["null"] = {"null"}
    BY DEF SqliteKinds
  <2>5. DOMAIN SqliteArrow = {"BOOLEAN", "TINYINT", "SMALLINT", "MEDIUMINT", "INTEGER", "FLOAT", "DOUBLE",
                               "TEXT", "BLOB", "DATE", "DATETIME"}
    BY DEF SqliteArrow
  <2> QED BY <2>2, <2>3, <2>4, <2>5 DEF Value
<1>2. st.decl.t # "Geom" /\ v.k # "geom"
  BY <1>1
<1>3. r = IF HasBuilder(u) THEN Coerced(u, st.as, v) ELSE ReadError
  BY <1>1 DEF GetSqlite
<1>4. HasBuilder(u) => u \in SqTypes
  <2>1. /\ SqliteArrow["BOOLEAN"] = "Bool" /\ SqliteArrow["TINYINT"] = "Int8"
        /\ SqliteArrow["SMALLINT"] = "Int16" /\ SqliteArrow["MEDIUMINT"] = "Int32"
        /\ SqliteArrow["INTEGER"] = "Int64" /\ SqliteArrow["FLOAT"] = "Float32"
        /\ SqliteArrow["DOUBLE"] = "Float64" /\ SqliteArrow["TEXT"] = "Utf8"
        /\ SqliteArrow["BLOB"] = "Binary" /\ SqliteArrow["DATE"] = "Date32" /\ SqliteArrow["DATETIME"] = "Ts"
    BY DEF SqliteArrow
  <2> QED BY <1>1, <2>1 DEF HasBuilder, SqTypes
<1> HIDE DEF r, u
<1>5. ReadError.at = "unreadable"
  BY DEF ReadError, Arrow
<1>6. CASE ~HasBuilder(u)
  BY <1>1, <1>2, <1>3, <1>5, <1>6 DEF r
<1>7. CASE HasBuilder(u)
  <2>1. u \in SqTypes /\ r = Coerced(u, st.as, v)
    BY <1>3, <1>4, <1>7
  <2>0. u \in AttributeTypes
    BY <2>1 DEF SqTypes, AttributeTypes, Ints, Floats, Dates, Times, Naive
  <2>a. PICK no \in BOOLEAN : no = FALSE
    OBVIOUS
  <2>b. PICK yes \in BOOLEAN : yes = TRUE
    OBVIOUS
  <2>c. v = [k |-> v.k, n |-> v.n, lost |-> no]
    BY <1>1, <2>a
  <2> DEFINE kk == v.k
             nn == v.n
  <2>d. nn \in 0..63
    BY <1>1
  <2> HIDE DEF v
  <2>2. r = ReadError \/ \E j, m, i : SqRead(r, u, j, m, i)
    <3>1. CASE st.as = "null"
      <4>1. r = Arrow(Type(u), [k |-> "null", n |-> 0, lost |-> no]) /\ nn = 0
        <5>1. \A y, z : Coerced(y, "null", z) = Arrow(Type(y), z)
          BY DEF Coerced
        <5> QED BY <1>1, <2>1, <2>c, <3>1, <5>1
      <4>2. Fits(u, [k |-> "null", n |-> 0, lost |-> no])
        BY <2>1, Families DEF Fits, SqTypes, Ints, Floats, Decimals, AsF64, Beyond, Bits
      <4>3. SqRead(r, u, "null", 0, no)
        BY <2>0, <2>1, <2>a, <4>1, <4>2 DEF SqRead, ValueCell, Type
      <4> QED BY <4>3
    <3>2. CASE st.as # "null" /\ u = "Bool"
      <4>1. r = Arrow(Type("Bool"), AsBool(v)) \/ r = ReadError
        BY <2>1, <3>2, CoercedIs
      <4>2. AsBool(v) = [k |-> "bool", n |-> 1, lost |-> yes]
        <5>1. v.k # "bool"
          BY <1>1
        <5> QED BY <5>1, <2>b DEF AsBool, Lost, Value
      <4>3. Fits(u, [k |-> "bool", n |-> 1, lost |-> yes])
        BY <3>2, Families DEF Fits
      <4>4. "bool" \in Kinds(u)
        BY <2>0, <3>2, KindsAre
      <4>5. r = ReadError \/ SqRead(r, u, "bool", 1, yes)
        BY <2>0, <2>1, <2>b, <3>2, <4>1, <4>2, <4>3, <4>4 DEF SqRead, ValueCell, Type
      <4> QED BY <4>5
    <3>3. CASE st.as # "null" /\ u = "Int64"
      <4>1. \/ r = Arrow(Type("Int64"), v) /\ v.k = "int"
            \/ r = Arrow(Type("Int64"), Lost(Value("int", 53)))
            \/ r = ReadError
        BY <1>1, <2>1, <3>3, CoercedIs
      <4>2. Lost(Value("int", 53)) = [k |-> "int", n |-> 53, lost |-> yes]
        <5>1. Value("int", 53) = [k |-> "int", n |-> 53, lost |-> no]
          BY <2>a DEF Value
        <5>2. PICK x : x = Value("int", 53)
          OBVIOUS
        <5>3. x = [k |-> "int", n |-> 53, lost |-> no]
          BY <5>1, <5>2
        <5>4. Lost(x) = [k |-> "int", n |-> 53, lost |-> yes]
          <6>1. Lost(x) = [x EXCEPT !.lost = yes]
            BY <2>b, Zenon DEF Lost
          <6>2. ASSUME NEW z PROVE [x EXCEPT !.lost = z] = [k |-> "int", n |-> 53, lost |-> z]
            BY ONLY <5>3
          <6>3. [x EXCEPT !.lost = yes] = [k |-> "int", n |-> 53, lost |-> yes]
            BY ONLY <6>2
          <6> QED BY <6>1, <6>3, Zenon
        <5> QED BY <5>2, <5>4
      <4>3. u \in Ints /\ Bits(u) = 63 /\ "int" \in Kinds(u)
        BY <2>0, <3>3, KindsAre DEF Ints, Bits
      <4>4. Fits(u, [k |-> "int", n |-> nn, lost |-> no]) /\ Fits(u, [k |-> "int", n |-> 53, lost |-> yes])
        BY <2>d, <3>3, <4>3, Families DEF Fits
      <4>5. r = Arrow(Type("Int64"), [k |-> "int", n |-> nn, lost |-> no]) => SqRead(r, u, "int", nn, no)
        BY <2>0, <2>1, <2>a, <2>d, <3>3, <4>3, <4>4 DEF SqRead, ValueCell, Type
      <4>6. r = Arrow(Type("Int64"), [k |-> "int", n |-> 53, lost |-> yes]) => SqRead(r, u, "int", 53, yes)
        BY <2>0, <2>1, <2>b, <3>3, <4>3, <4>4 DEF SqRead, ValueCell, Type
      <4> QED BY <2>c, <4>1, <4>2, <4>5, <4>6
    <3>4. CASE st.as # "null" /\ u = "Float64"
      <4>1. (r = Arrow(Type("Float64"), AsF64(v)) /\ v.k \in {"int", "float"}) \/ r = ReadError
        BY <1>1, <2>1, <3>4, CoercedIs
      <4> DEFINE gone == IF kk = "int" /\ nn > 53 THEN yes ELSE no
      <4>2. v.k \in {"int", "float"} => AsF64(v) = [k |-> kk, n |-> nn, lost |-> gone]
        BY <2>a, <2>b, <2>c, <2>d DEF AsF64, Beyond, Lost
      <4>3. u \in Floats /\ {"int", "float"} \subseteq Kinds(u)
        BY <2>0, <3>4, KindsAre DEF Floats
      <4>4. gone \in BOOLEAN
        BY <2>a, <2>b
      <4>5. kk \in {"int", "float"} => Fits(u, [k |-> kk, n |-> nn, lost |-> gone])
        BY <2>a, <2>b, <2>d, <3>4, <4>3, Families DEF Fits, AsF64, Beyond, Lost
      <4> HIDE DEF gone
      <4>6. r = ReadError \/ SqRead(r, u, kk, nn, gone)
        BY <2>0, <2>1, <2>d, <3>4, <4>1, <4>2, <4>3, <4>4, <4>5 DEF SqRead, ValueCell, Type
      <4> QED BY <4>6
    <3>5. CASE st.as # "null" /\ u = "Utf8"
      <4>1. r = Arrow(Type("Utf8"), IF v.k = "bytes" THEN Lost(v) ELSE v)
        BY <2>1, <3>5, CoercedIs
      <4> DEFINE gone == IF kk = "bytes" THEN yes ELSE no
      <4>2. (IF v.k = "bytes" THEN Lost(v) ELSE v) = [k |-> kk, n |-> nn, lost |-> gone]
        BY <2>a, <2>b, <2>c DEF Lost
      <4>3. kk \in Kinds(u)
        BY <1>1, <2>0, <3>5, KindsAre
      <4>4. gone \in BOOLEAN
        BY <2>a, <2>b
      <4>5. kk # "null"
        BY <1>1, <3>5
      <4>6. Fits(u, [k |-> kk, n |-> nn, lost |-> gone])
        BY <2>b, <3>5, <4>5, Families DEF Fits
      <4> HIDE DEF gone
      <4>7. SqRead(r, u, kk, nn, gone)
        BY <2>0, <2>1, <2>d, <3>5, <4>1, <4>2, <4>3, <4>4, <4>6 DEF SqRead, ValueCell, Type
      <4> QED BY <4>7
    <3>6. CASE st.as # "null" /\ u \in {"Binary", "Date32"}
      <4>1. r = ReadError \/ (r = Arrow(Type(u), v) /\ (u = "Binary" => v.k = "bytes") /\ (u = "Date32" => v.k = "date"))
        BY <1>1, <2>1, <3>6, CoercedIs
      <4>2. (u = "Binary" => v.k = "bytes") /\ (u = "Date32" => v.k = "date") => kk \in Kinds(u)
        BY <2>0, <3>6, KindsAre DEF Dates
      <4>3. Fits(u, [k |-> kk, n |-> nn, lost |-> no])
        BY <1>1, <2>d, <3>6, Families DEF Fits, Ints, Floats, Decimals
      <4>4. r = ReadError \/ SqRead(r, u, kk, nn, no)
        BY <2>0, <2>1, <2>a, <2>c, <2>d, <3>6, <4>1, <4>2, <4>3 DEF SqRead, ValueCell, Type
      <4> QED BY <4>4
    <3>7. CASE st.as # "null" /\ u = "Ts"
      <4>1. r = ReadError \/ (r = Arrow(Type(u), Micros(v)) /\ v.k = "time")
        BY <1>1, <2>1, <3>7, CoercedIs
      <4> DEFINE mm == IF nn > 6 THEN 6 ELSE nn
                 gone == IF nn > 6 THEN yes ELSE no
      <4>2. v.k = "time" => Micros(v) = [k |-> kk, n |-> mm, lost |-> gone]
        BY <2>a, <2>b, <2>c, <2>d DEF Micros, Lost
      <4>3. mm \in Int /\ mm <= 6 /\ gone \in BOOLEAN
        <5>1. mm \in Int /\ mm <= 6
          BY <2>d
        <5>2. gone \in BOOLEAN
          BY <2>a, <2>b
        <5> QED BY <5>1, <5>2
      <4>4. u \in Times
        BY <3>7, Families
      <4> HIDE DEF mm, gone
      <4>5. kk = "time" => Fits(u, [k |-> kk, n |-> mm, lost |-> gone]) /\ kk \in Kinds(u)
        BY <2>0, <3>7, <4>3, <4>4, Families, KindsAre DEF Fits
      <4>6. r = ReadError \/ SqRead(r, u, kk, mm, gone)
        BY <2>0, <2>1, <3>7, <4>1, <4>2, <4>3, <4>5 DEF SqRead, ValueCell, Type
      <4> QED BY <4>6
    <3> QED BY <2>1, <3>1, <3>2, <3>3, <3>4, <3>5, <3>6, <3>7 DEF SqTypes
  <2>3. CASE r = ReadError
    BY <1>1, <1>2, <1>5, <2>3 DEF r, v
  <2>4. CASE \E j, m, i : SqRead(r, u, j, m, i)
    <3>1. PICK j, m, i : SqRead(r, u, j, m, i)
      BY <2>4
    <3>2. ValueCell(r, u, 0, j, m, i)
      BY <3>1 DEF SqRead
    <3>3. ArrowCell(r) /\ r.at = "arrow" /\ r.type.t = u
      BY <3>2, ArrowIs
    <3>4. SettledAttribute(d, r, policy, view)
      BY <3>1, SqReadIs
    <3> QED BY <1>1, <1>2, <2>0, <3>3, <3>4 DEF r, v
  <2> QED BY <2>2, <2>3, <2>4
<1> QED BY <1>6, <1>7

----------------------------------------------------------------------------
(* GeoParquet and CSV.                                                     *)

\* What other programs have stored as a numeric is refused or settled.
LEMMA ForeignNumeric ==
    ASSUME NEW st, NumericCell(st), NEW policy, NEW view
    PROVE  /\ st.at = "stored" /\ st.decl.t # "Geom" /\ st.v.k # "geom"
           /\ LET r == GetPg(st) IN
              /\ r.at \in {"arrow", "unreadable"}
              /\ r.at = "arrow" => ArrowCell(r) /\ r.type.t \in AttributeTypes
                                   /\ SettledAttribute("postgis", r, policy, view)
<1> DEFINE r == GetPg(st)
           N == Numeric(st.w[1], st.w[2], st.w[3])
           z == NumericScale(st.decl)
           u == PgArrow[st.decl.t]
           i == ToDecimal(N, z)
<1>1. /\ st.decl.t \in {"numeric", "numeric_wide", "numeric_any"} /\ st.decl.s \in Nat
      /\ st.w[1] \in Seq(0..(NBase - 1)) /\ st.w[2] \in Int
      /\ st.at = "stored" /\ st.v = Value("dec", 0)
  <2>1. /\ st.decl.t \in {"numeric", "numeric_wide", "numeric_any"} /\ st.decl.s \in Nat
        /\ st.w[1] \in Seq(0..(NBase - 1)) /\ st.w[2] \in Int
        /\ st = [Stored([t |-> st.decl.t, s |-> st.decl.s], "-", Value("dec", 0))
                   EXCEPT !.w = <<st.w[1], st.w[2], st.w[3]>>]
    BY DEF NumericCell
  <2>2. st.at = "stored" /\ st.v = Value("dec", 0)
    BY <2>1 DEF Stored
  <2> QED BY <2>1, <2>2
<1>2. st.v = [k |-> "dec", n |-> 0, lost |-> FALSE] /\ st.v.k = "dec"
  BY <1>1 DEF Value
<1>3. z \in Nat /\ u \in Decimals
  <2>1. PgArrow["numeric"] = "Decimal" /\ PgArrow["numeric_wide"] = "DecimalWide"
        /\ PgArrow["numeric_any"] = "DecimalWide"
    BY DEF PgArrow
  <2> QED BY <1>1, <2>1 DEF NumericScale, Decimals
<1>4. i.ok \in BOOLEAN /\ i.v \in (0 - MaxAcc)..MaxAcc
  <2>1. N.digits = st.w[1] /\ N.weight = st.w[2]
    BY DEF Numeric
  <2>2. st.w[1] \in Seq(Nat)
    <3> DEFINE D == st.w[1]
               Digit == 0..(NBase - 1)
    <3>1. D \in Seq(Digit)
      BY <1>1
    <3>2. \A x \in Digit : x \in Nat
      BY DEF NBase
    <3> HIDE DEF Digit, D
    <3>3. Len(D) \in Nat /\ D \in [1..Len(D) -> Nat]
      BY <3>1, <3>2
    <3>4. D \in Seq(Nat)
      BY <3>3, FunctionIsSeq
    <3> QED BY <3>4 DEF D
  <2>3. N.digits \in Seq(Nat) /\ N.weight \in Int /\ z \in Int
    <3> HIDE DEF N, z
    <3> QED BY <1>1, <1>3, <2>1, <2>2
  <2> HIDE DEF N, z
  <2> QED BY <2>3, ToDecimalIs
<1>5. GetPg(st) = PgDecimal(st)
  BY <1>1 DEF GetPg
<1> DEFINE v == [st.v EXCEPT !.n = i.v]
<1>6. PgDecimal(st) = IF ~i.ok THEN ReadError
                      ELSE Arrow([t |-> u, s |-> z], IF FromDecimal(i.v, z) = N THEN v ELSE Lost(v))
  BY <1>2 DEF PgDecimal
<1> HIDE DEF i, u, z, N, r
<1>7. PICK no \in BOOLEAN, yes \in BOOLEAN : no = FALSE /\ yes = TRUE
  OBVIOUS
<1>8. v = [k |-> "dec", n |-> i.v, lost |-> no]
  <2>1. st.v = [k |-> "dec", n |-> 0, lost |-> no]
    BY <1>2, <1>7
  <2> QED BY <2>1
<1> HIDE DEF v
<1>9. Lost(v) = [k |-> "dec", n |-> i.v, lost |-> yes]
  <2>1. Lost(v) = [v EXCEPT !.lost = yes]
    BY <1>7, Zenon DEF Lost
  <2>2. ASSUME NEW x PROVE [v EXCEPT !.lost = x] = [k |-> "dec", n |-> i.v, lost |-> x]
    BY ONLY <1>8
  <2>3. [v EXCEPT !.lost = yes] = [k |-> "dec", n |-> i.v, lost |-> yes]
    BY ONLY <2>2
  <2> QED BY <2>1, <2>3, Zenon
<1>10. ReadError.at = "unreadable"
  BY DEF ReadError, Arrow
<1>11. u \in AttributeTypes /\ "dec" \in Kinds(u) /\ u \notin Times
  BY <1>3, KindsAre, Families DEF AttributeTypes
<1>12. ASSUME NEW l \in BOOLEAN, r = Arrow([t |-> u, s |-> z], [k |-> "dec", n |-> i.v, lost |-> l])
       PROVE  r.at = "arrow" /\ ArrowCell(r) /\ r.type.t \in AttributeTypes /\ SettledAttribute("postgis", r, policy, view)
  <2>1. Fits(u, [k |-> "dec", n |-> i.v, lost |-> l])
    BY <1>3, <1>4, <1>11, Families DEF Fits
  <2>2. ValueCell(r, u, z, "dec", i.v, l)
    <3>1. i.v \in Int
      BY <1>4
    <3> QED BY <1>3, <1>11, <1>12, <2>1, <3>1 DEF ValueCell
  <2>3. ArrowCell(r) /\ r.at = "arrow" /\ r.type.t = u
    BY <2>2, ArrowIs
  <2>4. u \in PgTypes
    BY <1>3 DEF PgTypes, Decimals
  <2> QED BY <1>3, <1>11, <2>3, <2>4 DEF SettledAttribute
<1>13. r = ReadError \/ r = Arrow([t |-> u, s |-> z], v) \/ r = Arrow([t |-> u, s |-> z], Lost(v))
  BY <1>5, <1>6 DEF r
<1>14. r.at \in {"arrow", "unreadable"}
       /\ (r.at = "arrow" => ArrowCell(r) /\ r.type.t \in AttributeTypes /\ SettledAttribute("postgis", r, policy, view))
  <2>1. CASE r = ReadError
    BY <1>10, <2>1
  <2>2. CASE r = Arrow([t |-> u, s |-> z], v)
    BY <1>7, <1>8, <1>12, <2>2
  <2>3. CASE r = Arrow([t |-> u, s |-> z], Lost(v))
    BY <1>7, <1>9, <1>12, <2>3
  <2> QED BY <1>13, <2>1, <2>2, <2>3
<1> QED BY <1>1, <1>2, <1>14 DEF r

\* GeoParquet carries every attribute, and settles it.
LEMMA ParquetCarries ==
    ASSUME NEW c, NEW t, NEW s, NEW k, NEW n, NEW l, NEW w, AttributeCell(c, t, s, k, n, l, w),
           NEW policy, NEW view
    PROVE  /\ Comes("parquet", c, policy, GetParquet(PutParquet(c)), view)
           /\ Stays("parquet", c, PutParquet(c), GetParquet(PutParquet(c)))
<1> DEFINE r == GetParquet(PutParquet(c))
<1>1. r = Arrow([t |-> t, s |-> s], [k |-> k, n |-> n, lost |-> l]) /\ PutParquet(c).at = "stored"
  BY DEF AttributeCell, GetParquet, PutParquet, Stored
<1>2. ValueCell(r, t, s, k, n, l)
  <2> HIDE DEF r
  <2> QED BY <1>1 DEF AttributeCell, ValueCell
<1>3. SettledAttribute("parquet", r, policy, view)
  BY DEF SettledAttribute
<1>4. r.at = "arrow"
  BY <1>1 DEF Arrow
<1> HIDE DEF r
<1>5. Comes("parquet", c, policy, r, view) /\ Exact(c, r) /\ r.type = c.type
  BY <1>2, <1>3, Through
<1> QED BY <1>1, <1>4, <1>5 DEF Stays, r

\* CSV carries an attribute as text.
LEMMA CsvCarries ==
    ASSUME NEW c, NEW t, NEW s, NEW k, NEW n, NEW l, NEW w, AttributeCell(c, t, s, k, n, l, w),
           NEW policy, NEW view
    PROVE  /\ PutCsv(c, policy).at = "stored" => Comes("csv", c, policy, GetCsv(PutCsv(c, policy)), view)
           /\ SettledAttribute("csv", c, policy, view)
              => Stays("csv", c, PutCsv(c, policy), GetCsv(PutCsv(c, policy)))
<1> DEFINE st == PutCsv(c, policy)
           r == GetCsv(st)
           v == [k |-> k, n |-> n, lost |-> l]
<1>c. /\ t \in AttributeTypes /\ s \in Nat /\ k \in Kinds(t) \cup {"null"} /\ n \in Int /\ l \in BOOLEAN
      /\ c.v = v /\ c.v.k = k /\ c.type.t = t /\ Fits(t, v) /\ c.type = [t |-> t, s |-> s] /\ c.type.s = s
  BY DEF AttributeCell
<1>u. "Utf8" \in AttributeTypes /\ "Utf8" \notin Ints \cup Floats \cup Decimals \cup Times
  BY Families DEF AttributeTypes
<1>0. WriteError.at # "stored" /\ LeftOut.at # "stored"
  BY DEF WriteError, LeftOut, Stored
<1>1. PICK yes \in BOOLEAN : yes = TRUE
  OBVIOUS
<1>2. Empty = [k |-> "text", n |-> 0, lost |-> yes]
  <2>1. Value("text", 0) = [k |-> "text", n |-> 0, lost |-> FALSE]
    BY DEF Value
  <2>2. Empty = [Value("text", 0) EXCEPT !.lost = yes]
    BY <1>1, Zenon DEF Empty, Lost
  <2>3. ASSUME NEW x PROVE [Value("text", 0) EXCEPT !.lost = x] = [k |-> "text", n |-> 0, lost |-> x]
    BY ONLY <2>1
  <2>4. [Value("text", 0) EXCEPT !.lost = yes] = [k |-> "text", n |-> 0, lost |-> yes]
    BY ONLY <2>3
  <2> QED BY <2>2, <2>4, Zenon
<1>3. ASSUME st.at = "stored"
      PROVE \/ r = Arrow(Type("Utf8"), Empty) /\ (policy # "error" \/ k = "null")
            \/ r = Arrow(Type("Utf8"), v) /\ k # "null" /\ t \notin {"Binary", "List"}
  <2>1. CASE t = "Binary"
    <3>1. st = OnLoss(policy, [Stored(Type("text"), "-", CsvText(c.v)) EXCEPT !.v = Empty], LeftOut)
      BY <1>c, <2>1 DEF PutCsv
    <3>2. policy = "warn" /\ st = [Stored(Type("text"), "-", CsvText(c.v)) EXCEPT !.v = Empty]
      <4> HIDE DEF st
      <4> QED BY <1>0, <1>3, <3>1 DEF OnLoss
    <3>3. st.v = Empty
      BY <3>2 DEF Stored
    <3> QED BY <3>2, <3>3 DEF GetCsv
  <2>2. CASE t = "List"
    <3>1. st = OnLoss(policy, WriteError, LeftOut)
      BY <1>c, <2>2 DEF PutCsv
    <3> QED BY <1>0, <1>3, <3>1 DEF OnLoss
  <2>3. CASE t \notin {"Binary", "List"}
    <3>1. st = Stored(Type("text"), "-", CsvText(v))
      BY <1>c, <2>3 DEF PutCsv
    <3>2. st.v = CsvText(v)
      BY <3>1 DEF Stored
    <3> QED BY <2>3, <3>2 DEF GetCsv, CsvText
  <2> QED BY <2>1, <2>2, <2>3
<1>4. k # "null" /\ t \notin {"Binary", "List"} => k \in Kinds("Utf8") /\ Fits("Utf8", v)
  <2> SUFFICES ASSUME k # "null", t \notin {"Binary", "List"} PROVE k \in Kinds("Utf8") /\ Fits("Utf8", v)
    OBVIOUS
  <2>1. k \in Kinds("Utf8") /\ (k = "bytes" => t = "Utf8")
    BY <1>c, <1>u, KindsAre DEF AttributeTypes
  <2> QED BY <1>c, <1>u, <2>1 DEF Fits
<1>5. ASSUME r = Arrow(Type("Utf8"), Empty) /\ (policy # "error" \/ k = "null") PROVE Comes("csv", c, policy, r, view)
  <2>1. Fits("Utf8", [k |-> "text", n |-> 0, lost |-> yes]) /\ "text" \in Kinds("Utf8")
    BY <1>u, KindsAre DEF Fits
  <2> HIDE DEF r
  <2>2. ValueCell(r, "Utf8", 0, "text", 0, yes)
    BY <1>1, <1>2, <1>5, <1>u, <2>1 DEF ValueCell, Type
  <2>3. r.type.t = "Utf8" /\ r.v.k = "text" /\ r.type.s = 0
    BY <1>2, <1>5 DEF Arrow, Type
  <2>4. SettledAttribute("csv", r, policy, view)
    BY <2>3 DEF SettledAttribute
  <2>5. k = "null" => SilentlyChanged("csv", c, view)
    BY <1>c DEF SilentlyChanged, IsGeom
  <2> QED BY <1>5, <2>2, <2>4, <2>5, Through
<1>6. ASSUME r = Arrow(Type("Utf8"), v) /\ k # "null" /\ t \notin {"Binary", "List"}
      PROVE Comes("csv", c, policy, r, view) /\ (t = "Utf8" /\ s = 0 => r.type = c.type) /\ Exact(c, r) /\ r.at = "arrow"
  <2> HIDE DEF r
  <2>2. ValueCell(r, "Utf8", 0, k, n, l)
    BY <1>4, <1>6, <1>c, <1>u DEF ValueCell, Type
  <2>3. r.type.t = "Utf8" /\ r.v.k = k /\ r.type.s = 0 /\ r.at = "arrow"
    BY <1>6 DEF Arrow, Type
  <2>4. SettledAttribute("csv", r, policy, view)
    BY <1>6, <2>3 DEF SettledAttribute
  <2> QED BY <2>2, <2>3, <2>4, Through
<1>7. ASSUME SettledAttribute("csv", c, policy, view) PROVE t = "Utf8" /\ k # "null" /\ s = 0 /\ st.at = "stored"
  <2>1. t = "Utf8" /\ k # "null" /\ s = 0
    BY <1>7, <1>c, <1>u DEF SettledAttribute
  <2>2. st = Stored(Type("text"), "-", CsvText(v))
    BY <1>c, <2>1 DEF PutCsv
  <2> QED BY <2>1, <2>2 DEF Stored
<1>8. ASSUME SettledAttribute("csv", c, policy, view) PROVE Stays("csv", c, st, r)
  <2>1. st = Stored(Type("text"), "-", v)
    BY <1>7, <1>8, <1>c DEF PutCsv, CsvText
  <2>2. r = Arrow(Type("Utf8"), v)
    BY <2>1 DEF GetCsv, Stored
  <2> HIDE DEF r, st
  <2> QED BY <1>6, <1>7, <1>8, <2>2 DEF Stays
<1> HIDE DEF r, st
<1>9. st.at = "stored" => Comes("csv", c, policy, r, view)
  BY <1>3, <1>5, <1>6
<1> QED BY <1>8, <1>9 DEF r, st

----------------------------------------------------------------------------
(* FlatGeobuf.                                                             *)

\* A number that a float of some width has no room for.
Floated(x, k, n, l, i) == x = [k |-> k, n |-> n, lost |-> i] /\ i \in BOOLEAN /\ (l => i)

\* Making a float of a number changes what the float has no room for, once.
LEMMA FloatIs ==
    ASSUME NEW k, NEW n \in Int, NEW l \in BOOLEAN
    PROVE  LET v == [k |-> k, n |-> n, lost |-> l] IN
           /\ \E i : Floated(AsF64(v), k, n, l, i) /\ AsF64([k |-> k, n |-> n, lost |-> i]) = [k |-> k, n |-> n, lost |-> i]
           /\ \E i : Floated(AsF32(v), k, n, l, i) /\ (AsF64(v) = v => AsF64([k |-> k, n |-> n, lost |-> i]) = [k |-> k, n |-> n, lost |-> i])
           /\ k \notin {"int", "float", "dec"} => AsF64(v) = v /\ AsF32(v) = v
<1> DEFINE v == [k |-> k, n |-> n, lost |-> l]
<1>0. PICK yes \in BOOLEAN : yes = TRUE
  OBVIOUS
<1>1. v.k = k /\ v.n = n
  OBVIOUS
<1> DEFINE y == [k |-> k, n |-> n, lost |-> yes]
<1>2. Lost(v) = y /\ Lost(y) = y
  <2>1. Lost(v) = [v EXCEPT !.lost = yes] /\ Lost(y) = [y EXCEPT !.lost = yes]
    BY <1>0, Zenon DEF Lost
  <2>2. ASSUME NEW x PROVE [v EXCEPT !.lost = x] = [k |-> k, n |-> n, lost |-> x]
    OBVIOUS
  <2>3. ASSUME NEW x PROVE [y EXCEPT !.lost = x] = [k |-> k, n |-> n, lost |-> x]
    OBVIOUS
  <2>4. [v EXCEPT !.lost = yes] = y
    BY ONLY <2>2
  <2>5. [y EXCEPT !.lost = yes] = y
    BY ONLY <2>3
  <2> QED BY <2>1, <2>4, <2>5, Zenon
<1>3. y.k = k /\ y.n = n
  OBVIOUS
<1>4. Floated(v, k, n, l, l) /\ Floated(y, k, n, l, yes)
  BY <1>0 DEF Floated
<1> HIDE DEF v, y
<1>5. AsF64(v) \in {v, y} /\ AsF32(v) \in {v, y}
  BY <1>2 DEF AsF64, AsF32
<1>6. AsF64(y) = y
  BY <1>2 DEF AsF64
<1>7. AsF64(v) = v \/ AsF64(v) = y
  BY <1>5
<1>8. \E i : Floated(AsF64(v), k, n, l, i) /\ AsF64([k |-> k, n |-> n, lost |-> i]) = [k |-> k, n |-> n, lost |-> i]
  <2>1. CASE AsF64(v) = v
    <3>1. Floated(AsF64(v), k, n, l, l) /\ AsF64([k |-> k, n |-> n, lost |-> l]) = [k |-> k, n |-> n, lost |-> l]
      BY <1>4, <2>1 DEF v
    <3> QED BY <3>1
  <2>2. CASE AsF64(v) = y
    <3>1. Floated(AsF64(v), k, n, l, yes) /\ AsF64([k |-> k, n |-> n, lost |-> yes]) = [k |-> k, n |-> n, lost |-> yes]
      BY <1>4, <1>6, <2>2 DEF y
    <3> QED BY <3>1
  <2> QED BY <1>7, <2>1, <2>2
<1>9. \E i : Floated(AsF32(v), k, n, l, i) /\ (AsF64(v) = v => AsF64([k |-> k, n |-> n, lost |-> i]) = [k |-> k, n |-> n, lost |-> i])
  <2>1. CASE AsF32(v) = v
    <3>1. Floated(AsF32(v), k, n, l, l) /\ (AsF64(v) = v => AsF64([k |-> k, n |-> n, lost |-> l]) = [k |-> k, n |-> n, lost |-> l])
      BY <1>4, <2>1 DEF v
    <3> QED BY <3>1
  <2>2. CASE AsF32(v) = y
    <3>1. Floated(AsF32(v), k, n, l, yes) /\ (AsF64(v) = v => AsF64([k |-> k, n |-> n, lost |-> yes]) = [k |-> k, n |-> n, lost |-> yes])
      BY <1>4, <1>6, <2>2 DEF y
    <3> QED BY <3>1
  <2> QED BY <1>5, <2>1, <2>2
<1>10. k \notin {"int", "float", "dec"} => AsF64(v) = v /\ AsF32(v) = v
  BY <1>1 DEF AsF64, AsF32, Beyond
<1> QED BY <1>8, <1>9, <1>10 DEF v

\* What a number becomes in a column of doubles, and stays then.
DoubleOf(v, k, n, l, i) ==
    Floated(AsF64(v), k, n, l, i) /\ AsF64([k |-> k, n |-> n, lost |-> i]) = [k |-> k, n |-> n, lost |-> i]

\* Every number becomes one.
LEMMA DoubleIs ==
    ASSUME NEW k, NEW n \in Int, NEW l \in BOOLEAN, NEW v, v = [k |-> k, n |-> n, lost |-> l]
    PROVE  \E i : DoubleOf(v, k, n, l, i)
<1> DEFINE x == [k |-> k, n |-> n, lost |-> l]
<1>1. \E i : DoubleOf(x, k, n, l, i)
  <2>1. \E i : Floated(AsF64(x), k, n, l, i) /\ AsF64([k |-> k, n |-> n, lost |-> i]) = [k |-> k, n |-> n, lost |-> i]
    BY FloatIs
  <2> QED BY <2>1 DEF DoubleOf
<1> HIDE DEF x
<1>2. x = v
  BY DEF x
<1> QED BY <1>1, <1>2

\* The FlatGeobuf types of the Arrow types, and what they are read as.
LEMMA FgbTable ==
    /\ DOMAIN FgbDecls = {"Bool", "Utf8", "Binary"} \cup Ints \cup Floats \cup Dates \cup Times \cup Decimals
    /\ \A t \in {"Bool", "Utf8", "Binary"} \cup Ints \cup Floats :
          FgbArrow[FgbDecls[t]] = t /\ FgbDecls[t] \notin {"DateTime", "Geom"}
    /\ \A t \in Dates \cup Times : FgbDecls[t] = "DateTime"
    /\ \A t \in Decimals : FgbDecls[t] = "Double"
    /\ FgbArrow["Double"] = "Float64"
<1>1. DOMAIN FgbDecls = {"Bool", "Utf8", "Binary"} \cup Ints \cup Floats \cup Dates \cup Times \cup Decimals
  BY DEF FgbDecls, Ints, Floats, Dates, Times, Naive, Zoned, Decimals
<1>2. /\ FgbDecls["Bool"] = "Bool" /\ FgbDecls["Int8"] = "Byte" /\ FgbDecls["Int16"] = "Short"
      /\ FgbDecls["Int32"] = "Int" /\ FgbDecls["Int64"] = "Long" /\ FgbDecls["UInt8"] = "UByte"
      /\ FgbDecls["UInt16"] = "UShort" /\ FgbDecls["UInt32"] = "UInt" /\ FgbDecls["UInt64"] = "ULong"
      /\ FgbDecls["Float32"] = "Float" /\ FgbDecls["Float64"] = "Double" /\ FgbDecls["Utf8"] = "String"
      /\ FgbDecls["Binary"] = "Binary" /\ FgbDecls["Date32"] = "DateTime" /\ FgbDecls["Date64"] = "DateTime"
      /\ FgbDecls["Ts"] = "DateTime" /\ FgbDecls["TsNs"] = "DateTime" /\ FgbDecls["TsTz"] = "DateTime"
      /\ FgbDecls["TsNsTz"] = "DateTime" /\ FgbDecls["Decimal"] = "Double" /\ FgbDecls["DecimalWide"] = "Double"
  BY DEF FgbDecls
<1>3. /\ FgbArrow["Bool"] = "Bool" /\ FgbArrow["Byte"] = "Int8" /\ FgbArrow["Short"] = "Int16"
      /\ FgbArrow["Int"] = "Int32" /\ FgbArrow["Long"] = "Int64" /\ FgbArrow["UByte"] = "UInt8"
      /\ FgbArrow["UShort"] = "UInt16" /\ FgbArrow["UInt"] = "UInt32" /\ FgbArrow["ULong"] = "UInt64"
      /\ FgbArrow["Float"] = "Float32" /\ FgbArrow["Double"] = "Float64" /\ FgbArrow["String"] = "Utf8"
      /\ FgbArrow["Binary"] = "Binary"
  BY DEF FgbArrow
<1>4. /\ Dates = {"Date32", "Date64"} /\ Decimals = {"Decimal", "DecimalWide"} /\ Floats = {"Float32", "Float64"}
      /\ Ints = {"Int8", "Int16", "Int32", "Int64", "UInt8", "UInt16", "UInt32", "UInt64"}
  BY DEF Dates, Decimals, Floats, Ints
<1>5. \A t \in {"Bool", "Utf8", "Binary"} \cup Ints \cup Floats :
          FgbArrow[FgbDecls[t]] = t /\ FgbDecls[t] \notin {"DateTime", "Geom"}
  BY <1>2, <1>3, <1>4
<1>6. \A t \in Dates \cup Times : FgbDecls[t] = "DateTime"
  BY <1>2, <1>4, Families
<1> QED BY <1>1, <1>2, <1>3, <1>4, <1>5, <1>6

\* FlatGeobuf carries an attribute.
LEMMA FgbCarries ==
    ASSUME NEW c, NEW t, NEW s, NEW k, NEW n, NEW l, NEW w, AttributeCell(c, t, s, k, n, l, w),
           NEW policy, NEW view
    PROVE  /\ PutFgb(c, policy).at = "stored" => Comes("fgb", c, policy, GetFgb(PutFgb(c, policy), view), view)
           /\ SettledAttribute("fgb", c, policy, view)
              => Stays("fgb", c, PutFgb(c, policy), GetFgb(PutFgb(c, policy), view))
<1> DEFINE st == PutFgb(c, policy)
           r == GetFgb(st, view)
           v == [k |-> k, n |-> n, lost |-> l]
<1>c. /\ t \in AttributeTypes /\ s \in Nat /\ k \in Kinds(t) \cup {"null"} /\ n \in Int /\ l \in BOOLEAN
      /\ c.v = v /\ c.v.k = k /\ c.v.n = n /\ c.type.t = t /\ Fits(t, v) /\ c.type = [t |-> t, s |-> s] /\ c.type.s = s
  BY DEF AttributeCell
<1>0. WriteError.at # "stored"
  BY DEF WriteError, Stored
<1> DEFINE kept == Stored(Type(FgbDecls[t]), IF t \in Dates THEN "dates" ELSE "-",
                          IF t \in Decimals THEN AsF64(v) ELSE v)
<1>1. /\ t \notin DOMAIN FgbDecls => st = WriteError
      /\ t \in DOMAIN FgbDecls /\ (t \in Decimals \/ BeyondI64(t, v)) => st = OnLoss(policy, kept, kept)
      /\ t \in DOMAIN FgbDecls /\ ~(t \in Decimals \/ BeyondI64(t, v)) => st = kept
  BY <1>c DEF PutFgb
<1>2. OnLoss(policy, kept, kept) = IF policy = "error" THEN WriteError ELSE kept
  BY DEF OnLoss
<1>3. /\ kept.at = "stored" /\ kept.decl.t = FgbDecls[t] /\ kept.as = (IF t \in Dates THEN "dates" ELSE "-")
      /\ kept.v = IF t \in Decimals THEN AsF64(v) ELSE v
  BY DEF Stored, Type
<1> DEFINE Plain == {"Bool", "Utf8", "Binary"} \cup Ints \cup Floats
<1>4. ASSUME st.at = "stored"
      PROVE  /\ t \in Plain \cup Dates \cup Times \cup Decimals
             /\ st = kept /\ (t \in Decimals \/ BeyondI64(t, v) => policy # "error")
  <2> HIDE DEF st, kept
  <2> QED BY <1>0, <1>1, <1>2, <1>4, FgbTable
<1>5. SettledAttribute("fgb", c, policy, view) =>
          /\ t \in Plain \cup {"Date32", "TsTz"} /\ s = 0 /\ (t = "TsTz" /\ k = "time" => n <= 6) /\ st.at = "stored"
          /\ (t = "Date32" => view # "cut" /\ (view = "filled" \/ k # "null"))
  <2> SUFFICES ASSUME SettledAttribute("fgb", c, policy, view)
               PROVE /\ t \in Plain \cup {"Date32", "TsTz"} /\ s = 0 /\ (t = "TsTz" /\ k = "time" => n <= 6)
                     /\ st.at = "stored"
                     /\ (t = "Date32" => view # "cut" /\ (view = "filled" \/ k # "null"))
    OBVIOUS
  <2>1. /\ t \in Plain \cup {"Date32", "TsTz"} /\ (t = "TsTz" => Cut(v))
        /\ (t = "Date32" => view # "cut" /\ (view = "filled" \/ k # "null"))
        /\ (BeyondI64(t, v) => policy # "error") /\ (t \notin Decimals => s = 0)
    BY <1>c DEF SettledAttribute
  <2>2. t \notin Decimals /\ t \in DOMAIN FgbDecls
    BY <2>1, FgbTable, Families DEF Dates
  <2>3. st.at = "stored"
    <3> HIDE DEF st, kept
    <3> QED BY <1>1, <1>2, <1>3, <2>1, <2>2
  <2> QED BY <1>c, <2>1, <2>2, <2>3 DEF Cut
<1> HIDE DEF st, kept
<1>6. CASE t \in Plain
  <2> SUFFICES ASSUME st.at = "stored"
               PROVE Comes("fgb", c, policy, r, view) /\ (SettledAttribute("fgb", c, policy, view) => Stays("fgb", c, st, r))
    BY <1>5 DEF st
  <2>1. t \notin Decimals /\ t \notin Dates /\ t \notin Times
    BY <1>6, Families
  <2>2. r = Arrow(Type(t), v)
    <3>1. st.decl.t = FgbDecls[t] /\ st.v = v
      BY <1>3, <1>4, <2>1
    <3>2. FgbArrow[FgbDecls[t]] = t /\ FgbDecls[t] # "DateTime"
      BY <1>6, FgbTable
    <3> HIDE DEF v
    <3> QED BY <3>1, <3>2 DEF GetFgb
  <2> HIDE DEF r
  <2>3. Fits(t, v)
    BY <1>c
  <2>4. ValueCell(r, t, 0, k, n, l)
    BY <1>c, <2>2 DEF ValueCell, Type
  <2>5. r.at = "arrow" /\ r.type.t = t /\ r.type.s = 0 /\ r.v = v
    BY <2>2 DEF Arrow, Type
  <2>6. BeyondI64(t, v) => policy # "error"
    BY <1>4
  <2>7. t # "TsTz" /\ t # "Date32"
    BY <2>1, Families DEF Dates
  <2>8. SettledAttribute("fgb", r, policy, view)
    BY <1>6, <2>1, <2>5, <2>6, <2>7 DEF SettledAttribute
  <2>9. Comes("fgb", c, policy, r, view) /\ Exact(c, r) /\ (s = 0 => r.type = c.type)
    BY <2>4, <2>8, Through
  <2> QED BY <1>5, <2>5, <2>9 DEF Stays
<1>7. CASE t \in Decimals
  <2>1. ~SettledAttribute("fgb", c, policy, view)
    BY <1>5, <1>7, Families DEF Dates
  <2> SUFFICES ASSUME st.at = "stored" PROVE Comes("fgb", c, policy, r, view)
    BY <2>1 DEF st
  <2>p. PICK i : DoubleOf(v, k, n, l, i)
    <3>1. v = [k |-> k, n |-> n, lost |-> l] /\ n \in Int /\ l \in BOOLEAN
      BY <1>c
    <3> QED BY ONLY <3>1, DoubleIs
  <2>2. Floated(AsF64(v), k, n, l, i) /\ AsF64([k |-> k, n |-> n, lost |-> i]) = [k |-> k, n |-> n, lost |-> i]
    BY <2>p DEF DoubleOf
  <2>3. r = Arrow(Type("Float64"), [k |-> k, n |-> n, lost |-> i]) /\ i \in BOOLEAN
    BY <1>3, <1>4, <1>7, <2>2, FgbTable DEF GetFgb, Floated
  <2> HIDE DEF r
  <2>4. "Float64" \in Floats /\ "Float64" \in AttributeTypes
    BY DEF Floats, AttributeTypes
  <2>5. k \in Kinds("Float64") \cup {"null"} /\ (k = "null" => n = 0)
    BY <1>7, <1>c, <2>4, KindsAre DEF Fits
  <2>6. Fits("Float64", [k |-> k, n |-> n, lost |-> i])
    BY <2>2, <2>4, <2>5, Families DEF Fits
  <2>7. ValueCell(r, "Float64", 0, k, n, i)
    BY <1>c, <2>3, <2>4, <2>5, <2>6 DEF ValueCell, Type
  <2>8. r.type.t = "Float64" /\ r.type.s = 0
    BY <2>3 DEF Arrow, Type
  <2>9. SettledAttribute("fgb", r, policy, view)
    BY <2>4, <2>8 DEF SettledAttribute, BeyondI64
  <2>10. policy # "error"
    BY <1>4, <1>7
  <2> QED BY <2>7, <2>9, <2>10, Through
<1>8. CASE t \in Dates
  <2> SUFFICES ASSUME st.at = "stored"
               PROVE /\ Comes("fgb", c, policy, r, view)
                     /\ SettledAttribute("fgb", c, policy, view) => Stays("fgb", c, st, r)
    BY <1>5 DEF st
  <2>1. t \notin Decimals /\ k \in {"date", "null"} /\ t # "TsTz" /\ t \notin Plain
    BY <1>8, <1>c, KindsAre, Families
  <2> DEFINE refined == view # "cut" /\ (view = "filled" \/ k # "null")
             u == IF refined THEN "Date32" ELSE "TsTz"
             changed == ~refined /\ k = "date"
             j == IF changed THEN "time" ELSE k
             m == IF changed THEN 6 ELSE n
  <2>2. r = Arrow(Type(u), [k |-> j, n |-> m, lost |-> l])
    <3>1. /\ st.decl.t = "DateTime" /\ st.v = v /\ st.as = "dates" /\ v.k = k
      BY <1>3, <1>4, <1>8, <2>1, FgbTable
    <3>2. Refined(st, view) <=> refined
      BY <3>1 DEF Refined
    <3>3. Midnight(v) = [k |-> IF k = "date" THEN "time" ELSE k, n |-> IF k = "date" THEN 6 ELSE n, lost |-> l]
      BY DEF Midnight
    <3>4. Micros(Midnight(v)) = Midnight(v)
      BY <2>1, <3>3 DEF Micros
    <3>5. r = IF Refined(st, view) THEN Arrow(Type("Date32"), v) ELSE Arrow(Type("TsTz"), Midnight(v))
      <4> HIDE DEF v
      <4> QED BY <3>1, <3>4 DEF GetFgb
    <3>6. CASE refined
      <4>1. u = "Date32" /\ j = k /\ m = n
        BY <3>6
      <4> QED BY <3>2, <3>5, <3>6, <4>1
    <3>7. CASE ~refined
      <4>1. u = "TsTz" /\ j = (IF k = "date" THEN "time" ELSE k) /\ m = (IF k = "date" THEN 6 ELSE n)
        BY <3>7
      <4>2. Midnight(v) = [k |-> j, n |-> m, lost |-> l]
        BY <3>3, <4>1
      <4> HIDE DEF j, m, u, refined
      <4> QED BY <3>2, <3>5, <3>7, <4>1, <4>2
    <3> QED BY <3>6, <3>7
  <2>3. /\ u \in {"Date32", "TsTz"} /\ (u = "Date32" <=> refined) /\ m \in Int
        /\ (changed \/ (j = k /\ m = n)) /\ (changed => u = "TsTz" /\ j = "time" /\ m = 6)
        /\ (k = "date" => (changed <=> view = "cut")) /\ (changed => k = "date" /\ view = "cut")
        /\ j \in {"date", "time", "null"} /\ (u = "Date32" => j \in {"date", "null"})
        /\ (u = "TsTz" => j \in {"time", "null"}) /\ (j = "time" => m <= 6)
        /\ (j = "null" => k = "null" /\ m = n)
        /\ (u = "Date32" => view # "cut" /\ (view = "filled" \/ j # "null"))
    BY <1>c, <2>1
  <2> HIDE DEF r, u, j, m, changed
  <2>4. u \in AttributeTypes /\ j \in Kinds(u) \cup {"null"}
    <3>1. "Date32" \in Dates /\ "TsTz" \in Times
      BY Families DEF Dates
    <3>2. u \in AttributeTypes
      BY <2>3, <3>1 DEF AttributeTypes
    <3> QED BY <2>3, <3>1, <3>2, KindsAre
  <2>5. Fits(u, [k |-> j, n |-> m, lost |-> l])
    BY <1>c, <2>3, Families DEF Fits, Dates
  <2>6. ValueCell(r, u, 0, j, m, l)
    BY <1>c, <2>2, <2>3, <2>4, <2>5 DEF ValueCell, Type
  <2>7. r.at = "arrow" /\ r.type.t = u /\ r.type.s = 0 /\ r.v.k = j /\ r.v.n = m
    BY <2>2 DEF Arrow, Type
  <2>8. SettledAttribute("fgb", r, policy, view)
    <3> HIDE DEF refined
    <3> QED BY <2>3, <2>7 DEF SettledAttribute, Cut, BeyondI64
  <2>9. (j = k /\ m = n) \/ SilentlyChanged("fgb", c, view)
    BY <1>8, <1>c, <2>3 DEF SilentlyChanged, IsGeom
  <2>10. Comes("fgb", c, policy, r, view)
    BY <2>6, <2>8, <2>9, Through
  <2>11. ASSUME SettledAttribute("fgb", c, policy, view) PROVE Stays("fgb", c, st, r)
    <3>1. t = "Date32" /\ s = 0 /\ refined
      BY <1>5, <2>1, <2>11
    <3>2. u = t /\ j = k /\ m = n
      BY <2>3, <3>1
    <3>3. Exact(c, r) /\ r.type = c.type
      BY <2>6, <3>1, <3>2, Through
    <3> QED BY <2>7, <3>3 DEF Stays
  <2> QED BY <2>10, <2>11
<1>9. CASE t \in Times
  <2> SUFFICES ASSUME st.at = "stored"
               PROVE Comes("fgb", c, policy, r, view) /\ (SettledAttribute("fgb", c, policy, view) => Stays("fgb", c, st, r))
    BY <1>5 DEF st
  <2>1. t \notin Decimals /\ k \in {"time", "far", "null"} /\ t # "Date32" /\ t \notin Plain
    BY <1>9, <1>c, KindsAre, Families DEF Dates
  <2>2. r = Arrow(Type("TsTz"), Micros(v))
    <3>1. t \notin Dates
      BY <1>9, Families DEF Dates
    <3>2. st.decl.t = "DateTime" /\ st.v = v /\ st.as # "dates"
      BY <1>3, <1>4, <1>9, <2>1, <3>1, FgbTable
    <3>3. ~Refined(st, view)
      BY <3>2 DEF Refined
    <3>4. Midnight(v) = v
      BY <2>1 DEF Midnight
    <3> QED BY <3>2, <3>3, <3>4 DEF GetFgb
  <2>3. PICK m, i : TimedTo(c, t, k, n, l, m, i)
    BY TimedIs
  <2>4. Micros(v) = [k |-> k, n |-> m, lost |-> i] /\ m \in Int /\ i \in BOOLEAN
        /\ Fits(t, [k |-> k, n |-> m, lost |-> i]) /\ (k = "time" => m <= 6)
        /\ ((m = n /\ i = l) \/ (k = "time" /\ n > 6))
    BY <1>9, <1>c, <2>3 DEF TimedTo, Timed
  <2> HIDE DEF r
  <2>5. "TsTz" \in Times /\ "TsTz" \in AttributeTypes
    BY Families DEF AttributeTypes
  <2>6. k \in Kinds("TsTz") \cup {"null"}
    BY <2>1, <2>5, KindsAre
  <2>7. Fits("TsTz", [k |-> k, n |-> m, lost |-> i])
    BY <1>9, <2>4, <2>5, Families DEF Fits
  <2>8. ValueCell(r, "TsTz", 0, k, m, i)
    BY <2>2, <2>4, <2>5, <2>6, <2>7 DEF ValueCell, Type
  <2>9. r.at = "arrow" /\ r.type.t = "TsTz" /\ r.type.s = 0 /\ r.v.k = k /\ r.v.n = m
    BY <2>2, <2>4 DEF Arrow, Type
  <2>10. SettledAttribute("fgb", r, policy, view)
    BY <2>4, <2>9 DEF SettledAttribute, Cut, BeyondI64
  <2>11. (m = n /\ i = l) \/ SilentlyChanged("fgb", c, view)
    BY <1>9, <1>c, <2>4 DEF SilentlyChanged, IsGeom
  <2>12. Comes("fgb", c, policy, r, view)
    BY <2>8, <2>10, <2>11, Through
  <2>13. ASSUME SettledAttribute("fgb", c, policy, view) PROVE Stays("fgb", c, st, r)
    <3>1. t = "TsTz" /\ s = 0 /\ (k = "time" => n <= 6)
      BY <1>5, <2>1, <2>13
    <3>2. m = n /\ i = l
      BY <1>c, <2>4, <3>1
    <3>3. Exact(c, r) /\ r.type = c.type
      BY <2>8, <3>1, <3>2, Through
    <3> QED BY <2>9, <3>3 DEF Stays
  <2> QED BY <2>12, <2>13
<1>10. CASE t \notin Plain \cup Dates \cup Times \cup Decimals
  BY <1>4, <1>5, <1>10 DEF st
<1> QED BY <1>6, <1>7, <1>8, <1>9, <1>10

----------------------------------------------------------------------------
(* Shapefiles.                                                             *)

\* The dBase field of an Arrow type, and when --on-loss error refuses it.
LEMMA ShpFieldIs ==
    ASSUME NEW t \in AttributeTypes, NEW policy
    PROVE  LET F(decl) == Stored(Type(decl), "-", Null)
               f == ShpField(t, policy)
           IN  /\ t = "Utf8" => f = F("C")
               /\ t = "Bool" => f = F("L")
               /\ t \in Dates => f = F("D")
               /\ t \in Floats => f = F("F")
               /\ f.at = "stored" => \/ t = "Utf8" \/ t = "Bool" \/ t \in Dates \/ t \in Floats
                                     \/ t \in Ints \cup {"Decimal"} /\ f = F("N")
                                     \/ t = "DecimalWide" /\ f = F("N") /\ policy # "error"
                                     \/ t \in Times /\ f = F("D") /\ policy # "error"
<1> DEFINE F(decl) == Stored(Type(decl), "-", Null)
           f == ShpField(t, policy)
<1>0. WriteError.at # "stored" /\ LeftOut.at # "stored"
  BY DEF WriteError, LeftOut, Stored
<1>f. "DecimalWide" \in Decimals /\ "Decimal" \in Decimals
  BY DEF Decimals
<1>1. CASE t = "Utf8"
  <2>0. t \notin Ints \cup Floats \cup Dates \cup Times \cup Decimals
    BY <1>1, Families
  <2>1. f = F("C")
    BY <1>f, <1>1, <2>0 DEF ShpField
  <2> QED BY <1>1, <2>0, <2>1
<1>2. CASE t = "Bool"
  <2>0. t \notin Ints \cup Floats \cup Dates \cup Times \cup Decimals
    BY <1>2, Families
  <2>1. f = F("L")
    BY <1>f, <1>2, <2>0 DEF ShpField
  <2> QED BY <1>2, <2>0, <2>1
<1>3. CASE t \in Dates
  <2>0. t \notin Ints \cup Floats \cup Times \cup Decimals \cup {"Bool", "Utf8", "Binary", "List"}
    BY <1>3, Families
  <2>1. f = F("D")
    BY <1>f, <1>3, <2>0 DEF ShpField
  <2> QED BY <1>3, <2>0, <2>1
<1>4. CASE t \in Floats
  <2>0. t \notin Ints \cup Dates \cup Times \cup Decimals \cup {"Bool", "Utf8", "Binary", "List"}
    BY <1>4, Families
  <2>1. f = F("F")
    BY <1>f, <1>4, <2>0 DEF ShpField
  <2> QED BY <1>4, <2>0, <2>1
<1>5. CASE t \in Ints
  <2>0. t \notin Floats \cup Dates \cup Times \cup Decimals \cup {"Bool", "Utf8", "Binary", "List"}
    BY <1>5, Families
  <2>1. CASE t # "UInt64"
    <3>1. f = F("N")
      BY <1>f, <1>5, <2>0, <2>1 DEF ShpField
    <3> QED BY <1>5, <2>0, <3>1
  <2>2. CASE t = "UInt64"
    <3>1. f = OnLoss(policy, LeftOut, LeftOut)
      BY <1>f, <1>5, <2>0, <2>2 DEF ShpField
    <3>2. f.at # "stored"
      BY <1>0, <3>1 DEF OnLoss
    <3> QED BY <1>5, <2>0, <3>2
  <2> QED BY <2>1, <2>2
<1>6. CASE t \in Times
  <2>0. t \notin Floats \cup Ints \cup Dates \cup Decimals \cup {"Bool", "Utf8", "Binary", "List"}
    BY <1>6, Families
  <2>1. f = OnLoss(policy, F("D"), LeftOut)
    BY <1>f, <1>6, <2>0 DEF ShpField
  <2>2. f.at = "stored" => f = F("D") /\ policy # "error"
    <3> HIDE DEF f
    <3> QED BY <1>0, <2>1 DEF OnLoss
  <2> QED BY <1>6, <2>0, <2>2
<1>7. CASE t \in Decimals
  <2>0. t \notin Floats \cup Ints \cup Dates \cup Times \cup {"Bool", "Utf8", "Binary", "List"}
    BY <1>7, Families
  <2>1. CASE t = "Decimal"
    <3>1. f = F("N")
      BY <2>0, <2>1 DEF ShpField
    <3> QED BY <2>0, <2>1, <3>1
  <2>2. CASE t = "DecimalWide"
    <3>1. f = OnLoss(policy, F("N"), F("N"))
      BY <2>0, <2>2 DEF ShpField
    <3>2. f.at = "stored" => f = F("N") /\ policy # "error"
      <4> HIDE DEF f
      <4> QED BY <1>0, <3>1 DEF OnLoss
    <3> QED BY <2>0, <2>2, <3>2
  <2> QED BY <1>7, <2>1, <2>2 DEF Decimals
<1>8. CASE t \in {"Binary", "List"}
  <2>0. t \notin Floats \cup Ints \cup Dates \cup Times \cup Decimals \cup {"Bool", "Utf8"}
    BY <1>8, Families
  <2>1. f = OnLoss(policy, LeftOut, LeftOut)
    BY <1>f, <1>8, <2>0 DEF ShpField
  <2>2. f.at # "stored"
    <3> HIDE DEF f
    <3> QED BY <1>0, <2>1 DEF OnLoss
  <2> QED BY <2>0, <2>2
<1> QED BY <1>1, <1>2, <1>3, <1>4, <1>5, <1>6, <1>7, <1>8 DEF AttributeTypes

Field(decl) == Stored(Type(decl), "-", Null)
Filled(decl, v) == [Field(decl) EXCEPT !.v = v]

\* What a dBase field of each kind is filled with.
LEMMA ShpValueIs ==
    ASSUME NEW c, NEW policy
    PROVE  /\ \A x : c.v.k = "null" => ShpValue(Field(x), c, policy) = Field(x)
           /\ c.v.k # "null" =>
              /\ TooLong(c.v) => ShpValue(Field("C"), c, policy) = OnLoss(policy, Filled("C", Truncated(c.v)), Filled("C", Truncated(c.v)))
              /\ ~TooLong(c.v) => ShpValue(Field("C"), c, policy) = Filled("C", c.v)
              /\ ShpValue(Field("N"), c, policy) = Filled("N", AsF64(c.v))
              /\ ShpValue(Field("F"), c, policy) = Filled("F", AsF32(c.v))
              /\ ShpValue(Field("L"), c, policy) = Filled("L", c.v)
              /\ c.type.t \notin Times => ShpValue(Field("D"), c, policy) = Filled("D", c.v)
              /\ c.type.t \in Times => ShpValue(Field("D"), c, policy) = WriteError
<1>1. \A x : Field(x).at = "stored" /\ Field(x).decl.t = x
  BY DEF Field, Stored, Type
<1>2. \A x : c.v.k = "null" => ShpValue(Field(x), c, policy) = Field(x)
  BY DEF ShpValue
<1> SUFFICES ASSUME c.v.k # "null"
             PROVE  /\ TooLong(c.v) => ShpValue(Field("C"), c, policy) = OnLoss(policy, Filled("C", Truncated(c.v)), Filled("C", Truncated(c.v)))
                    /\ ~TooLong(c.v) => ShpValue(Field("C"), c, policy) = Filled("C", c.v)
                    /\ ShpValue(Field("N"), c, policy) = Filled("N", AsF64(c.v))
                    /\ ShpValue(Field("F"), c, policy) = Filled("F", AsF32(c.v))
                    /\ ShpValue(Field("L"), c, policy) = Filled("L", c.v)
                    /\ c.type.t \notin Times => ShpValue(Field("D"), c, policy) = Filled("D", c.v)
                    /\ c.type.t \in Times => ShpValue(Field("D"), c, policy) = WriteError
  BY <1>2
<1>3. TooLong(c.v) => ShpValue(Field("C"), c, policy) = OnLoss(policy, Filled("C", Truncated(c.v)), Filled("C", Truncated(c.v)))
  BY <1>1 DEF ShpValue, Filled
<1>4. ~TooLong(c.v) => ShpValue(Field("C"), c, policy) = Filled("C", c.v)
  BY <1>1 DEF ShpValue, Filled
<1>5. ShpValue(Field("N"), c, policy) = Filled("N", AsF64(c.v))
  BY <1>1 DEF ShpValue, Filled
<1>6. ShpValue(Field("F"), c, policy) = Filled("F", AsF32(c.v))
  BY <1>1 DEF ShpValue, Filled
<1>7. ShpValue(Field("L"), c, policy) = Filled("L", c.v)
  BY <1>1 DEF ShpValue, Filled
<1>8. c.type.t \notin Times => ShpValue(Field("D"), c, policy) = Filled("D", c.v)
  BY <1>1 DEF ShpValue, Filled
<1>9. c.type.t \in Times => ShpValue(Field("D"), c, policy) = WriteError
  BY <1>1 DEF ShpValue, Filled
<1> QED BY <1>3, <1>4, <1>5, <1>6, <1>7, <1>8, <1>9

\* What comes out of a field.
LEMMA GetShpIs ==
    /\ \A x, v : GetShp(Filled(x, v)) = Arrow(Type(ShpArrow[x]), IF v.k = "text" /\ v.n = 0 THEN Gone ELSE v)
    /\ \A x : GetShp(Field(x)) = Arrow(Type(ShpArrow[x]), Null)
    /\ ShpArrow["C"] = "Utf8" /\ ShpArrow["N"] = "Float64" /\ ShpArrow["F"] = "Float64"
    /\ ShpArrow["L"] = "Bool" /\ ShpArrow["D"] = "Date32"
<1>1. \A x, v : Filled(x, v).decl.t = x /\ Filled(x, v).v = v /\ Field(x).decl.t = x /\ Field(x).v = Null
  BY DEF Filled, Field, Stored, Type
<1>2. Null.k # "text"
  BY DEF Null, Value
<1> QED BY <1>1, <1>2 DEF GetShp, ShpArrow

ShpTypes == {"Utf8", "Float64", "Bool", "Date32"}

ShpRead(r, u, j, m, i) ==
    /\ ValueCell(r, u, 0, j, m, i) /\ u \in ShpTypes
    /\ u = "Utf8" => j # "odd" /\ (j = "text" => m <= 254 /\ m # 0)

ShpSame(c, policy, t, k, n, l, u, j, m, i, view) ==
    /\ t \in ShpTypes => u = t
    /\ (j = k /\ (i => l) /\ (~i => m = n)) \/ SilentlyChanged("shp", c, view) \/ policy # "error"
    /\ SettledAttribute("shp", c, policy, view)
       => (j = k /\ (i => l) /\ (~i => m = n)) \/ k \in {"int", "float", "dec"}

\* What comes back from a dBase field.
LEMMA ShpReads ==
    ASSUME NEW c, NEW t, NEW s, NEW k, NEW n, NEW l, NEW w, AttributeCell(c, t, s, k, n, l, w),
           NEW policy, NEW view, PutShp(c, policy).at = "stored"
    PROVE  \E u, j, m, i : /\ ShpRead(GetShp(PutShp(c, policy)), u, j, m, i)
                           /\ ShpSame(c, policy, t, k, n, l, u, j, m, i, view)
<1> DEFINE st == PutShp(c, policy)
           r == GetShp(st)
           v == [k |-> k, n |-> n, lost |-> l]
           f == ShpField(t, policy)
<1>c. /\ t \in AttributeTypes /\ s \in Nat /\ k \in Kinds(t) \cup {"null"} /\ n \in Int /\ l \in BOOLEAN
      /\ c.v = v /\ c.v.k = k /\ c.v.n = n /\ c.type.t = t /\ Fits(t, v) /\ c.type = [t |-> t, s |-> s] /\ c.type.s = s
      /\ v.k = k /\ v.n = n
  BY DEF AttributeCell
<1>0. PICK yes \in BOOLEAN, no \in BOOLEAN : yes = TRUE /\ no = FALSE
  OBVIOUS
<1>n. Null = [k |-> "null", n |-> 0, lost |-> no]
  BY <1>0 DEF Null, Value
<1>g. Gone = [k |-> "null", n |-> 0, lost |-> yes]
  <2>1. Lost(Null) = [Null EXCEPT !.lost = yes]
    BY <1>0, Zenon DEF Lost
  <2>2. ASSUME NEW x PROVE [Null EXCEPT !.lost = x] = [k |-> "null", n |-> 0, lost |-> x]
    BY ONLY <1>n
  <2>3. [Null EXCEPT !.lost = yes] = [k |-> "null", n |-> 0, lost |-> yes]
    BY ONLY <2>2
  <2> QED BY <2>1, <2>3, Zenon DEF Gone
<1>w. WriteError.at # "stored" /\ LeftOut.at # "stored"
  BY DEF WriteError, LeftOut, Stored
<1>1. st = ShpValue(f, c, policy)
  BY <1>c DEF PutShp
<1>2. f.at = "stored"
  BY <1>1 DEF ShpValue
<1>y. "Utf8" \in AttributeTypes /\ "Float64" \in AttributeTypes /\ "Bool" \in AttributeTypes /\ "Date32" \in AttributeTypes
      /\ "Float64" \in Floats /\ "Date32" \in Dates
  BY DEF AttributeTypes, Floats, Dates
<1> HIDE DEF f, st, r
<1>3. \/ t = "Utf8" /\ f = Field("C")
      \/ t = "Bool" /\ f = Field("L")
      \/ t \in Dates /\ f = Field("D")
      \/ t \in Floats /\ f = Field("F")
      \/ t \in Ints \cup {"Decimal"} /\ f = Field("N")
      \/ t = "DecimalWide" /\ f = Field("N") /\ policy # "error"
      \/ t \in Times /\ f = Field("D") /\ policy # "error"
  BY <1>2, <1>c, ShpFieldIs DEF Field, f
<1>4. \A u, j, m, i : ShpRead(r, u, j, m, i) /\ ShpSame(c, policy, t, k, n, l, u, j, m, i, view)
                      => \E u1, j1, m1, i1 : /\ ShpRead(r, u1, j1, m1, i1)
                                             /\ ShpSame(c, policy, t, k, n, l, u1, j1, m1, i1, view)
  OBVIOUS
<1> SUFFICES \E u, j, m, i : ShpRead(r, u, j, m, i) /\ ShpSame(c, policy, t, k, n, l, u, j, m, i, view)
  BY DEF r, st
<1>5. CASE k = "null"
  <2>1. st = f
    BY <1>1, <1>3, <1>5, <1>c, ShpValueIs
  <2>2. ASSUME NEW x, NEW u, f = Field(x), u = ShpArrow[x], u \in ShpTypes, t \in ShpTypes => u = t
        PROVE  ShpRead(r, u, "null", 0, no) /\ ShpSame(c, policy, t, k, n, l, u, "null", 0, no, view)
    <3>1. r = Arrow(Type(u), [k |-> "null", n |-> 0, lost |-> no])
      BY <1>n, <2>1, <2>2, GetShpIs DEF r
    <3>2. u \in AttributeTypes /\ Fits(u, [k |-> "null", n |-> 0, lost |-> no])
      <4>1. u \in AttributeTypes
        BY <1>y, <2>2 DEF ShpTypes
      <4>2. u \notin Ints /\ u \notin Decimals
        BY <2>2, Families, <1>y DEF ShpTypes
      <4> QED BY <4>1, <4>2, FloatIs DEF Fits, AsF64, Beyond
    <3>3. ShpRead(r, u, "null", 0, no)
      BY <2>2, <3>1, <3>2 DEF ShpRead, ValueCell, Type
    <3>4. n = 0
      BY <1>5, <1>c DEF Fits
    <3>5. ShpSame(c, policy, t, k, n, l, u, "null", 0, no, view)
      BY <1>0, <1>5, <2>2, <3>4 DEF ShpSame
    <3> QED BY <3>3, <3>5
  <2>3. \E x, u : f = Field(x) /\ u = ShpArrow[x] /\ u \in ShpTypes /\ (t \in ShpTypes => u = t)
    <3>1. t = "Utf8" \/ t = "Bool" \/ t \in Dates \/ t \in Floats \/ t \notin ShpTypes
      BY <1>3, <1>y, Families DEF ShpTypes
    <3>2. t \in Dates /\ t \in ShpTypes => t = "Date32"
      BY DEF ShpTypes, Dates
    <3>3. t \in Floats /\ t \in ShpTypes => t = "Float64"
      BY DEF ShpTypes, Floats
    <3>4. t \in Times \cup Ints \cup Decimals => t \notin ShpTypes
      BY <1>y, Families DEF ShpTypes
    <3>5. "DecimalWide" \in Decimals /\ "Decimal" \in Decimals
      BY DEF Decimals
    <3>6. CASE f = Field("C") /\ t = "Utf8"
      BY <3>6, GetShpIs DEF ShpTypes
    <3>7. CASE f = Field("L") /\ t = "Bool"
      BY <3>7, GetShpIs DEF ShpTypes
    <3>8. CASE f = Field("D") /\ (t \in Dates \/ t \in Times)
      <4>1. ShpArrow["D"] = "Date32" /\ (t \in ShpTypes => t = "Date32")
        BY <3>2, <3>4, <3>8, GetShpIs
      <4> QED BY <3>8, <4>1 DEF ShpTypes
    <3>9. CASE f = Field("F") /\ t \in Floats
      <4>1. ShpArrow["F"] = "Float64" /\ (t \in ShpTypes => t = "Float64")
        BY <3>3, <3>9, GetShpIs
      <4> QED BY <3>9, <4>1 DEF ShpTypes
    <3>10. CASE f = Field("N") /\ t \in Ints \cup Decimals
      <4>1. ShpArrow["N"] = "Float64" /\ t \notin ShpTypes
        BY <3>4, <3>10, GetShpIs
      <4> QED BY <3>10, <4>1 DEF ShpTypes
    <3> QED BY <1>3, <3>5, <3>6, <3>7, <3>8, <3>9, <3>10
  <2> QED BY <1>4, <2>2, <2>3
<1>6. CASE k # "null" /\ t = "Utf8" /\ f = Field("C")
  <2>1. CASE TooLong(v)
    <3>1. st = OnLoss(policy, Filled("C", Truncated(v)), Filled("C", Truncated(v)))
      BY <1>1, <1>6, <1>c, <2>1, ShpValueIs
    <3>2. policy # "error" /\ st = Filled("C", Truncated(v))
      <4>1. st.at = "stored"
        BY DEF st
      <4> QED BY <1>w, <3>1, <4>1 DEF OnLoss
    <3> DEFINE m == IF n > 254 THEN 254 ELSE n
    <3>3. Truncated(v) = [k |-> "text", n |-> m, lost |-> yes]
      <4>1. Value("text", m) = [k |-> "text", n |-> m, lost |-> no]
        BY <1>0 DEF Value
      <4>2. Truncated(v) = [Value("text", m) EXCEPT !.lost = yes]
        <5>1. Truncated(v) = Lost(Value("text", m))
          BY <1>c DEF Truncated
        <5> HIDE DEF m
        <5> QED BY <1>0, <5>1, Zenon DEF Lost
      <4> HIDE DEF m
      <4>3. ASSUME NEW x PROVE [Value("text", m) EXCEPT !.lost = x] = [k |-> "text", n |-> m, lost |-> x]
        BY ONLY <4>1
      <4>4. [Value("text", m) EXCEPT !.lost = yes] = [k |-> "text", n |-> m, lost |-> yes]
        BY ONLY <4>3
      <4> QED BY <4>2, <4>4, Zenon
    <3>4. m \in Int /\ m <= 254
      BY <1>c
    <3> HIDE DEF m
    <3>5. r = Arrow(Type("Utf8"), IF m = 0 THEN Gone ELSE [k |-> "text", n |-> m, lost |-> yes])
      <4>1. Truncated(v).k = "text" /\ Truncated(v).n = m
        BY <3>3
      <4> QED BY <3>2, <3>3, <4>1, GetShpIs DEF r
    <3>6. ~SettledAttribute("shp", c, policy, view)
      BY <1>6, <1>c, <2>1 DEF SettledAttribute
    <3>7. "text" \in Kinds("Utf8")
      BY <1>y, KindsAre
    <3>8. Fits("Utf8", [k |-> "text", n |-> m, lost |-> yes]) /\ Fits("Utf8", [k |-> "null", n |-> 0, lost |-> yes])
      BY Families DEF Fits
    <3>9. CASE m = 0
      <4>1. ShpRead(r, "Utf8", "null", 0, yes)
        BY <1>g, <1>y, <3>5, <3>8, <3>9 DEF ShpRead, ValueCell, Type, ShpTypes
      <4>2. ShpSame(c, policy, t, k, n, l, "Utf8", "null", 0, yes, view)
        BY <1>6, <3>2, <3>6 DEF ShpSame
      <4> QED BY <4>1, <4>2
    <3>10. CASE m # 0
      <4>1. ShpRead(r, "Utf8", "text", m, yes)
        BY <1>y, <3>4, <3>5, <3>7, <3>8, <3>10 DEF ShpRead, ValueCell, Type, ShpTypes
      <4>2. ShpSame(c, policy, t, k, n, l, "Utf8", "text", m, yes, view)
        BY <1>6, <3>2, <3>6 DEF ShpSame
      <4> QED BY <4>1, <4>2
    <3> QED BY <3>9, <3>10
  <2>2. CASE ~TooLong(v)
    <3>1. st = Filled("C", v)
      BY <1>1, <1>6, <1>c, <2>2, ShpValueIs
    <3>2. r = Arrow(Type("Utf8"), IF k = "text" /\ n = 0 THEN Gone ELSE v)
      <4>1. GetShp(Filled("C", v)) = Arrow(Type(ShpArrow["C"]), IF v.k = "text" /\ v.n = 0 THEN Gone ELSE v)
        BY GetShpIs
      <4> QED BY <1>c, <3>1, <4>1, GetShpIs DEF r
    <3>3. CASE k = "text" /\ n = 0
      <4>0. Fits("Utf8", [k |-> "null", n |-> 0, lost |-> yes])
        BY Families DEF Fits
      <4>1. ShpRead(r, "Utf8", "null", 0, yes)
        BY <1>g, <1>y, <3>2, <3>3, <4>0 DEF ShpRead, ValueCell, Type, ShpTypes
      <4>2. SilentlyChanged("shp", c, view) /\ ~SettledAttribute("shp", c, policy, view)
        BY <1>6, <1>c, <3>3 DEF SilentlyChanged, IsGeom, SettledAttribute
      <4>3. ShpSame(c, policy, t, k, n, l, "Utf8", "null", 0, yes, view)
        BY <1>6, <4>2 DEF ShpSame
      <4> QED BY <4>1, <4>3
    <3>4. CASE ~(k = "text" /\ n = 0)
      <4>0. Fits("Utf8", v) /\ k # "odd" /\ (k = "text" => n <= 254)
        BY <1>6, <1>c, <2>2 DEF TooLong
      <4>1. ShpRead(r, "Utf8", k, n, l)
        BY <1>6, <1>c, <1>y, <3>2, <3>4, <4>0 DEF ShpRead, ValueCell, Type, ShpTypes
      <4>2. ShpSame(c, policy, t, k, n, l, "Utf8", k, n, l, view)
        BY <1>6 DEF ShpSame
      <4> QED BY <4>1, <4>2
    <3> QED BY <3>3, <3>4
  <2> QED BY <2>1, <2>2
<1>7. CASE k # "null" /\ t \in Dates \cup {"Bool"} /\ (f = Field("L") \/ f = Field("D")) /\ (f = Field("L") <=> t = "Bool")
  <2>1. t \notin Times /\ k \in {"bool", "date"}
    BY <1>7, <1>c, KindsAre, Families
  <2> DEFINE u == IF t = "Bool" THEN "Bool" ELSE "Date32"
             x == IF t = "Bool" THEN "L" ELSE "D"
  <2>2. st = Filled(x, v) /\ u = ShpArrow[x]
    BY <1>1, <1>7, <1>c, <2>1, ShpValueIs, GetShpIs
  <2>u. u \in {"Bool", "Date32"} /\ (t \in ShpTypes => u = t) /\ k \in Kinds(u)
    <3>1. t \in ShpTypes => u = t
      BY <1>7 DEF Dates, ShpTypes
    <3>2. k \in Kinds(u)
      BY <1>7, <1>c, <1>y, KindsAre
    <3> QED BY <3>1, <3>2
  <2> HIDE DEF u, x
  <2>3. r = Arrow(Type(u), v)
    <3>1. GetShp(Filled(x, v)) = Arrow(Type(ShpArrow[x]), IF v.k = "text" /\ v.n = 0 THEN Gone ELSE v)
      BY GetShpIs
    <3> QED BY <1>c, <2>1, <2>2, <3>1 DEF r
  <2>4. Fits(u, v) /\ u \in AttributeTypes
    BY <1>7, <1>c, <1>y, <2>1, <2>u, Families DEF Fits
  <2>5. ShpRead(r, u, k, n, l)
    BY <1>c, <2>3, <2>4, <2>u DEF ShpRead, ValueCell, Type, ShpTypes
  <2>6. ShpSame(c, policy, t, k, n, l, u, k, n, l, view)
    BY <2>u DEF ShpSame
  <2> QED BY <2>5, <2>6
<1>8. CASE k # "null" /\ t \in Floats /\ f = Field("F")
  <2>1. st = Filled("F", AsF32(v)) /\ k \in {"float", "nan", "int", "dec"}
    BY <1>1, <1>8, <1>c, ShpValueIs, KindsAre
  <2>2. AsF64(v) = v
    BY <1>8, <1>c DEF Fits
  <2>3. PICK i : Floated(AsF32(v), k, n, l, i) /\ AsF64([k |-> k, n |-> n, lost |-> i]) = [k |-> k, n |-> n, lost |-> i]
    BY <1>c, <2>2, FloatIs
  <2>4. r = Arrow(Type("Float64"), [k |-> k, n |-> n, lost |-> i]) /\ i \in BOOLEAN
    <3>1. AsF32(v).k = k
      BY <2>3 DEF Floated
    <3> QED BY <2>1, <2>3, <3>1, GetShpIs DEF r, Floated
  <2>5. Fits("Float64", [k |-> k, n |-> n, lost |-> i])
    BY <1>8, <1>y, <2>3, Families DEF Fits
  <2>6. ShpRead(r, "Float64", k, n, i)
    BY <1>c, <1>y, <2>1, <2>4, <2>5, KindsAre DEF ShpRead, ValueCell, Type, ShpTypes
  <2>7. t \in ShpTypes => t = "Float64"
    BY <1>8 DEF Floats, ShpTypes
  <2>8. CASE k = "nan"
    <3>1. i = l
      BY <1>c, <2>3, <2>8, FloatIs DEF Floated
    <3>2. ShpSame(c, policy, t, k, n, l, "Float64", k, n, i, view)
      BY <2>7, <3>1 DEF ShpSame
    <3> QED BY <2>6, <3>2
  <2>9. CASE k \in {"float", "int", "dec"}
    <3>1. SilentlyChanged("shp", c, view)
      BY <1>8, <1>c, <2>9 DEF SilentlyChanged, IsGeom
    <3>2. ShpSame(c, policy, t, k, n, l, "Float64", k, n, i, view)
      BY <2>7, <2>9, <3>1 DEF ShpSame
    <3> QED BY <2>6, <3>2
  <2> QED BY <2>1, <2>8, <2>9
<1>9. CASE k # "null" /\ f = Field("N") /\ (t \in Ints \cup {"Decimal"} \/ (t = "DecimalWide" /\ policy # "error"))
  <2>0. "Decimal" \in Decimals /\ "DecimalWide" \in Decimals
    BY DEF Decimals
  <2>1. st = Filled("N", AsF64(v)) /\ k \in {"int", "dec"} /\ t \notin ShpTypes
    <3>1. t \notin ShpTypes
      BY <1>9, <1>y, <2>0, Families DEF ShpTypes
    <3> QED BY <1>1, <1>9, <1>c, <2>0, <3>1, ShpValueIs, KindsAre
  <2>p. PICK i : DoubleOf(v, k, n, l, i)
    <3>1. v = [k |-> k, n |-> n, lost |-> l] /\ n \in Int /\ l \in BOOLEAN
      BY <1>c
    <3> QED BY ONLY <3>1, DoubleIs
  <2>3. Floated(AsF64(v), k, n, l, i) /\ AsF64([k |-> k, n |-> n, lost |-> i]) = [k |-> k, n |-> n, lost |-> i]
    BY <2>p DEF DoubleOf
  <2>4. r = Arrow(Type("Float64"), [k |-> k, n |-> n, lost |-> i]) /\ i \in BOOLEAN
    <3>1. AsF64(v).k = k
      BY <2>3 DEF Floated
    <3> QED BY <2>1, <2>3, <3>1, GetShpIs DEF r, Floated
  <2>5. Fits("Float64", [k |-> k, n |-> n, lost |-> i])
    BY <1>9, <1>y, <2>3, Families DEF Fits
  <2>6. ShpRead(r, "Float64", k, n, i)
    BY <1>c, <1>y, <2>1, <2>4, <2>5, KindsAre DEF ShpRead, ValueCell, Type, ShpTypes
  <2>7. ~SettledAttribute("shp", c, policy, view)
    BY <1>c, <2>1 DEF SettledAttribute, ShpTypes
  <2>8. i = l \/ SilentlyChanged("shp", c, view) \/ policy # "error"
    <3>1. CASE t \in {"Int64", "UInt32", "Decimal"}
      BY <1>c, <2>1, <3>1 DEF SilentlyChanged, IsGeom
    <3>2. CASE t \in Ints \ {"Int64", "UInt32", "UInt64"}
      <4>1. n <= 53 /\ k = "int"
        BY <1>c, <1>9, <3>2, KindsAre DEF Fits, Bits, Ints
      <4>2. AsF64(v) = v
        BY <1>c, <4>1 DEF AsF64, Beyond
      <4> QED BY <2>3, <4>2 DEF Floated
    <3>3. t = "UInt64" => FALSE
      <4> SUFFICES ASSUME t = "UInt64" PROVE FALSE
        OBVIOUS
      <4>1. f = OnLoss(policy, LeftOut, LeftOut)
        BY DEF f, ShpField, Ints, Floats, Dates, Times, Naive, Zoned
      <4> QED BY <1>2, <1>w, <4>1 DEF OnLoss
    <3> QED BY <1>9, <3>1, <3>2, <3>3
  <2>9. ShpSame(c, policy, t, k, n, l, "Float64", k, n, i, view)
    BY <2>1, <2>7, <2>8 DEF ShpSame
  <2> QED BY <2>6, <2>9
<1>10. CASE k # "null" /\ t \in Times /\ f = Field("D")
  <2>1. st = WriteError
    BY <1>1, <1>10, <1>c, ShpValueIs
  <2> QED BY <1>w, <2>1 DEF st
<1>11. t \in Dates => t # "Bool"
  BY Families
<1>12. Field("D") # Field("L")
  BY DEF Field, Stored, Type
<1> QED BY <1>3, <1>5, <1>6, <1>7, <1>8, <1>9, <1>10, <1>11, <1>12

\* A shapefile carries an attribute.
LEMMA ShpCarries ==
    ASSUME NEW c, NEW t, NEW s, NEW k, NEW n, NEW l, NEW w, AttributeCell(c, t, s, k, n, l, w),
           NEW policy, NEW view
    PROVE  /\ PutShp(c, policy).at = "stored" => Comes("shp", c, policy, GetShp(PutShp(c, policy)), view)
           /\ SettledAttribute("shp", c, policy, view)
              => Stays("shp", c, PutShp(c, policy), GetShp(PutShp(c, policy)))
<1> DEFINE st == PutShp(c, policy)
           r == GetShp(st)
           v == [k |-> k, n |-> n, lost |-> l]
<1>c. /\ t \in AttributeTypes /\ k \in Kinds(t) \cup {"null"}
      /\ c.v = v /\ c.v.k = k /\ c.v.n = n /\ c.type.t = t /\ c.type.s = s
  BY DEF AttributeCell
<1>1. ASSUME SettledAttribute("shp", c, policy, view) PROVE st.at = "stored" /\ s = 0 /\ t \in ShpTypes
  <2>1. t \in ShpTypes /\ (t = "Utf8" => ~TooLong(v))
    BY <1>1, <1>c DEF SettledAttribute, ShpTypes
  <2>2. t \notin Decimals /\ t \notin Times
    BY <2>1, Families DEF ShpTypes, Decimals
  <2>3. s = 0
    BY <1>1, <1>c, <2>2 DEF SettledAttribute
  <2>4. t = "Date32" => t \in Dates
    BY DEF Dates
  <2>5. t = "Float64" => t \in Floats
    BY DEF Floats
  <2>6. ShpField(t, policy) \in {Field("C"), Field("L"), Field("D"), Field("F")}
        /\ (ShpField(t, policy) = Field("C") => t = "Utf8")
    <3>1. Field("C") # Field("L") /\ Field("C") # Field("D") /\ Field("C") # Field("F")
      BY DEF Field, Stored, Type
    <3>2. /\ t = "Utf8" => ShpField(t, policy) = Field("C")
          /\ t = "Bool" => ShpField(t, policy) = Field("L")
          /\ t = "Date32" => ShpField(t, policy) = Field("D")
          /\ t = "Float64" => ShpField(t, policy) = Field("F")
      BY <1>c, <2>4, <2>5, ShpFieldIs DEF Field
    <3> QED BY <2>1, <3>1, <3>2 DEF ShpTypes
  <2>7. \A x, y : Field(x).at = "stored" /\ Filled(x, y).at = "stored"
    BY DEF Field, Filled, Stored
  <2>8. st = ShpValue(ShpField(t, policy), c, policy)
    BY <1>c DEF PutShp
  <2>9. st.at = "stored"
    <3> HIDE DEF st
    <3>1. CASE k = "null"
      BY <1>c, <2>6, <2>7, <2>8, <3>1, ShpValueIs
    <3>2. CASE k # "null"
      <4>1. ShpField(t, policy) = Field("C") => st = Filled("C", v)
        BY <1>c, <2>1, <2>6, <2>8, <3>2, ShpValueIs
      <4>2. ShpField(t, policy) = Field("L") => st = Filled("L", v)
        BY <1>c, <2>8, <3>2, ShpValueIs
      <4>3. ShpField(t, policy) = Field("D") => st = Filled("D", v)
        BY <1>c, <2>2, <2>8, <3>2, ShpValueIs
      <4>4. ShpField(t, policy) = Field("F") => st = Filled("F", AsF32(v))
        BY <1>c, <2>8, <3>2, ShpValueIs
      <4> QED BY <2>6, <2>7, <4>1, <4>2, <4>3, <4>4
    <3> QED BY <3>1, <3>2
  <2> QED BY <2>1, <2>3, <2>9
<1>2. ASSUME st.at = "stored"
      PROVE  Comes("shp", c, policy, r, view) /\ (SettledAttribute("shp", c, policy, view) => Stays("shp", c, st, r))
  <2>1. PICK u, j, m, i : ShpRead(r, u, j, m, i) /\ ShpSame(c, policy, t, k, n, l, u, j, m, i, view)
    BY <1>2, ShpReads
  <2>2. ValueCell(r, u, 0, j, m, i)
    BY <2>1 DEF ShpRead
  <2> HIDE DEF r
  <2>3. r.type.t = u /\ r.at = "arrow" /\ r.type.s = 0 /\ r.v.k = j /\ r.v.n = m
    <3>1. r.type = [t |-> u, s |-> 0] /\ r.at = "arrow" /\ r.v = [k |-> j, n |-> m, lost |-> i]
      BY <2>2 DEF ValueCell, Arrow
    <3> QED BY <3>1
  <2>4. SettledAttribute("shp", r, policy, view)
    <3>1. ~TooLong(r.v) \/ u # "Utf8"
      <4> SUFFICES ASSUME u = "Utf8" PROVE ~TooLong(r.v)
        OBVIOUS
      <4>1. j # "odd" /\ (j = "text" => m <= 254) /\ m \in Int
        BY <2>1 DEF ShpRead, ValueCell
      <4> QED BY <2>3, <4>1 DEF TooLong
    <3>2. u = "Utf8" => ~(j = "text" /\ m = 0)
      BY <2>1 DEF ShpRead
    <3> QED BY <2>1, <2>3, <3>1, <3>2 DEF SettledAttribute, ShpRead, ShpTypes
  <2>5. Comes("shp", c, policy, r, view)
    BY <2>1, <2>2, <2>4, Through DEF ShpSame
  <2>6. ASSUME SettledAttribute("shp", c, policy, view) PROVE Stays("shp", c, st, r)
    <3>1. u = t /\ s = 0
      BY <1>1, <2>1, <2>6 DEF ShpSame
    <3>2. r.type = c.type
      BY <2>2, <3>1, Through
    <3>3. (j = k /\ (i => l) /\ (~i => m = n)) \/ k \in {"int", "float", "dec"}
      BY <2>1, <2>6 DEF ShpSame
    <3>4. Exact(c, r) \/ c.v.k \in {"int", "float", "dec"}
      BY <1>c, <2>2, <3>3, Through
    <3> QED BY <1>2, <2>3, <3>2, <3>4 DEF Stays
  <2> QED BY <2>5, <2>6
<1> QED BY <1>1, <1>2

----------------------------------------------------------------------------
(* GeoJSON.                                                                *)

JsonTypes == {"Utf8", "Bool", "Int64", "Float64"}

\* What the sampling reader makes of each kind of JSON value.
LEMMA JsonTable ==
    /\ JsonArrow["null"] = "Utf8" /\ JsonArrow["bool"] = "Bool" /\ JsonArrow["int"] = "Int64"
    /\ JsonArrow["float"] = "Float64" /\ JsonArrow["string"] = "Utf8"
BY DEF JsonArrow

\* The kind of JSON value a cell is written as.
LEMMA JsonKindIs ==
    ASSUME NEW t \in AttributeTypes, NEW v
    PROVE  /\ v.k = "null" => JsonKind(t, v) = "null"
           /\ v.k # "null" =>
              /\ t = "Bool" => JsonKind(t, v) = "bool"
              /\ t \in Ints => JsonKind(t, v) = IF BeyondI64(t, v) THEN "string" ELSE "int"
              /\ t \in Floats => JsonKind(t, v) = "float"
              /\ t \notin Ints \cup Floats \cup {"Bool"} => JsonKind(t, v) = "string"
<1>1. CASE v.k = "null"
  BY <1>1 DEF JsonKind
<1>2. CASE v.k # "null" /\ t = "Bool"
  <2>1. t \notin Ints \cup Floats
    BY <1>2, Families
  <2> QED BY <1>2, <2>1 DEF JsonKind
<1>3. CASE v.k # "null" /\ t \in Ints
  <2>1. t \notin Floats \cup {"Bool"}
    BY <1>3, Families
  <2> QED BY <1>3, <2>1 DEF JsonKind
<1>4. CASE v.k # "null" /\ t \in Floats
  <2>1. t \notin Ints \cup {"Bool"}
    BY <1>4, Families
  <2> QED BY <1>4, <2>1 DEF JsonKind
<1>5. CASE v.k # "null" /\ t \notin Ints \cup Floats \cup {"Bool"}
  BY <1>5 DEF JsonKind
<1> QED BY <1>1, <1>2, <1>3, <1>4, <1>5

JsonCell(t, v) == Stored(Type(JsonKind(t, v)), "-", v)
JsonNone(v) == Stored(Type("null"), "-", IF v.k = "null" THEN Null ELSE Gone)

\* Which cells GeoJSON stores under --on-loss error, and as what.
LEMMA PutJsonIs ==
    ASSUME NEW c, c.type.t \in AttributeTypes, NEW policy, PutGeoJson(c, policy).at = "stored"
    PROVE  LET t == c.type.t
               st == PutGeoJson(c, policy) IN
           \/ t \in Decimals \cup Times /\ st = JsonCell(t, c.v) /\ policy # "error"
           \/ t = "Binary" /\ st = JsonNone(c.v) /\ policy # "error"
           \/ t \in Floats /\ c.v.k = "nan" /\ st = JsonNone(c.v) /\ policy # "error"
           \/ t = "UInt64" /\ BeyondI64(t, c.v) /\ st = JsonCell(t, c.v) /\ policy # "error"
           \/ /\ t \in Ints \cup Floats \cup Dates \cup {"Bool", "Utf8"}
              /\ ~(t \in Floats /\ c.v.k = "nan") /\ ~BeyondI64(t, c.v) /\ st = JsonCell(t, c.v)
<1> DEFINE t == c.type.t
           st == PutGeoJson(c, policy)
<1>w. WriteError.at # "stored" /\ LeftOut.at # "stored"
  BY DEF WriteError, LeftOut, Stored
<1>b. BeyondI64(t, c.v) => t = "UInt64" /\ t \in Ints
  BY DEF BeyondI64, Ints
<1>s. st.at = "stored"
  OBVIOUS
<1>1. CASE t \in Decimals \cup Times
  <2>1. t \notin Ints \cup Floats \cup {"Binary", "List"}
    BY <1>1, Families
  <2>2. st = OnLoss(policy, JsonCell(t, c.v), LeftOut)
    BY <1>1, <1>b, <2>1 DEF PutGeoJson, JsonCell
  <2>3. policy # "error" /\ st = JsonCell(t, c.v)
    <3> HIDE DEF st
    <3> QED BY <1>s, <1>w, <2>2 DEF OnLoss
  <2> QED BY <1>1, <2>3
<1>2. CASE t = "Binary"
  <2>1. t \notin Ints \cup Floats \cup Decimals \cup Times
    BY <1>2, Families
  <2>2. st = OnLoss(policy, JsonNone(c.v), LeftOut)
    BY <1>2, <1>b, <2>1 DEF PutGeoJson, JsonNone
  <2>3. policy # "error" /\ st = JsonNone(c.v)
    <3> HIDE DEF st
    <3> QED BY <1>s, <1>w, <2>2 DEF OnLoss
  <2> QED BY <1>2, <2>3
<1>3. CASE t = "List"
  <2>1. t \notin Ints \cup Floats \cup Decimals \cup Times
    BY <1>3, Families
  <2>2. st = OnLoss(policy, WriteError, LeftOut)
    BY <1>3, <1>b, <2>1 DEF PutGeoJson
  <2>3. FALSE
    <3> HIDE DEF st
    <3> QED BY <1>s, <1>w, <2>2 DEF OnLoss
  <2> QED BY <2>3
<1>4. CASE t \in Floats /\ c.v.k = "nan"
  <2>1. t \notin Ints \cup Decimals \cup Times \cup {"Binary", "List"}
    BY <1>4, Families
  <2>2. st = OnLoss(policy, JsonNone(c.v), JsonNone(c.v))
    BY <1>4, <1>b, <2>1 DEF PutGeoJson, JsonNone
  <2>3. policy # "error" /\ st = JsonNone(c.v)
    <3> HIDE DEF st
    <3> QED BY <1>s, <1>w, <2>2 DEF OnLoss
  <2> QED BY <1>4, <2>3
<1>5. CASE BeyondI64(t, c.v)
  <2>1. t \notin Floats \cup Decimals \cup Times \cup {"Binary", "List"}
    BY <1>5, <1>b, Families
  <2>2. st = OnLoss(policy, JsonCell(t, c.v), JsonCell(t, c.v))
    BY <1>5, <1>b, <2>1 DEF PutGeoJson, JsonCell
  <2>3. policy # "error" /\ st = JsonCell(t, c.v)
    <3> HIDE DEF st
    <3> QED BY <1>s, <1>w, <2>2 DEF OnLoss
  <2> QED BY <1>5, <1>b, <2>3
<1>6. CASE t \in Ints \cup Floats \cup Dates \cup {"Bool", "Utf8"} /\ ~(t \in Floats /\ c.v.k = "nan") /\ ~BeyondI64(t, c.v)
  <2>1. t \notin Decimals \cup Times \cup {"Binary", "List"}
    BY <1>6, Families
  <2>2. st = JsonCell(t, c.v)
    BY <1>6, <2>1 DEF PutGeoJson, JsonCell
  <2> QED BY <1>6, <2>2
<1> QED BY <1>1, <1>2, <1>3, <1>4, <1>5, <1>6 DEF AttributeTypes

JsonRead(r, u, j, m, i) ==
    /\ ValueCell(r, u, 0, j, m, i) /\ u \in JsonTypes
    /\ (j = "null" => u = "Utf8") /\ (u = "Float64" => j # "nan")

JsonSame(c, policy, t, k, n, l, u, j, m, i, view) ==
    /\ (j = k /\ (i => l) /\ (~i => m = n)) \/ policy # "error"
    /\ SettledAttribute("geojson", c, policy, view) => u = t /\ (j = k /\ (i => l) /\ (~i => m = n))

\* What comes back from a GeoJSON property.
LEMMA JsonReads ==
    ASSUME NEW c, NEW t, NEW s, NEW k, NEW n, NEW l, NEW w, AttributeCell(c, t, s, k, n, l, w),
           NEW policy, NEW view, PutGeoJson(c, policy).at = "stored"
    PROVE  \E u, j, m, i : /\ JsonRead(GetGeoJson(PutGeoJson(c, policy)), u, j, m, i)
                           /\ JsonSame(c, policy, t, k, n, l, u, j, m, i, view)
<1> DEFINE st == PutGeoJson(c, policy)
           r == GetGeoJson(st)
           v == [k |-> k, n |-> n, lost |-> l]
<1>c. /\ t \in AttributeTypes /\ s \in Nat /\ k \in Kinds(t) \cup {"null"} /\ n \in Int /\ l \in BOOLEAN
      /\ c.v = v /\ c.v.k = k /\ c.v.n = n /\ c.type.t = t /\ Fits(t, v) /\ c.type = [t |-> t, s |-> s] /\ c.type.s = s
      /\ v.k = k /\ v.n = n
  BY DEF AttributeCell
<1>0. PICK yes \in BOOLEAN, no \in BOOLEAN : yes = TRUE /\ no = FALSE
  OBVIOUS
<1>n. Null = [k |-> "null", n |-> 0, lost |-> no]
  BY <1>0 DEF Null, Value
<1>g. Gone = [k |-> "null", n |-> 0, lost |-> yes]
  <2>1. Lost(Null) = [Null EXCEPT !.lost = yes]
    BY <1>0, Zenon DEF Lost
  <2>2. ASSUME NEW x PROVE [Null EXCEPT !.lost = x] = [k |-> "null", n |-> 0, lost |-> x]
    BY ONLY <1>n
  <2>3. [Null EXCEPT !.lost = yes] = [k |-> "null", n |-> 0, lost |-> yes]
    BY ONLY <2>2
  <2> QED BY <2>1, <2>3, Zenon DEF Gone
<1>y. /\ "Utf8" \in AttributeTypes /\ "Int64" \in AttributeTypes /\ "Bool" \in AttributeTypes
      /\ "Float64" \in AttributeTypes /\ "Float64" \in Floats /\ "Int64" \in Ints
  BY DEF AttributeTypes, Floats, Ints
<1>1. \/ t \in Decimals \cup Times /\ st = JsonCell(t, v) /\ policy # "error"
      \/ t = "Binary" /\ st = JsonNone(v) /\ policy # "error"
      \/ t \in Floats /\ k = "nan" /\ st = JsonNone(v) /\ policy # "error"
      \/ t = "UInt64" /\ BeyondI64(t, v) /\ st = JsonCell(t, v) /\ policy # "error"
      \/ /\ t \in Ints \cup Floats \cup Dates \cup {"Bool", "Utf8"}
         /\ ~(t \in Floats /\ k = "nan") /\ ~BeyondI64(t, v) /\ st = JsonCell(t, v)
  BY <1>c, PutJsonIs
<1>2. \A x, y : LET z == Stored(Type(x), "-", y) IN z.decl.t = x /\ z.v = y
  BY DEF Stored, Type
<1>3. st = JsonCell(t, v) => r = Arrow(Type(JsonArrow[JsonKind(t, v)]), v)
  BY <1>2 DEF GetGeoJson, JsonCell
<1>4. st = JsonNone(v) => r = Arrow(Type("Utf8"), IF k = "null" THEN Null ELSE Gone)
  BY <1>2, <1>c, JsonTable DEF GetGeoJson, JsonNone
<1>5. SettledAttribute("geojson", c, policy, view)
      => t \in JsonTypes /\ (k = "null" => t = "Utf8") /\ ~(t \in Floats /\ k = "nan") /\ t \notin Decimals \cup Times \cup Dates
  <2> SUFFICES ASSUME SettledAttribute("geojson", c, policy, view)
               PROVE t \in JsonTypes /\ (k = "null" => t = "Utf8") /\ ~(t \in Floats /\ k = "nan")
                     /\ t \notin Decimals \cup Times \cup Dates
    OBVIOUS
  <2>1. t \in JsonTypes /\ (k = "null" => t = "Utf8") /\ (t = "Float64" => k # "nan")
    BY <1>c DEF SettledAttribute, JsonTypes
  <2>2. t \in Floats => t = "Float64"
    BY <2>1 DEF JsonTypes, Floats
  <2>3. t \notin Decimals \cup Times \cup Dates
    BY <1>y, <2>1, Families DEF JsonTypes
  <2> QED BY <2>1, <2>2, <2>3
<1> HIDE DEF st, r
<1> SUFFICES \E u, j, m, i : JsonRead(r, u, j, m, i) /\ JsonSame(c, policy, t, k, n, l, u, j, m, i, view)
  BY DEF r, st
<1>6. \A i \in BOOLEAN : Fits("Utf8", [k |-> "null", n |-> 0, lost |-> i])
  BY Families DEF Fits
<1>7. CASE st = JsonNone(v) /\ policy # "error" /\ (t = "Binary" \/ (t \in Floats /\ k = "nan"))
  <2>1. ~SettledAttribute("geojson", c, policy, view)
    BY <1>5, <1>7 DEF JsonTypes
  <2> DEFINE i == IF k = "null" THEN no ELSE yes
  <2>2. r = Arrow(Type("Utf8"), [k |-> "null", n |-> 0, lost |-> i]) /\ i \in BOOLEAN
    <3>1. r = Arrow(Type("Utf8"), [k |-> "null", n |-> 0, lost |-> i])
      BY <1>4, <1>7, <1>n, <1>g
    <3> QED BY <1>0, <3>1
  <2> HIDE DEF i
  <2>3. JsonRead(r, "Utf8", "null", 0, i)
    BY <1>6, <1>y, <2>2 DEF JsonRead, JsonTypes, ValueCell, Type
  <2>4. JsonSame(c, policy, t, k, n, l, "Utf8", "null", 0, i, view)
    BY <1>7, <2>1 DEF JsonSame
  <2> QED BY <2>3, <2>4
<1>8. ASSUME NEW u \in JsonTypes, r = Arrow(Type(u), v), k \in Kinds(u) \cup {"null"}, Fits(u, v),
             k = "null" => u = "Utf8", u = "Float64" => k # "nan",
             SettledAttribute("geojson", c, policy, view) => u = t
      PROVE  \E u1, j, m, i : JsonRead(r, u1, j, m, i) /\ JsonSame(c, policy, t, k, n, l, u1, j, m, i, view)
  <2>1. u \in AttributeTypes
    BY <1>y DEF JsonTypes
  <2>2. JsonRead(r, u, k, n, l)
    BY <1>8, <1>c, <2>1 DEF JsonRead, ValueCell, Type
  <2>3. JsonSame(c, policy, t, k, n, l, u, k, n, l, view)
    BY <1>8 DEF JsonSame
  <2> QED BY <2>2, <2>3
<1>9. CASE st = JsonCell(t, v) /\ k = "null"
  <2>1. r = Arrow(Type("Utf8"), v)
    BY <1>3, <1>9, <1>c, JsonKindIs, JsonTable
  <2>2. Fits("Utf8", v)
    BY <1>9, <1>c, Families DEF Fits
  <2>3. SettledAttribute("geojson", c, policy, view) => t = "Utf8"
    BY <1>5, <1>9
  <2> QED BY <1>8, <1>9, <2>1, <2>2, <2>3 DEF JsonTypes
<1>10. CASE st = JsonCell(t, v) /\ k # "null" /\ t \in Decimals \cup Times \cup Dates \cup {"Utf8"}
  <2>0. t \notin Ints \cup Floats \cup {"Bool"}
    BY <1>10, Families
  <2>1. r = Arrow(Type("Utf8"), v)
    BY <1>3, <1>10, <1>c, <2>0, JsonKindIs, JsonTable
  <2>2. k \in Kinds("Utf8") /\ (k = "bytes" => t = "Utf8")
    BY <1>10, <1>c, <1>y, KindsAre
  <2>3. Fits("Utf8", v)
    BY <1>10, <1>c, <2>2, Families DEF Fits
  <2>4. SettledAttribute("geojson", c, policy, view) => t = "Utf8"
    BY <1>5, <1>10
  <2> QED BY <1>8, <1>10, <2>1, <2>2, <2>3, <2>4 DEF JsonTypes
<1>11. CASE st = JsonCell(t, v) /\ k # "null" /\ t = "UInt64" /\ BeyondI64(t, v)
  <2>0. "UInt64" \in Ints
    BY DEF Ints
  <2>1. r = Arrow(Type("Utf8"), v)
    BY <1>3, <1>11, <1>c, <2>0, JsonKindIs, JsonTable
  <2>2. k \in Kinds("Utf8") /\ k # "bytes"
    BY <1>11, <1>c, <1>y, <2>0, KindsAre
  <2>3. Fits("Utf8", v)
    BY <1>11, <1>c, <2>2, Families DEF Fits
  <2>4. ~SettledAttribute("geojson", c, policy, view)
    BY <1>5, <1>11 DEF JsonTypes
  <2> QED BY <1>8, <1>11, <2>1, <2>2, <2>3, <2>4 DEF JsonTypes
<1>12. CASE st = JsonCell(t, v) /\ k # "null" /\ t = "Bool"
  <2>1. r = Arrow(Type("Bool"), v)
    BY <1>3, <1>12, <1>c, JsonKindIs, JsonTable
  <2> QED BY <1>8, <1>12, <1>c, <2>1 DEF JsonTypes
<1>13. CASE st = JsonCell(t, v) /\ k # "null" /\ t \in Floats /\ k # "nan"
  <2>1. r = Arrow(Type("Float64"), v)
    BY <1>3, <1>13, <1>c, JsonKindIs, JsonTable
  <2>2. k \in Kinds("Float64") /\ AsF64(v) = v
    BY <1>13, <1>c, <1>y, KindsAre DEF Fits
  <2>3. Fits("Float64", v)
    BY <1>13, <1>y, <2>2, Families DEF Fits
  <2>4. SettledAttribute("geojson", c, policy, view) => t = "Float64"
    BY <1>5, <1>13 DEF JsonTypes, Floats
  <2> QED BY <1>8, <1>13, <2>1, <2>2, <2>3, <2>4 DEF JsonTypes
<1>14. CASE st = JsonCell(t, v) /\ k # "null" /\ t \in Ints /\ ~BeyondI64(t, v)
  <2>1. r = Arrow(Type("Int64"), v)
    BY <1>3, <1>14, <1>c, JsonKindIs, JsonTable
  <2>2. k = "int" /\ k \in Kinds("Int64")
    BY <1>14, <1>c, <1>y, KindsAre
  <2>3. n \in 0..63
    <3>1. n \in 0..Bits(t)
      BY <1>14, <1>c DEF Fits
    <3>2. t # "UInt64" => n \in 0..63
      BY <1>14, <3>1 DEF Bits, Ints
    <3>3. t = "UInt64" => n \in 0..64 /\ n # 64
      BY <1>14, <1>c, <2>2, <3>1 DEF Bits, BeyondI64
    <3> QED BY <3>2, <3>3
  <2>4. Bits("Int64") = 63
    BY DEF Bits
  <2>5. Fits("Int64", v)
    BY <1>y, <1>c, <2>2, <2>3, <2>4, Families DEF Fits
  <2>6. SettledAttribute("geojson", c, policy, view) => t = "Int64"
    BY <1>5, <1>14 DEF JsonTypes, Ints
  <2> QED BY <1>8, <1>14, <2>1, <2>2, <2>5, <2>6 DEF JsonTypes
<1> QED BY <1>1, <1>7, <1>9, <1>10, <1>11, <1>12, <1>13, <1>14

\* GeoJSON carries an attribute.
LEMMA JsonCarries ==
    ASSUME NEW c, NEW t, NEW s, NEW k, NEW n, NEW l, NEW w, AttributeCell(c, t, s, k, n, l, w),
           NEW policy, NEW view
    PROVE  /\ PutGeoJson(c, policy).at = "stored" => Comes("geojson", c, policy, GetGeoJson(PutGeoJson(c, policy)), view)
           /\ SettledAttribute("geojson", c, policy, view)
              => Stays("geojson", c, PutGeoJson(c, policy), GetGeoJson(PutGeoJson(c, policy)))
<1> DEFINE st == PutGeoJson(c, policy)
           r == GetGeoJson(st)
           v == [k |-> k, n |-> n, lost |-> l]
<1>c. /\ t \in AttributeTypes /\ k \in Kinds(t) \cup {"null"} /\ Fits(t, v)
      /\ c.v = v /\ c.v.k = k /\ c.v.n = n /\ c.type.t = t /\ c.type.s = s
  BY DEF AttributeCell
<1>1. ASSUME SettledAttribute("geojson", c, policy, view) PROVE st.at = "stored" /\ s = 0
  <2>1. t \in JsonTypes /\ (t = "Float64" => k # "nan")
    BY <1>1, <1>c DEF SettledAttribute, JsonTypes
  <2>2. t \notin Decimals \cup Times \cup Dates \cup {"Binary", "List"}
    BY <2>1, Families DEF JsonTypes, Decimals, Times, Dates, Naive, Zoned
  <2>3. s = 0
    BY <1>1, <1>c, <2>2 DEF SettledAttribute
  <2>4. ~(t \in Floats /\ k = "nan") /\ ~BeyondI64(t, v)
    BY <2>1 DEF JsonTypes, Floats, BeyondI64
  <2>5. st = JsonCell(t, v)
    BY <1>c, <2>2, <2>4 DEF PutGeoJson, JsonCell
  <2> QED BY <2>3, <2>5 DEF JsonCell, Stored
<1>2. ASSUME st.at = "stored"
      PROVE  Comes("geojson", c, policy, r, view) /\ (SettledAttribute("geojson", c, policy, view) => Stays("geojson", c, st, r))
  <2>1. PICK u, j, m, i : JsonRead(r, u, j, m, i) /\ JsonSame(c, policy, t, k, n, l, u, j, m, i, view)
    BY <1>2, JsonReads
  <2>2. ValueCell(r, u, 0, j, m, i)
    BY <2>1 DEF JsonRead
  <2> HIDE DEF r
  <2>3. r.type.t = u /\ r.at = "arrow" /\ r.type.s = 0 /\ r.v.k = j
    <3>1. r.type = [t |-> u, s |-> 0] /\ r.at = "arrow" /\ r.v = [k |-> j, n |-> m, lost |-> i]
      BY <2>2 DEF ValueCell, Arrow
    <3> QED BY <3>1
  <2>4. SettledAttribute("geojson", r, policy, view)
    BY <2>1, <2>3 DEF SettledAttribute, JsonRead, JsonTypes
  <2>5. Comes("geojson", c, policy, r, view)
    BY <2>1, <2>2, <2>4, Through DEF JsonSame
  <2>6. ASSUME SettledAttribute("geojson", c, policy, view) PROVE Stays("geojson", c, st, r)
    <3>1. u = t /\ s = 0 /\ (j = k /\ (i => l) /\ (~i => m = n))
      BY <1>1, <2>1, <2>6 DEF JsonSame
    <3>2. r.type = c.type /\ Exact(c, r)
      BY <2>2, <3>1, Through
    <3> QED BY <1>2, <2>3, <3>2 DEF Stays
  <2> QED BY <2>5, <2>6
<1> QED BY <1>1, <1>2

----------------------------------------------------------------------------
(* All attributes.                                                         *)

\* No driver makes a geometry of an attribute.
LEMMA PgStores ==
    ASSUME NEW c, NEW t, NEW s, NEW k, NEW n, NEW l, NEW w, AttributeCell(c, t, s, k, n, l, w), PutPg(c).at = "stored"
    PROVE  PutPg(c).decl.t # "Geom" /\ PutPg(c).v.k # "geom"
<1> DEFINE kept == Stored([t |-> PgDecls[t], s |-> s], "-", Timed(t, c.v))
           st == PutPg(c)
<1>1. t \in AttributeTypes /\ c.v = [k |-> k, n |-> n, lost |-> l] /\ c.v.k = k /\ c.type.t = t /\ c.type.s = s /\ k # "geom"
  <2>1. k \in Kinds(t) \cup {"null"}
    BY DEF AttributeCell
  <2> QED BY <2>1, KindsAre DEF AttributeCell
<1>2. st = WriteError \/ st = kept \/ \E x : st = [kept EXCEPT !.w = x]
  BY <1>1 DEF PutPg, PgCell
<1>3. WriteError.at # "stored"
  BY DEF WriteError, Stored
<1>4. t \in DOMAIN PgDecls
  <2> HIDE DEF st
  <2>1. st.at = "stored"
    BY DEF st
  <2>2. t \notin DOMAIN PgDecls => st = WriteError
    BY <1>1 DEF PutPg, st
  <2> QED BY <1>3, <2>1, <2>2
<1>5. kept.decl.t = PgDecls[t] /\ kept.v = Timed(t, c.v)
  BY DEF Stored
<1>6. st.decl.t = PgDecls[t] /\ st.v = Timed(t, c.v)
  <2>1. \A x : [kept EXCEPT !.w = x].decl = kept.decl /\ [kept EXCEPT !.w = x].v = kept.v
    BY DEF Stored
  <2>2. st # WriteError
    BY <1>3
  <2> HIDE DEF st, kept
  <2> QED BY <1>2, <1>5, <2>1, <2>2
<1>7. PgDecls[t] # "Geom"
  <2>1. CASE t \in Decimals
    BY <2>1, PgTable DEF Decimals
  <2>2. CASE t \notin Decimals
    BY <1>4, <2>2, PgTable
  <2> QED BY <2>1, <2>2
<1>8. PICK m, i : TimedTo(c, t, k, n, l, m, i)
  BY TimedIs
<1>9. Timed(t, c.v).k = k
  BY <1>8 DEF TimedTo
<1> QED BY <1>1, <1>6, <1>7, <1>9

\* SQL Server,
LEMMA MsStores ==
    ASSUME NEW c, NEW t, NEW s, NEW k, NEW n, NEW l, NEW w, AttributeCell(c, t, s, k, n, l, w),
           NEW bulk \in BOOLEAN, PutMs(c, bulk).at = "stored"
    PROVE  PutMs(c, bulk).decl.t # "Geom" /\ PutMs(c, bulk).v.k # "geom"
<1> DEFINE st == PutMs(c, bulk)
           kept == Stored([t |-> MsDecls[t], s |-> s], "-", Timed(t, c.v))
<1>1. t \in AttributeTypes /\ c.v = [k |-> k, n |-> n, lost |-> l] /\ c.v.k = k /\ c.type.t = t /\ c.type.s = s /\ k # "geom"
  <2>1. k \in Kinds(t) \cup {"null"}
    BY DEF AttributeCell
  <2> QED BY <2>1, KindsAre DEF AttributeCell
<1>2. st = WriteError \/ st = kept
  BY <1>1 DEF PutMs
<1>3. WriteError.at # "stored" /\ kept.v = Timed(t, c.v)
  BY DEF WriteError, Stored
<1>4. st.v = Timed(t, c.v)
  <2>1. st.at = "stored"
    OBVIOUS
  <2> HIDE DEF st, kept
  <2> QED BY <1>2, <1>3, <2>1
<1>5. PICK m, i : TimedTo(c, t, k, n, l, m, i)
  BY TimedIs
<1>6. Timed(t, c.v).k = k
  BY <1>5 DEF TimedTo
<1>7. st.decl.t # "Geom"
  BY MsReads
<1> QED BY <1>1, <1>4, <1>6, <1>7

\* the SQLite drivers,
LEMMA SqStores ==
    ASSUME NEW c, NEW t, NEW s, NEW k, NEW n, NEW l, NEW w, AttributeCell(c, t, s, k, n, l, w),
           NEW policy, PutSqlite(c, policy).at = "stored"
    PROVE  PutSqlite(c, policy).decl.t # "Geom" /\ PutSqlite(c, policy).v.k # "geom"
<1> DEFINE st == PutSqlite(c, policy)
           decl == Type(SqliteDecls[t])
           kept == Stored(decl, ClassOf(t, c.v), Timed(t, c.v))
<1>1. t \in AttributeTypes /\ c.v = [k |-> k, n |-> n, lost |-> l] /\ c.v.k = k /\ c.type.t = t /\ c.type.s = s /\ k # "geom"
  <2>1. k \in Kinds(t) \cup {"null"}
    BY DEF AttributeCell
  <2> QED BY <2>1, KindsAre DEF AttributeCell
<1>w. WriteError.at # "stored"
  BY DEF WriteError, Stored
<1>2. \/ t \notin DOMAIN SqliteDecls /\ st = WriteError
      \/ t \in DOMAIN SqliteDecls /\ st \in {WriteError, kept, Stored(decl, "null", Gone)}
  BY <1>1 DEF PutSqlite, OnLoss
<1>3. t \in DOMAIN SqliteDecls /\ st \in {kept, Stored(decl, "null", Gone)}
  <2>1. st.at = "stored"
    OBVIOUS
  <2> HIDE DEF st, kept
  <2> QED BY <1>2, <1>w, <2>1
<1>4. \A x, y : Stored(decl, x, y).v = y /\ Stored(decl, x, y).decl.t = SqliteDecls[t]
  BY DEF Stored, Type
<1>5. PICK m, i : TimedTo(c, t, k, n, l, m, i)
  BY TimedIs
<1>6. Timed(t, c.v).k = k /\ Gone.k = "null"
  BY <1>5 DEF TimedTo, Gone, Lost, Null, Value
<1>7. SqliteDecls[t] # "Geom"
  BY <1>3, SqTable
<1> HIDE DEF st
<1> QED BY <1>1, <1>3, <1>4, <1>6, <1>7 DEF st

\* FlatGeobuf,
LEMMA FgbStores ==
    ASSUME NEW c, NEW t, NEW s, NEW k, NEW n, NEW l, NEW w, AttributeCell(c, t, s, k, n, l, w),
           NEW policy, PutFgb(c, policy).at = "stored"
    PROVE  PutFgb(c, policy).decl.t # "Geom" /\ PutFgb(c, policy).v.k # "geom"
<1> DEFINE st == PutFgb(c, policy)
           v == [k |-> k, n |-> n, lost |-> l]
           kept == Stored(Type(FgbDecls[t]), IF t \in Dates THEN "dates" ELSE "-",
                          IF t \in Decimals THEN AsF64(v) ELSE v)
<1>1. t \in AttributeTypes /\ c.v = v /\ c.v.k = k /\ c.type.t = t /\ c.type.s = s /\ k # "geom" /\ n \in Int /\ l \in BOOLEAN
  <2>1. k \in Kinds(t) \cup {"null"}
    BY DEF AttributeCell
  <2> QED BY <2>1, KindsAre DEF AttributeCell
<1>w. WriteError.at # "stored"
  BY DEF WriteError, Stored
<1>2. \/ t \notin DOMAIN FgbDecls /\ st = WriteError
      \/ t \in DOMAIN FgbDecls /\ st \in {WriteError, kept}
  BY <1>1 DEF PutFgb, OnLoss
<1>3. t \in DOMAIN FgbDecls /\ st = kept
  <2>1. st.at = "stored"
    OBVIOUS
  <2> HIDE DEF st, kept
  <2> QED BY <1>2, <1>w, <2>1
<1>4. kept.v = (IF t \in Decimals THEN AsF64(v) ELSE v) /\ kept.decl.t = FgbDecls[t]
  BY DEF Stored, Type
<1>5. PICK i : Floated(AsF64(v), k, n, l, i)
  BY <1>1, FloatIs
<1>6. AsF64(v).k = k /\ v.k = k
  BY <1>5 DEF Floated
<1>7. FgbDecls[t] # "Geom"
  BY <1>3, FgbTable
<1> HIDE DEF st, kept, v
<1> QED BY <1>1, <1>3, <1>4, <1>6, <1>7 DEF st

\* shapefiles,
LEMMA ShpStores ==
    ASSUME NEW c, NEW t, NEW s, NEW k, NEW n, NEW l, NEW w, AttributeCell(c, t, s, k, n, l, w),
           NEW policy, PutShp(c, policy).at = "stored"
    PROVE  PutShp(c, policy).decl.t # "Geom" /\ PutShp(c, policy).v.k # "geom"
<1> DEFINE st == PutShp(c, policy)
           v == [k |-> k, n |-> n, lost |-> l]
           f == ShpField(t, policy)
<1>1. t \in AttributeTypes /\ c.v = v /\ c.v.k = k /\ c.type.t = t /\ c.type.s = s /\ k # "geom" /\ n \in Int /\ l \in BOOLEAN
      /\ k \in Kinds(t) \cup {"null"}
  <2>1. k \in Kinds(t) \cup {"null"}
    BY DEF AttributeCell
  <2> QED BY <2>1, KindsAre DEF AttributeCell
<1>w. WriteError.at # "stored"
  BY DEF WriteError, Stored
<1>2. st = ShpValue(f, c, policy)
  BY <1>1 DEF PutShp
<1>3. f.at = "stored"
  BY <1>2 DEF ShpValue
<1>4. f \in {Field("C"), Field("L"), Field("D"), Field("F"), Field("N")}
  <2> HIDE DEF f
  <2> QED BY <1>1, <1>3, ShpFieldIs DEF Field, f
<1>5. \A x, y : /\ Filled(x, y).decl.t = x /\ Filled(x, y).v = y
                /\ Field(x).decl.t = x /\ Field(x).v = Null
  BY DEF Filled, Field, Stored, Type
<1>6. Null.k = "null" /\ Truncated(v).k = "text"
  BY DEF Null, Value, Truncated, Lost
<1>7. PICK i, j : Floated(AsF64(v), k, n, l, i) /\ Floated(AsF32(v), k, n, l, j)
  BY <1>1, FloatIs
<1>8. AsF64(v).k = k /\ AsF32(v).k = k /\ v.k = k
  BY <1>7 DEF Floated
<1>9. \/ k = "null" /\ st = f
      \/ st = WriteError
      \/ st = Filled("C", Truncated(v))
      \/ \E x \in {"C", "N", "F", "L", "D"} : st \in {Filled(x, v), Filled(x, AsF64(v)), Filled(x, AsF32(v))}
  <2> HIDE DEF f, st, v
  <2>1. CASE k = "null"
    BY <1>1, <1>2, <1>4, <2>1, ShpValueIs
  <2>2. CASE k # "null"
    <3>1. CASE f = Field("C")
      BY <1>1, <1>2, <2>2, <3>1, ShpValueIs DEF OnLoss
    <3>2. CASE f = Field("N")
      BY <1>1, <1>2, <2>2, <3>2, ShpValueIs
    <3>3. CASE f = Field("F")
      BY <1>1, <1>2, <2>2, <3>3, ShpValueIs
    <3>4. CASE f = Field("L")
      BY <1>1, <1>2, <2>2, <3>4, ShpValueIs
    <3>5. CASE f = Field("D")
      BY <1>1, <1>2, <2>2, <3>5, ShpValueIs
    <3> QED BY <1>4, <3>1, <3>2, <3>3, <3>4, <3>5
  <2> QED BY <2>1, <2>2
<1>10. st # WriteError
  BY <1>w
<1> HIDE DEF st, v, f
<1>11. CASE k = "null" /\ st = f
  BY <1>4, <1>5, <1>6, <1>11 DEF st
<1>12. CASE st = Filled("C", Truncated(v))
  BY <1>5, <1>6, <1>12 DEF st
<1>13. CASE \E x \in {"C", "N", "F", "L", "D"} : st \in {Filled(x, v), Filled(x, AsF64(v)), Filled(x, AsF32(v))}
  <2>1. st.decl.t # "Geom" /\ st.v \in {v, AsF64(v), AsF32(v)}
    BY <1>5, <1>13
  <2> QED BY <1>1, <1>8, <2>1 DEF st
<1> QED BY <1>9, <1>10, <1>11, <1>12, <1>13

\* GeoJSON and
LEMMA JsonStores ==
    ASSUME NEW c, NEW t, NEW s, NEW k, NEW n, NEW l, NEW w, AttributeCell(c, t, s, k, n, l, w),
           NEW policy, PutGeoJson(c, policy).at = "stored"
    PROVE  PutGeoJson(c, policy).decl.t # "Geom" /\ PutGeoJson(c, policy).v.k # "geom"
<1> DEFINE st == PutGeoJson(c, policy)
<1>1. t \in AttributeTypes /\ c.v.k = k /\ c.type.t = t /\ k # "geom"
  <2>1. k \in Kinds(t) \cup {"null"}
    BY DEF AttributeCell
  <2> QED BY <2>1, KindsAre DEF AttributeCell
<1>2. st = JsonCell(t, c.v) \/ st = JsonNone(c.v)
  BY <1>1, PutJsonIs
<1>3. /\ JsonCell(t, c.v).decl.t = JsonKind(t, c.v) /\ JsonCell(t, c.v).v = c.v
      /\ JsonNone(c.v).decl.t = "null" /\ JsonNone(c.v).v \in {Null, Gone}
  BY DEF JsonCell, JsonNone, Stored, Type
<1>4. Null.k = "null" /\ Gone.k = "null"
  BY DEF Null, Gone, Lost, Value
<1>5. JsonKind(t, c.v) # "Geom"
  BY <1>1, JsonKindIs
<1> HIDE DEF st
<1> QED BY <1>1, <1>2, <1>3, <1>4, <1>5 DEF st

\* CSV.
LEMMA CsvStores ==
    ASSUME NEW c, NEW t, NEW s, NEW k, NEW n, NEW l, NEW w, AttributeCell(c, t, s, k, n, l, w),
           NEW policy, PutCsv(c, policy).at = "stored"
    PROVE  PutCsv(c, policy).decl.t # "Geom" /\ PutCsv(c, policy).v.k # "geom"
<1> DEFINE st == PutCsv(c, policy)
           kept == Stored(Type("text"), "-", CsvText(c.v))
           none == [kept EXCEPT !.v = Empty]
<1>1. c.v.k = k /\ k # "geom"
  <2>1. k \in Kinds(t) \cup {"null"} /\ t \in AttributeTypes
    BY DEF AttributeCell
  <2> QED BY <2>1, KindsAre DEF AttributeCell
<1>2. st \in {kept, none, WriteError, LeftOut}
  BY DEF PutCsv, OnLoss
<1>3. WriteError.at # "stored" /\ LeftOut.at # "stored"
  BY DEF WriteError, LeftOut, Stored
<1>4. kept.decl.t = "text" /\ none.decl.t = "text" /\ kept.v = CsvText(c.v) /\ none.v = Empty
  BY DEF Stored, Type
<1>5. Empty.k = "text" /\ CsvText(c.v) \in {Empty, c.v}
  BY DEF Empty, Lost, Value, CsvText
<1>6. st \in {kept, none}
  <2>1. st.at = "stored"
    OBVIOUS
  <2> HIDE DEF st, kept, none
  <2> QED BY <1>2, <1>3, <2>1
<1> HIDE DEF st, kept, none
<1> QED BY <1>1, <1>4, <1>5, <1>6 DEF st

\* What a driver has stored of an attribute its own reader takes, keeps or is
\* known to lose; what it has read it stores and reads as it was.
THEOREM AttributeCarries ==
    ASSUME NEW c, ArrowCell(c), c.type.t \in AttributeTypes, NEW d \in Drivers, NEW bulk \in BOOLEAN,
           NEW policy, NEW view
    PROVE  LET st == Put(d, c, bulk, policy) IN
           /\ st.at = "stored" => st.decl.t # "Geom" /\ ~IsGeom(st) /\ Comes(d, c, policy, Get(d, st, view), view)
           /\ SettledAttribute(d, c, policy, view) => Stays(d, c, st, Get(d, st, view))
           /\ ~IsGeom(c)
<1>1. PICK t, s, k, n, l, w : AttributeCell(c, t, s, k, n, l, w)
  <2>1. AttributeCell(c, c.type.t, c.type.s, c.v.k, c.v.n, c.v.lost, c.w)
    <3>1. c.type.t # "Geom"
      BY KindsAre
    <3>2. c.v = [k |-> c.v.k, n |-> c.v.n, lost |-> c.v.lost]
      BY DEF ArrowCell
    <3> QED BY <3>1, <3>2 DEF ArrowCell, AttributeCell
  <2> QED BY <2>1
<1>2. c.type.t # "Geom" /\ ~IsGeom(c)
  <2>1. c.v.k \in Kinds(c.type.t) \cup {"null"}
    BY DEF ArrowCell
  <2> QED BY <2>1, KindsAre DEF IsGeom
<1> DEFINE st == Put(d, c, bulk, policy)
<1> SUFFICES /\ st.at = "stored" => st.decl.t # "Geom" /\ st.v.k # "geom" /\ Comes(d, c, policy, Get(d, st, view), view)
             /\ SettledAttribute(d, c, policy, view) => Stays(d, c, st, Get(d, st, view))
  BY <1>2 DEF IsGeom
<1>3. ASSUME st.at = "stored" => st.decl.t # "Geom" /\ st.v.k # "geom", NEW r,
             st.decl.t # "Geom" => Get(d, st, view) = r,
             st.at = "stored" => Comes(d, c, policy, r, view),
             SettledAttribute(d, c, policy, view) => Stays(d, c, st, r)
      PROVE  /\ st.at = "stored" => st.decl.t # "Geom" /\ st.v.k # "geom" /\ Comes(d, c, policy, Get(d, st, view), view)
             /\ SettledAttribute(d, c, policy, view) => Stays(d, c, st, Get(d, st, view))
  <2>1. ASSUME SettledAttribute(d, c, policy, view) PROVE st.at = "stored"
    BY <1>3, <2>1 DEF Stays
  <2> HIDE DEF st
  <2> QED BY <1>3, <2>1
<1>4. CASE d = "postgis"
  <2>1. st = PutPg(c) /\ (st.decl.t # "Geom" => Get(d, st, view) = GetPg(st))
    BY <1>2, <1>4 DEF Put, Get
  <2> HIDE DEF st
  <2> QED BY <1>1, <1>3, <1>4, <2>1, PgCarries, PgStores
<1>5. CASE d = "sqlserver"
  <2>1. st = PutMs(c, bulk) /\ (st.decl.t # "Geom" => Get(d, st, view) = GetMs(st))
    BY <1>2, <1>5 DEF Put, Get
  <2> HIDE DEF st
  <2> QED BY <1>1, <1>3, <1>5, <2>1, MsCarries, MsStores
<1>6. CASE d \in {"gpkg", "spatialite"}
  <2>1. st = PutSqlite(c, policy) /\ (st.decl.t # "Geom" => Get(d, st, view) = GetSqlite(st))
    BY <1>2, <1>6 DEF Put, Get
  <2> HIDE DEF st
  <2> QED BY <1>1, <1>3, <1>6, <2>1, SqCarries, SqStores
<1>7. CASE d = "fgb"
  <2>1. st = PutFgb(c, policy) /\ (st.decl.t # "Geom" => Get(d, st, view) = GetFgb(st, view))
    BY <1>2, <1>7 DEF Put, Get
  <2> HIDE DEF st
  <2> QED BY <1>1, <1>3, <1>7, <2>1, FgbCarries, FgbStores
<1>8. CASE d = "shp"
  <2>1. st = PutShp(c, policy) /\ (st.decl.t # "Geom" => Get(d, st, view) = GetShp(st))
    BY <1>2, <1>8 DEF Put, Get
  <2> HIDE DEF st
  <2> QED BY <1>1, <1>3, <1>8, <2>1, ShpCarries, ShpStores
<1>9. CASE d = "csv"
  <2>1. st = PutCsv(c, policy) /\ (st.decl.t # "Geom" => Get(d, st, view) = GetCsv(st))
    BY <1>2, <1>9 DEF Put, Get
  <2> HIDE DEF st
  <2> QED BY <1>1, <1>3, <1>9, <2>1, CsvCarries, CsvStores
<1>10. CASE d = "geojson"
  <2>1. st = PutGeoJson(c, policy) /\ (st.decl.t # "Geom" => Get(d, st, view) = GetGeoJson(st))
    BY <1>2, <1>10 DEF Put, Get
  <2> HIDE DEF st
  <2> QED BY <1>1, <1>3, <1>10, <2>1, JsonCarries, JsonStores
<1>11. CASE d = "parquet"
  <2>1. st = PutParquet(c) /\ (st.decl.t # "Geom" => Get(d, st, view) = GetParquet(st))
    BY <1>2, <1>11 DEF Put, Get
  <2>2. PutParquet(c).decl = c.type /\ PutParquet(c).v = c.v
    BY DEF PutParquet, Stored
  <2>3. c.v.k # "geom"
    BY <1>2 DEF IsGeom
  <2> HIDE DEF st
  <2> QED BY <1>1, <1>2, <1>3, <1>11, <2>1, <2>2, <2>3, ParquetCarries
<1> QED BY <1>4, <1>5, <1>6, <1>7, <1>8, <1>9, <1>10, <1>11 DEF Drivers

----------------------------------------------------------------------------
(* Geometries: cells, columns and readers.                                 *)

FormOf(d) == IF d = "csv" THEN "wkt" ELSE "json"

\* A geometry in a column of a file or table, and what a reader makes of it.
Geometric(st, s, w) ==
    \E l \in BOOLEAN : st = [at |-> "stored", decl |-> [t |-> "Geom", s |-> s], as |-> "-",
                             v |-> [k |-> "geom", n |-> 0, lost |-> l], w |-> w]

GeomOf(s, w) == IF w = NoBytes THEN ReadError ELSE GeomCell(s, w)

ReadOf(d, s, w) ==
    IF d = "csv" /\ w = <<>> THEN Arrow([t |-> "Geom", s |-> 0], Gone)
    ELSE CASE d = "postgis"    -> TypeOfRow(StripSrid(w))
           [] d = "sqlserver"  -> TypeOfRow(w)
           [] d = "gpkg"       -> GeomOf(s, DecodeGpkg(w))
           [] d = "spatialite" -> GeomOf(s, DecodeSpatialite(w))
           [] d \in {"csv", "geojson"} -> Parsed(DecodeText(FormOf(d), w))
           [] OTHER            -> GeomOf(s, w)

\* What a reader makes a geometry cell of: d reads the geometry g in a column of
\* the type s as it is now.
Settles(d, s, g) ==
    /\ d \in {"postgis", "sqlserver", "gpkg", "fgb", "shp"} => g # Refused
    /\ d \in {"postgis", "sqlserver", "fgb", "csv", "geojson"} => s = g.ty
    /\ d = "sqlserver" => 0 \notin Coords(g)
    /\ d = "spatialite" => HasMbr(g) /\ s \in {0, g.ty}
    /\ d = "shp" => ShapeWritable(g) /\ s # 0 /\ ShapeType(g.ty) = s /\ ThroughShape(g) = g
    /\ d \in {"csv", "geojson"} => g \in Geoms(FormOf(d))

SettledGeom(d, c) ==
    IF c.v.k = "null" THEN d \notin {"fgb", "shp"} /\ (d \in Probed => c.type.s = 0)
    ELSE Settles(d, c.type.s, DecodeWkb(c.w))

\* A geometry cell, spelled out, and one without a geometry.
Shaped(c, s) ==
    /\ s \in Nat
    /\ \E l \in BOOLEAN, w \in Input : c = [at |-> "arrow", type |-> [t |-> "Geom", s |-> s],
                                            v |-> [k |-> "geom", n |-> 0, lost |-> l], w |-> w]
Shapeless(c, s) ==
    /\ s \in Nat
    /\ \E l \in BOOLEAN, w \in Input : c = [at |-> "arrow", type |-> [t |-> "Geom", s |-> s],
                                            v |-> [k |-> "null", n |-> 0, lost |-> l], w |-> w]

\* A geometry column holds geometries.
LEMMA GeomKinds == Kinds("Geom") = {"geom"}
BY DEF Kinds, Ints, Floats, Dates, Times, Naive, Zoned, Decimals

\* A geometry in a column, and with other bytes.
LEMMA GeometricIs ==
    ASSUME NEW st, NEW s, NEW w, Geometric(st, s, w)
    PROVE  /\ st.at = "stored" /\ st.decl = [t |-> "Geom", s |-> s] /\ st.decl.t = "Geom" /\ st.decl.s = s
           /\ st.v.k = "geom" /\ IsGeom(st) /\ st.w = w
<1>1. PICK l \in BOOLEAN : st = [at |-> "stored", decl |-> [t |-> "Geom", s |-> s], as |-> "-",
                                 v |-> [k |-> "geom", n |-> 0, lost |-> l], w |-> w]
  BY DEF Geometric
<1> QED BY <1>1 DEF IsGeom

\* Its bytes, for those who need no more,
LEMMA GeometricBytes ==
    ASSUME NEW st, NEW s, NEW w, Geometric(st, s, w)
    PROVE  st.w = w
BY DEF Geometric

\* and it is one with other bytes too.
LEMMA GeometricAgain ==
    ASSUME NEW st, NEW s, NEW w, Geometric(st, s, w), NEW u
    PROVE  Geometric([st EXCEPT !.w = u], s, u)
<1>1. PICK l \in BOOLEAN : st = [at |-> "stored", decl |-> [t |-> "Geom", s |-> s], as |-> "-",
                                 v |-> [k |-> "geom", n |-> 0, lost |-> l], w |-> w]
  BY DEF Geometric
<1>2. [st EXCEPT !.w = u] = [at |-> "stored", decl |-> [t |-> "Geom", s |-> s], as |-> "-",
                             v |-> [k |-> "geom", n |-> 0, lost |-> l], w |-> u]
  BY <1>1
<1> QED BY <1>1, <1>2 DEF Geometric

\* What a reader makes of it depends on the declared type and the bytes only.
LEMMA GetGeomIs ==
    ASSUME NEW view, NEW st, NEW s, NEW w, Geometric(st, s, w), NEW d
    PROVE  Get(d, st, view) = ReadOf(d, s, w)
<1>1. /\ st.decl = [t |-> "Geom", s |-> s] /\ st.decl.t = "Geom" /\ st.decl.s = s
      /\ st.v.k = "geom" /\ st.w = w
  BY GeometricIs
<1>2. Get(d, st, view) = GetGeom(d, st)
  BY <1>1 DEF Get
<1>3. \A x : Declared(st, x) = GeomOf(s, x)
  BY <1>1 DEF Declared, GeomOf
<1>4. CASE d = "csv" /\ w = <<>>
  <2>1. [st.decl EXCEPT !.s = 0] = [t |-> "Geom", s |-> 0]
    BY <1>1
  <2>2. GetGeom(d, st) = Arrow([st.decl EXCEPT !.s = 0], Gone)
    BY <1>1, <1>4 DEF GetGeom, Probed
  <2> QED BY <1>2, <1>4, <2>1, <2>2 DEF ReadOf
<1>5. CASE ~(d = "csv" /\ w = <<>>)
  <2>1. GetGeom(d, st) = CASE d = "postgis"    -> TypeOfRow(StripSrid(w))
                           [] d = "sqlserver"  -> TypeOfRow(w)
                           [] d = "gpkg"       -> Declared(st, DecodeGpkg(w))
                           [] d = "spatialite" -> Declared(st, DecodeSpatialite(w))
                           [] d \in {"csv", "geojson"} -> Parsed(DecodeText(FormOf(d), w))
                           [] OTHER            -> Declared(st, w)
    BY <1>1, <1>5 DEF GetGeom, FormOf
  <2> QED BY <1>2, <1>3, <1>5, <2>1 DEF ReadOf
<1> QED BY <1>4, <1>5

\* What a geometry column holds to begin with.
LEMMA ColumnIs ==
    ASSUME NEW ty, NEW w
    PROVE  Geometric(InColumn(ty, w), ty, w)
<1>1. PICK no \in BOOLEAN : no = FALSE
  OBVIOUS
<1>2. Value("geom", 0) = [k |-> "geom", n |-> 0, lost |-> no]
  BY <1>1 DEF Value
<1>3. \A d, v : [Stored(d, "-", v) EXCEPT !.w = w] = [at |-> "stored", decl |-> d, as |-> "-", v |-> v, w |-> w]
  BY DEF Stored
<1>4. InColumn(ty, w) = [at |-> "stored", decl |-> [t |-> "Geom", s |-> ty], as |-> "-", v |-> Value("geom", 0), w |-> w]
  BY <1>3 DEF InColumn
<1> QED BY <1>2, <1>4 DEF Geometric

\* A geometry cell, taken apart.
LEMMA ShapedIs ==
    ASSUME NEW c, NEW s, Shaped(c, s)
    PROVE  /\ c.at = "arrow" /\ c.type = [t |-> "Geom", s |-> s] /\ c.type.t = "Geom" /\ c.type.s = s
           /\ c.v.k = "geom" /\ c.v.n = 0 /\ IsGeom(c)
           /\ s \in Nat /\ c.w \in Input
<1>1. PICK l \in BOOLEAN, w \in Input : c = [at |-> "arrow", type |-> [t |-> "Geom", s |-> s],
                                v |-> [k |-> "geom", n |-> 0, lost |-> l], w |-> w]
  BY DEF Shaped
<1> QED BY <1>1 DEF IsGeom, Shaped

\* What StoredGeom stores.
LEMMA StoredShape ==
    ASSUME NEW c, NEW s, Shaped(c, s), NEW x
    PROVE  Geometric(StoredGeom(c, x), s, x)
<1>1. PICK l \in BOOLEAN, w \in Input : c = [at |-> "arrow", type |-> [t |-> "Geom", s |-> s],
                                v |-> [k |-> "geom", n |-> 0, lost |-> l], w |-> w]
  BY DEF Shaped
<1>2. StoredGeom(c, x) = [at |-> "stored", decl |-> [t |-> "Geom", s |-> s], as |-> "-",
                          v |-> [k |-> "geom", n |-> 0, lost |-> l], w |-> x]
  BY <1>1 DEF StoredGeom, Stored
<1> QED BY <1>2 DEF Geometric

\* The cells of a reader.
LEMMA GeomCellIs ==
    ASSUME NEW s \in Nat, NEW w \in Input
    PROVE  /\ Shaped(GeomCell(s, w), s) /\ GeomCell(s, w).w = w /\ ArrowCell(GeomCell(s, w)) /\ ~GeomCell(s, w).v.lost
<1>1. PICK no \in BOOLEAN : no = FALSE
  OBVIOUS
<1> DEFINE c == GeomCell(s, w)
           v == [k |-> "geom", n |-> 0, lost |-> no]
<1>2. c = [at |-> "arrow", type |-> [t |-> "Geom", s |-> s], v |-> v, w |-> w]
  <2>1. Value("geom", 0) = v
    BY <1>1 DEF Value
  <2>2. \A ty, x : [Arrow(ty, x) EXCEPT !.w = w] = [at |-> "arrow", type |-> ty, v |-> x, w |-> w]
    BY DEF Arrow
  <2>3. c = [Arrow([t |-> "Geom", s |-> s], Value("geom", 0)) EXCEPT !.w = w]
    BY DEF GeomCell
  <2> HIDE DEF c, v
  <2> QED BY <2>1, <2>2, <2>3
<1> HIDE DEF c
<1>3. /\ c.at = "arrow" /\ c.type.t = "Geom" /\ c.type.s = s /\ c.w = w
      /\ c.v = v /\ c.v.k = "geom" /\ c.v.n = 0 /\ c.v.lost = no
  BY <1>2
<1>4. Kinds("Geom") = {"geom"}
  BY GeomKinds
<1>5. "Geom" \notin Ints \cup Floats \cup Decimals
  BY DEF Ints, Floats, Decimals
<1>6. Fits("Geom", v)
  BY <1>5 DEF Fits
<1>7. ArrowCell(c)
  BY <1>2, <1>3, <1>4, <1>6 DEF ArrowCell
<1>8. Shaped(c, s)
  BY <1>2 DEF Shaped
<1> QED BY <1>1, <1>3, <1>7, <1>8 DEF c

\* A null in a geometry column is a cell.
LEMMA NullCellIs ==
    ASSUME NEW s \in Nat, NEW v \in {Null, Gone}
    PROVE  LET c == Arrow([t |-> "Geom", s |-> s], v) IN Shapeless(c, s) /\ ArrowCell(c)
<1> DEFINE c == Arrow([t |-> "Geom", s |-> s], v)
<1>1. PICK l \in BOOLEAN : v = [k |-> "null", n |-> 0, lost |-> l]
  BY DEF Null, Gone, Lost, Value
<1>2. c = [at |-> "arrow", type |-> [t |-> "Geom", s |-> s], v |-> v, w |-> <<>>]
  BY DEF Arrow
<1>3. <<>> \in Input
  BY InputIs
<1> HIDE DEF c
<1>4. /\ c.at = "arrow" /\ c.type.t = "Geom" /\ c.type.s = s /\ c.w = <<>>
      /\ c.v = v /\ c.v.k = "null" /\ c.v.n = 0 /\ c.v.lost = l
  BY <1>1, <1>2
<1>5. "Geom" \notin Ints \cup Floats \cup Decimals
  BY DEF Ints, Floats, Decimals
<1>6. Fits("Geom", v)
  BY <1>1, <1>5 DEF Fits
<1>7. ArrowCell(c)
  BY <1>1, <1>2, <1>3, <1>4, <1>6 DEF ArrowCell
<1>8. Shapeless(c, s)
  BY <1>1, <1>2, <1>3 DEF Shapeless
<1> QED BY <1>7, <1>8 DEF c

\* Every geometry cell is of one of the two kinds.
LEMMA GeomCells ==
    ASSUME NEW c, ArrowCell(c), c.type.t = "Geom"
    PROVE  \/ c.v.k = "geom" /\ Shaped(c, c.type.s)
           \/ c.v.k = "null" /\ Shapeless(c, c.type.s)
<1>1. /\ c.type.s \in Nat /\ c.v.k \in {"geom", "null"} /\ c.v.lost \in BOOLEAN /\ c.w \in Input
      /\ c.v.k = "geom" => c.v.n = 0
      /\ c = [at |-> "arrow", type |-> [t |-> c.type.t, s |-> c.type.s],
              v |-> [k |-> c.v.k, n |-> c.v.n, lost |-> c.v.lost], w |-> c.w]
  <2>1. Kinds("Geom") = {"geom"}
    BY GeomKinds
  <2> QED BY <2>1 DEF ArrowCell
<1>2. c.v.k = "null" => c.v.n = 0
  BY DEF ArrowCell, Fits
<1> QED BY <1>1, <1>2 DEF Shaped, Shapeless

Damageable == {"gpkg", "spatialite", "geojson", "csv"}

\* What a reader yields of the cell that was written of c,
Brings(d, c, r) ==
    /\ r.at \in {"arrow", "unreadable"}
    /\ r.at = "unreadable" => KnownUnreadable(d, c)
    /\ r.at = "arrow" => /\ ArrowCell(r) /\ r.type.t = "Geom" /\ SettledGeom(d, r)
                         /\ Exact(c, r) \/ GeomChanged(d, DecodeWkb(c.w))

\* of one that this driver had read,
Keeps(c, r) == r.at = "arrow" /\ r.type = c.type /\ Exact(c, r)

\* and of one that is damaged.
Noticed(d, c, r, u) ==
    /\ r.at \in {"arrow", "unreadable"}
    /\ r.at = "arrow" => /\ ArrowCell(r)
                         /\ \/ DecodeWkb(r.w) \in {Refused, DecodeWkb(c.w)}
                            \/ r.v = Gone /\ d = "csv" /\ u = <<>>
Notices(d, c, s, w) ==
    d \in Damageable => \A u \in Input : Differ(w, u) => Noticed(d, c, ReadOf(d, s, u), u)

Holds(d, c, st, s, w) ==
    /\ s \in Nat /\ w \in Input /\ Geometric(st, s, w)
    /\ Brings(d, c, ReadOf(d, s, w)) /\ Notices(d, c, s, w)
Emptied(d, c, st) == st = Stored(c.type, "-", Gone) /\ d = "spatialite" /\ GeomChanged(d, DecodeWkb(c.w))
KeepsIn(d, c, st, s, w) == Geometric(st, s, w) /\ Keeps(c, ReadOf(d, s, w))

\* A geometry is written, refused or left out; one that this driver had read is
\* written and comes back.
Outcome(d, c, st) ==
    /\ \/ st.at = "refused"
       \/ Emptied(d, c, st)
       \/ \E s, w : Holds(d, c, st, s, w)
    /\ SettledGeom(d, c) => \E s, w : KeepsIn(d, c, st, s, w)

\* What is refused is no geometry.
LEMMA RefusedIs ==
    /\ WriteError.at = "refused" /\ ReadError.at = "unreadable"
    /\ Refused \notin Geoms("bin")
    /\ ~HasMbr(Refused) /\ ~ShapeWritable(Refused)
<1>1. WriteError.at = "refused" /\ ReadError.at = "unreadable"
  BY DEF WriteError, ReadError, Stored, Arrow
<1>2. Coords(Refused) = {}
  <2>1. Refused.parts = <<>>
    BY DEF Refused
  <2>2. DOMAIN <<>> = {}
    OBVIOUS
  <2>3. ASSUME NEW x \in Coords(Refused) PROVE FALSE
    <3>1. \E p \in DOMAIN Refused.parts : TRUE
      BY <2>3, CoordsAre
    <3> QED BY <2>1, <2>2, <3>1
  <2> QED BY <2>3
<1> QED BY <1>1, <1>2, WkbRoundTrip DEF HasMbr, ShapeWritable

\* A cell whose WKB means what it did, or what the driver is known to make of it,
\* is brought.
LEMMA BringsGeom ==
    ASSUME NEW d, NEW c, NEW s, Shaped(c, s), NEW e \in Nat, NEW y \in Input,
           Settles(d, e, DecodeWkb(y)), DecodeWkb(y) = DecodeWkb(c.w) \/ GeomChanged(d, DecodeWkb(c.w))
    PROVE  /\ Brings(d, c, GeomCell(e, y))
           /\ DecodeWkb(y) = DecodeWkb(c.w) /\ e = s => Keeps(c, GeomCell(e, y))
<1> DEFINE r == GeomCell(e, y)
<1>1. /\ r.at = "arrow" /\ r.type = [t |-> "Geom", s |-> e] /\ r.type.t = "Geom" /\ r.type.s = e
      /\ r.v.k = "geom" /\ r.v.n = 0 /\ r.w = y /\ ArrowCell(r) /\ ~r.v.lost
  <2>1. Shaped(r, e) /\ r.w = y
    BY GeomCellIs
  <2> HIDE DEF r
  <2>2. ArrowCell(r) /\ ~r.v.lost
    BY GeomCellIs DEF r
  <2> QED BY <2>1, <2>2, ShapedIs
<1>2. /\ c.type = [t |-> "Geom", s |-> s] /\ c.v.k = "geom" /\ c.v.n = 0 /\ IsGeom(c)
  BY ShapedIs
<1> HIDE DEF r
<1>3. SettledGeom(d, r)
  BY <1>1 DEF SettledGeom
<1>4. DecodeWkb(y) = DecodeWkb(c.w) => Exact(c, r)
  BY <1>1, <1>2 DEF Exact
<1>5. Brings(d, c, r)
  BY <1>1, <1>3, <1>4 DEF Brings
<1>6. DecodeWkb(y) = DecodeWkb(c.w) /\ e = s => Keeps(c, r)
  BY <1>1, <1>2, <1>4 DEF Keeps
<1> QED BY <1>5, <1>6 DEF r

\* A writer that stores what its reader reads as the same geometry,
LEMMA Delivered ==
    ASSUME NEW d, NEW c, NEW s, Shaped(c, s),
           NEW st, NEW a \in Nat, NEW x \in Input, Geometric(st, a, x),
           NEW e \in Nat, NEW y \in Input, ReadOf(d, a, x) = GeomCell(e, y),
           Settles(d, e, DecodeWkb(y)), DecodeWkb(y) = DecodeWkb(c.w) \/ GeomChanged(d, DecodeWkb(c.w)),
           Settles(d, s, DecodeWkb(c.w)) => DecodeWkb(y) = DecodeWkb(c.w) /\ e = s,
           Notices(d, c, a, x)
    PROVE  Outcome(d, c, st)
<1>1. /\ Brings(d, c, GeomCell(e, y))
      /\ DecodeWkb(y) = DecodeWkb(c.w) /\ e = s => Keeps(c, GeomCell(e, y))
  BY BringsGeom
<1>2. Holds(d, c, st, a, x)
  BY <1>1 DEF Holds
<1>3. SettledGeom(d, c) => Settles(d, s, DecodeWkb(c.w))
  <2>1. c.v.k = "geom" /\ c.type.s = s
    BY ShapedIs
  <2> QED BY <2>1 DEF SettledGeom
<1>4. SettledGeom(d, c) => KeepsIn(d, c, st, a, x)
  BY <1>1, <1>3 DEF KeepsIn
<1> QED BY <1>2, <1>4 DEF Outcome

\* and one that refuses the cell or empties it.
LEMMA Declined ==
    ASSUME NEW d, NEW c, NEW s, Shaped(c, s), NEW st, ~Settles(d, s, DecodeWkb(c.w)),
           st = WriteError \/ Emptied(d, c, st)
    PROVE  Outcome(d, c, st)
<1>1. c.v.k = "geom" /\ c.type.s = s
  BY ShapedIs
<1>2. ~SettledGeom(d, c)
  BY <1>1 DEF SettledGeom
<1> QED BY <1>2, RefusedIs DEF Outcome

\* The WKB of a geometry.
LEMMA WkbOf ==
    ASSUME NEW o \in Orders, NEW g \in Geoms("bin")
    PROVE  /\ WkbIn(o, g) \in Input /\ DecodeWkb(WkbIn(o, g)) = g
           /\ TypeOfRow(WkbIn(o, g)) = GeomCell(g.ty, WkbIn(o, g))
           /\ g.ty \in Nat /\ g # Refused
           /\ \A srid \in Nat : /\ EncodeEwkb(WkbIn(o, g), srid) \in Input
                                /\ EncodeEwkb(WkbIn(o, g), srid) # NoBytes
                                /\ StripSrid(EncodeEwkb(WkbIn(o, g), srid)) = WkbIn(o, g)
<1> DEFINE e == ShapeBody(o, g, OrderByte(o))
           w == WkbIn(o, g)
<1>1. e \in Input /\ w = WkbStart(o, g.ty) \o e
  BY WkbStarts
<1>2. g.ty \in 1..6 /\ g.ty \in Nat
  BY GeomsAre
<1>3. w \in Input /\ DecodeWkb(w) = g
  BY WkbRoundTrip
<1>4. g # Refused
  BY WkbRoundTrip
<1> HIDE DEF e, w
<1>5. WkbHeader(w) = Got(e, <<o, g.ty>>)
  BY <1>1, <1>2, HeaderIs
<1>6. TypeOfRow(w) = GeomCell(g.ty, w)
  <2>1. WkbHeader(w).ok /\ WkbHeader(w).out = <<o, g.ty>>
    BY <1>5, GotIs
  <2>2. <<o, g.ty>>[2] = g.ty
    OBVIOUS
  <2> QED BY <2>1, <2>2 DEF TypeOfRow
<1>7. \A srid \in Nat : /\ EncodeEwkb(w, srid) \in Input
                        /\ EncodeEwkb(w, srid) # NoBytes
                        /\ StripSrid(EncodeEwkb(w, srid)) = w
  BY <1>1, <1>2, EwkbRoundTrip
<1> QED BY <1>2, <1>3, <1>4, <1>6, <1>7 DEF w

----------------------------------------------------------------------------
(* Geometries, driver by driver.                                           *)

\* encode_geometry and STGeomFromEWKB: PostGIS.
LEMMA PostgisOutcome ==
    ASSUME NEW c, NEW s, Shaped(c, s)
    PROVE  Outcome("postgis", c, PutPostgis(c, DecodeWkb(c.w)))
<1> DEFINE d == "postgis"
           g == DecodeWkb(c.w)
           st == PutPostgis(c, g)
           y == EncodeWkb(g)
           x == EncodeEwkb(y, Srid)
<1>1. c.type.s = s /\ s \in Nat /\ c.w \in Input
  BY ShapedIs
<1>2. Srid \in Nat /\ "LE" \in Orders
  BY DEF Srid, Orders
<1>3. CASE g # Refused /\ s \in {0, g.ty}
  <2>1. g \in Geoms("bin")
    BY <1>1, <1>3, WkbRoundTrip
  <2>2. y \in Input /\ DecodeWkb(y) = g /\ TypeOfRow(y) = GeomCell(g.ty, y) /\ g.ty \in Nat
        /\ x \in Input /\ StripSrid(x) = y
    BY <1>2, <2>1, WkbOf DEF EncodeWkb
  <2>3. EncodeEwkb(c.w, Srid) # NoBytes
    BY <1>1, <1>2, <1>3, EwkbTaken
  <2>4. st = StoredGeom(c, x)
    BY <1>1, <1>3, <2>3 DEF PutPostgis, Takes
  <2>5. Geometric(StoredGeom(c, x), s, x)
    BY StoredShape
  <2> HIDE DEF x, y, g, st
  <2>6. ReadOf(d, s, x) = GeomCell(g.ty, y)
    BY <2>2 DEF ReadOf
  <2>7. Settles(d, g.ty, g)
    BY <1>3 DEF Settles
  <2>8. Settles(d, s, g) => g.ty = s
    BY DEF Settles
  <2>9. Notices(d, c, s, x)
    BY DEF Notices, Damageable
  <2>10. Outcome(d, c, st)
    BY <1>1, <2>2, <2>4, <2>5, <2>6, <2>7, <2>8, <2>9, Delivered DEF g
  <2> QED BY <2>10 DEF st, g
<1>4. CASE ~(g # Refused /\ s \in {0, g.ty})
  <2>1. st = WriteError
    BY <1>1, <1>4 DEF PutPostgis, Takes
  <2>2. ~Settles(d, s, g)
    BY <1>4 DEF Settles
  <2> HIDE DEF st, g
  <2>3. Outcome(d, c, st)
    BY <2>1, <2>2, Declined DEF g
  <2> QED BY <2>3 DEF st, g
<1> QED BY <1>3, <1>4

\* STGeomFromWKB: SQL Server.
LEMMA SqlServerOutcome ==
    ASSUME NEW c, NEW s, Shaped(c, s)
    PROVE  Outcome("sqlserver", c, PutSqlServer(c, DecodeWkb(c.w)))
<1> DEFINE d == "sqlserver"
           g == DecodeWkb(c.w)
           st == PutSqlServer(c, g)
           y == EncodeWkb(g)
<1>1. c.type.s = s /\ s \in Nat /\ c.w \in Input
  BY ShapedIs
<1>2. "LE" \in Orders
  BY DEF Orders
<1>3. CASE g # Refused /\ 0 \notin Coords(g)
  <2>1. g \in Geoms("bin")
    BY <1>1, <1>3, WkbRoundTrip
  <2>2. y \in Input /\ DecodeWkb(y) = g /\ TypeOfRow(y) = GeomCell(g.ty, y) /\ g.ty \in Nat
    BY <1>2, <2>1, WkbOf DEF EncodeWkb
  <2>4. st = StoredGeom(c, y)
    BY <1>3 DEF PutSqlServer
  <2>5. Geometric(StoredGeom(c, y), s, y)
    BY StoredShape
  <2> HIDE DEF y, g, st
  <2>6. ReadOf(d, s, y) = GeomCell(g.ty, y)
    BY <2>2 DEF ReadOf
  <2>7. Settles(d, g.ty, g)
    BY <1>3 DEF Settles
  <2>8. Settles(d, s, g) => g.ty = s
    BY DEF Settles
  <2>9. Notices(d, c, s, y)
    BY DEF Notices, Damageable
  <2>10. Outcome(d, c, st)
    BY <1>1, <2>2, <2>4, <2>5, <2>6, <2>7, <2>8, <2>9, Delivered DEF g
  <2> QED BY <2>10 DEF st, g
<1>4. CASE ~(g # Refused /\ 0 \notin Coords(g))
  <2>1. st = WriteError
    BY <1>4 DEF PutSqlServer
  <2>2. ~Settles(d, s, g)
    BY <1>4 DEF Settles
  <2> HIDE DEF st, g
  <2>3. Outcome(d, c, st)
    BY <2>1, <2>2, Declined DEF g
  <2> QED BY <2>3 DEF st, g
<1> QED BY <1>3, <1>4

\* gpkg_blob.
LEMMA GpkgOutcome ==
    ASSUME NEW c, NEW s, Shaped(c, s)
    PROVE  Outcome("gpkg", c, PutGpkg(c, DecodeWkb(c.w)))
<1> DEFINE d == "gpkg"
           w == c.w
           g == DecodeWkb(w)
           st == PutGpkg(c, g)
           x == EncodeGpkg(w, Srid)
<1>1. c.type.s = s /\ s \in Nat /\ w \in Input
  BY ShapedIs
<1>2. Srid \in Nat /\ "LE" \in Orders /\ 0 \in 0..4
  BY DEF Srid, Orders
<1>3. CASE g # Refused
  <2>1. x \in Input /\ DecodeGpkg(x) = w
    BY <1>1, <1>2, GpkgRoundTrip DEF EncodeGpkg
  <2>2. w # NoBytes
    BY <1>1, NoBytesIs
  <2>4. st = StoredGeom(c, x)
    BY <1>3 DEF PutGpkg
  <2>5. Geometric(StoredGeom(c, x), s, x)
    BY StoredShape
  <2>6. ASSUME NEW u \in Input, Differ(x, u) PROVE Noticed(d, c, ReadOf(d, s, u), u)
    <3> DEFINE z == DecodeGpkg(u)
    <3>1. z = NoBytes \/ (z \in Input /\ Differ(w, z))
      BY <1>1, <1>2, <2>6, GpkgDamageSeen
    <3>2. z # NoBytes => DecodeWkb(z) = Refused
      <4> HIDE DEF z, w
      <4> SUFFICES ASSUME z # NoBytes PROVE DecodeWkb(z) = Refused
        OBVIOUS
      <4>1. z \in Input /\ Differ(w, z) /\ w \in Input /\ DecodeWkb(w) # Refused
        BY <1>1, <1>3, <3>1
      <4> QED BY ONLY <4>1, WkbDamageSeen
    <3>3. ReadOf(d, s, u) = IF z = NoBytes THEN ReadError ELSE GeomCell(s, z)
      BY DEF ReadOf, GeomOf
    <3> HIDE DEF z
    <3>4. CASE z = NoBytes
      BY <3>3, <3>4, RefusedIs DEF Noticed
    <3>5. CASE z # NoBytes
      <4>1. z \in Input
        BY <3>1, <3>5
      <4>2. ArrowCell(GeomCell(s, z)) /\ GeomCell(s, z).w = z
        BY <1>1, <4>1, GeomCellIs
      <4>3. GeomCell(s, z).at = "arrow"
        BY <4>2 DEF ArrowCell
      <4> QED BY <3>2, <3>3, <3>5, <4>2, <4>3 DEF Noticed
    <3> QED BY <3>4, <3>5
  <2>7. Notices(d, c, s, x)
    BY <2>6 DEF Notices
  <2> HIDE DEF x, g, st
  <2>8. ReadOf(d, s, x) = GeomCell(s, w)
    BY <2>1, <2>2 DEF ReadOf, GeomOf
  <2>9. Settles(d, s, g)
    BY <1>3 DEF Settles
  <2>10. Outcome(d, c, st)
    BY <1>1, <2>1, <2>4, <2>5, <2>7, <2>8, <2>9, Delivered DEF g
  <2> QED BY <2>10 DEF st, g
<1>4. CASE g = Refused
  <2>1. st = WriteError
    BY <1>4 DEF PutGpkg
  <2>2. ~Settles(d, s, g)
    BY <1>4 DEF Settles
  <2> HIDE DEF st, g
  <2>3. Outcome(d, c, st)
    BY <2>1, <2>2, Declined DEF g
  <2> QED BY <2>3 DEF st, g
<1> QED BY <1>3, <1>4

\* GeomFromWKB: SpatiaLite, whose columns take one type or any.
LEMMA SpatialiteOutcome ==
    ASSUME NEW c, NEW s, Shaped(c, s)
    PROVE  Outcome("spatialite", c, PutSpatialite(c, DecodeWkb(c.w)))
<1> DEFINE d == "spatialite"
           g == DecodeWkb(c.w)
           st == PutSpatialite(c, g)
           y == EncodeWkb(g)
           x == EncodeSpatialite(g, Srid)
<1>1. c.type.s = s /\ s \in Nat /\ c.w \in Input
  BY ShapedIs
<1>2. Srid \in Nat /\ "LE" \in Orders
  BY DEF Srid, Orders
<1>3. CASE HasMbr(g) /\ s \in {0, g.ty}
  <2>0. g # Refused
    BY <1>3, RefusedIs
  <2>1. g \in Geoms("bin")
    BY <1>1, <2>0, WkbRoundTrip
  <2>2. y \in Input /\ DecodeWkb(y) = g
    BY <1>2, <2>1, WkbOf DEF EncodeWkb
  <2>a. x = SpatialiteBlob("LE", g, Srid)
    BY <1>3 DEF EncodeSpatialite
  <2>3. x \in Input /\ DecodeSpatialite(x) = y /\ y # NoBytes
    BY <1>2, <2>1, <2>2, <2>a, SpatialiteRoundTrip, NoBytesIs
  <2>4. st = StoredGeom(c, x)
    BY <1>1, <1>3 DEF PutSpatialite, Takes
  <2>5. Geometric(StoredGeom(c, x), s, x)
    BY StoredShape
  <2>6. ASSUME NEW u \in Input, Differ(x, u) PROVE Noticed(d, c, ReadOf(d, s, u), u)
    <3>1. DecodeSpatialite(u) = NoBytes
      BY <1>2, <2>1, <2>6, <2>a, SpatialiteDamageSeen
    <3>2. ReadOf(d, s, u) = ReadError
      BY <3>1 DEF ReadOf, GeomOf
    <3> QED BY <3>2, RefusedIs DEF Noticed
  <2>7. Notices(d, c, s, x)
    BY <2>6 DEF Notices
  <2> HIDE DEF x, y, g, st
  <2>8. ReadOf(d, s, x) = GeomCell(s, y)
    BY <2>3 DEF ReadOf, GeomOf
  <2>9. Settles(d, s, g)
    BY <1>3 DEF Settles
  <2>10. Outcome(d, c, st)
    BY <1>1, <2>2, <2>3, <2>4, <2>5, <2>7, <2>8, <2>9, Delivered DEF g
  <2> QED BY <2>10 DEF st, g
<1>4. CASE ~(HasMbr(g) /\ s \in {0, g.ty})
  <2>1. \/ st = WriteError
        \/ st = Stored(c.type, "-", Gone) /\ ~HasMbr(g)
    BY <1>1, <1>4 DEF PutSpatialite, Takes
  <2>2. ~Settles(d, s, g)
    BY <1>4 DEF Settles
  <2>3. ~HasMbr(g) => GeomChanged(d, g)
    BY DEF GeomChanged
  <2>4. st = WriteError \/ Emptied(d, c, st)
    BY <2>1, <2>3 DEF Emptied
  <2> HIDE DEF st, g
  <2>5. Outcome(d, c, st)
    BY <2>2, <2>4, Declined DEF g
  <2> QED BY <2>5 DEF st, g
<1> QED BY <1>3, <1>4

\* geozero, which reads a WKB and ignores what is behind it.
LEMMA FlatGeobufOutcome ==
    ASSUME NEW c, NEW s, Shaped(c, s)
    PROVE  Outcome("fgb", c, PutFlatGeobuf(c, ReadGeom(c.w)))
<1> DEFINE d == "fgb"
           w == c.w
           g == DecodeWkb(w)
           r == ReadGeom(w)
           h == r.out
           st == PutFlatGeobuf(c, r)
           y == EncodeWkb(h)
<1>1. c.type.s = s /\ s \in Nat /\ w \in Input
  BY ShapedIs
<1>2. "LE" \in Orders
  BY DEF Orders
<1>a. g # Refused => r.ok /\ h = g
  <2>1. g # Refused => r = Got(<<>>, g)
    BY <1>1, WkbRoundTrip
  <2> HIDE DEF r, g
  <2> QED BY <2>1, GotIs
<1>3. CASE r.ok /\ s = h.ty
  <2>1. h \in Geoms("bin")
    BY <1>1, <1>3, WkbRoundTrip
  <2>2. y \in Input /\ DecodeWkb(y) = h /\ h # Refused
    BY <1>2, <2>1, WkbOf DEF EncodeWkb
  <2>3. y # NoBytes
    BY <2>2, NoBytesIs
  <2>4. st = StoredGeom(c, y)
    BY <1>1, <1>3 DEF PutFlatGeobuf
  <2>5. Geometric(StoredGeom(c, y), s, y)
    BY StoredShape
  <2> HIDE DEF y, g, st, h, r
  <2>6. ReadOf(d, s, y) = GeomCell(s, y)
    BY <2>3 DEF ReadOf, GeomOf
  <2>7. Settles(d, s, h)
    BY <1>3, <2>2 DEF Settles
  <2>8. h = g \/ GeomChanged(d, g)
    BY <1>a DEF GeomChanged
  <2>9. Settles(d, s, g) => h = g
    BY <1>a DEF Settles
  <2>10. Notices(d, c, s, y)
    BY DEF Notices, Damageable
  <2>11. Outcome(d, c, st)
    BY <1>1, <2>2, <2>4, <2>5, <2>6, <2>7, <2>8, <2>9, <2>10, Delivered DEF g
  <2> QED BY <2>11 DEF st, r
<1>4. CASE ~(r.ok /\ s = h.ty)
  <2>1. st = WriteError
    BY <1>1, <1>4 DEF PutFlatGeobuf
  <2> HIDE DEF st, g, h, r
  <2>2. ~Settles(d, s, g)
    BY <1>4, <1>a DEF Settles
  <2>3. Outcome(d, c, st)
    BY <2>1, <2>2, Declined DEF g
  <2> QED BY <2>3 DEF st, r
<1> QED BY <1>3, <1>4

\* geom_to_shp.
LEMMA ShapefileOutcome ==
    ASSUME NEW c, NEW s, Shaped(c, s)
    PROVE  Outcome("shp", c, PutShape(c, DecodeWkb(c.w)))
<1> DEFINE d == "shp"
           w == c.w
           g == DecodeWkb(w)
           h == ThroughShape(g)
           a == ShapeType(s)
           st == PutShape(c, g)
           y == EncodeWkb(h)
<1>1. c.type.s = s /\ s \in Nat /\ w \in Input
  BY ShapedIs
<1>2. "LE" \in Orders
  BY DEF Orders
<1>3. CASE g # Refused /\ ShapeWritable(g) /\ s # 0 /\ ShapeType(g.ty) = a
  <2>1. g \in Geoms("bin") /\ g.ty \in 1..6
    BY <1>1, <1>3, WkbRoundTrip, GeomsAre
  <2>2. /\ h \in Geoms("bin") /\ ThroughShape(h) = h
        /\ g.ty \in {1, 4} => h = g
        /\ g.ty = 2 => h = g
        /\ g.ty = 5 => (h.ty = 2 \/ h = g) /\ (Len(g.parts) # 1 => h = g)
        /\ g.ty = 3 => h = g
        /\ g.ty = 6 => h.ty = 3
        /\ ShapeWritable(h)
    BY <1>3, <2>1, ShapeIs
  <2>3. y \in Input /\ DecodeWkb(y) = h /\ h # Refused
    BY <1>2, <2>2, WkbOf DEF EncodeWkb
  <2>4. y # NoBytes
    BY <2>3, NoBytesIs
  <2>5. st = [StoredGeom(c, y) EXCEPT !.decl.s = a]
    <3>1. st = [StoredGeom(c, y) EXCEPT !.decl.s = ShapeType(@)]
      BY <1>1, <1>3 DEF PutShape
    <3>2. StoredGeom(c, y).decl.s = s
      <4>1. Geometric(StoredGeom(c, y), s, y)
        BY StoredShape
      <4> HIDE DEF st, y
      <4> QED BY ONLY <4>1, GeometricIs
    <3> HIDE DEF st, y
    <3> QED BY <3>1, <3>2
  <2>6. Geometric(st, a, y)
    <3>1. PICK l \in BOOLEAN : StoredGeom(c, y) = [at |-> "stored", decl |-> [t |-> "Geom", s |-> s], as |-> "-",
                                                   v |-> [k |-> "geom", n |-> 0, lost |-> l], w |-> y]
      BY StoredShape DEF Geometric
    <3> HIDE DEF st, y, a
    <3>2. st = [at |-> "stored", decl |-> [t |-> "Geom", s |-> a], as |-> "-",
                v |-> [k |-> "geom", n |-> 0, lost |-> l], w |-> y]
      BY <2>5, <3>1
    <3> QED BY <3>2 DEF Geometric
  <2>7. /\ a \in Nat /\ a # 0 /\ ShapeType(a) = a
        /\ \A ty : ShapeType(ty) = CASE ty = 2 -> 5 [] ty = 3 -> 6 [] OTHER -> ty
    BY <1>1, <1>3 DEF ShapeType
  <2> HIDE DEF y, g, st, h, a
  <2>8. ShapeType(h.ty) = a
    BY <1>3, <2>1, <2>2, <2>7
  <2>9. ReadOf(d, a, y) = GeomCell(a, y)
    BY <2>4 DEF ReadOf, GeomOf
  <2>10. Settles(d, a, h)
    BY <2>2, <2>3, <2>7, <2>8 DEF Settles
  <2>11. h = g \/ GeomChanged(d, g)
    BY <2>1, <2>2, <2>7 DEF GeomChanged
  <2>12. Settles(d, s, g) => h = g /\ a = s
    BY <1>3 DEF Settles, h
  <2>13. Notices(d, c, a, y)
    BY DEF Notices, Damageable
  <2>14. Outcome(d, c, st)
    BY <1>1, <2>3, <2>6, <2>7, <2>9, <2>10, <2>11, <2>12, <2>13, Delivered DEF g
  <2> QED BY <2>14 DEF st, g
<1>4. CASE ~(g # Refused /\ ShapeWritable(g) /\ s # 0 /\ ShapeType(g.ty) = a)
  <2>1. st = WriteError
    BY <1>1, <1>4 DEF PutShape
  <2>2. ShapeType(g.ty) = s => ShapeType(g.ty) = a
    BY DEF ShapeType
  <2> HIDE DEF st, g, a
  <2>3. ~Settles(d, s, g)
    BY <1>4, <2>2 DEF Settles
  <2>4. Outcome(d, c, st)
    BY <2>1, <2>3, Declined DEF g
  <2> QED BY <2>4 DEF st, g
<1> QED BY <1>3, <1>4

\* GeoParquet stores the WKB unread.
LEMMA ParquetOutcome ==
    ASSUME NEW c, NEW s, Shaped(c, s)
    PROVE  Outcome("parquet", c, StoredGeom(c, c.w))
<1> DEFINE d == "parquet"
           w == c.w
           st == StoredGeom(c, w)
<1>1. s \in Nat /\ w \in Input
  BY ShapedIs
<1>2. Geometric(st, s, w)
  BY StoredShape
<1> HIDE DEF st, w
<1>3. w # NoBytes
  BY <1>1, NoBytesIs
<1>4. ReadOf(d, s, w) = GeomCell(s, w)
  BY <1>3 DEF ReadOf, GeomOf
<1>5. Settles(d, s, DecodeWkb(w))
  BY DEF Settles
<1>6. Notices(d, c, s, w)
  BY DEF Notices, Damageable
<1>7. Outcome(d, c, st)
  BY <1>1, <1>2, <1>4, <1>5, <1>6, Delivered DEF w
<1> QED BY <1>7 DEF st, w

\* A text that is not read back has an empty point or, in WKT, an empty list.
LEMMA UnreadableText ==
    ASSUME NEW d \in {"csv", "geojson"}, NEW g \in Geoms("bin"), g \notin Geoms(FormOf(d))
    PROVE  GeomUnreadable(d, g)
<1> DEFINE form == FormOf(d)
<1>1. form \in Forms /\ (form = "wkt" <=> d = "csv")
  BY DEF FormOf, Forms
<1>2. CASE \A p \in DOMAIN g.parts : Full(form, g.parts[p])
  <2>1. form = "wkt" /\ g.parts = <<>>
    BY <1>1, <1>2, FullGeom
  <2> QED BY <1>1, <2>1 DEF GeomUnreadable, HasEmptyList
<1>3. ASSUME NEW p \in DOMAIN g.parts, ~Full(form, g.parts[p]) PROVE GeomUnreadable(d, g)
  <2>1. g.parts[p] \in ToSet(g.parts) /\ \A r \in DOMAIN g.parts[p] : g.parts[p][r] \in ToSet(g.parts[p])
    BY DEF ToSet
  <2>2. CASE \E r \in DOMAIN g.parts[p] : \E i \in DOMAIN g.parts[p][r] : g.parts[p][r][i] = 0
    <3>1. 0 \in Coords(g)
      BY <2>2, CoordsAre
    <3> QED BY <3>1 DEF GeomUnreadable
  <2>3. CASE form = "wkt" /\ (g.parts[p] = <<>> \/ \E r \in DOMAIN g.parts[p] : g.parts[p][r] = <<>>)
    <3>1. HasEmptyList(g)
      BY <2>1, <2>3 DEF HasEmptyList
    <3> QED BY <1>1, <2>3, <3>1 DEF GeomUnreadable
  <2> QED BY <1>3, <2>2, <2>3 DEF Full
<1> QED BY <1>2, <1>3

\* GeoJSON and CSV.
LEMMA TextOutcome ==
    ASSUME NEW c, NEW s, Shaped(c, s), NEW d \in {"csv", "geojson"}
    PROVE  Outcome(d, c, PutText(FormOf(d), c, DecodeWkb(c.w)))
<1> DEFINE form == FormOf(d)
           w == c.w
           g == DecodeWkb(w)
           st == PutText(form, c, g)
           x == EncodeText(form, g)
           y == EncodeWkb(g)
<1>1. c.type.s = s /\ s \in Nat /\ w \in Input /\ IsGeom(c)
  BY ShapedIs
<1>2. "LE" \in Orders /\ form \in Forms
  BY DEF Orders, FormOf, Forms
<1>3. CASE g # Refused
  <2>1. g \in Geoms("bin")
    BY <1>1, <1>3, WkbRoundTrip
  <2>2. y \in Input /\ DecodeWkb(y) = g /\ g.ty \in Nat
    BY <1>2, <2>1, WkbOf DEF EncodeWkb
  <2> DEFINE t == DecodeText(form, x)
  <2>3. /\ x \in Input /\ x # <<>>
        /\ t # Refused => t = g /\ t \in Geoms(form)
        /\ g \in Geoms(form) => t = g
    BY <1>2, <2>1, TextRoundTrip
  <2>4. st = StoredGeom(c, x)
    BY <1>3 DEF PutText
  <2>5. Geometric(StoredGeom(c, x), s, x)
    BY StoredShape
  <2>6. ASSUME NEW u \in Input, Differ(x, u) PROVE Noticed(d, c, ReadOf(d, s, u), u)
    <3>1. DecodeText(form, u) = Refused
      BY <1>2, <2>1, <2>6, TextDamageSeen
    <3>2. CASE d = "csv" /\ u = <<>>
      <4>1. ReadOf(d, s, u) = Arrow([t |-> "Geom", s |-> 0], Gone)
        BY <3>2 DEF ReadOf
      <4>2. ArrowCell(Arrow([t |-> "Geom", s |-> 0], Gone))
        BY NullCellIs
      <4>3. Arrow([t |-> "Geom", s |-> 0], Gone).at = "arrow" /\ Arrow([t |-> "Geom", s |-> 0], Gone).v = Gone
        BY DEF Arrow
      <4> QED BY <3>2, <4>1, <4>2, <4>3 DEF Noticed
    <3>3. CASE ~(d = "csv" /\ u = <<>>)
      <4>1. ReadOf(d, s, u) = Parsed(DecodeText(form, u))
        BY <3>3 DEF ReadOf
      <4>2. ReadOf(d, s, u) = ReadError
        BY <3>1, <4>1 DEF Parsed
      <4> QED BY <4>2, RefusedIs DEF Noticed
    <3> QED BY <3>2, <3>3
  <2>7. Notices(d, c, s, x)
    BY <2>6 DEF Notices
  <2>8. ReadOf(d, s, x) = IF t = Refused THEN ReadError ELSE GeomCell(t.ty, EncodeWkb(t))
    BY <2>3 DEF ReadOf, Parsed
  <2> HIDE DEF x, y, g, st, t, form, w
  <2>9. CASE t # Refused
    <3>1. t = g /\ g \in Geoms(form)
      BY <2>3, <2>9
    <3>2. ReadOf(d, s, x) = GeomCell(g.ty, y)
      BY <2>8, <2>9, <3>1 DEF y
    <3>3. Settles(d, g.ty, g)
      BY <3>1 DEF Settles, form
    <3>4. Settles(d, s, g) => g.ty = s
      BY DEF Settles
    <3>5. Outcome(d, c, st)
      BY <1>1, <2>2, <2>3, <2>4, <2>5, <2>7, <3>2, <3>3, <3>4, Delivered DEF g, w
    <3> QED BY <3>5 DEF st, g, w, form
  <2>10. CASE t = Refused
    <3>1. ReadOf(d, s, x) = ReadError
      BY <2>8, <2>10
    <3>2. g \notin Geoms(form)
      BY <1>3, <2>3, <2>10
    <3>3. GeomUnreadable(d, g)
      BY <2>1, <3>2, UnreadableText DEF form
    <3>4. KnownUnreadable(d, c)
      BY <1>1, <3>3 DEF KnownUnreadable, g, w
    <3>5. Brings(d, c, ReadOf(d, s, x))
      BY <3>1, <3>4, RefusedIs DEF Brings
    <3>6. Holds(d, c, st, s, x)
      BY <1>1, <2>3, <2>4, <2>5, <2>7, <3>5 DEF Holds
    <3>7. ~Settles(d, s, g)
      BY <3>2 DEF Settles, form
    <3>8. c.v.k = "geom"
      BY <1>1 DEF IsGeom
    <3>9. ~SettledGeom(d, c)
      BY <1>1, <3>7, <3>8 DEF SettledGeom, g, w
    <3>10. Outcome(d, c, st)
      BY <3>6, <3>9 DEF Outcome
    <3> QED BY <3>10 DEF st, g, w, form
  <2> QED BY <2>9, <2>10
<1>4. CASE g = Refused
  <2>1. st = WriteError
    BY <1>4 DEF PutText
  <2>2. ~Settles(d, s, g)
    <3>1. Geoms(form) \subseteq Geoms("bin")
      BY <1>2, TextGeomsAre
    <3>2. g \notin Geoms(form)
      BY <1>4, <3>1, WkbRoundTrip
    <3> QED BY <3>2 DEF Settles
  <2> HIDE DEF st, g
  <2>3. Outcome(d, c, st)
    BY <2>1, <2>2, Declined DEF g
  <2> QED BY <2>3 DEF st, g
<1> QED BY <1>3, <1>4

----------------------------------------------------------------------------
(* Cells of either kind.                                                   *)

\* A column of which the cell holds no geometry.
LEMMA EmptyRead ==
    ASSUME NEW view, NEW s \in Nat, NEW v \in {Null, Gone}, NEW d
    PROVE  LET st == Stored([t |-> "Geom", s |-> s], "-", v)
               e  == IF d \in Probed THEN 0 ELSE s
           IN  /\ st.at = "stored" /\ ~IsGeom(st)
               /\ Get(d, st, view) = Arrow([t |-> "Geom", s |-> e], v)
               /\ Get(d, st, view).at = "arrow" /\ ArrowCell(Get(d, st, view))
               /\ Get(d, st, view).v = v /\ v.k = "null"
               /\ Get(d, st, view).type = [t |-> "Geom", s |-> e]
               /\ Get(d, st, view).type.t = "Geom" /\ Get(d, st, view).type.s = e
               /\ d \notin {"fgb", "shp"} => SettledGeom(d, Get(d, st, view))
<1> DEFINE st == Stored([t |-> "Geom", s |-> s], "-", v)
           e  == IF d \in Probed THEN 0 ELSE s
           r  == Arrow([t |-> "Geom", s |-> e], v)
<1>1. v.k = "null" /\ e \in Nat
  BY DEF Null, Gone, Lost, Value
<1>2. st.at = "stored" /\ st.decl = [t |-> "Geom", s |-> s] /\ st.decl.t = "Geom" /\ st.v = v
  BY DEF Stored
<1>3. ~IsGeom(st)
  BY <1>1, <1>2 DEF IsGeom
<1>4. /\ [st.decl EXCEPT !.s = 0] = [t |-> "Geom", s |-> 0]
      /\ [st.decl EXCEPT !.s = @] = [t |-> "Geom", s |-> s]
  BY <1>2
<1>5. Get(d, st, view) = GetGeom(d, st)
  BY <1>2 DEF Get
<1>6. Get(d, st, view) = r
  <2> HIDE DEF st
  <2>1. GetGeom(d, st) = Arrow([st.decl EXCEPT !.s = IF d \in Probed THEN 0 ELSE @], st.v)
    BY <1>1, <1>2 DEF GetGeom
  <2>2. CASE d \in Probed
    BY <1>2, <1>4, <1>5, <2>1, <2>2
  <2>3. CASE d \notin Probed
    BY <1>2, <1>4, <1>5, <2>1, <2>3
  <2> QED BY <2>2, <2>3
<1>7. /\ r.at = "arrow" /\ r.v = v /\ r.type = [t |-> "Geom", s |-> e] /\ r.type.t = "Geom" /\ r.type.s = e
  BY DEF Arrow
<1>8. ArrowCell(r)
  BY <1>1, NullCellIs
<1> HIDE DEF st, r
<1>9. d \notin {"fgb", "shp"} => SettledGeom(d, r)
  BY <1>1, <1>7 DEF SettledGeom
<1>10. /\ Get(d, st, view).at = "arrow" /\ ArrowCell(Get(d, st, view)) /\ Get(d, st, view).v = v
       /\ Get(d, st, view).type = [t |-> "Geom", s |-> e]
       /\ Get(d, st, view).type.t = "Geom" /\ Get(d, st, view).type.s = e
       /\ d \notin {"fgb", "shp"} => SettledGeom(d, Get(d, st, view))
  BY <1>6, <1>7, <1>8, <1>9
<1> QED BY <1>1, <1>2, <1>3, <1>6, <1>10 DEF st, r

\* Every driver stores, refuses or empties a geometry, and keeps one it has read.
LEMMA PutGeomIs ==
    ASSUME NEW c, NEW s, Shaped(c, s), NEW d \in Drivers, NEW bulk, NEW policy
    PROVE  Outcome(d, c, Put(d, c, bulk, policy))
<1>1. c.type.t = "Geom" /\ c.v.k = "geom"
  BY ShapedIs
<1>2. Put(d, c, bulk, policy) = PutDecoded(d, c, DecodeWkb(c.w))
  BY <1>1 DEF Put, PutGeom
<1> DEFINE g == DecodeWkb(c.w)
           st == Put(d, c, bulk, policy)
<1> HIDE DEF g, st
<1>a. st = PutDecoded(d, c, g)
  BY <1>2 DEF st, g
<1>3. CASE d = "postgis"
  <2>1. st = PutPostgis(c, g)
    BY <1>a, <1>3 DEF PutDecoded
  <2> QED BY <1>3, <2>1, PostgisOutcome DEF st, g
<1>4. CASE d = "sqlserver"
  <2>1. st = PutSqlServer(c, g)
    BY <1>a, <1>4 DEF PutDecoded
  <2> QED BY <1>4, <2>1, SqlServerOutcome DEF st, g
<1>5. CASE d = "gpkg"
  <2>1. st = PutGpkg(c, g)
    BY <1>a, <1>5 DEF PutDecoded
  <2> QED BY <1>5, <2>1, GpkgOutcome DEF st, g
<1>6. CASE d = "spatialite"
  <2>1. st = PutSpatialite(c, g)
    BY <1>a, <1>6 DEF PutDecoded
  <2> QED BY <1>6, <2>1, SpatialiteOutcome DEF st, g
<1>7. CASE d = "fgb"
  <2>1. st = PutFlatGeobuf(c, ReadGeom(c.w))
    BY <1>a, <1>7 DEF PutDecoded
  <2> QED BY <1>7, <2>1, FlatGeobufOutcome DEF st
<1>8. CASE d = "shp"
  <2>1. st = PutShape(c, g)
    BY <1>a, <1>8 DEF PutDecoded
  <2> QED BY <1>8, <2>1, ShapefileOutcome DEF st, g
<1>9. CASE d \in {"csv", "geojson"}
  <2>1. st = PutText(FormOf(d), c, g)
    BY <1>a, <1>9 DEF PutDecoded, FormOf
  <2> QED BY <1>9, <2>1, TextOutcome DEF st, g
<1>10. CASE d = "parquet"
  <2>1. st = StoredGeom(c, c.w)
    BY <1>a, <1>10 DEF PutDecoded
  <2> QED BY <1>10, <2>1, ParquetOutcome DEF st
<1> QED BY <1>3, <1>4, <1>5, <1>6, <1>7, <1>8, <1>9, <1>10 DEF Drivers

\* A cell as the driver d reads it, and does not change again.
Settled(d, c, policy, view) ==
    IF c.type.t = "Geom" THEN SettledGeom(d, c) ELSE SettledAttribute(d, c, policy, view)

\* r is what the reader of d makes of the cell its writer was given as c.
Carried(d, c, policy, r, view) ==
    /\ r.at \in {"arrow", "unreadable"}
    /\ r.at = "unreadable" => KnownUnreadable(d, c)
    /\ r.at = "arrow" => ArrowCell(r) /\ Settled(d, r, policy, view)
    /\ r.at = "arrow" /\ policy = "error" => Exact(c, r) \/ SilentlyChanged(d, c, view)

\* A column with bytes in it, well-formed or not.
GeomStored(st) == \E s \in Nat, w \in Input : Geometric(st, s, w)

\* Whatever differs from the bytes stored for c is noticed.
DamageSeen(d, c, st, view) ==
    IsGeom(st) /\ d \in Damageable =>
       \A u \in Input : Differ(st.w, u) => Noticed(d, c, Get(d, [st EXCEPT !.w = u], view), u)

\* What d promises of the cell c when it has made st of it.
Delivers(d, c, policy, st, view) ==
    /\ st.at = "stored" => /\ Carried(d, c, policy, Get(d, st, view), view)
                           /\ IsGeom(st) => GeomStored(st)
                           /\ DamageSeen(d, c, st, view)
    /\ Settled(d, c, policy, view) => Stays(d, c, st, Get(d, st, view))

\* A cell with a geometry is delivered,
LEMMA ShapedCarries ==
    ASSUME NEW c, NEW s, Shaped(c, s), ArrowCell(c), NEW d \in Drivers, NEW bulk, NEW policy, NEW view
    PROVE  Delivers(d, c, policy, Put(d, c, bulk, policy), view)
<1> DEFINE st == Put(d, c, bulk, policy)
           r == Get(d, st, view)
<1>1. c.type.t = "Geom" /\ c.type = [t |-> "Geom", s |-> s] /\ c.v.k = "geom" /\ s \in Nat /\ IsGeom(c)
  BY ShapedIs
<1>2. Outcome(d, c, st)
  BY PutGeomIs
<1> HIDE DEF st, r
<1>3. ASSUME NEW a, NEW w, Holds(d, c, st, a, w)
      PROVE  Carried(d, c, policy, r, view) /\ GeomStored(st) /\ DamageSeen(d, c, st, view)
  <2>1. a \in Nat /\ w \in Input /\ Geometric(st, a, w) /\ Brings(d, c, ReadOf(d, a, w)) /\ Notices(d, c, a, w)
    BY <1>3 DEF Holds
  <2>2. r = ReadOf(d, a, w)
    BY <2>1, GetGeomIs DEF r
  <2>s. GeomChanged(d, DecodeWkb(c.w)) => SilentlyChanged(d, c, view)
    BY <1>1 DEF SilentlyChanged
  <2>3. Carried(d, c, policy, r, view)
    BY <2>1, <2>2, <2>s DEF Brings, Carried, Settled
  <2>4. GeomStored(st)
    BY <2>1 DEF GeomStored
  <2>5. st.w = w /\ \A u : Geometric([st EXCEPT !.w = u], a, u)
    <3>1. Geometric(st, a, w)
      BY <2>1
    <3>2. st.w = w
      BY ONLY <3>1, GeometricBytes
    <3>3. ASSUME NEW u PROVE Geometric([st EXCEPT !.w = u], a, u)
      BY ONLY <3>1, GeometricAgain
    <3> QED BY <3>2, <3>3
  <2>6. \A u : Get(d, [st EXCEPT !.w = u], view) = ReadOf(d, a, u)
    BY <2>5, GetGeomIs
  <2>7. DamageSeen(d, c, st, view)
    BY <2>1, <2>5, <2>6 DEF Notices, DamageSeen
  <2> QED BY <2>3, <2>4, <2>7
<1>4. ASSUME Emptied(d, c, st)
      PROVE  Carried(d, c, policy, r, view) /\ ~IsGeom(st)
  <2>1. st = Stored([t |-> "Geom", s |-> s], "-", Gone) /\ d = "spatialite" /\ GeomChanged(d, DecodeWkb(c.w))
    BY <1>1, <1>4 DEF Emptied
  <2> DEFINE q == Stored([t |-> "Geom", s |-> s], "-", Gone)
  <2>a. d \notin {"fgb", "shp"} /\ s \in Nat
    BY <1>1, <2>1
  <2> DEFINE e == IF d \in Probed THEN 0 ELSE s
  <2>b. /\ q.at = "stored" /\ ~IsGeom(q)
        /\ Get(d, q, view).at = "arrow" /\ ArrowCell(Get(d, q, view)) /\ Get(d, q, view).v = Gone
        /\ Get(d, q, view).type = [t |-> "Geom", s |-> e]
        /\ Get(d, q, view).type.t = "Geom" /\ SettledGeom(d, Get(d, q, view))
    BY <2>a, EmptyRead
  <2> HIDE DEF q
  <2>2. ~IsGeom(st) /\ r.at = "arrow" /\ ArrowCell(r) /\ r.type.t = "Geom" /\ SettledGeom(d, r)
    BY <2>1, <2>b DEF r, q
  <2>3. SilentlyChanged(d, c, view)
    BY <1>1, <2>1 DEF SilentlyChanged
  <2> QED BY <2>2, <2>3 DEF Carried, Settled
<1>5. ASSUME st.at = "stored"
      PROVE  Carried(d, c, policy, r, view) /\ (IsGeom(st) => GeomStored(st)) /\ DamageSeen(d, c, st, view)
  <2>1. Emptied(d, c, st) \/ \E a, w : Holds(d, c, st, a, w)
    BY <1>2, <1>5 DEF Outcome
  <2> QED BY <1>3, <1>4, <2>1 DEF DamageSeen
<1>6. ASSUME Settled(d, c, policy, view) PROVE Stays(d, c, st, r)
  <2>1. SettledGeom(d, c)
    BY <1>1, <1>6 DEF Settled
  <2>2. PICK a, w : KeepsIn(d, c, st, a, w)
    BY <1>2, <2>1 DEF Outcome
  <2>3. Geometric(st, a, w) /\ Keeps(c, ReadOf(d, a, w))
    BY <2>2 DEF KeepsIn
  <2>4. st.at = "stored"
    BY <2>3, GeometricIs
  <2>5. r = ReadOf(d, a, w)
    BY <2>3, GetGeomIs DEF r
  <2> QED BY <2>3, <2>4, <2>5 DEF Keeps, Stays
<1> QED BY <1>5, <1>6 DEF Delivers, st, r

\* and so is one without.
LEMMA ShapelessCarries ==
    ASSUME NEW c, NEW s, Shapeless(c, s), ArrowCell(c), NEW d \in Drivers, NEW bulk, NEW policy, NEW view
    PROVE  Delivers(d, c, policy, Put(d, c, bulk, policy), view)
<1> DEFINE st == Put(d, c, bulk, policy)
           r == Get(d, st, view)
<1>1. c.type.t = "Geom" /\ c.type = [t |-> "Geom", s |-> s] /\ c.type.s = s /\ c.v.k = "null" /\ c.v.n = 0 /\ s \in Nat
      /\ ~IsGeom(c)
  BY DEF Shapeless, IsGeom
<1>2. st = IF d \in {"fgb", "shp"} THEN WriteError ELSE Stored(c.type, "-", Null)
  BY <1>1 DEF Put, PutGeom
<1>3. CASE d \in {"fgb", "shp"}
  <2>1. st.at = "refused"
    BY <1>2, <1>3, RefusedIs
  <2>2. ~Settled(d, c, policy, view)
    BY <1>1, <1>3 DEF Settled, SettledGeom
  <2> HIDE DEF st
  <2> QED BY <2>1, <2>2 DEF Delivers, st
<1>4. CASE d \notin {"fgb", "shp"}
  <2> DEFINE e == IF d \in Probed THEN 0 ELSE s
  <2>1. st = Stored([t |-> "Geom", s |-> s], "-", Null)
    BY <1>1, <1>2, <1>4
  <2>2. /\ st.at = "stored" /\ ~IsGeom(st) /\ r.at = "arrow" /\ ArrowCell(r) /\ r.v = Null /\ Null.k = "null"
        /\ r.type = [t |-> "Geom", s |-> e] /\ r.type.t = "Geom" /\ SettledGeom(d, r)
    BY <1>1, <1>4, <2>1, EmptyRead
  <2>3. Null.n = 0 /\ ~Null.lost
    BY DEF Null, Value
  <2> HIDE DEF st, r
  <2>4. Exact(c, r)
    BY <1>1, <2>2, <2>3 DEF Exact
  <2>5. Settled(d, c, policy, view) => r.type = c.type
    BY <1>1, <2>2 DEF Settled, SettledGeom
  <2>6. Carried(d, c, policy, r, view)
    BY <2>2, <2>4 DEF Carried, Settled
  <2>7. Settled(d, c, policy, view) => Stays(d, c, st, r)
    BY <2>2, <2>4, <2>5 DEF Stays
  <2> QED BY <2>2, <2>6, <2>7 DEF Delivers, DamageSeen, st, r
<1> QED BY <1>3, <1>4

\* What a writer does with a cell.
Outcomes == {"stored", "refused", "dropped"}

\* Whatever the cell, it is stored, refused or dropped with its column.
LEMMA PutEnds ==
    ASSUME NEW c, ArrowCell(c), NEW d \in Drivers, NEW bulk \in BOOLEAN, NEW policy
    PROVE  Put(d, c, bulk, policy).at \in Outcomes
<1>1. /\ \A x, y, v : Stored(x, y, v).at \in Outcomes
      /\ WriteError.at \in Outcomes /\ LeftOut.at \in Outcomes
      /\ \A x, y, v, z : [Stored(x, y, v) EXCEPT !.w = z].at \in Outcomes
      /\ \A x, y, v, z : [Stored(x, y, v) EXCEPT !.v = z].at \in Outcomes
  BY DEF Stored, WriteError, LeftOut, Outcomes
<1>2. \A x, y : OnLoss(policy, x, y) \in {WriteError, x, y}
  BY DEF OnLoss
<1> DEFINE st == Put(d, c, bulk, policy)
<1>3. CASE c.type.t = "Geom"
  <2>1. CASE c.v.k = "geom"
    <3>1. Shaped(c, c.type.s)
      BY <1>3, <2>1, GeomCells
    <3>2. Outcome(d, c, st)
      BY <3>1, PutGeomIs
    <3> HIDE DEF st
    <3>3. st.at = "refused" \/ Emptied(d, c, st) \/ \E s, w : Holds(d, c, st, s, w)
      BY <3>2 DEF Outcome
    <3>4. Emptied(d, c, st) => st.at \in Outcomes
      BY <1>1 DEF Emptied
    <3>5. ASSUME NEW s, NEW w, Holds(d, c, st, s, w) PROVE st.at = "stored"
      <4>1. Geometric(st, s, w)
        BY <3>5 DEF Holds
      <4> QED BY <4>1, GeometricIs
    <3> QED BY <3>3, <3>4, <3>5 DEF Outcomes, st
  <2>2. CASE c.v.k = "null"
    <3>1. st \in {WriteError, Stored(c.type, "-", Null)}
      BY <1>3, <2>2 DEF Put, PutGeom
    <3> HIDE DEF st
    <3> QED BY <1>1, <3>1 DEF st
  <2> QED BY <1>3, <2>1, <2>2, GeomCells
<1>4. CASE c.type.t # "Geom"
  <2>a. c.type.t \in AttributeTypes
    BY <1>4 DEF ArrowCell
  <2>1. CASE d = "postgis"
    <3>1. st = PutPg(c)
      BY <1>4, <2>1 DEF Put
    <3> DEFINE q == Stored([t |-> PgDecls[c.type.t], s |-> c.type.s], "-", Timed(c.type.t, c.v))
    <3>2. PutPg(c) = WriteError \/ PutPg(c) = q \/ \E z : PutPg(c) = [q EXCEPT !.w = z]
      BY DEF PutPg, PgCell
    <3> HIDE DEF st
    <3>3. q.at \in Outcomes /\ \A z : [q EXCEPT !.w = z].at \in Outcomes
      BY <1>1
    <3> HIDE DEF q
    <3> QED BY <1>1, <3>1, <3>2, <3>3 DEF st
  <2>2. CASE d = "sqlserver"
    <3>1. st = PutMs(c, bulk)
      BY <1>4, <2>2 DEF Put
    <3>2. PutMs(c, bulk) \in {WriteError, Stored([t |-> MsDecls[c.type.t], s |-> c.type.s], "-", Timed(c.type.t, c.v))}
      BY DEF PutMs
    <3> HIDE DEF st
    <3> QED BY <1>1, <3>1, <3>2 DEF st
  <2>3. CASE d \in {"gpkg", "spatialite"}
    <3>1. st = PutSqlite(c, policy)
      BY <1>4, <2>3 DEF Put
    <3> DEFINE decl == Type(SqliteDecls[c.type.t])
    <3>2. PutSqlite(c, policy) \in {WriteError, Stored(decl, "null", Gone), Stored(decl, ClassOf(c.type.t, c.v), Timed(c.type.t, c.v))}
      BY <1>2 DEF PutSqlite
    <3> HIDE DEF st, decl
    <3> QED BY <1>1, <3>1, <3>2 DEF st
  <2>4. CASE d = "fgb"
    <3>1. st = PutFgb(c, policy)
      BY <1>4, <2>4 DEF Put
    <3> DEFINE as == IF c.type.t \in Dates THEN "dates" ELSE "-"
               v  == IF c.type.t \in Decimals THEN AsF64(c.v) ELSE c.v
    <3>2. PutFgb(c, policy) \in {WriteError, Stored(Type(FgbDecls[c.type.t]), as, v)}
      BY <1>2 DEF PutFgb
    <3> HIDE DEF st
    <3> QED BY <1>1, <3>1, <3>2 DEF st
  <2>5. CASE d = "shp"
    <3> DEFINE f == ShpField(c.type.t, policy)
    <3>1. st = ShpValue(f, c, policy)
      BY <1>4, <2>5 DEF Put, PutShp
    <3>2. f \in {WriteError, LeftOut} \/ \E x : f = Stored(Type(x), "-", Null)
      BY <1>2 DEF ShpField
    <3> HIDE DEF st, f
    <3>3. f.at \in Outcomes
      BY <1>1, <3>2
    <3>4. CASE f.at # "stored"
      <4>1. st = f
        BY <3>1, <3>4 DEF ShpValue
      <4> QED BY <3>3, <4>1 DEF st
    <3>5. CASE f.at = "stored"
      <4>1. WriteError.at # "stored" /\ LeftOut.at # "stored"
        BY DEF WriteError, LeftOut, Stored
      <4>2. \A z : [f EXCEPT !.v = z].at \in Outcomes
        BY <1>1, <3>2, <3>5, <4>1
      <4>3. st = f \/ st = WriteError \/ \E z : st = [f EXCEPT !.v = z]
        BY <1>2, <3>1 DEF ShpValue
      <4> QED BY <1>1, <3>3, <4>2, <4>3 DEF st
    <3> QED BY <3>4, <3>5
  <2>6. CASE d = "csv"
    <3>1. st = PutCsv(c, policy)
      BY <1>4, <2>6 DEF Put
    <3> DEFINE q == Stored(Type("text"), "-", CsvText(c.v))
    <3>2. PutCsv(c, policy) \in {WriteError, LeftOut, q, [q EXCEPT !.v = Empty]}
      BY <1>2 DEF PutCsv
    <3> HIDE DEF st
    <3> QED BY <1>1, <3>1, <3>2 DEF st
  <2>7. CASE d = "geojson"
    <3>1. st = PutGeoJson(c, policy)
      BY <1>4, <2>7 DEF Put
    <3>2. PutGeoJson(c, policy) \in {WriteError, LeftOut, Stored(Type(JsonKind(c.type.t, c.v)), "-", c.v),
                                     Stored(Type("null"), "-", IF c.v.k = "null" THEN Null ELSE Gone)}
      BY <1>2 DEF PutGeoJson
    <3> HIDE DEF st
    <3> QED BY <1>1, <3>1, <3>2 DEF st
  <2>8. CASE d = "parquet"
    <3>1. st = Stored(c.type, "-", c.v)
      BY <1>4, <2>8 DEF Put, PutParquet
    <3> HIDE DEF st
    <3> QED BY <1>1, <3>1 DEF st
  <2> QED BY <2>1, <2>2, <2>3, <2>4, <2>5, <2>6, <2>7, <2>8 DEF Drivers
<1> QED BY <1>3, <1>4

\* What a driver has stored its own reader takes, but for what it is known not
\* to, as the same value, but for what it is known to change; and what it has read
\* it stores and reads again as it was.
THEOREM Carries ==
    ASSUME NEW c, ArrowCell(c), NEW d \in Drivers, NEW bulk \in BOOLEAN, NEW policy, NEW view
    PROVE  /\ Delivers(d, c, policy, Put(d, c, bulk, policy), view)
           /\ Put(d, c, bulk, policy).at \in Outcomes
<1> DEFINE st == Put(d, c, bulk, policy)
<1>1. st.at \in Outcomes
  BY PutEnds
<1>2. CASE c.type.t = "Geom"
  <2>1. Shaped(c, c.type.s) \/ Shapeless(c, c.type.s)
    BY <1>2, GeomCells
  <2>2. Delivers(d, c, policy, st, view)
    BY <2>1, ShapedCarries, ShapelessCarries
  <2> QED BY <1>1, <2>2
<1>3. CASE c.type.t # "Geom"
  <2>1. c.type.t \in AttributeTypes
    BY <1>3 DEF ArrowCell
  <2>2. /\ st.at = "stored" => st.decl.t # "Geom" /\ ~IsGeom(st) /\ Comes(d, c, policy, Get(d, st, view), view)
        /\ SettledAttribute(d, c, policy, view) => Stays(d, c, st, Get(d, st, view))
    BY <2>1, AttributeCarries
  <2>3. "Geom" \notin AttributeTypes
    BY KindsAre
  <2> DEFINE r == Get(d, st, view)
  <2> HIDE DEF st, r
  <2>4. Comes(d, c, policy, r, view) => Carried(d, c, policy, r, view)
    BY <2>3 DEF Comes, Carried, Settled
  <2>5. Settled(d, c, policy, view) => SettledAttribute(d, c, policy, view)
    BY <1>3 DEF Settled
  <2>6. Delivers(d, c, policy, st, view)
    BY <2>2, <2>4, <2>5 DEF Delivers, DamageSeen, r
  <2> QED BY <1>1, <2>6 DEF st
<1> QED BY <1>2, <1>3

----------------------------------------------------------------------------
(* What other programs have stored, and what is damaged.                   *)

\* A reader takes the cell or refuses it, and has settled it.
Received(r) == r.at \in {"arrow", "unreadable"} /\ (r.at = "arrow" => ArrowCell(r))
ReceivedFrom(d, policy, r, view) == Received(r) /\ (r.at = "arrow" => Settled(d, r, policy, view))

\* A geometry with the declared type is a cell, and settled if its driver keeps
\* it.
LEMMA GeomReceived ==
    ASSUME NEW e \in Nat, NEW y \in Input
    PROVE  /\ Received(GeomCell(e, y)) /\ Received(ReadError) /\ ReadError.at # "arrow"
           /\ \A d, policy, view : Settles(d, e, DecodeWkb(y)) => ReceivedFrom(d, policy, GeomCell(e, y), view)
<1> DEFINE r == GeomCell(e, y)
<1>1. Shaped(r, e) /\ r.w = y /\ ArrowCell(r)
  BY GeomCellIs
<1> HIDE DEF r
<1>2. r.type.t = "Geom" /\ r.type.s = e /\ r.v.k = "geom" /\ r.at = "arrow"
  BY <1>1, ShapedIs DEF ArrowCell
<1>3. Received(r)
  BY <1>1, <1>2 DEF Received
<1>4. ReadError.at = "unreadable"
  BY RefusedIs
<1>5. ASSUME NEW d, NEW policy, NEW view, Settles(d, e, DecodeWkb(y)) PROVE ReceivedFrom(d, policy, r, view)
  <2>1. SettledGeom(d, r)
    BY <1>1, <1>2, <1>5 DEF SettledGeom
  <2> QED BY <1>2, <1>3, <2>1 DEF ReceivedFrom, Settled
<1> QED BY <1>3, <1>4, <1>5 DEF r, Received

\* An empty cell of a CSV file is settled.
LEMMA NullReceived ==
    ASSUME NEW policy, NEW view
    PROVE  ReceivedFrom("csv", policy, Arrow([t |-> "Geom", s |-> 0], Gone), view)
<1> DEFINE r == Arrow([t |-> "Geom", s |-> 0], Gone)
<1>1. r.at = "arrow" /\ r.type.t = "Geom" /\ r.type.s = 0 /\ r.v = Gone /\ Gone.k = "null"
  <2>1. Gone.k = "null"
    BY DEF Null, Gone, Lost, Value
  <2> QED BY <2>1 DEF Arrow
<1>2. ArrowCell(r)
  BY NullCellIs
<1> HIDE DEF r
<1>3. SettledGeom("csv", r)
  BY <1>1 DEF SettledGeom
<1> QED BY <1>1, <1>2, <1>3 DEF ReceivedFrom, Received, Settled, r

\* The text of a geometry is parsed and kept as WKB.
LEMMA TextReceived ==
    ASSUME NEW d \in {"csv", "geojson"}, NEW text \in Input, NEW s \in Nat, NEW policy, NEW view
    PROVE  ReceivedFrom(d, policy, ReadOf(d, s, text), view)
<1> DEFINE form == FormOf(d)
           g == DecodeText(form, text)
           y == EncodeWkb(g)
<1>1. form \in Forms /\ "LE" \in Orders
  BY DEF Forms, FormOf, Orders
<1>2. CASE d = "csv" /\ text = <<>>
  <2>1. ReadOf(d, s, text) = Arrow([t |-> "Geom", s |-> 0], Gone)
    BY <1>2 DEF ReadOf
  <2> QED BY <1>2, <2>1, NullReceived
<1>3. CASE ~(d = "csv" /\ text = <<>>)
  <2>1. ReadOf(d, s, text) = IF g = Refused THEN ReadError ELSE GeomCell(g.ty, y)
    BY <1>3 DEF ReadOf, Parsed
  <2>2. CASE g = Refused
    <3>1. ReadOf(d, s, text) = ReadError
      BY <2>1, <2>2
    <3>2. <<>> \in Input
      BY DEF Input
    <3>3. Received(ReadError) /\ ReadError.at # "arrow"
      BY <3>2, GeomReceived
    <3> QED BY <3>1, <3>3 DEF ReceivedFrom
  <2>3. CASE g # Refused
    <3>1. g \in Geoms(form)
      BY <1>1, <2>3, TextRoundTrip
    <3>2. g \in Geoms("bin")
      BY <1>1, <3>1, TextGeomsAre
    <3>3. y \in Input /\ DecodeWkb(y) = g /\ g.ty \in Nat
      BY <1>1, <3>2, WkbOf DEF EncodeWkb
    <3>4. Settles(d, g.ty, g)
      BY <3>1 DEF Settles
    <3> HIDE DEF y, g
    <3>5. ReceivedFrom(d, policy, GeomCell(g.ty, y), view)
      BY <3>3, <3>4, GeomReceived
    <3> QED BY <2>1, <2>3, <3>5
  <2> QED BY <2>2, <2>3
<1> QED BY <1>2, <1>3

\* Whatever the bytes are: the reader refuses them, or what it yields is a cell.
THEOREM BytesReceived ==
    ASSUME NEW d \in Damageable, NEW s \in Nat, NEW u \in Input
    PROVE  Received(ReadOf(d, s, u))
<1>1. ASSUME NEW w, w = NoBytes \/ w \in Input PROVE Received(GeomOf(s, w))
  <2>1. CASE w = NoBytes
    <3>1. <<>> \in Input
      BY DEF Input
    <3>2. Received(ReadError)
      BY <3>1, GeomReceived
    <3> QED BY <2>1, <3>2 DEF GeomOf
  <2>2. CASE w \in Input
    <3>1. w # NoBytes
      BY <2>2, NoBytesIs
    <3>2. Received(GeomCell(s, w))
      BY <2>2, GeomReceived
    <3> QED BY <3>1, <3>2 DEF GeomOf
  <2> QED BY <1>1, <2>1, <2>2
<1> DEFINE n == Len(u)
<1>2. u \in Seq(Token) /\ n \in Nat
  BY DEF Input
<1>3. CASE d = "gpkg"
  <2> DEFINE code == (u[4].v \div 2) % 8
             end == 5 + EnvelopePairs[code + 1]
  <2>1. DecodeGpkg(u) = NoBytes \/ (DecodeGpkg(u) = SubSeq(u, end + 1, n) /\ ~(n < 5) /\ ~(n < end)
                                    /\ SubSeq(u, 1, 3) = <<Byte(71), Byte(80), Byte(0)>> /\ ~(code > 4))
    BY DEF DecodeGpkg
  <2>2. ASSUME DecodeGpkg(u) # NoBytes PROVE DecodeGpkg(u) \in Input
    <3> HIDE DEF code, end, n
    <3>1. DecodeGpkg(u) = SubSeq(u, end + 1, n) /\ ~(code > 4) /\ ~(n < 5)
      BY <2>1, <2>2
    <3>2. PICK x \in Nat : x = u[4].v
      <4>1. u[4] \in Token
        <5>1. 4 \in 1..Len(u)
          BY <1>2, <3>1 DEF n
        <5> QED BY <1>2, <5>1
      <4> QED BY <4>1 DEF Token
    <3>3. code \in 0..4
      BY <3>1, <3>2 DEF code
    <3>4. EnvelopePairs[code + 1] \in Nat
      BY <3>3 DEF EnvelopePairs
    <3>5. end + 1 \in Nat /\ end + 1 >= 1
      BY <3>4 DEF end
    <3>6. SubSeq(u, end + 1, n) \in Seq(Token)
      <4>1. \A i \in (end + 1)..n : i \in 1..n
        BY <1>2, <3>5
      <4>2. \A i \in (end + 1)..n : u[i] \in Token
        BY <1>2, <4>1 DEF n
      <4> QED BY <1>2, <3>5, <4>2, SubSeqProperties DEF n
    <3> QED BY <3>1, <3>6 DEF Input
  <2>3. Received(GeomOf(s, DecodeGpkg(u)))
    BY <1>1, <2>2
  <2>4. ReadOf(d, s, u) = GeomOf(s, DecodeGpkg(u))
    BY <1>3 DEF ReadOf
  <2> QED BY <2>3, <2>4
<1>4. CASE d = "spatialite"
  <2> DEFINE o == OrderOf(u[2].v)
             x == SubSeq(u, 7, n)
             r == SpatialiteGeom(o)[x]
  <2>1. DecodeSpatialite(u) = NoBytes \/ (DecodeSpatialite(u) = EncodeWkb(r.out) /\ r.ok)
    BY DEF DecodeSpatialite
  <2>2. o \in Orders /\ "LE" \in Orders
    BY DEF OrderOf, Orders
  <2>3. x \in Input
    <3>1. \A i \in 7..n : i \in 1..n
      BY <1>2
    <3>2. \A i \in 7..n : u[i] \in Token
      BY <1>2, <3>1
    <3> QED BY <1>2, <3>2, SubSeqProperties DEF Input
  <2>4. Reader(SpatialiteGeom(o), Geoms("bin"))
    BY <2>2, SpatialiteReader
  <2> HIDE DEF x, o
  <2>5. r.ok => r.out \in Geoms("bin")
    BY <2>3, <2>4 DEF Reader
  <2>6. r.ok => EncodeWkb(r.out) \in Input
    BY <2>2, <2>5, WkbOf DEF EncodeWkb
  <2> HIDE DEF r
  <2>7. DecodeSpatialite(u) = NoBytes \/ DecodeSpatialite(u) \in Input
    BY <2>1, <2>6
  <2>8. Received(GeomOf(s, DecodeSpatialite(u)))
    BY <1>1, <2>7
  <2>9. ReadOf(d, s, u) = GeomOf(s, DecodeSpatialite(u))
    BY <1>4 DEF ReadOf
  <2> QED BY <2>8, <2>9
<1>5. CASE d \in {"csv", "geojson"}
  <2>1. ReceivedFrom(d, "error", ReadOf(d, s, u), "alone")
    BY <1>5, TextReceived
  <2> QED BY <2>1 DEF ReceivedFrom
<1> QED BY <1>3, <1>4, <1>5 DEF Damageable

\* What another program has stored, as the reader of by takes it.
THEOREM ForeignReceived ==
    ASSUME NEW f \in Foreign, NEW policy, NEW view
    PROVE  /\ f.by \in Drivers /\ f.stored.at = "stored"
           /\ ReceivedFrom(f.by, policy, Get(f.by, f.stored, view), view)
           /\ IsGeom(f.stored) => GeomStored(f.stored)
<1>1. ASSUME NEW g \in Shapes PROVE g \in Geoms("bin")
  BY <1>1, GeometryIs, CellConvertAssumption
<1>2. Srid \in Nat
  BY DEF Srid
<1>3. ASSUME NEW d \in Drivers, NEW ty \in Nat, NEW w \in Input, f = By(d, InColumn(ty, w)),
             ReceivedFrom(d, policy, ReadOf(d, ty, w), view)
      PROVE  /\ f.by \in Drivers /\ f.stored.at = "stored"
             /\ ReceivedFrom(f.by, policy, Get(f.by, f.stored, view), view)
             /\ IsGeom(f.stored) => GeomStored(f.stored)
  <2>1. f.by = d /\ f.stored = InColumn(ty, w)
    BY <1>3 DEF By
  <2>2. Geometric(InColumn(ty, w), ty, w)
    BY ColumnIs
  <2> DEFINE st == InColumn(ty, w)
  <2> HIDE DEF st
  <2>3. Geometric(st, ty, w) /\ f.stored = st
    BY <2>1, <2>2 DEF st
  <2>4. st.at = "stored"
    BY ONLY <2>3, GeometricIs
  <2>a. Get(d, st, view) = ReadOf(d, ty, w)
    BY ONLY <2>3, GetGeomIs
  <2>5. GeomStored(st)
    BY <2>3 DEF GeomStored
  <2> QED BY <1>3, <2>1, <2>3, <2>4, <2>a, <2>5
<1>4. CASE f \in Values
  <2>1. ForeignValue(f)
    BY <1>4, CellConvertAssumption
  <2> DEFINE d == f.by
             st == f.stored
             r == Get(d, st, view)
  <2>2. ASSUME st.at = "stored", st.v.k # "geom", d \in Drivers, r.at \in {"arrow", "unreadable"},
               r.at = "arrow" => ArrowCell(r) /\ r.type.t \in AttributeTypes /\ SettledAttribute(d, r, policy, view)
        PROVE  /\ f.by \in Drivers /\ f.stored.at = "stored"
               /\ ReceivedFrom(f.by, policy, Get(f.by, f.stored, view), view)
               /\ IsGeom(f.stored) => GeomStored(f.stored)
    <3>1. "Geom" \notin AttributeTypes
      BY KindsAre
    <3> HIDE DEF r
    <3>2. ReceivedFrom(d, policy, r, view)
      BY <2>2, <3>1 DEF ReceivedFrom, Received, Settled
    <3>3. ~IsGeom(st)
      BY <2>2 DEF IsGeom
    <3> QED BY <2>2, <3>2, <3>3 DEF r
  <2>3. CASE d \in {"gpkg", "spatialite"} /\ SqliteCell(st)
    <3> DEFINE q == GetSqlite(st)
    <3>1. /\ st.at = "stored" /\ st.decl.t # "Geom" /\ st.v.k # "geom"
          /\ q.at \in {"arrow", "unreadable"}
          /\ q.at = "arrow" => ArrowCell(q) /\ q.type.t \in AttributeTypes /\ SettledAttribute(d, q, policy, view)
      BY <2>3, ForeignSqlite
    <3>2. r = q
      BY <2>3, <3>1 DEF Get
    <3>3. d \in Drivers
      BY <2>3 DEF Drivers
    <3> HIDE DEF q, r
    <3> QED BY <2>2, <3>1, <3>2, <3>3
  <2>4. CASE d = "postgis" /\ NumericCell(st)
    <3> DEFINE q == GetPg(st)
    <3>1. /\ st.at = "stored" /\ st.decl.t # "Geom" /\ st.v.k # "geom"
          /\ q.at \in {"arrow", "unreadable"}
          /\ q.at = "arrow" => ArrowCell(q) /\ q.type.t \in AttributeTypes /\ SettledAttribute("postgis", q, policy, view)
      BY <2>4, ForeignNumeric
    <3>2. r = q
      BY <2>4, <3>1 DEF Get
    <3>3. d \in Drivers
      BY <2>4 DEF Drivers
    <3> HIDE DEF q, r
    <3> QED BY <2>2, <2>4, <3>1, <3>2, <3>3
  <2> QED BY <2>1, <2>3, <2>4 DEF ForeignValue
<1>5. ASSUME NEW g \in Shapes, NEW o \in Orders, NEW code \in 0..4,
             f = By("gpkg", InColumn(g.ty, GpkgBlob(o, code, Srid, WkbIn(o, g))))
      PROVE  /\ f.by \in Drivers /\ f.stored.at = "stored"
             /\ ReceivedFrom(f.by, policy, Get(f.by, f.stored, view), view)
             /\ IsGeom(f.stored) => GeomStored(f.stored)
  <2> DEFINE y == WkbIn(o, g)
             x == GpkgBlob(o, code, Srid, y)
  <2>1. y \in Input /\ DecodeWkb(y) = g /\ g.ty \in Nat /\ g # Refused
    BY <1>1, WkbOf
  <2>2. x \in Input /\ DecodeGpkg(x) = y
    BY <1>2, <2>1, GpkgRoundTrip
  <2>3. y # NoBytes
    BY <2>1, NoBytesIs
  <2>4. "gpkg" \in Drivers
    BY DEF Drivers
  <2> HIDE DEF x, y
  <2>5. ReadOf("gpkg", g.ty, x) = GeomCell(g.ty, y)
    BY <2>2, <2>3 DEF ReadOf, GeomOf
  <2>6. Settles("gpkg", g.ty, g)
    BY <2>1 DEF Settles
  <2>7. ReceivedFrom("gpkg", policy, GeomCell(g.ty, y), view)
    BY <2>1, <2>6, GeomReceived
  <2>8. f = By("gpkg", InColumn(g.ty, x))
    BY <1>5 DEF x, y
  <2> QED BY <1>3, <2>1, <2>2, <2>4, <2>5, <2>7, <2>8
<1>6. ASSUME NEW g \in Shapes, NEW o \in Orders, HasMbr(g),
             f = By("spatialite", InColumn(g.ty, SpatialiteBlob(o, g, Srid)))
      PROVE  /\ f.by \in Drivers /\ f.stored.at = "stored"
             /\ ReceivedFrom(f.by, policy, Get(f.by, f.stored, view), view)
             /\ IsGeom(f.stored) => GeomStored(f.stored)
  <2> DEFINE y == EncodeWkb(g)
             x == SpatialiteBlob(o, g, Srid)
  <2>0. "LE" \in Orders /\ g \in Geoms("bin")
    BY <1>1 DEF Orders
  <2>1. y \in Input /\ DecodeWkb(y) = g /\ g.ty \in Nat /\ g # Refused
    BY <2>0, WkbOf DEF EncodeWkb
  <2>2. x \in Input /\ DecodeSpatialite(x) = y
    BY <1>2, <2>0, SpatialiteRoundTrip
  <2>3. y # NoBytes
    BY <2>1, NoBytesIs
  <2>4. "spatialite" \in Drivers
    BY DEF Drivers
  <2> HIDE DEF x, y
  <2>5. ReadOf("spatialite", g.ty, x) = GeomCell(g.ty, y)
    BY <2>2, <2>3 DEF ReadOf, GeomOf
  <2>6. Settles("spatialite", g.ty, g)
    BY <1>6, <2>1 DEF Settles
  <2>7. ReceivedFrom("spatialite", policy, GeomCell(g.ty, y), view)
    BY <2>1, <2>6, GeomReceived
  <2>8. f = By("spatialite", InColumn(g.ty, x))
    BY <1>6 DEF x
  <2> QED BY <1>3, <2>1, <2>2, <2>4, <2>5, <2>7, <2>8
<1>7. ASSUME NEW g \in Shapes, NEW o \in Orders,
             f = By("postgis", InColumn(g.ty, EncodeEwkb(WkbIn(o, g), Srid)))
      PROVE  /\ f.by \in Drivers /\ f.stored.at = "stored"
             /\ ReceivedFrom(f.by, policy, Get(f.by, f.stored, view), view)
             /\ IsGeom(f.stored) => GeomStored(f.stored)
  <2> DEFINE y == WkbIn(o, g)
             x == EncodeEwkb(y, Srid)
  <2>1. y \in Input /\ DecodeWkb(y) = g /\ TypeOfRow(y) = GeomCell(g.ty, y) /\ g.ty \in Nat /\ g # Refused
    BY <1>1, WkbOf
  <2>2. x \in Input /\ StripSrid(x) = y
    BY <1>1, <1>2, WkbOf
  <2>4. "postgis" \in Drivers
    BY DEF Drivers
  <2> HIDE DEF x, y
  <2>5. ReadOf("postgis", g.ty, x) = GeomCell(g.ty, y)
    BY <2>1, <2>2 DEF ReadOf
  <2>6. Settles("postgis", g.ty, g)
    BY <2>1 DEF Settles
  <2>7. ReceivedFrom("postgis", policy, GeomCell(g.ty, y), view)
    BY <2>1, <2>6, GeomReceived
  <2>8. f = By("postgis", InColumn(g.ty, x))
    BY <1>7 DEF x, y
  <2> QED BY <1>3, <2>1, <2>2, <2>4, <2>5, <2>7, <2>8
<1>8. ASSUME NEW text \in Texts, f = By("csv", InColumn(0, text))
      PROVE  /\ f.by \in Drivers /\ f.stored.at = "stored"
             /\ ReceivedFrom(f.by, policy, Get(f.by, f.stored, view), view)
             /\ IsGeom(f.stored) => GeomStored(f.stored)
  <2>1. text \in Input
    BY CellConvertAssumption
  <2>2. "csv" \in Drivers
    BY DEF Drivers
  <2>3. ReceivedFrom("csv", policy, ReadOf("csv", 0, text), view)
    BY <2>1, TextReceived
  <2> QED BY <1>3, <1>8, <2>1, <2>2, <2>3
<1> QED
  <2>1. \/ f \in Values
        \/ \E g \in Shapes, o \in Orders, code \in 0..4 :
              f = By("gpkg", InColumn(g.ty, GpkgBlob(o, code, Srid, WkbIn(o, g))))
        \/ \E g \in Shapes, o \in Orders : HasMbr(g) /\ f = By("spatialite", InColumn(g.ty, SpatialiteBlob(o, g, Srid)))
        \/ \E g \in Shapes, o \in Orders : f = By("postgis", InColumn(g.ty, EncodeEwkb(WkbIn(o, g), Srid)))
        \/ \E text \in Texts : f = By("csv", InColumn(0, text))
    BY DEF Foreign
  <2> QED BY <1>4, <1>5, <1>6, <1>7, <1>8, <2>1

----------------------------------------------------------------------------
(* The inductive invariant.                                                *)

\* What every variable is, the cells apart.
Typed == /\ loss \in Losses /\ sample \in Samples /\ trips \in Nat /\ own \in BOOLEAN
         /\ stage \in Outcomes \cup {"arrow", "unreadable"}
         /\ damaged \in {"no", "now", "earlier"}
         /\ by \in Drivers \cup {"none"} /\ from \in Drivers \cup {"none"}

\* No driver has had the cell yet.
Fresh == by = "none" => /\ stage = "arrow" /\ cell = before
                        /\ own /\ trips = 0 /\ from = "none" /\ damaged = "no"

\* What is in Arrow is a cell, settled by the driver that read it,
InBatch == stage = "arrow" => /\ ArrowCell(cell)
                              /\ by # "none" /\ damaged = "no" => Settled(by, cell, loss, sample)

\* and what its reader made of what is stored.
InPlace == /\ by # "none" /\ stage \in {"arrow", "unreadable"} =>
                 stored.at = "stored" /\ cell = Get(by, stored, sample) /\ stage = cell.at
           /\ stage \in Outcomes => stored.at = stage

\* What a driver has stored of before, as it was written or damaged.
AsWritten(st) ==
    IF damaged # "now" THEN stored = st
    ELSE /\ st.at = "stored" /\ IsGeom(st) /\ by \in Damageable
         /\ \E u \in Input : Differ(st.w, u) /\ stored = [st EXCEPT !.w = u]

StoredByOwn == own /\ by # "none" =>
    /\ ArrowCell(before)
    /\ from # "none" /\ damaged = "no" => Settled(from, before, loss, sample)
    /\ \E bulk \in BOOLEAN : AsWritten(Put(by, before, bulk, loss))

\* What another program has stored its reader takes or refuses.
FromOutside == ~own =>
    /\ stage \in {"stored", "arrow", "unreadable"} /\ damaged # "earlier"
    /\ stage = "stored" => /\ Received(Get(by, stored, sample))
                           /\ damaged = "no" => ReceivedFrom(by, loss, Get(by, stored, sample), sample)
                           /\ IsGeom(stored) => GeomStored(stored)

IInv == Typed /\ Fresh /\ InBatch /\ InPlace /\ StoredByOwn /\ FromOutside

\* A cell of a reader, and one of another program, begin inside the invariant.
LEMMA InvInit == Init => IInv
<1> SUFFICES ASSUME Init PROVE IInv
  OBVIOUS
<1>1. /\ loss \in Losses /\ sample \in Samples /\ before = cell
      /\ from = "none" /\ damaged = "no" /\ trips = 0 /\ trips \in Nat
  BY DEF Init
<1>2. CASE InArrow
  <2>1. cell \in Cells /\ stage = "arrow" /\ by = "none" /\ own \in BOOLEAN /\ own
    BY <1>2 DEF InArrow
  <2>2. ArrowCell(cell)
    BY <2>1, CellConvertAssumption
  <2>3. stage \notin Outcomes /\ stage \in Outcomes \cup {"arrow", "unreadable"}
    BY <2>1 DEF Outcomes
  <2>4. Typed
    BY <1>1, <2>1, <2>3 DEF Typed
  <2> QED BY <1>1, <2>1, <2>2, <2>3, <2>4 DEF IInv, Fresh, InBatch, InPlace, StoredByOwn, FromOutside
<1>3. CASE InStore
  <2>1. PICK f \in Foreign : stored = f.stored /\ by = f.by /\ stage = "stored" /\ own \in BOOLEAN /\ ~own
    BY <1>3 DEF InStore
  <2>2. /\ by \in Drivers /\ stored.at = "stored" /\ ReceivedFrom(by, loss, Get(by, stored, sample), sample)
        /\ IsGeom(stored) => GeomStored(stored)
    BY <2>1, ForeignReceived
  <2>3. Received(Get(by, stored, sample))
    BY <2>2 DEF ReceivedFrom
  <2>4. by # "none"
    BY <2>2 DEF Drivers
  <2>5. stage \in Outcomes \cup {"arrow", "unreadable"}
    BY <2>1 DEF Outcomes
  <2>6. Typed
    BY <1>1, <2>1, <2>2, <2>5 DEF Typed
  <2> QED BY <1>1, <2>1, <2>2, <2>3, <2>4, <2>6 DEF IInv, Fresh, InBatch, InPlace, StoredByOwn, FromOutside
<1> QED BY <1>2, <1>3 DEF Init

\* write_batch: the writer is given a cell, and what its reader will make of it
\* is known.
LEMMA InvWrite ==
    ASSUME IInv, NEW d \in Drivers, NEW bulk \in BOOLEAN, Write(d, bulk)
    PROVE  IInv'
<1> DEFINE st == Put(d, cell, bulk, loss)
<1>1. /\ stage = "arrow" /\ stored' = st /\ stage' = stored'.at
      /\ by' = d /\ before' = cell /\ from' = by /\ own' = TRUE /\ trips' = trips + 1
      /\ damaged' = (IF damaged = "now" THEN "earlier" ELSE damaged)
      /\ loss' = loss /\ sample' = sample /\ cell' = cell
  BY DEF Write
<1>2. /\ ArrowCell(cell) /\ (by # "none" /\ damaged = "no" => Settled(by, cell, loss, sample))
      /\ loss \in Losses /\ sample \in Samples
      /\ trips \in Nat /\ damaged \in {"no", "now", "earlier"} /\ by \in Drivers \cup {"none"}
  BY <1>1 DEF IInv, InBatch, Typed
<1>3. st.at \in Outcomes
  BY <1>2, PutEnds
<1> HIDE DEF st
<1>4. d # "none" /\ own' \in BOOLEAN /\ own'
  BY <1>1 DEF Drivers
<1>5. stage' \in Outcomes /\ stage' \notin {"arrow", "unreadable"} /\ stored'.at = stage'
  BY <1>1, <1>3 DEF Outcomes
<1>6. damaged' # "now" /\ damaged' \in {"no", "now", "earlier"} /\ (damaged' = "no" => damaged = "no")
  BY <1>1, <1>2
<1>7. Typed'
  <2>1. /\ loss' \in Losses /\ sample' \in Samples
        /\ trips' \in Nat /\ by' \in Drivers \cup {"none"} /\ from' \in Drivers \cup {"none"}
    BY <1>1, <1>2
  <2> QED BY <1>4, <1>5, <1>6, <2>1 DEF Typed
<1>8. Fresh' /\ InBatch' /\ InPlace' /\ FromOutside'
  BY <1>1, <1>4, <1>5 DEF Fresh, InBatch, InPlace, FromOutside
<1>9. StoredByOwn'
  <2>1. ArrowCell(before')
    BY <1>1, <1>2
  <2>2. from' # "none" /\ damaged' = "no" => Settled(from', before', loss', sample')
    BY <1>1, <1>2, <1>6
  <2>3. stored' = Put(by', before', bulk, loss')
    BY <1>1 DEF st
  <2>4. AsWritten(Put(by, before, bulk, loss))'
    BY <1>6, <2>3 DEF AsWritten
  <2>5. (\E b \in BOOLEAN : AsWritten(Put(by, before, b, loss)))'
    BY <2>4
  <2> QED BY <2>1, <2>2, <2>5 DEF StoredByOwn
<1> QED BY <1>7, <1>8, <1>9 DEF IInv

----------------------------------------------------------------------------
(* What damages and reads, and the theorems.                               *)

\* A stored geometry that is damaged: other bytes of the same column.
LEMMA InvDamage ==
    ASSUME IInv, NEW w \in CutOff(stored.w) \cup AddedTo(stored.w), Damage(w)
    PROVE  IInv'
<1>1. /\ stage = "stored" /\ damaged = "no" /\ IsGeom(stored) /\ by \in Damageable
      /\ stored' = [stored EXCEPT !.w = w] /\ damaged' = "now"
      /\ UNCHANGED <<loss, sample, stage, cell, by, before, from, own, trips>>
  BY DEF Damage, Damageable
<1>2. by # "none"
  BY <1>1 DEF Damageable
<1>3. stage \notin {"arrow", "unreadable"} /\ stored.at = "stored"
  BY <1>1 DEF IInv, InPlace, Outcomes
<1>4. GeomStored(stored)
  <2>1. CASE own
    <3>1. PICK bulk \in BOOLEAN : stored = Put(by, before, bulk, loss)
      BY <1>1, <1>2, <2>1 DEF IInv, StoredByOwn, AsWritten
    <3>2. ArrowCell(before) /\ by \in Drivers
      BY <1>1, <1>2, <2>1 DEF IInv, StoredByOwn, Damageable, Drivers
    <3>3. Delivers(by, before, loss, Put(by, before, bulk, loss), sample)
      BY <3>2, Carries
    <3>4. Delivers(by, before, loss, stored, sample)
      BY <3>1, <3>3
    <3> QED BY <1>1, <1>3, <3>4 DEF Delivers
  <2>2. CASE ~own
    BY <1>1, <2>2 DEF IInv, FromOutside
  <2> QED BY <2>1, <2>2
<1>5. PICK s \in Nat, x \in Input : Geometric(stored, s, x)
  BY <1>4 DEF GeomStored
<1>6. stored.w = x /\ Geometric(stored', s, w)
  <2>1. stored.w = x
    BY ONLY <1>5, GeometricBytes
  <2>2. Geometric([stored EXCEPT !.w = w], s, w)
    BY ONLY <1>5, GeometricAgain
  <2> QED BY <1>1, <2>1, <2>2
<1>7. w \in Input /\ Differ(x, w)
  <2>1. /\ \A n \in 0..(Len(x) - 1) : SubSeq(x, 1, n) \in Input /\ Differ(x, SubSeq(x, 1, n))
        /\ \A t \in Token : Append(x, t) \in Input /\ Differ(x, Append(x, t))
    BY DifferIs
  <2>2. Byte(0) \in Token /\ Byte(254) \in Token /\ XY("LE", 1) \in Token /\ XY("-", 1) \in Token /\ Sign(")") \in Token
    <3>1. Byte(0) \in Token /\ Byte(254) \in Token
      BY ByteIs
    <3>2. XY("LE", 1) \in Token /\ XY("-", 1) \in Token
      BY DEF XY, Token, Orders
    <3>3. Sign(")") \in Token
      BY DEF Sign, Token
    <3> QED BY <3>1, <3>2, <3>3
  <2>3. w \in CutOff(x) \/ w \in AddedTo(x)
    BY <1>6
  <2>4. CASE w \in CutOff(x)
    BY <2>1, <2>4 DEF CutOff
  <2>5. CASE w \in AddedTo(x)
    <3>1. PICK t \in {Byte(0), Byte(254), XY("LE", 1), XY("-", 1), Sign(")")} : w = Append(x, t)
      BY <2>5 DEF AddedTo
    <3>2. t \in Token
      BY <2>2, <3>1
    <3> QED BY <2>1, <3>1, <3>2
  <2> QED BY <2>3, <2>4, <2>5
<1>8. stored'.at = "stored"
  BY <1>6, GeometricIs
<1>9. Typed'
  BY <1>1 DEF IInv, Typed
<1>10. Fresh' /\ InBatch' /\ InPlace'
  BY <1>1, <1>2, <1>3, <1>8 DEF Fresh, InBatch, InPlace
<1>11. StoredByOwn'
  <2> SUFFICES ASSUME own PROVE StoredByOwn'
    BY <1>1 DEF StoredByOwn
  <2>1. ArrowCell(before)
    BY <1>2 DEF IInv, StoredByOwn
  <2>2. PICK bulk \in BOOLEAN : stored = Put(by, before, bulk, loss)
    BY <1>1, <1>2 DEF IInv, StoredByOwn, AsWritten
  <2> DEFINE st == Put(by, before, bulk, loss)
  <2>a. st' = st
    BY <1>1
  <2>3. st.at = "stored" /\ IsGeom(st) /\ Differ(st.w, w) /\ stored' = [st EXCEPT !.w = w]
    BY <1>1, <1>3, <1>6, <1>7, <2>2
  <2> HIDE DEF st
  <2>4. AsWritten(st)'
    BY <1>1, <1>7, <2>3, <2>a DEF AsWritten
  <2>5. (\E b \in BOOLEAN : AsWritten(Put(by, before, b, loss)))'
    BY <2>4 DEF st
  <2> QED BY <1>1, <2>1, <2>5 DEF StoredByOwn
<1>12. FromOutside'
  <2>1. Get(by, stored', sample) = ReadOf(by, s, w)
    BY ONLY <1>6, GetGeomIs
  <2>2. Received(ReadOf(by, s, w))
    BY <1>1, <1>5, <1>7, BytesReceived
  <2>3. Received(Get(by, stored, sample))'
    BY <1>1, <2>1, <2>2
  <2>4. GeomStored(stored')
    BY <1>6, <1>7 DEF GeomStored
  <2> QED BY <1>1, <2>3, <2>4 DEF FromOutside
<1> QED BY <1>9, <1>10, <1>11, <1>12 DEF IInv

\* What its own reader makes of a cell that shpx has stored.
LEMMA OwnRead ==
    ASSUME IInv, own, by # "none", stored.at = "stored"
    PROVE  LET r == Get(by, stored, sample) IN
           /\ Received(r) /\ by \in Drivers
           /\ damaged # "now" => Carried(by, before, loss, r, sample)
           /\ damaged = "now" => Noticed(by, before, r, stored.w)
           /\ damaged = "no" => ReceivedFrom(by, loss, r, sample)
<1> DEFINE r == Get(by, stored, sample)
<1>1. by \in Drivers /\ ArrowCell(before)
  BY DEF IInv, Typed, StoredByOwn
<1>2. PICK bulk \in BOOLEAN : AsWritten(Put(by, before, bulk, loss))
  BY DEF IInv, StoredByOwn
<1> DEFINE st == Put(by, before, bulk, loss)
<1>3. Delivers(by, before, loss, st, sample)
  BY <1>1, Carries
<1> HIDE DEF st, r
<1>4. AsWritten(st)
  BY <1>2 DEF st
<1>5. CASE damaged # "now"
  <2>1. stored = st
    BY <1>4, <1>5 DEF AsWritten
  <2>2. Carried(by, before, loss, r, sample)
    BY <1>3, <2>1 DEF Delivers, r
  <2>3. ReceivedFrom(by, loss, r, sample)
    BY <2>2 DEF Carried, ReceivedFrom, Received
  <2>4. Received(r)
    BY <2>3 DEF ReceivedFrom
  <2> QED BY <1>1, <1>5, <2>2, <2>3, <2>4 DEF r
<1>6. CASE damaged = "now"
  <2>1. st.at = "stored" /\ IsGeom(st) /\ by \in Damageable
    BY <1>4, <1>6 DEF AsWritten
  <2>2. PICK u \in Input : Differ(st.w, u) /\ stored = [st EXCEPT !.w = u]
    BY <1>4, <1>6 DEF AsWritten
  <2>3. GeomStored(st) /\ DamageSeen(by, before, st, sample)
    BY <1>3, <2>1 DEF Delivers
  <2>4. PICK s \in Nat, x \in Input : Geometric(st, s, x)
    BY <2>3 DEF GeomStored
  <2>5. Geometric(stored, s, u)
    BY <2>2, <2>4, GeometricAgain
  <2>6. stored.w = u
    BY ONLY <2>5, GeometricBytes
  <2>7. Noticed(by, before, r, u)
    BY <2>1, <2>2, <2>3 DEF DamageSeen, r
  <2>8. Received(r)
    BY <2>7 DEF Noticed, Received
  <2> QED BY <1>1, <1>6, <2>6, <2>7, <2>8 DEF r
<1> QED BY <1>5, <1>6

\* The reader of the driver that stored the cell, or under whose name it lies
\* there.
LEMMA InvRead ==
    ASSUME IInv, Read
    PROVE  IInv'
<1> DEFINE r == Get(by, stored, sample)
<1>1. /\ stage = "stored" /\ cell' = r /\ stage' = cell'.at
      /\ UNCHANGED <<loss, sample, stored, by, before, from, own, damaged, trips>>
  BY DEF Read
<1>2. stored.at = "stored"
  BY <1>1 DEF IInv, InPlace, Outcomes
<1>3. by # "none"
  BY <1>1 DEF IInv, Fresh
<1>4. by \in Drivers /\ Received(r) /\ (damaged = "no" => ReceivedFrom(by, loss, r, sample))
  <2>1. CASE own
    BY <1>2, <1>3, <2>1, OwnRead
  <2>2. CASE ~own
    <3>1. by \in Drivers
      BY <1>3 DEF IInv, Typed
    <3> QED BY <1>1, <2>2, <3>1 DEF IInv, FromOutside
  <2> QED BY <2>1, <2>2
<1> HIDE DEF r
<1>5. stage' \in {"arrow", "unreadable"} /\ stage' \notin Outcomes
  BY <1>1, <1>4 DEF Received, Outcomes
<1>6. Typed'
  BY <1>1, <1>5 DEF IInv, Typed
<1>7. Fresh'
  BY <1>1, <1>3 DEF Fresh
<1>8. InBatch'
  BY <1>1, <1>4 DEF InBatch, Received, ReceivedFrom
<1>9. InPlace'
  BY <1>1, <1>2, <1>5 DEF InPlace, r
<1>10. StoredByOwn'
  <2>1. \A st : AsWritten(st)' <=> AsWritten(st)
    BY <1>1 DEF AsWritten
  <2>2. \A b : Put(by, before, b, loss)' = Put(by, before, b, loss)
    BY <1>1
  <2>3. \A b \in BOOLEAN : AsWritten(Put(by, before, b, loss))' <=> AsWritten(Put(by, before, b, loss))
    BY <1>1 DEF AsWritten
  <2> QED BY <1>1, <2>3 DEF IInv, StoredByOwn
<1>11. FromOutside'
  BY <1>1, <1>5 DEF IInv, FromOutside, Outcomes
<1> QED BY <1>6, <1>7, <1>8, <1>9, <1>10, <1>11 DEF IInv

\* The invariant holds in every state.
THEOREM InvInductive == Spec => []IInv
<1>1. Init => IInv
  BY InvInit
<1>2. ASSUME IInv, [Next]_vars PROVE IInv'
  <2>1. ASSUME NEW d \in Drivers, NEW bulk \in BOOLEAN, Write(d, bulk) PROVE IInv'
    BY <1>2, <2>1, InvWrite
  <2>2. ASSUME NEW w \in CutOff(stored.w) \cup AddedTo(stored.w), Damage(w) PROVE IInv'
    BY <1>2, <2>2, InvDamage
  <2>3. CASE Read
    BY <1>2, <2>3, InvRead
  <2>4. CASE UNCHANGED vars
    BY <1>2, <2>4 DEF vars, IInv, Typed, Fresh, InBatch, InPlace, StoredByOwn, AsWritten, FromOutside
  <2> QED BY <1>2, <2>1, <2>2, <2>3, <2>4 DEF Next, Terminated
<1> QED BY <1>1, <1>2, PTL DEF Spec

\* Under --on-loss error a driver refuses a cell or stores what its own reader
\* gives back as the same value; what drivers change unasked is listed in
\* SilentlyChanged.  For all cells, of shpx and of other programs, and any number
\* of trips.
THEOREM LossIsNeverSilent == Spec => []ErrorMeansExact
<1>1. IInv => ErrorMeansExact
  <2> SUFFICES ASSUME IInv, loss = "error", stage = "arrow", own, damaged # "now", trips > 0
               PROVE  Exact(before, cell) \/ SilentlyChanged(by, before, sample)
    BY DEF ErrorMeansExact
  <2>1. by # "none"
    BY DEF IInv, Fresh
  <2>2. stored.at = "stored" /\ cell = Get(by, stored, sample) /\ cell.at = "arrow"
    BY <2>1 DEF IInv, InPlace
  <2>3. Carried(by, before, loss, Get(by, stored, sample), sample)
    BY <2>1, <2>2, OwnRead
  <2> QED BY <2>2, <2>3 DEF Carried
<1> QED BY <1>1, InvInductive, PTL

\* What a driver has written its own reader reads, but for the types and values
\* KnownUnreadable lists.
THEOREM ReadersTakeTheirOwn == Spec => []OwnReaderReads
<1>1. IInv => OwnReaderReads
  <2> SUFFICES ASSUME IInv, stage = "unreadable", own, damaged = "no"
               PROVE  KnownUnreadable(by, before)
    BY DEF OwnReaderReads
  <2>1. by # "none"
    BY DEF IInv, Fresh
  <2>2. stored.at = "stored" /\ cell = Get(by, stored, sample) /\ cell.at = "unreadable"
    BY <2>1 DEF IInv, InPlace
  <2>3. Carried(by, before, loss, Get(by, stored, sample), sample)
    BY <2>1, <2>2, OwnRead
  <2> QED BY <2>2, <2>3 DEF Carried
<1> QED BY <1>1, InvInductive, PTL

\* Bytes of a GeoPackage, SpatiaLite, GeoJSON or CSV geometry that were cut off
\* at any place, or followed by others, are never taken for another geometry.
THEOREM NoDamageTaken == Spec => []DamageIsNoticed
<1>1. IInv => DamageIsNoticed
  <2> SUFFICES ASSUME IInv, damaged = "now", stage = "arrow", own
               PROVE  \/ DecodeWkb(cell.w) \in {Refused, DecodeWkb(before.w)}
                      \/ cell.v = Gone /\ by = "csv" /\ stored.w = <<>>
    BY DEF DamageIsNoticed
  <2>1. by # "none"
    BY DEF IInv, Fresh
  <2>2. stored.at = "stored" /\ cell = Get(by, stored, sample) /\ cell.at = "arrow"
    BY <2>1 DEF IInv, InPlace
  <2>3. Noticed(by, before, Get(by, stored, sample), stored.w)
    BY <2>1, <2>2, OwnRead
  <2> QED BY <2>2, <2>3 DEF Noticed
<1> QED BY <1>1, InvInductive, PTL

\* What a driver has read it writes again under the same loss policy and reads
\* again as the same type and value; only a shapefile's numbers take one trip
\* more.
THEOREM ReadingSettles == Spec => []SecondTripStable
<1>1. IInv => SecondTripStable
  <2> SUFFICES ASSUME IInv, by = from, own, damaged = "no", stage # "stored"
               PROVE  /\ stage = "arrow"
                      /\ cell.type = before.type
                      /\ Exact(before, cell) \/ (by = "shp" /\ before.v.k \in {"int", "float", "dec"})
    BY DEF SecondTripStable
  <2>1. CASE by = "none"
    <3>1. stage = "arrow" /\ cell = before
      BY <2>1 DEF IInv, Fresh
    <3> QED BY <3>1 DEF Exact
  <2>2. CASE by # "none"
    <3>1. ArrowCell(before) /\ Settled(by, before, loss, sample) /\ by \in Drivers
      BY <2>2 DEF IInv, StoredByOwn, Typed
    <3>2. PICK bulk \in BOOLEAN : stored = Put(by, before, bulk, loss)
      BY <2>2 DEF IInv, StoredByOwn, AsWritten
    <3>3. Delivers(by, before, loss, Put(by, before, bulk, loss), sample)
      BY <3>1, Carries
    <3>4. Delivers(by, before, loss, stored, sample)
      BY <3>2, <3>3
    <3>5. Stays(by, before, stored, Get(by, stored, sample))
      BY <3>1, <3>4 DEF Delivers
    <3>6. stored.at = "stored" /\ Get(by, stored, sample).at = "arrow"
      BY <3>5 DEF Stays
    <3>7. stage \in {"arrow", "unreadable"}
      BY <3>6 DEF IInv, InPlace, Typed, Outcomes
    <3>8. cell = Get(by, stored, sample) /\ stage = cell.at
      BY <2>2, <3>7 DEF IInv, InPlace
    <3> QED BY <3>5, <3>6, <3>8 DEF Stays
  <2> QED BY <2>1, <2>2
<1> QED BY <1>1, InvInductive, PTL
==============================================================================
