----------------------------- MODULE PgNumeric -----------------------------
(***************************************************************************)
(* Arrow Decimal128 and PostgreSQL's binary numeric (copy_binary.rs): an   *)
(* integer with a decimal scale against digits in base 10,000, the first   *)
(* of which stands for 10,000^weight.  The weight may be negative.         *)
(***************************************************************************)
EXTENDS Integers, Sequences, SequencesExt

CONSTANTS MaxPow,   \* the largest power of ten i128 holds: 38 in the code
          MaxAcc    \* i128::MAX

Pow10[n \in Nat] == IF n = 0 THEN 1 ELSE 10 * Pow10[n - 1]

Width == 4           \* decimal digits of one digit
NBase == 10000       \* Pow10[Width]

ASSUME NumericAssumption ==
    /\ MaxPow \in Nat /\ MaxAcc \in Nat /\ MaxPow >= Width
    /\ Pow10[MaxPow] <= MaxAcc           \* 10^38 fits into an i128,
    /\ MaxAcc \div 10 < Pow10[MaxPow]    \* 10^39 does not

NoDecimal == [ok |-> FALSE, v |-> 0]     \* Err(Error::Schema)
Decimal(v) == [ok |-> TRUE, v |-> v]

Numeric(digits, weight, sign) == [digits |-> digits, weight |-> weight, sign |-> sign]

\* What is left of n when its i lowest digits are taken off.
Quotients(n) == LET q[i \in Nat] == IF i = 0 THEN n ELSE q[i - 1] \div NBase IN q

\* The digits of n, the lowest first; 0 has none.
LowDigits(n) ==
    LET q     == Quotients(n)
        count == Min({c \in 0..(MaxPow + 1) : q[c] = 0})
    IN  [i \in 1..count |-> q[i - 1] % NBase]

TrimmedEnd(s) == SubSeq(s, 1, Max({0} \cup {i \in DOMAIN s : s[i] /= 0}))

\* Mutant: the decimals of the lowest digit stay at its lower end.
FromScaledUnpadded(abs, scale, sign) ==
    LET r     == scale % Width
        all   == Reverse((IF r = 0 THEN <<>> ELSE <<abs % Pow10[r]>>) \o LowDigits(abs \div Pow10[r]))
        above == Len(all) - 1 - (scale + (IF r = 0 THEN 0 ELSE Width - r)) \div Width
    IN  Numeric(TrimmedEnd(all), IF TrimmedEnd(all) = <<>> THEN 0 ELSE above, sign)

\* from_u128_scale: where the scale is no multiple of four, the lowest digit
\* holds the last `r` decimals, moved to its upper end.
FromScaled(abs, scale, sign) ==
    LET r      == scale % Width
        pad    == IF r = 0 THEN 0 ELSE Width - r
        low    == (IF r = 0 THEN <<>> ELSE <<(abs % Pow10[r]) * Pow10[pad]>>)
                  \o LowDigits(abs \div Pow10[r])
        all    == Reverse(low)
        weight == Len(all) - 1 - (scale + pad) \div Width
        digits == TrimmedEnd(all)
    IN  Numeric(digits, IF digits = <<>> THEN 0 ELSE weight, sign)

\* from_i128_scale.
FromDecimal(v, scale) ==
    IF v = 0 THEN Numeric(<<>>, 0, "pos")
    ELSE IF v < 0 THEN FromScaled(0 - v, scale, "neg") ELSE FromScaled(v, scale, "pos")

\* checked_mul by a checked_pow of ten, and checked_add.
Shift(acc, n) == IF ~acc.ok \/ n > MaxPow \/ acc.v > MaxAcc \div Pow10[n] THEN NoDecimal
                 ELSE Decimal(acc.v * Pow10[n])
Add(acc, d) == IF ~acc.ok \/ acc.v > MaxAcc - d THEN NoDecimal ELSE Decimal(acc.v + d)

\* The exponent of digit i of n, in decimals of the target scale.
Exponent(n, target, i) == (n.weight - (i - 1)) * Width + target

\* One turn of the loop over the digits: the accumulator moves by the
\* difference of their exponents; of the first digit below the target scale
\* only the upper part is taken.
TakeDigit(n, target, s, i) ==
    LET e    == Exponent(n, target, i)
        high == IF i > 1 /\ e + Width > 0 THEN Shift(s.acc, e + Width) ELSE s.acc
    IN  CASE s.done -> s
          [] ~s.done /\ e < 0 ->
                [acc  |-> IF 0 - e > MaxPow THEN NoDecimal ELSE Add(high, n.digits[i] \div Pow10[0 - e]),
                 done |-> TRUE]
          [] OTHER -> [s EXCEPT !.acc = Add(IF i = 1 THEN @ ELSE Shift(@, Width), n.digits[i])]

Taken(n, target) ==
    LET s[i \in 0..Len(n.digits)] == IF i = 0 THEN [acc |-> Decimal(0), done |-> FALSE]
                                     ELSE TakeDigit(n, target, s[i - 1], i)
    IN  s

\* to_i128_with_scale: what stands below the first digit that is cut is dropped.
ToDecimal(n, target) ==
    LET end  == Taken(n, target)[Len(n.digits)]
        last == Exponent(n, target, Len(n.digits))
        abs  == IF end.done \/ n.digits = <<>> \/ last <= 0 THEN end.acc ELSE Shift(end.acc, last)
    IN  IF n.sign = "nan" THEN NoDecimal
        ELSE [abs EXCEPT !.v = IF n.sign = "neg" THEN 0 - @ ELSE @]
============================================================================
