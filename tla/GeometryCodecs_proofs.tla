------------------------ MODULE GeometryCodecs_proofs ------------------------
(*****************************************************************************)
(* What the geometry codecs promise for every geometry, both byte orders,    *)
(* every SRID and every input, proved with TLAPS.                            *)
(*                                                                           *)
(* The codecs are readers: functions that take what is left of the input     *)
(* and give what they read and what is left then.  Two facts are carried     *)
(* from the tokens up to the whole of each encoding:                         *)
(*   Reader(f, X)       f reads members of X, and reads the same when more   *)
(*                      follows the input;                                   *)
(*   Reads(f, e, x, X)  of e, whatever follows, f reads x and leaves that.   *)
(* Reader says why bytes that are cut off or added to are noticed, Reads     *)
(* why what was written is read as it was.  Repetition is by recursion over  *)
(* numbers in the codecs, and by induction over sets here.                   *)
(*****************************************************************************)
EXTENDS GeometryCodecs, SequenceTheorems, FiniteSetsExt, WellFoundedInduction, TLAPS

----------------------------------------------------------------------------
(* Numbers, repetition and sequences.                                      *)

\* A set of naturals that is not empty has a least element.
LEMMA LeastNumber ==
    ASSUME NEW T \in SUBSET Nat, T # {}
    PROVE  \E m \in T : \A n \in T : m <= n
<1> DEFINE R == OpToRel(<, Nat)
<1>1. \A x, y \in Nat : <<x, y>> \in R <=> x < y
  BY DEF OpToRel
<1>2. IsWellFoundedOn(R, Nat)
  BY NatLessThanWellFounded
<1> HIDE DEF R
<1>3. PICK m \in T : \A n \in T : ~(<<n, m>> \in R)
  BY <1>2, WFMin
<1>4. ASSUME NEW n \in T PROVE m <= n
  <2>1. m \in Nat /\ n \in Nat
    OBVIOUS
  <2>2. ~(n < m)
    BY <1>1, <1>3, <2>1
  <2> QED BY <2>1, <2>2
<1> QED BY <1>4

\* What holds of 0 and passes from n to n + 1 holds of every number.
LEMMA SetInduction ==
    ASSUME NEW T, 0 \in T, \A n \in Nat : n \in T => n + 1 \in T
    PROVE  \A n \in Nat : n \in T
<1> SUFFICES ASSUME Nat \ T # {} PROVE FALSE
  OBVIOUS
<1>1. PICK m \in Nat \ T : \A n \in Nat \ T : m <= n
  BY LeastNumber
<1>2. m - 1 \in Nat /\ m - 1 \notin Nat \ T
  BY <1>1
<1> QED BY <1>1, <1>2

\* g folds step over 1..N from c, inside S: step also gets the number it is at.
FoldsOver(g, S, c, step, N) ==
    /\ g \in [0..N -> S]
    /\ g[0] = c
    /\ \A i \in 1..N : g[i] = step[<<i, g[i - 1]>>]

\* A step that depends on the number it is at folds to a function too.
LEMMA NumberedIteration ==
    ASSUME NEW S, NEW c \in S, NEW N \in Nat, NEW step \in [(1..N) \X S -> S]
    PROVE  \E g : FoldsOver(g, S, c, step, N)
<1> DEFINE T == {n \in Nat : n <= N => \E g : FoldsOver(g, S, c, step, n)}
<1>1. 0 \in T
  <2> DEFINE g == [i \in 0..0 |-> c]
  <2>1. g \in [0..0 -> S] /\ g[0] = c
    OBVIOUS
  <2>2. \A i \in 1..0 : g[i] = step[<<i, g[i - 1]>>]
    OBVIOUS
  <2> HIDE DEF g
  <2> QED BY <2>1, <2>2 DEF FoldsOver
<1>2. ASSUME NEW n \in Nat, n \in T PROVE n + 1 \in T
  <2> SUFFICES ASSUME n + 1 <= N PROVE \E g : FoldsOver(g, S, c, step, n + 1)
    OBVIOUS
  <2>1. PICK g : FoldsOver(g, S, c, step, n)
    BY <1>2
  <2> DEFINE h == [i \in 0..(n + 1) |-> IF i <= n THEN g[i] ELSE step[<<n + 1, g[n]>>]]
  <2>2. n + 1 \in 1..N /\ g[n] \in S /\ step[<<n + 1, g[n]>>] \in S
    BY <2>1 DEF FoldsOver
  <2>3. h \in [0..(n + 1) -> S] /\ h[0] = c
    BY <2>1, <2>2 DEF FoldsOver
  <2>4. \A i \in 1..(n + 1) : h[i] = step[<<i, h[i - 1]>>]
    <3> TAKE i \in 1..(n + 1)
    <3>1. CASE i <= n
      BY <2>1, <3>1 DEF FoldsOver
    <3>2. CASE i = n + 1
      <4>1. ~(n + 1 <= n) /\ n <= n /\ n + 1 \in 0..(n + 1) /\ n \in 0..(n + 1) /\ (n + 1) - 1 = n
        OBVIOUS
      <4>2. h[n + 1] = step[<<n + 1, g[n]>>] /\ h[n] = g[n]
        BY <4>1
      <4> QED BY <3>2, <4>1, <4>2
    <3> QED BY <3>1, <3>2
  <2> HIDE DEF h
  <2> QED BY <2>3, <2>4 DEF FoldsOver
<1> HIDE DEF T
<1>3. N \in T
  BY <1>1, <1>2, SetInduction
<1> QED BY <1>3 DEF T

\* f repeats step from c without an end.
Recurses(f, S, c, step) ==
    /\ f \in [Nat -> S]
    /\ f[0] = c
    /\ \A i \in Nat \ {0} : f[i] = step[<<i, f[i - 1]>>]

\* A recursive function on the naturals exists.
LEMMA NaturalRecursion ==
    ASSUME NEW S, NEW c \in S, NEW step \in [(Nat \ {0}) \X S -> S]
    PROVE  \E f : Recurses(f, S, c, step)
<1> DEFINE Upto(n) == [p \in (1..n) \X S |-> step[p]]
           G(n) == CHOOSE g : FoldsOver(g, S, c, Upto(n), n)
           f == [n \in Nat |-> G(n)[n]]
<1>1. ASSUME NEW n \in Nat PROVE FoldsOver(G(n), S, c, Upto(n), n)
  <2>1. Upto(n) \in [(1..n) \X S -> S]
    OBVIOUS
  <2> HIDE DEF Upto
  <2>2. \E g : FoldsOver(g, S, c, Upto(n), n)
    BY <2>1, NumberedIteration
  <2> QED BY <2>2
<1>2. ASSUME NEW n \in Nat PROVE /\ G(n) \in [0..n -> S] /\ G(n)[0] = c
                                /\ \A i \in 1..n : G(n)[i] = step[<<i, G(n)[i - 1]>>]
  <2>1. G(n) \in [0..n -> S] /\ G(n)[0] = c /\ \A i \in 1..n : G(n)[i] = Upto(n)[<<i, G(n)[i - 1]>>]
    BY <1>1 DEF FoldsOver
  <2> HIDE DEF G
  <2>2. ASSUME NEW i \in 1..n PROVE Upto(n)[<<i, G(n)[i - 1]>>] = step[<<i, G(n)[i - 1]>>]
    <3>1. G(n)[i - 1] \in S
      BY <2>1
    <3> QED BY <3>1
  <2> HIDE DEF Upto
  <2> QED BY <2>1, <2>2
<1> HIDE DEF G
<1>3. ASSUME NEW n \in Nat PROVE G(n + 1)[n] = G(n)[n]
  <2> DEFINE T == {i \in Nat : i <= n => G(n + 1)[i] = G(n)[i]}
  <2>1. 0 \in T
    BY <1>2
  <2>2. ASSUME NEW i \in Nat, i \in T PROVE i + 1 \in T
    <3> SUFFICES ASSUME i + 1 <= n PROVE G(n + 1)[i + 1] = G(n)[i + 1]
      OBVIOUS
    <3>1. G(n + 1)[i] = G(n)[i]
      BY <2>2
    <3>2. i + 1 \in 1..n /\ i + 1 \in 1..(n + 1) /\ (i + 1) - 1 = i
      OBVIOUS
    <3>3. G(n)[i + 1] = step[<<i + 1, G(n)[i]>>] /\ G(n + 1)[i + 1] = step[<<i + 1, G(n + 1)[i]>>]
      BY <1>2, <3>2
    <3> QED BY <3>1, <3>3
  <2> HIDE DEF T
  <2>3. n \in T
    BY <2>1, <2>2, SetInduction
  <2> QED BY <2>3 DEF T
<1>4. f \in [Nat -> S] /\ f[0] = c
  <2>1. \A n \in Nat : G(n)[n] \in S
    BY <1>2
  <2> QED BY <1>2, <2>1
<1>5. ASSUME NEW i \in Nat \ {0} PROVE f[i] = step[<<i, f[i - 1]>>]
  <2>1. i - 1 \in Nat /\ (i - 1) + 1 = i /\ i \in 1..i
    OBVIOUS
  <2>2. G(i)[i - 1] = G(i - 1)[i - 1]
    BY <1>3, <2>1
  <2>3. G(i)[i] = step[<<i, G(i)[i - 1]>>]
    BY <1>2, <2>1
  <2> QED BY <2>1, <2>2, <2>3
<1> HIDE DEF f
<1> QED BY <1>4, <1>5 DEF Recurses

----------------------------------------------------------------------------
(* Sequences. *)

\* A function on 1..n is a sequence of length n.
LEMMA FunctionIsSeq ==
    ASSUME NEW S, NEW n \in Nat, NEW f \in [1..n -> S]
    PROVE  f \in Seq(S) /\ Len(f) = n
OBVIOUS

----------------------------------------------------------------------------
(* Tokens, inputs and readers.                                             *)

\* What a reader yields, taken apart.
LEMMA GotIs ==
    /\ \A a, b : Got(a, b).ok /\ Got(a, b).in = a /\ Got(a, b).out = b
    /\ ~Stop.ok
    /\ \A a, b, c, d : Got(a, b) = Got(c, d) <=> a = c /\ b = d
BY DEF Got, Stop

\* A pair.
LEMMA PairIs ==
    ASSUME NEW T, NEW a \in T, NEW b \in T
    PROVE  <<a>> \o <<b>> = <<a, b>>
<1> DEFINE s == <<a>>
           t == <<b>>
           u == <<a, b>>
           r == s \o t
<1>1. s \in Seq(T) /\ t \in Seq(T) /\ Len(s) = 1 /\ Len(t) = 1 /\ s[1] = a /\ t[1] = b
  OBVIOUS
<1>2. u \in Seq(T) /\ Len(u) = 2 /\ u[1] = a /\ u[2] = b
  OBVIOUS
<1> HIDE DEF s, t, u
<1>3. r \in Seq(T) /\ Len(r) = Len(s) + Len(t) /\ \A i \in 1..(Len(s) + Len(t)) : r[i] = IF i <= Len(s) THEN s[i] ELSE t[i - Len(s)]
  BY <1>1, ConcatProperties
<1> HIDE DEF r
<1>4. r[1] = a /\ r[2] = b /\ Len(r) = 2
  BY <1>1, <1>3
<1>5. \A i \in 1..Len(r) : r[i] = u[i]
  BY <1>2, <1>4
<1>6. r = u
  BY <1>2, <1>3, <1>4, <1>5, SeqEqual
<1> QED BY <1>6 DEF r, s, t, u

\* Tokens and inputs.
LEMMA TokensAre ==
    /\ \A n \in Nat : Byte(n) \in Token
    /\ \A o \in Orders, n \in Nat : U32(o, n) \in Token
    /\ \A o \in Orders \cup {"-"}, n \in Nat : XY(o, n) \in Token
    /\ \A k \in {"(", ")", ","} : Sign(k) \in Token
    /\ \A n \in Nat : [k |-> "word", o |-> "-", v |-> n] \in Token
    /\ \A o \in Orders : OrderByte(o) \in Token
BY DEF Byte, U32, XY, Sign, Token, Orders, OrderByte

\* Bytes among them.
LEMMA ByteIs == \A n \in Nat : Byte(n) \in Token
BY DEF Byte, Token

\* The byte of a byte order tells which it is.
LEMMA OrdersAre ==
    /\ \A o \in Orders : OrderByte(o).k = "byte" /\ OrderByte(o).o = "-" /\ OrderByte(o).v \in {0, 1}
                         /\ OrderOf(OrderByte(o).v) = o
    /\ \A b : OrderOf(b) \in Orders
BY DEF OrderByte, OrderOf, Orders, Byte

\* Inputs can be joined.
LEMMA InputIs ==
    /\ <<>> \in Input
    /\ \A t \in Token : <<t>> \in Input
    /\ \A a, b \in Input : a \o b \in Input /\ Len(a \o b) = Len(a) + Len(b)
    /\ \A a \in Input : a \o <<>> = a /\ <<>> \o a = a /\ Len(a) \in Nat
    /\ \A a, b, c \in Input : (a \o b) \o c = a \o (b \o c)
<1>1. <<>> \in Input /\ \A t \in Token : <<t>> \in Input
  BY DEF Input
<1>2. \A a, b \in Input : a \o b \in Input /\ Len(a \o b) = Len(a) + Len(b)
  BY DEF Input
<1>3. \A a \in Input : a \o <<>> = a /\ <<>> \o a = a /\ Len(a) \in Nat
  BY DEF Input
<1>4. ASSUME NEW a \in Input, NEW b \in Input, NEW c \in Input PROVE (a \o b) \o c = a \o (b \o c)
  BY DEF Input
<1> QED BY <1>1, <1>2, <1>3, <1>4

\* The first token and the others.
LEMMA HeadIs ==
    /\ \A t \in Token, a \in Input : LET in == <<t>> \o a IN in # <<>> /\ Head(in) = t /\ Tail(in) = a
    /\ \A in \in Input : in # <<>> => Head(in) \in Token /\ Tail(in) \in Input /\ in = <<Head(in)>> \o Tail(in)
                                      /\ Len(Tail(in)) = Len(in) - 1
    /\ \A in, y \in Input : in # <<>> => in \o y # <<>> /\ Head(in \o y) = Head(in) /\ Tail(in \o y) = Tail(in) \o y
<1>1. ASSUME NEW t \in Token, NEW a \in Input PROVE LET in == <<t>> \o a IN in # <<>> /\ Head(in) = t /\ Tail(in) = a
  BY DEF Input
<1>2. ASSUME NEW in \in Input, in # <<>>
      PROVE Head(in) \in Token /\ Tail(in) \in Input /\ in = <<Head(in)>> \o Tail(in) /\ Len(Tail(in)) = Len(in) - 1
  BY <1>2 DEF Input
<1>3. ASSUME NEW in \in Input, NEW y \in Input, in # <<>>
      PROVE in \o y # <<>> /\ Head(in \o y) = Head(in) /\ Tail(in \o y) = Tail(in) \o y
  <2>1. in \o y = <<Head(in)>> \o (Tail(in) \o y)
    <3>1. in = <<Head(in)>> \o Tail(in) /\ Head(in) \in Token /\ Tail(in) \in Input
      BY <1>2, <1>3
    <3>2. <<Head(in)>> \in Input
      BY <3>1, InputIs
    <3>3. (<<Head(in)>> \o Tail(in)) \o y = <<Head(in)>> \o (Tail(in) \o y)
      BY ZenonT(60), <3>1, <3>2, InputIs
    <3> QED BY <3>1, <3>3
  <2>2. Tail(in) \o y \in Input /\ Head(in) \in Token
    BY <1>2, <1>3, InputIs
  <2> QED BY <1>1, <2>1, <2>2
<1> QED BY <1>1, <1>2, <1>3

\* What f reads is of X, and it reads the same when more follows.
Reader(f, X) ==
    \A in \in Input : f[in].ok =>
        /\ f[in].in \in Input /\ f[in].out \in X
        /\ \A y \in Input : f[in \o y] = Got(f[in].in \o y, f[in].out)

\* Of e and whatever follows it f reads x, or nothing, and x if it is of X.
Reads(f, e, x, X) ==
    \A rest \in Input : /\ f[e \o rest].ok => f[e \o rest] = Got(rest, x)
                        /\ x \in X => f[e \o rest] = Got(rest, x)

\* Take reads one token of a kind and an order.
LEMMA TakeIs ==
    ASSUME NEW k, NEW o
    PROVE  LET f == [in \in Input |-> Take(in, k, o)] IN
           /\ Reader(f, Nat)
           /\ \A t \in Token, a \in Input : t.k = k /\ t.o = o => Take(<<t>> \o a, k, o) = Got(a, t.v)
           /\ \A in \in Input : Take(in, k, o).ok => in # <<>> /\ in = <<Head(in)>> \o Take(in, k, o).in
                                                     /\ Head(in).k = k /\ Head(in).o = o /\ Head(in).v = Take(in, k, o).out
<1> DEFINE f == [in \in Input |-> Take(in, k, o)]
<1>0. \A t \in Token : t.v \in Nat
  BY DEF Token
<1>1. ASSUME NEW in \in Input, Take(in, k, o).ok
      PROVE  in # <<>> /\ Head(in).k = k /\ Head(in).o = o /\ Take(in, k, o) = Got(Tail(in), Head(in).v)
  BY <1>1, GotIs DEF Take
<1>2. Reader(f, Nat)
  <2> SUFFICES ASSUME NEW in \in Input, f[in].ok
               PROVE  /\ f[in].in \in Input /\ f[in].out \in Nat
                      /\ \A y \in Input : f[in \o y] = Got(f[in].in \o y, f[in].out)
    BY DEF Reader
  <2>1. in # <<>> /\ Head(in).k = k /\ Head(in).o = o /\ f[in] = Got(Tail(in), Head(in).v)
    BY <1>1
  <2>2. f[in].in = Tail(in) /\ f[in].out = Head(in).v
    BY <2>1 DEF Got
  <2>3. ASSUME NEW y \in Input PROVE f[in \o y] = Got(Tail(in) \o y, Head(in).v)
    <3>1. in \o y \in Input /\ in \o y # <<>> /\ Head(in \o y) = Head(in) /\ Tail(in \o y) = Tail(in) \o y
      BY ZenonT(60), <2>1, HeadIs, InputIs
    <3>2. Take(in \o y, k, o) = Got(Tail(in) \o y, Head(in).v)
      BY <2>1, <3>1 DEF Take
    <3> QED BY <3>1, <3>2
  <2>4. Tail(in) \in Input /\ Head(in).v \in Nat
    BY <1>0, <2>1, HeadIs
  <2> HIDE DEF f
  <2> QED BY <2>2, <2>3, <2>4
<1>3. ASSUME NEW t \in Token, NEW a \in Input, t.k = k, t.o = o PROVE Take(<<t>> \o a, k, o) = Got(a, t.v)
  <2>1. LET in == <<t>> \o a IN in # <<>> /\ Head(in) = t /\ Tail(in) = a
    BY SMTT(20), HeadIs
  <2> QED BY <1>3, <2>1 DEF Take
<1>4. ASSUME NEW in \in Input, Take(in, k, o).ok
      PROVE in # <<>> /\ in = <<Head(in)>> \o Take(in, k, o).in
            /\ Head(in).k = k /\ Head(in).o = o /\ Head(in).v = Take(in, k, o).out
  <2>1. in # <<>> /\ Head(in).k = k /\ Head(in).o = o /\ Take(in, k, o) = Got(Tail(in), Head(in).v)
    BY <1>1, <1>4
  <2>2. Take(in, k, o).in = Tail(in) /\ Take(in, k, o).out = Head(in).v
    BY <2>1 DEF Got
  <2>3. in = <<Head(in)>> \o Tail(in)
    BY <2>1, HeadIs
  <2> QED BY <2>1, <2>2, <2>3
<1> QED BY <1>2, <1>3, <1>4

----------------------------------------------------------------------------
(* Sequences of encodings, and the loop that reads counted items.          *)

\* The sequences of s one after the other, and what there is after i of them.
Flattens(P, s, T, n) ==
    /\ P \in [0..n -> Seq(T)] /\ P[0] = <<>>
    /\ \A i \in 1..n : P[i] = P[i - 1] \o s[i]
    /\ FlattenSeq(s) = P[n]

\* FlattenSeq joins the sequences one by one.
LEMMA FlattenIs ==
    ASSUME NEW T, NEW s \in Seq(Seq(T)), NEW n, n = Len(s)
    PROVE  n \in Nat /\ \E P : Flattens(P, s, T, n)
<1>0. n \in Nat /\ \A i \in 1..n : s[i] \in Seq(T)
  OBVIOUS
<1> DEFINE step == [p \in (1..n) \X Seq(T) |-> p[2] \o s[p[1]]]
<1>1. PICK P : FoldsOver(P, Seq(T), <<>>, step, n)
  <2>1. step \in [(1..n) \X Seq(T) -> Seq(T)]
    <3>1. ASSUME NEW p \in (1..n) \X Seq(T) PROVE p[2] \o s[p[1]] \in Seq(T)
      <4>1. p[2] \in Seq(T) /\ s[p[1]] \in Seq(T)
        BY <1>0
      <4> QED BY <4>1
    <3> QED BY <3>1
  <2>2. <<>> \in Seq(T)
    OBVIOUS
  <2> HIDE DEF step
  <2> QED BY <1>0, <2>1, <2>2, NumberedIteration
<1>2. P \in [0..n -> Seq(T)] /\ P[0] = <<>> /\ \A i \in 1..n : P[i] = P[i - 1] \o s[i]
  <2>1. P \in [0..n -> Seq(T)] /\ P[0] = <<>> /\ \A i \in 1..n : P[i] = step[<<i, P[i - 1]>>]
    BY <1>1 DEF FoldsOver
  <2>2. ASSUME NEW i \in 1..n PROVE P[i] = P[i - 1] \o s[i]
    <3>0. i - 1 \in 0..n
      BY <1>0
    <3>1. P[i - 1] \in Seq(T) /\ P[i] = step[<<i, P[i - 1]>>]
      <4> HIDE DEF step
      <4>1. P[i - 1] \in Seq(T)
        BY <2>1, <3>0
      <4>2. P[i] = step[<<i, P[i - 1]>>]
        BY <2>1
      <4> QED BY <4>1, <4>2
    <3>2. <<i, P[i - 1]>> \in (1..n) \X Seq(T)
      BY <3>1
    <3> HIDE <2>1
    <3> QED BY <3>1, <3>2
  <2> QED BY <2>1, <2>2
<1> HIDE DEF step
<1>3. CASE n = 0
  <2>1. FlattenSeq(s) = s
    BY <1>3 DEF FlattenSeq
  <2>2. s = <<>>
    <3> DEFINE A == Seq(T)
    <3>1. s \in Seq(A) /\ Len(s) = 0
      BY <1>3
    <3> HIDE DEF A
    <3> QED BY <3>1
  <2>3. Flattens(P, s, T, n)
    BY <1>2, <1>3, <2>1, <2>2 DEF Flattens
  <2> QED BY <1>0, <2>3
<1>4. CASE n # 0
  <2> DEFINE F == CHOOSE f : f = [i \in 1..n |-> IF i = 1 THEN s[i] ELSE f[i - 1] \o s[i]]
             g == [i \in 1..n |-> P[i]]
  <2>1. FlattenSeq(s) = F[n]
    BY <1>0, <1>4 DEF FlattenSeq
  <2>2. g = [i \in 1..n |-> IF i = 1 THEN s[i] ELSE g[i - 1] \o s[i]]
    <3>1. ASSUME NEW i \in 1..n PROVE P[i] = IF i = 1 THEN s[i] ELSE P[i - 1] \o s[i]
      <4>1. P[i] = P[i - 1] \o s[i] /\ s[i] \in Seq(T)
        BY <1>0, <1>2
      <4>2. CASE i = 1
        <5>1. P[i - 1] = <<>>
          BY <1>2, <4>2
        <5>2. <<>> \o s[i] = s[i]
          BY <4>1
        <5> QED BY <4>1, <4>2, <5>1, <5>2
      <4> QED BY <4>1, <4>2
    <3>2. ASSUME NEW i \in 1..n, i # 1 PROVE g[i - 1] = P[i - 1]
      BY SMTT(20), <1>0, <3>2
    <3> QED BY <3>1, <3>2
  <2> HIDE DEF g
  <2>3. F = [i \in 1..n |-> IF i = 1 THEN s[i] ELSE F[i - 1] \o s[i]]
    BY <2>2
  <2> HIDE DEF F
  <2> DEFINE U == {i \in Nat : i + 1 <= n => F[i + 1] = P[i + 1]}
  <2>4. 0 \in U
    <3>1. 1 \in 1..n
      BY <1>0, <1>4
    <3>2. F[1] = s[1]
      BY <2>3, <3>1
    <3>3. s[1] \in Seq(T)
      BY <1>0, <3>1
    <3>a. P[1] = P[0] \o s[1]
      <4>1. \A i \in 1..n : \A j : j = i - 1 => P[i] = P[j] \o s[i]
        BY <1>2
      <4>2. 0 = 1 - 1
        OBVIOUS
      <4> QED BY <3>1, <4>1, <4>2
    <3>b. <<>> \o s[1] = s[1]
      BY <3>3
    <3>4. P[1] = s[1]
      BY <1>2, <3>a, <3>b
    <3> QED BY <3>2, <3>4
  <2>5. ASSUME NEW i \in Nat, i \in U PROVE i + 1 \in U
    <3> SUFFICES ASSUME i + 1 + 1 <= n PROVE F[i + 1 + 1] = P[i + 1 + 1]
      OBVIOUS
    <3>1. i + 1 + 1 \in 1..n /\ i + 1 + 1 # 1 /\ (i + 1 + 1) - 1 = i + 1 /\ i + 1 <= n
      BY <1>0
    <3>2. F[i + 1 + 1] = F[i + 1] \o s[i + 1 + 1]
      BY <2>3, <3>1
    <3>3. P[i + 1 + 1] = P[i + 1] \o s[i + 1 + 1]
      BY <1>2, <3>1
    <3> QED BY <2>5, <3>1, <3>2, <3>3
  <2> HIDE DEF U
  <2>6. n - 1 \in U
    <3>1. \A i \in Nat : i \in U
      BY <2>4, <2>5, SetInduction
    <3> QED BY <1>0, <1>4, <3>1
  <2>7. F[n] = P[n]
    BY <1>0, <2>6 DEF U
  <2>8. Flattens(P, s, T, n)
    BY <1>2, <2>1, <2>7 DEF Flattens
  <2> QED BY <1>0, <2>8
<1> QED BY <1>3, <1>4

\* One item more.
Once(item, r) ==
    Then(r, LAMBDA rest, items : Then(item[rest], LAMBDA left, x : Got(left, Append(items, x))))

States(X) == {Stop} \cup {Got(in, out) : in \in Input, out \in Seq(X)}

\* States of the loop that reads counted items:
LEMMA GotIsState ==
    ASSUME NEW X, NEW in \in Input, NEW out \in Seq(X)
    PROVE  Got(in, out) \in States(X)
BY DEF States

\* it has read some, or has stopped.
LEMMA StatesAre ==
    ASSUME NEW X, NEW r \in States(X)
    PROVE  /\ r.ok => r.in \in Input /\ r.out \in Seq(X) /\ r = Got(r.in, r.out)
           /\ ~r.ok => r = Stop
<1>1. CASE r = Stop
  BY <1>1 DEF Stop
<1>2. ASSUME NEW in \in Input, NEW out \in Seq(X), r = Got(in, out)
      PROVE r.ok /\ r.in \in Input /\ r.out \in Seq(X) /\ r = Got(r.in, r.out)
  <2>1. r.ok /\ r.in = in /\ r.out = out
    BY <1>2 DEF Got
  <2> QED BY <1>2, <2>1
<1> QED BY <1>1, <1>2 DEF States

\* One item more is read, or the loop stops.
LEMMA OnceIs ==
    ASSUME NEW item, NEW X, Reader(item, X), NEW r \in States(X)
    PROVE  /\ Once(item, r) \in States(X)
           /\ Once(item, r).ok <=> r.ok /\ item[r.in].ok
           /\ Once(item, r).ok => Once(item, r) = Got(item[r.in].in, Append(r.out, item[r.in].out))
<1>1. CASE ~r.ok
  <2>1. Once(item, r) = Stop
    BY <1>1 DEF Once, Then
  <2>2. ~Once(item, r).ok
    BY <2>1 DEF Stop
  <2>3. Once(item, r) \in States(X)
    BY <2>1 DEF States
  <2> QED BY <1>1, <2>2, <2>3
<1>2. CASE r.ok
  <2>1. r.in \in Input /\ r.out \in Seq(X)
    BY <1>2, StatesAre
  <2>2. Once(item, r) = IF item[r.in].ok THEN Got(item[r.in].in, Append(r.out, item[r.in].out)) ELSE Stop
    BY <1>2 DEF Once, Then
  <2>3. CASE item[r.in].ok
    <3>1. item[r.in].in \in Input /\ item[r.in].out \in X
      BY <2>1, <2>3 DEF Reader
    <3>2. Append(r.out, item[r.in].out) \in Seq(X)
      BY <2>1, <3>1
    <3>3. Once(item, r) = Got(item[r.in].in, Append(r.out, item[r.in].out))
      BY <2>2, <2>3
    <3>4. Once(item, r).ok
      BY <3>3 DEF Got
    <3>5. Once(item, r) \in States(X)
      BY <3>1, <3>2, <3>3, GotIsState
    <3> QED BY <1>2, <2>3, <3>3, <3>4, <3>5
  <2>4. CASE ~item[r.in].ok
    <3>1. Once(item, r) = Stop
      BY <2>2, <2>4
    <3>2. ~Once(item, r).ok
      BY <3>1 DEF Stop
    <3>3. Once(item, r) \in States(X)
      BY <3>1 DEF States
    <3> QED BY <1>2, <2>4, <3>2, <3>3
  <2> QED BY <2>3, <2>4
<1> QED BY <1>1, <1>2

\* The loop from its start.
LEMMA RepeatedIs ==
    ASSUME NEW item, NEW X, Reader(item, X), NEW in \in Input
    PROVE  /\ Repeated(in, item)[0] = Got(in, <<>>)
           /\ \A i \in Nat : /\ Repeated(in, item)[i] \in States(X)
                             /\ Repeated(in, item)[i + 1] = Once(item, Repeated(in, item)[i])
<1> DEFINE S == States(X)
           step == [p \in (Nat \ {0}) \X S |-> Once(item, p[2])]
           c == Got(in, <<>>)
<1>1. c \in S
  <2>1. <<>> \in Seq(X) /\ in \in Input
    OBVIOUS
  <2> QED BY <2>1, GotIsState
<1>2. step \in [(Nat \ {0}) \X S -> S]
  <2>1. ASSUME NEW r \in S PROVE Once(item, r) \in S
    BY OnceIs
  <2> HIDE DEF S
  <2> QED BY <2>1
<1>3. \A i \in Nat \ {0}, r \in S : step[<<i, r>>] = Once(item, r)
  OBVIOUS
<1>4. Repeated(in, item) = CHOOSE f : f = [i \in Nat |-> IF i = 0 THEN c ELSE Once(item, f[i - 1])]
  BY DEF Repeated, Once
<1> HIDE DEF step, c, S
<1>5. PICK g : Recurses(g, S, c, step)
  BY <1>1, <1>2, NaturalRecursion
<1>6. g \in [Nat -> S] /\ g[0] = c /\ \A i \in Nat \ {0} : g[i] = Once(item, g[i - 1])
  <2>1. g \in [Nat -> S] /\ g[0] = c /\ \A i \in Nat \ {0} : g[i] = step[<<i, g[i - 1]>>]
    BY <1>5 DEF Recurses
  <2>2. ASSUME NEW i \in Nat \ {0} PROVE g[i] = Once(item, g[i - 1])
    <3>1. g[i - 1] \in S
      BY <2>1
    <3> QED BY <1>3, <2>1, <3>1
  <2> QED BY <2>1, <2>2
<1>7. g = [i \in Nat |-> IF i = 0 THEN c ELSE Once(item, g[i - 1])]
  BY <1>6
<1> DEFINE f == Repeated(in, item)
<1>8. f = [i \in Nat |-> IF i = 0 THEN c ELSE Once(item, f[i - 1])]
  BY <1>4, <1>7
<1> HIDE DEF f
<1>9. f[0] = c /\ \A i \in Nat : f[i + 1] = Once(item, f[i])
  <2>1. f[0] = c
    BY <1>8
  <2>2. ASSUME NEW i \in Nat PROVE f[i + 1] = Once(item, f[i])
    BY <1>8
  <2> QED BY <2>1, <2>2
<1> DEFINE T == {i \in Nat : f[i] \in S}
<1>10. 0 \in T
  BY <1>1, <1>9
<1>11. ASSUME NEW i \in Nat, i \in T PROVE i + 1 \in T
  <2>1. Once(item, f[i]) \in S
    BY <1>11, OnceIs DEF S
  <2> QED BY <1>9, <2>1
<1> HIDE DEF T
<1>12. \A i \in Nat : i \in T
  BY <1>10, <1>11, SetInduction
<1> QED BY <1>9, <1>12 DEF T, S, f, c

\* Reading items is reading, and reads the same when more follows.
LEMMA RepeatedReads ==
    ASSUME NEW item, NEW X, Reader(item, X), NEW in \in Input, NEW n \in Nat, Repeated(in, item)[n].ok
    PROVE  LET r == Repeated(in, item)[n] IN
           /\ r.in \in Input /\ r.out \in Seq(X)
           /\ \A y \in Input : Repeated(in \o y, item)[n] = Got(r.in \o y, r.out)
<1> DEFINE R(i) == Repeated(in, item)[i]
<1>1. R(n) \in States(X)
  BY RepeatedIs
<1>2. ASSUME NEW y \in Input
      PROVE  Repeated(in \o y, item)[n] = Got(R(n).in \o y, R(n).out)
  <2> DEFINE Q(i) == Repeated(in \o y, item)[i]
             T == {i \in Nat : R(i).ok => Q(i) = Got(R(i).in \o y, R(i).out)}
  <2>0. in \o y \in Input
    BY InputIs
  <2>1. R(0) = Got(in, <<>>) /\ Q(0) = Got(in \o y, <<>>)
    BY <2>0, RepeatedIs
  <2>2. \A i \in Nat : /\ R(i) \in States(X) /\ R(i + 1) = Once(item, R(i))
                       /\ Q(i) \in States(X) /\ Q(i + 1) = Once(item, Q(i))
    BY <2>0, RepeatedIs
  <2> HIDE DEF R, Q
  <2>3. 0 \in T
    <3>1. R(0).in = in /\ R(0).out = <<>>
      BY <2>1 DEF Got
    <3> QED BY <2>1, <3>1
  <2>4. ASSUME NEW i \in Nat, i \in T PROVE i + 1 \in T
    <3> SUFFICES ASSUME R(i + 1).ok PROVE Q(i + 1) = Got(R(i + 1).in \o y, R(i + 1).out)
      OBVIOUS
    <3> DEFINE r == R(i)
               a == item[r.in]
    <3>1. r \in States(X) /\ Once(item, r).ok /\ R(i + 1) = Once(item, r)
      BY <2>2
    <3> HIDE DEF r
    <3>2. r.ok /\ a.ok /\ Once(item, r) = Got(a.in, Append(r.out, a.out))
      BY <3>1, OnceIs
    <3>3. r.in \in Input
      BY <3>1, <3>2, StatesAre
    <3>4. item[r.in \o y] = Got(a.in \o y, a.out)
      BY <3>2, <3>3 DEF Reader
    <3>5. Q(i) = Got(r.in \o y, r.out) /\ Q(i) \in States(X) /\ Q(i + 1) = Once(item, Q(i))
      BY <2>2, <2>4, <3>2 DEF r
    <3>6. Once(item, Q(i)) = Got(a.in \o y, Append(r.out, a.out))
      <4>1. Q(i).ok /\ Q(i).in = r.in \o y /\ Q(i).out = r.out
        BY <3>5 DEF Got
      <4>2. item[Q(i).in].ok /\ item[Q(i).in].in = a.in \o y /\ item[Q(i).in].out = a.out
        BY SMTT(20), <3>4, <4>1 DEF Got
      <4> QED BY <4>1, <4>2 DEF Once, Then
    <3>7. R(i + 1).in = a.in /\ R(i + 1).out = Append(r.out, a.out)
      BY <3>1, <3>2 DEF Got
    <3> QED BY <3>5, <3>6, <3>7
  <2> HIDE DEF T
  <2>5. \A i \in Nat : i \in T
    BY <2>3, <2>4, SetInduction
  <2> QED BY <2>5 DEF T, R, Q
<1> HIDE DEF R
<1>3. R(n).ok
  BY DEF R
<1> QED BY <1>1, <1>2, <1>3, StatesAre DEF R

\* e is what is written of each of xs.
Writes(item, e, xs, X, n) ==
    /\ n \in Nat /\ e \in [1..n -> Input] /\ Len(xs) = n /\ DOMAIN xs = 1..n
    /\ \A i \in 1..n : Reads(item, e[i], xs[i], X)

\* Of n items that were written one after the other the loop reads these.
LEMMA RepeatedWrites ==
    ASSUME NEW item, NEW X, Reader(item, X), NEW n, NEW e, NEW xs, NEW Y, xs \in Seq(Y), Writes(item, e, xs, X, n),
           NEW rest \in Input
    PROVE  /\ FlattenSeq(e) \in Input
           /\ Repeated(FlattenSeq(e) \o rest, item)[n].ok => Repeated(FlattenSeq(e) \o rest, item)[n] = Got(rest, xs)
           /\ xs \in Seq(X) => Repeated(FlattenSeq(e) \o rest, item)[n] = Got(rest, xs)
<1>1. n \in Nat /\ e \in Seq(Seq(Token)) /\ Len(e) = n /\ Len(xs) = n /\ \A i \in 1..n : e[i] \in Input
  <2>1. e \in [1..n -> Input] /\ n \in Nat
    BY DEF Writes
  <2>2. e \in Seq(Input) /\ Len(e) = n
    BY <2>1, FunctionIsSeq
  <2> QED BY <2>1, <2>2 DEF Writes, Input
<1>2. PICK P : Flattens(P, e, Token, n)
  BY <1>1, FlattenIs
<1>3. /\ P \in [0..n -> Input] /\ P[0] = <<>> /\ \A i \in 1..n : P[i] = P[i - 1] \o e[i]
      /\ FlattenSeq(e) = P[n]
  BY <1>2 DEF Flattens, Input
<1> DEFINE R(in, i) == Repeated(in, item)[i]
           Done(i) == SubSeq(xs, 1, i)
           T == {i \in Nat : i <= n => \A z \in Input :
                               /\ R(P[i] \o z, i).ok => R(P[i] \o z, i) = Got(z, Done(i))
                               /\ xs \in Seq(X) => R(P[i] \o z, i) = Got(z, Done(i))}
<1>4. \A in \in Input, i \in Nat : /\ R(in, 0) = Got(in, <<>>) /\ R(in, i) \in States(X)
                                   /\ R(in, i + 1) = Once(item, R(in, i))
  BY RepeatedIs
<1>5. Done(0) = <<>> /\ Done(n) = xs /\ \A i \in Nat : i + 1 <= n => Done(i + 1) = Append(Done(i), xs[i + 1])
  <2>1. SubSeq(xs, 1, 0) = <<>>
    OBVIOUS
  <2>2. SubSeq(xs, 1, n) = xs
    BY <1>1
  <2>3. ASSUME NEW i \in Nat, i + 1 <= n PROVE SubSeq(xs, 1, i + 1) = Append(SubSeq(xs, 1, i), xs[i + 1])
    BY <1>1, <2>3
  <2> QED BY <2>1, <2>2, <2>3
<1> HIDE DEF R, Done
<1>6. 0 \in T
  <2>1. ASSUME NEW z \in Input PROVE R(P[0] \o z, 0) = Got(z, Done(0))
    <3>1. P[0] \o z = z
      BY <1>3, InputIs
    <3> QED BY <1>4, <1>5, <3>1
  <2> QED BY <2>1
<1>7. ASSUME NEW i \in Nat, i \in T PROVE i + 1 \in T
  <2> SUFFICES ASSUME i + 1 <= n, NEW z \in Input
               PROVE  /\ R(P[i + 1] \o z, i + 1).ok => R(P[i + 1] \o z, i + 1) = Got(z, Done(i + 1))
                      /\ xs \in Seq(X) => R(P[i + 1] \o z, i + 1) = Got(z, Done(i + 1))
    OBVIOUS
  <2> DEFINE in == P[i + 1] \o z
             y == e[i + 1] \o z
             r == R(in, i)
  <2>1. i + 1 \in 1..n /\ (i + 1) - 1 = i /\ i \in 0..n /\ i <= n
    BY <1>1
  <2>2. P[i] \in Input /\ e[i + 1] \in Input /\ y \in Input /\ in = P[i] \o y /\ in \in Input
    <3>1. P[i] \in Input /\ e[i + 1] \in Input
      BY <1>1, <1>3, <2>1
    <3>2. P[i + 1] = P[i] \o e[i + 1]
      BY <1>3, <2>1
    <3>3. y \in Input
      BY <3>1, InputIs
    <3>4. (P[i] \o e[i + 1]) \o z = P[i] \o y
      BY ZenonT(60), <3>1, InputIs
    <3>5. P[i] \o y \in Input
      BY <3>1, <3>3, InputIs
    <3> HIDE DEF y
    <3> QED BY <3>1, <3>2, <3>3, <3>4, <3>5
  <2>3. (r.ok => r = Got(y, Done(i))) /\ (xs \in Seq(X) => r = Got(y, Done(i)))
    BY <1>7, <2>1, <2>2
  <2>4. r \in States(X) /\ R(in, i + 1) = Once(item, r)
    BY <1>4, <2>2
  <2>5. /\ item[y].ok => item[y] = Got(z, xs[i + 1])
        /\ xs[i + 1] \in X => item[y] = Got(z, xs[i + 1])
    <3>1. Reads(item, e[i + 1], xs[i + 1], X)
      BY <2>1 DEF Writes
    <3> QED BY <3>1 DEF Reads
  <2>6. xs \in Seq(X) => xs[i + 1] \in X
    BY <1>1, <2>1
  <2>7. Done(i + 1) = Append(Done(i), xs[i + 1])
    BY <1>5, <2>1
  <2> HIDE DEF in, r, y
  <2>8. ASSUME r = Got(y, Done(i)), item[y] = Got(z, xs[i + 1]) PROVE Once(item, r) = Got(z, Done(i + 1))
    <3>1. r.ok /\ r.in = y /\ r.out = Done(i)
      BY <2>8 DEF Got
    <3>2. item[y].ok /\ item[y].in = z /\ item[y].out = xs[i + 1]
      BY <2>8 DEF Got
    <3> QED BY <2>7, <3>1, <3>2 DEF Once, Then
  <2>9. ASSUME Once(item, r).ok PROVE Once(item, r) = Got(z, Done(i + 1))
    <3>1. r.ok /\ item[r.in].ok
      BY <2>4, <2>9, OnceIs
    <3>2. r = Got(y, Done(i))
      BY <2>3, <3>1
    <3>3. r.in = y
      BY <3>2 DEF Got
    <3> QED BY <2>5, <2>8, <3>1, <3>2, <3>3
  <2>10. ASSUME xs \in Seq(X) PROVE Once(item, r) = Got(z, Done(i + 1))
    BY <2>3, <2>5, <2>6, <2>8, <2>10
  <2> QED BY <2>4, <2>9, <2>10 DEF in
<1> HIDE DEF T
<1>8. \A i \in Nat : i \in T
  BY <1>6, <1>7, SetInduction
<1>9. /\ R(P[n] \o rest, n).ok => R(P[n] \o rest, n) = Got(rest, xs)
      /\ xs \in Seq(X) => R(P[n] \o rest, n) = Got(rest, xs)
  <2>1. n \in T /\ n <= n
    BY <1>1, <1>8
  <2> QED BY <1>5, <2>1 DEF T
<1>10. FlattenSeq(e) \in Input
  BY <1>1, <1>3
<1> QED BY <1>3, <1>9, <1>10 DEF R

----------------------------------------------------------------------------
(* Readers made of readers.                                                *)

\* One reader after another, of which what the first has read chooses the second.
LEMMA ThenReader ==
    ASSUME NEW f, NEW A, NEW h, NEW B, NEW g, Reader(f, A), \A a \in A : Reader(h[a], B),
           \A in \in Input : /\ f[in].ok => g[in] = h[f[in].out][f[in].in]
                             /\ ~f[in].ok => ~g[in].ok
    PROVE  Reader(g, B)
<1> SUFFICES ASSUME NEW in \in Input, g[in].ok
             PROVE  /\ g[in].in \in Input /\ g[in].out \in B
                    /\ \A y \in Input : g[in \o y] = Got(g[in].in \o y, g[in].out)
  BY DEF Reader
<1> DEFINE a == f[in].out
           rest == f[in].in
<1>1. f[in].ok /\ a \in A /\ rest \in Input /\ \A y \in Input : f[in \o y] = Got(rest \o y, a)
  BY DEF Reader
<1>2. g[in] = h[a][rest]
  BY <1>1
<1>3. Reader(h[a], B)
  BY <1>1
<1> HIDE DEF a, rest
<1>4. /\ g[in].in \in Input /\ g[in].out \in B
      /\ \A y \in Input : h[a][rest \o y] = Got(g[in].in \o y, g[in].out)
  BY <1>1, <1>2, <1>3 DEF Reader
<1>5. ASSUME NEW y \in Input PROVE g[in \o y] = Got(g[in].in \o y, g[in].out)
  <2>1. in \o y \in Input
    BY InputIs
  <2>2. f[in \o y].ok /\ f[in \o y].in = rest \o y /\ f[in \o y].out = a
    <3>1. f[in \o y] = Got(rest \o y, a)
      BY <1>1
    <3>2. \A r : r = Got(rest \o y, a) => r.ok /\ r.in = rest \o y /\ r.out = a
      BY DEF Got
    <3> QED BY <3>1, <3>2
  <2>3. g[in \o y] = h[a][rest \o y]
    BY <2>1, <2>2
  <2> QED BY <1>4, <2>3
<1> QED BY <1>4, <1>5

\* So is what both have written read,
LEMMA ThenReads ==
    ASSUME NEW f, NEW A, NEW h, NEW B, NEW g,
           \A in \in Input : /\ f[in].ok => g[in] = h[f[in].out][f[in].in]
                             /\ ~f[in].ok => ~g[in].ok,
           NEW d \in Input, NEW e \in Input, NEW a, NEW x,
           Reads(f, d, a, A), Reads(h[a], e, x, B), x \in B => a \in A
    PROVE  Reads(g, d \o e, x, B)
<1> SUFFICES ASSUME NEW rest \in Input
             PROVE  /\ g[(d \o e) \o rest].ok => g[(d \o e) \o rest] = Got(rest, x)
                    /\ x \in B => g[(d \o e) \o rest] = Got(rest, x)
  BY DEF Reads
<1> DEFINE in == d \o (e \o rest)
<1>1. in = (d \o e) \o rest /\ in \in Input /\ e \o rest \in Input
  <2>1. e \o rest \in Input
    BY InputIs
  <2> QED BY ZenonT(60), <2>1, InputIs
<1>2. (f[in].ok => f[in] = Got(e \o rest, a)) /\ (a \in A => f[in] = Got(e \o rest, a))
  BY <1>1 DEF Reads
<1>3. /\ h[a][e \o rest].ok => h[a][e \o rest] = Got(rest, x)
      /\ x \in B => h[a][e \o rest] = Got(rest, x)
  BY DEF Reads
<1> HIDE DEF in
<1>4. ASSUME f[in].ok PROVE g[in] = h[a][e \o rest]
  <2>1. f[in].in = e \o rest /\ f[in].out = a
    BY <1>2, <1>4 DEF Got
  <2> QED BY <1>1, <1>4, <2>1
<1>5. ASSUME g[in].ok PROVE g[in] = Got(rest, x)
  BY <1>1, <1>3, <1>4, <1>5
<1>6. ASSUME x \in B PROVE g[in] = Got(rest, x)
  <2>1. f[in].ok
    BY <1>2, <1>6 DEF Got
  <2> QED BY <1>3, <1>4, <1>6, <2>1
<1> QED BY <1>1, <1>5, <1>6

\* A reader whose result is wrapped.
LEMMA MapReader ==
    ASSUME NEW f, NEW A, NEW m, NEW B, NEW g, Reader(f, A), \A a \in A : m[a] \in B,
           \A in \in Input : /\ f[in].ok => g[in] = Got(f[in].in, m[f[in].out])
                             /\ ~f[in].ok => ~g[in].ok
    PROVE  Reader(g, B)
<1> SUFFICES ASSUME NEW in \in Input, g[in].ok
             PROVE  /\ g[in].in \in Input /\ g[in].out \in B
                    /\ \A y \in Input : g[in \o y] = Got(g[in].in \o y, g[in].out)
  BY DEF Reader
<1> DEFINE a == f[in].out
           rest == f[in].in
<1>1. f[in].ok /\ a \in A /\ rest \in Input /\ \A y \in Input : f[in \o y] = Got(rest \o y, a)
  BY DEF Reader
<1>2. g[in] = Got(rest, m[a]) /\ m[a] \in B
  BY <1>1
<1> HIDE DEF a, rest
<1>3. g[in].in = rest /\ g[in].out = m[a]
  BY <1>2 DEF Got
<1>4. ASSUME NEW y \in Input PROVE g[in \o y] = Got(rest \o y, m[a])
  <2>1. in \o y \in Input
    BY InputIs
  <2>2. f[in \o y].ok /\ f[in \o y].in = rest \o y /\ f[in \o y].out = a
    <3>1. f[in \o y] = Got(rest \o y, a)
      BY <1>1
    <3>2. \A r : r = Got(rest \o y, a) => r.ok /\ r.in = rest \o y /\ r.out = a
      BY DEF Got
    <3> QED BY <3>1, <3>2
  <2> QED BY <2>1, <2>2
<1> QED BY <1>1, <1>2, <1>3, <1>4

\* and what it has written, read.
LEMMA MapReads ==
    ASSUME NEW f, NEW A, NEW m, NEW B, NEW g,
           \A in \in Input : /\ f[in].ok => g[in] = Got(f[in].in, m[f[in].out])
                             /\ ~f[in].ok => ~g[in].ok,
           NEW e \in Input, NEW a, NEW x, Reads(f, e, a, A), x = m[a], x \in B => a \in A
    PROVE  Reads(g, e, x, B)
<1> SUFFICES ASSUME NEW rest \in Input
             PROVE  /\ g[e \o rest].ok => g[e \o rest] = Got(rest, x)
                    /\ x \in B => g[e \o rest] = Got(rest, x)
  BY DEF Reads
<1> DEFINE in == e \o rest
<1>1. in \in Input
  BY InputIs
<1>2. (f[in].ok => f[in] = Got(rest, a)) /\ (a \in A => f[in] = Got(rest, a))
  BY DEF Reads
<1> HIDE DEF in
<1>3. ASSUME f[in].ok PROVE g[in] = Got(rest, x)
  <2>1. f[in].in = rest /\ f[in].out = a
    BY <1>2, <1>3 DEF Got
  <2> QED BY <1>1, <1>3, <2>1
<1>4. ASSUME x \in B PROVE f[in].ok
  BY <1>2, <1>4 DEF Got
<1> QED BY <1>1, <1>3, <1>4 DEF in

\* Take is a reader,
LEMMA TakeReader ==
    ASSUME NEW k, NEW o
    PROVE  Reader([in \in Input |-> Take(in, k, o)], Nat)
BY TakeIs

\* and reads the token it takes.
LEMMA TakeReads ==
    ASSUME NEW k, NEW o, NEW t \in Token, t.k = k, t.o = o
    PROVE  Reads([in \in Input |-> Take(in, k, o)], <<t>>, t.v, Nat)
<1> SUFFICES ASSUME NEW rest \in Input PROVE [in \in Input |-> Take(in, k, o)][<<t>> \o rest] = Got(rest, t.v)
  BY DEF Reads
<1>1. Take(<<t>> \o rest, k, o) = Got(rest, t.v)
  <2>1. LET in == <<t>> \o rest IN in # <<>> /\ Head(in) = t /\ Tail(in) = rest
    BY HeadIs
  <2> QED BY <2>1 DEF Take
<1>2. <<t>> \in Input /\ <<t>> \o rest \in Input
  <2>1. <<t>> \in Input
    BY InputIs
  <2> QED BY <2>1, InputIs
<1> QED BY <1>1, <1>2

\* Items that are written with at least a token each take as many tokens.
LEMMA FlattenLength ==
    ASSUME NEW n \in Nat, NEW e \in [1..n -> Input], \A i \in 1..n : e[i] # <<>>
    PROVE  FlattenSeq(e) \in Input /\ Len(e) = n /\ n <= Len(FlattenSeq(e))
<1>1. e \in Seq(Seq(Token)) /\ Len(e) = n
  <2>1. e \in Seq(Input) /\ Len(e) = n
    BY FunctionIsSeq
  <2> QED BY <2>1 DEF Input
<1>2. PICK P : Flattens(P, e, Token, n)
  BY <1>1, FlattenIs
<1>3. /\ P \in [0..n -> Input] /\ P[0] = <<>> /\ \A i \in 1..n : P[i] = P[i - 1] \o e[i]
      /\ FlattenSeq(e) = P[n]
  BY <1>2 DEF Flattens, Input
<1> DEFINE T == {i \in Nat : i <= n => i <= Len(P[i])}
<1>4. 0 \in T
  <2>1. Len(<<>>) = 0
    OBVIOUS
  <2> QED BY <1>3, <2>1
<1>5. ASSUME NEW i \in Nat, i \in T PROVE i + 1 \in T
  <2> SUFFICES ASSUME i + 1 <= n PROVE i + 1 <= Len(P[i + 1])
    OBVIOUS
  <2>1. i + 1 \in 1..n /\ (i + 1) - 1 = i /\ i \in 0..n /\ i <= n
    OBVIOUS
  <2>2. P[i] \in Input /\ e[i + 1] \in Input /\ P[i + 1] = P[i] \o e[i + 1] /\ e[i + 1] # <<>>
    BY <1>3, <2>1
  <2>3. Len(P[i] \o e[i + 1]) = Len(P[i]) + Len(e[i + 1]) /\ Len(P[i]) \in Nat /\ Len(e[i + 1]) \in Nat
    BY <2>2, InputIs
  <2>4. Len(e[i + 1]) # 0
    BY <2>2 DEF Input
  <2>5. i <= Len(P[i])
    BY <1>5, <2>1
  <2>6. Len(P[i + 1]) = Len(P[i]) + Len(e[i + 1])
    BY <2>2, <2>3
  <2> DEFINE a == Len(P[i])
             b == Len(e[i + 1])
  <2>7. a \in Nat /\ b \in Nat /\ b # 0 /\ i <= a
    BY <2>3, <2>4, <2>5
  <2> HIDE DEF a, b
  <2>8. i + 1 <= a + b
    BY <2>7
  <2> QED BY <2>6, <2>8 DEF a, b
<1> HIDE DEF T
<1>6. \A i \in Nat : i \in T
  BY <1>4, <1>5, SetInduction
<1> QED BY <1>1, <1>3, <1>6 DEF T

\* A count and that many items: the reader,
LEMMA CountedReader ==
    ASSUME NEW o, NEW item, NEW X, Reader(item, X)
    PROVE  Reader(CountedIn(o, item), Seq(X))
<1> DEFINE f == [in \in Input |-> Take(in, "u32", o)]
           h == [n \in Nat |-> [rest \in Input |-> IF n <= Len(rest) THEN Repeated(rest, item)[n] ELSE Stop]]
           g == CountedIn(o, item)
<1>1. Reader(f, Nat)
  BY TakeIs
<1>2. ASSUME NEW n \in Nat PROVE Reader(h[n], Seq(X))
  <2> SUFFICES ASSUME NEW in \in Input, h[n][in].ok
               PROVE  /\ h[n][in].in \in Input /\ h[n][in].out \in Seq(X)
                      /\ \A y \in Input : h[n][in \o y] = Got(h[n][in].in \o y, h[n][in].out)
    BY DEF Reader
  <2>1. \A a \in Input : h[n][a] = IF n <= Len(a) THEN Repeated(a, item)[n] ELSE Stop
    OBVIOUS
  <2> HIDE DEF h
  <2>2. n <= Len(in) /\ h[n][in] = Repeated(in, item)[n]
    BY <2>1 DEF Stop
  <2>3. /\ h[n][in].in \in Input /\ h[n][in].out \in Seq(X)
        /\ \A y \in Input : Repeated(in \o y, item)[n] = Got(h[n][in].in \o y, h[n][in].out)
    BY <2>2, RepeatedReads
  <2>4. ASSUME NEW y \in Input PROVE h[n][in \o y] = Repeated(in \o y, item)[n]
    <3>1. in \o y \in Input /\ Len(in \o y) = Len(in) + Len(y) /\ Len(in) \in Nat /\ Len(y) \in Nat
      BY InputIs
    <3> DEFINE a == Len(in)
               b == Len(y)
    <3>2. a \in Nat /\ b \in Nat /\ n <= a
      BY <2>2, <3>1
    <3> HIDE DEF a, b
    <3>3. n <= a + b
      BY <3>2
    <3>4. n <= Len(in \o y)
      BY <3>1, <3>3 DEF a, b
    <3> QED BY <2>1, <3>1, <3>4
  <2> QED BY <2>3, <2>4
<1>3. ASSUME NEW in \in Input
      PROVE  /\ f[in].ok => g[in] = h[f[in].out][f[in].in]
             /\ ~f[in].ok => ~g[in].ok
  <2>1. f[in] = Take(in, "u32", o)
    OBVIOUS
  <2>2. f[in].ok => f[in].in \in Input /\ f[in].out \in Nat
    <3> HIDE DEF f
    <3> QED BY <1>1 DEF Reader
  <2>3. g[in] = IF f[in].ok THEN IF f[in].out <= Len(f[in].in) THEN Repeated(f[in].in, item)[f[in].out] ELSE Stop
                ELSE Stop
    BY DEF CountedIn, Then
  <2> HIDE DEF f, g
  <2>4. f[in].ok => g[in] = h[f[in].out][f[in].in]
    BY <2>2, <2>3
  <2> QED BY <2>3, <2>4 DEF Stop
<1> HIDE DEF f, h, g
<1>4. Reader(g, Seq(X))
  BY <1>1, <1>2, <1>3, ThenReader
<1> QED BY <1>4 DEF g

\* and what it reads of a list that was written.
LEMMA CountedReads ==
    ASSUME NEW o \in Orders, NEW item, NEW X, Reader(item, X), NEW n, NEW e, NEW xs, NEW Y, xs \in Seq(Y),
           Writes(item, e, xs, X, n), \A i \in 1..n : e[i] # <<>>
    PROVE  Counted(o, e) \in Input /\ Counted(o, e) # <<>> /\ Reads(CountedIn(o, item), Counted(o, e), xs, Seq(X))
<1>1. n \in Nat /\ e \in [1..n -> Input]
  BY DEF Writes
<1>2. FlattenSeq(e) \in Input /\ Len(e) = n /\ n <= Len(FlattenSeq(e))
  BY <1>1, FlattenLength
<1> DEFINE head == <<U32(o, n)>>
           all == FlattenSeq(e)
<1>3. Counted(o, e) = head \o all /\ head \in Input /\ U32(o, n) \in Token
  <2>1. U32(o, n) \in Token
    BY <1>1, TokensAre
  <2> QED BY <1>2, <2>1, InputIs DEF Counted
<1>4. all \in Input /\ n <= Len(all)
  BY <1>2
<1> HIDE DEF all
<1>5. Counted(o, e) \in Input /\ Counted(o, e) # <<>>
  <2>1. LET in == <<U32(o, n)>> \o all IN in # <<>>
    BY <1>3, <1>4, HeadIs
  <2> QED BY <1>3, <1>4, <2>1, InputIs
<1>6. ASSUME NEW rest \in Input
      PROVE  LET r == CountedIn(o, item)[Counted(o, e) \o rest] IN
             (r.ok => r = Got(rest, xs)) /\ (xs \in Seq(X) => r = Got(rest, xs))
  <2> DEFINE in == Counted(o, e) \o rest
             left == all \o rest
             r == Repeated(left, item)[n]
  <2>1. left \in Input /\ in \in Input /\ in = head \o left
    <3>1. left \in Input /\ in \in Input
      BY <1>4, <1>5, InputIs
    <3>2. (head \o all) \o rest = head \o left
      BY ZenonT(60), <1>3, <1>4, InputIs
    <3> QED BY <1>3, <3>1, <3>2
  <2>2. n <= Len(left)
    <3>1. Len(left) = Len(all) + Len(rest) /\ Len(all) \in Nat /\ Len(rest) \in Nat
      BY <1>4, InputIs
    <3> DEFINE a == Len(all)
               b == Len(rest)
    <3>2. a \in Nat /\ b \in Nat /\ n <= a
      BY <1>4, <3>1
    <3> HIDE DEF a, b
    <3>3. n <= a + b
      BY <1>1, <3>2
    <3> HIDE DEF left
    <3> QED BY <3>1, <3>3 DEF a, b
  <2>3. Take(in, "u32", o) = Got(left, n)
    <3>1. LET a == <<U32(o, n)>> \o left IN a # <<>> /\ Head(a) = U32(o, n) /\ Tail(a) = left
      BY SMTT(20), <1>3, <2>1, HeadIs
    <3>2. U32(o, n).k = "u32" /\ U32(o, n).o = o /\ U32(o, n).v = n
      BY DEF U32
    <3>3. in # <<>> /\ Head(in) = U32(o, n) /\ Tail(in) = left
      BY <2>1, <3>1
    <3> HIDE DEF in, left
    <3> QED BY <3>2, <3>3 DEF Take
  <2>4. (r.ok => r = Got(rest, xs)) /\ (xs \in Seq(X) => r = Got(rest, xs))
    BY RepeatedWrites DEF all
  <2> HIDE DEF in, left
  <2>5. CountedIn(o, item)[in] = Repeated(left, item)[n]
    <3>1. \A b, a : b = Got(left, n) => b.ok /\ b.in = left /\ b.out = n
      BY DEF Got
    <3>2. CountedIn(o, item)[in] = Then(Take(in, "u32", o),
             LAMBDA a, k : IF k <= Len(a) THEN Repeated(a, item)[k] ELSE Stop)
      BY <2>1 DEF CountedIn
    <3>3. Take(in, "u32", o).ok /\ Take(in, "u32", o).in = left /\ Take(in, "u32", o).out = n
      BY <2>3, <3>1
    <3>4. CountedIn(o, item)[in] = IF n <= Len(left) THEN Repeated(left, item)[n] ELSE Stop
      BY <3>2, <3>3 DEF Then
    <3> QED BY <2>2, <3>4
  <2> QED BY <2>4, <2>5 DEF in
<1> QED BY <1>5, <1>6 DEF Reads

----------------------------------------------------------------------------
(* What stands behind the type of a geometry in a binary form.             *)

\* What the reader of a form can yield: a text has no NaN, WKT no empty list.
Num(form)      == IF form = "bin" THEN Nat ELSE Nat \ {0}
Lists(form, A) == IF form = "wkt" THEN Seq(A) \ {<<>>} ELSE Seq(A)
Points(form)   == {<<<<p>>>> : p \in Num(form)}
Lines(form)    == {<<pts>> : pts \in Lists(form, Num(form))}
PartSet(form, ty) == IF ty = 1 THEN Points(form) ELSE IF ty = 2 THEN Lines(form)
                     ELSE Lists(form, Lists(form, Num(form)))
PartsSet(form, ty) == IF ty <= 3 THEN {<<part>> : part \in PartSet(form, ty)}
                      ELSE Lists(form, PartSet(form, ty - 3))

\* Binary forms carry every point and every list.
LEMMA BinarySets ==
    /\ Num("bin") = Nat /\ \A A : Lists("bin", A) = Seq(A)
    /\ Points("bin") = {<<<<p>>>> : p \in Nat}
    /\ Lines("bin") = {<<pts>> : pts \in Seq(Nat)}
    /\ \A ty \in 1..3 : PartSet("bin", ty) = IF ty = 1 THEN Points("bin") ELSE IF ty = 2 THEN Lines("bin") ELSE Seq(Seq(Nat))
BY DEF Num, Lists, Points, Lines, PartSet

\* Sequences of points.
LEMMA PointsReader ==
    ASSUME NEW o \in Orders
    PROVE  /\ Reader(PointsIn(o), Seq(Nat))
           /\ \A pts \in Seq(Nat) : /\ PointsOut(o, pts) \in Input /\ PointsOut(o, pts) # <<>>
                                    /\ Reads(PointsIn(o), PointsOut(o, pts), pts, Seq(Nat))
<1> DEFINE item == [in \in Input |-> Take(in, "xy", o)]
<1>1. Reader(item, Nat)
  BY TakeIs
<1>2. PointsIn(o) = CountedIn(o, item)
  BY DEF PointsIn
<1>3. ASSUME NEW pts \in Seq(Nat)
      PROVE  /\ PointsOut(o, pts) \in Input /\ PointsOut(o, pts) # <<>>
             /\ Reads(PointsIn(o), PointsOut(o, pts), pts, Seq(Nat))
  <2> DEFINE n == Len(pts)
             e == [i \in 1..n |-> <<XY(o, pts[i])>>]
  <2>1. PointsOut(o, pts) = Counted(o, e) /\ n \in Nat /\ DOMAIN pts = 1..n
    <3>1. n \in Nat /\ DOMAIN pts = 1..n
      OBVIOUS
    <3>2. PointsOut(o, pts) = Counted(o, [i \in DOMAIN pts |-> <<XY(o, pts[i])>>])
      BY DEF PointsOut
    <3>3. [i \in DOMAIN pts |-> <<XY(o, pts[i])>>] = e
      BY <3>1
    <3> HIDE DEF e
    <3> QED BY <3>1, <3>2, <3>3
  <2>2. ASSUME NEW i \in 1..n
        PROVE  e[i] \in Input /\ e[i] # <<>> /\ Reads(item, e[i], pts[i], Nat)
    <3>1. pts[i] \in Nat /\ e[i] = <<XY(o, pts[i])>>
      OBVIOUS
    <3>2. XY(o, pts[i]) \in Token /\ XY(o, pts[i]).k = "xy" /\ XY(o, pts[i]).o = o /\ XY(o, pts[i]).v = pts[i]
      <4>1. XY(o, pts[i]) \in Token
        BY <3>1, TokensAre
      <4> QED BY <4>1 DEF XY
    <3>3. Reads(item, <<XY(o, pts[i])>>, XY(o, pts[i]).v, Nat)
      BY <3>2, TakeReads
    <3>4. <<XY(o, pts[i])>> \in Input /\ <<XY(o, pts[i])>> # <<>>
      BY <3>2, InputIs
    <3> HIDE DEF item
    <3> QED BY <3>1, <3>2, <3>3, <3>4
  <2>3. e \in [1..n -> Input] /\ \A i \in 1..n : e[i] # <<>>
    BY <2>2
  <2> HIDE DEF e, item
  <2>4. Writes(item, e, pts, Nat, n)
    BY <2>1, <2>2, <2>3 DEF Writes
  <2>5. Counted(o, e) \in Input /\ Counted(o, e) # <<>> /\ Reads(CountedIn(o, item), Counted(o, e), pts, Seq(Nat))
    BY <1>1, <2>3, <2>4, CountedReads
  <2> QED BY <1>2, <2>1, <2>5
<1> HIDE DEF item
<1> QED BY <1>1, <1>2, <1>3, CountedReader

\* What follows the type.
LEMMA PartReader ==
    ASSUME NEW o \in Orders, NEW ty \in 1..3
    PROVE  /\ Reader(PartIn(o, ty), PartSet("bin", ty))
           /\ \A part \in PartSet("bin", ty) :
                 /\ PartOut(o, ty, part) \in Input /\ PartOut(o, ty, part) # <<>>
                 /\ Reads(PartIn(o, ty), PartOut(o, ty, part), part, PartSet("bin", ty))
<1> DEFINE g == PartIn(o, ty)
<1>1. CASE ty = 1
  <2> DEFINE f == [in \in Input |-> Take(in, "xy", o)]
             m == [p \in Nat |-> <<<<p>>>>]
             B == {<<<<p>>>> : p \in Nat}
  <2>1. PartSet("bin", ty) = B
    BY <1>1, BinarySets
  <2>2. Reader(f, Nat)
    BY SMTT(20), TakeIs
  <2>3. ASSUME NEW in \in Input
        PROVE  /\ f[in].ok => g[in] = Got(f[in].in, m[f[in].out])
               /\ ~f[in].ok => ~g[in].ok
    <3>1. g[in] = IF f[in].ok THEN Got(f[in].in, <<<<f[in].out>>>>) ELSE Stop
      BY <1>1 DEF PartIn, Then
    <3>2. f[in].ok => f[in].out \in Nat
      <4> HIDE DEF f
      <4> QED BY <2>2 DEF Reader
    <3> HIDE DEF f, g
    <3> QED BY <3>1, <3>2 DEF Stop
  <2>4. \A a \in Nat : m[a] = <<<<a>>>> /\ m[a] \in B
    OBVIOUS
  <2> HIDE DEF f, g, m
  <2>5. Reader(g, B)
    BY <2>2, <2>3, <2>4, MapReader
  <2>6. ASSUME NEW part \in B
        PROVE  /\ PartOut(o, ty, part) \in Input /\ PartOut(o, ty, part) # <<>>
               /\ Reads(g, PartOut(o, ty, part), part, B)
    <3>1. PICK p \in Nat : part = <<<<p>>>>
      OBVIOUS
    <3>2. PartOut(o, ty, part) = <<XY(o, p)>>
      BY <1>1, <3>1 DEF PartOut
    <3>3. XY(o, p) \in Token /\ XY(o, p).k = "xy" /\ XY(o, p).o = o /\ XY(o, p).v = p
      <4>1. XY(o, p) \in Token
        BY TokensAre
      <4> QED BY <4>1 DEF XY
    <3>4. Reads(f, <<XY(o, p)>>, p, Nat)
      <4>1. Reads(f, <<XY(o, p)>>, XY(o, p).v, Nat)
        BY <3>3, TakeReads DEF f
      <4> QED BY <3>3, <4>1
    <3>5. <<XY(o, p)>> \in Input /\ <<XY(o, p)>> # <<>>
      BY <3>3, InputIs
    <3>6. part = m[p]
      BY <2>4, <3>1
    <3>7. Reads(g, <<XY(o, p)>>, part, B)
      BY <2>3, <3>4, <3>5, <3>6, MapReads
    <3> QED BY <3>2, <3>5, <3>7
  <2> QED BY <2>1, <2>5, <2>6 DEF g
<1>2. CASE ty = 2
  <2> DEFINE f == PointsIn(o)
             A == Seq(Nat)
             m == [pts \in A |-> <<pts>>]
             B == {<<pts>> : pts \in A}
  <2>1. PartSet("bin", ty) = B
    BY <1>2, BinarySets
  <2>2. /\ Reader(f, A)
        /\ \A pts \in A : /\ PointsOut(o, pts) \in Input /\ PointsOut(o, pts) # <<>>
                          /\ Reads(f, PointsOut(o, pts), pts, A)
    BY PointsReader
  <2> HIDE DEF A
  <2>3. ASSUME NEW in \in Input
        PROVE  /\ f[in].ok => g[in] = Got(f[in].in, m[f[in].out])
               /\ ~f[in].ok => ~g[in].ok
    <3>1. g[in] = IF f[in].ok THEN Got(f[in].in, <<f[in].out>>) ELSE Stop
      BY <1>2 DEF PartIn, Then
    <3>2. f[in].ok => f[in].out \in A
      <4> HIDE DEF f
      <4> QED BY <2>2 DEF Reader
    <3> HIDE DEF f, g
    <3> QED BY <3>1, <3>2 DEF Stop
  <2>4. \A a \in A : m[a] = <<a>> /\ m[a] \in B
    OBVIOUS
  <2> HIDE DEF f, g, m
  <2>5. Reader(g, B)
    BY <2>2, <2>3, <2>4, MapReader
  <2>6. ASSUME NEW part \in B
        PROVE  /\ PartOut(o, ty, part) \in Input /\ PartOut(o, ty, part) # <<>>
               /\ Reads(g, PartOut(o, ty, part), part, B)
    <3>1. PICK pts \in A : part = <<pts>>
      OBVIOUS
    <3>2. PartOut(o, ty, part) = PointsOut(o, pts)
      BY <1>2, <3>1 DEF PartOut
    <3>6. part = m[pts]
      BY <2>4, <3>1
    <3>7. Reads(g, PointsOut(o, pts), part, B)
      BY <2>2, <2>3, <3>6, MapReads
    <3> QED BY <2>2, <3>2, <3>7
  <2> QED BY <2>1, <2>5, <2>6 DEF g
<1>3. CASE ty = 3
  <2> DEFINE A == Seq(Nat)
             item == PointsIn(o)
  <2>1. PartSet("bin", ty) = Seq(A)
    BY <1>3, BinarySets
  <2>2. /\ Reader(item, A)
        /\ \A pts \in A : /\ PointsOut(o, pts) \in Input /\ PointsOut(o, pts) # <<>>
                          /\ Reads(item, PointsOut(o, pts), pts, A)
    BY PointsReader
  <2> HIDE DEF A, item
  <2>3. Reader(CountedIn(o, item), Seq(A))
    BY <2>2, CountedReader
  <2>4. ASSUME NEW in \in Input PROVE g[in] = CountedIn(o, item)[in]
    BY <1>3 DEF PartIn, item
  <2>5. Reader(g, Seq(A))
    <3>1. \A in, y \in Input : in \o y \in Input
      BY InputIs
    <3> HIDE DEF g
    <3> QED BY <2>3, <2>4, <3>1 DEF Reader
  <2>6. ASSUME NEW part \in Seq(A)
        PROVE  /\ PartOut(o, ty, part) \in Input /\ PartOut(o, ty, part) # <<>>
               /\ Reads(g, PartOut(o, ty, part), part, Seq(A))
    <3> DEFINE n == Len(part)
               e == [i \in 1..n |-> PointsOut(o, part[i])]
    <3>1. PartOut(o, ty, part) = Counted(o, e) /\ n \in Nat /\ DOMAIN part = 1..n
      BY <1>3 DEF PartOut
    <3>2. ASSUME NEW i \in 1..n
          PROVE  e[i] \in Input /\ e[i] # <<>> /\ Reads(item, e[i], part[i], A)
      <4>1. part[i] \in A /\ e[i] = PointsOut(o, part[i])
        OBVIOUS
      <4> QED BY <2>2, <4>1
    <3>3. e \in [1..n -> Input] /\ \A i \in 1..n : e[i] # <<>>
      BY <3>2
    <3> HIDE DEF e, g
    <3>4. Writes(item, e, part, A, n)
      BY <3>1, <3>2, <3>3 DEF Writes
    <3>5. Counted(o, e) \in Input /\ Counted(o, e) # <<>> /\ Reads(CountedIn(o, item), Counted(o, e), part, Seq(A))
      BY <2>2, <3>3, <3>4, CountedReads
    <3>7. Reads(g, Counted(o, e), part, Seq(A))
      <4>1. ASSUME NEW rest \in Input PROVE g[Counted(o, e) \o rest] = CountedIn(o, item)[Counted(o, e) \o rest]
        <5>1. Counted(o, e) \o rest \in Input
          BY <3>5, InputIs
        <5> QED BY <2>4, <5>1
      <4> QED BY <3>5, <4>1 DEF Reads
    <3> QED BY <3>1, <3>5, <3>7
  <2> QED BY <2>1, <2>5, <2>6 DEF g
<1> QED BY <1>1, <1>2, <1>3

\* The parts of a geometry, as they are written behind its type.
ShapeBody(o, g, mark) ==
    IF g.ty <= 3 THEN PartOut(o, g.ty, g.parts[1])
    ELSE Counted(o, [i \in DOMAIN g.parts |-> <<mark, U32(o, g.ty - 3)>> \o PartOut(o, g.ty - 3, g.parts[i])])

\* The reader of what stands behind the type, and what it reads of what was
\* written.
LEMMA ShapeReader ==
    ASSUME NEW o \in Orders, NEW ty \in 1..6, NEW mark, NEW child,
           ty > 3 => /\ Reader(child, PartSet("bin", ty - 3))
                     /\ \A part \in PartSet("bin", ty - 3) :
                           LET e == <<mark, U32(o, ty - 3)>> \o PartOut(o, ty - 3, part)
                           IN  e \in Input /\ e # <<>> /\ Reads(child, e, part, PartSet("bin", ty - 3))
    PROVE  /\ Reader(ShapeIn(o, ty, child), PartsSet("bin", ty))
           /\ \A g : g.ty = ty /\ g.parts \in PartsSet("bin", ty) =>
                 /\ ShapeBody(o, g, mark) \in Input
                 /\ Reads(ShapeIn(o, ty, child), ShapeBody(o, g, mark), g.parts, PartsSet("bin", ty))
<1> DEFINE s == ShapeIn(o, ty, child)
<1>1. CASE ty <= 3
  <2> DEFINE f == PartIn(o, ty)
             A == PartSet("bin", ty)
             m == [part \in A |-> <<part>>]
             B == {<<part>> : part \in A}
  <2>1. PartsSet("bin", ty) = B
    BY <1>1 DEF PartsSet
  <2>2. /\ Reader(f, A)
        /\ \A part \in A : PartOut(o, ty, part) \in Input /\ Reads(f, PartOut(o, ty, part), part, A)
    <3>1. ty \in 1..3
      BY <1>1
    <3> QED BY <3>1, PartReader
  <2> HIDE DEF A
  <2>3. ASSUME NEW in \in Input
        PROVE  /\ f[in].ok => s[in] = Got(f[in].in, m[f[in].out])
               /\ ~f[in].ok => ~s[in].ok
    <3>1. s[in] = IF f[in].ok THEN Got(f[in].in, <<f[in].out>>) ELSE Stop
      BY <1>1 DEF ShapeIn, Then
    <3>2. f[in].ok => f[in].out \in A
      <4> HIDE DEF f
      <4> QED BY <2>2 DEF Reader
    <3> HIDE DEF f, s
    <3> QED BY <3>1, <3>2 DEF Stop
  <2>4. \A a \in A : m[a] = <<a>> /\ m[a] \in B
    OBVIOUS
  <2> HIDE DEF f, s, m
  <2>5. Reader(s, B)
    BY <2>2, <2>3, <2>4, MapReader
  <2>6. ASSUME NEW g, g.ty = ty, g.parts \in B
        PROVE  ShapeBody(o, g, mark) \in Input /\ Reads(s, ShapeBody(o, g, mark), g.parts, B)
    <3>1. PICK part \in A : g.parts = <<part>>
      BY <2>6
    <3>2. ShapeBody(o, g, mark) = PartOut(o, ty, part)
      BY <1>1, <2>6, <3>1 DEF ShapeBody
    <3>3. g.parts = m[part]
      BY <2>4, <3>1
    <3>4. Reads(s, PartOut(o, ty, part), g.parts, B)
      BY <2>2, <2>3, <3>3, MapReads
    <3> QED BY <2>2, <3>2, <3>4
  <2> QED BY <2>1, <2>5, <2>6 DEF s
<1>2. CASE ty > 3
  <2> DEFINE A == PartSet("bin", ty - 3)
             c == CountedIn(o, child)
             E(part) == <<mark, U32(o, ty - 3)>> \o PartOut(o, ty - 3, part)
  <2>1. PartsSet("bin", ty) = Seq(A)
    <3>1. ~(ty <= 3)
      BY <1>2
    <3>2. PartsSet("bin", ty) = Lists("bin", A)
      BY <3>1 DEF PartsSet
    <3> HIDE DEF A
    <3> QED BY <3>2, BinarySets
  <2>2. Reader(child, A) /\ \A part \in A : E(part) \in Input /\ E(part) # <<>> /\ Reads(child, E(part), part, A)
    BY <1>2
  <2>3. ASSUME NEW g, g.ty = ty PROVE ShapeBody(o, g, mark) = Counted(o, [i \in DOMAIN g.parts |-> E(g.parts[i])])
    BY <1>2, <2>3 DEF ShapeBody
  <2> HIDE DEF A, E
  <2>4. ASSUME NEW in \in Input PROVE s[in] = c[in]
    BY <1>2 DEF ShapeIn, Then
  <2>5. Reader(c, Seq(A))
    BY <2>2, CountedReader
  <2> HIDE DEF c, s
  <2>6. Reader(s, Seq(A))
    <3>1. \A in, y \in Input : in \o y \in Input
      BY InputIs
    <3> QED BY <2>4, <2>5, <3>1 DEF Reader
  <2>7. ASSUME NEW g, g.ty = ty, g.parts \in Seq(A)
        PROVE  ShapeBody(o, g, mark) \in Input /\ Reads(s, ShapeBody(o, g, mark), g.parts, Seq(A))
    <3> DEFINE xs == g.parts
               n == Len(xs)
               e == [i \in 1..n |-> E(xs[i])]
    <3>1. xs \in Seq(A) /\ n \in Nat /\ DOMAIN xs = 1..n
      BY <2>7
    <3>2. ShapeBody(o, g, mark) = Counted(o, e)
      BY <2>3, <2>7, <3>1
    <3> HIDE DEF xs
    <3>3. ASSUME NEW i \in 1..n
          PROVE  e[i] \in Input /\ e[i] # <<>> /\ Reads(child, e[i], xs[i], A)
      <4>1. xs[i] \in A /\ e[i] = E(xs[i])
        BY <3>1
      <4> QED BY <2>2, <4>1
    <3>4. e \in [1..n -> Input] /\ \A i \in 1..n : e[i] # <<>>
      BY <3>3
    <3> HIDE DEF e
    <3>5. Writes(child, e, xs, A, n)
      BY <3>1, <3>3, <3>4 DEF Writes
    <3>6. Counted(o, e) \in Input /\ Reads(CountedIn(o, child), Counted(o, e), xs, Seq(A))
      BY <2>2, <3>1, <3>4, <3>5, CountedReads
    <3>7. Reads(s, Counted(o, e), xs, Seq(A))
      <4>1. ASSUME NEW rest \in Input PROVE s[Counted(o, e) \o rest] = c[Counted(o, e) \o rest]
        <5>1. Counted(o, e) \o rest \in Input
          BY <3>6, InputIs
        <5> QED BY <2>4, <5>1
      <4> QED BY <3>6, <4>1 DEF Reads, c
    <3> QED BY <3>2, <3>6, <3>7 DEF xs
  <2> QED BY <2>1, <2>6, <2>7 DEF s
<1> QED BY <1>1, <1>2

\* The header of a WKB.
LEMMA HeaderReader ==
    LET f == [in \in Input |-> WkbHeader(in)] IN
    /\ Reader(f, Orders \X Nat)
    /\ \A o \in Orders, ty \in Nat : /\ <<OrderByte(o), U32(o, ty)>> \in Input
                                     /\ Reads(f, <<OrderByte(o), U32(o, ty)>>, <<o, ty>>, Orders \X Nat)
<1> DEFINE f == [in \in Input |-> WkbHeader(in)]
           p == [in \in Input |-> Take(in, "byte", "-")]
           q(b) == [in \in Input |-> Take(in, "u32", OrderOf(b))]
           m(b) == [ty \in Nat |-> <<OrderOf(b), ty>>]
           B == Orders \X Nat
           stop == [in \in Input |-> Stop]
           w(b) == [in \in Input |-> IF q(b)[in].ok THEN Got(q(b)[in].in, m(b)[q(b)[in].out]) ELSE Stop]
           h == [b \in Nat |-> IF b \in {0, 1} THEN w(b) ELSE stop]
<1>1. Reader(p, Nat) /\ \A b : Reader(q(b), Nat)
  <2>1. Reader(p, Nat)
    BY SMTT(20), TakeIs
  <2>2. ASSUME NEW b PROVE Reader(q(b), Nat)
    <3> DEFINE ob == OrderOf(b)
    <3> HIDE DEF ob
    <3>1. Reader([in \in Input |-> Take(in, "u32", ob)], Nat)
      BY TakeIs
    <3> QED BY <3>1 DEF ob
  <2> QED BY <2>1, <2>2
<1>2. Reader(stop, B)
  BY DEF Reader, Stop
<1>3. ASSUME NEW b PROVE Reader(w(b), B)
  <2> DEFINE qb == q(b)
             mb == m(b)
             wb == w(b)
  <2>1. Reader(qb, Nat)
    BY <1>1
  <2>2. \A a \in Nat : mb[a] \in B
    <3>1. OrderOf(b) \in Orders
      BY OrdersAre
    <3> QED BY <3>1
  <2>3. \A in \in Input : /\ qb[in].ok => wb[in] = Got(qb[in].in, mb[qb[in].out])
                          /\ ~qb[in].ok => wb[in] = Stop
    OBVIOUS
  <2> HIDE DEF qb, mb, wb, B
  <2>4. Reader(wb, B)
    <3>1. \A in \in Input : ~qb[in].ok => ~wb[in].ok
      BY <2>3 DEF Stop
    <3> QED BY <2>1, <2>2, <2>3, <3>1, MapReader
  <2> QED BY <2>4 DEF wb
<1>4. \A b \in Nat : Reader(h[b], B)
  BY <1>2, <1>3
<1>5. ASSUME NEW in \in Input
      PROVE  /\ p[in].ok => f[in] = h[p[in].out][p[in].in]
             /\ ~p[in].ok => ~f[in].ok
  <2> DEFINE r == p[in]
             b == r.out
             rest == r.in
  <2>1. r.ok => b \in Nat /\ rest \in Input
    <3> HIDE DEF p
    <3> QED BY <1>1 DEF Reader
  <2>2. f[in] = Then(r, LAMBDA x, y : Then(Take(x, "u32", OrderOf(y)), LAMBDA left, ty :
                            IF y \in {0, 1} THEN Got(left, <<OrderOf(y), ty>>) ELSE Stop))
    BY DEF WkbHeader
  <2>3. ~r.ok => f[in] = Stop
    <3> HIDE DEF r
    <3> QED BY <2>2 DEF Then
  <2>4. ASSUME r.ok PROVE f[in] = h[b][rest]
    <3> DEFINE u == Take(rest, "u32", OrderOf(b))
    <3>1. f[in] = IF u.ok THEN IF b \in {0, 1} THEN Got(u.in, <<OrderOf(b), u.out>>) ELSE Stop ELSE Stop
      <4> HIDE DEF r
      <4> QED BY <2>2, <2>4 DEF Then
    <3>2. q(b)[rest] = u
      BY <2>1, <2>4
    <3>3. u.ok => u.out \in Nat
      <4>1. Reader(q(b), Nat)
        BY <1>1
      <4> HIDE DEF q, r
      <4>2. q(b)[rest].ok => q(b)[rest].out \in Nat
        BY <2>1, <2>4, <4>1 DEF Reader
      <4> QED BY <3>2, <4>2
    <3>4. u.ok => m(b)[u.out] = <<OrderOf(b), u.out>>
      BY <3>3
    <3> HIDE DEF f, r, q, m
    <3>5. w(b)[rest] = IF u.ok THEN Got(u.in, <<OrderOf(b), u.out>>) ELSE Stop
      <4>1. w(b)[rest] = IF q(b)[rest].ok THEN Got(q(b)[rest].in, m(b)[q(b)[rest].out]) ELSE Stop
        BY <2>1, <2>4
      <4> HIDE DEF u, w
      <4> QED BY <3>2, <3>4, <4>1
    <3>6. stop[rest] = Stop
      BY <2>1, <2>4
    <3>7. h[b] = IF b \in {0, 1} THEN w(b) ELSE stop
      BY <2>1, <2>4
    <3> HIDE DEF u, w, stop, h
    <3> QED BY <3>1, <3>5, <3>6, <3>7
  <2> HIDE DEF r, f, h
  <2> QED BY <2>3, <2>4 DEF Stop, r
<1>6. Reader(f, B)
  <2> HIDE DEF f, p, h, B
  <2> QED BY <1>1, <1>4, <1>5, ThenReader
<1>7. ASSUME NEW o \in Orders, NEW ty \in Nat
      PROVE  /\ <<OrderByte(o), U32(o, ty)>> \in Input
             /\ \A rest \in Input : f[<<OrderByte(o), U32(o, ty)>> \o rest] = Got(rest, <<o, ty>>)
  <2>1. /\ OrderByte(o) \in Token /\ OrderByte(o).k = "byte" /\ OrderByte(o).o = "-"
        /\ OrderByte(o).v \in {0, 1} /\ OrderOf(OrderByte(o).v) = o
        /\ U32(o, ty) \in Token /\ U32(o, ty).k = "u32" /\ U32(o, ty).o = o /\ U32(o, ty).v = ty
    <3>1. OrderByte(o) \in Token /\ U32(o, ty) \in Token
      BY TokensAre
    <3>2. U32(o, ty).k = "u32" /\ U32(o, ty).o = o /\ U32(o, ty).v = ty
      BY DEF U32
    <3> QED BY <3>1, <3>2, OrdersAre
  <2> DEFINE t == OrderByte(o)
             u == U32(o, ty)
  <2>2. t \in Token /\ u \in Token
    BY <2>1
  <2> HIDE DEF t, u
  <2>3. <<t, u>> = <<t>> \o <<u>> /\ <<t, u>> \in Input /\ <<t>> \in Input /\ <<u>> \in Input
    <3>1. <<t, u>> = <<t>> \o <<u>>
      BY <2>2, PairIs
    <3>2. <<t>> \in Input /\ <<u>> \in Input
      BY <2>2, InputIs
    <3>3. <<t>> \o <<u>> \in Input
      BY <3>2, InputIs
    <3> QED BY <3>1, <3>2, <3>3
  <2>4. ASSUME NEW rest \in Input PROVE f[<<t, u>> \o rest] = Got(rest, <<o, ty>>)
    <3>1. <<t, u>> \o rest \in Input /\ <<u>> \o rest \in Input /\ <<t, u>> \o rest = <<t>> \o (<<u>> \o rest)
      <4>1. <<t, u>> \o rest \in Input /\ <<u>> \o rest \in Input
        BY <2>3, InputIs
      <4>2. (<<t>> \o <<u>>) \o rest = <<t>> \o (<<u>> \o rest)
        BY SMTT(20), <2>3, InputIs
      <4> QED BY <2>3, <4>1, <4>2
    <3> DEFINE in == <<t, u>> \o rest
               left == <<u>> \o rest
    <3>2. in \in Input /\ left \in Input /\ in # <<>> /\ Head(in) = t /\ Tail(in) = left
      <4>1. LET a == <<t>> \o left IN a # <<>> /\ Head(a) = t /\ Tail(a) = left
        BY <2>2, <3>1, HeadIs
      <4> QED BY <3>1, <4>1
    <3>3. left # <<>> /\ Head(left) = u /\ Tail(left) = rest
      <4>1. LET a == <<u>> \o rest IN a # <<>> /\ Head(a) = u /\ Tail(a) = rest
        BY <2>2, HeadIs
      <4> QED BY <4>1
    <3> HIDE DEF in, left
    <3>4. Take(in, "byte", "-") = Got(left, t.v)
      BY <2>1, <3>2 DEF Take, t
    <3>5. Take(left, "u32", o) = Got(rest, ty)
      BY <2>1, <3>3 DEF Take, u
    <3>6. /\ Take(in, "byte", "-").ok /\ Take(in, "byte", "-").in = left /\ Take(in, "byte", "-").out = t.v
          /\ Take(left, "u32", o).ok /\ Take(left, "u32", o).in = rest /\ Take(left, "u32", o).out = ty
      BY <3>4, <3>5 DEF Got
    <3>7. t.v \in {0, 1} /\ OrderOf(t.v) = o
      BY <2>1 DEF t
    <3>8. WkbHeader(in) = Got(rest, <<o, ty>>)
      BY <3>6, <3>7 DEF WkbHeader, Then
    <3> QED BY <3>2, <3>8 DEF in
  <2> HIDE DEF f
  <2> QED BY <2>3, <2>4 DEF t, u
<1> HIDE DEF f
<1>8. \A o \in Orders, ty \in Nat : Reads(f, <<OrderByte(o), U32(o, ty)>>, <<o, ty>>, B)
  BY <1>7 DEF Reads
<1> QED BY <1>6, <1>7, <1>8 DEF f

----------------------------------------------------------------------------
(* WKB.                                                                    *)

Geom(ty, parts) == [ty |-> ty, parts |-> parts]
Geoms(form) == UNION {{Geom(ty, parts) : parts \in PartsSet(form, ty)} : ty \in 1..6}

\* The geometries of a form by their parts.
LEMMA GeomsAre ==
    ASSUME NEW form
    PROVE  /\ \A ty \in 1..6 : \A parts : Geom(ty, parts) \in Geoms(form) <=> parts \in PartsSet(form, ty)
           /\ \A g \in Geoms(form) : g.ty \in 1..6 /\ g.parts \in PartsSet(form, g.ty) /\ g = Geom(g.ty, g.parts)
<1>1. \A ty, parts : Geom(ty, parts).ty = ty /\ Geom(ty, parts).parts = parts
  BY DEF Geom
<1>2. ASSUME NEW g \in Geoms(form)
      PROVE  \E ty \in 1..6 : \E parts \in PartsSet(form, ty) : g = Geom(ty, parts)
  BY DEF Geoms
<1>3. ASSUME NEW ty \in 1..6, NEW parts \in PartsSet(form, ty) PROVE Geom(ty, parts) \in Geoms(form)
  BY DEF Geoms
<1> QED BY <1>1, <1>2, <1>3

\* Nothing is read.
LEMMA StopReader ==
    ASSUME NEW B
    PROVE  Reader([in \in Input |-> Stop], B)
BY DEF Reader, Stop

\* A geometry, of whose parts s is a reader.
LEMMA TypedReader ==
    ASSUME NEW form, NEW ty \in 1..6, NEW s, Reader(s, PartsSet(form, ty)), NEW g,
           \A in \in Input : g[in] = IF s[in].ok THEN Got(s[in].in, Geom(ty, s[in].out)) ELSE Stop
    PROVE  /\ Reader(g, Geoms(form))
           /\ \A e \in Input : \A parts :
                 Reads(s, e, parts, PartsSet(form, ty)) => Reads(g, e, Geom(ty, parts), Geoms(form))
<1>1. ASSUME NEW in \in Input, g[in].ok
      PROVE  /\ g[in].in \in Input /\ g[in].out \in Geoms(form)
             /\ \A y \in Input : g[in \o y] = Got(g[in].in \o y, g[in].out)
  <2>1. g[in] = Got(s[in].in, Geom(ty, s[in].out)) /\ s[in].ok
    BY <1>1 DEF Stop
  <2>2. g[in].in = s[in].in /\ g[in].out = Geom(ty, s[in].out)
    BY <2>1 DEF Got
  <2>3. /\ s[in].in \in Input /\ s[in].out \in PartsSet(form, ty)
        /\ \A y \in Input : s[in \o y] = Got(s[in].in \o y, s[in].out)
    BY <2>1 DEF Reader
  <2>4. Geom(ty, s[in].out) \in Geoms(form)
    BY <2>3, GeomsAre
  <2>5. ASSUME NEW y \in Input PROVE g[in \o y] = Got(s[in].in \o y, Geom(ty, s[in].out))
    <3>1. in \o y \in Input
      BY InputIs
    <3>2. s[in \o y] = Got(s[in].in \o y, s[in].out)
      BY <2>3
    <3>3. s[in \o y].ok /\ s[in \o y].in = s[in].in \o y /\ s[in \o y].out = s[in].out
      BY <3>2 DEF Got
    <3> QED BY <3>1, <3>3
  <2> QED BY <2>2, <2>3, <2>4, <2>5
<1>2. ASSUME NEW e \in Input, NEW parts, Reads(s, e, parts, PartsSet(form, ty)), NEW rest \in Input
      PROVE  /\ g[e \o rest].ok => g[e \o rest] = Got(rest, Geom(ty, parts))
             /\ Geom(ty, parts) \in Geoms(form) => g[e \o rest] = Got(rest, Geom(ty, parts))
  <2> DEFINE in == e \o rest
  <2>1. in \in Input
    BY InputIs
  <2>2. /\ s[in].ok => s[in] = Got(rest, parts)
        /\ parts \in PartsSet(form, ty) => s[in] = Got(rest, parts)
    BY <1>2 DEF Reads
  <2> HIDE DEF in
  <2>3. ASSUME s[in].ok PROVE g[in] = Got(rest, Geom(ty, parts))
    <3>1. s[in].in = rest /\ s[in].out = parts
      BY <2>2, <2>3 DEF Got
    <3> QED BY <2>1, <2>3, <3>1
  <2>4. g[in].ok => s[in].ok
    BY <2>1 DEF Stop
  <2>5. Geom(ty, parts) \in Geoms(form) => s[in].ok
    <3>1. Geom(ty, parts) \in Geoms(form) => parts \in PartsSet(form, ty)
      BY GeomsAre
    <3> QED BY <2>2, <3>1 DEF Got
  <2> QED BY <2>3, <2>4, <2>5 DEF in
<1> QED BY <1>1, <1>2 DEF Reader, Reads

\* A child of a Multi.
LEMMA WkbChildReader ==
    ASSUME NEW ty \in 4..6
    PROVE  /\ Reader(WkbChild(ty), PartSet("bin", ty - 3))
           /\ \A o \in Orders, part \in PartSet("bin", ty - 3) :
                LET e == <<OrderByte(o), U32(o, ty - 3)>> \o PartOut(o, ty - 3, part)
                IN  e \in Input /\ e # <<>> /\ Reads(WkbChild(ty), e, part, PartSet("bin", ty - 3))
<1> DEFINE f == [in \in Input |-> WkbHeader(in)]
           A == Orders \X Nat
           stop == [in \in Input |-> Stop]
           h == [hd \in A |-> IF hd[2] = ty - 3 THEN PartIn(hd[1], ty - 3) ELSE stop]
           B == PartSet("bin", ty - 3)
           g == WkbChild(ty)
<1>0. ty - 3 \in 1..3 /\ ty - 3 \in Nat
  OBVIOUS
<1>1. Reader(f, A)
  BY HeaderReader
<1>2. ASSUME NEW hd \in A PROVE Reader(h[hd], B)
  <2>1. hd[1] \in Orders
    OBVIOUS
  <2>2. Reader(PartIn(hd[1], ty - 3), B)
    BY <1>0, <2>1, PartReader
  <2>3. Reader(stop, B)
    BY StopReader
  <2>4. h[hd] = PartIn(hd[1], ty - 3) \/ h[hd] = stop
    OBVIOUS
  <2> QED BY <2>2, <2>3, <2>4
<1>3. ASSUME NEW in \in Input
      PROVE  /\ f[in].ok => g[in] = h[f[in].out][f[in].in]
             /\ ~f[in].ok => ~g[in].ok
  <2>1. g[in] = IF f[in].ok THEN IF f[in].out[2] = ty - 3 THEN PartIn(f[in].out[1], ty - 3)[f[in].in] ELSE Stop ELSE Stop
    BY DEF WkbChild, Then
  <2>2. f[in].ok => f[in].in \in Input /\ f[in].out \in A
    <3> HIDE DEF f
    <3> QED BY <1>1 DEF Reader
  <2> DEFINE hd == f[in].out
             rest == f[in].in
  <2>3. ASSUME f[in].ok PROVE h[hd][rest] = IF hd[2] = ty - 3 THEN PartIn(hd[1], ty - 3)[rest] ELSE Stop
    <3>1. stop[rest] = Stop
      BY <2>2, <2>3
    <3> HIDE DEF stop, f
    <3> QED BY <2>2, <2>3, <3>1
  <2> HIDE DEF f, h, g
  <2> QED BY <2>1, <2>3 DEF Stop
<1>4. Reader(g, B)
  <2> HIDE DEF f, h, g, A, B
  <2> QED BY <1>1, <1>2, <1>3, ThenReader
<1>5. ASSUME NEW o \in Orders, NEW part \in B
      PROVE  LET e == <<OrderByte(o), U32(o, ty - 3)>> \o PartOut(o, ty - 3, part)
             IN  e \in Input /\ e # <<>> /\ Reads(g, e, part, B)
  <2> DEFINE d == <<OrderByte(o), U32(o, ty - 3)>>
             e == PartOut(o, ty - 3, part)
             a == <<o, ty - 3>>
  <2>1. d \in Input /\ Reads(f, d, a, A)
    BY <1>0, HeaderReader
  <2>2. e \in Input /\ e # <<>> /\ Reads(PartIn(o, ty - 3), e, part, B)
    BY <1>0, PartReader
  <2>3. a \in A /\ h[a] = PartIn(o, ty - 3)
    BY <1>0
  <2> HIDE DEF f, h, g, A, B, a, d, e
  <2>4. Reads(h[a], e, part, B)
    BY <2>2, <2>3
  <2>5. Reads(g, d \o e, part, B)
    BY <1>3, <2>1, <2>2, <2>3, <2>4, ThenReads
  <2>6. d \o e \in Input
    BY <2>1, <2>2, InputIs
  <2>7. d \o e # <<>>
    <3>1. Len(d \o e) = Len(d) + Len(e) /\ Len(d) \in Nat /\ Len(e) \in Nat
      BY <2>1, <2>2, InputIs
    <3>2. Len(e) # 0
      BY <2>2 DEF Input
    <3> DEFINE m == Len(d)
               n == Len(e)
    <3>3. m + n # 0
      <4>1. m \in Nat /\ n \in Nat /\ n # 0
        BY <3>1, <3>2
      <4> HIDE DEF m, n
      <4> QED BY <4>1
    <3>4. Len(<<>>) = 0
      OBVIOUS
    <3> QED BY <3>1, <3>3, <3>4
  <2> QED BY <2>5, <2>6, <2>7 DEF d, e
<1> QED BY <1>4, <1>5

\* What ReadGeom reads behind a header.
WkbBody(o, ty) ==
    [in \in Input |-> LET s == ShapeIn(o, ty, WkbChild(ty))[in]
                      IN  IF s.ok THEN Got(s.in, Geom(ty, s.out)) ELSE Stop]

\* What stands behind a WKB header is read as it was written,
LEMMA WkbBodyReader ==
    ASSUME NEW o \in Orders, NEW ty \in 1..6
    PROVE  /\ Reader(WkbBody(o, ty), Geoms("bin"))
           /\ \A parts \in PartsSet("bin", ty) :
                 LET e == ShapeBody(o, Geom(ty, parts), OrderByte(o))
                 IN  e \in Input /\ Reads(WkbBody(o, ty), e, Geom(ty, parts), Geoms("bin"))
<1> DEFINE s == ShapeIn(o, ty, WkbChild(ty))
           mark == OrderByte(o)
           g == WkbBody(o, ty)
           Child == ty > 3 => /\ Reader(WkbChild(ty), PartSet("bin", ty - 3))
                              /\ \A part \in PartSet("bin", ty - 3) :
                                    LET e == <<mark, U32(o, ty - 3)>> \o PartOut(o, ty - 3, part)
                                    IN  e \in Input /\ e # <<>> /\ Reads(WkbChild(ty), e, part, PartSet("bin", ty - 3))
<1>1. Child
  <2> SUFFICES ASSUME ty > 3
               PROVE  /\ Reader(WkbChild(ty), PartSet("bin", ty - 3))
                      /\ \A part \in PartSet("bin", ty - 3) :
                            LET e == <<mark, U32(o, ty - 3)>> \o PartOut(o, ty - 3, part)
                            IN  e \in Input /\ e # <<>> /\ Reads(WkbChild(ty), e, part, PartSet("bin", ty - 3))
    OBVIOUS
  <2>1. ty \in 4..6
    OBVIOUS
  <2> QED BY <2>1, WkbChildReader
<1>2. /\ Reader(s, PartsSet("bin", ty))
      /\ \A k : k.ty = ty /\ k.parts \in PartsSet("bin", ty) =>
            /\ ShapeBody(o, k, mark) \in Input
            /\ Reads(s, ShapeBody(o, k, mark), k.parts, PartsSet("bin", ty))
  BY <1>1, ShapeReader
<1>3. \A in \in Input : g[in] = IF s[in].ok THEN Got(s[in].in, Geom(ty, s[in].out)) ELSE Stop
  BY DEF WkbBody
<1> HIDE DEF s, g, mark, Child
<1>4. /\ Reader(g, Geoms("bin"))
      /\ \A e \in Input : \A parts : Reads(s, e, parts, PartsSet("bin", ty)) => Reads(g, e, Geom(ty, parts), Geoms("bin"))
  BY <1>2, <1>3, TypedReader
<1>5. ASSUME NEW parts \in PartsSet("bin", ty)
      PROVE  LET e == ShapeBody(o, Geom(ty, parts), mark)
             IN  e \in Input /\ Reads(g, e, Geom(ty, parts), Geoms("bin"))
  <2>1. Geom(ty, parts).ty = ty /\ Geom(ty, parts).parts = parts
    BY DEF Geom
  <2>2. ShapeBody(o, Geom(ty, parts), mark) \in Input /\ Reads(s, ShapeBody(o, Geom(ty, parts), mark), parts, PartsSet("bin", ty))
    BY <1>2, <2>1
  <2> QED BY <1>4, <2>2
<1> QED BY <1>4, <1>5 DEF g, mark

\* and so is the whole.
LEMMA GeomReader ==
    LET g == [w \in Input |-> ReadGeom(w)] IN
    /\ Reader(g, Geoms("bin"))
    /\ \A o \in Orders, x \in Geoms("bin") : WkbIn(o, x) \in Input /\ WkbIn(o, x) # <<>>
                                             /\ Reads(g, WkbIn(o, x), x, Geoms("bin"))
<1> DEFINE f == [in \in Input |-> WkbHeader(in)]
           A == Orders \X Nat
           stop == [in \in Input |-> Stop]
           h == [hd \in A |-> IF hd[2] \in 1..6 THEN WkbBody(hd[1], hd[2]) ELSE stop]
           B == Geoms("bin")
           g == [w \in Input |-> ReadGeom(w)]
<1>1. Reader(f, A)
  BY HeaderReader
<1>2. ASSUME NEW hd \in A PROVE Reader(h[hd], B)
  <2>1. hd[1] \in Orders
    OBVIOUS
  <2>2. Reader(stop, B)
    BY StopReader
  <2>3. (hd[2] \in 1..6 /\ h[hd] = WkbBody(hd[1], hd[2])) \/ h[hd] = stop
    OBVIOUS
  <2>4. hd[2] \in 1..6 => Reader(WkbBody(hd[1], hd[2]), B)
    BY <2>1, WkbBodyReader
  <2> QED BY <2>2, <2>3, <2>4
<1>3. ASSUME NEW in \in Input
      PROVE  /\ f[in].ok => g[in] = h[f[in].out][f[in].in]
             /\ ~f[in].ok => ~g[in].ok
  <2> DEFINE hd == f[in].out
             rest == f[in].in
             S(r) == ShapeIn(hd[1], hd[2], WkbChild(hd[2]))[r]
  <2>1. g[in] = IF f[in].ok THEN IF hd[2] \notin 1..6 THEN Stop
                                 ELSE IF S(rest).ok THEN Got(S(rest).in, Geom(hd[2], S(rest).out)) ELSE Stop
                ELSE Stop
    BY DEF ReadGeom, Then, Geom
  <2>2. f[in].ok => rest \in Input /\ hd \in A
    <3> HIDE DEF f
    <3> QED BY <1>1 DEF Reader
  <2>3. ASSUME f[in].ok PROVE h[hd][rest] = IF hd[2] \notin 1..6 THEN Stop
                                 ELSE IF S(rest).ok THEN Got(S(rest).in, Geom(hd[2], S(rest).out)) ELSE Stop
    <3>1. stop[rest] = Stop
      BY <2>2, <2>3
    <3>2. WkbBody(hd[1], hd[2])[rest] = IF S(rest).ok THEN Got(S(rest).in, Geom(hd[2], S(rest).out)) ELSE Stop
      <4> HIDE DEF f, hd
      <4> QED BY <2>2, <2>3 DEF WkbBody
    <3>3. h[hd] = IF hd[2] \in 1..6 THEN WkbBody(hd[1], hd[2]) ELSE stop
      <4> HIDE DEF f, stop
      <4> QED BY <2>2, <2>3
    <3> HIDE DEF stop, f, h, S, hd
    <3> QED BY <3>1, <3>2, <3>3
  <2> HIDE DEF f, h, g, S, hd, rest
  <2>4. f[in].ok => g[in] = h[hd][rest]
    BY <2>1, <2>3
  <2>5. ~f[in].ok => ~g[in].ok
    BY <2>1 DEF Stop
  <2> QED BY <2>4, <2>5 DEF hd, rest
<1>4. Reader(g, B)
  <2> HIDE DEF f, h, g, A, B
  <2> QED BY <1>1, <1>2, <1>3, ThenReader
<1>5. ASSUME NEW o \in Orders, NEW x \in B
      PROVE  WkbIn(o, x) \in Input /\ WkbIn(o, x) # <<>> /\ Reads(g, WkbIn(o, x), x, B)
  <2>1. x.ty \in 1..6 /\ x.parts \in PartsSet("bin", x.ty) /\ x = Geom(x.ty, x.parts)
    BY GeomsAre
  <2> DEFINE ty == x.ty
             d == <<OrderByte(o), U32(o, ty)>>
             e == ShapeBody(o, x, OrderByte(o))
             a == <<o, ty>>
  <2>2. d \in Input /\ Reads(f, d, a, A)
    BY <2>1, HeaderReader
  <2>3. e \in Input /\ Reads(WkbBody(o, ty), e, x, B)
    BY <2>1, WkbBodyReader
  <2>4. a \in A /\ h[a] = WkbBody(o, ty)
    BY <2>1
  <2>5. WkbIn(o, x) = d \o e
    <3>1. WkbIn(o, x) = <<OrderByte(o)>> \o (<<U32(o, ty)>> \o e)
      BY DEF WkbIn, ShapeOut, ShapeBody
    <3>2. OrderByte(o) \in Token /\ U32(o, ty) \in Token
      <4>1. ty \in Nat
        BY <2>1
      <4> QED BY <4>1, TokensAre
    <3>3. d = <<OrderByte(o)>> \o <<U32(o, ty)>>
      BY <3>2, PairIs
    <3>4. <<OrderByte(o)>> \in Input /\ <<U32(o, ty)>> \in Input
      BY <3>2, InputIs
    <3> HIDE DEF e, d
    <3>5. (<<OrderByte(o)>> \o <<U32(o, ty)>>) \o e = <<OrderByte(o)>> \o (<<U32(o, ty)>> \o e)
      BY <2>3, <3>4, InputIs
    <3> QED BY <3>1, <3>3, <3>5
  <2> HIDE DEF f, h, g, A, B, a, d, e, ty
  <2>6. Reads(h[a], e, x, B)
    BY <2>3, <2>4
  <2>7. Reads(g, d \o e, x, B)
    BY <1>3, <2>2, <2>3, <2>4, <2>6, ThenReads
  <2>8. d \o e \in Input
    BY <2>2, <2>3, InputIs
  <2>9. d \o e # <<>>
    <3>1. d # <<>>
      BY DEF d
    <3> QED BY <2>2, <2>3, <3>1, HeadIs
  <2> QED BY <2>5, <2>7, <2>8, <2>9
<1> QED BY <1>4, <1>5

\* What a WKB decodes to is a geometry, and every geometry has its WKB.
THEOREM WkbRoundTrip ==
    /\ Refused \notin Geoms("bin")
    /\ \A w \in Input : DecodeWkb(w) # Refused => DecodeWkb(w) \in Geoms("bin") /\ ReadGeom(w) = Got(<<>>, DecodeWkb(w))
    /\ \A w \in Input : ReadGeom(w).ok => ReadGeom(w).in \in Input /\ ReadGeom(w).out \in Geoms("bin")
    /\ \A w, y \in Input : ReadGeom(w).ok => ReadGeom(w \o y) = Got(ReadGeom(w).in \o y, ReadGeom(w).out)
    /\ \A o \in Orders, g \in Geoms("bin") :
          WkbIn(o, g) \in Input /\ WkbIn(o, g) # <<>> /\ ReadGeom(WkbIn(o, g)) = Got(<<>>, g) /\ DecodeWkb(WkbIn(o, g)) = g
<1> DEFINE f == [w \in Input |-> ReadGeom(w)]
           B == Geoms("bin")
<1>1. Reader(f, B)
  BY GeomReader
<1>2. \A o \in Orders, x \in B : WkbIn(o, x) \in Input /\ WkbIn(o, x) # <<>> /\ Reads(f, WkbIn(o, x), x, B)
  BY GeomReader
<1>3. Refused \notin B
  <2>1. Refused.ty = 0
    BY DEF Refused
  <2>2. \A g \in B : g.ty \in 1..6
    BY GeomsAre
  <2> QED BY <2>1, <2>2
<1>4. \A w \in Input : f[w] = ReadGeom(w)
  OBVIOUS
<1> HIDE DEF f, B
<1>5. ASSUME NEW w \in Input, ReadGeom(w).ok
      PROVE  /\ ReadGeom(w).in \in Input /\ ReadGeom(w).out \in B
             /\ \A y \in Input : ReadGeom(w \o y) = Got(ReadGeom(w).in \o y, ReadGeom(w).out)
  <2>1. \A y \in Input : w \o y \in Input
    BY InputIs
  <2>2. f[w].ok
    BY <1>4, <1>5
  <2>3. f[w].in \in Input /\ f[w].out \in B /\ \A y \in Input : f[w \o y] = Got(f[w].in \o y, f[w].out)
    BY <1>1, <2>2 DEF Reader
  <2> QED BY <1>4, <2>1, <2>3
<1>6. ASSUME NEW w \in Input, DecodeWkb(w) # Refused
      PROVE  DecodeWkb(w) \in B /\ ReadGeom(w) = Got(<<>>, DecodeWkb(w))
  <2>1. ReadGeom(w).ok /\ ReadGeom(w).in = <<>> /\ DecodeWkb(w) = ReadGeom(w).out
    BY <1>6 DEF DecodeWkb, Whole
  <2>2. ReadGeom(w).out \in B
    BY <1>5, <2>1
  <2>3. f[w] = Got(f[w].in, f[w].out)
    <3>1. f[w].ok
      BY <1>4, <2>1
    <3>2. f[w \o <<>>] = Got(f[w].in \o <<>>, f[w].out) /\ f[w].in \in Input
      BY <1>1, <3>1, InputIs DEF Reader
    <3>3. w \o <<>> = w /\ f[w].in \o <<>> = f[w].in
      BY <3>2, InputIs
    <3> QED BY <3>2, <3>3
  <2> QED BY <1>4, <2>1, <2>2, <2>3
<1>7. ASSUME NEW o \in Orders, NEW g \in B
      PROVE  /\ WkbIn(o, g) \in Input /\ WkbIn(o, g) # <<>>
             /\ ReadGeom(WkbIn(o, g)) = Got(<<>>, g) /\ DecodeWkb(WkbIn(o, g)) = g
  <2> DEFINE w == WkbIn(o, g)
  <2>1. w \in Input /\ w # <<>> /\ Reads(f, w, g, B)
    BY <1>2
  <2> HIDE DEF w
  <2>2. w \o <<>> = w /\ <<>> \in Input
    BY <2>1, InputIs
  <2>3. f[w \o <<>>] = Got(<<>>, g)
    BY <2>1, <2>2 DEF Reads
  <2>4. ReadGeom(w) = Got(<<>>, g)
    BY <1>4, <2>1, <2>2, <2>3
  <2>5. ReadGeom(w).ok /\ ReadGeom(w).in = <<>> /\ ReadGeom(w).out = g
    BY <2>4 DEF Got
  <2>6. DecodeWkb(w) = g
    BY <2>5 DEF DecodeWkb, Whole
  <2> QED BY <2>1, <2>4, <2>6 DEF w
<1> QED BY <1>3, <1>5, <1>6, <1>7 DEF B

----------------------------------------------------------------------------
(* SpatiaLite's geometry.                                                  *)

\* A word of a byte order, which chooses what follows.
LEMMA WordThen ==
    ASSUME NEW o \in Orders, NEW h, NEW B, \A n \in Nat : Reader(h[n], B), NEW g,
           \A in \in Input : LET r == Take(in, "u32", o) IN g[in] = IF r.ok THEN h[r.out][r.in] ELSE Stop
    PROVE  /\ Reader(g, B)
           /\ \A n \in Nat, e \in Input : \A x :
                 Reads(h[n], e, x, B) => Reads(g, <<U32(o, n)>> \o e, x, B) /\ <<U32(o, n)>> \o e \in Input
<1> DEFINE f == [in \in Input |-> Take(in, "u32", o)]
<1>1. Reader(f, Nat)
  BY TakeReader
<1>2. \A in \in Input : /\ f[in].ok => g[in] = h[f[in].out][f[in].in]
                        /\ ~f[in].ok => ~g[in].ok
  BY DEF Stop
<1>3. ASSUME NEW n \in Nat PROVE <<U32(o, n)>> \in Input /\ Reads(f, <<U32(o, n)>>, n, Nat)
  <2>1. U32(o, n) \in Token /\ U32(o, n).k = "u32" /\ U32(o, n).o = o /\ U32(o, n).v = n
    <3>1. U32(o, n) \in Token
      BY TokensAre
    <3> QED BY <3>1 DEF U32
  <2>2. Reads(f, <<U32(o, n)>>, U32(o, n).v, Nat)
    BY <2>1, TakeReads
  <2> HIDE DEF f
  <2> QED BY <2>1, <2>2, InputIs
<1> HIDE DEF f
<1>4. Reader(g, B)
  BY <1>1, <1>2, ThenReader
<1>5. ASSUME NEW n \in Nat, NEW e \in Input, NEW x, Reads(h[n], e, x, B)
      PROVE  Reads(g, <<U32(o, n)>> \o e, x, B) /\ <<U32(o, n)>> \o e \in Input
  <2> DEFINE d == <<U32(o, n)>>
  <2>1. d \in Input /\ Reads(f, d, n, Nat)
    BY <1>3
  <2> HIDE DEF d
  <2>2. Reads(g, d \o e, x, B)
    BY <1>2, <1>5, <2>1, ThenReads
  <2>3. d \o e \in Input
    BY <2>1, InputIs
  <2> QED BY <2>2, <2>3 DEF d
<1> QED BY <1>4, <1>5

\* A child of a Multi in a SpatiaLite blob.
LEMMA SpatialiteChildReader ==
    ASSUME NEW o \in Orders, NEW ty \in 4..6
    PROVE  /\ Reader(SpatialiteChild(o, ty), PartSet("bin", ty - 3))
           /\ \A part \in PartSet("bin", ty - 3) :
                LET e == <<Mark, U32(o, ty - 3)>> \o PartOut(o, ty - 3, part)
                IN  e \in Input /\ e # <<>> /\ Reads(SpatialiteChild(o, ty), e, part, PartSet("bin", ty - 3))
<1> DEFINE f == [in \in Input |-> Take(in, "byte", "-")]
           stop == [in \in Input |-> Stop]
           B == PartSet("bin", ty - 3)
           G(m) == [t \in Nat |-> IF m = Mark.v /\ t = ty - 3 THEN PartIn(o, ty - 3) ELSE stop]
           H(m) == [in \in Input |-> LET r == Take(in, "u32", o) IN IF r.ok THEN G(m)[r.out][r.in] ELSE Stop]
           h == [m \in Nat |-> H(m)]
           g == SpatialiteChild(o, ty)
<1>0. ty - 3 \in 1..3 /\ ty - 3 \in Nat
  OBVIOUS
<1>1. Reader(f, Nat)
  BY TakeReader
<1>2. ASSUME NEW m, NEW n \in Nat PROVE Reader(G(m)[n], B)
  <2>1. Reader(PartIn(o, ty - 3), B)
    BY <1>0, PartReader
  <2>2. Reader(stop, B)
    BY StopReader
  <2>3. G(m)[n] = PartIn(o, ty - 3) \/ G(m)[n] = stop
    OBVIOUS
  <2> HIDE DEF G, stop
  <2> QED BY <2>1, <2>2, <2>3
<1>3. ASSUME NEW m
      PROVE  /\ Reader(H(m), B)
             /\ \A n \in Nat, e \in Input : \A x :
                   Reads(G(m)[n], e, x, B) => Reads(H(m), <<U32(o, n)>> \o e, x, B) /\ <<U32(o, n)>> \o e \in Input
  <2> DEFINE hm == G(m)
             gm == H(m)
  <2>1. \A n \in Nat : Reader(hm[n], B)
    BY <1>2
  <2> HIDE DEF hm
  <2>2. \A in \in Input : LET r == Take(in, "u32", o) IN gm[in] = IF r.ok THEN hm[r.out][r.in] ELSE Stop
    BY DEF hm
  <2> HIDE DEF gm, B
  <2>3. /\ Reader(gm, B)
        /\ \A n \in Nat, e \in Input : \A x :
              Reads(hm[n], e, x, B) => Reads(gm, <<U32(o, n)>> \o e, x, B) /\ <<U32(o, n)>> \o e \in Input
    BY <2>1, <2>2, WordThen
  <2> QED BY <2>3 DEF hm, gm
<1>4. \A m \in Nat : h[m] = H(m)
  OBVIOUS
<1>5. ASSUME NEW in \in Input
      PROVE  /\ f[in].ok => g[in] = h[f[in].out][f[in].in]
             /\ ~f[in].ok => ~g[in].ok
  <2> DEFINE m == f[in].out
             rest == f[in].in
             r == Take(rest, "u32", o)
  <2>1. f[in].ok => rest \in Input /\ m \in Nat
    <3> HIDE DEF f
    <3> QED BY <1>1 DEF Reader
  <2>2. g[in] = IF f[in].ok
                THEN IF r.ok THEN IF m = Mark.v /\ r.out = ty - 3 THEN PartIn(o, ty - 3)[r.in] ELSE Stop ELSE Stop
                ELSE Stop
    BY DEF SpatialiteChild, Then
  <2>3. r.ok /\ f[in].ok => r.out \in Nat /\ r.in \in Input
    <3> DEFINE u == [x \in Input |-> Take(x, "u32", o)]
    <3>1. Reader(u, Nat)
      BY TakeReader
    <3>2. f[in].ok => u[rest] = r
      BY <2>1
    <3> HIDE DEF u, r, rest
    <3> QED BY <2>1, <3>1, <3>2 DEF Reader
  <2>4. ASSUME f[in].ok PROVE h[m][rest] = IF r.ok THEN IF m = Mark.v /\ r.out = ty - 3 THEN PartIn(o, ty - 3)[r.in] ELSE Stop ELSE Stop
    <3>1. H(m)[rest] = IF r.ok THEN G(m)[r.out][r.in] ELSE Stop
      <4> HIDE DEF G, f
      <4> QED BY <2>1, <2>4
    <3>2. r.ok => stop[r.in] = Stop
      BY <2>3, <2>4
    <3>3. r.ok => G(m)[r.out] = IF m = Mark.v /\ r.out = ty - 3 THEN PartIn(o, ty - 3) ELSE stop
      <4> HIDE DEF r, m, stop
      <4> QED BY <2>3, <2>4
    <3>4. h[m] = H(m)
      BY <1>4, <2>1, <2>4
    <3> HIDE DEF G, H, r, m, rest, stop, f, h
    <3> QED BY <3>1, <3>2, <3>3, <3>4
  <2> HIDE DEF r, f, h, g
  <2>5. f[in].ok => g[in] = h[m][rest]
    BY <2>2, <2>4
  <2>6. ~f[in].ok => ~g[in].ok
    BY <2>2 DEF Stop
  <2> QED BY <2>5, <2>6
<1>6. \A m \in Nat : Reader(h[m], B)
  <2> HIDE DEF H, h, B
  <2> QED BY <1>3, <1>4
<1>7. Reader(g, B)
  <2> HIDE DEF f, h, g, B
  <2> QED BY <1>1, <1>5, <1>6, ThenReader
<1>8. ASSUME NEW part \in B
      PROVE  LET e == <<Mark, U32(o, ty - 3)>> \o PartOut(o, ty - 3, part)
             IN  e \in Input /\ e # <<>> /\ Reads(g, e, part, B)
  <2> DEFINE d == <<Mark>>
             u == <<U32(o, ty - 3)>>
             p == PartOut(o, ty - 3, part)
  <2>1. Mark \in Token /\ Mark.k = "byte" /\ Mark.o = "-" /\ Mark.v = 105 /\ Mark.v \in Nat
    <3>1. Byte(105) \in Token
      BY TokensAre
    <3> QED BY <3>1 DEF Mark, Byte
  <2>2. d \in Input /\ Reads(f, d, Mark.v, Nat)
    BY SMTT(20), <2>1, TakeReads, InputIs
  <2>3. p \in Input /\ Reads(PartIn(o, ty - 3), p, part, B)
    BY <1>0, PartReader
  <2>4. G(Mark.v)[ty - 3] = PartIn(o, ty - 3)
    BY <1>0
  <2>5. Reads(G(Mark.v)[ty - 3], p, part, B)
    <3> HIDE DEF G
    <3> QED BY <2>3, <2>4
  <2>6. Reads(H(Mark.v), u \o p, part, B) /\ u \o p \in Input
    <3> HIDE DEF G, H, B, p
    <3> QED BY <1>0, <1>3, <2>3, <2>5
  <2>7. Reads(h[Mark.v], u \o p, part, B)
    <3> HIDE DEF H, h, B, u, p
    <3> QED BY <1>4, <2>1, <2>6
  <2>8. Reads(g, d \o (u \o p), part, B)
    <3> DEFINE e == u \o p
               a == Mark.v
    <3>1. e \in Input /\ Reads(h[a], e, part, B) /\ Reads(f, d, a, Nat) /\ d \in Input /\ a \in Nat
      BY <2>1, <2>2, <2>6, <2>7
    <3> HIDE DEF f, h, g, B, d, e, a
    <3>2. Reads(g, d \o e, part, B)
      BY <1>5, <3>1, ThenReads
    <3> QED BY <3>2 DEF e
  <2>9. <<Mark, U32(o, ty - 3)>> \o p = d \o (u \o p)
    <3>1. U32(o, ty - 3) \in Token
      BY <1>0, TokensAre
    <3>2. <<Mark, U32(o, ty - 3)>> = d \o u
      BY <2>1, <3>1, PairIs
    <3>3. u \in Input
      BY <3>1, InputIs
    <3>4. p \in Input /\ d \in Input
      BY <2>2, <2>3
    <3> HIDE DEF d, u, p
    <3>5. (d \o u) \o p = d \o (u \o p)
      BY ZenonT(60), <3>3, <3>4, InputIs
    <3> QED BY <3>2, <3>5
  <2>10. d \o (u \o p) \in Input /\ d \o (u \o p) # <<>>
    <3> DEFINE e == u \o p
    <3>1. e \in Input
      BY <2>6
    <3> HIDE DEF e
    <3>2. d \o e \in Input
      BY <2>2, <3>1, InputIs
    <3>3. LET in == <<Mark>> \o e IN in # <<>>
      BY <2>1, <3>1, HeadIs
    <3> QED BY <3>2, <3>3 DEF e
  <2> HIDE DEF d, u, g, B
  <2> QED BY <2>8, <2>9, <2>10 DEF p
<1> QED BY <1>7, <1>8

\* What SpatialiteGeom reads behind the type.
SpatialiteBody(o, ty) ==
    [in \in Input |-> LET s == ShapeIn(o, ty, SpatialiteChild(o, ty))[in]
                      IN  IF s.ok THEN Got(s.in, Geom(ty, s.out)) ELSE Stop]

\* What stands behind the type in a SpatiaLite blob is read as it was written,
LEMMA SpatialiteBodyReader ==
    ASSUME NEW o \in Orders, NEW ty \in 1..6
    PROVE  /\ Reader(SpatialiteBody(o, ty), Geoms("bin"))
           /\ \A parts \in PartsSet("bin", ty) :
                 LET e == ShapeBody(o, Geom(ty, parts), Mark)
                 IN  e \in Input /\ Reads(SpatialiteBody(o, ty), e, Geom(ty, parts), Geoms("bin"))
<1> DEFINE s == ShapeIn(o, ty, SpatialiteChild(o, ty))
           g == SpatialiteBody(o, ty)
           Child == ty > 3 => /\ Reader(SpatialiteChild(o, ty), PartSet("bin", ty - 3))
                              /\ \A part \in PartSet("bin", ty - 3) :
                                    LET e == <<Mark, U32(o, ty - 3)>> \o PartOut(o, ty - 3, part)
                                    IN  e \in Input /\ e # <<>> /\ Reads(SpatialiteChild(o, ty), e, part, PartSet("bin", ty - 3))
<1>1. Child
  <2> SUFFICES ASSUME ty > 3
               PROVE  /\ Reader(SpatialiteChild(o, ty), PartSet("bin", ty - 3))
                      /\ \A part \in PartSet("bin", ty - 3) :
                            LET e == <<Mark, U32(o, ty - 3)>> \o PartOut(o, ty - 3, part)
                            IN  e \in Input /\ e # <<>> /\ Reads(SpatialiteChild(o, ty), e, part, PartSet("bin", ty - 3))
    OBVIOUS
  <2>1. ty \in 4..6
    OBVIOUS
  <2> QED BY <2>1, SpatialiteChildReader
<1>2. /\ Reader(s, PartsSet("bin", ty))
      /\ \A k : k.ty = ty /\ k.parts \in PartsSet("bin", ty) =>
            /\ ShapeBody(o, k, Mark) \in Input
            /\ Reads(s, ShapeBody(o, k, Mark), k.parts, PartsSet("bin", ty))
  BY <1>1, ShapeReader
<1>3. \A in \in Input : g[in] = IF s[in].ok THEN Got(s[in].in, Geom(ty, s[in].out)) ELSE Stop
  BY DEF SpatialiteBody
<1> HIDE DEF s, g, Child
<1>4. /\ Reader(g, Geoms("bin"))
      /\ \A e \in Input : \A parts : Reads(s, e, parts, PartsSet("bin", ty)) => Reads(g, e, Geom(ty, parts), Geoms("bin"))
  BY <1>2, <1>3, TypedReader
<1>5. ASSUME NEW parts \in PartsSet("bin", ty)
      PROVE  LET e == ShapeBody(o, Geom(ty, parts), Mark)
             IN  e \in Input /\ Reads(g, e, Geom(ty, parts), Geoms("bin"))
  <2>1. Geom(ty, parts).ty = ty /\ Geom(ty, parts).parts = parts
    BY DEF Geom
  <2>2. ShapeBody(o, Geom(ty, parts), Mark) \in Input /\ Reads(s, ShapeBody(o, Geom(ty, parts), Mark), parts, PartsSet("bin", ty))
    BY <1>2, <2>1
  <2> QED BY <1>4, <2>2
<1> QED BY <1>4, <1>5 DEF g

\* and so is the type with it.
LEMMA SpatialiteReader ==
    ASSUME NEW o \in Orders
    PROVE  /\ Reader(SpatialiteGeom(o), Geoms("bin"))
           /\ \A x \in Geoms("bin") : /\ SpatialiteShape(o, x) \in Input
                                      /\ Reads(SpatialiteGeom(o), SpatialiteShape(o, x), x, Geoms("bin"))
<1> DEFINE stop == [in \in Input |-> Stop]
           h == [ty \in Nat |-> IF ty \in 1..6 THEN SpatialiteBody(o, ty) ELSE stop]
           B == Geoms("bin")
           g == SpatialiteGeom(o)
<1>1. ASSUME NEW ty \in Nat PROVE Reader(h[ty], B)
  <2>1. ty \in 1..6 => Reader(SpatialiteBody(o, ty), B)
    BY SpatialiteBodyReader
  <2>2. Reader(stop, B)
    BY StopReader
  <2>3. (ty \in 1..6 /\ h[ty] = SpatialiteBody(o, ty)) \/ h[ty] = stop
    OBVIOUS
  <2> QED BY <2>1, <2>2, <2>3
<1>2. ASSUME NEW in \in Input
      PROVE  LET r == Take(in, "u32", o) IN g[in] = IF r.ok THEN h[r.out][r.in] ELSE Stop
  <2> DEFINE r == Take(in, "u32", o)
             ty == r.out
             rest == r.in
             S(a) == ShapeIn(o, ty, SpatialiteChild(o, ty))[a]
  <2>1. g[in] = IF r.ok THEN IF ty \notin 1..6 THEN Stop
                             ELSE IF S(rest).ok THEN Got(S(rest).in, Geom(ty, S(rest).out)) ELSE Stop
                ELSE Stop
    BY DEF SpatialiteGeom, Then, Geom
  <2>2. r.ok => rest \in Input /\ ty \in Nat
    <3> DEFINE u == [x \in Input |-> Take(x, "u32", o)]
    <3>1. Reader(u, Nat)
      BY TakeReader
    <3>2. u[in] = r
      OBVIOUS
    <3> HIDE DEF u, r
    <3> QED BY <3>1, <3>2 DEF Reader
  <2>3. ASSUME r.ok PROVE h[ty][rest] = IF ty \notin 1..6 THEN Stop
                             ELSE IF S(rest).ok THEN Got(S(rest).in, Geom(ty, S(rest).out)) ELSE Stop
    <3>1. stop[rest] = Stop
      BY <2>2, <2>3
    <3>2. SpatialiteBody(o, ty)[rest] = IF S(rest).ok THEN Got(S(rest).in, Geom(ty, S(rest).out)) ELSE Stop
      <4> HIDE DEF r, ty
      <4> QED BY <2>2, <2>3 DEF SpatialiteBody
    <3>3. h[ty] = IF ty \in 1..6 THEN SpatialiteBody(o, ty) ELSE stop
      <4> HIDE DEF r, stop
      <4> QED BY <2>2, <2>3
    <3> HIDE DEF stop, r, h, S, ty
    <3> QED BY <3>1, <3>2, <3>3
  <2> HIDE DEF r, ty, rest, h, g, S
  <2>4. g[in] = IF r.ok THEN h[ty][rest] ELSE Stop
    BY <2>1, <2>3
  <2> QED BY <2>4 DEF r, ty, rest
<1> HIDE DEF h, g
<1>3. /\ Reader(g, B)
      /\ \A n \in Nat, e \in Input : \A x :
            Reads(h[n], e, x, B) => Reads(g, <<U32(o, n)>> \o e, x, B) /\ <<U32(o, n)>> \o e \in Input
  BY <1>1, <1>2, WordThen
<1>4. ASSUME NEW x \in B PROVE SpatialiteShape(o, x) \in Input /\ Reads(g, SpatialiteShape(o, x), x, B)
  <2>1. x.ty \in 1..6 /\ x.parts \in PartsSet("bin", x.ty) /\ x = Geom(x.ty, x.parts)
    BY GeomsAre
  <2> DEFINE ty == x.ty
             e == ShapeBody(o, x, Mark)
  <2>2. e \in Input /\ Reads(SpatialiteBody(o, ty), e, x, B)
    BY <2>1, SpatialiteBodyReader
  <2>3. ty \in Nat /\ h[ty] = SpatialiteBody(o, ty)
    BY <2>1 DEF h
  <2>4. SpatialiteShape(o, x) = <<U32(o, ty)>> \o e
    BY DEF SpatialiteShape, ShapeOut, ShapeBody
  <2> HIDE DEF e, ty
  <2> QED BY <1>3, <2>2, <2>3, <2>4
<1> QED BY <1>3, <1>4 DEF g

----------------------------------------------------------------------------
(* Bytes that are cut off or added to, and headers in front of them.       *)

\* What stands behind a header.
LEMMA Behind ==
    ASSUME NEW h \in Input, NEW p \in Input
    PROVE  /\ SubSeq(h \o p, Len(h) + 1, Len(h \o p)) = p
           /\ \A i \in 1..Len(h) : (h \o p)[i] = h[i]
<1> DEFINE b == h \o p
           m == Len(h)
           n == Len(p)
           s == SubSeq(b, m + 1, Len(b))
<1>1. h \in Seq(Token) /\ p \in Seq(Token)
  BY DEF Input
<1>2. /\ b \in Seq(Token) /\ Len(b) = m + n /\ m \in Nat /\ n \in Nat
      /\ \A i \in 1..(m + n) : b[i] = IF i <= m THEN h[i] ELSE p[i - m]
  <2>1. m \in Nat /\ n \in Nat
    BY <1>1
  <2> QED BY <1>1, <2>1, ConcatProperties
<1> HIDE DEF b, m, n
<1>3. \A i \in (m + 1)..(m + n) : b[i] \in Token
  BY <1>2
<1>4. /\ s \in Seq(Token) /\ Len(s) = n
      /\ \A i \in 1..n : s[i] = b[m + i]
  <2>1. m + 1 \in Int /\ m + n \in Int
    BY <1>2
  <2>2. /\ SubSeq(b, m + 1, m + n) \in Seq(Token)
        /\ Len(SubSeq(b, m + 1, m + n)) = IF m + 1 <= m + n THEN (m + n) - (m + 1) + 1 ELSE 0
        /\ \A i \in 1..((m + n) - (m + 1) + 1) : SubSeq(b, m + 1, m + n)[i] = b[(m + 1) + i - 1]
    BY <1>3, <2>1, SubSeqProperties
  <2>3. s = SubSeq(b, m + 1, m + n)
    BY <1>2
  <2> HIDE DEF s
  <2>4. (m + n) - (m + 1) + 1 = n /\ (IF m + 1 <= m + n THEN (m + n) - (m + 1) + 1 ELSE 0) = n
    BY <1>2
  <2>5. \A i \in 1..n : (m + 1) + i - 1 = m + i
    BY <1>2
  <2> QED BY <2>2, <2>3, <2>4, <2>5
<1> HIDE DEF s
<1>5. \A i \in 1..n : s[i] = p[i]
  <2>1. ASSUME NEW i \in 1..n PROVE s[i] = p[i]
    <3>1. m + i \in 1..(m + n) /\ ~(m + i <= m) /\ (m + i) - m = i
      BY <1>2
    <3> QED BY <1>2, <1>4, <3>1
  <2> QED BY <2>1
<1>6. s = p
  BY <1>1, <1>4, <1>5, SeqEqual DEF n
<1>7. \A i \in 1..m : b[i] = h[i]
  BY <1>2
<1> QED BY <1>6, <1>7 DEF s, b, m

Rest(h, u) == SubSeq(u, Len(h) + 1, Len(u))

Split(h, w, u, y) == h \o w = u \o y /\ Len(h) <= Len(u)
SplitsAt(h, w, u, y) == Rest(h, u) \in Input /\ u = h \o Rest(h, u) /\ w = Rest(h, u) \o y

\* A header stands at the same place in whatever begins with it.
LEMMA SplitAt ==
    ASSUME NEW h \in Input, NEW w \in Input, NEW u \in Input, NEW y \in Input, Split(h, w, u, y)
    PROVE  SplitsAt(h, w, u, y)
<1> DEFINE p == SubSeq(u, Len(h) + 1, Len(u))
           m == Len(h)
           n == Len(u)
           r == h \o p
<1>0. h \o w = u \o y /\ Len(h) <= Len(u)
  BY DEF Split
<1>1. h \in Seq(Token) /\ w \in Seq(Token) /\ u \in Seq(Token) /\ y \in Seq(Token)
  BY DEF Input
<1>2. m \in Nat /\ n \in Nat /\ m <= n /\ Len(w) \in Nat /\ Len(y) \in Nat
  BY <1>0, <1>1
<1>3. p \in Seq(Token) /\ Len(p) = n - m /\ \A i \in 1..(n - m) : p[i] = u[m + i]
  <2>0. \A i \in (m + 1)..n : u[i] \in Token
    BY <1>1, <1>2
  <2> HIDE DEF m, n
  <2>1. m + 1 \in Int /\ n \in Int
    BY <1>2
  <2>2. /\ SubSeq(u, m + 1, n) \in Seq(Token)
        /\ Len(SubSeq(u, m + 1, n)) = IF m + 1 <= n THEN n - (m + 1) + 1 ELSE 0
        /\ \A i \in 1..(n - (m + 1) + 1) : SubSeq(u, m + 1, n)[i] = u[(m + 1) + i - 1]
    BY <2>0, <2>1, SubSeqProperties
  <2>3. p = SubSeq(u, m + 1, n)
    BY DEF m, n
  <2> HIDE DEF p
  <2>4. n - (m + 1) + 1 = n - m /\ (IF m + 1 <= n THEN n - (m + 1) + 1 ELSE 0) = n - m
    BY <1>2
  <2>5. \A i \in 1..(n - m) : (m + 1) + i - 1 = m + i
    BY <1>2
  <2> QED BY <2>2, <2>3, <2>4, <2>5
<1> HIDE DEF p, m, n
<1>4. /\ r \in Seq(Token) /\ Len(r) = n
      /\ \A i \in 1..n : r[i] = IF i <= m THEN h[i] ELSE p[i - m]
  <2>1. /\ r \in Seq(Token) /\ Len(r) = m + Len(p)
        /\ \A i \in 1..(m + Len(p)) : r[i] = IF i <= m THEN h[i] ELSE p[i - m]
    BY <1>1, <1>3, ConcatProperties DEF m
  <2>2. m + Len(p) = n
    BY <1>2, <1>3
  <2> QED BY <2>1, <2>2
<1>5. \A i \in 1..m : h[i] = u[i]
  <2>1. \A i \in 1..(m + Len(w)) : (h \o w)[i] = IF i <= m THEN h[i] ELSE w[i - m]
    BY <1>1, ConcatProperties DEF m
  <2>2. \A i \in 1..(n + Len(y)) : (u \o y)[i] = IF i <= n THEN u[i] ELSE y[i - n]
    BY <1>1, ConcatProperties DEF n
  <2> DEFINE a == Len(w)
             b == Len(y)
             s == h \o w
  <2>3. ASSUME NEW i \in 1..m PROVE h[i] = u[i]
    <3>0. a \in Nat /\ b \in Nat
      BY <1>2
    <3> HIDE DEF a, b
    <3>1. i \in 1..(m + a) /\ i <= m /\ i \in 1..(n + b) /\ i <= n
      BY <1>2, <3>0
    <3>2. s[i] = h[i]
      BY <2>1, <3>1 DEF a
    <3>3. s[i] = u[i]
      BY <1>0, <2>2, <3>1 DEF b
    <3> QED BY <3>2, <3>3
  <2> QED BY <2>3
<1> HIDE DEF r
<1>6. \A i \in 1..n : r[i] = u[i]
  <2>1. ASSUME NEW i \in 1..n PROVE r[i] = u[i]
    <3>1. CASE i <= m
      <4>1. i \in 1..m
        BY <1>2, <3>1
      <4> QED BY <1>4, <1>5, <3>1, <4>1
    <3>2. CASE ~(i <= m)
      <4>1. i - m \in 1..(n - m) /\ m + (i - m) = i
        BY <1>2, <3>2
      <4>2. p[i - m] = u[m + (i - m)]
        BY <1>3, <4>1
      <4> QED BY <1>4, <3>2, <4>1, <4>2
    <3> QED BY <3>1, <3>2
  <2> QED BY <2>1
<1>7. r = u
  BY <1>1, <1>4, <1>6, SeqEqual DEF n
<1>8. p \in Input
  BY <1>3 DEF Input
<1>9. h \o w = h \o (p \o y)
  <2>1. (h \o p) \o y = h \o (p \o y)
    BY ZenonT(60), <1>8, InputIs
  <2> QED BY <1>0, <1>7, <2>1 DEF r
<1>10. w = p \o y
  <2>1. p \o y \in Input
    BY <1>8, InputIs
  <2>2. SubSeq(h \o w, Len(h) + 1, Len(h \o w)) = w
    BY Behind
  <2> DEFINE q == p \o y
  <2>3. q \in Input /\ h \o w = h \o q
    BY <1>9, <2>1
  <2> HIDE DEF q
  <2>4. SubSeq(h \o q, Len(h) + 1, Len(h \o q)) = q
    BY <2>3, Behind
  <2> QED BY <2>2, <2>3, <2>4 DEF q
<1>11. p = Rest(h, u)
  BY DEF p, Rest
<1> QED BY <1>7, <1>8, <1>10, <1>11 DEF r, SplitsAt

IsCut(w, u, y)   == y \in Input /\ y # <<>> /\ w = u \o y
IsLonger(w, u, y) == y \in Input /\ y # <<>> /\ u = w \o y
Differ(w, u) == \E y : IsCut(w, u, y) \/ IsLonger(w, u, y)

\* What is cut off or added to is another input.
LEMMA DifferIs ==
    ASSUME NEW w \in Input
    PROVE  /\ \A n \in 0..(Len(w) - 1) : SubSeq(w, 1, n) \in Input /\ Differ(w, SubSeq(w, 1, n))
           /\ \A t \in Token : Append(w, t) \in Input /\ Differ(w, Append(w, t))
<1>1. ASSUME NEW n \in 0..(Len(w) - 1) PROVE SubSeq(w, 1, n) \in Input /\ Differ(w, SubSeq(w, 1, n))
  <2> DEFINE k == Len(w)
             u == SubSeq(w, 1, n)
             y == SubSeq(w, n + 1, k)
  <2>0. w \in Seq(Token) /\ k \in Nat
    BY DEF Input
  <2>1. n \in Nat /\ n < k
    BY <2>0
  <2>2. u \in Seq(Token)
    <3>1. \A i \in 1..n : w[i] \in Token
      BY <2>0, <2>1
    <3> QED BY <2>1, <3>1, SubSeqProperties
  <2>3. y \in Seq(Token) /\ Len(y) = k - n
    <3>1. \A i \in (n + 1)..k : w[i] \in Token
      BY <2>0, <2>1
    <3> HIDE DEF k
    <3>2. n + 1 \in Int /\ k \in Int
      BY <2>0, <2>1
    <3>3. /\ SubSeq(w, n + 1, k) \in Seq(Token)
          /\ Len(SubSeq(w, n + 1, k)) = IF n + 1 <= k THEN k - (n + 1) + 1 ELSE 0
      BY <3>1, <3>2, SubSeqProperties
    <3>4. (IF n + 1 <= k THEN k - (n + 1) + 1 ELSE 0) = k - n
      BY <2>0, <2>1
    <3> QED BY <3>3, <3>4
  <2>4. u \o y = w
    <3> HIDE DEF k
    <3>1. 1 \in 1..(k + 1) /\ n \in (1 - 1)..k /\ k \in n..k
      BY <2>0, <2>1
    <3>2. SubSeq(w, 1, n) \o SubSeq(w, n + 1, k) = SubSeq(w, 1, k)
      BY <2>0, <3>1, ConcatAdjacentSubSeq DEF k
    <3>3. SubSeq(w, 1, k) = w
      BY <2>0, SubSeqFull DEF k
    <3> QED BY <3>2, <3>3
  <2>5. y # <<>>
    <3> HIDE DEF y, k
    <3>1. Len(y) # 0
      BY <2>0, <2>1, <2>3
    <3>2. Len(<<>>) = 0
      OBVIOUS
    <3> QED BY <3>1, <3>2
  <2> HIDE DEF u, y
  <2>6. IsCut(w, u, y)
    BY <2>3, <2>4, <2>5 DEF IsCut, Input
  <2> QED BY <2>2, <2>6 DEF Differ, Input, u
<1>2. ASSUME NEW t \in Token PROVE Append(w, t) \in Input /\ Differ(w, Append(w, t))
  <2>1. w \in Seq(Token) /\ Append(w, t) = w \o <<t>> /\ Append(w, t) \in Seq(Token)
    BY DEF Input
  <2>2. <<t>> \in Input /\ <<t>> # <<>>
    BY InputIs
  <2>3. IsLonger(w, Append(w, t), <<t>>)
    BY <2>1, <2>2 DEF IsLonger
  <2> QED BY <2>1, <2>3 DEF Differ, Input
<1> QED BY <1>1, <1>2

\* Behind a header that is still there.
LEMMA DifferBehind ==
    ASSUME NEW h \in Input, NEW w \in Input, NEW u \in Input, Differ(h \o w, u), Len(h) <= Len(u)
    PROVE  Rest(h, u) \in Input /\ u = h \o Rest(h, u) /\ Differ(w, Rest(h, u))
<1>1. PICK y : IsCut(h \o w, u, y) \/ IsLonger(h \o w, u, y)
  BY DEF Differ
<1> DEFINE p == Rest(h, u)
<1>2. CASE IsCut(h \o w, u, y)
  <2>1. y \in Input /\ y # <<>> /\ h \o w = u \o y
    BY <1>2 DEF IsCut
  <2>2. p \in Input /\ u = h \o p /\ w = p \o y
    <3>1. Split(h, w, u, y)
      BY <2>1 DEF Split
    <3>2. SplitsAt(h, w, u, y)
      BY <2>1, <3>1, SplitAt
    <3> QED BY <3>2 DEF SplitsAt
  <2> HIDE DEF p
  <2>3. IsCut(w, p, y)
    BY <2>1, <2>2 DEF IsCut
  <2>4. Differ(w, p)
    BY <2>3 DEF Differ
  <2> QED BY <2>2, <2>4 DEF p
<1>3. CASE IsLonger(h \o w, u, y)
  <2>1. y \in Input /\ y # <<>> /\ u = (h \o w) \o y
    BY <1>3 DEF IsLonger
  <2>2. w \o y \in Input /\ u = h \o (w \o y)
    <3>1. w \o y \in Input
      BY <2>1, InputIs
    <3>2. (h \o w) \o y = h \o (w \o y)
      BY ZenonT(60), <2>1, InputIs
    <3> QED BY <2>1, <3>1, <3>2
  <2> DEFINE q == w \o y
  <2>3. q \in Input /\ u = h \o q
    BY <2>2
  <2> HIDE DEF q
  <2>4. p = q
    BY <2>3, Behind DEF Rest
  <2> HIDE DEF p
  <2>5. IsLonger(w, p, y)
    BY <2>1, <2>4 DEF IsLonger, q
  <2>6. Differ(w, p)
    BY <2>5 DEF Differ
  <2> QED BY <2>3, <2>4, <2>6 DEF p
<1> QED BY <1>1, <1>2, <1>3

\* A reader does not stop at the same place.
LEMMA DifferRead ==
    ASSUME NEW f, NEW X, Reader(f, X), NEW w \in Input, NEW u \in Input, Differ(w, u),
           NEW l \in Input, NEW x, f[w] = Got(l, x), f[u].ok
    PROVE  f[u].in # l
<1>1. PICK y : IsCut(w, u, y) \/ IsLonger(w, u, y)
  BY DEF Differ
<1>2. y \in Input /\ y # <<>> /\ (w = u \o y \/ u = w \o y)
  BY <1>1 DEF IsCut, IsLonger
<1>3. l \o y # l
  BY <1>2, ConcatEqualIffEmpty DEF Input
<1>4. CASE w = u \o y
  <2>1. f[w] = Got(f[u].in \o y, f[u].out)
    BY <1>2, <1>4 DEF Reader
  <2>2. l = f[u].in \o y
    BY <2>1 DEF Got
  <2> QED BY <1>3, <2>2
<1>5. CASE u = w \o y
  <2>1. f[w].ok /\ f[w].in = l /\ f[w].out = x
    BY DEF Got
  <2>2. f[u] = Got(l \o y, x)
    BY <1>2, <1>5, <2>1 DEF Reader
  <2>3. f[u].in = l \o y
    BY <2>2 DEF Got
  <2> QED BY <1>3, <2>3
<1> QED BY <1>2, <1>4, <1>5

----------------------------------------------------------------------------
(* GeoPackage blobs, SpatiaLite blobs, EWKB.                               *)

Flags(o, code) == (IF o = "LE" THEN 1 ELSE 0) + 2 * code
GpkgStart(o, code, srid) == <<Byte(71), Byte(80), Byte(0), Byte(Flags(o, code)), U32(o, srid)>>
Envelope(o, code) == [i \in 1..EnvelopePairs[code + 1] |-> XY(o, i)]
GpkgHead(o, code, srid) == GpkgStart(o, code, srid) \o Envelope(o, code)

\* The flags of a GeoPackage header tell the envelope code.
LEMMA FlagsAre ==
    ASSUME NEW o \in Orders, NEW code \in 0..4
    PROVE  /\ Flags(o, code) \in Nat /\ (Flags(o, code) \div 2) % 8 = code
           /\ EnvelopePairs[code + 1] \in Nat
           /\ code = 0 => EnvelopePairs[code + 1] = 0
<1> DEFINE a == IF o = "LE" THEN 1 ELSE 0
<1>1. a \in {0, 1} /\ Flags(o, code) = a + 2 * code
  BY DEF Flags
<1> HIDE DEF a
<1>2. code = 0 \/ code = 1 \/ code = 2 \/ code = 3 \/ code = 4
  OBVIOUS
<1>3. a = 0 \/ a = 1
  BY <1>1
<1>4. Flags(o, code) \in Nat
  BY <1>1, <1>2, <1>3
<1>5. ((a + 2 * code) \div 2) % 8 = code
  BY <1>2, <1>3
<1>6. EnvelopePairs[code + 1] \in Nat /\ (code = 0 => EnvelopePairs[code + 1] = 0)
  BY <1>2 DEF EnvelopePairs
<1> QED BY <1>1, <1>4, <1>5, <1>6

\* A GeoPackage header is as long as its flags say.
LEMMA GpkgHeadIs ==
    ASSUME NEW o \in Orders, NEW code \in 0..4, NEW srid \in Nat
    PROVE  LET h == GpkgHead(o, code, srid) IN
           /\ h \in Input /\ Len(h) = 5 + EnvelopePairs[code + 1]
           /\ \A i \in 1..5 : h[i] = GpkgStart(o, code, srid)[i]
<1> DEFINE s == GpkgStart(o, code, srid)
           e == Envelope(o, code)
           m == EnvelopePairs[code + 1]
<1>1. m \in Nat
  BY FlagsAre
<1>2. s \in Seq(Token) /\ Len(s) = 5
  <2>1. Byte(71) \in Token /\ Byte(80) \in Token /\ Byte(0) \in Token /\ Byte(Flags(o, code)) \in Token /\ U32(o, srid) \in Token
    BY FlagsAre, TokensAre
  <2> QED BY <2>1 DEF GpkgStart
<1>3. e \in Seq(Token) /\ Len(e) = m
  <2>1. ASSUME NEW i \in 1..m PROVE XY(o, i) \in Token
    <3>1. i \in Nat /\ o \in Orders \cup {"-"}
      BY <1>1
    <3> QED BY <3>1, TokensAre
  <2>2. e \in [1..m -> Token]
    BY <2>1 DEF Envelope
  <2> HIDE DEF e, m
  <2> QED BY <1>1, <2>2, FunctionIsSeq
<1> HIDE DEF s, e, m
<1>4. /\ s \o e \in Seq(Token) /\ Len(s \o e) = Len(s) + Len(e)
      /\ \A i \in 1..(Len(s) + Len(e)) : (s \o e)[i] = IF i <= Len(s) THEN s[i] ELSE e[i - Len(s)]
  BY <1>2, <1>3, ConcatProperties
<1>5. \A i \in 1..5 : (s \o e)[i] = s[i]
  <2>1. ASSUME NEW i \in 1..5 PROVE (s \o e)[i] = s[i]
    <3>1. i \in 1..(5 + m) /\ i <= 5
      BY <1>1
    <3> QED BY <1>2, <1>3, <1>4, <3>1
  <2> QED BY <2>1
<1> QED BY <1>2, <1>3, <1>4, <1>5 DEF s, e, m, GpkgHead, Input

\* A GeoPackage blob gives back the WKB that was put in, in either byte order and
\* with any envelope.
THEOREM GpkgRoundTrip ==
    ASSUME NEW o \in Orders, NEW code \in 0..4, NEW srid \in Nat, NEW p \in Input
    PROVE  /\ GpkgBlob(o, code, srid, p) = GpkgHead(o, code, srid) \o p
           /\ GpkgBlob(o, code, srid, p) \in Input
           /\ DecodeGpkg(GpkgBlob(o, code, srid, p)) = p
<1> DEFINE h == GpkgHead(o, code, srid)
           s == GpkgStart(o, code, srid)
           b == h \o p
           m == EnvelopePairs[code + 1]
<1>1. GpkgBlob(o, code, srid, p) = b
  BY DEF GpkgBlob, GpkgHead, GpkgStart, Flags, Envelope
<1>2. h \in Input /\ Len(h) = 5 + m /\ \A i \in 1..5 : h[i] = s[i]
  BY GpkgHeadIs
<1>3. m \in Nat /\ Flags(o, code) \in Nat /\ (Flags(o, code) \div 2) % 8 = code
  BY FlagsAre
<1>4. s[1] = Byte(71) /\ s[2] = Byte(80) /\ s[3] = Byte(0) /\ s[4].v = Flags(o, code)
  BY DEF GpkgStart, Byte
<1> HIDE DEF h, s, m
<1>5. b \in Input /\ Len(b) = Len(h) + Len(p) /\ Len(p) \in Nat
  BY <1>2, InputIs
<1>6. SubSeq(b, Len(h) + 1, Len(b)) = p /\ \A i \in 1..Len(h) : b[i] = h[i]
  BY <1>2, Behind
<1>7. b[1] = Byte(71) /\ b[2] = Byte(80) /\ b[3] = Byte(0) /\ b[4].v = Flags(o, code)
  <2>1. 1 \in 1..Len(h) /\ 2 \in 1..Len(h) /\ 3 \in 1..Len(h) /\ 4 \in 1..Len(h)
    BY <1>2, <1>3
  <2>2. b[1] = h[1] /\ b[2] = h[2] /\ b[3] = h[3] /\ b[4] = h[4]
    BY <1>6, <2>1
  <2> HIDE DEF b
  <2> QED BY <1>2, <1>4, <2>2
<1> DEFINE k == Len(b)
           n == Len(p)
           l == Len(h)
<1>8. n \in Nat /\ k = l + n /\ l = 5 + m
  BY <1>2, <1>5
<1>9. b \in Seq(Token)
  BY <1>5 DEF Input
<1> HIDE DEF b, n, k, l
<1>10. k \in Nat /\ ~(k < 5) /\ ~(k < 5 + m) /\ 5 <= k
  BY <1>3, <1>8
<1>11. SubSeq(b, 1, 3) = <<Byte(71), Byte(80), Byte(0)>>
  <2> DEFINE t == SubSeq(b, 1, 3)
             v == <<Byte(71), Byte(80), Byte(0)>>
  <2>1. b[1] \in Token /\ b[2] \in Token /\ b[3] \in Token
    <3>1. 1 \in 1..Len(b) /\ 2 \in 1..Len(b) /\ 3 \in 1..Len(b)
      BY <1>10 DEF k
    <3> QED BY <1>9, <3>1
  <2>2. \A i \in 1..3 : b[i] \in Token
    BY <2>1
  <2>3. /\ t \in Seq(Token)
        /\ Len(t) = IF 1 <= 3 THEN 3 - 1 + 1 ELSE 0
        /\ \A i \in 1..(3 - 1 + 1) : t[i] = b[1 + i - 1]
    BY <2>2, SubSeqProperties
  <2>4. v \in Seq(Token) /\ Len(v) = 3 /\ v[1] = Byte(71) /\ v[2] = Byte(80) /\ v[3] = Byte(0)
    <3>1. Byte(71) \in Token /\ Byte(80) \in Token /\ Byte(0) \in Token
      BY TokensAre
    <3> QED BY <3>1
  <2> HIDE DEF t, v
  <2>5. Len(t) = 3 /\ t[1] = b[1] /\ t[2] = b[2] /\ t[3] = b[3]
    <3>1. \A i \in 1..3 : t[i] = b[1 + i - 1]
      BY <2>3
    <3>2. 1 \in 1..3 /\ 2 \in 1..3 /\ 3 \in 1..3 /\ 1 + 1 - 1 = 1 /\ 1 + 2 - 1 = 2 /\ 1 + 3 - 1 = 3
      OBVIOUS
    <3> QED BY <2>3, <3>1, <3>2
  <2>6. \A i \in 1..Len(t) : t[i] = v[i]
    <3>1. \A i \in 1..3 : i = 1 \/ i = 2 \/ i = 3
      OBVIOUS
    <3> QED BY <1>7, <2>4, <2>5, <3>1
  <2>7. t = v
    BY <2>3, <2>4, <2>5, <2>6, SeqEqual
  <2> QED BY <2>7 DEF t, v
<1>12. DecodeGpkg(b) = SubSeq(b, 5 + m + 1, k)
  <2>1. (b[4].v \div 2) % 8 = code /\ ~(code > 4)
    BY <1>3, <1>7
  <2>2. DecodeGpkg(b) = IF \/ k < 5 \/ SubSeq(b, 1, 3) /= <<Byte(71), Byte(80), Byte(0)>> \/ code > 4 \/ k < 5 + m
                        THEN NoBytes ELSE SubSeq(b, 5 + m + 1, k)
    BY <2>1 DEF DecodeGpkg, k, m
  <2> QED BY <1>10, <1>11, <2>1, <2>2
<1>13. DecodeGpkg(b) = p
  BY <1>6, <1>8, <1>12 DEF k, l
<1> QED BY <1>1, <1>5, <1>13 DEF b, h

\* Of a blob that differs from one that shpx wrote, what is read differs.
THEOREM GpkgDamageSeen ==
    ASSUME NEW srid \in Nat, NEW w \in Input, NEW u \in Input, Differ(EncodeGpkg(w, srid), u)
    PROVE  \/ DecodeGpkg(u) = NoBytes
           \/ DecodeGpkg(u) \in Input /\ Differ(w, DecodeGpkg(u))
<1> DEFINE h == GpkgHead("LE", 0, srid)
<1>1. "LE" \in Orders /\ 0 \in 0..4
  BY DEF Orders
<1>2. h \in Input /\ Len(h) = 5
  <2>1. h \in Input /\ Len(h) = 5 + EnvelopePairs[0 + 1]
    BY <1>1, GpkgHeadIs
  <2>2. EnvelopePairs[0 + 1] = 0
    BY DEF EnvelopePairs
  <2> QED BY <2>1, <2>2
<1>3. \A p \in Input : GpkgBlob("LE", 0, srid, p) = h \o p /\ DecodeGpkg(h \o p) = p
  <2>1. ASSUME NEW p \in Input PROVE GpkgBlob("LE", 0, srid, p) = h \o p /\ DecodeGpkg(h \o p) = p
    <3>1. /\ GpkgBlob("LE", 0, srid, p) = GpkgHead("LE", 0, srid) \o p
          /\ DecodeGpkg(GpkgBlob("LE", 0, srid, p)) = p
      BY <1>1, GpkgRoundTrip
    <3> QED BY <3>1
  <2> QED BY <2>1
<1> HIDE DEF h
<1>4. Differ(h \o w, u)
  BY <1>3 DEF EncodeGpkg
<1>5. CASE Len(u) < 5
  BY <1>5 DEF DecodeGpkg
<1>6. CASE ~(Len(u) < 5)
  <2>1. Len(u) \in Nat
    BY DEF Input
  <2>2. Len(h) <= Len(u)
    BY <1>2, <1>6, <2>1
  <2>3. Rest(h, u) \in Input /\ u = h \o Rest(h, u) /\ Differ(w, Rest(h, u))
    BY <1>2, <1>4, <2>2, DifferBehind
  <2>4. DecodeGpkg(u) = Rest(h, u)
    BY <1>3, <2>3
  <2> QED BY <2>3, <2>4
<1> QED BY <1>5, <1>6

SpatialiteHead(o, srid) == <<Byte(0), OrderByte(o), U32(o, srid), XY(o, 1), XY(o, 2), Byte(124)>>
EndMark == <<Byte(254)>>

\* Behind the header of a SpatiaLite blob its geometry is read, which an end mark
\* must follow.
LEMMA SpatialiteHeadIs ==
    ASSUME NEW o \in Orders, NEW srid \in Nat, NEW x \in Input
    PROVE  /\ SpatialiteHead(o, srid) \in Input /\ Len(SpatialiteHead(o, srid)) = 6
           /\ LET r == SpatialiteGeom(o)[x]
                  b == SpatialiteHead(o, srid) \o x
              IN  DecodeSpatialite(b) = IF Len(b) < 8 \/ ~r.ok \/ r.in /= EndMark THEN NoBytes ELSE EncodeWkb(r.out)
<1> DEFINE h == SpatialiteHead(o, srid)
           b == h \o x
           r == SpatialiteGeom(o)[x]
<1>1. h \in Input /\ Len(h) = 6
  <2>1. Byte(0) \in Token /\ Byte(124) \in Token /\ U32(o, srid) \in Token /\ OrderByte(o) \in Token
        /\ XY(o, 1) \in Token /\ XY(o, 2) \in Token
    BY ZenonT(60), TokensAre
  <2> QED BY <2>1 DEF SpatialiteHead, Input
<1>2. h[1] = Byte(0) /\ h[2] = OrderByte(o) /\ h[6] = Byte(124)
  BY DEF SpatialiteHead
<1> HIDE DEF h
<1>3. SubSeq(b, 7, Len(b)) = x /\ \A i \in 1..6 : b[i] = h[i]
  <2>1. SubSeq(b, Len(h) + 1, Len(b)) = x /\ \A i \in 1..Len(h) : b[i] = h[i]
    BY <1>1, Behind
  <2>2. Len(h) + 1 = 7
    BY <1>1
  <2> QED BY <1>1, <2>1, <2>2
<1>4. b[1] = Byte(0) /\ b[2].v \in {0, 1} /\ OrderOf(b[2].v) = o /\ b[6] = Byte(124)
  <2>1. 1 \in 1..6 /\ 2 \in 1..6 /\ 6 \in 1..6
    OBVIOUS
  <2>2. b[1] = h[1] /\ b[2] = h[2] /\ b[6] = h[6]
    BY <1>3, <2>1
  <2> HIDE DEF b
  <2> QED BY <1>2, <2>2, OrdersAre
<1> HIDE DEF b
<1>5. DecodeSpatialite(b) = IF Len(b) < 8 \/ ~r.ok \/ r.in /= EndMark THEN NoBytes ELSE EncodeWkb(r.out)
  BY <1>3, <1>4 DEF DecodeSpatialite, EndMark
<1> QED BY <1>1, <1>5 DEF h, b, r

\* A SpatiaLite blob gives back the geometry that was put in, in either byte
\* order.
THEOREM SpatialiteRoundTrip ==
    ASSUME NEW o \in Orders, NEW srid \in Nat, NEW g \in Geoms("bin")
    PROVE  LET x == SpatialiteShape(o, g) \o EndMark IN
           /\ x \in Input /\ SpatialiteBlob(o, g, srid) = SpatialiteHead(o, srid) \o x
           /\ SpatialiteGeom(o)[x] = Got(EndMark, g)
           /\ SpatialiteBlob(o, g, srid) \in Input
           /\ DecodeSpatialite(SpatialiteBlob(o, g, srid)) = EncodeWkb(g)
<1> DEFINE h == SpatialiteHead(o, srid)
           s == SpatialiteShape(o, g)
           x == s \o EndMark
           b == h \o x
           r == SpatialiteGeom(o)[x]
           B == Geoms("bin")
<1>1. h \in Input /\ Len(h) = 6
  <2>1. <<>> \in Input
    BY InputIs
  <2> QED BY <2>1, SpatialiteHeadIs
<1>2. s \in Input /\ Reads(SpatialiteGeom(o), s, g, B)
  BY SpatialiteReader
<1>3. EndMark \in Input /\ Len(EndMark) = 1
  <2>1. Byte(254) \in Token
    BY ByteIs
  <2> QED BY <2>1 DEF EndMark, Input
<1>4. SpatialiteBlob(o, g, srid) = (h \o s) \o EndMark
  BY DEF SpatialiteBlob, SpatialiteHead, EndMark
<1>5. s # <<>>
  <2>1. g.ty \in 1..6
    BY GeomsAre
  <2>2. U32(o, g.ty) \in Token
    <3>1. g.ty \in Nat
      BY <2>1
    <3> QED BY <3>1, TokensAre
  <2> DEFINE e == ShapeBody(o, g, Mark)
  <2>3. s = <<U32(o, g.ty)>> \o e
    BY DEF SpatialiteShape, ShapeOut, ShapeBody
  <2>4. e \in Input
    <3>1. g.parts \in PartsSet("bin", g.ty) /\ g = Geom(g.ty, g.parts)
      BY GeomsAre
    <3>2. ShapeBody(o, Geom(g.ty, g.parts), Mark) \in Input
      BY <2>1, <3>1, SpatialiteBodyReader
    <3> QED BY <3>1, <3>2
  <2> HIDE DEF e
  <2>5. LET in == <<U32(o, g.ty)>> \o e IN in # <<>>
    BY <2>2, <2>4, HeadIs
  <2> QED BY <2>3, <2>5
<1> HIDE DEF h, s
<1>6. x \in Input /\ (h \o s) \o EndMark = b
  BY <1>1, <1>2, <1>3, InputIs
<1>7. r = Got(EndMark, g)
  BY <1>2, <1>3 DEF Reads
<1>8. b \in Input /\ ~(Len(b) < 8)
  <2>1. b \in Input /\ Len(b) = Len(h) + Len(x)
    BY <1>1, <1>6, InputIs
  <2>2. Len(x) = Len(s) + Len(EndMark) /\ Len(s) \in Nat
    BY <1>2, <1>3, InputIs
  <2>3. Len(s) # 0
    BY <1>2, <1>5 DEF Input
  <2> DEFINE n == Len(s)
             k == Len(b)
  <2>4. n \in Nat /\ n # 0 /\ k = 6 + (n + 1)
    BY <1>1, <1>3, <2>1, <2>2, <2>3
  <2> HIDE DEF n, k
  <2>5. ~(k < 8)
    BY <2>4
  <2> QED BY <2>1, <2>5 DEF k
<1>9. DecodeSpatialite(b) = IF Len(b) < 8 \/ ~r.ok \/ r.in /= EndMark THEN NoBytes ELSE EncodeWkb(r.out)
  <2> DEFINE y == x
  <2>1. y \in Input
    BY <1>6
  <2> HIDE DEF y
  <2>2. LET q == SpatialiteGeom(o)[y]
            c == SpatialiteHead(o, srid) \o y
        IN  DecodeSpatialite(c) = IF Len(c) < 8 \/ ~q.ok \/ q.in /= EndMark THEN NoBytes ELSE EncodeWkb(q.out)
    BY <2>1, SpatialiteHeadIs
  <2> QED BY <2>2 DEF y, h
<1>10. DecodeSpatialite(b) = EncodeWkb(g)
  <2>1. r.ok /\ r.in = EndMark /\ r.out = g
    BY <1>7 DEF Got
  <2> HIDE DEF r, b
  <2> QED BY <1>8, <1>9, <2>1
<1> QED BY <1>4, <1>6, <1>7, <1>8, <1>10 DEF h, s

\* A blob that differs from one that shpx wrote is not read.
THEOREM SpatialiteDamageSeen ==
    ASSUME NEW srid \in Nat, NEW g \in Geoms("bin"), NEW u \in Input, Differ(SpatialiteBlob("LE", g, srid), u)
    PROVE  DecodeSpatialite(u) = NoBytes
<1> DEFINE h == SpatialiteHead("LE", srid)
           x == SpatialiteShape("LE", g) \o EndMark
           f == SpatialiteGeom("LE")
           B == Geoms("bin")
<1>0. "LE" \in Orders
  BY DEF Orders
<1>1. x \in Input /\ SpatialiteBlob("LE", g, srid) = h \o x /\ f[x] = Got(EndMark, g)
  BY <1>0, SpatialiteRoundTrip
<1>2. h \in Input /\ Len(h) = 6
  BY <1>0, <1>1, SpatialiteHeadIs
<1>3. \A y \in Input : LET r == f[y]
                           b == h \o y
                       IN  DecodeSpatialite(b) = IF Len(b) < 8 \/ ~r.ok \/ r.in /= EndMark THEN NoBytes ELSE EncodeWkb(r.out)
  BY <1>0, SpatialiteHeadIs
<1>4. Reader(f, B)
  BY <1>0, SpatialiteReader
<1>5. EndMark \in Input
  <2>1. Byte(254) \in Token
    BY ByteIs
  <2> QED BY <2>1 DEF EndMark, Input
<1> HIDE DEF h, x, f, B
<1>6. Differ(h \o x, u)
  BY <1>1
<1>7. CASE Len(u) < 8
  BY <1>7 DEF DecodeSpatialite
<1>8. CASE ~(Len(u) < 8)
  <2>1. Len(u) \in Nat
    BY DEF Input
  <2>2. Len(h) <= Len(u)
    BY <1>2, <1>8, <2>1
  <2> DEFINE p == Rest(h, u)
  <2>3. p \in Input /\ u = h \o p /\ Differ(x, p)
    BY <1>1, <1>2, <1>6, <2>2, DifferBehind
  <2> HIDE DEF p
  <2>4. f[p].ok => f[p].in # EndMark
    BY <1>1, <1>4, <1>5, <2>3, DifferRead
  <2> QED BY <1>3, <2>3, <2>4
<1> QED BY <1>7, <1>8

WkbStart(o, ty) == <<OrderByte(o), U32(o, ty)>>

\* A WKB is its header and what follows.
LEMMA WkbStarts ==
    ASSUME NEW o \in Orders, NEW x \in Geoms("bin")
    PROVE  LET e == ShapeBody(o, x, OrderByte(o)) IN e \in Input /\ WkbIn(o, x) = WkbStart(o, x.ty) \o e
<1>1. x.ty \in 1..6 /\ x.parts \in PartsSet("bin", x.ty) /\ x = Geom(x.ty, x.parts)
  BY GeomsAre
<1> DEFINE ty == x.ty
           d == WkbStart(o, ty)
           e == ShapeBody(o, x, OrderByte(o))
<1>2. e \in Input
  BY <1>1, WkbBodyReader
<1>3. WkbIn(o, x) = <<OrderByte(o)>> \o (<<U32(o, ty)>> \o e)
  BY DEF WkbIn, ShapeOut, ShapeBody
<1>4. OrderByte(o) \in Token /\ U32(o, ty) \in Token
  <2>1. ty \in Nat
    BY <1>1
  <2> QED BY <2>1, TokensAre
<1>5. d = <<OrderByte(o)>> \o <<U32(o, ty)>>
  BY <1>4, PairIs DEF WkbStart
<1>6. <<OrderByte(o)>> \in Input /\ <<U32(o, ty)>> \in Input
  BY <1>4, InputIs
<1> HIDE DEF e, d
<1>7. (<<OrderByte(o)>> \o <<U32(o, ty)>>) \o e = <<OrderByte(o)>> \o (<<U32(o, ty)>> \o e)
  BY <1>2, <1>6, InputIs
<1> QED BY <1>2, <1>3, <1>5, <1>7 DEF d, e

\* WkbHeader reads the header that was written.
LEMMA HeaderIs ==
    ASSUME NEW o \in Orders, NEW ty \in Nat, NEW e \in Input
    PROVE  /\ WkbStart(o, ty) \in Input /\ WkbStart(o, ty) \o e \in Input
           /\ WkbHeader(WkbStart(o, ty) \o e) = Got(e, <<o, ty>>)
           /\ (WkbStart(o, ty) \o e)[1] = OrderByte(o)
<1> DEFINE f == [in \in Input |-> WkbHeader(in)]
           d == WkbStart(o, ty)
           A == Orders \X Nat
<1>1. d \in Input /\ Reads(f, d, <<o, ty>>, A)
  BY HeaderReader DEF WkbStart
<1>2. <<o, ty>> \in A
  OBVIOUS
<1>3. d[1] = OrderByte(o) /\ Len(d) = 2
  BY DEF WkbStart
<1> HIDE DEF d, A
<1>4. d \o e \in Input
  BY <1>1, InputIs
<1>5. f[d \o e] = Got(e, <<o, ty>>)
  <2> HIDE DEF f
  <2> QED BY <1>1, <1>2 DEF Reads
<1>6. (d \o e)[1] = d[1]
  <2>1. \A i \in 1..Len(d) : (d \o e)[i] = d[i]
    BY <1>1, Behind
  <2>2. 1 \in 1..Len(d)
    BY <1>3
  <2> QED BY <2>1, <2>2
<1> QED BY <1>1, <1>3, <1>4, <1>5, <1>6 DEF d

\* strip_srid undoes encode_with_srid.
THEOREM EwkbRoundTrip ==
    ASSUME NEW o \in Orders, NEW ty \in 1..6, NEW e \in Input, NEW srid \in Nat
    PROVE  LET w == WkbStart(o, ty) \o e IN
           /\ EncodeEwkb(w, srid) \in Input /\ EncodeEwkb(w, srid) # NoBytes
           /\ StripSrid(EncodeEwkb(w, srid)) = w
<1> DEFINE w == WkbStart(o, ty) \o e
           u == <<U32(o, srid)>>
           x == EncodeEwkb(w, srid)
           k == ty + SridFlag
<1>1. WkbHeader(w) = Got(e, <<o, ty>>) /\ w[1] = OrderByte(o) /\ w \in Input
  <2>1. ty \in Nat
    OBVIOUS
  <2> QED BY <2>1, HeaderIs
<1>2. k \in Nat /\ k = ty + 32 /\ ~(ty >= SridFlag) /\ ~(k < SridFlag) /\ k - SridFlag = ty /\ ~HasZM(k)
  BY DEF SridFlag, HasZM
<1>3. OrderByte(o) \in Token /\ U32(o, k) \in Token /\ U32(o, srid) \in Token
  BY <1>2, TokensAre
<1>4. x = <<OrderByte(o), U32(o, k), U32(o, srid)>> \o e
  <2> HIDE DEF w, k
  <2>1. WkbHeader(w).ok /\ WkbHeader(w).in = e /\ WkbHeader(w).out = <<o, ty>>
    BY <1>1 DEF Got
  <2>2. <<o, ty>>[1] = o /\ <<o, ty>>[2] = ty
    OBVIOUS
  <2>3. x = <<w[1], U32(o, ty + SridFlag), U32(o, srid)>> \o e
    BY <1>2, <2>1, <2>2 DEF EncodeEwkb
  <2> QED BY <1>1, <2>3 DEF k
<1>5. u \in Input
  BY <1>3, InputIs
<1>6. x = WkbStart(o, k) \o (u \o e) /\ u \o e \in Input
  <2> DEFINE a == <<OrderByte(o), U32(o, k), U32(o, srid)>>
             d == WkbStart(o, k)
  <2>1. d \in Input
    BY <1>2, <1>5, HeaderIs
  <2>2. a = d \o u
    <3> DEFINE t1 == OrderByte(o)
               t2 == U32(o, k)
               t3 == U32(o, srid)
    <3>0. t1 \in Token /\ t2 \in Token /\ t3 \in Token
      BY <1>3
    <3>1. a = <<t1, t2, t3>> /\ d = <<t1, t2>> /\ u = <<t3>>
      BY DEF WkbStart
    <3> HIDE DEF t1, t2, t3, a, d, u
    <3>2. d \in Seq(Token) /\ u \in Seq(Token) /\ a \in Seq(Token) /\ Len(d) = 2 /\ Len(u) = 1 /\ Len(a) = 3
          /\ d[1] = t1 /\ d[2] = t2 /\ u[1] = t3 /\ a[1] = t1 /\ a[2] = t2 /\ a[3] = t3
      BY <3>0, <3>1
    <3> DEFINE q == d \o u
    <3>3. q \in Seq(Token) /\ Len(q) = Len(d) + Len(u)
          /\ \A i \in 1..(Len(d) + Len(u)) : q[i] = IF i <= Len(d) THEN d[i] ELSE u[i - Len(d)]
      BY <3>2, ConcatProperties
    <3> HIDE DEF q
    <3>4. Len(q) = 3 /\ q[1] = t1 /\ q[2] = t2 /\ q[3] = t3
      BY <3>2, <3>3
    <3>5. \A i \in 1..Len(a) : a[i] = q[i]
      <4>1. \A i \in 1..3 : i = 1 \/ i = 2 \/ i = 3
        OBVIOUS
      <4> QED BY <3>2, <3>4, <4>1
    <3>6. a = q
      BY <3>2, <3>3, <3>4, <3>5, SeqEqual
    <3> QED BY <3>6 DEF q
  <2>3. u \o e \in Input
    BY <1>5, InputIs
  <2>4. x = a \o e
    BY <1>4
  <2> HIDE DEF a, d, u, x
  <2>5. (d \o u) \o e = d \o (u \o e)
    BY SMTT(20), <1>5, <2>1, InputIs
  <2> QED BY <2>2, <2>3, <2>4, <2>5 DEF d
<1>7. WkbHeader(x) = Got(u \o e, <<o, k>>) /\ x[1] = OrderByte(o) /\ x \in Input
  <2> DEFINE y == u \o e
  <2>1. y \in Input /\ x = WkbStart(o, k) \o y
    BY <1>6
  <2> HIDE DEF y, x, k
  <2> QED BY <1>2, <2>1, HeaderIs DEF y
<1>8. Take(u \o e, "u32", o) = Got(e, srid)
  <2>1. U32(o, srid).k = "u32" /\ U32(o, srid).o = o /\ U32(o, srid).v = srid
    BY DEF U32
  <2>2. LET in == <<U32(o, srid)>> \o e IN in # <<>> /\ Head(in) = U32(o, srid) /\ Tail(in) = e
    BY <1>3, HeadIs
  <2> QED BY <2>1, <2>2 DEF Take
<1>9. StripSrid(x) = <<OrderByte(o), U32(o, ty)>> \o e
  <2> DEFINE y == u \o e
             s == Take(y, "u32", o)
             hd == <<o, k>>
  <2>1. hd[1] = o /\ hd[2] = k
    OBVIOUS
  <2>2. WkbHeader(x) = Got(y, hd) /\ s = Got(e, srid) /\ x[1] = OrderByte(o)
    BY <1>7, <1>8
  <2> HIDE DEF x, y, k, hd, s
  <2>3. WkbHeader(x).ok /\ WkbHeader(x).in = y /\ WkbHeader(x).out = hd /\ s.ok /\ s.in = e
    BY <2>2 DEF Got
  <2>4. StripSrid(x) = <<x[1], U32(o, k - SridFlag)>> \o e
    BY <1>2, <2>1, <2>3 DEF StripSrid, s
  <2> QED BY <1>2, <2>2, <2>4
<1>10. x # NoBytes
  <2>1. OrderByte(o).k = "byte" /\ NoBytes[1].k = "refused"
    BY OrdersAre DEF NoBytes, Sign
  <2> HIDE DEF x
  <2>2. x = NoBytes => x[1].k = NoBytes[1].k
    OBVIOUS
  <2> QED BY <1>7, <2>1, <2>2
<1> QED BY <1>7, <1>9, <1>10 DEF WkbStart

\* PostGIS is sent what it can take.
LEMMA EwkbTaken ==
    ASSUME NEW w \in Input, NEW srid \in Nat, DecodeWkb(w) # Refused
    PROVE  EncodeEwkb(w, srid) # NoBytes
<1> DEFINE h == WkbHeader(w)
           f == [in \in Input |-> WkbHeader(in)]
<1>1. ReadGeom(w).ok
  BY DEF DecodeWkb, Whole
<1>2. h.ok /\ h.out[2] \in 1..6
  BY <1>1 DEF ReadGeom, Then, Stop
<1>3. h.in \in Input
  <2>1. Reader(f, Orders \X Nat)
    BY HeaderReader
  <2>2. f[w] = h
    OBVIOUS
  <2> HIDE DEF f, h
  <2> QED BY <1>2, <2>1, <2>2 DEF Reader
<1> HIDE DEF h
<1> DEFINE x == <<w[1], U32(h.out[1], h.out[2] + SridFlag), U32(h.out[1], srid)>>
<1>4. EncodeEwkb(w, srid) = x \o h.in
  <2>1. ~(h.out[2] >= SridFlag)
    BY <1>2 DEF SridFlag
  <2> QED BY <1>2, <2>1 DEF EncodeEwkb, h
<1>5. x \o h.in # NoBytes
  <2> DEFINE T == {x[1], x[2], x[3]} \cup Token
  <2>1. x \in Seq(T) /\ Len(x) = 3
    OBVIOUS
  <2>2. h.in \in Seq(T) /\ Len(h.in) \in Nat
    <3>1. h.in \in Seq(Token) /\ Token \subseteq T
      BY <1>3 DEF Input
    <3> HIDE DEF T
    <3> QED BY <3>1, SeqMonotonic, LenProperties
  <2> HIDE DEF x, T
  <2>3. Len(x \o h.in) = Len(x) + Len(h.in)
    BY <2>1, <2>2, ConcatProperties
  <2>4. Len(NoBytes) = 1
    BY DEF NoBytes
  <2> DEFINE n == Len(h.in)
             y == x \o h.in
  <2>5. n \in Nat /\ Len(y) = 3 + n
    BY <2>1, <2>2, <2>3
  <2> HIDE DEF n, y
  <2>6. Len(y) # 1
    BY <2>5
  <2> QED BY <2>4, <2>6 DEF y
<1> QED BY <1>4, <1>5

----------------------------------------------------------------------------
(* Lists of a text: the loop that reads items up to the closing sign.      *)

State(at, in, out) == [at |-> at, in |-> in, out |-> out]
Ats == {"item", "end", "error"}
ListStates(X) == [at : Ats, in : Input, out : Seq(X)]

\* A reader of items of a list: none begins with what ends the list.
TextReader(item, X) ==
    /\ Reader(item, X)
    /\ \A in \in Input : item[in].ok => ~Starts(in, ")")

\* A state of the loop that reads a list, taken apart.
LEMMA StateIs == \A a, b, c : State(a, b, c).at = a /\ State(a, b, c).in = b /\ State(a, b, c).out = c
BY DEF State

\* The next item is r, and what comes after it.
Goes(acc, r, next) ==
    /\ r.ok /\ r.in # <<>> /\ next.in = Tail(r.in) /\ next.out = Append(acc.out, r.out)
    /\ \/ Head(r.in).k = "," /\ next.at = "item"
       \/ Head(r.in).k = ")" /\ next.at = "end"

\* One turn of that loop:
LEMMA NextIs ==
    ASSUME NEW item, NEW X, Reader(item, X), NEW acc \in ListStates(X)
    PROVE  LET r == item[acc.in]
               next == NextItem(acc, item)
           IN  /\ next \in ListStates(X)
               /\ acc.at # "item" => next = acc
               /\ acc.at = "item" /\ next.at # "error" => Goes(acc, r, next)
               /\ acc.at = "item" /\ r.ok /\ r.in # <<>> =>
                     /\ Head(r.in).k = "," => next = State("item", Tail(r.in), Append(acc.out, r.out))
                     /\ Head(r.in).k = ")" => next = State("end", Tail(r.in), Append(acc.out, r.out))
<1> DEFINE r == item[acc.in]
           next == NextItem(acc, item)
           To(at) == State(at, Tail(r.in), Append(acc.out, r.out))
           error == [acc EXCEPT !.at = "error"]
<1>1. acc.at \in Ats /\ acc.in \in Input /\ acc.out \in Seq(X)
  BY DEF ListStates
<1>2. error \in ListStates(X) /\ error.at = "error"
  BY DEF ListStates, Ats
<1>3. r.ok => r.in \in Input /\ r.out \in X
  BY <1>1 DEF Reader
<1>4. acc.at # "item" => next = acc
  BY DEF NextItem
<1>5. acc.at = "item" => next = CASE r.ok /\ Starts(r.in, ",") -> To("item")
                                  [] r.ok /\ Starts(r.in, ")") -> To("end")
                                  [] OTHER -> error
  BY DEF NextItem, AfterItem, State
<1> HIDE DEF r, next, error
<1>6. ASSUME NEW at \in Ats, r.ok, r.in # <<>> PROVE To(at) \in ListStates(X) /\ To(at).at = at
  <2>1. Tail(r.in) \in Input
    BY <1>3, <1>6, HeadIs
  <2>2. Append(acc.out, r.out) \in Seq(X)
    BY <1>1, <1>3, <1>6
  <2> QED BY <2>1, <2>2 DEF ListStates, State
<1>7. Starts(r.in, ",") <=> r.in # <<>> /\ Head(r.in).k = ","
  BY DEF Starts
<1>8. Starts(r.in, ")") <=> r.in # <<>> /\ Head(r.in).k = ")"
  BY DEF Starts
<1>9. "," # ")" /\ "item" \in Ats /\ "end" \in Ats
  BY DEF Ats
<1> DEFINE I == To("item")
           E == To("end")
<1>10. r.ok /\ r.in # <<>> => I \in ListStates(X) /\ I.at = "item" /\ E \in ListStates(X) /\ E.at = "end"
  BY <1>6, <1>9
<1>11. CASE acc.at # "item"
  <2>1. next \in ListStates(X)
    BY <1>4, <1>11
  <2> QED BY <1>4, <1>11, <2>1 DEF next, r
<1>12. CASE acc.at = "item"
  <2> HIDE DEF I, E
  <2>1. CASE r.ok /\ r.in # <<>> /\ Head(r.in).k = ","
    <3>1. next = I
      BY <1>5, <1>7, <1>8, <1>9, <1>12, <2>1 DEF I, E
    <3>2. I.in = Tail(r.in) /\ I.out = Append(acc.out, r.out) /\ I.at = "item"
      BY DEF I, State
    <3>3. Goes(acc, r, next)
      BY <2>1, <3>1, <3>2 DEF Goes
    <3> QED BY <1>9, <1>10, <1>12, <2>1, <3>1, <3>3 DEF next, r, I
  <2>2. CASE r.ok /\ r.in # <<>> /\ Head(r.in).k = ")"
    <3>1. next = E
      BY <1>5, <1>7, <1>8, <1>9, <1>12, <2>2 DEF I, E
    <3>2. E.in = Tail(r.in) /\ E.out = Append(acc.out, r.out) /\ E.at = "end"
      BY DEF E, State
    <3>3. Goes(acc, r, next)
      BY <2>2, <3>1, <3>2 DEF Goes
    <3> QED BY <1>9, <1>10, <1>12, <2>2, <3>1, <3>3 DEF next, r, E
  <2>3. CASE ~(r.ok /\ r.in # <<>> /\ Head(r.in).k \in {",", ")"})
    <3>1. next = error
      BY <1>5, <1>7, <1>8, <1>12, <2>3
    <3> QED BY <1>2, <1>12, <2>3, <3>1 DEF next, r
  <2> QED BY <2>1, <2>2, <2>3
<1> QED BY <1>11, <1>12

\* it ends with the list or the error,
LEMMA NextStays ==
    ASSUME NEW item, NEW acc, acc.at # "item"
    PROVE  NextItem(acc, item) = acc
BY DEF NextItem

\* takes an item,
LEMMA NextGoes ==
    ASSUME NEW item, NEW X, Reader(item, X), NEW acc \in ListStates(X), acc.at = "item",
           NEW next, next = NextItem(acc, item), next.at # "error"
    PROVE  Goes(acc, item[acc.in], next)
BY NextIs

\* and goes on behind a comma,
LEMMA NextIsItem ==
    ASSUME NEW item, NEW X, Reader(item, X), NEW acc \in ListStates(X), acc.at = "item",
           NEW r, r = item[acc.in], r.ok, r.in # <<>>, Head(r.in).k = ","
    PROVE  NextItem(acc, item) = State("item", Tail(r.in), Append(acc.out, r.out))
BY ZenonT(60), NextIs

\* or is over behind a closing sign.
LEMMA NextIsEnd ==
    ASSUME NEW item, NEW X, Reader(item, X), NEW acc \in ListStates(X), acc.at = "item",
           NEW r, r = item[acc.in], r.ok, r.in # <<>>, Head(r.in).k = ")"
    PROVE  NextItem(acc, item) = State("end", Tail(r.in), Append(acc.out, r.out))
BY ZenonT(60), NextIs

\* The loop from its start.
LEMMA ListedIs ==
    ASSUME NEW item, NEW X, Reader(item, X), NEW in \in Input
    PROVE  /\ Listed(in, item)[0] = State("item", in, <<>>)
           /\ \A i \in Nat : /\ Listed(in, item)[i] \in ListStates(X)
                             /\ Listed(in, item)[i + 1] = NextItem(Listed(in, item)[i], item)
<1> DEFINE S == ListStates(X)
           step == [p \in (Nat \ {0}) \X S |-> NextItem(p[2], item)]
           c == State("item", in, <<>>)
<1>1. c \in S
  <2>1. <<>> \in Seq(X)
    OBVIOUS
  <2> QED BY <2>1 DEF ListStates, State, Ats
<1>2. step \in [(Nat \ {0}) \X S -> S]
  <2>1. ASSUME NEW r \in S PROVE NextItem(r, item) \in S
    BY NextIs
  <2> HIDE DEF S
  <2> QED BY <2>1
<1>3. \A i \in Nat \ {0}, r \in S : step[<<i, r>>] = NextItem(r, item)
  OBVIOUS
<1>4. Listed(in, item) = CHOOSE f : f = [i \in Nat |-> IF i = 0 THEN c ELSE NextItem(f[i - 1], item)]
  BY DEF Listed, State
<1> HIDE DEF step, c, S
<1>5. PICK g : Recurses(g, S, c, step)
  BY <1>1, <1>2, NaturalRecursion
<1>6. g \in [Nat -> S] /\ g[0] = c /\ \A i \in Nat \ {0} : g[i] = NextItem(g[i - 1], item)
  <2>1. g \in [Nat -> S] /\ g[0] = c /\ \A i \in Nat \ {0} : g[i] = step[<<i, g[i - 1]>>]
    BY <1>5 DEF Recurses
  <2>2. ASSUME NEW i \in Nat \ {0} PROVE g[i] = NextItem(g[i - 1], item)
    <3>1. g[i - 1] \in S
      BY <2>1
    <3> QED BY <1>3, <2>1, <3>1
  <2> QED BY <2>1, <2>2
<1>7. g = [i \in Nat |-> IF i = 0 THEN c ELSE NextItem(g[i - 1], item)]
  BY <1>6
<1> DEFINE f == Listed(in, item)
<1>8. f = [i \in Nat |-> IF i = 0 THEN c ELSE NextItem(f[i - 1], item)]
  BY <1>4, <1>7
<1> HIDE DEF f
<1>9. f[0] = c /\ \A i \in Nat : f[i + 1] = NextItem(f[i], item)
  <2>1. f[0] = c
    BY <1>8
  <2>2. ASSUME NEW i \in Nat PROVE f[i + 1] = NextItem(f[i], item)
    BY <1>8
  <2> QED BY <2>1, <2>2
<1> DEFINE T == {i \in Nat : f[i] \in S}
<1>10. 0 \in T
  BY <1>1, <1>9
<1>11. ASSUME NEW i \in Nat, i \in T PROVE i + 1 \in T
  <2>1. f[i] \in S
    BY <1>11
  <2> DEFINE a == f[i]
  <2>2. a \in ListStates(X)
    BY <2>1 DEF S
  <2> HIDE DEF a
  <2>3. NextItem(a, item) \in ListStates(X)
    BY <2>2, NextIs
  <2> QED BY <1>9, <2>3 DEF S, a
<1> HIDE DEF T
<1>12. \A i \in Nat : i \in T
  BY <1>10, <1>11, SetInduction
<1> QED BY <1>9, <1>12 DEF T, S, f, c

\* A list that is over stays as it is, and one in error too.
LEMMA ListedStays ==
    ASSUME NEW item, NEW X, Reader(item, X), NEW in \in Input, NEW i \in Nat,
           Listed(in, item)[i].at # "item", NEW j \in Nat, i <= j
    PROVE  Listed(in, item)[j] = Listed(in, item)[i]
<1> DEFINE f == Listed(in, item)
           T == {k \in Nat : f[i + k] = f[i]}
<1>1. \A k \in Nat : f[k] \in ListStates(X) /\ f[k + 1] = NextItem(f[k], item)
  BY ListedIs
<1>2. f[i].at # "item"
  OBVIOUS
<1> HIDE DEF f
<1>3. 0 \in T
  OBVIOUS
<1>4. ASSUME NEW k \in Nat, k \in T PROVE k + 1 \in T
  <2>1. f[i + k] = f[i] /\ i + k \in Nat
    BY <1>4
  <2>2. f[(i + k) + 1] = NextItem(f[i + k], item)
    BY <1>1, <2>1
  <2> DEFINE a == f[i]
  <2>3. a \in ListStates(X) /\ a.at # "item"
    BY <1>1, <1>2
  <2> HIDE DEF a
  <2>4. NextItem(a, item) = a
    BY <2>3, NextStays
  <2>5. (i + k) + 1 = i + (k + 1)
    OBVIOUS
  <2> QED BY <2>1, <2>2, <2>4, <2>5 DEF a
<1> HIDE DEF T
<1>5. \A k \in Nat : k \in T
  BY <1>3, <1>4, SetInduction
<1>6. j - i \in Nat /\ i + (j - i) = j
  OBVIOUS
<1> QED BY <1>5, <1>6 DEF T, f

\* Reading a list reads the same when more follows.
LEMMA ItemsReads ==
    ASSUME NEW item, NEW X, Reader(item, X), NEW in \in Input, Items(in, item).ok
    PROVE  LET r == Items(in, item) IN
           /\ r.in \in Input /\ r.out \in Seq(X) /\ r.out # <<>>
           /\ \A y \in Input : Items(in \o y, item) = Got(r.in \o y, r.out)
<1> DEFINE f == Listed(in, item)
           n == Len(in)
           end == f[n]
<1>0. n \in Nat
  BY InputIs
<1>1. \A i \in Nat : f[i] \in ListStates(X) /\ f[i + 1] = NextItem(f[i], item)
  BY ListedIs
<1>2. f[0] = State("item", in, <<>>)
  BY ListedIs
<1>3. end.at = "end" /\ Items(in, item) = Got(end.in, end.out)
  BY DEF Items, Stop
<1> HIDE DEF f, n
<1>4. end.in \in Input /\ end.out \in Seq(X)
  BY <1>0, <1>1 DEF ListStates
<1>5. end.out # <<>>
  <2> DEFINE T == {i \in Nat : f[i].at = "end" => f[i].out # <<>>}
  <2>1. 0 \in T
    <3>1. f[0].at = "item"
      BY <1>2 DEF State
    <3> QED BY <3>1
  <2>2. ASSUME NEW i \in Nat, i \in T PROVE i + 1 \in T
    <3> DEFINE a == f[i]
               b == f[i + 1]
               r == item[a.in]
    <3>0. a \in ListStates(X) /\ b = NextItem(a, item) /\ (a.at = "end" => a.out # <<>>)
      BY <1>1, <2>2
    <3> HIDE DEF a, b
    <3> SUFFICES ASSUME b.at = "end" PROVE b.out # <<>>
      BY DEF b
    <3>1. CASE a.at # "item"
      <4>1. b = a
        BY <3>0, <3>1, NextStays
      <4> QED BY <3>0, <4>1
    <3>2. CASE a.at = "item"
      <4>1. a.out \in Seq(X) /\ r.ok /\ b.out = Append(a.out, r.out)
        <5>1. a.out \in Seq(X)
          BY <3>0 DEF ListStates
        <5>2. Goes(a, r, b)
          BY <3>0, <3>2, NextGoes
        <5> QED BY <5>1, <5>2 DEF Goes
      <4>3. r.out \in X
        <5>1. a.in \in Input
          BY <3>0 DEF ListStates
        <5> QED BY <4>1, <5>1 DEF Reader
      <4>4. Len(Append(a.out, r.out)) = Len(a.out) + 1 /\ Len(a.out) \in Nat
        BY <4>1, <4>3
      <4> DEFINE k == Len(a.out)
      <4>5. k \in Nat
        BY <4>4
      <4> HIDE DEF k
      <4>6. k + 1 # 0
        BY <4>5
      <4>7. Len(<<>>) = 0
        OBVIOUS
      <4> QED BY <4>1, <4>4, <4>6, <4>7 DEF k
    <3> QED BY <3>1, <3>2
  <2> HIDE DEF T
  <2>3. \A i \in Nat : i \in T
    BY <2>1, <2>2, SetInduction
  <2> QED BY <1>0, <1>3, <2>3 DEF T
<1>6. ASSUME NEW y \in Input PROVE Items(in \o y, item) = Got(end.in \o y, end.out)
  <2> DEFINE g == Listed(in \o y, item)
             T == {i \in Nat : f[i].at # "error" => g[i] = State(f[i].at, f[i].in \o y, f[i].out)}
  <2>0. in \o y \in Input /\ Len(in \o y) = n + Len(y) /\ Len(y) \in Nat
    BY InputIs DEF n
  <2>1. \A i \in Nat : g[i] \in ListStates(X) /\ g[i + 1] = NextItem(g[i], item)
    BY <2>0, ListedIs
  <2>2. g[0] = State("item", in \o y, <<>>)
    BY <2>0, ListedIs
  <2>a. Items(in \o y, item) = IF g[Len(in \o y)].at = "end" THEN Got(g[Len(in \o y)].in, g[Len(in \o y)].out) ELSE Stop
    BY DEF Items
  <2>b. \A i \in Nat, j \in Nat : i <= j /\ g[i].at # "item" => g[j] = g[i]
    BY <2>0, ListedStays
  <2> HIDE DEF g
  <2>3. 0 \in T
    <3>1. f[0].at = "item" /\ f[0].in = in /\ f[0].out = <<>>
      BY <1>2 DEF State
    <3> QED BY <2>2, <3>1
  <2>4. ASSUME NEW i \in Nat, i \in T PROVE i + 1 \in T
    <3> DEFINE a == f[i]
               b == f[i + 1]
               c == g[i]
               d == g[i + 1]
               r == item[a.in]
               q == item[c.in]
    <3>0. /\ a \in ListStates(X) /\ b = NextItem(a, item) /\ c \in ListStates(X) /\ d = NextItem(c, item)
          /\ a.at # "error" => c = State(a.at, a.in \o y, a.out)
      BY <1>1, <2>1, <2>4
    <3> HIDE DEF a, b, c, d
    <3> SUFFICES ASSUME b.at # "error" PROVE d = State(b.at, b.in \o y, b.out)
      BY DEF b, d
    <3>1. a.at # "error"
      <4>1. a.at # "item" => b = a
        BY <3>0, NextStays
      <4> QED BY <4>1
    <3>2. c.at = a.at /\ c.in = a.in \o y /\ c.out = a.out
      BY <3>0, <3>1 DEF State
    <3>3. CASE a.at # "item"
      <4>1. b = a /\ d = c
        BY <3>0, <3>2, <3>3, NextStays
      <4> QED BY <3>0, <3>1, <4>1
    <3>4. CASE a.at = "item"
      <4>1. /\ r.ok /\ r.in # <<>> /\ b.in = Tail(r.in) /\ b.out = Append(a.out, r.out)
            /\ \/ Head(r.in).k = "," /\ b.at = "item"
               \/ Head(r.in).k = ")" /\ b.at = "end"
        <5>1. Goes(a, r, b)
          BY <3>0, <3>4, NextGoes
        <5> QED BY <5>1 DEF Goes
      <4>2. a.in \in Input
        BY <3>0 DEF ListStates
      <4>3. r.in \in Input /\ q = Got(r.in \o y, r.out)
        <5>1. r.in \in Input /\ item[a.in \o y] = Got(r.in \o y, r.out)
          BY <4>1, <4>2 DEF Reader
        <5> QED BY <3>2, <5>1
      <4>4. q.ok /\ q.in = r.in \o y /\ q.out = r.out
        BY SMTT(20), <4>3 DEF Got
      <4>5. q.in # <<>> /\ Head(q.in) = Head(r.in) /\ Tail(q.in) = Tail(r.in) \o y
        <5> DEFINE l == r.in
        <5>1. l \in Input /\ l # <<>>
          BY <4>1, <4>3
        <5> HIDE DEF l
        <5>2. l \o y # <<>> /\ Head(l \o y) = Head(l) /\ Tail(l \o y) = Tail(l) \o y
          BY SMTT(20), <5>1, HeadIs
        <5> QED BY <4>4, <5>2 DEF l
      <4> HIDE DEF q
      <4>6. c.at = "item" /\ q = item[c.in] /\ q.ok /\ q.in # <<>>
        <5>1. q = item[c.in]
          BY DEF q
        <5>2. c.at = "item"
          BY ONLY <3>2, <3>4
        <5> QED BY ONLY <4>4, <4>5, <5>1, <5>2
      <4>7. ASSUME Head(r.in).k = ",", b.at = "item" PROVE d = State(b.at, b.in \o y, b.out)
        <5>0. Head(q.in).k = ","
          BY <4>5, <4>7
        <5>1. d = State("item", Tail(q.in), Append(c.out, q.out))
          <6>1. c \in ListStates(X) /\ d = NextItem(c, item)
            BY <3>0
          <6>2. c.at = "item" /\ q = item[c.in] /\ q.ok /\ q.in # <<>>
            BY <4>6
          <6> HIDE <3>0, <4>6
          <6>3. NextItem(c, item) = State("item", Tail(q.in), Append(c.out, q.out))
            BY ONLY ZenonT(60), Reader(item, X), <6>1, <6>2, <5>0, NextIsItem
          <6> QED BY <6>1, <6>3
        <5> QED BY <3>2, <4>1, <4>4, <4>5, <4>7, <5>1
      <4>8. ASSUME Head(r.in).k = ")", b.at = "end" PROVE d = State(b.at, b.in \o y, b.out)
        <5>0. Head(q.in).k = ")"
          BY <4>5, <4>8
        <5>1. d = State("end", Tail(q.in), Append(c.out, q.out))
          BY <3>0, <4>6, <5>0, NextIsEnd
        <5> QED BY <3>2, <4>1, <4>4, <4>5, <4>8, <5>1
      <4> QED BY <4>1, <4>7, <4>8
    <3> QED BY <3>3, <3>4
  <2> HIDE DEF T
  <2>5. \A i \in Nat : i \in T
    BY <2>3, <2>4, SetInduction
  <2>6. g[n] = State("end", end.in \o y, end.out)
    BY <1>0, <1>3, <2>5 DEF T
  <2> DEFINE m == Len(in \o y)
             k == Len(y)
  <2>7. m \in Nat /\ n <= m
    <3>1. k \in Nat /\ m = n + k
      BY <2>0
    <3> HIDE DEF k, m
    <3> QED BY <1>0, <3>1
  <2> HIDE DEF m
  <2>8. g[n].at = "end" /\ g[n].in = end.in \o y /\ g[n].out = end.out
    BY <2>6 DEF State
  <2>9. g[m] = g[n]
    BY <1>0, <2>b, <2>7, <2>8
  <2> QED BY <2>a, <2>8, <2>9 DEF m
<1>7. Items(in, item).in = end.in /\ Items(in, item).out = end.out
  BY <1>3 DEF Got
<1> QED BY <1>4, <1>5, <1>6, <1>7

Forms == {"wkt", "json"}

\* The reader of a list is a reader, of what begins with an opening sign.
LEMMA ListReader ==
    ASSUME NEW form \in Forms, NEW item, NEW X, Reader(item, X)
    PROVE  /\ Reader(ListIn(form, item), Lists(form, X))
           /\ \A in \in Input : ListIn(form, item)[in].ok => Starts(in, "(")
<1> DEFINE f == ListIn(form, item)
           A == Lists(form, X)
<1>1. ASSUME NEW in \in Input
      PROVE  f[in] = IF ~Starts(in, "(") THEN Stop
                     ELSE IF form = "json" /\ Starts(Tail(in), ")") THEN Got(Tail(Tail(in)), <<>>)
                     ELSE Items(Tail(in), item)
  BY DEF ListIn
<1>2. form # "wkt" => <<>> \in A
  <2>1. <<>> \in Seq(X)
    OBVIOUS
  <2> QED BY <2>1 DEF Lists
<1>3. \A s : s \in Seq(X) /\ s # <<>> => s \in A
  BY DEF Lists
<1> HIDE DEF f, A
<1>4. ASSUME NEW in \in Input, f[in].ok PROVE Starts(in, "(")
  BY <1>1, <1>4 DEF Stop
<1>5. ASSUME NEW in \in Input, f[in].ok
      PROVE  /\ f[in].in \in Input /\ f[in].out \in A
             /\ \A y \in Input : f[in \o y] = Got(f[in].in \o y, f[in].out)
  <2> DEFINE t == Tail(in)
  <2>0. in # <<>> /\ Head(in).k = "("
    BY <1>4, <1>5 DEF Starts
  <2>1. t \in Input
    BY <2>0, HeadIs
  <2>2. ASSUME NEW y \in Input
        PROVE  /\ in \o y \in Input /\ Tail(in \o y) = t \o y /\ Starts(in \o y, "(")
    <3>1. in \o y # <<>> /\ Head(in \o y) = Head(in) /\ Tail(in \o y) = Tail(in) \o y
      BY <2>0, HeadIs
    <3>2. in \o y \in Input
      BY InputIs
    <3> QED BY <2>0, <3>1, <3>2 DEF Starts
  <2> HIDE DEF t
  <2>3. f[in] = IF form = "json" /\ Starts(t, ")") THEN Got(Tail(t), <<>>) ELSE Items(t, item)
    BY <1>1, <1>4, <1>5 DEF t
  <2>4. ASSUME NEW y \in Input
        PROVE  f[in \o y] = IF form = "json" /\ Starts(t \o y, ")") THEN Got(Tail(t \o y), <<>>) ELSE Items(t \o y, item)
    BY <1>1, <2>2
  <2>5. CASE form = "json" /\ Starts(t, ")")
    <3>1. t # <<>> /\ Head(t).k = ")"
      BY <2>5 DEF Starts
    <3>2. Tail(t) \in Input
      BY <2>1, <3>1, HeadIs
    <3>3. f[in].in = Tail(t) /\ f[in].out = <<>>
      BY <2>3, <2>5 DEF Got
    <3>4. ASSUME NEW y \in Input PROVE f[in \o y] = Got(Tail(t) \o y, <<>>)
      <4>1. t \o y # <<>> /\ Head(t \o y) = Head(t) /\ Tail(t \o y) = Tail(t) \o y
        BY <2>1, <3>1, HeadIs
      <4>2. Starts(t \o y, ")")
        BY <3>1, <4>1 DEF Starts
      <4> QED BY <2>4, <2>5, <4>1, <4>2
    <3>5. <<>> \in A
      BY <1>2, <2>5
    <3> QED BY <3>2, <3>3, <3>4, <3>5
  <2>6. CASE ~(form = "json" /\ Starts(t, ")"))
    <3>1. f[in] = Items(t, item) /\ Items(t, item).ok
      BY <1>5, <2>3, <2>6
    <3>2. /\ f[in].in \in Input /\ f[in].out \in Seq(X) /\ f[in].out # <<>>
          /\ \A y \in Input : Items(t \o y, item) = Got(f[in].in \o y, f[in].out)
      BY <2>1, <3>1, ItemsReads
    <3>3. t # <<>>
      <4>1. ASSUME t = <<>> PROVE FALSE
        <5>1. Len(t) = 0
          BY <4>1
        <5>2. Listed(t, item)[0].at = "item"
          <6>1. Listed(t, item)[0] = State("item", t, <<>>)
            BY <2>1, ListedIs
          <6> QED BY <6>1 DEF State
        <5> QED BY <3>1, <5>1, <5>2 DEF Items, Stop
      <4> QED BY <4>1
    <3>4. ASSUME NEW y \in Input PROVE f[in \o y] = Items(t \o y, item)
      <4>1. t \o y # <<>> /\ Head(t \o y) = Head(t)
        BY <2>1, <3>3, HeadIs
      <4>2. Starts(t \o y, ")") <=> Starts(t, ")")
        BY <3>3, <4>1 DEF Starts
      <4> QED BY <2>4, <2>6, <4>2
    <3> QED BY <1>3, <3>2, <3>4
  <2> QED BY <2>5, <2>6
<1> QED BY <1>4, <1>5 DEF Reader, f, A

Comma == Sign(",")
Close == Sign(")")
At(t) == IF t.k = "," THEN "item" ELSE "end"
Delimiters == {t \in Token : t.k \in {",", ")"}}

Joined(in, e, t, z) == in = e \o (<<t>> \o z)

\* The item x is read, and what is behind it.
Advances(item, in, t, z, out, x, X) ==
    LET s == NextItem(State("item", in, out), item)
        r == State(At(t), z, Append(out, x))
    IN  (s.at # "error" => s = r) /\ (x \in X => s = r)

\* One item, and what is behind it.
LEMMA NextReads ==
    ASSUME NEW item, NEW X, Reader(item, X), NEW e \in Input, NEW x, Reads(item, e, x, X),
           NEW t \in Delimiters, NEW z \in Input, NEW out \in Seq(X), NEW in, Joined(in, e, t, z)
    PROVE  Advances(item, in, t, z, out, x, X)
<1>a. t \in Token /\ t.k \in {",", ")"}
  BY DEF Delimiters
<1>b. in = e \o (<<t>> \o z)
  BY DEF Joined
<1> DEFINE acc == State("item", in, out)
           s == NextItem(acc, item)
           left == <<t>> \o z
           q == item[in]
<1>1. left \in Input /\ left # <<>> /\ Head(left) = t /\ Tail(left) = z
  <2>1. <<t>> \in Input
    BY <1>a, InputIs
  <2>2. LET a == <<t>> \o z IN a # <<>> /\ Head(a) = t /\ Tail(a) = z
    BY <1>a, HeadIs
  <2> QED BY <2>1, <2>2, InputIs
<1> HIDE DEF left
<1>2. in \in Input /\ in = e \o left
  BY <1>1, <1>b, InputIs DEF left
<1>3. acc \in ListStates(X) /\ acc.at = "item" /\ acc.in = in /\ acc.out = out
  <2>1. "item" \in Ats
    BY DEF Ats
  <2> QED BY <1>2, <2>1 DEF State, ListStates
<1>4. (q.ok => q = Got(left, x)) /\ (x \in X => q = Got(left, x))
  BY <1>1, <1>2 DEF Reads
<1> HIDE DEF acc, q, s
<1>5. q = item[acc.in]
  BY <1>3 DEF q
<1>6. ASSUME q = Got(left, x) PROVE s = State(IF t.k = "," THEN "item" ELSE "end", z, Append(out, x))
  <2>1. q.ok /\ q.in = left /\ q.out = x
    BY <1>6 DEF Got
  <2>2. q.ok /\ q.in # <<>> /\ Head(q.in) = t /\ Tail(q.in) = z
    BY <1>1, <2>1
  <2>3. CASE t.k = ","
    <3>1. Head(q.in).k = ","
      BY <2>2, <2>3
    <3>2. NextItem(acc, item) = State("item", Tail(q.in), Append(acc.out, q.out))
      BY ONLY ZenonT(60), Reader(item, X), <1>3, <1>5, <2>2, <3>1, NextIsItem
    <3> QED BY <1>3, <2>1, <2>2, <2>3, <3>2 DEF s
  <2>4. CASE t.k = ")"
    <3>1. Head(q.in).k = ")" /\ t.k # ","
      BY <2>2, <2>4
    <3>2. NextItem(acc, item) = State("end", Tail(q.in), Append(acc.out, q.out))
      BY ONLY Reader(item, X), <1>3, <1>5, <2>2, <3>1, NextIsEnd
    <3> QED BY <1>3, <2>1, <2>2, <2>4, <3>1, <3>2 DEF s
  <2> QED BY <1>a, <2>3, <2>4
<1>7. s.at # "error" => q.ok
  <2>1. s = NextItem(acc, item)
    BY DEF s
  <2>2. s.at # "error" => Goes(acc, item[acc.in], s)
    BY <1>3, <2>1, NextGoes
  <2> QED BY <1>5, <2>2 DEF Goes
<1> QED BY <1>4, <1>6, <1>7 DEF s, acc, Advances, At

\* The items of a list and the commas between them.
Separated(e, n) == [i \in 1..n |-> IF i = 1 THEN e[i] ELSE <<Comma>> \o e[i]]

\* After i items of xs, of which P[i] is what was written.
ListedSoFar(item, P, xs, X, i) ==
    \A t \in Delimiters, z \in Input :
        LET s == Listed(P[i] \o (<<t>> \o z), item)[i]
            r == State(At(t), z, SubSeq(xs, 1, i))
        IN  (s.at # "error" => s = r) /\ (xs \in Seq(X) => s = r)

\* Of a list that was written the loop reads the items one by one.
LEMMA ListedWrites ==
    ASSUME NEW item, NEW X, Reader(item, X), NEW n, NEW e, NEW xs, NEW Y, xs \in Seq(Y), Writes(item, e, xs, X, n),
           NEW P, Flattens(P, Separated(e, n), Token, n), NEW j \in 1..n
    PROVE  ListedSoFar(item, P, xs, X, j)
<1>1. n \in Nat /\ e \in [1..n -> Input] /\ Len(xs) = n /\ DOMAIN xs = 1..n /\ \A i \in 1..n : Reads(item, e[i], xs[i], X)
  BY DEF Writes
<1> DEFINE F == Separated(e, n)
<1>2. P \in [0..n -> Input] /\ P[0] = <<>> /\ \A i \in 1..n : P[i] = P[i - 1] \o F[i]
  BY DEF Flattens, Input
<1>3. Comma \in Token /\ Comma.k = "," /\ <<Comma>> \in Input /\ Comma \in Delimiters /\ At(Comma) = "item"
  <2>1. Comma \in Token
    BY TokensAre DEF Comma
  <2>2. Comma.k = ","
    BY DEF Comma, Sign
  <2> QED BY <2>1, <2>2, InputIs DEF Delimiters, At
<1>4. \A i \in 1..n : F[i] = IF i = 1 THEN e[i] ELSE <<Comma>> \o e[i]
  BY DEF Separated
<1> HIDE DEF F
<1> DEFINE L(in, i) == Listed(in, item)[i]
           Done(i) == SubSeq(xs, 1, i)
           T == {i \in Nat : i + 1 <= n => ListedSoFar(item, P, xs, X, i + 1)}
<1>5. \A in \in Input, i \in Nat : /\ L(in, 0) = State("item", in, <<>>)
                                   /\ L(in, i) \in ListStates(X)
                                   /\ L(in, i + 1) = NextItem(L(in, i), item)
  BY ListedIs
<1>6. Done(n) = xs /\ (\A i \in Nat : i + 1 <= n => Done(i + 1) = Append(Done(i), xs[i + 1])) /\ Done(0) = <<>>
  <2>1. SubSeq(xs, 1, 0) = <<>>
    OBVIOUS
  <2>2. SubSeq(xs, 1, n) = xs
    BY <1>1
  <2>3. ASSUME NEW i \in Nat, i + 1 <= n PROVE SubSeq(xs, 1, i + 1) = Append(SubSeq(xs, 1, i), xs[i + 1])
    BY <1>1, <2>3
  <2> QED BY <2>1, <2>2, <2>3
<1> HIDE DEF L, Done
<1>7. ASSUME NEW t \in Delimiters PROVE t \in Token /\ t.k \in {",", ")"} /\ <<t>> \in Input
  <2>1. t \in Token /\ t.k \in {",", ")"}
    BY DEF Delimiters
  <2> QED BY <2>1, InputIs
<1>8. 0 \in T
  <2> SUFFICES ASSUME 0 + 1 <= n PROVE ListedSoFar(item, P, xs, X, 0 + 1)
    OBVIOUS
  <2>0. 1 \in 1..n /\ 0 + 1 = 1
    BY <1>1
  <2>1. P[1] = e[1] /\ e[1] \in Input
    <3>1. e[1] \in Input /\ F[1] = e[1]
      BY <1>1, <1>4, <2>0
    <3>2. \A i \in 1..n : \A k : k = i - 1 => P[i] = P[k] \o F[i]
      BY <1>2
    <3>a. 0 = 1 - 1
      OBVIOUS
    <3>3. P[1] = P[0] \o F[1]
      BY <2>0, <3>a, <3>2
    <3>4. <<>> \o e[1] = e[1]
      BY <3>1, InputIs
    <3> QED BY <1>2, <3>1, <3>3, <3>4
  <2>2. Reads(item, e[1], xs[1], X) /\ Done(1) = Append(<<>>, xs[1])
    <3>1. Reads(item, e[1], xs[1], X)
      BY <1>1, <2>0
    <3>2. Done(0 + 1) = Append(Done(0), xs[0 + 1])
      BY <1>6, <2>0
    <3> QED BY <1>6, <2>0, <3>1, <3>2
  <2>3. ASSUME NEW t \in Delimiters, NEW z \in Input
        PROVE  LET s == L(P[1] \o (<<t>> \o z), 1)
                   r == State(At(t), z, Done(1))
               IN  (s.at # "error" => s = r) /\ (xs \in Seq(X) => s = r)
    <3> DEFINE in == e[1] \o (<<t>> \o z)
    <3>1. in \in Input
      <4>1. <<t>> \o z \in Input
        BY <1>7, InputIs
      <4> QED BY <2>1, <4>1, InputIs
    <3>2. L(in, 1) = NextItem(State("item", in, <<>>), item)
      BY <1>5, <2>0, <3>1
    <3>4. <<>> \in Seq(X)
      OBVIOUS
    <3> DEFINE x == xs[1]
               d == e[1]
               q == NextItem(State("item", in, <<>>), item)
               r == State(At(t), z, Append(<<>>, x))
    <3>5. d \in Input /\ Reads(item, d, x, X) /\ Joined(in, d, t, z)
      BY <2>1, <2>2 DEF Joined
    <3> HIDE DEF in, x, d
    <3>6. (q.at # "error" => q = r) /\ (x \in X => q = r)
      <4>1. Advances(item, in, t, z, <<>>, x, X)
        BY ONLY Reader(item, X), t \in Delimiters, z \in Input, <3>4, <3>5, NextReads
      <4> QED BY <4>1 DEF Advances
    <3>7. xs \in Seq(X) => x \in X
      BY <1>1, <2>0 DEF x
    <3>8. L(P[1] \o (<<t>> \o z), 1) = q
      BY <2>1, <3>2 DEF in
    <3>9. State(At(t), z, Done(1)) = r
      BY <2>2 DEF x
    <3> HIDE DEF q, r
    <3> QED BY <3>6, <3>7, <3>8, <3>9
  <2> QED BY <2>0, <2>3 DEF ListedSoFar, L, Done
<1>9. ASSUME NEW i \in Nat, i \in T PROVE i + 1 \in T
  <2> SUFFICES ASSUME (i + 1) + 1 <= n PROVE ListedSoFar(item, P, xs, X, (i + 1) + 1)
    OBVIOUS
  <2> DEFINE k == i + 1
             m == k + 1
  <2>1. k \in Nat /\ m \in 1..n /\ m # 1 /\ m - 1 = k /\ k \in 0..n /\ k <= n /\ m \in Nat /\ m <= n
    BY <1>1
  <2>2. ListedSoFar(item, P, xs, X, k)
    BY <1>9, <2>1
  <2> HIDE DEF k
  <2>3. P[k] \in Input /\ e[m] \in Input /\ P[m] = P[k] \o (<<Comma>> \o e[m]) /\ Reads(item, e[m], xs[m], X)
    <3>1. P[k] \in Input /\ e[m] \in Input
      BY <1>1, <1>2, <2>1
    <3>2. P[m] = P[m - 1] \o F[m] /\ F[m] = <<Comma>> \o e[m]
      BY <1>2, <1>4, <2>1
    <3> QED BY <1>1, <2>1, <3>1, <3>2
  <2>4. Done(m) = Append(Done(k), xs[m])
    BY <1>6, <2>1
  <2>5. ASSUME NEW t \in Delimiters, NEW z \in Input
        PROVE  LET s == L(P[m] \o (<<t>> \o z), m)
                   r == State(At(t), z, Done(m))
               IN  (s.at # "error" => s = r) /\ (xs \in Seq(X) => s = r)
    <3> DEFINE w == <<t>> \o z
               y == e[m] \o w
               in == P[m] \o w
               a == L(in, k)
               b == L(in, m)
               d == e[m]
               x == xs[m]
               c == <<Comma>>
               p == P[k]
               u == State("item", y, Done(k))
               r == State(At(t), z, Append(Done(k), x))
               q == NextItem(u, item)
    <3>1. w \in Input /\ d \in Input /\ p \in Input /\ c \in Input
      BY <1>3, <1>7, <2>3, InputIs
    <3>2. y \in Input /\ in = p \o (c \o y) /\ in \in Input
      <4>1. in = (p \o (c \o d)) \o w /\ y = d \o w
        BY <2>3
      <4> HIDE DEF w, y, in, d, p, c
      <4>2. c \o d \in Input /\ d \o w \in Input
        BY <3>1, InputIs
      <4> DEFINE cd == c \o d
                 dw == d \o w
      <4>3. cd \in Input /\ dw \in Input /\ cd = c \o d /\ dw = d \o w
        BY <4>2
      <4> HIDE DEF cd, dw
      <4>9. p \in Input /\ cd \in Input /\ w \in Input
        BY <3>1, <4>3
      <4>4. (p \o cd) \o w = p \o (cd \o w)
        BY ONLY ZenonT(60), <4>9, InputIs
      <4>5. (c \o d) \o w = c \o (d \o w)
        BY ONLY ZenonT(60), <3>1, InputIs
      <4>6. c \o dw \in Input
        BY <3>1, <4>3, InputIs
      <4> DEFINE cdw == c \o dw
      <4>7. cdw \in Input
        BY <4>6
      <4> HIDE DEF cdw
      <4>8. p \o cdw \in Input
        BY <3>1, <4>7, InputIs
      <4> QED BY <4>1, <4>3, <4>4, <4>5, <4>8 DEF cdw
    <3>3. (a.at # "error" => a = u) /\ (xs \in Seq(X) => a = u)
      <4>1. LET s == Listed(P[k] \o (<<Comma>> \o y), item)[k]
                v == State(At(Comma), y, SubSeq(xs, 1, k))
            IN  (s.at # "error" => s = v) /\ (xs \in Seq(X) => s = v)
        BY <1>3, <2>2, <3>2 DEF ListedSoFar
      <4> QED BY <1>3, <3>2, <4>1 DEF L, Done
    <3>4. a \in ListStates(X) /\ b = NextItem(a, item)
      BY <1>5, <2>1, <3>2
    <3>5. t \in Token /\ t.k \in {",", ")"}
      BY <1>7
    <3> HIDE DEF in, a, b, d, y, c, p, u, r, k, m, w
    <3>6. u \in ListStates(X) => Done(k) \in Seq(X)
      BY DEF u, ListStates, State
    <3>7. ASSUME a = u PROVE (q.at # "error" => q = r) /\ (x \in X => q = r)
      <4>1. Done(k) \in Seq(X)
        BY <3>4, <3>6, <3>7
      <4>2. Joined(y, d, t, z) /\ Reads(item, d, x, X)
        BY <2>3 DEF y, d, w, x, Joined
      <4> DEFINE o == Done(k)
      <4>3. o \in Seq(X)
        BY <4>1
      <4> HIDE DEF o, x
      <4>4. Advances(item, y, t, z, o, x, X)
        BY ONLY Reader(item, X), t \in Delimiters, z \in Input, <3>1, <4>2, <4>3, NextReads
      <4> QED BY <4>4 DEF u, r, o, Advances
    <3>8. b.at # "error" => a.at # "error"
      BY <3>4, NextStays
    <3>9. xs \in Seq(X) => x \in X
      BY <1>1, <2>1
    <3>10. (b.at # "error" => b = r) /\ (xs \in Seq(X) => b = r)
      <4> HIDE DEF x, q
      <4>1. a = u => b = q
        BY <3>4 DEF q
      <4> QED BY <3>3, <3>7, <3>8, <3>9, <4>1
    <3>11. r = State(At(t), z, Done(m))
      BY <2>4 DEF r
    <3> QED BY <3>10, <3>11 DEF b, in, w
  <2> QED BY <2>5 DEF ListedSoFar, L, Done, m, k
<1> HIDE DEF T
<1>10. \A i \in Nat : i \in T
  BY <1>8, <1>9, SetInduction
<1>11. j - 1 \in Nat /\ (j - 1) + 1 = j /\ j <= n
  BY <1>1
<1> QED BY <1>10, <1>11 DEF T

\* What an item of a list begins with does not end the list.
Item(a) == a # <<>> /\ Head(a).k # ")"

\* The first of the items comes first.
LEMMA FlattenHead ==
    ASSUME NEW n \in Nat, n # 0, NEW e \in [1..n -> Input], \A i \in 1..n : e[i] # <<>>
    PROVE  FlattenSeq(e) # <<>> /\ Head(FlattenSeq(e)) = Head(e[1])
<1>1. e \in Seq(Seq(Token)) /\ Len(e) = n
  <2>1. e \in Seq(Input) /\ Len(e) = n
    BY FunctionIsSeq
  <2> QED BY <2>1 DEF Input
<1>2. PICK P : Flattens(P, e, Token, n)
  BY <1>1, FlattenIs
<1>3. /\ P \in [0..n -> Input] /\ P[0] = <<>> /\ \A i \in 1..n : P[i] = P[i - 1] \o e[i]
      /\ FlattenSeq(e) = P[n]
  BY <1>2 DEF Flattens, Input
<1> DEFINE T == {i \in Nat : i + 1 <= n => P[i + 1] # <<>> /\ Head(P[i + 1]) = Head(e[1])}
<1>4. 0 \in T
  <2>1. 1 \in 1..n /\ 0 + 1 = 1 /\ 1 - 1 = 0
    OBVIOUS
  <2>2. P[1] = P[1 - 1] \o e[1] /\ e[1] \in Input /\ e[1] # <<>>
    BY <1>3, <2>1
  <2>3. <<>> \o e[1] = e[1]
    BY <2>2, InputIs
  <2>4. P[1] = e[1]
    BY <1>3, <2>1, <2>2, <2>3
  <2> QED BY <2>1, <2>2, <2>4
<1>5. ASSUME NEW i \in Nat, i \in T PROVE i + 1 \in T
  <2> DEFINE k == i + 1
  <2> SUFFICES ASSUME k + 1 <= n PROVE P[k + 1] # <<>> /\ Head(P[k + 1]) = Head(e[1])
    OBVIOUS
  <2>1. k + 1 \in 1..n /\ (k + 1) - 1 = k /\ k \in 0..n /\ k <= n
    OBVIOUS
  <2>2. P[k] # <<>> /\ Head(P[k]) = Head(e[1])
    BY <1>5, <2>1
  <2> HIDE DEF k
  <2>3. P[k] \in Input /\ e[k + 1] \in Input /\ P[k + 1] = P[k] \o e[k + 1]
    BY <1>3, <2>1
  <2> DEFINE a == P[k]
             b == e[k + 1]
  <2>4. a \in Input /\ b \in Input /\ a # <<>>
    BY <2>2, <2>3
  <2> HIDE DEF a, b
  <2>5. a \o b # <<>> /\ Head(a \o b) = Head(a)
    BY <2>4, HeadIs
  <2> QED BY <2>2, <2>3, <2>5 DEF a, b
<1> HIDE DEF T
<1>6. \A i \in Nat : i \in T
  BY <1>4, <1>5, SetInduction
<1>7. n - 1 \in Nat /\ (n - 1) + 1 = n
  OBVIOUS
<1>8. P[(n - 1) + 1] # <<>> /\ Head(P[(n - 1) + 1]) = Head(e[1])
  <2>1. n - 1 \in T /\ (n - 1) + 1 <= n
    BY <1>6, <1>7
  <2> QED BY <2>1 DEF T
<1> QED BY <1>3, <1>7, <1>8

\* Without a first item there is no list.
LEMMA ItemsStop ==
    ASSUME NEW item, NEW X, Reader(item, X), NEW in \in Input, ~item[in].ok
    PROVE  ~Items(in, item).ok
<1> DEFINE f == Listed(in, item)
           n == Len(in)
<1>1. f[0] = State("item", in, <<>>) /\ f[0] \in ListStates(X) /\ f[0 + 1] = NextItem(f[0], item)
  BY ListedIs
<1>2. n \in Nat
  BY InputIs
<1>3. \A i \in Nat, j \in Nat : i <= j /\ f[i].at # "item" => f[j] = f[i]
  BY ListedStays
<1>4. Items(in, item) = IF f[n].at = "end" THEN Got(f[n].in, f[n].out) ELSE Stop
  BY DEF Items
<1> HIDE DEF f, n
<1>5. f[0].at = "item" /\ f[0].in = in
  BY <1>1 DEF State
<1> DEFINE a == f[0]
           b == f[1]
<1>6. a \in ListStates(X) /\ b = NextItem(a, item) /\ a.at = "item" /\ a.in = in
  <2>1. 0 + 1 = 1
    OBVIOUS
  <2> QED BY <1>1, <1>5, <2>1
<1> HIDE DEF a, b
<1>7. b.at = "error"
  <2>1. b.at # "error" => Goes(a, item[a.in], b)
    BY <1>6, NextGoes
  <2> QED BY <1>6, <2>1 DEF Goes
<1>8. CASE n = 0
  BY <1>4, <1>5, <1>8 DEF Stop
<1>9. CASE n # 0
  <2>1. 1 <= n /\ 1 \in Nat
    BY <1>2, <1>9
  <2>2. f[n] = f[1]
    BY <1>2, <1>3, <1>7, <2>1 DEF b
  <2> QED BY <1>4, <1>7, <2>2 DEF Stop, b
<1> QED BY <1>8, <1>9

\* A list of items, each of which has been written.
ListsOut(form, item, e, xs, X) ==
    /\ ListOut(e) \in Input /\ ListOut(e) # <<>> /\ Head(ListOut(e)).k = "("
    /\ Reads(ListIn(form, item), ListOut(e), xs, Lists(form, X))

\* The reader of a list reads the list that was written.
LEMMA ListReads ==
    ASSUME NEW form \in Forms, NEW item, NEW X, TextReader(item, X), NEW n, NEW e, NEW xs, NEW Y, xs \in Seq(Y),
           Writes(item, e, xs, X, n), \A i \in 1..n : Item(e[i])
    PROVE  ListsOut(form, item, e, xs, X)
<1>0. Reader(item, X) /\ \A in \in Input : item[in].ok => ~Starts(in, ")")
  BY DEF TextReader
<1>1. n \in Nat /\ e \in [1..n -> Input] /\ Len(xs) = n /\ DOMAIN xs = 1..n /\ \A i \in 1..n : e[i] # <<>> /\ Head(e[i]).k # ")"
  BY DEF Writes, Item
<1> DEFINE F == Separated(e, n)
           all == FlattenSeq(F)
           Open == Sign("(")
<1>2. /\ Open \in Token /\ Open.k = "(" /\ <<Open>> \in Input
      /\ Close \in Token /\ Close.k = ")" /\ <<Close>> \in Input /\ Close \in Delimiters /\ At(Close) = "end"
      /\ Comma \in Token /\ <<Comma>> \in Input
  <2>1. Open \in Token /\ Close \in Token /\ Comma \in Token
    BY TokensAre DEF Close, Comma
  <2>2. Open.k = "(" /\ Close.k = ")"
    BY DEF Sign, Close
  <2> QED BY <2>1, <2>2, InputIs DEF Delimiters, At
<1>3. F \in [1..n -> Input] /\ \A i \in 1..n : F[i] # <<>> /\ (i = 1 => F[i] = e[i])
  <2>1. ASSUME NEW i \in 1..n
        PROVE  LET x == IF i = 1 THEN e[i] ELSE <<Comma>> \o e[i] IN x \in Input /\ x # <<>>
    <3>1. e[i] \in Input /\ e[i] # <<>>
      BY <1>1
    <3>2. <<Comma>> \o e[i] \in Input
      BY <1>2, <3>1, InputIs
    <3>3. LET a == <<Comma>> \o e[i] IN a # <<>>
      BY <1>2, <3>1, HeadIs
    <3> QED BY <3>1, <3>2, <3>3
  <2> QED BY <2>1 DEF Separated
<1>4. ListOut(e) = (<<Open>> \o all) \o <<Close>>
  <2>1. DOMAIN e = 1..n
    BY <1>1
  <2>2. ListOut(e) = (<<Sign("(")>> \o FlattenSeq([i \in DOMAIN e |-> IF i = 1 THEN e[i] ELSE <<Sign(",")>> \o e[i]])) \o <<Sign(")")>>
    BY DEF ListOut
  <2> QED BY <2>1, <2>2 DEF Separated, Close, Comma
<1> HIDE DEF F, Open
<1>5. all \in Input /\ n <= Len(all) /\ Len(F) = n
  BY <1>1, <1>3, FlattenLength
<1>6. PICK P : Flattens(P, F, Token, n)
  <2>1. F \in Seq(Seq(Token)) /\ Len(F) = n
    <3>1. F \in Seq(Input) /\ Len(F) = n
      BY <1>1, <1>3, FunctionIsSeq
    <3> QED BY <3>1 DEF Input
  <2> QED BY <2>1, FlattenIs
<1>7. all = P[n] /\ P[0] = <<>>
  BY <1>6 DEF Flattens
<1>8. n # 0 => all # <<>> /\ Head(all).k # ")"
  <2> SUFFICES ASSUME n # 0 PROVE all # <<>> /\ Head(all).k # ")"
    OBVIOUS
  <2>1. all # <<>> /\ Head(all) = Head(F[1])
    <3> HIDE DEF all
    <3>1. \A i \in 1..n : F[i] # <<>>
      BY <1>3
    <3> QED BY <1>1, <1>3, <3>1, FlattenHead DEF all
  <2>2. 1 \in 1..n
    BY <1>1
  <2> QED BY <1>1, <1>3, <2>1, <2>2
<1> HIDE DEF all
<1>9. ASSUME NEW rest \in Input
      PROVE  LET in == ListOut(e) \o rest
                 tail == all \o (<<Close>> \o rest)
             IN  in \in Input /\ in # <<>> /\ Head(in) = Open /\ Tail(in) = tail /\ tail \in Input
  <2> DEFINE a == <<Open>>
             z == <<Close>>
             zr == z \o rest
             tail == all \o zr
  <2>1. a \in Input /\ z \in Input /\ zr \in Input
    BY <1>2, InputIs
  <2> HIDE DEF a, z, zr
  <2>2. tail \in Input
    BY <1>5, <2>1, InputIs
  <2> DEFINE az == a \o all
  <2>3. az \in Input /\ az \o z \in Input
    <3>1. az \in Input
      BY <1>5, <2>1, InputIs
    <3> QED BY <2>1, <3>1, InputIs
  <2>4. (az \o z) \o rest = az \o zr
    <3> HIDE DEF az
    <3>1. az \in Input /\ z \in Input /\ rest \in Input
      BY <2>1, <2>3
    <3>2. (az \o z) \o rest = az \o (z \o rest)
      BY ONLY SMTT(20), <3>1, InputIs
    <3> QED BY <3>2 DEF zr
  <2>5. az \o zr = a \o tail
    BY ONLY ZenonT(60), <1>5, <2>1, InputIs
  <2> HIDE DEF az, tail
  <2>6. ListOut(e) \o rest = <<Open>> \o tail
    BY <1>4, <2>4, <2>5 DEF az, a, z
  <2>7. LET in == <<Open>> \o tail IN in # <<>> /\ Head(in) = Open /\ Tail(in) = tail
    BY <1>2, <2>2, HeadIs
  <2>8. <<Open>> \o tail \in Input
    BY <1>2, <2>2, InputIs
  <2> QED BY <2>2, <2>6, <2>7, <2>8 DEF tail, zr, z
<1>10. ListOut(e) \in Input /\ ListOut(e) # <<>> /\ Head(ListOut(e)).k = "("
  <2>1. ListOut(e) \in Input
    <3>1. <<Open>> \o all \in Input
      BY <1>2, <1>5, InputIs
    <3> QED BY <1>2, <1>4, <3>1, InputIs
  <2>2. <<>> \in Input /\ ListOut(e) \o <<>> = ListOut(e)
    BY <2>1, InputIs
  <2>3. LET in == ListOut(e) \o <<>> IN in # <<>> /\ Head(in) = Open
    BY <1>9, <2>2
  <2> QED BY <1>2, <2>1, <2>2, <2>3
<1> DEFINE f == ListIn(form, item)
<1>11. ASSUME NEW rest \in Input
       PROVE  LET in == ListOut(e) \o rest IN
              (f[in].ok => f[in] = Got(rest, xs)) /\ (xs \in Lists(form, X) => f[in] = Got(rest, xs))
  <2> DEFINE in == ListOut(e) \o rest
             zr == <<Close>> \o rest
             tail == all \o zr
             r == Items(tail, item)
  <2>1. in \in Input /\ in # <<>> /\ Head(in) = Open /\ Tail(in) = tail /\ tail \in Input
    BY <1>9
  <2>2. zr \in Input /\ zr # <<>> /\ Head(zr) = Close /\ Tail(zr) = rest
    <3>1. zr \in Input
      BY <1>2, InputIs
    <3>2. LET a == <<Close>> \o rest IN a # <<>> /\ Head(a) = Close /\ Tail(a) = rest
      BY <1>2, HeadIs
    <3> QED BY <3>1, <3>2
  <2>3. f[in] = IF form = "json" /\ Starts(tail, ")") THEN Got(Tail(tail), <<>>) ELSE r
    <3>1. Starts(in, "(")
      BY <1>2, <2>1 DEF Starts
    <3>2. f[in] = IF ~Starts(in, "(") THEN Stop
                  ELSE IF form = "json" /\ Starts(Tail(in), ")") THEN Got(Tail(Tail(in)), <<>>)
                  ELSE Items(Tail(in), item)
      BY <2>1 DEF ListIn
    <3> QED BY <2>1, <3>1, <3>2
  <2> HIDE DEF in, zr, f
  <2>4. CASE n = 0
    <3>1. tail = zr /\ xs = <<>>
      <4>1. <<>> \o zr = zr
        BY <2>2, InputIs
      <4>2. all = <<>>
        BY <1>7, <2>4
      <4>3. xs = <<>>
        BY <1>1, <2>4
      <4> QED BY <4>1, <4>2, <4>3
    <3>2. Starts(tail, ")") /\ Tail(tail) = rest
      BY <1>2, <2>2, <3>1 DEF Starts
    <3>3. ~r.ok
      <4>1. ~item[tail].ok
        BY <1>0, <2>1, <3>2
      <4> HIDE DEF tail
      <4> QED BY <1>0, <2>1, <4>1, ItemsStop
    <3>4. form = "wkt" => xs \notin Lists(form, X)
      BY <3>1 DEF Lists
    <3>5. form \in {"wkt", "json"}
      BY DEF Forms
    <3> HIDE DEF tail, r
    <3> QED BY <2>3, <3>1, <3>2, <3>3, <3>4, <3>5 DEF in
  <2>5. CASE n # 0
    <3>1. tail # <<>> /\ Head(tail) = Head(all)
      BY <1>5, <1>8, <2>2, <2>5, HeadIs
    <3>2. ~Starts(tail, ")")
      BY <1>8, <2>5, <3>1 DEF Starts
    <3>3. f[in] = r
      BY <2>3, <3>2
    <3> DEFINE g == Listed(tail, item)
               m == Len(tail)
               s == State("end", rest, xs)
    <3>4. n <= m /\ m \in Nat
      <4>1. m = Len(all) + Len(zr) /\ Len(all) \in Nat /\ Len(zr) \in Nat
        BY <1>5, <2>2, InputIs
      <4> DEFINE a == Len(all)
                 b == Len(zr)
      <4> HIDE DEF m
      <4>2. a \in Nat /\ b \in Nat /\ n <= a /\ m = a + b
        BY <1>5, <4>1
      <4> HIDE DEF a, b
      <4> QED BY <1>1, <4>2
    <3>5. (g[n].at # "error" => g[n] = s) /\ (xs \in Seq(X) => g[n] = s)
      <4>1. n \in 1..n
        BY <1>1, <2>5
      <4>2. ListedSoFar(item, P, xs, X, n)
        <5>1. Flattens(P, Separated(e, n), Token, n)
          BY <1>6 DEF F
        <5> QED BY <1>0, <4>1, <5>1, ListedWrites
      <4>3. LET a == Listed(P[n] \o (<<Close>> \o rest), item)[n]
                b == State(At(Close), rest, SubSeq(xs, 1, n))
            IN  (a.at # "error" => a = b) /\ (xs \in Seq(X) => a = b)
        BY <1>2, <4>2 DEF ListedSoFar
      <4>4. SubSeq(xs, 1, n) = xs
        BY <1>1
      <4> QED BY <1>2, <1>7, <4>3, <4>4 DEF zr
    <3>6. r = IF g[m].at = "end" THEN Got(g[m].in, g[m].out) ELSE Stop
      BY DEF Items
    <3>7. \A i \in Nat, j \in Nat : i <= j /\ g[i].at # "item" => g[j] = g[i]
      BY <1>0, <2>1, ListedStays
    <3> HIDE DEF g, m, r, tail
    <3>8. s.at = "end" /\ s.in = rest /\ s.out = xs
      BY DEF State
    <3> HIDE DEF s
    <3>9. g[n] = s => r = Got(rest, xs)
      <4> SUFFICES ASSUME g[n] = s PROVE r = Got(rest, xs)
        OBVIOUS
      <4>1. g[m] = g[n]
        BY <1>1, <3>4, <3>7, <3>8
      <4> QED BY <3>6, <3>8, <4>1
    <3>10. g[n] # s => ~r.ok
      <4> SUFFICES ASSUME g[n] # s PROVE ~r.ok
        OBVIOUS
      <4>1. g[n].at = "error"
        BY <3>5
      <4>2. g[m] = g[n]
        BY <1>1, <3>4, <3>7, <4>1
      <4> QED BY <3>6, <4>1, <4>2 DEF Stop
    <3>11. xs \in Lists(form, X) => xs \in Seq(X)
      BY DEF Lists
    <3> QED BY <3>3, <3>5, <3>9, <3>10, <3>11 DEF in
  <2> QED BY <2>4, <2>5
<1> QED BY <1>10, <1>11 DEF Reads, ListsOut

----------------------------------------------------------------------------
(* Points, lines, parts and children of a text.                            *)

\* g takes of what f reads only what is of S, and yields its image.
Filters(g, f, S, m) ==
    \A in \in Input : g[in] = IF f[in].ok /\ f[in].out \in S THEN Got(f[in].in, m[f[in].out]) ELSE Stop

Yields(m, A, S, B) == \A a \in A : a \in S => m[a] \in B

\* A reader that refuses some of what another reads is a reader,
LEMMA FilterReader ==
    ASSUME NEW f, NEW A, NEW S, NEW m, NEW B, NEW g, Reader(f, A), Yields(m, A, S, B), Filters(g, f, S, m)
    PROVE  Reader(g, B)
<1>a. \A a \in A : a \in S => m[a] \in B
  BY DEF Yields
<1>b. \A in \in Input : g[in] = IF f[in].ok /\ f[in].out \in S THEN Got(f[in].in, m[f[in].out]) ELSE Stop
  BY DEF Filters
<1> SUFFICES ASSUME NEW in \in Input, g[in].ok
             PROVE  /\ g[in].in \in Input /\ g[in].out \in B
                    /\ \A y \in Input : g[in \o y] = Got(g[in].in \o y, g[in].out)
  BY DEF Reader
<1> DEFINE a == f[in].out
           rest == f[in].in
<1>1. f[in].ok /\ a \in S
  BY <1>b DEF Stop
<1>2. a \in A /\ rest \in Input /\ \A y \in Input : f[in \o y] = Got(rest \o y, a)
  BY <1>1 DEF Reader
<1>3. g[in] = Got(rest, m[a]) /\ m[a] \in B
  BY <1>a, <1>b, <1>1, <1>2
<1> HIDE DEF a, rest
<1>4. g[in].in = rest /\ g[in].out = m[a]
  BY <1>3 DEF Got
<1>5. ASSUME NEW y \in Input PROVE g[in \o y] = Got(rest \o y, m[a])
  <2>1. in \o y \in Input
    BY InputIs
  <2>2. f[in \o y].ok /\ f[in \o y].in = rest \o y /\ f[in \o y].out = a
    <3>1. f[in \o y] = Got(rest \o y, a)
      BY <1>2
    <3>2. \A r : r = Got(rest \o y, a) => r.ok /\ r.in = rest \o y /\ r.out = a
      BY DEF Got
    <3> QED BY <3>1, <3>2
  <2> QED BY <1>b, <1>1, <2>1, <2>2
<1> QED BY <1>2, <1>3, <1>4, <1>5

\* and reads what that one reads.
LEMMA FilterReads ==
    ASSUME NEW f, NEW A, NEW S, NEW m, NEW B, NEW g, Filters(g, f, S, m),
           NEW e \in Input, NEW a, NEW x, Reads(f, e, a, A), x = m[a], x \in B => a \in A /\ a \in S
    PROVE  Reads(g, e, x, B)
<1>b. \A in \in Input : g[in] = IF f[in].ok /\ f[in].out \in S THEN Got(f[in].in, m[f[in].out]) ELSE Stop
  BY DEF Filters
<1> SUFFICES ASSUME NEW rest \in Input
             PROVE  /\ g[e \o rest].ok => g[e \o rest] = Got(rest, x)
                    /\ x \in B => g[e \o rest] = Got(rest, x)
  BY DEF Reads
<1> DEFINE in == e \o rest
<1>1. in \in Input
  BY InputIs
<1>2. (f[in].ok => f[in] = Got(rest, a)) /\ (a \in A => f[in] = Got(rest, a))
  BY DEF Reads
<1> HIDE DEF in
<1>3. ASSUME f[in].ok, a \in S PROVE g[in] = Got(rest, x)
  <2>1. f[in].in = rest /\ f[in].out = a
    BY <1>2, <1>3 DEF Got
  <2> QED BY <1>b, <1>1, <1>3, <2>1
<1>4. ASSUME g[in].ok PROVE f[in].ok /\ a \in S
  <2>1. f[in].ok /\ f[in].out \in S
    BY <1>b, <1>1, <1>4 DEF Stop
  <2>2. f[in].out = a
    BY <1>2, <2>1 DEF Got
  <2> QED BY <2>1, <2>2
<1>5. ASSUME x \in B PROVE f[in].ok /\ a \in S
  BY <1>2, <1>5 DEF Got
<1> QED BY <1>3, <1>4, <1>5 DEF in

\* What is written of x, as an item of a list.
Written(f, e, x, X) == e \in Input /\ Item(e) /\ Reads(f, e, x, X)

\* The coordinates of a point in a text.
LEMMA PairReader ==
    /\ TextReader(PairIn, Nat \ {0})
    /\ \A p \in Nat : Written(PairIn, <<XY("-", p)>>, p, Nat \ {0})
<1> DEFINE f == [in \in Input |-> Take(in, "xy", "-")]
           B == Nat \ {0}
           m == [p \in Nat |-> p]
<1>1. Reader(f, Nat)
  BY TakeReader
<1>2. ASSUME NEW in \in Input
      PROVE  PairIn[in] = IF f[in].ok /\ f[in].out \in B THEN Got(f[in].in, m[f[in].out]) ELSE Stop
  <2>1. PairIn[in] = IF f[in].ok THEN IF f[in].out = 0 THEN Stop ELSE Got(f[in].in, f[in].out) ELSE Stop
    BY DEF PairIn, Then
  <2>2. f[in].ok => f[in].out \in Nat
    <3> HIDE DEF f
    <3> QED BY <1>1 DEF Reader
  <2> HIDE DEF f
  <2> QED BY <2>1, <2>2
<1>3. \A in \in Input : f[in] = Take(in, "xy", "-")
  OBVIOUS
<1>4. \A p \in Nat : m[p] = p
  OBVIOUS
<1> HIDE DEF f, m, B
<1>5. Yields(m, Nat, B, B) /\ Filters(PairIn, f, B, m)
  BY <1>2, <1>4 DEF Yields, Filters
<1>6. Reader(PairIn, B)
  BY <1>1, <1>5, FilterReader
<1>7. ASSUME NEW in \in Input, PairIn[in].ok PROVE ~Starts(in, ")")
  <2>1. Take(in, "xy", "-").ok
    BY <1>2, <1>3, <1>7 DEF Stop
  <2>2. Head(in).k = "xy"
    BY <2>1 DEF Take, Stop
  <2> QED BY <2>2 DEF Starts
<1>8. ASSUME NEW p \in Nat PROVE Written(PairIn, <<XY("-", p)>>, p, B)
  <2> DEFINE t == XY("-", p)
  <2>1. t \in Token /\ t.k = "xy" /\ t.o = "-" /\ t.v = p
    <3>1. t \in Token
      BY TokensAre
    <3> QED BY <3>1 DEF XY
  <2> HIDE DEF t
  <2>2. Reads(f, <<t>>, p, Nat)
    <3>1. Reads(f, <<t>>, t.v, Nat)
      BY <2>1, TakeReads DEF f
    <3> QED BY <2>1, <3>1
  <2> DEFINE e == <<t>>
  <2>3. e \in Input /\ e # <<>> /\ Head(e) = t
    BY <2>1, InputIs
  <2>4. Item(e)
    BY <2>1, <2>3 DEF Item
  <2> HIDE DEF e
  <2>5. Reads(f, e, p, Nat) /\ p = m[p] /\ (p \in B => p \in Nat /\ p \in B)
    BY <1>4, <2>2 DEF e
  <2>6. Reads(PairIn, e, p, B)
    BY <1>5, <2>3, <2>5, FilterReads
  <2> QED BY <2>3, <2>4, <2>6 DEF Written, e, t
<1> QED BY <1>6, <1>7, <1>8 DEF TextReader, B

\* The points of a line or a ring.
LEMMA LineReader ==
    ASSUME NEW form \in Forms
    PROVE  /\ TextReader(LineIn(form), Lists(form, Nat \ {0}))
           /\ \A pts \in Seq(Nat) : Written(LineIn(form), LineOut(pts), pts, Lists(form, Nat \ {0}))
           /\ \A pts \in Seq(Nat) : LineOut(pts) # <<>> /\ Head(LineOut(pts)).k = "("
<1> DEFINE B == Nat \ {0}
<1>1. TextReader(PairIn, B) /\ \A p \in Nat : Written(PairIn, <<XY("-", p)>>, p, B)
  BY PairReader
<1> HIDE DEF B
<1>2. LineIn(form) = ListIn(form, PairIn)
  BY DEF LineIn
<1>3. TextReader(LineIn(form), Lists(form, B))
  <2>1. Reader(PairIn, B)
    BY <1>1 DEF TextReader
  <2>2. Reader(ListIn(form, PairIn), Lists(form, B)) /\ \A in \in Input : ListIn(form, PairIn)[in].ok => Starts(in, "(")
    BY <2>1, ListReader
  <2>3. \A in : Starts(in, "(") => ~Starts(in, ")")
    BY DEF Starts
  <2> QED BY <1>2, <2>2, <2>3 DEF TextReader
<1>4. ASSUME NEW pts \in Seq(Nat)
      PROVE  /\ Written(LineIn(form), LineOut(pts), pts, Lists(form, B))
             /\ LineOut(pts) # <<>> /\ Head(LineOut(pts)).k = "("
  <2> DEFINE n == Len(pts)
             e == [i \in 1..n |-> <<XY("-", pts[i])>>]
  <2>1. n \in Nat /\ DOMAIN pts = 1..n /\ LineOut(pts) = ListOut(e)
    <3>1. n \in Nat /\ DOMAIN pts = 1..n
      OBVIOUS
    <3> QED BY <3>1 DEF LineOut
  <2>2. ASSUME NEW i \in 1..n PROVE e[i] \in Input /\ Item(e[i]) /\ Reads(PairIn, e[i], pts[i], B)
    <3>1. pts[i] \in Nat /\ e[i] = <<XY("-", pts[i])>>
      OBVIOUS
    <3>2. Written(PairIn, e[i], pts[i], B)
      <4> HIDE DEF e
      <4> QED BY <1>1, <3>1
    <3> QED BY <3>2 DEF Written
  <2>3. e \in [1..n -> Input]
    BY <2>2
  <2> HIDE DEF e
  <2>4. Writes(PairIn, e, pts, B, n)
    BY <2>1, <2>2, <2>3 DEF Writes
  <2>5. ListsOut(form, PairIn, e, pts, B)
    BY <1>1, <2>2, <2>4, ListReads
  <2>6. /\ ListOut(e) \in Input /\ ListOut(e) # <<>> /\ Head(ListOut(e)).k = "("
        /\ Reads(LineIn(form), ListOut(e), pts, Lists(form, B))
    BY <1>2, <2>5 DEF ListsOut
  <2>7. Item(ListOut(e))
    BY <2>6 DEF Item
  <2> QED BY <2>1, <2>6, <2>7 DEF Written
<1> QED BY <1>3, <1>4 DEF B

\* A point with its signs.
LEMMA PointReader ==
    ASSUME NEW form \in Forms
    PROVE  /\ TextReader(PointIn(form), Nat \ {0})
           /\ \A p \in Nat : Written(PointIn(form), PointOut(form, p), p, Nat \ {0})
<1> DEFINE B == Nat \ {0}
           g == PointIn(form)
<1>1. TextReader(PairIn, B) /\ \A p \in Nat : Written(PairIn, <<XY("-", p)>>, p, B)
  BY PairReader
<1>2. TextReader(LineIn(form), Lists(form, B)) /\ \A pts \in Seq(Nat) : Written(LineIn(form), LineOut(pts), pts, Lists(form, B))
  BY LineReader
<1>3. CASE form = "json"
  <2>1. \A in \in Input : g[in] = PairIn[in]
    BY <1>3 DEF PointIn
  <2>2. g = PairIn
    BY <1>3 DEF PointIn, PairIn
  <2>3. \A p : PointOut(form, p) = <<XY("-", p)>>
    BY <1>3 DEF PointOut
  <2> HIDE DEF B, g
  <2> QED BY <1>1, <2>2, <2>3 DEF B, g
<1>4. CASE form = "wkt"
  <2> DEFINE f == LineIn(form)
             A == Lists(form, B)
             S == {<<p>> : p \in B}
             m == [pts \in Seq(Nat) |-> pts[1]]
  <2>0. A = Seq(B) \ {<<>>}
    BY <1>4 DEF Lists
  <2>1. \A pts \in Seq(B) : Len(pts) = 1 <=> pts \in S
    <3>1. ASSUME NEW pts \in Seq(B), Len(pts) = 1 PROVE pts \in S
      <4> HIDE DEF B
      <4>1. pts[1] \in B
        BY <3>1
      <4>2. pts = <<pts[1]>>
        BY <3>1
      <4> QED BY <4>1, <4>2
    <3>2. ASSUME NEW pts \in S PROVE Len(pts) = 1
      OBVIOUS
    <3> QED BY <3>1, <3>2
  <2>2. \A pts \in Seq(B) : m[pts] = pts[1]
    <3>1. \A pts \in Seq(B) : pts \in Seq(Nat)
      OBVIOUS
    <3> QED BY <3>1
  <2>3. \A p \in Nat : m[<<p>>] = p /\ <<p>> \in Seq(Nat) /\ (p \in B => <<p>> \in S /\ <<p>> \in A)
    <3>1. \A p \in Nat : <<p>> \in Seq(Nat) /\ <<p>>[1] = p /\ <<p>> # <<>>
      OBVIOUS
    <3>2. \A p \in B : <<p>> \in Seq(B)
      OBVIOUS
    <3> QED BY <2>0, <3>1, <3>2
  <2>4. \A a \in A : a \in S => m[a] \in B
    BY <2>3
  <2> HIDE DEF A, S, m
  <2>5. ASSUME NEW in \in Input
        PROVE  g[in] = IF f[in].ok /\ f[in].out \in S THEN Got(f[in].in, m[f[in].out]) ELSE Stop
    <3>1. g[in] = IF f[in].ok THEN IF Len(f[in].out) = 1 THEN Got(f[in].in, f[in].out[1]) ELSE Stop ELSE Stop
      BY <1>4 DEF PointIn, Then
    <3>2. f[in].ok => f[in].out \in A
      <4> HIDE DEF f
      <4> QED BY <1>2 DEF TextReader, Reader, f, A
    <3>3. f[in].ok => f[in].out \in Seq(B)
      BY <2>0, <3>2
    <3> HIDE DEF f, g, B
    <3> QED BY <2>1, <2>2, <3>1, <3>3
  <2> HIDE DEF f, g, B
  <2>6. Reader(f, A) /\ \A in \in Input : f[in].ok => ~Starts(in, ")")
    BY <1>2 DEF TextReader, f, A
  <2>b. Yields(m, A, S, B) /\ Filters(g, f, S, m)
    BY <2>4, <2>5 DEF Yields, Filters
  <2>7. Reader(g, B)
    BY <2>b, <2>6, FilterReader
  <2>8. TextReader(g, B)
    <3>1. \A in \in Input : g[in].ok => f[in].ok
      BY <2>5 DEF Stop
    <3> QED BY <2>6, <2>7, <3>1 DEF TextReader
  <2>9. ASSUME NEW p \in Nat PROVE Written(g, PointOut(form, p), p, B)
    <3> DEFINE a == <<p>>
               e == LineOut(a)
    <3>1. PointOut(form, p) = e
      <4>1. PointOut(form, p) = ListOut(<<<<XY("-", p)>>>>)
        BY <1>4 DEF PointOut
      <4>2. [i \in DOMAIN a |-> <<XY("-", a[i])>>] = <<<<XY("-", p)>>>>
        OBVIOUS
      <4> QED BY <4>1, <4>2 DEF LineOut
    <3>2. a \in Seq(Nat) /\ p = m[a] /\ (p \in B => a \in A /\ a \in S)
      BY <2>3
    <3> HIDE DEF a
    <3>3. Written(f, e, a, A)
      BY <1>2, <3>2 DEF f, A, B
    <3> HIDE DEF e
    <3>4. e \in Input /\ Item(e) /\ Reads(f, e, a, A)
      BY <3>3 DEF Written
    <3>5. Reads(g, e, p, B)
      <4>1. Filters(g, f, S, m) /\ e \in Input /\ Reads(f, e, a, A) /\ p = m[a] /\ (p \in B => a \in A /\ a \in S)
        BY <2>b, <3>2, <3>4
      <4> QED BY ONLY ZenonT(60), <4>1, FilterReads
    <3> QED BY <3>1, <3>4, <3>5 DEF Written
  <2> QED BY <2>8, <2>9 DEF g, B
<1> QED BY <1>3, <1>4 DEF Forms

\* g yields the image of what f reads.
Mapped(g, f, m) ==
    \A in \in Input : g[in] = IF f[in].ok THEN Got(f[in].in, m[f[in].out]) ELSE Stop

\* A text reader whose result is wrapped is one.
LEMMA MappedText ==
    ASSUME NEW f, NEW A, NEW m, NEW B, NEW g, TextReader(f, A), \A a \in A : m[a] \in B, Mapped(g, f, m)
    PROVE  /\ TextReader(g, B)
           /\ \A e, a : Written(f, e, a, A) /\ (m[a] \in B => a \in A) => Written(g, e, m[a], B)
<1>1. Reader(f, A) /\ \A in \in Input : f[in].ok => ~Starts(in, ")")
  BY DEF TextReader
<1>2. ASSUME NEW in \in Input
      PROVE  g[in] = IF f[in].ok /\ f[in].out \in A THEN Got(f[in].in, m[f[in].out]) ELSE Stop
  BY <1>1 DEF Mapped, Reader
<1>3. Filters(g, f, A, m) /\ Yields(m, A, A, B)
  BY <1>2 DEF Filters, Yields
<1>4. Reader(g, B)
  BY <1>1, <1>3, FilterReader
<1>5. TextReader(g, B)
  <2>1. \A in \in Input : g[in].ok => f[in].ok
    BY <1>2 DEF Stop
  <2> QED BY <1>1, <1>4, <2>1 DEF TextReader
<1>6. ASSUME NEW e, NEW a, Written(f, e, a, A), m[a] \in B => a \in A PROVE Written(g, e, m[a], B)
  <2> DEFINE x == m[a]
  <2>1. e \in Input /\ Item(e) /\ Reads(f, e, a, A)
    BY <1>6 DEF Written
  <2>2. x = m[a] /\ (x \in B => a \in A /\ a \in A)
    BY <1>6
  <2> HIDE DEF x
  <2>3. Reads(g, e, x, B)
    BY <1>3, <2>1, <2>2, FilterReads
  <2> QED BY <2>1, <2>3 DEF Written, x
<1> QED BY <1>5, <1>6

\* Two readers that read alike.
Same(g, f) == \A in \in Input : g[in] = f[in]

\* So is one that reads like a text reader.
LEMMA SameText ==
    ASSUME NEW f, NEW A, NEW g, Same(g, f), TextReader(f, A)
    PROVE  TextReader(g, A) /\ \A e, a : Written(f, e, a, A) => Written(g, e, a, A)
<1>1. \A in \in Input : g[in] = f[in]
  BY DEF Same
<1>2. \A in, y \in Input : in \o y \in Input
  BY InputIs
<1>3. TextReader(g, A)
  BY <1>1, <1>2 DEF TextReader, Reader
<1>4. ASSUME NEW e, NEW a, Written(f, e, a, A) PROVE Written(g, e, a, A)
  <2>1. e \in Input /\ Item(e) /\ Reads(f, e, a, A)
    BY <1>4 DEF Written
  <2>2. \A y \in Input : e \o y \in Input
    BY <1>2, <2>1
  <2>3. Reads(g, e, a, A)
    BY <1>1, <2>1, <2>2 DEF Reads
  <2> QED BY <2>1, <2>3 DEF Written
<1> QED BY <1>3, <1>4

\* A list of what has been written.
LEMMA ListText ==
    ASSUME NEW form \in Forms, NEW item, NEW X, TextReader(item, X)
    PROVE  TextReader(ListIn(form, item), Lists(form, X))
<1>1. Reader(item, X)
  BY DEF TextReader
<1>2. Reader(ListIn(form, item), Lists(form, X)) /\ \A in \in Input : ListIn(form, item)[in].ok => Starts(in, "(")
  BY <1>1, ListReader
<1>3. \A in : Starts(in, "(") => ~Starts(in, ")")
  BY DEF Starts
<1> QED BY <1>2, <1>3 DEF TextReader

Itemized(item, e, xs, X) ==
    DOMAIN xs = 1..Len(xs) /\ e = [i \in 1..Len(xs) |-> e[i]] /\ \A i \in 1..Len(xs) : Written(item, e[i], xs[i], X)

\* So is the reader of a list of what a text reader reads.
LEMMA ListWritten ==
    ASSUME NEW form \in Forms, NEW item, NEW X, TextReader(item, X), NEW Y, NEW xs \in Seq(Y), NEW e,
           Itemized(item, e, xs, X)
    PROVE  Written(ListIn(form, item), ListOut(e), xs, Lists(form, X))
<1> DEFINE n == Len(xs)
<1>1. n \in Nat /\ DOMAIN xs = 1..n /\ e = [i \in 1..n |-> e[i]]
  BY DEF Itemized
<1>2. ASSUME NEW i \in 1..n PROVE e[i] \in Input /\ Item(e[i]) /\ Reads(item, e[i], xs[i], X)
  <2>1. Written(item, e[i], xs[i], X)
    BY DEF Itemized
  <2> QED BY <2>1 DEF Written
<1>3. n = Len(xs)
  OBVIOUS
<1> HIDE DEF n
<1>4. Writes(item, e, xs, X, n)
  BY <1>1, <1>2, <1>3 DEF Writes
<1>5. ListsOut(form, item, e, xs, X)
  BY <1>2, <1>4, ListReads
<1>6. /\ ListOut(e) \in Input /\ ListOut(e) # <<>> /\ Head(ListOut(e)).k = "("
      /\ Reads(ListIn(form, item), ListOut(e), xs, Lists(form, X))
  BY <1>5 DEF ListsOut
<1> QED BY <1>6 DEF Written, Item

\* What the text of a geometry has between the type and the end, or in an item of a Multi.
LEMMA TextSets ==
    ASSUME NEW form \in Forms
    PROVE  /\ Num(form) = Nat \ {0}
           /\ PartSet(form, 1) = {<<<<p>>>> : p \in Nat \ {0}}
           /\ PartSet(form, 2) = {<<pts>> : pts \in Lists(form, Nat \ {0})}
           /\ PartSet(form, 3) = Lists(form, Lists(form, Nat \ {0}))
<1>1. form # "bin"
  BY DEF Forms
<1> QED BY <1>1 DEF Num, Points, Lines, PartSet

\* The text of one part.
LEMMA PartTextReader ==
    ASSUME NEW form \in Forms, NEW ty \in 1..3
    PROVE  /\ TextReader(PartOfText(form, ty), PartSet(form, ty))
           /\ \A part \in PartSet("bin", ty) :
                 Written(PartOfText(form, ty), PartText(form, ty, part), part, PartSet(form, ty))
<1> DEFINE g == PartOfText(form, ty)
           N == Nat \ {0}
<1>1. CASE ty = 1
  <2> DEFINE f == PointIn(form)
             m == [p \in Nat |-> <<<<p>>>>]
             B == {<<<<p>>>> : p \in N}
  <2>1. PartSet(form, ty) = B
    BY <1>1, TextSets
  <2>2. TextReader(f, N) /\ \A p \in Nat : Written(f, PointOut(form, p), p, N)
    BY PointReader
  <2>3. \A in \in Input : g[in] = IF f[in].ok THEN Got(f[in].in, <<<<f[in].out>>>>) ELSE Stop
    BY <1>1 DEF PartOfText, Then
  <2>4. \A p \in Nat : m[p] = <<<<p>>>> /\ (m[p] \in B => p \in N)
    <3>1. \A p \in Nat : m[p] = <<<<p>>>>
      OBVIOUS
    <3>2. ASSUME NEW p \in Nat, <<<<p>>>> \in B PROVE p \in N
      <4>1. PICK q \in N : <<<<p>>>> = <<<<q>>>>
        BY <3>2
      <4>2. p = q
        BY <4>1
      <4> QED BY <4>2
    <3> HIDE DEF m, B
    <3> QED BY <3>1, <3>2
  <2>5. \A p \in N : p \in Nat /\ m[p] \in B
    OBVIOUS
  <2>6. \A part \in PartSet("bin", ty) : part[1][1] \in Nat /\ part = <<<<part[1][1]>>>> /\ PartText(form, ty, part) = PointOut(form, part[1][1])
    <3>1. PartSet("bin", ty) = {<<<<p>>>> : p \in Nat}
      BY <1>1, BinarySets
    <3>2. \A part : PartText(form, ty, part) = PointOut(form, part[1][1])
      BY <1>1 DEF PartText
    <3>3. \A p \in Nat : <<<<p>>>>[1][1] = p
      OBVIOUS
    <3> QED BY <3>1, <3>2, <3>3
  <2> HIDE DEF f, g, m, B, N
  <2>7. Mapped(g, f, m)
    <3>1. \A in \in Input : f[in].ok => f[in].out \in N
      BY <2>2 DEF TextReader, Reader
    <3>2. \A in \in Input : f[in].ok => m[f[in].out] = <<<<f[in].out>>>>
      BY <2>4, <2>5, <3>1
    <3> QED BY <2>3, <3>2 DEF Mapped
  <2>8. \A a \in N : m[a] \in B
    BY <2>5
  <2>9. TextReader(g, B) /\ \A e, a : Written(f, e, a, N) /\ (m[a] \in B => a \in N) => Written(g, e, m[a], B)
    BY <2>2, <2>7, <2>8, MappedText
  <2>10. ASSUME NEW part \in PartSet("bin", ty) PROVE Written(g, PartText(form, ty, part), part, B)
    <3> DEFINE p == part[1][1]
    <3>1. p \in Nat /\ part = <<<<p>>>> /\ PartText(form, ty, part) = PointOut(form, p)
      BY <2>6
    <3> HIDE DEF p
    <3>2. Written(f, PointOut(form, p), p, N) /\ (m[p] \in B => p \in N) /\ m[p] = part
      BY <2>2, <2>4, <3>1
    <3>3. Written(g, PointOut(form, p), m[p], B)
      BY <2>9, <3>2
    <3> QED BY <3>1, <3>2, <3>3
  <2> QED BY <2>1, <2>9, <2>10 DEF g
<1>2. CASE ty = 2
  <2> DEFINE f == LineIn(form)
             A == Lists(form, N)
             m == [pts \in Seq(Nat) |-> <<pts>>]
             B == {<<pts>> : pts \in A}
  <2>1. PartSet(form, ty) = B
    BY <1>2, TextSets
  <2>2. TextReader(f, A) /\ \A pts \in Seq(Nat) : Written(f, LineOut(pts), pts, A)
    BY LineReader
  <2>3. \A in \in Input : g[in] = IF f[in].ok THEN Got(f[in].in, <<f[in].out>>) ELSE Stop
    BY <1>2 DEF PartOfText, Then
  <2>a. \A pts \in A : pts \in Seq(Nat)
    <3>1. \A pts \in A : pts \in Seq(N)
      BY DEF Lists
    <3>2. \A pts \in Seq(N) : pts \in Seq(Nat)
      OBVIOUS
    <3> QED BY <3>1, <3>2
  <2> HIDE DEF A
  <2>4. \A pts \in Seq(Nat) : m[pts] = <<pts>> /\ (m[pts] \in B => pts \in A)
    <3>1. \A pts \in Seq(Nat) : m[pts] = <<pts>>
      OBVIOUS
    <3>2. ASSUME NEW pts, <<pts>> \in B PROVE pts \in A
      <4>1. PICK q \in A : <<pts>> = <<q>>
        BY <3>2
      <4>2. pts = q
        BY <4>1
      <4> QED BY <4>2
    <3> HIDE DEF m, B
    <3> QED BY <3>1, <3>2
  <2>5. \A pts \in A : m[pts] \in B
    BY <2>a
  <2>6. \A part \in PartSet("bin", ty) : part[1] \in Seq(Nat) /\ part = <<part[1]>> /\ PartText(form, ty, part) = LineOut(part[1])
    <3>1. PartSet("bin", ty) = {<<pts>> : pts \in Seq(Nat)}
      BY <1>2, BinarySets
    <3>2. \A part : PartText(form, ty, part) = LineOut(part[1])
      BY <1>2 DEF PartText
    <3> QED BY <3>1, <3>2
  <2> HIDE DEF f, g, m, B, N
  <2>7. Mapped(g, f, m)
    <3>1. \A in \in Input : f[in].ok => f[in].out \in A
      BY <2>2 DEF TextReader, Reader
    <3>2. \A in \in Input : f[in].ok => m[f[in].out] = <<f[in].out>>
      BY <2>4, <2>a, <3>1
    <3> QED BY <2>3, <3>2 DEF Mapped
  <2>9. TextReader(g, B) /\ \A e, a : Written(f, e, a, A) /\ (m[a] \in B => a \in A) => Written(g, e, m[a], B)
    BY <2>2, <2>5, <2>7, MappedText
  <2>10. ASSUME NEW part \in PartSet("bin", ty) PROVE Written(g, PartText(form, ty, part), part, B)
    <3> DEFINE p == part[1]
    <3>1. p \in Seq(Nat) /\ part = <<p>> /\ PartText(form, ty, part) = LineOut(p)
      BY <2>6
    <3> HIDE DEF p
    <3>2. Written(f, LineOut(p), p, A) /\ (m[p] \in B => p \in A) /\ m[p] = part
      BY <2>2, <2>4, <3>1
    <3>3. Written(g, LineOut(p), m[p], B)
      BY <2>9, <3>2
    <3> QED BY <3>1, <3>2, <3>3
  <2> QED BY <2>1, <2>9, <2>10 DEF g
<1>3. CASE ty = 3
  <2> DEFINE f == LineIn(form)
             A == Lists(form, N)
             B == Lists(form, A)
  <2>1. PartSet(form, ty) = B
    BY <1>3, TextSets
  <2>2. TextReader(f, A) /\ \A pts \in Seq(Nat) : Written(f, LineOut(pts), pts, A)
    BY LineReader
  <2>3. Same(g, ListIn(form, f))
    BY <1>3 DEF PartOfText, Same
  <2>6. \A part \in PartSet("bin", ty) : part \in Seq(Seq(Nat)) /\ PartText(form, ty, part) = ListOut([i \in DOMAIN part |-> LineOut(part[i])])
    <3>1. PartSet("bin", ty) = Seq(Seq(Nat))
      BY <1>3, BinarySets
    <3>2. \A part : PartText(form, ty, part) = ListOut([i \in DOMAIN part |-> LineOut(part[i])])
      BY <1>3 DEF PartText
    <3> QED BY <3>1, <3>2
  <2> HIDE DEF f, g, A, N
  <2>7. TextReader(ListIn(form, f), B)
    BY <2>2, ListText
  <2> HIDE DEF B
  <2>8. TextReader(g, B) /\ \A e, a : Written(ListIn(form, f), e, a, B) => Written(g, e, a, B)
    BY <2>3, <2>7, SameText
  <2>9. ASSUME NEW part \in PartSet("bin", ty) PROVE Written(g, PartText(form, ty, part), part, B)
    <3> DEFINE e == [i \in 1..Len(part) |-> LineOut(part[i])]
    <3>1. part \in Seq(Seq(Nat)) /\ PartText(form, ty, part) = ListOut(e)
      BY <2>6
    <3>2. Itemized(f, e, part, A)
      <4>1. DOMAIN part = 1..Len(part) /\ e = [i \in 1..Len(part) |-> e[i]]
        BY <3>1
      <4>2. ASSUME NEW i \in 1..Len(part) PROVE Written(f, e[i], part[i], A)
        <5>1. part[i] \in Seq(Nat) /\ e[i] = LineOut(part[i])
          BY <3>1
        <5> HIDE DEF e
        <5> QED BY <2>2, <5>1
      <4> HIDE DEF e
      <4> QED BY <4>1, <4>2 DEF Itemized
    <3> HIDE DEF e
    <3>3. Written(ListIn(form, f), ListOut(e), part, B)
      BY <2>2, <3>1, <3>2, ListWritten DEF B
    <3> QED BY <2>8, <3>1, <3>3
  <2> QED BY <2>1, <2>8, <2>9 DEF g
<1> QED BY <1>1, <1>2, <1>3

\* Both texts carry the same points.
LEMMA BareSets == PartSet("wkt", 1) = PartSet("json", 1)
<1>1. "wkt" \in Forms /\ "json" \in Forms
  BY DEF Forms
<1> QED BY <1>1, TextSets

\* A bare point is something.
LEMMA BareReads ==
    ASSUME NEW in \in Input, PartOfText("json", 1)[in].ok
    PROVE  in # <<>>
<1>1. PartOfText("json", 1)[in] = IF PointIn("json")[in].ok THEN Got(PointIn("json")[in].in, <<<<PointIn("json")[in].out>>>>) ELSE Stop
  BY DEF PartOfText, Then
<1>2. PointIn("json")[in] = PairIn[in]
  BY DEF PointIn
<1>3. PairIn[in].ok
  BY <1>1, <1>2 DEF Stop
<1>4. PairIn[in] = IF Take(in, "xy", "-").ok
                   THEN IF Take(in, "xy", "-").out = 0 THEN Stop ELSE Got(Take(in, "xy", "-").in, Take(in, "xy", "-").out)
                   ELSE Stop
  BY DEF PairIn, Then
<1>5. Take(in, "xy", "-").ok
  BY <1>3, <1>4 DEF Stop
<1> QED BY <1>5 DEF Take, Stop

\* f of what starts with "(", and g of the rest.
Either(h, f, g) == \A in \in Input : h[in] = IF Starts(in, "(") THEN f[in] ELSE g[in]

\* Two text readers of which the first sign chooses one.
LEMMA EitherText ==
    ASSUME NEW X, NEW f, NEW g, NEW h, TextReader(f, X), TextReader(g, X), Either(h, f, g),
           \A in \in Input : g[in].ok => in # <<>>
    PROVE  /\ TextReader(h, X)
           /\ \A e, x : Written(f, e, x, X) /\ Head(e).k = "(" => Written(h, e, x, X)
<1>1. /\ Reader(f, X) /\ \A in \in Input : f[in].ok => ~Starts(in, ")")
      /\ Reader(g, X) /\ \A in \in Input : g[in].ok => ~Starts(in, ")")
  BY DEF TextReader
<1>2. ASSUME NEW in \in Input, in # <<>>, NEW y \in Input
      PROVE  in \o y \in Input /\ (Starts(in \o y, "(") <=> Starts(in, "("))
  <2>1. in \o y # <<>> /\ Head(in \o y) = Head(in)
    BY <1>2, HeadIs
  <2>2. in \o y \in Input
    BY InputIs
  <2> QED BY <1>2, <2>1, <2>2 DEF Starts
<1>3. ASSUME NEW in \in Input, h[in].ok
      PROVE  /\ h[in].in \in Input /\ h[in].out \in X /\ ~Starts(in, ")")
             /\ \A y \in Input : h[in \o y] = Got(h[in].in \o y, h[in].out)
  <2>1. CASE Starts(in, "(")
    <3>1. h[in] = f[in] /\ f[in].ok /\ in # <<>>
      BY <1>3, <2>1 DEF Either, Starts
    <3>2. \A y \in Input : h[in \o y] = f[in \o y]
      BY <1>2, <2>1, <3>1 DEF Either
    <3> QED BY <1>1, <3>1, <3>2 DEF Reader
  <2>2. CASE ~Starts(in, "(")
    <3>1. h[in] = g[in] /\ g[in].ok /\ in # <<>>
      BY <1>3, <2>2 DEF Either
    <3>2. \A y \in Input : h[in \o y] = g[in \o y]
      BY <1>2, <2>2, <3>1 DEF Either
    <3> QED BY <1>1, <3>1, <3>2 DEF Reader
  <2> QED BY <2>1, <2>2
<1>4. ASSUME NEW e, NEW x, Written(f, e, x, X), Head(e).k = "(" PROVE Written(h, e, x, X)
  <2>1. e \in Input /\ Item(e) /\ Reads(f, e, x, X) /\ e # <<>>
    BY <1>4 DEF Written, Item
  <2>2. \A y \in Input : h[e \o y] = f[e \o y]
    <3>1. Starts(e, "(")
      BY <1>4, <2>1 DEF Starts
    <3> QED BY <1>2, <2>1, <3>1 DEF Either
  <2>3. Reads(h, e, x, X)
    BY <2>1, <2>2 DEF Reads
  <2> QED BY <2>1, <2>3 DEF Written
<1> QED BY <1>3, <1>4 DEF TextReader, Reader

\* The text of one child of a Multi; WKT may have a bare point there.
LEMMA ChildTextReader ==
    ASSUME NEW form \in Forms, NEW ty \in 4..6
    PROVE  /\ TextReader(ChildOfText(form, ty), PartSet(form, ty - 3))
           /\ \A part \in PartSet("bin", ty - 3) :
                 Written(ChildOfText(form, ty), PartText(form, ty - 3, part), part, PartSet(form, ty - 3))
<1> DEFINE h == ChildOfText(form, ty)
           X == PartSet(form, ty - 3)
           f == PartOfText(form, ty - 3)
<1>0. ty - 3 \in 1..3
  OBVIOUS
<1>1. TextReader(f, X) /\ \A part \in PartSet("bin", ty - 3) : Written(f, PartText(form, ty - 3, part), part, X)
  BY <1>0, PartTextReader
<1>2. CASE ty # 4 \/ form = "json"
  <2>1. Same(h, f)
    BY <1>2 DEF ChildOfText, Same
  <2> HIDE DEF h, f, X
  <2>2. TextReader(h, X) /\ \A e, a : Written(f, e, a, X) => Written(h, e, a, X)
    BY <1>1, <2>1, SameText
  <2> QED BY <1>1, <2>2 DEF h, X
<1>3. CASE ty = 4 /\ form = "wkt"
  <2> DEFINE g == PartOfText("json", 1)
  <2>0. ty - 3 = 1 /\ "json" \in Forms /\ 1 \in 1..3
    BY <1>3 DEF Forms
  <2>1. TextReader(g, PartSet("json", 1))
    BY <2>0, PartTextReader
  <2>2. TextReader(g, X)
    BY <1>3, <2>0, <2>1, BareSets
  <2>3. Either(h, f, g)
    BY <1>3, <2>0 DEF ChildOfText, Either
  <2>4. \A in \in Input : g[in].ok => in # <<>>
    BY BareReads
  <2> HIDE DEF f, g, h, X
  <2>5. TextReader(h, X) /\ \A e, x : Written(f, e, x, X) /\ Head(e).k = "(" => Written(h, e, x, X)
    BY <1>1, <2>2, <2>3, <2>4, EitherText
  <2>6. ASSUME NEW part \in PartSet("bin", ty - 3) PROVE Written(h, PartText(form, ty - 3, part), part, X)
    <3>1. PICK p \in Nat : part = <<<<p>>>>
      <4>1. PartSet("bin", 1) = {<<<<p>>>> : p \in Nat}
        BY <2>0, BinarySets
      <4> QED BY <2>0, <4>1
    <3>2. PartText(form, ty - 3, part) = LineOut(<<p>>)
      <4>1. PartText(form, ty - 3, part) = ListOut(<<<<XY("-", p)>>>>)
        BY <1>3, <2>0, <3>1 DEF PartText, PointOut
      <4> DEFINE a == <<p>>
      <4>2. [i \in DOMAIN a |-> <<XY("-", a[i])>>] = <<<<XY("-", p)>>>>
        OBVIOUS
      <4>3. LineOut(a) = ListOut([i \in DOMAIN a |-> <<XY("-", a[i])>>])
        BY DEF LineOut
      <4> QED BY <4>1, <4>2, <4>3
    <3>3. <<p>> \in Seq(Nat)
      OBVIOUS
    <3>4. Head(LineOut(<<p>>)).k = "("
      BY <3>3, LineReader
    <3> QED BY <1>1, <2>5, <3>2, <3>4
  <2> QED BY <2>5, <2>6 DEF h, X
<1> QED BY <1>2, <1>3 DEF Forms

\* The text behind the type.
TextBody(form, g) ==
    IF g.ty <= 3 THEN PartText(form, g.ty, g.parts[1])
    ELSE ListOut([i \in DOMAIN g.parts |-> PartText(form, g.ty - 3, g.parts[i])])

\* The text of all parts.
LEMMA PartsTextReader ==
    ASSUME NEW form \in Forms, NEW ty \in 1..6
    PROVE  /\ TextReader(PartsOfText(form, ty), PartsSet(form, ty))
           /\ \A g : g.ty = ty /\ g.parts \in PartsSet("bin", ty) =>
                 Written(PartsOfText(form, ty), TextBody(form, g), g.parts, PartsSet(form, ty))
<1> DEFINE s == PartsOfText(form, ty)
<1>1. CASE ty <= 3
  <2> DEFINE f == PartOfText(form, ty)
             A == PartSet(form, ty)
             C == PartSet("bin", ty)
             m == [part \in A \cup C |-> <<part>>]
             B == {<<part>> : part \in A}
  <2>1. PartsSet(form, ty) = B /\ PartsSet("bin", ty) = {<<part>> : part \in C}
    BY <1>1 DEF PartsSet
  <2>2. TextReader(f, A) /\ \A part \in C : Written(f, PartText(form, ty, part), part, A)
    <3>1. ty \in 1..3
      BY <1>1
    <3> QED BY <3>1, PartTextReader
  <2> HIDE DEF A, C
  <2>3. \A in \in Input : s[in] = IF f[in].ok THEN Got(f[in].in, <<f[in].out>>) ELSE Stop
    BY <1>1 DEF PartsOfText, Then
  <2>4. \A a \in A \cup C : m[a] = <<a>> /\ (m[a] \in B => a \in A)
    <3>1. \A a \in A \cup C : m[a] = <<a>>
      OBVIOUS
    <3>2. ASSUME NEW a, <<a>> \in B PROVE a \in A
      <4>1. PICK q \in A : <<a>> = <<q>>
        BY <3>2
      <4>2. a = q
        BY <4>1
      <4> QED BY <4>2
    <3> HIDE DEF m, B
    <3> QED BY <3>1, <3>2
  <2>5. \A a \in A : m[a] \in B
    OBVIOUS
  <2> HIDE DEF f, s, m
  <2>6. Mapped(s, f, m)
    <3>1. \A in \in Input : f[in].ok => f[in].out \in A
      BY <2>2 DEF TextReader, Reader
    <3>2. \A in \in Input : f[in].ok => m[f[in].out] = <<f[in].out>>
      BY <2>4, <3>1
    <3> QED BY <2>3, <3>2 DEF Mapped
  <2>7. TextReader(s, B) /\ \A e, a : Written(f, e, a, A) /\ (m[a] \in B => a \in A) => Written(s, e, m[a], B)
    BY <2>2, <2>5, <2>6, MappedText
  <2>8. ASSUME NEW g, g.ty = ty, g.parts \in PartsSet("bin", ty) PROVE Written(s, TextBody(form, g), g.parts, B)
    <3>1. PICK part \in C : g.parts = <<part>>
      BY <2>1, <2>8
    <3>2. TextBody(form, g) = PartText(form, ty, part)
      BY <1>1, <2>8, <3>1 DEF TextBody
    <3>3. Written(f, PartText(form, ty, part), part, A) /\ (m[part] \in B => part \in A) /\ m[part] = g.parts
      BY <2>2, <2>4, <3>1
    <3>4. Written(s, PartText(form, ty, part), m[part], B)
      BY <2>7, <3>3
    <3> QED BY <3>2, <3>3, <3>4
  <2> QED BY <2>1, <2>7, <2>8 DEF s
<1>2. CASE ty > 3
  <2> DEFINE A == PartSet(form, ty - 3)
             C == PartSet("bin", ty - 3)
             f == ChildOfText(form, ty)
             B == Lists(form, A)
  <2>1. PartsSet(form, ty) = B /\ PartsSet("bin", ty) = Seq(C)
    <3>1. ~(ty <= 3)
      BY <1>2
    <3>2. PartsSet(form, ty) = B /\ PartsSet("bin", ty) = Lists("bin", C)
      BY <3>1 DEF PartsSet
    <3> HIDE DEF C
    <3> QED BY <3>2, BinarySets
  <2>2. TextReader(f, A) /\ \A part \in C : Written(f, PartText(form, ty - 3, part), part, A)
    <3>1. ty \in 4..6
      BY <1>2
    <3> QED BY <3>1, ChildTextReader
  <2>3. Same(s, ListIn(form, f))
    BY <1>2 DEF PartsOfText, Same, Then
  <2>4. \A g : g.ty = ty => TextBody(form, g) = ListOut([i \in DOMAIN g.parts |-> PartText(form, ty - 3, g.parts[i])])
    BY <1>2 DEF TextBody
  <2> HIDE DEF A, C, f, s
  <2>5. TextReader(ListIn(form, f), B)
    BY <2>2, ListText
  <2> HIDE DEF B
  <2>6. TextReader(s, B) /\ \A e, a : Written(ListIn(form, f), e, a, B) => Written(s, e, a, B)
    BY <2>3, <2>5, SameText
  <2>7. ASSUME NEW g, g.ty = ty, g.parts \in PartsSet("bin", ty) PROVE Written(s, TextBody(form, g), g.parts, B)
    <3> DEFINE xs == g.parts
               e == [i \in 1..Len(xs) |-> PartText(form, ty - 3, xs[i])]
    <3>1. xs \in Seq(C)
      BY <2>1, <2>7
    <3>2. TextBody(form, g) = ListOut([i \in DOMAIN xs |-> PartText(form, ty - 3, xs[i])])
      BY <2>4, <2>7
    <3> HIDE DEF xs
    <3>3. DOMAIN xs = 1..Len(xs)
      BY <3>1
    <3>4. TextBody(form, g) = ListOut(e)
      BY <3>2, <3>3
    <3>5. Itemized(f, e, xs, A)
      <4>1. e = [i \in 1..Len(xs) |-> e[i]]
        OBVIOUS
      <4>2. ASSUME NEW i \in 1..Len(xs) PROVE Written(f, e[i], xs[i], A)
        <5>1. xs[i] \in C /\ e[i] = PartText(form, ty - 3, xs[i])
          BY <3>1
        <5> HIDE DEF e
        <5> QED BY <2>2, <5>1
      <4> HIDE DEF e
      <4> QED BY <3>3, <4>1, <4>2 DEF Itemized
    <3> HIDE DEF e
    <3>6. Written(ListIn(form, f), ListOut(e), xs, B)
      BY <2>2, <3>1, <3>5, ListWritten DEF B
    <3>7. Written(s, ListOut(e), xs, B)
      BY <2>6, <3>6
    <3> QED BY <3>4, <3>7 DEF xs
  <2> QED BY <2>1, <2>6, <2>7 DEF s
<1> QED BY <1>1, <1>2

\* What GeomOfText reads behind the type.
TextGeom(form, ty) ==
    [in \in Input |-> LET s == PartsOfText(form, ty)[in]
                      IN  IF s.ok THEN Got(s.in, Geom(ty, s.out)) ELSE Stop]

\* The text behind a type is read as it was written,
LEMMA TextGeomReader ==
    ASSUME NEW form \in Forms, NEW ty \in 1..6
    PROVE  /\ Reader(TextGeom(form, ty), Geoms(form))
           /\ \A parts \in PartsSet("bin", ty) :
                 LET e == TextBody(form, Geom(ty, parts))
                 IN  e \in Input /\ Reads(TextGeom(form, ty), e, Geom(ty, parts), Geoms(form))
<1> DEFINE s == PartsOfText(form, ty)
           g == TextGeom(form, ty)
<1>1. /\ TextReader(s, PartsSet(form, ty))
      /\ \A k : k.ty = ty /\ k.parts \in PartsSet("bin", ty) =>
            Written(s, TextBody(form, k), k.parts, PartsSet(form, ty))
  BY PartsTextReader
<1>2. \A in \in Input : g[in] = IF s[in].ok THEN Got(s[in].in, Geom(ty, s[in].out)) ELSE Stop
  BY DEF TextGeom
<1>3. Reader(s, PartsSet(form, ty))
  BY <1>1 DEF TextReader
<1> HIDE DEF s, g
<1>4. /\ Reader(g, Geoms(form))
      /\ \A e \in Input : \A parts : Reads(s, e, parts, PartsSet(form, ty)) => Reads(g, e, Geom(ty, parts), Geoms(form))
  BY <1>2, <1>3, TypedReader
<1>5. ASSUME NEW parts \in PartsSet("bin", ty)
      PROVE  LET e == TextBody(form, Geom(ty, parts))
             IN  e \in Input /\ Reads(g, e, Geom(ty, parts), Geoms(form))
  <2>1. Geom(ty, parts).ty = ty /\ Geom(ty, parts).parts = parts
    BY DEF Geom
  <2>2. Written(s, TextBody(form, Geom(ty, parts)), parts, PartsSet(form, ty))
    BY <1>1, <2>1
  <2>3. TextBody(form, Geom(ty, parts)) \in Input /\ Reads(s, TextBody(form, Geom(ty, parts)), parts, PartsSet(form, ty))
    BY <2>2 DEF Written
  <2> QED BY <1>4, <2>3
<1> QED BY <1>4, <1>5 DEF g

----------------------------------------------------------------------------
(* WKT and GeoJSON.                                                        *)

TypeWord(ty) == [k |-> "word", o |-> "-", v |-> ty]

\* and so is the whole.
LEMMA GeomTextReader ==
    ASSUME NEW form \in Forms
    PROVE  LET g == [text \in Input |-> GeomOfText(form, text)] IN
           /\ Reader(g, Geoms(form))
           /\ \A x \in Geoms("bin") : /\ EncodeText(form, x) \in Input /\ EncodeText(form, x) # <<>>
                                      /\ Reads(g, EncodeText(form, x), x, Geoms(form))
<1> DEFINE stop == [in \in Input |-> Stop]
           f == [in \in Input |-> Take(in, "word", "-")]
           h == [ty \in Nat |-> IF ty \in 1..6 THEN TextGeom(form, ty) ELSE stop]
           B == Geoms(form)
           g == [text \in Input |-> GeomOfText(form, text)]
<1>0. Reader(f, Nat)
  BY TakeReader
<1>1. ASSUME NEW ty \in Nat PROVE Reader(h[ty], B)
  <2>1. ty \in 1..6 => Reader(TextGeom(form, ty), B)
    BY TextGeomReader
  <2>2. Reader(stop, B)
    BY StopReader
  <2>3. (ty \in 1..6 /\ h[ty] = TextGeom(form, ty)) \/ h[ty] = stop
    OBVIOUS
  <2> QED BY <2>1, <2>2, <2>3
<1>2. ASSUME NEW in \in Input
      PROVE  /\ f[in].ok => g[in] = h[f[in].out][f[in].in]
             /\ ~f[in].ok => ~g[in].ok
  <2> DEFINE r == Take(in, "word", "-")
             ty == r.out
             rest == r.in
             S(a) == PartsOfText(form, ty)[a]
  <2>1. g[in] = IF r.ok THEN IF ty \notin 1..6 THEN Stop
                             ELSE IF S(rest).ok THEN Got(S(rest).in, Geom(ty, S(rest).out)) ELSE Stop
                ELSE Stop
    BY DEF GeomOfText, Then, Geom
  <2>2. f[in] = r
    OBVIOUS
  <2>3. r.ok => rest \in Input /\ ty \in Nat
    <3> HIDE DEF f, r
    <3> QED BY <1>0, <2>2 DEF Reader
  <2>4. ASSUME r.ok PROVE h[ty][rest] = IF ty \notin 1..6 THEN Stop
                             ELSE IF S(rest).ok THEN Got(S(rest).in, Geom(ty, S(rest).out)) ELSE Stop
    <3>1. stop[rest] = Stop
      BY <2>3, <2>4
    <3>2. TextGeom(form, ty)[rest] = IF S(rest).ok THEN Got(S(rest).in, Geom(ty, S(rest).out)) ELSE Stop
      <4> HIDE DEF r, ty
      <4> QED BY <2>3, <2>4 DEF TextGeom
    <3>3. h[ty] = IF ty \in 1..6 THEN TextGeom(form, ty) ELSE stop
      <4> HIDE DEF r, stop
      <4> QED BY <2>3, <2>4
    <3> HIDE DEF stop, r, h, S, ty
    <3> QED BY <3>1, <3>2, <3>3
  <2> HIDE DEF f, r, ty, rest, h, g, S
  <2>5. r.ok => g[in] = h[ty][rest]
    BY <2>1, <2>4
  <2>6. ~r.ok => ~g[in].ok
    BY <2>1 DEF Stop
  <2> QED BY <2>2, <2>5, <2>6 DEF ty, rest
<1> HIDE DEF f, h, g, B
<1>3. Reader(g, B)
  BY <1>0, <1>1, <1>2, ThenReader
<1>4. ASSUME NEW x \in Geoms("bin")
      PROVE  EncodeText(form, x) \in Input /\ EncodeText(form, x) # <<>> /\ Reads(g, EncodeText(form, x), x, B)
  <2>1. x.ty \in 1..6 /\ x.parts \in PartsSet("bin", x.ty) /\ x = Geom(x.ty, x.parts)
    BY GeomsAre
  <2> DEFINE ty == x.ty
             e == TextBody(form, x)
             d == <<TypeWord(ty)>>
  <2>2. e \in Input /\ Reads(TextGeom(form, ty), e, x, B)
    BY <2>1, TextGeomReader DEF B
  <2>3. ty \in Nat /\ h[ty] = TextGeom(form, ty)
    BY <2>1 DEF h
  <2>4. EncodeText(form, x) = d \o e
    BY DEF EncodeText, TextBody, TypeWord
  <2> HIDE DEF ty
  <2>5. TypeWord(ty) \in Token /\ TypeWord(ty).k = "word" /\ TypeWord(ty).o = "-" /\ TypeWord(ty).v = ty
    <3>1. TypeWord(ty) \in Token
      BY <2>3, TokensAre DEF TypeWord
    <3> QED BY <3>1 DEF TypeWord
  <2>6. d \in Input /\ d # <<>> /\ Reads(f, d, ty, Nat)
    <3>1. Reads(f, d, TypeWord(ty).v, Nat)
      BY <2>5, TakeReads DEF f
    <3>2. d \in Input /\ d # <<>>
      BY <2>5, InputIs
    <3> QED BY <2>5, <3>1, <3>2
  <2> HIDE DEF d, e
  <2>7. Reads(h[ty], e, x, B) /\ (x \in B => ty \in Nat)
    BY <2>2, <2>3
  <2>8. Reads(g, d \o e, x, B)
    BY <1>2, <2>2, <2>6, <2>7, ThenReads
  <2>9. d \o e \in Input /\ d \o e # <<>>
    BY <2>2, <2>6, InputIs, HeadIs
  <2> QED BY <2>4, <2>8, <2>9
<1> QED BY <1>3, <1>4 DEF g, B

\* What a text decodes to, and what it was written of.
THEOREM TextRoundTrip ==
    ASSUME NEW form \in Forms
    PROVE  /\ \A text \in Input : DecodeText(form, text) # Refused => DecodeText(form, text) \in Geoms(form)
           /\ \A g \in Geoms("bin") :
                 LET text == EncodeText(form, g) IN
                 /\ text \in Input /\ text # <<>>
                 /\ DecodeText(form, text) # Refused => DecodeText(form, text) = g
                 /\ g \in Geoms(form) => DecodeText(form, text) = g
<1> DEFINE f == [text \in Input |-> GeomOfText(form, text)]
           B == Geoms(form)
<1>1. Reader(f, B)
  BY GeomTextReader
<1>2. \A g \in Geoms("bin") : EncodeText(form, g) \in Input /\ EncodeText(form, g) # <<>> /\ Reads(f, EncodeText(form, g), g, B)
  BY GeomTextReader
<1>3. \A text \in Input : f[text] = GeomOfText(form, text)
  OBVIOUS
<1>4. \A text \in Input : DecodeText(form, text) = IF f[text].ok /\ f[text].in = <<>> THEN f[text].out ELSE Refused
  BY DEF DecodeText, Whole
<1> HIDE DEF f
<1>5. ASSUME NEW text \in Input, DecodeText(form, text) # Refused PROVE DecodeText(form, text) \in B
  <2>1. f[text].ok /\ DecodeText(form, text) = f[text].out
    BY <1>4, <1>5
  <2> QED BY <1>1, <2>1 DEF Reader
<1>6. ASSUME NEW g \in Geoms("bin")
      PROVE  LET text == EncodeText(form, g) IN
             /\ text \in Input /\ text # <<>>
             /\ DecodeText(form, text) # Refused => DecodeText(form, text) = g
             /\ g \in B => DecodeText(form, text) = g
  <2> DEFINE text == EncodeText(form, g)
  <2>1. text \in Input /\ text # <<>> /\ Reads(f, text, g, B)
    BY <1>2
  <2> HIDE DEF text
  <2>2. text \o <<>> = text /\ <<>> \in Input
    BY <2>1, InputIs
  <2>3. /\ f[text].ok => f[text] = Got(<<>>, g)
        /\ g \in B => f[text] = Got(<<>>, g)
    <3>1. /\ f[text \o <<>>].ok => f[text \o <<>>] = Got(<<>>, g)
          /\ g \in B => f[text \o <<>>] = Got(<<>>, g)
      BY <2>1, <2>2 DEF Reads
    <3> QED BY <2>2, <3>1
  <2>4. f[text] = Got(<<>>, g) => f[text].ok /\ f[text].in = <<>> /\ f[text].out = g
    BY DEF Got
  <2>5. DecodeText(form, text) = IF f[text].ok /\ f[text].in = <<>> THEN f[text].out ELSE Refused
    BY <1>4, <2>1
  <2>6. DecodeText(form, text) # Refused => DecodeText(form, text) = g
    BY <2>3, <2>4, <2>5
  <2>7. g \in B => DecodeText(form, text) = g
    BY <2>3, <2>4, <2>5
  <2> QED BY <2>1, <2>6, <2>7 DEF text
<1> QED BY <1>5, <1>6

----------------------------------------------------------------------------
(* What is damaged, what is no encoding, what a text carries.              *)

\* What is no encoding.
LEMMA NoBytesIs ==
    NoBytes \notin Input
<1>1. Sign("refused") \notin Token
  BY DEF Sign, Token
<1>2. Len(NoBytes) = 1 /\ NoBytes[1] = Sign("refused")
  BY DEF NoBytes
<1>3. ASSUME NoBytes \in Input PROVE FALSE
  <2>1. NoBytes[1] \in Token
    BY <1>2, <1>3 DEF Input
  <2> QED BY <1>1, <1>2, <2>1
<1> QED BY <1>3

\* WKB that was cut off or added to is refused.
THEOREM WkbDamageSeen ==
    ASSUME NEW w \in Input, NEW u \in Input, Differ(w, u), DecodeWkb(w) # Refused
    PROVE  DecodeWkb(u) = Refused
<1> DEFINE f == [in \in Input |-> ReadGeom(in)]
           B == Geoms("bin")
<1>1. Reader(f, B)
  <2>1. ASSUME NEW in \in Input, f[in].ok
        PROVE  /\ f[in].in \in Input /\ f[in].out \in B
               /\ \A y \in Input : f[in \o y] = Got(f[in].in \o y, f[in].out)
    <3>1. ReadGeom(in).ok
      BY <2>1
    <3>2. \A y \in Input : in \o y \in Input
      BY InputIs
    <3> QED BY <3>1, <3>2, WkbRoundTrip
  <2> QED BY <2>1 DEF Reader
<1>2. f[w] = Got(<<>>, DecodeWkb(w)) /\ <<>> \in Input
  BY WkbRoundTrip, InputIs
<1>3. f[u] = ReadGeom(u)
  OBVIOUS
<1> HIDE DEF f
<1>4. f[u].ok => f[u].in # <<>>
  BY <1>1, <1>2, DifferRead
<1> QED BY <1>3, <1>4 DEF DecodeWkb, Whole

\* So is a text.
THEOREM TextDamageSeen ==
    ASSUME NEW form \in Forms, NEW g \in Geoms("bin"), NEW u \in Input, Differ(EncodeText(form, g), u)
    PROVE  DecodeText(form, u) = Refused
<1> DEFINE f == [text \in Input |-> GeomOfText(form, text)]
           B == Geoms(form)
           w == EncodeText(form, g)
<1>1. Reader(f, B) /\ w \in Input /\ Reads(f, w, g, B)
  BY GeomTextReader
<1>2. f[u] = GeomOfText(form, u)
  OBVIOUS
<1>3. PICK y : IsCut(w, u, y) \/ IsLonger(w, u, y)
  BY DEF Differ
<1>4. y \in Input /\ y # <<>> /\ (w = u \o y \/ u = w \o y)
  BY <1>3 DEF IsCut, IsLonger
<1> HIDE DEF f, w
<1>5. CASE u = w \o y
  <2>1. f[u].ok => f[u] = Got(y, g)
    BY <1>1, <1>4, <1>5 DEF Reads
  <2>2. f[u].ok => f[u].in # <<>>
    BY <1>4, <2>1 DEF Got
  <2> QED BY <1>2, <2>2 DEF DecodeText, Whole
<1>6. CASE w = u \o y
  <2>1. w \o <<>> = w /\ <<>> \in Input
    BY <1>1, InputIs
  <2>2. f[w].ok => f[w] = Got(<<>>, g)
    <3>1. f[w \o <<>>].ok => f[w \o <<>>] = Got(<<>>, g)
      BY <1>1, <2>1 DEF Reads
    <3> QED BY <2>1, <3>1
  <2>3. f[u].ok => f[w] = Got(f[u].in \o y, f[u].out) /\ f[u].in \in Input
    BY <1>1, <1>4, <1>6 DEF Reader
  <2>4. f[u].ok => f[u].in \o y = <<>> /\ f[u].in \in Input
    BY <2>2, <2>3 DEF Got
  <2>5. f[u].ok => FALSE
    BY <1>4, <2>4, ConcatEqualIffEmpty DEF Input
  <2> QED BY <1>2, <2>5 DEF DecodeText, Whole
<1> QED BY <1>4, <1>5, <1>6

\* A sequence of one, and one of other items.
LEMMA SingleIs ==
    ASSUME NEW T, NEW s \in Seq(T), Len(s) = 1
    PROVE  s[1] \in T /\ s = <<s[1]>>
<1>1. s[1] \in T
  OBVIOUS
<1> DEFINE u == <<s[1]>>
<1>2. u \in Seq(T) /\ Len(u) = 1 /\ u[1] = s[1]
  BY <1>1
<1> HIDE DEF u
<1>3. \A i \in 1..Len(s) : s[i] = u[i]
  BY <1>2
<1>4. s = u
  BY <1>2, <1>3, SeqEqual
<1> QED BY <1>1, <1>4 DEF u

\* A sequence whose items are of T is one over T.
LEMMA ItemsIn ==
    ASSUME NEW S, NEW T, NEW s \in Seq(S), \A i \in DOMAIN s : s[i] \in T
    PROVE  s \in Seq(T)
<1> DEFINE n == Len(s)
<1>1. n \in Nat /\ DOMAIN s = 1..n /\ s \in [1..n -> S]
  OBVIOUS
<1> HIDE DEF n
<1>2. s \in [1..n -> T]
  BY <1>1
<1> QED BY <1>1, <1>2, FunctionIsSeq

\* The geometries of the model are those the codecs carry.
LEMMA GeometryIs ==
    Geometry \subseteq Geoms("bin")
<1>1. ASSUME NEW g \in Geometry PROVE g \in Geoms("bin")
  <2>1. g.ty \in 1..6 /\ g.parts \in Seq(Seq(Seq(Nat))) /\ g = Geom(g.ty, g.parts)
    BY <1>1 DEF Geometry, Geom
  <2>2. ASSUME NEW ty \in 1..3, NEW part \in Part(ty) PROVE part \in PartSet("bin", ty)
    <3>1. part \in Seq(Seq(Nat)) /\ (ty < 3 => Len(part) = 1) /\ (ty = 1 => Len(part[1]) = 1)
      BY DEF Part
    <3>2. CASE ty = 1
      <4>1. part[1] \in Seq(Nat) /\ part = <<part[1]>>
        BY <3>1, <3>2, SingleIs
      <4>2. part[1][1] \in Nat /\ part[1] = <<part[1][1]>>
        BY <3>1, <3>2, <4>1, SingleIs
      <4>3. part = <<<<part[1][1]>>>>
        BY <4>1, <4>2
      <4>4. part \in Points("bin")
        BY <4>2, <4>3, BinarySets
      <4> QED BY <3>2, <4>4, BinarySets
    <3>3. CASE ty = 2
      <4>1. part[1] \in Seq(Nat) /\ part = <<part[1]>>
        BY <3>1, <3>3, SingleIs
      <4>4. part \in Lines("bin")
        BY <4>1, BinarySets
      <4> QED BY <3>3, <4>4, BinarySets
    <3>4. CASE ty = 3
      BY <3>1, <3>4, BinarySets
    <3> QED BY <3>2, <3>3, <3>4
  <2>3. CASE g.ty <= 3
    <3>1. Len(g.parts) = 1 /\ g.parts[1] \in Part(g.ty) /\ g.ty \in 1..3
      BY <2>1, <2>3 DEF Geometry
    <3>2. g.parts[1] \in PartSet("bin", g.ty) /\ g.parts = <<g.parts[1]>>
      BY <2>1, <2>2, <3>1, SingleIs
    <3>3. g.parts \in PartsSet("bin", g.ty)
      BY <2>3, <3>2 DEF PartsSet
    <3> QED BY <2>1, <3>3, GeomsAre
  <2>4. CASE g.ty > 3
    <3>1. ~(g.ty <= 3) /\ g.ty - 3 \in 1..3 /\ g.ty \in Int
      BY <2>1, <2>4
    <3>2. \A i \in DOMAIN g.parts : g.parts[i] \in Part(g.ty - 3)
      BY <3>1 DEF Geometry
    <3>3. \A i \in DOMAIN g.parts : g.parts[i] \in PartSet("bin", g.ty - 3)
      BY <2>2, <3>1, <3>2
    <3>4. g.parts \in Seq(PartSet("bin", g.ty - 3))
      BY <2>1, <3>3, ItemsIn
    <3>5. g.parts \in PartsSet("bin", g.ty)
      BY <3>1, <3>4, BinarySets DEF PartsSet
    <3> QED BY <2>1, <3>5, GeomsAre
  <2> QED BY <2>1, <2>3, <2>4
<1> QED BY <1>1

\* What a text carries.
LEMMA TextGeomsAre ==
    ASSUME NEW form \in Forms
    PROVE  Geoms(form) \subseteq Geoms("bin")
<1>1. Num(form) \subseteq Nat /\ \A A : Lists(form, A) \subseteq Seq(A)
  BY DEF Num, Lists
<1>2. \A A, B : A \subseteq B => Seq(A) \subseteq Seq(B)
  OBVIOUS
<1>a. \A A, B : A \subseteq B => Lists(form, A) \subseteq Seq(B)
  BY <1>1, <1>2
<1>3. \A ty \in 1..3 : PartSet(form, ty) \subseteq PartSet("bin", ty)
  <2>1. Points(form) \subseteq Points("bin")
    BY <1>1, BinarySets DEF Points
  <2>2. Lists(form, Num(form)) \subseteq Seq(Nat)
    BY <1>1, <1>a
  <2>3. Lines(form) \subseteq Lines("bin")
    BY <2>2, BinarySets DEF Lines
  <2>4. Lists(form, Lists(form, Num(form))) \subseteq Seq(Seq(Nat))
    BY <2>2, <1>a
  <2>5. \A ty \in 1..3 : PartSet(form, ty) = IF ty = 1 THEN Points(form) ELSE IF ty = 2 THEN Lines(form)
                                             ELSE Lists(form, Lists(form, Num(form)))
    BY DEF PartSet
  <2> QED BY <2>1, <2>3, <2>4, <2>5, BinarySets
<1>4. \A ty \in 1..6 : PartsSet(form, ty) \subseteq PartsSet("bin", ty)
  <2>1. ASSUME NEW ty \in 1..6, ty <= 3 PROVE PartsSet(form, ty) \subseteq PartsSet("bin", ty)
    <3>1. ty \in 1..3
      BY <2>1
    <3> QED BY <1>3, <2>1, <3>1 DEF PartsSet
  <2>2. ASSUME NEW ty \in 1..6, ~(ty <= 3) PROVE PartsSet(form, ty) \subseteq PartsSet("bin", ty)
    <3>1. ty - 3 \in 1..3
      BY <2>2
    <3>2. Lists(form, PartSet(form, ty - 3)) \subseteq Seq(PartSet("bin", ty - 3))
      BY <1>3, <1>a, <3>1
    <3> QED BY <2>2, <3>2, BinarySets DEF PartsSet
  <2> QED BY <2>1, <2>2
<1>5. ASSUME NEW g \in Geoms(form) PROVE g \in Geoms("bin")
  <2>1. g.ty \in 1..6 /\ g.parts \in PartsSet(form, g.ty) /\ g = Geom(g.ty, g.parts)
    BY GeomsAre
  <2>2. g.parts \in PartsSet("bin", g.ty)
    BY <1>4, <2>1
  <2> QED BY <2>1, <2>2, GeomsAre
<1> QED BY <1>5

\* The points of a geometry.
LEMMA CoordsAre ==
    ASSUME NEW g, NEW x
    PROVE  x \in Coords(g) <=> \E p \in DOMAIN g.parts : \E r \in DOMAIN g.parts[p] :
                                   \E i \in DOMAIN g.parts[p][r] : x = g.parts[p][r][i]
<1>1. \A s : x \in ToSet(s) <=> \E i \in DOMAIN s : x = s[i]
  BY DEF ToSet
<1>2. x \in Coords(g) <=> \E p \in DOMAIN g.parts : \E r \in DOMAIN g.parts[p] : x \in ToSet(g.parts[p][r])
  BY DEF Coords
<1> QED BY <1>1, <1>2

\* The parts of a geometry are sequences of sequences of points.
LEMMA BinPart ==
    ASSUME NEW ty \in 1..3, NEW part \in PartSet("bin", ty)
    PROVE  /\ part \in Seq(Seq(Nat))
           /\ ty = 1 => part[1][1] \in Nat /\ part = <<<<part[1][1]>>>> /\ 1 \in DOMAIN part /\ 1 \in DOMAIN part[1]
           /\ ty = 2 => part[1] \in Seq(Nat) /\ part = <<part[1]>> /\ 1 \in DOMAIN part
<1>1. CASE ty = 1
  <2>1. part \in {<<<<p>>>> : p \in Nat}
    BY <1>1, BinarySets
  <2>2. PICK p \in Nat : part = <<<<p>>>>
    BY <2>1
  <2> QED BY <1>1, <2>2
<1>2. CASE ty = 2
  <2>1. part \in {<<pts>> : pts \in Seq(Nat)}
    BY <1>2, BinarySets
  <2>2. PICK pts \in Seq(Nat) : part = <<pts>>
    BY <2>1
  <2> QED BY <1>2, <2>2
<1>3. CASE ty = 3
  BY <1>3, BinarySets
<1> QED BY <1>1, <1>2, <1>3

\* The parts of a geometry by its type.
LEMMA BinParts ==
    ASSUME NEW g \in Geoms("bin")
    PROVE  /\ g.ty \in 1..6 /\ g = Geom(g.ty, g.parts)
           /\ g.ty <= 3 => g.parts[1] \in PartSet("bin", g.ty) /\ g.parts = <<g.parts[1]>>
           /\ g.ty > 3 => g.parts \in Seq(PartSet("bin", g.ty - 3))
           /\ g.parts \in Seq(Seq(Seq(Nat)))
<1>1. g.ty \in 1..6 /\ g.parts \in PartsSet("bin", g.ty) /\ g = Geom(g.ty, g.parts)
  BY GeomsAre
<1>2. CASE g.ty <= 3
  <2>1. PICK part \in PartSet("bin", g.ty) : g.parts = <<part>>
    BY <1>1, <1>2 DEF PartsSet
  <2>2. g.ty \in 1..3
    BY <1>1, <1>2
  <2>3. part \in Seq(Seq(Nat))
    BY <2>2, BinPart
  <2> QED BY <1>1, <1>2, <2>1, <2>3
<1>3. CASE g.ty > 3
  <2>1. g.ty - 3 \in 1..3 /\ ~(g.ty <= 3)
    BY <1>1, <1>3
  <2>2. g.parts \in Seq(PartSet("bin", g.ty - 3))
    BY <1>1, <2>1, BinarySets DEF PartsSet
  <2>3. PartSet("bin", g.ty - 3) \subseteq Seq(Seq(Nat))
    BY <2>1, BinPart
  <2>4. g.parts \in Seq(Seq(Seq(Nat)))
    BY <2>2, <2>3
  <2> QED BY <1>1, <1>3, <2>1, <2>2, <2>4
<1>4. g.ty <= 3 \/ g.ty > 3
  BY <1>1
<1> QED BY <1>2, <1>3, <1>4

\* A part without an empty point, and in WKT without an empty list.
Full(form, part) ==
    /\ \A r \in DOMAIN part : \A i \in DOMAIN part[r] : part[r][i] # 0
    /\ form = "wkt" => part # <<>> /\ \A r \in DOMAIN part : part[r] # <<>>

\* A text carries a part without an empty one.
LEMMA FullPart ==
    ASSUME NEW form \in Forms, NEW ty \in 1..3, NEW part \in PartSet("bin", ty), Full(form, part)
    PROVE  part \in PartSet(form, ty)
<1>0. Num(form) = Nat \ {0} /\ \A A, s : s \in Lists(form, A) <=> s \in Seq(A) /\ (form = "wkt" => s # <<>>)
  BY DEF Num, Lists, Forms
<1>1. CASE ty = 1
  <2>1. part[1][1] \in Nat /\ part = <<<<part[1][1]>>>> /\ 1 \in DOMAIN part /\ 1 \in DOMAIN part[1]
    BY <1>1, BinPart
  <2>2. part[1][1] \in Num(form)
    BY <1>0, <2>1 DEF Full
  <2>3. part \in Points(form)
    BY <2>1, <2>2 DEF Points
  <2> QED BY <1>1, <2>3 DEF PartSet
<1>a. ASSUME NEW s \in Seq(Nat), \A i \in DOMAIN s : s[i] # 0, form = "wkt" => s # <<>>
      PROVE  s \in Lists(form, Num(form))
  <2>1. \A i \in DOMAIN s : s[i] \in Num(form)
    BY <1>0, <1>a
  <2>2. s \in Seq(Num(form))
    BY <2>1, ItemsIn
  <2> QED BY <1>0, <1>a, <2>2
<1>2. CASE ty = 2
  <2>1. part[1] \in Seq(Nat) /\ part = <<part[1]>> /\ 1 \in DOMAIN part
    BY <1>2, BinPart
  <2>2. part[1] \in Lists(form, Num(form))
    BY <1>a, <2>1 DEF Full
  <2>3. part \in Lines(form)
    BY <2>1, <2>2 DEF Lines
  <2> QED BY <1>2, <2>3 DEF PartSet
<1>3. CASE ty = 3
  <2>1. part \in Seq(Seq(Nat))
    BY BinPart
  <2>2. ASSUME NEW r \in DOMAIN part PROVE part[r] \in Lists(form, Num(form))
    <3>1. part[r] \in Seq(Nat)
      BY <2>1
    <3> QED BY <1>a, <3>1 DEF Full
  <2>3. part \in Seq(Lists(form, Num(form)))
    BY <2>1, <2>2, ItemsIn
  <2>4. part \in Lists(form, Lists(form, Num(form)))
    BY <1>0, <2>3 DEF Full
  <2> QED BY <1>3, <2>4 DEF PartSet
<1> QED BY <1>1, <1>2, <1>3

\* So is a geometry that a text carries.
LEMMA FullGeom ==
    ASSUME NEW form \in Forms, NEW g \in Geoms("bin"),
           \A p \in DOMAIN g.parts : Full(form, g.parts[p]), form = "wkt" => g.parts # <<>>
    PROVE  g \in Geoms(form)
<1>1. g.ty \in 1..6 /\ g = Geom(g.ty, g.parts)
  BY BinParts
<1>2. CASE g.ty <= 3
  <2>1. g.parts[1] \in PartSet("bin", g.ty) /\ g.parts = <<g.parts[1]>> /\ g.ty \in 1..3
    BY <1>1, <1>2, BinParts
  <2>2. 1 \in DOMAIN g.parts
    BY <2>1
  <2>3. g.parts[1] \in PartSet(form, g.ty)
    BY <2>1, <2>2, FullPart
  <2>4. g.parts \in PartsSet(form, g.ty)
    BY <1>2, <2>1, <2>3 DEF PartsSet
  <2> QED BY <1>1, <2>4, GeomsAre
<1>3. CASE g.ty > 3
  <2>1. g.parts \in Seq(PartSet("bin", g.ty - 3)) /\ g.ty - 3 \in 1..3 /\ ~(g.ty <= 3)
    BY <1>1, <1>3, BinParts
  <2>2. ASSUME NEW p \in DOMAIN g.parts PROVE g.parts[p] \in PartSet(form, g.ty - 3)
    <3>1. g.parts[p] \in PartSet("bin", g.ty - 3)
      BY <2>1
    <3> QED BY <2>1, <3>1, FullPart
  <2>3. g.parts \in Seq(PartSet(form, g.ty - 3))
    BY <2>1, <2>2, ItemsIn
  <2>4. g.parts \in Lists(form, PartSet(form, g.ty - 3))
    BY <2>3 DEF Lists
  <2>5. g.parts \in PartsSet(form, g.ty)
    BY <2>1, <2>4 DEF PartsSet
  <2> QED BY <1>1, <2>5, GeomsAre
<1>4. g.ty <= 3 \/ g.ty > 3
  BY <1>1
<1> QED BY <1>2, <1>3, <1>4

----------------------------------------------------------------------------
(* Shapefiles.                                                             *)

\* A list that flattening keeps the items of.
Among(x, s) == \E i \in DOMAIN s : s[i] = x

\* What one of two lists has their join has.
LEMMA AmongBoth ==
    ASSUME NEW T, NEW a \in Seq(T), NEW b \in Seq(T), NEW x, Among(x, a) \/ Among(x, b)
    PROVE  Among(x, a \o b)
<1> DEFINE n == Len(a)
           m == Len(b)
           r == a \o b
<1>1. n \in Nat /\ m \in Nat /\ DOMAIN a = 1..n /\ DOMAIN b = 1..m
  OBVIOUS
<1>2. r \in Seq(T) /\ Len(r) = n + m /\ \A i \in 1..(n + m) : r[i] = IF i <= n THEN a[i] ELSE b[i - n]
  BY ConcatProperties
<1>3. DOMAIN r = 1..(n + m)
  BY <1>2
<1> HIDE DEF n, m, r
<1>4. CASE Among(x, a)
  <2>1. PICK i \in 1..n : a[i] = x
    BY <1>1, <1>4 DEF Among
  <2>2. i \in 1..(n + m) /\ i <= n
    BY <1>1, <2>1
  <2>3. r[i] = x
    BY <1>2, <2>1, <2>2
  <2>4. Among(x, r)
    BY <1>3, <2>2, <2>3 DEF Among
  <2> QED BY <2>4 DEF r
<1>5. CASE Among(x, b)
  <2>1. PICK i \in 1..m : b[i] = x
    BY <1>1, <1>5 DEF Among
  <2>2. i + n \in 1..(n + m) /\ ~(i + n <= n) /\ (i + n) - n = i
    BY <1>1, <2>1
  <2>3. r[i + n] = x
    BY <1>2, <2>1, <2>2
  <2>4. Among(x, r)
    BY <1>3, <2>2, <2>3 DEF Among
  <2> QED BY <2>4 DEF r
<1> QED BY <1>4, <1>5

\* What one of the lists has the flattened list has.
LEMMA FlattenHas ==
    ASSUME NEW T, NEW s \in Seq(Seq(T))
    PROVE  /\ FlattenSeq(s) \in Seq(T)
           /\ \A j \in DOMAIN s : \A x : Among(x, s[j]) => Among(x, FlattenSeq(s))
<1> DEFINE n == Len(s)
<1>1. n \in Nat /\ DOMAIN s = 1..n /\ \A i \in 1..n : s[i] \in Seq(T)
  OBVIOUS
<1>2. PICK P : Flattens(P, s, T, n)
  BY FlattenIs
<1> HIDE DEF n
<1>3. P \in [0..n -> Seq(T)] /\ P[0] = <<>> /\ (\A i \in 1..n : P[i] = P[i - 1] \o s[i]) /\ FlattenSeq(s) = P[n]
  BY <1>2 DEF Flattens
<1>4. ASSUME NEW j \in 1..n, NEW x, Among(x, s[j]) PROVE Among(x, P[n])
  <2> DEFINE H == {i \in Nat : j <= i /\ i <= n => Among(x, P[i])}
  <2>1. 0 \in H
    BY <1>1
  <2>2. ASSUME NEW i \in Nat, i \in H PROVE i + 1 \in H
    <3> SUFFICES ASSUME j <= i + 1, i + 1 <= n PROVE Among(x, P[i + 1])
      OBVIOUS
    <3>1. i + 1 \in 1..n /\ (i + 1) - 1 = i /\ i \in 0..n /\ i <= n /\ (j <= i \/ j = i + 1)
      BY <1>1
    <3>2. P[i] \in Seq(T) /\ s[i + 1] \in Seq(T) /\ P[i + 1] = P[i] \o s[i + 1]
      BY <1>1, <1>3, <3>1
    <3>3. Among(x, P[i]) \/ Among(x, s[i + 1])
      BY <1>4, <2>2, <3>1
    <3>4. Among(x, P[i] \o s[i + 1])
      BY <3>2, <3>3, AmongBoth
    <3> QED BY <3>2, <3>4
  <2> HIDE DEF H
  <2>3. \A i \in Nat : i \in H
    BY <2>1, <2>2, SetInduction
  <2> QED BY <1>1, <2>3 DEF H
<1>5. P[n] \in Seq(T)
  BY <1>1, <1>3
<1> QED BY <1>1, <1>3, <1>4, <1>5

\* Flattening one list gives the list.
LEMMA FlattenOne ==
    ASSUME NEW T, NEW part \in Seq(T)
    PROVE  FlattenSeq(<<part>>) = part
<1> DEFINE s == <<part>>
<1>1. s \in Seq(Seq(T)) /\ 1 = Len(s) /\ s[1] = part
  OBVIOUS
<1> HIDE DEF s
<1>2. PICK P : Flattens(P, s, T, 1)
  BY <1>1, FlattenIs
<1>3. P[0] = <<>> /\ (\A i \in 1..1 : \A k : k = i - 1 => P[i] = P[k] \o s[i]) /\ FlattenSeq(s) = P[1]
  BY <1>2 DEF Flattens
<1>4. 0 = 1 - 1 /\ 1 \in 1..1
  OBVIOUS
<1>5. P[1] = P[0] \o s[1]
  BY <1>3, <1>4
<1>6. <<>> \o part = part
  OBVIOUS
<1> QED BY <1>1, <1>3, <1>5, <1>6 DEF s

\* A shapefile keeps a geometry but for the parts of a MultiPolygon and the
\* type of a MultiLineString of one.
LEMMA ShapeIs ==
    ASSUME NEW g \in Geoms("bin")
    PROVE  LET h == ThroughShape(g) IN
           /\ h \in Geoms("bin") /\ ThroughShape(h) = h
           /\ g.ty \in {1, 4} => h = g
           /\ g.ty = 2 => h = g
           /\ g.ty = 5 => (h.ty = 2 \/ h = g) /\ (Len(g.parts) # 1 => h = g)
           /\ g.ty = 3 => h = g
           /\ g.ty = 6 => h.ty = 3
           /\ ShapeWritable(g) => ShapeWritable(h)
<1> DEFINE h == ThroughShape(g)
<1>1. /\ g.ty \in 1..6 /\ g = Geom(g.ty, g.parts)
      /\ g.ty <= 3 => g.parts[1] \in PartSet("bin", g.ty) /\ g.parts = <<g.parts[1]>>
      /\ g.ty > 3 => g.parts \in Seq(PartSet("bin", g.ty - 3))
      /\ g.parts \in Seq(Seq(Seq(Nat)))
  BY BinParts
<1>2. \A ty, parts : Geom(ty, parts).ty = ty /\ Geom(ty, parts).parts = parts
  BY DEF Geom
<1>3. \A k : k.ty \in {1, 4} => ThroughShape(k) = k
  BY DEF ThroughShape
<1>4. \A ty, parts : ty \in {2, 5} => ThroughShape(Geom(ty, parts)) = IF Len(parts) = 1 THEN Geom(2, parts) ELSE Geom(5, parts)
  BY DEF ThroughShape, Geom
<1>5. \A ty, parts : ty \in {3, 6} => ThroughShape(Geom(ty, parts)) = Geom(3, <<FlattenSeq(parts)>>)
  BY DEF ThroughShape, Geom
<1> HIDE DEF h
<1>6. CASE g.ty \in {1, 4}
  <2>1. h = g
    BY <1>3, <1>6 DEF h
  <2> QED BY <1>6, <2>1 DEF h
<1>7. CASE g.ty \in {2, 5} /\ Len(g.parts) = 1
  <2>1. h = Geom(2, g.parts)
    BY <1>1, <1>4, <1>7 DEF h
  <2>2. ThroughShape(h) = h
    BY <1>4, <1>7, <2>1
  <2>3. h \in Geoms("bin")
    <3>1. CASE g.ty = 2
      BY <1>1, <2>1, <3>1
    <3>2. CASE g.ty = 5
      <4>1. g.parts \in Seq(PartSet("bin", 2))
        BY <1>1, <3>2
      <4>2. g.parts[1] \in PartSet("bin", 2) /\ g.parts = <<g.parts[1]>>
        BY <1>7, <4>1, SingleIs
      <4>3. g.parts \in PartsSet("bin", 2)
        BY <4>2 DEF PartsSet
      <4> QED BY <2>1, <4>3, GeomsAre
    <3> QED BY <1>7, <3>1, <3>2
  <2>4. Coords(h) = Coords(g) /\ h.parts = g.parts /\ h.ty = 2
    BY <1>2, <2>1 DEF Coords
  <2>5. ShapeWritable(g) => ShapeWritable(h)
    BY <1>7, <2>4 DEF ShapeWritable
  <2>6. g.ty = 2 => h = g
    BY <1>1, <2>1
  <2> QED BY <1>7, <2>2, <2>3, <2>4, <2>5, <2>6 DEF h
<1>8. CASE g.ty \in {2, 5} /\ Len(g.parts) # 1
  <2>1. g.ty = 5
    <3>1. g.ty = 2 => g.parts = <<g.parts[1]>>
      BY <1>1
    <3> QED BY <1>8, <3>1
  <2>2. h = g
    BY <1>1, <1>4, <1>8, <2>1 DEF h
  <2> QED BY <2>1, <2>2 DEF h
<1>9. CASE g.ty \in {3, 6}
  <2> DEFINE part == FlattenSeq(g.parts)
             S == Seq(Nat)
  <2>1. h = Geom(3, <<part>>)
    BY <1>1, <1>5, <1>9 DEF h
  <2>2. /\ part \in Seq(S)
        /\ \A j \in DOMAIN g.parts : \A x : Among(x, g.parts[j]) => Among(x, part)
    <3> HIDE DEF S
    <3>1. g.parts \in Seq(Seq(S))
      BY <1>1 DEF S
    <3> QED BY <3>1, FlattenHas
  <2> HIDE DEF part
  <2>3. h \in Geoms("bin")
    <3>1. part \in PartSet("bin", 3)
      BY <2>2, BinarySets
    <3>2. <<part>> \in PartsSet("bin", 3)
      BY <3>1 DEF PartsSet
    <3> QED BY <2>1, <3>2, GeomsAre
  <2>4. ThroughShape(h) = h
    <3>1. FlattenSeq(<<part>>) = part
      BY <2>2, FlattenOne
    <3> QED BY <1>5, <2>1, <3>1
  <2>5. g.ty = 3 => h = g
    <3> SUFFICES ASSUME g.ty = 3 PROVE h = g
      OBVIOUS
    <3>1. g.parts = <<g.parts[1]>> /\ g.parts[1] \in Seq(S)
      <4>1. g.parts[1] \in PartSet("bin", 3) /\ g.parts = <<g.parts[1]>>
        BY <1>1
      <4> QED BY <4>1, BinPart
    <3>2. FlattenSeq(<<g.parts[1]>>) = g.parts[1]
      BY <3>1, FlattenOne
    <3>3. part = g.parts[1]
      BY <3>1, <3>2 DEF part
    <3> QED BY <1>1, <2>1, <3>1, <3>3
  <2>6. h.ty = 3 /\ h.parts = <<part>>
    BY <1>2, <2>1
  <2>7. ASSUME ShapeWritable(g) PROVE ShapeWritable(h)
    <3>1. PICK x : x \in Coords(g)
      BY <2>7 DEF ShapeWritable
    <3>2. PICK p \in DOMAIN g.parts : \E r \in DOMAIN g.parts[p] : \E i \in DOMAIN g.parts[p][r] : x = g.parts[p][r][i]
      BY <3>1, CoordsAre
    <3>3. PICK r \in DOMAIN g.parts[p] : \E i \in DOMAIN g.parts[p][r] : x = g.parts[p][r][i]
      BY <3>2
    <3>4. PICK i \in DOMAIN g.parts[p][r] : x = g.parts[p][r][i]
      BY <3>3
    <3>5. Among(g.parts[p][r], g.parts[p])
      BY DEF Among
    <3>6. Among(g.parts[p][r], part)
      BY <2>2, <3>5
    <3>7. PICK j \in DOMAIN part : part[j] = g.parts[p][r]
      BY <3>6 DEF Among
    <3>8. 1 \in DOMAIN h.parts /\ h.parts[1] = part
      BY <2>6
    <3>9. x \in Coords(h)
      <4>1. j \in DOMAIN h.parts[1] /\ i \in DOMAIN h.parts[1][j] /\ x = h.parts[1][j][i]
        BY <3>4, <3>7, <3>8
      <4> QED BY <3>8, <4>1, CoordsAre
    <3> QED BY <2>6, <3>9 DEF ShapeWritable
  <2> QED BY <1>9, <2>3, <2>4, <2>5, <2>6, <2>7 DEF h
<1>10. g.ty \in {1, 4} \/ g.ty \in {2, 5} \/ g.ty \in {3, 6}
  BY <1>1
<1> QED BY <1>6, <1>7, <1>8, <1>9, <1>10
==============================================================================
