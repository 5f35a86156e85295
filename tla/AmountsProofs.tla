---------------------------- MODULE AmountsProofs ----------------------------
(***************************************************************************)
(* The invariants of MCAmounts for prices of any length and transactions of *)
(* any number of logs.                                                      *)
(*                                                                         *)
(* On the side of the prices everything follows from two facts about the    *)
(* digits: Number of a concatenation (NumberConcat), and how much the       *)
(* digits that the slice cuts off can be worth (NumberBelow).               *)
(***************************************************************************)
EXTENDS MCAmounts, TransferLogsProofs

-----------------------------------------------------------------------------
(* Arithmetic. *)

LEMMA TimesType ==
  ASSUME NEW a \in Nat, NEW b \in Nat
  PROVE  a * b \in Nat
OBVIOUS

LEMMA TimesPositive ==
  ASSUME NEW a \in Nat \ {0}, NEW b \in Nat \ {0}
  PROVE  a * b \in Nat \ {0}
OBVIOUS

LEMMA TimesCancel ==
  ASSUME NEW a \in Nat, NEW b \in Nat, NEW k \in Nat \ {0}, a * k = b * k
  PROVE  a = b
OBVIOUS

LEMMA TimesSwap ==
  ASSUME NEW a \in Nat, NEW b \in Nat, NEW c \in Nat
  PROVE  /\ (a * b) * c = (a * c) * b
         /\ a * (b * c) = (a * b) * c
         /\ (a + b) * c = a * c + b * c
OBVIOUS

LEMMA DivIs ==
  ASSUME NEW q \in Nat, NEW u \in Nat \ {0}, NEW r \in Nat, r < u
  PROVE  (q * u + r) \div u = q
OBVIOUS

LEMMA DivMod ==
  ASSUME NEW n \in Nat, NEW u \in Nat \ {0}
  PROVE  /\ n \div u \in Nat /\ n % u \in 0 .. u - 1
         /\ n = ((n \div u) * u) + (n % u)
OBVIOUS

LEMMA DivDiv ==
  ASSUME NEW n \in Nat, NEW p \in Nat \ {0}
  PROVE  n \div (10 * p) = (n \div p) \div 10
OBVIOUS

(* One more digit. *)
LEMMA Shifted ==
  ASSUME NEW a \in Nat, NEW p \in Nat, NEW b \in Nat, NEW d \in Nat
  PROVE  10 * (a * p + b) + d = a * (10 * p) + (10 * b + d)
<1>1. 10 * (a * p + b) = 10 * (a * p) + 10 * b
  BY TimesType
<1>2. 10 * (a * p) = a * (10 * p)
  OBVIOUS
<1>3. /\ a * p \in Nat /\ 10 * (a * p) \in Nat /\ a * (10 * p) \in Nat
  BY TimesType
<1> QED BY <1>1, <1>2, <1>3

(* Ten to the n. *)
LEMMA Pow10Is ==
  /\ Pow10 \in [Nat -> Nat \ {0}]
  /\ Pow10[0] = 1
  /\ \A n \in Nat : Pow10[n + 1] = 10 * Pow10[n]
<1> DEFINE step == [x \in Nat \X Nat |-> 10 * x[2]]
           Equation(g) == g = [n \in Nat |-> IF n = 0 THEN 1 ELSE 10 * g[n - 1]]
<1>1. \A i \in Nat, x \in Nat : step[<<i, x>>] = 10 * x
  OBVIOUS
<1>2. \A i \in Nat, x \in Nat : step[<<i, x>>] \in Nat
  <2> SUFFICES ASSUME NEW i \in Nat, NEW x \in Nat PROVE step[<<i, x>>] \in Nat
    OBVIOUS
  <2> HIDE DEF step
  <2>1. step[<<i, x>>] = 10 * x
    BY <1>1
  <2> QED BY <2>1
<1> HIDE DEF step
<1>3. PICK f \in [Nat -> Nat] : FollowsForever(f, 1, step)
  BY <1>2, Recursion
<1>4. \A i \in Nat : f[i + 1] = 10 * f[i]
  <2> TAKE i \in Nat
  <2>1. f[i] \in Nat /\ i + 1 \in Nat
    OBVIOUS
  <2> QED BY <1>1, <1>3, <2>1 DEF FollowsForever
<1>5. Equation(f)
  <2> SUFFICES ASSUME NEW n \in Nat PROVE f[n] = IF n = 0 THEN 1 ELSE 10 * f[n - 1]
    OBVIOUS
  <2>1. CASE n = 0
    BY <1>3, <2>1 DEF FollowsForever
  <2>2. CASE n # 0
    <3>1. n - 1 \in Nat /\ (n - 1) + 1 = n
      BY <2>2
    <3> QED BY <1>4, <2>2, <3>1
  <2> QED BY <2>1, <2>2
<1>6. Equation(Pow10)
  BY <1>5 DEF Pow10
<1>7. Pow10[0] = 1 /\ \A n \in Nat : Pow10[n + 1] = 10 * Pow10[n]
  <2>1. Pow10[0] = 1
    BY <1>6
  <2>2. ASSUME NEW n \in Nat PROVE Pow10[n + 1] = 10 * Pow10[n]
    <3>1. n + 1 \in Nat /\ n + 1 # 0 /\ (n + 1) - 1 = n
      OBVIOUS
    <3> QED BY <1>6, <3>1
  <2> QED BY <2>1, <2>2
<1> DEFINE S == {n \in Nat : Pow10[n] \in Nat \ {0}}
<1>8. 0 \in S
  BY <1>7
<1>9. ASSUME NEW n \in Nat, n \in S PROVE n + 1 \in S
  BY <1>7, <1>9
<1>10. Nat \subseteq S
  <2> HIDE DEF S
  <2> QED BY <1>8, <1>9, SetInduction
<1>11. Pow10 = [n \in Nat |-> Pow10[n]]
  BY <1>6
<1> QED BY <1>7, <1>10, <1>11

LEMMA Pow10Type ==
  ASSUME NEW n \in Nat
  PROVE  Pow10[n] \in Nat \ {0}
BY Pow10Is

LEMMA Pow10Plus ==
  ASSUME NEW m \in Nat, NEW n \in Nat
  PROVE  Pow10[m + n] = Pow10[m] * Pow10[n]
<1> DEFINE S == {k \in Nat : Pow10[m + k] = Pow10[m] * Pow10[k]}
<1>1. 0 \in S
  <2>1. Pow10[m] \in Nat /\ m + 0 = m
    BY Pow10Type
  <2> QED BY <2>1, Pow10Is
<1>2. ASSUME NEW k \in Nat, k \in S PROVE k + 1 \in S
  <2>1. Pow10[m] \in Nat /\ Pow10[k] \in Nat /\ m + (k + 1) = (m + k) + 1 /\ m + k \in Nat
    BY Pow10Type
  <2>2. Pow10[(m + k) + 1] = 10 * Pow10[m + k] /\ Pow10[k + 1] = 10 * Pow10[k]
    BY <2>1, Pow10Is
  <2>3. Pow10[m + k] = Pow10[m] * Pow10[k]
    BY <1>2
  <2>4. 10 * (Pow10[m] * Pow10[k]) = Pow10[m] * (10 * Pow10[k])
    BY <2>1
  <2> QED BY <2>1, <2>2, <2>3, <2>4
<1>3. Nat \subseteq S
  <2> HIDE DEF S
  <2> QED BY <1>1, <1>2, SetInduction
<1> QED BY <1>3

-----------------------------------------------------------------------------
(* Digits. *)

(* "f" is the number that each prefix of the digits spells. *)
Reads(f, digits) ==
  /\ f \in [0 .. Len(digits) -> Nat]
  /\ f[0] = 0
  /\ \A i \in 1 .. Len(digits) : f[i] = 10 * f[i - 1] + digits[i]

LEMMA NumberIs ==
  ASSUME NEW digits \in Seq(Nat), NEW f, Reads(f, digits)
  PROVE  Number(digits) = f[Len(digits)]
<1> DEFINE n == Len(digits)
           Equation(g) == g = [i \in 0 .. n |->
                                 IF i = 0 THEN 0 ELSE 10 * g[i - 1] + digits[i]]
           c == CHOOSE g : Equation(g)
<1>1. n \in Nat
  OBVIOUS
<1>2. Equation(f)
  <2>1. ASSUME NEW i \in 0 .. n PROVE f[i] = IF i = 0 THEN 0 ELSE 10 * f[i - 1] + digits[i]
    <3>1. CASE i = 0
      BY <3>1 DEF Reads
    <3>2. CASE i # 0
      <4>1. i \in 1 .. n
        BY <1>1, <3>2
      <4> QED BY <3>2, <4>1 DEF Reads
    <3> QED BY <3>1, <3>2
  <2>2. f = [i \in 0 .. n |-> f[i]]
    BY DEF Reads
  <2> QED BY <2>1, <2>2
<1>3. Equation(c)
  BY <1>2
<1> HIDE DEF c
<1> DEFINE S == {i \in Nat : i <= n => c[i] = f[i]}
<1>4. 0 \in S
  BY <1>1, <1>3 DEF Reads
<1>5. ASSUME NEW i \in Nat, i \in S PROVE i + 1 \in S
  <2> SUFFICES ASSUME i + 1 <= n PROVE c[i + 1] = f[i + 1]
    OBVIOUS
  <2>1. i + 1 \in 1 .. n /\ i + 1 \in 0 .. n /\ i + 1 # 0 /\ (i + 1) - 1 = i
    BY <1>1
  <2>2. c[i + 1] = 10 * c[i] + digits[i + 1]
    BY <1>3, <2>1
  <2>3. f[i + 1] = 10 * f[i] + digits[i + 1]
    BY <2>1 DEF Reads
  <2>4. c[i] = f[i]
    BY <1>1, <1>5, <2>1
  <2> QED BY <2>2, <2>3, <2>4
<1>6. Nat \subseteq S
  <2> HIDE DEF S
  <2> QED BY <1>4, <1>5, SetInduction
<1>7. Number(digits) = c[n]
  BY DEF Number, c
<1> QED BY <1>1, <1>6, <1>7

LEMMA SomeNumber ==
  ASSUME NEW digits \in Seq(Nat)
  PROVE  \E f : Reads(f, digits)
<1> DEFINE n == Len(digits)
           step == [x \in Nat \X Nat |->
                      IF x[1] \in 1 .. n THEN 10 * x[2] + digits[x[1]] ELSE x[2]]
<1>1. n \in Nat
  OBVIOUS
<1>2. \A i \in Nat, x \in Nat :
        step[<<i, x>>] = IF i \in 1 .. n THEN 10 * x + digits[i] ELSE x
  OBVIOUS
<1>3. \A i \in Nat, x \in Nat : step[<<i, x>>] \in Nat
  <2> SUFFICES ASSUME NEW i \in Nat, NEW x \in Nat PROVE step[<<i, x>>] \in Nat
    OBVIOUS
  <2>1. i \in 1 .. n => digits[i] \in Nat
    OBVIOUS
  <2> HIDE DEF step
  <2>2. step[<<i, x>>] = IF i \in 1 .. n THEN 10 * x + digits[i] ELSE x
    BY <1>2
  <2> QED BY <2>1, <2>2
<1> HIDE DEF step
<1>4. PICK f \in [0 .. n -> Nat] : Follows(f, 0, step, n)
  BY <1>1, <1>3, SomeSequence
<1>5. ASSUME NEW i \in 1 .. n PROVE f[i] = 10 * f[i - 1] + digits[i]
  <2>1. i - 1 \in 0 .. n - 1 /\ i - 1 \in 0 .. n /\ (i - 1) + 1 = i /\ i \in Nat
    BY <1>1
  <2>2. f[i - 1] \in Nat /\ f[i] = step[<<i, f[i - 1]>>]
    BY <1>4, <2>1 DEF Follows
  <2> QED BY <1>2, <2>1, <2>2
<1> QED BY <1>4, <1>5 DEF Reads, Follows

LEMMA NumberType ==
  ASSUME NEW digits \in Seq(Nat)
  PROVE  Number(digits) \in Nat
<1>1. PICK f : Reads(f, digits)
  BY SomeNumber
<1>2. Len(digits) \in 0 .. Len(digits)
  OBVIOUS
<1> QED BY <1>1, <1>2, NumberIs DEF Reads

(* One digit after the other: what is in front is worth a power of ten.     *)
LEMMA NumberConcat ==
  ASSUME NEW s \in Seq(Nat), NEW t \in Seq(Nat)
  PROVE  Number(s \o t) = Number(s) * Pow10[Len(t)] + Number(t)
<1> DEFINE m == Len(s)
           n == Len(t)
           st == s \o t
<1>1. /\ st \in Seq(Nat) /\ Len(st) = m + n /\ m \in Nat /\ n \in Nat
      /\ \A i \in 1 .. m : st[i] = s[i]
      /\ \A i \in 1 .. n : st[m + i] = t[i]
  <2>1. /\ st \in Seq(Nat) /\ Len(st) = m + n /\ m \in Nat /\ n \in Nat
        /\ \A i \in 1 .. m + n : st[i] = IF i <= m THEN s[i] ELSE t[i - m]
    BY ConcatProperties
  <2> HIDE DEF m, n, st
  <2>2. ASSUME NEW i \in 1 .. m PROVE st[i] = s[i]
    BY <2>1
  <2>3. ASSUME NEW i \in 1 .. n PROVE st[m + i] = t[i]
    <3>1. m + i \in 1 .. m + n /\ ~(m + i <= m) /\ (m + i) - m = i
      BY <2>1
    <3> QED BY <2>1, <3>1
  <2> QED BY <2>1, <2>2, <2>3
<1> HIDE DEF st
<1>2. PICK f : Reads(f, st)
  BY <1>1, SomeNumber
<1>3. PICK h : Reads(h, t)
  BY SomeNumber
<1>4. Number(st) = f[m + n]
  BY <1>1, <1>2, NumberIs
<1>5. Number(t) = h[n]
  BY <1>3, NumberIs
<1>6. Number(s) = f[m]
  <2> DEFINE g == [i \in 0 .. m |-> f[i]]
  <2>1. Reads(g, s)
    <3>1. g \in [0 .. m -> Nat] /\ g[0] = 0
      BY <1>1, <1>2 DEF Reads
    <3>2. ASSUME NEW i \in 1 .. m PROVE g[i] = 10 * g[i - 1] + s[i]
      <4>1. i \in 1 .. m + n /\ i \in 0 .. m /\ i - 1 \in 0 .. m
        BY <1>1
      <4>2. f[i] = 10 * f[i - 1] + st[i]
        BY <1>1, <1>2, <4>1 DEF Reads
      <4> QED BY <1>1, <4>1, <4>2
    <3> HIDE DEF g
    <3> QED BY <3>1, <3>2 DEF Reads
  <2>2. g[m] = f[m]
    BY <1>1
  <2> HIDE DEF g
  <2> QED BY <2>1, <2>2, NumberIs
<1> DEFINE S == {i \in Nat : i <= n => f[m + i] = f[m] * Pow10[i] + h[i]}
<1>7. f[m] \in Nat /\ \A i \in 0 .. n : h[i] \in Nat
  <2>1. m \in 0 .. m + n
    BY <1>1
  <2>2. f[m] \in Nat
    BY <1>1, <1>2, <2>1 DEF Reads
  <2>3. \A i \in 0 .. n : h[i] \in Nat
    BY <1>3 DEF Reads
  <2> QED BY <2>2, <2>3
<1>8. 0 \in S
  <2>1. h[0] = 0 /\ m + 0 = m
    BY <1>1, <1>3 DEF Reads
  <2>2. f[m] * Pow10[0] = f[m]
    <3>1. f[m] * 1 = f[m]
      BY <1>7
    <3> QED BY <3>1, Pow10Is
  <2> QED BY <1>7, <2>1, <2>2
<1>9. ASSUME NEW i \in Nat, i \in S PROVE i + 1 \in S
  <2> SUFFICES ASSUME i + 1 <= n
               PROVE  f[m + (i + 1)] = f[m] * Pow10[i + 1] + h[i + 1]
    OBVIOUS
  <2>1. /\ i + 1 \in 1 .. n /\ (i + 1) - 1 = i /\ i \in 0 .. n /\ i <= n
        /\ m + (i + 1) \in 1 .. m + n /\ (m + (i + 1)) - 1 = m + i
    BY <1>1
  <2>2. f[m + (i + 1)] = 10 * f[m + i] + t[i + 1]
    BY <1>1, <1>2, <2>1 DEF Reads
  <2>3. h[i + 1] = 10 * h[i] + t[i + 1]
    BY <1>3, <2>1 DEF Reads
  <2>4. f[m + i] = f[m] * Pow10[i] + h[i]
    BY <1>9, <2>1
  <2>5. Pow10[i + 1] = 10 * Pow10[i] /\ Pow10[i] \in Nat /\ h[i] \in Nat
    BY <1>7, <2>1, Pow10Is
  <2>6. t[i + 1] \in Nat
    BY <2>1
  <2>7. 10 * (f[m] * Pow10[i] + h[i]) + t[i + 1] = f[m] * (10 * Pow10[i]) + (10 * h[i] + t[i + 1])
    <3> DEFINE a == f[m]
               p == Pow10[i]
               b == h[i]
               d == t[i + 1]
    <3>1. a \in Nat /\ p \in Nat /\ b \in Nat /\ d \in Nat
      BY <1>7, <2>5, <2>6
    <3> HIDE DEF a, p, b, d
    <3>2. 10 * (a * p + b) + d = a * (10 * p) + (10 * b + d)
      BY <3>1, Shifted
    <3> QED BY <3>2 DEF a, p, b, d
  <2> QED BY <2>2, <2>3, <2>4, <2>5, <2>7
<1>10. Nat \subseteq S
  <2> HIDE DEF S
  <2> QED BY <1>8, <1>9, SetInduction
<1>11. f[m + n] = f[m] * Pow10[n] + h[n]
  BY <1>1, <1>10
<1> QED BY <1>4, <1>5, <1>6, <1>11 DEF st

LEMMA DigitsAreNumbers ==
  ASSUME NEW digits \in Seq(Digit)
  PROVE  digits \in Seq(Nat)
<1>1. Digit \subseteq Nat
  BY DEF Digit
<1> QED BY <1>1, SeqMonotonic, Zenon

(* n digits are worth less than ten to the n. *)
LEMMA NumberBelow ==
  ASSUME NEW digits \in Seq(Digit)
  PROVE  Number(digits) < Pow10[Len(digits)]
<1> DEFINE n == Len(digits)
<1>1. digits \in Seq(Nat) /\ n \in Nat
  BY DigitsAreNumbers
<1>2. PICK f : Reads(f, digits)
  BY <1>1, SomeNumber
<1> DEFINE S == {i \in Nat : i <= n => f[i] < Pow10[i]}
<1>3. 0 \in S
  BY <1>2, Pow10Is DEF Reads
<1>4. ASSUME NEW i \in Nat, i \in S PROVE i + 1 \in S
  <2> SUFFICES ASSUME i + 1 <= n PROVE f[i + 1] < Pow10[i + 1]
    OBVIOUS
  <2>1. i + 1 \in 1 .. n /\ (i + 1) - 1 = i /\ i \in 0 .. n /\ i <= n
    BY <1>1
  <2>2. f[i + 1] = 10 * f[i] + digits[i + 1] /\ f[i] \in Nat
    BY <1>2, <2>1 DEF Reads
  <2>3. digits[i + 1] \in 0 .. 9
    BY <2>1 DEF Digit
  <2>4. Pow10[i + 1] = 10 * Pow10[i] /\ Pow10[i] \in Nat /\ f[i] < Pow10[i]
    BY <1>4, <2>1, Pow10Is
  <2>5. \A a, p \in Nat, d \in 0 .. 9 : a < p => 10 * a + d < 10 * p
    OBVIOUS
  <2> QED BY <2>2, <2>3, <2>4, <2>5, Zenon
<1>5. Nat \subseteq S
  <2> HIDE DEF S
  <2> QED BY <1>3, <1>4, SetInduction
<1>6. Number(digits) = f[n]
  BY <1>1, <1>2, NumberIs
<1> QED BY <1>1, <1>5, <1>6

LEMMA NumberOfZeros ==
  ASSUME NEW digits \in Seq(Nat), \A i \in 1 .. Len(digits) : digits[i] = 0
  PROVE  Number(digits) = 0
<1> DEFINE f == [i \in 0 .. Len(digits) |-> 0]
<1>1. Len(digits) \in Nat
  OBVIOUS
<1>2. Reads(f, digits)
  <2>1. f \in [0 .. Len(digits) -> Nat] /\ f[0] = 0
    BY <1>1
  <2>2. ASSUME NEW i \in 1 .. Len(digits) PROVE f[i] = 10 * f[i - 1] + digits[i]
    <3>1. i \in 0 .. Len(digits) /\ i - 1 \in 0 .. Len(digits) /\ digits[i] = 0
      BY <1>1
    <3>2. f[i] = 0 /\ f[i - 1] = 0
      BY <3>1
    <3> QED BY <3>1, <3>2
  <2> HIDE DEF f
  <2> QED BY <2>1, <2>2 DEF Reads
<1>3. f[Len(digits)] = 0
  BY <1>1
<1> HIDE DEF f
<1> QED BY <1>2, <1>3, NumberIs

-----------------------------------------------------------------------------
(* From the price to the amount. *)

LEMMA ZerosType ==
  ASSUME NEW n \in Nat
  PROVE  /\ Zeros(n) \in Seq(Digit) /\ Len(Zeros(n)) = n
         /\ \A i \in 1 .. n : Zeros(n)[i] = 0
<1>1. Zeros(n) \in [1 .. n -> Digit]
  BY DEF Zeros, Digit
<1>2. Zeros(n) \in Seq(Digit)
  BY <1>1, SeqDef
<1>3. Len(Zeros(n)) = n
  BY <1>1, <1>2, LenProperties
<1> QED BY <1>2, <1>3 DEF Zeros

(* PadEnd cuts the digits, followed by zeros, in two.                       *)
LEMMA PadEndCuts ==
  ASSUME NEW dec \in Seq(Digit), NEW d \in Nat
  PROVE  /\ PadEnd(dec, d) \in Seq(Digit)
         /\ \E rest \in Seq(Digit) :
              /\ dec \o Zeros(d) = PadEnd(dec, d) \o rest
              /\ Len(rest) = Len(dec)
              /\ Len(dec) <= d => \A i \in 1 .. Len(rest) : rest[i] = 0
<1> DEFINE L == Len(dec)
           z == dec \o Zeros(d)
           rest == SubSeq(z, d + 1, L + d)
<1>1. /\ Zeros(d) \in Seq(Digit) /\ Len(Zeros(d)) = d
      /\ \A i \in 1 .. d : Zeros(d)[i] = 0
  BY ZerosType
<1>2. L \in Nat
  OBVIOUS
<1>3. /\ z \in Seq(Digit) /\ Len(z) = L + d
      /\ \A i \in 1 .. L + d : z[i] = IF i <= L THEN dec[i] ELSE Zeros(d)[i - L]
  BY <1>1, ConcatProperties
<1>4. PadEnd(dec, d) = SubSeq(z, 1, d)
  BY DEF PadEnd
<1> HIDE DEF z
<1>5. \A i \in 1 .. L + d : z[i] \in Digit
  BY <1>3, ElementOfSeq
<1>6. SubSeq(z, 1, d) \in Seq(Digit)
  <2>1. \A i \in 1 .. d : z[i] \in Digit
    BY <1>2, <1>5
  <2> QED BY <2>1, SubSeqProperties
<1>7. /\ rest \in Seq(Digit) /\ Len(rest) = L
      /\ \A i \in 1 .. L : rest[i] = z[d + i]
  <2>1. \A i \in d + 1 .. L + d : z[i] \in Digit
    BY <1>2, <1>5
  <2>2. /\ rest \in Seq(Digit)
        /\ Len(rest) = IF d + 1 <= L + d THEN (L + d) - (d + 1) + 1 ELSE 0
        /\ \A i \in 1 .. (L + d) - (d + 1) + 1 : rest[i] = z[(d + 1) + i - 1]
    <3>1. d + 1 \in Int /\ L + d \in Int
      BY <1>2
    <3> HIDE DEF L
    <3> QED BY <2>1, <3>1, SubSeqProperties
  <2>3. (L + d) - (d + 1) + 1 = L /\ \A i \in 1 .. L : (d + 1) + i - 1 = d + i
    BY <1>2
  <2> HIDE DEF rest
  <2> QED BY <1>2, <2>2, <2>3
<1>8. z = SubSeq(z, 1, d) \o rest
  <2>1. 1 \in 1 .. Len(z) + 1 /\ d \in 1 - 1 .. Len(z) /\ Len(z) \in d .. Len(z)
    BY <1>2, <1>3
  <2>2. SubSeq(z, 1, d) \o SubSeq(z, d + 1, Len(z)) = SubSeq(z, 1, Len(z))
    BY <1>3, <2>1, ConcatAdjacentSubSeq
  <2>3. SubSeq(z, 1, Len(z)) = z
    BY <1>3, SubSeqFull
  <2> QED BY <1>3, <2>2, <2>3
<1>9. ASSUME L <= d, NEW i \in 1 .. L PROVE rest[i] = 0
  <2>1. d + i \in 1 .. L + d /\ (~(d + i <= L)) /\ (d + i) - L \in 1 .. d
    BY <1>2, <1>9
  <2> QED BY <1>1, <1>3, <1>7, <1>9, <2>1
<1> HIDE DEF rest
<1> QED BY <1>4, <1>6, <1>7, <1>8, <1>9 DEF z

Regroups(s, t, u) == (s \o t) \o u = s \o (t \o u)

LEMMA Regroup ==
  ASSUME NEW s \in Seq(Nat), NEW t \in Seq(Nat), NEW u \in Seq(Nat)
  PROVE  Regroups(s, t, u)
BY DEF Regroups

(* What the amount leaves over of the price: less than a unit of the token, *)
(* and nothing when the price has no more decimals than the token.          *)
LEMMA AmountOf ==
  ASSUME NEW p, p.int \in Seq(Nat), p.dec \in Seq(Digit), NEW d \in Nat
  PROVE  /\ PriceStringToTokenAmount(p, d) \in Nat
         /\ \E r \in Nat :
              /\ Number(p.int \o p.dec) * Pow10[d]
                   = PriceStringToTokenAmount(p, d) * Pow10[Len(p.dec)] + r
              /\ r < Pow10[Len(p.dec)]
              /\ Len(p.dec) <= d => r = 0
<1> DEFINE i == p.int
           f == p.dec
           head == PadEnd(f, d)
           z == Zeros(d)
<1>1. head \in Seq(Digit) /\ z \in Seq(Digit) /\ Len(z) = d
  BY PadEndCuts, ZerosType
<1>2. PICK rest \in Seq(Digit) :
        /\ f \o z = head \o rest
        /\ Len(rest) = Len(f)
        /\ Len(f) <= d => \A k \in 1 .. Len(rest) : rest[k] = 0
  BY PadEndCuts
<1>3. /\ i \in Seq(Nat) /\ f \in Seq(Nat) /\ z \in Seq(Nat)
      /\ head \in Seq(Nat) /\ rest \in Seq(Nat)
  BY <1>1, DigitsAreNumbers
<1>4. PriceStringToTokenAmount(p, d) = Number(i \o head)
  BY DEF PriceStringToTokenAmount
<1> HIDE DEF head, z, i, f
<1>5. (i \o f) \o z = (i \o head) \o rest
  <2>1. Regroups(i, f, z)
    BY <1>3, Regroup, Zenon
  <2>2. Regroups(i, head, rest)
    BY <1>3, Regroup, Zenon
  <2> QED BY <1>2, <2>1, <2>2, Zenon DEF Regroups
<1>6. i \o f \in Seq(Nat) /\ i \o head \in Seq(Nat)
  BY <1>3, ConcatProperties
<1>7. Number((i \o f) \o z) = Number(i \o f) * Pow10[d] + Number(z)
  BY <1>1, <1>3, <1>6, NumberConcat
<1>8. Number((i \o head) \o rest) = Number(i \o head) * Pow10[Len(f)] + Number(rest)
  BY <1>2, <1>3, <1>6, NumberConcat
<1>9. Number(z) = 0
  BY <1>1, <1>3, ZerosType, NumberOfZeros DEF z
<1>10. Number(rest) \in Nat /\ Number(rest) < Pow10[Len(f)]
  BY <1>2, <1>3, NumberType, NumberBelow
<1>11. Len(f) <= d => Number(rest) = 0
  BY <1>2, <1>3, NumberOfZeros
<1>12. Number(i \o f) \in Nat /\ Number(i \o head) \in Nat /\ Pow10[d] \in Nat
  BY <1>6, NumberType, Pow10Type
<1>13. Number(i \o f) * Pow10[d] = Number(i \o head) * Pow10[Len(f)] + Number(rest)
  BY <1>5, <1>7, <1>8, <1>9, <1>12
<1> QED BY <1>4, <1>10, <1>11, <1>12, <1>13 DEF i, f

(* With no more decimals than the token has the amount is the price.        *)
LEMMA AmountExact ==
  ASSUME NEW p, p.int \in Seq(Nat), p.dec \in Seq(Digit), NEW d \in Nat, Len(p.dec) <= d
  PROVE  /\ PriceStringToTokenAmount(p, d) \in Nat
         /\ Number(p.int \o p.dec) * Pow10[d]
              = PriceStringToTokenAmount(p, d) * Pow10[Len(p.dec)]
<1> DEFINE w == Number(p.int \o p.dec) * Pow10[d]
           a == PriceStringToTokenAmount(p, d)
           unit == Pow10[Len(p.dec)]
<1>1. PICK r \in Nat : w = a * unit + r /\ (Len(p.dec) <= d => r = 0)
  BY AmountOf
<1>2. a \in Nat /\ unit \in Nat
  <2>1. Len(p.dec) \in Nat
    OBVIOUS
  <2> QED BY <2>1, AmountOf, Pow10Type
<1> HIDE DEF w, a, unit
<1>3. a * unit \in Nat
  BY <1>2, TimesType
<1>4. w = a * unit
  BY <1>1, <1>3
<1> QED BY <1>2, <1>4 DEF w, a, unit

-----------------------------------------------------------------------------
(* From the amount of the SDK to that of the route. *)

LEMMA Decimal ==
  /\ USDC_DECIMALS \in Nat /\ USDM_DECIMALS \in Nat /\ USDC_DECIMALS <= USDM_DECIMALS
  /\ USDM_DECIMALS - USDC_DECIMALS \in Nat
  /\ USDC_DECIMALS + (USDM_DECIMALS - USDC_DECIMALS) = USDM_DECIMALS
  /\ Pow10[USDM_DECIMALS - USDC_DECIMALS] \in Nat
  /\ Pow10[USDM_DECIMALS - USDC_DECIMALS] >= 10
  /\ Pow10[USDM_DECIMALS] = Pow10[USDC_DECIMALS] * Pow10[USDM_DECIMALS - USDC_DECIMALS]
<1> DEFINE k == USDM_DECIMALS - USDC_DECIMALS
<1>1. /\ USDC_DECIMALS \in Nat /\ USDM_DECIMALS \in Nat /\ USDC_DECIMALS <= USDM_DECIMALS
      /\ k \in Nat /\ USDC_DECIMALS + k = USDM_DECIMALS
      /\ k - 1 \in Nat /\ (k - 1) + 1 = k
  BY DecimalsAssumption
<1> HIDE DEF k
<1>2. Pow10[USDC_DECIMALS + k] = Pow10[USDC_DECIMALS] * Pow10[k]
  BY <1>1, Pow10Plus
<1>3. Pow10[k] \in Nat /\ Pow10[k] >= 10
  <2>1. Pow10[(k - 1) + 1] = 10 * Pow10[k - 1] /\ Pow10[k - 1] \in Nat \ {0}
    BY <1>1, Pow10Is
  <2> QED BY <1>1, <2>1
<1> QED BY <1>1, <1>2, <1>3 DEF k

(* The amount in the coarser token is that in the finer one, scaled.        *)
LEMMA Scaled ==
  ASSUME NEW p, p.int \in Seq(Nat), p.dec \in Seq(Digit), Len(p.dec) <= USDC_DECIMALS
  PROVE  PriceStringToTokenAmount(p, USDM_DECIMALS)
           = PriceStringToTokenAmount(p, USDC_DECIMALS) * Pow10[USDM_DECIMALS - USDC_DECIMALS]
<1> DEFINE c == USDC_DECIMALS
           m == USDM_DECIMALS
           u == Pow10[m - c]
           w == Number(p.int \o p.dec)
           unit == Pow10[Len(p.dec)]
           fine == PriceStringToTokenAmount(p, m)
           coarse == PriceStringToTokenAmount(p, c)
<1>1. Len(p.dec) \in Nat /\ Len(p.dec) <= m
  BY Decimal
<1>2. fine \in Nat /\ w * Pow10[m] = fine * unit
  BY <1>1, Decimal, AmountExact
<1>3. coarse \in Nat /\ w * Pow10[c] = coarse * unit
  BY <1>1, Decimal, AmountExact
<1>4. w \in Nat /\ unit \in Nat \ {0} /\ u \in Nat /\ Pow10[c] \in Nat
  <2>1. p.int \o p.dec \in Seq(Nat)
    BY DigitsAreNumbers, ConcatProperties
  <2> QED BY <1>1, <2>1, Decimal, NumberType, Pow10Type
<1>5. Pow10[m] = Pow10[c] * u
  BY Decimal
<1> HIDE DEF w, unit, fine, coarse, u
<1>6. fine * unit = (coarse * u) * unit
  <2>1. w * (Pow10[c] * u) = (w * Pow10[c]) * u
    BY <1>4, TimesSwap
  <2>2. (coarse * unit) * u = (coarse * u) * unit
    BY <1>3, <1>4, TimesSwap
  <2> QED BY <1>2, <1>3, <1>5, <2>1, <2>2
<1>7. coarse * u \in Nat
  BY <1>3, <1>4, TimesType
<1> QED BY <1>2, <1>4, <1>6, <1>7, TimesCancel DEF fine, coarse, u

(* An error of less than half a unit does not survive the rounding.         *)
LEMMA Rounded ==
  ASSUME NEW q \in Nat, NEW u \in Nat, u >= 10,
         NEW e \in Int, 0 - (u \div 2) < e, e < u \div 2
  PROVE  RoundTo(q * u + e, u) = q
<1> DEFINE r == e + u \div 2
<1>1. r \in Nat /\ r < u
  OBVIOUS
<1>2. (q * u + e) + u \div 2 = q * u + r
  <2>1. q * u \in Nat /\ u \div 2 \in Nat
    BY TimesType
  <2> QED BY <2>1
<1> HIDE DEF r
<1> QED BY <1>1, <1>2, DivIs DEF RoundTo

(* toFixed writes the number it is given.                                   *)
LEMMA ToFixedReads ==
  ASSUME NEW q \in Nat, NEW d \in Nat
  PROVE  LET p == ToFixed(q, d)
         IN /\ p.int \in Seq(Nat) /\ p.dec \in Seq(Digit) /\ Len(p.dec) = d
            /\ Number(p.int \o p.dec) = q
<1> DEFINE At(i) == q \div Pow10[d - i]
           int == <<At(0)>>
           dec == [i \in 1 .. d |-> At(i) % 10]
           digits == int \o dec
<1>1. \A i \in 0 .. d : d - i \in Nat /\ Pow10[d - i] \in Nat \ {0}
  BY Pow10Type
<1>2. \A i \in 0 .. d : At(i) \in Nat
  <2> TAKE i \in 0 .. d
  <2>1. Pow10[d - i] \in Nat \ {0}
    BY <1>1
  <2> QED BY <2>1, DivMod
<1>3. ASSUME NEW i \in 0 .. d - 1 PROVE At(i) = At(i + 1) \div 10
  <2>1. /\ d - (i + 1) \in Nat /\ (d - (i + 1)) + 1 = d - i
        /\ Pow10[d - (i + 1)] \in Nat \ {0}
    BY Pow10Type
  <2>2. Pow10[d - i] = 10 * Pow10[d - (i + 1)]
    BY <2>1, Pow10Is
  <2> QED BY <2>1, <2>2, DivDiv
<1>4. At(d) = q
  <2>1. d - d = 0 /\ q \div 1 = q
    OBVIOUS
  <2> QED BY <2>1, Pow10Is
<1>5. ToFixed(q, d) = [int |-> int, dec |-> dec]
  <2>1. d - 0 = d
    OBVIOUS
  <2> QED BY <2>1 DEF ToFixed
<1> HIDE DEF At
<1>6. int \in Seq(Nat) /\ Len(int) = 1 /\ int[1] = At(0)
  <2>1. At(0) \in Nat
    BY <1>2
  <2> QED BY <2>1
<1>7. \A i \in 1 .. d : dec[i] \in Digit /\ dec[i] = At(i) % 10
  <2> TAKE i \in 1 .. d
  <2>1. At(i) \in Nat
    BY <1>2
  <2>2. At(i) % 10 \in 0 .. 9
    BY <2>1
  <2> QED BY <2>2 DEF Digit
<1>8. dec \in Seq(Digit) /\ Len(dec) = d
  <2>1. dec \in [1 .. d -> Digit]
    BY <1>7
  <2> HIDE DEF dec
  <2>2. dec \in Seq(Digit)
    BY <2>1, SeqDef
  <2> QED BY <2>1, <2>2, LenProperties
<1> HIDE DEF int, dec
<1>9. /\ digits \in Seq(Nat) /\ Len(digits) = 1 + d
      /\ digits[1] = At(0)
      /\ \A i \in 1 .. d : digits[i + 1] = At(i) % 10
  <2>1. dec \in Seq(Nat)
    BY <1>8, DigitsAreNumbers
  <2>2. /\ digits \in Seq(Nat) /\ Len(digits) = 1 + d
        /\ \A i \in 1 .. 1 + d : digits[i] = IF i <= 1 THEN int[i] ELSE dec[i - 1]
    <3>1. /\ digits \in Seq(Nat) /\ Len(digits) = Len(int) + Len(dec)
          /\ \A i \in 1 .. Len(int) + Len(dec) :
               digits[i] = IF i <= Len(int) THEN int[i] ELSE dec[i - Len(int)]
      BY <1>6, <2>1, ConcatProperties
    <3> QED BY <1>6, <1>8, <3>1
  <2> HIDE DEF digits
  <2>3. digits[1] = At(0)
    BY <1>6, <2>2
  <2>4. ASSUME NEW i \in 1 .. d PROVE digits[i + 1] = At(i) % 10
    <3>1. i + 1 \in 1 .. 1 + d /\ (~(i + 1 <= 1)) /\ (i + 1) - 1 = i
      OBVIOUS
    <3> QED BY <1>7, <2>2, <3>1
  <2> QED BY <2>2, <2>3, <2>4
<1> HIDE DEF digits
<1>10. PICK f : Reads(f, digits)
  BY <1>9, SomeNumber
<1> DEFINE S == {i \in Nat : i <= d => f[i + 1] = At(i)}
<1>11. 0 \in S
  <2>1. 1 \in 1 .. 1 + d /\ 1 - 1 = 0 /\ 0 + 1 = 1 /\ 0 \in 0 .. d
    OBVIOUS
  <2>2. f[1] = 10 * f[0] + digits[1] /\ f[0] = 0
    BY <1>9, <1>10, <2>1 DEF Reads
  <2>3. At(0) \in Nat
    BY <1>2, <2>1
  <2>4. f[0 + 1] = At(0)
    BY <1>9, <2>1, <2>2, <2>3
  <2> QED BY <2>4
<1>12. ASSUME NEW i \in Nat, i \in S PROVE i + 1 \in S
  <2> SUFFICES ASSUME i + 1 <= d PROVE f[(i + 1) + 1] = At(i + 1)
    OBVIOUS
  <2>1. /\ i \in 0 .. d - 1 /\ i + 1 \in 1 .. d /\ i + 1 \in 0 .. d
        /\ (i + 1) + 1 \in 1 .. 1 + d /\ ((i + 1) + 1) - 1 = i + 1
    OBVIOUS
  <2>2. f[(i + 1) + 1] = 10 * f[i + 1] + digits[(i + 1) + 1]
    BY <1>9, <1>10, <2>1 DEF Reads
  <2>3. f[i + 1] = At(i + 1) \div 10
    BY <1>3, <1>12, <2>1
  <2>4. digits[(i + 1) + 1] = At(i + 1) % 10 /\ At(i + 1) \in Nat
    BY <1>2, <1>9, <2>1
  <2> DEFINE x == At(i + 1)
  <2>5. x \in Nat
    BY <2>4
  <2> HIDE DEF x
  <2>6. 10 * (x \div 10) + (x % 10) = x
    BY <2>5
  <2> QED BY <2>2, <2>3, <2>4, <2>6 DEF x
<1>13. Nat \subseteq S
  <2> HIDE DEF S
  <2> QED BY <1>11, <1>12, SetInduction
<1>14. f[d + 1] = q
  BY <1>4, <1>13
<1>15. Number(digits) = q
  <2>1. 1 + d = d + 1
    OBVIOUS
  <2> QED BY <1>9, <1>10, <1>14, <2>1, NumberIs
<1> QED BY <1>5, <1>6, <1>8, <1>15 DEF digits

(* Whatever float the SDK reads from the price, it asks for the amount that *)
(* the string says.                                                         *)
LEMMA SdkAmounts ==
  ASSUME NEW p \in Price, Len(p.dec) <= USDC_DECIMALS, NEW float \in Floats(p)
  PROVE  /\ RoundTo(float, Pow10[USDM_DECIMALS - USDC_DECIMALS])
              = PriceStringToTokenAmount(p, USDC_DECIMALS)
         /\ UsdToUsdm(float) = PriceStringToTokenAmount(p, USDM_DECIMALS)
<1> DEFINE u == Pow10[USDM_DECIMALS - USDC_DECIMALS]
           q == PriceStringToTokenAmount(p, USDC_DECIMALS)
           exact == PriceStringToTokenAmount(p, USDM_DECIMALS)
           fixed == ToFixed(q, USDC_DECIMALS)
<1>1. p.int \in Seq(Nat) /\ p.dec \in Seq(Digit)
  BY DigitsAreNumbers DEF Price
<1>2. exact = q * u
  BY <1>1, Scaled
<1>3. q \in Nat /\ exact \in Nat
  BY <1>1, Decimal, AmountOf
<1>4. u \in Nat /\ u >= 10
  BY Decimal
<1>5. float \in Nat /\ exact - (u \div 2 - 1) <= float /\ float <= exact + (u \div 2 - 1)
  <2>1. float \in exact - (u \div 2 - 1) .. exact + (u \div 2 - 1) /\ float \in Nat
    BY DEF Floats
  <2> HIDE DEF exact, u
  <2> QED BY <1>3, <1>4, <2>1
<1>6. RoundTo(float, u) = q
  <2> DEFINE e == float - exact
  <2> HIDE DEF q, u, exact
  <2>1. e \in Int /\ 0 - (u \div 2) < e /\ e < u \div 2 /\ float = exact + e
    BY <1>3, <1>4, <1>5
  <2> HIDE DEF e
  <2>2. RoundTo(q * u + e, u) = q
    BY <1>3, <1>4, <2>1, Rounded
  <2> QED BY <1>2, <2>1, <2>2
<1>7. /\ fixed.int \in Seq(Nat) /\ fixed.dec \in Seq(Digit)
      /\ Len(fixed.dec) = USDC_DECIMALS
      /\ Number(fixed.int \o fixed.dec) = q
  BY <1>3, Decimal, ToFixedReads
<1>8. PriceStringToTokenAmount(fixed, USDC_DECIMALS) = q
  <2> DEFINE a == PriceStringToTokenAmount(fixed, USDC_DECIMALS)
             unit == Pow10[USDC_DECIMALS]
  <2>1. USDC_DECIMALS \in Nat /\ unit \in Nat \ {0} /\ USDC_DECIMALS <= USDC_DECIMALS
    BY Decimal, Pow10Type
  <2>2. a \in Nat /\ q * unit = a * unit
    BY <1>7, <2>1, AmountExact
  <2> HIDE DEF a, unit, q, fixed
  <2>3. a = q
    BY <1>3, <2>1, <2>2, TimesCancel
  <2> QED BY <2>3 DEF a
<1>9. PriceStringToTokenAmount(fixed, USDM_DECIMALS) = q * u
  <2>1. Len(fixed.dec) <= USDC_DECIMALS
    BY <1>7, Decimal
  <2> QED BY <1>7, <1>8, <2>1, Scaled
<1>10. UsdToUsdm(float) = PriceStringToTokenAmount(fixed, USDM_DECIMALS)
  BY <1>6 DEF UsdToUsdm
<1> QED BY <1>2, <1>6, <1>9, <1>10

LEMMA RouteAmount ==
  ASSUME NEW p, PayToEvm
  PROVE  RouteRequirement(p) = PriceStringToTokenAmount(p, USDM_DECIMALS)
<1> DEFINE a == [network |-> "megaeth", amount |-> PriceStringToTokenAmount(p, USDM_DECIMALS)]
           megaeth == {b \in Accepts(p) : b.network = "megaeth"}
<1>1. "megaeth" \in Enabled
  BY DEF Enabled
<1>2. megaeth = {a}
  <2>1. a \in megaeth
    BY <1>1 DEF Accepts, Decimals
  <2>2. ASSUME NEW b \in megaeth PROVE b = a
    BY DEF Accepts, Decimals
  <2> QED BY <2>1, <2>2
<1>3. (CHOOSE b \in megaeth : TRUE) = a
  BY <1>2
<1> QED BY <1>2, <1>3 DEF RouteRequirement

(* A transaction with one transfer to the gateway.                          *)
LEMMA OneTransfer ==
  ASSUME NEW value \in Nat, NEW expected \in Nat
  PROVE  VerifyTransferLogs(<<Transfer(value)>>, expected, Treasury).valid
           <=> (value > 0 /\ value >= expected)
<1> DEFINE t == Transfer(value)
<1>1. t \in Log /\ t.value = value /\ Contributes(t, Treasury)
  <2>1. (CHOOSE a \in Accounts : a # Treasury) \in Accounts
    BY AmountsAssumption
  <2>2. Treasury \in Accounts /\ USDm \in Contracts
    BY AmountsAssumption, USDmAssumption
  <2> QED BY <2>1, <2>2 DEF Transfer, Log, Contributes
<1> HIDE DEF t
<1>2. <<t>> \in Seq(Log) /\ <<t>> = Append(<<>>, t) /\ <<>> \in Seq(Log)
  BY <1>1
<1>3. Received(<<t>>, Treasury) = 0 + value
  BY <1>1, <1>2, ReceivedAppend, ReceivedEmpty
<1>4. VerifyTransferLogs(<<t>>, expected, Treasury).valid
        <=> (Received(<<t>>, Treasury) > 0 /\ Received(<<t>>, Treasury) >= expected)
  <2>1. expected \in Int
    OBVIOUS
  <2> QED BY <1>2, <2>1, VerdictIsRight
<1> QED BY <1>3, <1>4 DEF t

-----------------------------------------------------------------------------
(* The invariants. *)

TypeOK == price \in Price /\ logs \in Seq(Log)

(* The digits are digits, the logs are logs. *)
THEOREM AmountsType == Spec => []TypeOK
<1>1. Init => TypeOK
  BY DEF Init, TypeOK, Price
<1>2. TypeOK /\ [Next]_vars => TypeOK'
  <2> SUFFICES ASSUME TypeOK, [Next]_vars PROVE TypeOK'
    OBVIOUS
  <2>1. CASE Spell
    <3>1. PICK d \in Digits :
            \/ price' = [price EXCEPT !.int = Append(@, d)]
            \/ price' = [price EXCEPT !.dec = Append(@, d)]
      BY <2>1 DEF Spell
    <3>2. d \in Digit /\ price.int \in Seq(Digit) /\ price.dec \in Seq(Digit)
      BY AmountsAssumption DEF TypeOK, Price
    <3>3. Append(price.int, d) \in Seq(Digit) /\ Append(price.dec, d) \in Seq(Digit)
      BY <3>2, AppendProperties
    <3>4. price' \in Price
      BY <3>1, <3>2, <3>3 DEF TypeOK, Price
    <3> QED BY <2>1, <3>4 DEF Spell, TypeOK
  <2>2. CASE Emit
    <3>1. PICK a \in Contracts, e \in {"Transfer", "Other"},
               from \in Accounts, to \in Accounts, v \in 0 .. MaxValue :
            logs' = Append(logs, [address |-> a, event |-> e, from |-> from, to |-> to, value |-> v])
      BY <2>2 DEF Emit
    <3>2. [address |-> a, event |-> e, from |-> from, to |-> to, value |-> v] \in Log
      BY DEF Log
    <3>3. logs' \in Seq(Log)
      BY <3>1, <3>2, AppendProperties DEF TypeOK
    <3> QED BY <2>2, <3>3 DEF Emit, TypeOK
  <2>3. CASE UNCHANGED vars
    BY <2>3 DEF TypeOK, vars
  <2> QED BY <2>1, <2>2, <2>3 DEF Next
<1> QED BY <1>1, <1>2, PTL DEF Spec

LEMMA WrittenType ==
  ASSUME TypeOK
  PROVE  /\ price.int \in Seq(Nat) /\ price.dec \in Seq(Digit) /\ Len(price.dec) \in Nat
         /\ Written \in Nat /\ Unit \in Nat \ {0}
<1>1. price.int \in Seq(Nat) /\ price.dec \in Seq(Digit) /\ price.dec \in Seq(Nat)
  BY DigitsAreNumbers DEF TypeOK, Price
<1>2. price.int \o price.dec \in Seq(Nat) /\ Len(price.dec) \in Nat
  BY <1>1, ConcatProperties
<1> QED BY <1>1, <1>2, NumberType, Pow10Type DEF Written, Unit

(* The amount is the price in units of the token, and what is less than a   *)
(* unit is cut off: for prices of any number of digits (validation.ts).     *)
THEOREM AmountIsFloorHolds == Spec => []AmountIsFloor
<1>1. TypeOK => AmountIsFloor
  <2> SUFFICES ASSUME TypeOK, NEW d \in {USDC_DECIMALS, USDM_DECIMALS}
               PROVE  LET amt == PriceStringToTokenAmount(price, d)
                      IN /\ amt * Unit <= Written * Pow10[d]
                         /\ Written * Pow10[d] < (amt + 1) * Unit
    BY DEF AmountIsFloor
  <2> DEFINE amt == PriceStringToTokenAmount(price, d)
             whole == Written * Pow10[d]
  <2>1. d \in Nat
    BY Decimal
  <2>2. amt \in Nat /\ Unit \in Nat
    BY <2>1, WrittenType, AmountOf
  <2>3. PICK r \in Nat : whole = amt * Unit + r /\ r < Unit
    BY <2>1, WrittenType, AmountOf DEF Written, Unit
  <2> HIDE DEF amt, whole
  <2>4. (amt + 1) * Unit = amt * Unit + Unit /\ amt * Unit \in Nat
    BY <2>2
  <2>5. amt * Unit <= whole /\ whole < (amt + 1) * Unit
    BY <2>2, <2>3, <2>4
  <2> QED BY <2>5 DEF amt, whole
<1> QED BY <1>1, AmountsType, PTL

(* A client that transfers what the SDK's 402 asks for has paid what the    *)
(* direct payment demands, and one that transfers a unit less has not.      *)
THEOREM AskedIsAcceptedHolds == Spec => []AskedIsAccepted
<1>1. TypeOK => AskedIsAccepted
  <2> SUFFICES ASSUME TypeOK, Usual, PayToEvm, Written > 0, NEW float \in Floats(price)
               PROVE  LET Direct(value) ==
                            VerifyTransferLogs(<<Transfer(value)>>, RouteRequirement(price), Treasury).valid
                      IN Direct(UsdToUsdm(float)) /\ ~Direct(UsdToUsdm(float) - 1)
    BY DEF AskedIsAccepted
  <2> DEFINE exact == PriceStringToTokenAmount(price, USDM_DECIMALS)
  <2>1. RouteRequirement(price) = exact
    BY RouteAmount
  <2>2. UsdToUsdm(float) = exact
    BY SdkAmounts DEF TypeOK, Usual
  <2>3. exact \in Nat /\ Written * Pow10[USDM_DECIMALS] = exact * Unit
    <3>1. Len(price.dec) <= USDM_DECIMALS
      BY WrittenType, Decimal DEF Usual
    <3> QED BY <3>1, WrittenType, Decimal, AmountExact DEF Written, Unit
  <2> HIDE DEF exact
  <2>4. exact > 0
    <3>1. Written \in Nat \ {0} /\ Pow10[USDM_DECIMALS] \in Nat \ {0}
      BY WrittenType, Decimal, Pow10Type
    <3>2. Written * Pow10[USDM_DECIMALS] \in Nat \ {0}
      BY <3>1, TimesPositive
    <3>3. 0 * Unit = 0
      BY WrittenType
    <3> QED BY <2>3, <3>2, <3>3
  <2>5. VerifyTransferLogs(<<Transfer(exact)>>, exact, Treasury).valid
    BY <2>3, <2>4, OneTransfer
  <2>6. ~VerifyTransferLogs(<<Transfer(exact - 1)>>, exact, Treasury).valid
    <3>1. exact - 1 \in Nat /\ (~(exact - 1 >= exact))
      BY <2>3, <2>4
    <3> QED BY <2>3, <3>1, OneTransfer
  <2> QED BY <2>1, <2>2, <2>5, <2>6
<1> QED BY <1>1, AmountsType, PTL

(* What is logged as paid is the price, on every network and for every      *)
(* accepted requirement.                                                    *)
THEOREM RevenueIsPriceHolds == Spec => []RevenueIsPrice
<1>1. ASSUME TypeOK, Usual, NEW n \in Networks
      PROVE  Costs(RawToUsd(PriceStringToTokenAmount(price, Decimals(n)), n))
  <2>1. Decimals(n) \in Nat /\ USDC_DECIMALS <= Decimals(n)
    BY Decimal DEF Decimals
  <2>2. Len(price.dec) <= Decimals(n)
    BY <1>1, <2>1, WrittenType, Decimal DEF Usual
  <2>3. Written * Pow10[Decimals(n)] = PriceStringToTokenAmount(price, Decimals(n)) * Unit
    BY <1>1, <2>1, <2>2, WrittenType, AmountExact DEF Written, Unit
  <2> QED BY <2>3 DEF Costs, RawToUsd
<1>2. TypeOK => RevenueIsPrice
  <2> SUFFICES ASSUME TypeOK, Usual PROVE RevenueIsPrice
    BY DEF RevenueIsPrice
  <2>1. ASSUME PayToEvm PROVE Costs(RawToUsd(RouteRequirement(price), "megaeth"))
    <3>1. RouteRequirement(price) = PriceStringToTokenAmount(price, Decimals("megaeth"))
      BY <2>1, RouteAmount DEF Decimals
    <3> QED BY <1>1, <3>1 DEF Networks
  <2>2. ASSUME NEW float \in Floats(price), NEW extra,
               NEW claim, NEW accepted \in FindMatchingRequirements(Asked(float, extra), claim)
        PROVE  Costs(RawToUsd(accepted.amount, accepted.network))
    <3>1. PICK req \in Asked(float, extra) : SameCore(req, accepted)
      BY <2>2 DEF FindMatchingRequirements
    <3>2. PICK n \in Enabled :
            req = [network |-> n, extra |-> extra,
                   amount |-> IF n = "megaeth" THEN UsdToUsdm(float)
                              ELSE RoundTo(float, Pow10[USDM_DECIMALS - USDC_DECIMALS])]
      BY <3>1 DEF Asked
    <3>3. n \in Networks
      BY DEF Enabled, Networks
    <3>4. req.amount = PriceStringToTokenAmount(price, Decimals(n))
      BY <3>2, SdkAmounts DEF TypeOK, Usual, Decimals
    <3>5. accepted.network = n /\ accepted.amount = PriceStringToTokenAmount(price, Decimals(n))
      BY <3>1, <3>2, <3>4 DEF SameCore
    <3> QED BY <1>1, <3>3, <3>5
  <2> QED BY <2>1, <2>2 DEF RevenueIsPrice
<1> QED BY <1>2, AmountsType, PTL

(* A transaction pays exactly when its USDm transfers to the gateway come   *)
(* to something and to at least the price, for any number of logs.          *)
THEOREM PaysExactlyWhenSumReachesHolds == Spec => []PaysExactlyWhenSumReaches
<1>1. TypeOK => PaysExactlyWhenSumReaches
  <2> SUFFICES ASSUME TypeOK, PayToEvm
               PROVE  /\ verdict \in Verdict
                      /\ verdict.valid <=> /\ Received(logs, Treasury) > 0
                                           /\ Received(logs, Treasury) >= amount
    BY DEF PaysExactlyWhenSumReaches
  <2>1. amount \in Nat
    BY RouteAmount, WrittenType, Decimal, AmountOf DEF amount
  <2> QED BY <2>1, VerdictIsRight DEF TypeOK, verdict
<1> QED BY <1>1, AmountsType, PTL

(* A payment is attributed to the account that sent the last USDm transfer  *)
(* to the gateway, in a transaction of any number of logs, whatever the     *)
(* transfer came to.                                                        *)
THEOREM PayerSentLastHolds == Spec => []PayerSentLast
<1>1. TypeOK => PayerSentLast
  BY PayerPaid DEF TypeOK, PayerSentLast, LastContributor, verdict
<1> QED BY <1>1, AmountsType, PTL

(* Logs of other contracts change nothing.                                  *)
THEOREM ForeignLogsIgnoredHolds == Spec => []ForeignLogsIgnored
<1>1. TypeOK => ForeignLogsIgnored
  BY OthersDoNotCount DEF TypeOK, ForeignLogsIgnored, UsdmLogs, verdict
<1> QED BY <1>1, AmountsType, PTL
=============================================================================
