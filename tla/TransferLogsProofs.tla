-------------------------- MODULE TransferLogsProofs --------------------------
(***************************************************************************)
(* What verifyTransferLogs computes, for transactions with any number of    *)
(* logs of any value: the loop finds exactly what the transaction pays, the *)
(* payer is one who did pay, and logs of other contracts do not count.      *)
(*                                                                         *)
(* These are inductions over the logs.  They are done with sets of natural  *)
(* numbers (SetInduction), which rests on the naturals being well founded;  *)
(* and since a recursive function is a CHOOSE, each is first shown to       *)
(* satisfy its equation (Recursion).                                        *)
(***************************************************************************)
EXTENDS TransferLogs, FiniteSetTheorems, SequenceTheorems, WellFoundedInduction, TLAPS

-----------------------------------------------------------------------------
(* Induction and recursion. *)

(* A set of natural numbers has a least element. *)
LEMMA LeastNatural ==
  ASSUME NEW S, S \subseteq Nat, S # {}
  PROVE  \E n \in S : \A m \in S : n <= m
<1> DEFINE R == OpToRel(<, Nat)
<1>1. \E n \in S : \A m \in S : <<m, n>> \notin R
  <2> HIDE DEF R
  <2>1. IsWellFoundedOn(R, Nat)
    BY NatLessThanWellFounded DEF R
  <2> QED BY <2>1, WFMin
<1>2. \A x, y \in Nat : y < x => <<y, x>> \in R
  BY DEF OpToRel
<1> HIDE DEF R
<1>3. PICK n \in S : \A m \in S : <<m, n>> \notin R
  BY <1>1
<1>4. \A m \in S : n <= m
  <2> TAKE m \in S
  <2>1. m \in Nat /\ n \in Nat
    OBVIOUS
  <2>2. ~(m < n)
    BY <1>2, <1>3, <2>1
  <2> QED BY <2>1, <2>2
<1> QED BY <1>4

(* Induction: a set with 0 and the successors of its elements has them all. *)
LEMMA SetInduction ==
  ASSUME NEW S, 0 \in S, \A n \in Nat : n \in S => n + 1 \in S
  PROVE  Nat \subseteq S
<1> SUFFICES ASSUME Nat \ S # {} PROVE FALSE
  OBVIOUS
<1>1. PICK n \in Nat \ S : \A m \in Nat \ S : n <= m
  BY LeastNatural
<1>2. n # 0 /\ n - 1 \in Nat /\ n - 1 \in S
  BY <1>1
<1> QED BY <1>2

(* "f" has the first value "a" and follows "step" up to n. *)
Follows(f, a, step, n) ==
  f[0] = a /\ \A i \in 0 .. n - 1 : f[i + 1] = step[<<i + 1, f[i]>>]

(* Two sequences that follow the same steps are the same. *)
LEMMA OneSequence ==
  ASSUME NEW a, NEW step, NEW k \in Nat, NEW f, NEW g,
         Follows(f, a, step, k), Follows(g, a, step, k)
  PROVE  \A i \in 0 .. k : f[i] = g[i]
<1> DEFINE S == {n \in Nat : n <= k => f[n] = g[n]}
<1>1. 0 \in S
  BY DEF Follows
<1>2. ASSUME NEW n \in Nat, n \in S PROVE n + 1 \in S
  <2> SUFFICES ASSUME n + 1 <= k PROVE f[n + 1] = g[n + 1]
    OBVIOUS
  <2>1. f[n] = g[n] /\ n \in 0 .. k - 1
    BY <1>2
  <2> QED BY <2>1 DEF Follows
<1>3. Nat \subseteq S
  <2> HIDE DEF S
  <2> QED BY <1>1, <1>2, SetInduction
<1> QED BY <1>3

(* There is one up to each n. *)
LEMMA SomeSequence ==
  ASSUME NEW A, NEW a \in A, NEW step, \A i \in Nat, x \in A : step[<<i, x>>] \in A,
         NEW k \in Nat
  PROVE  \E f \in [0 .. k -> A] : Follows(f, a, step, k)
<1> DEFINE S == {n \in Nat : \E f \in [0 .. n -> A] : Follows(f, a, step, n)}
<1>1. 0 \in S
  <2> DEFINE f == [i \in 0 .. 0 |-> a]
  <2>1. f \in [0 .. 0 -> A] /\ Follows(f, a, step, 0)
    BY DEF Follows
  <2> QED BY <2>1
<1>2. ASSUME NEW n \in Nat, n \in S PROVE n + 1 \in S
  <2>1. PICK f \in [0 .. n -> A] : Follows(f, a, step, n)
    BY <1>2
  <2> DEFINE last == step[<<n + 1, f[n]>>]
             g == [i \in 0 .. n + 1 |-> IF i = n + 1 THEN last ELSE f[i]]
  <2>2. last \in A
    <3>1. n + 1 \in Nat /\ f[n] \in A
      OBVIOUS
    <3> QED BY <3>1
  <2>3. g \in [0 .. n + 1 -> A]
    <3> HIDE DEF last
    <3> QED BY <2>2
  <2>4. g[0] = a
    BY <2>1 DEF Follows
  <2>5. ASSUME NEW i \in 0 .. n PROVE g[i + 1] = step[<<i + 1, g[i]>>]
    <3>1. CASE i = n
      <4>1. g[n + 1] = last /\ g[n] = f[n]
        OBVIOUS
      <4> HIDE DEF g
      <4> QED BY <3>1, <4>1
    <3>2. CASE i < n
      <4>1. g[i] = f[i] /\ g[i + 1] = f[i + 1] /\ i \in 0 .. n - 1
        BY <3>2
      <4> HIDE DEF g
      <4> QED BY <2>1, <4>1 DEF Follows
    <3> QED BY <3>1, <3>2
  <2>6. Follows(g, a, step, n + 1)
    <3> HIDE DEF g
    <3> QED BY <2>4, <2>5 DEF Follows
  <2> HIDE DEF g
  <2> QED BY <2>3, <2>6
<1>3. Nat \subseteq S
  <2> HIDE DEF S
  <2> QED BY <1>1, <1>2, SetInduction
<1> QED BY <1>3

FollowsForever(f, a, step) ==
  f[0] = a /\ \A i \in Nat : f[i + 1] = step[<<i + 1, f[i]>>]

(* A step function and a first value define a sequence of values. *)
LEMMA Recursion ==
  ASSUME NEW A, NEW a \in A, NEW step, \A i \in Nat, x \in A : step[<<i, x>>] \in A
  PROVE  \E f \in [Nat -> A] : FollowsForever(f, a, step)
<1> DEFINE F(n) == CHOOSE f \in [0 .. n -> A] : Follows(f, a, step, n)
           f == [n \in Nat |-> F(n)[n]]
<1>1. ASSUME NEW n \in Nat PROVE F(n) \in [0 .. n -> A] /\ Follows(F(n), a, step, n)
  BY SomeSequence
<1> HIDE DEF F
<1>2. f[0] = a
  BY <1>1 DEF Follows
<1>3. ASSUME NEW n \in Nat PROVE f[n + 1] = step[<<n + 1, f[n]>>]
  <2>1. F(n + 1)[n + 1] = step[<<n + 1, F(n + 1)[n]>>] /\ Follows(F(n + 1), a, step, n)
    BY <1>1 DEF Follows
  <2>2. F(n + 1)[n] = F(n)[n]
    BY <1>1, <2>1, OneSequence
  <2> QED BY <2>1, <2>2
<1>4. f \in [Nat -> A]
  BY <1>1
<1> HIDE DEF f
<1>5. FollowsForever(f, a, step)
  BY <1>2, <1>3 DEF FollowsForever
<1> QED BY <1>4, <1>5

-----------------------------------------------------------------------------
(* The loop. *)

Tally == [total : Nat, payer : Accounts \cup {NoPayer}]

EmptyTally == [total |-> 0, payer |-> NoPayer]

LEMMA AddTransferType ==
  ASSUME NEW paid \in Tally, NEW t \in Log, NEW recipient
  PROVE  AddTransfer(paid, t, recipient) \in Tally
BY DEF AddTransfer, Tally, Log

(* "f" is the sequence of what the loop has found after each transfer. *)
Finds(f, transfers, recipient) ==
  /\ f[0] = EmptyTally
  /\ \A i \in 1 .. Len(transfers) : f[i] = AddTransfer(f[i - 1], transfers[i], recipient)

LEMMA SumIs ==
  ASSUME NEW transfers \in Seq(Log), NEW recipient, NEW f, Finds(f, transfers, recipient)
  PROVE  SumTransfers(transfers, recipient) = f[Len(transfers)]
<1> DEFINE n == Len(transfers)
           Equation(g) == g = [i \in 0 .. n |->
                                 IF i = 0 THEN EmptyTally
                                 ELSE AddTransfer(g[i - 1], transfers[i], recipient)]
           c == CHOOSE g : Equation(g)
           h == [i \in 0 .. n |-> f[i]]
<1>1. n \in Nat
  OBVIOUS
<1>2. Equation(h)
  <2> SUFFICES ASSUME NEW i \in 0 .. n
               PROVE  f[i] = IF i = 0 THEN EmptyTally
                             ELSE AddTransfer(h[i - 1], transfers[i], recipient)
    BY <1>1
  <2>1. CASE i = 0
    BY <2>1 DEF Finds
  <2>2. CASE i # 0
    <3>1. i \in 1 .. n /\ i - 1 \in 0 .. n
      BY <1>1, <2>2
    <3>2. h[i - 1] = f[i - 1]
      BY <3>1
    <3> QED BY <2>2, <3>1, <3>2 DEF Finds
  <2> QED BY <2>1, <2>2
<1>3. Equation(c)
  BY <1>2
<1> HIDE DEF c, h
<1> DEFINE S == {i \in Nat : i <= n => c[i] = f[i]}
<1>4. 0 \in S
  BY <1>1, <1>3 DEF Finds
<1>5. ASSUME NEW i \in Nat, i \in S PROVE i + 1 \in S
  <2> SUFFICES ASSUME i + 1 <= n PROVE c[i + 1] = f[i + 1]
    OBVIOUS
  <2>1. i + 1 \in 1 .. n /\ i + 1 \in 0 .. n /\ i + 1 # 0 /\ (i + 1) - 1 = i
    BY <1>1
  <2>2. c[i + 1] = AddTransfer(c[i], transfers[i + 1], recipient)
    BY <1>3, <2>1
  <2>3. f[i + 1] = AddTransfer(f[i], transfers[i + 1], recipient)
    BY <2>1 DEF Finds
  <2>4. c[i] = f[i]
    BY <1>1, <1>5, <2>1
  <2> QED BY <2>2, <2>3, <2>4
<1>6. Nat \subseteq S
  <2> HIDE DEF S
  <2> QED BY <1>4, <1>5, SetInduction
<1>7. SumTransfers(transfers, recipient) = c[n]
  BY DEF SumTransfers, c, EmptyTally
<1> QED BY <1>1, <1>6, <1>7

LEMMA LoopEnds ==
  ASSUME NEW transfers \in Seq(Log), NEW recipient
  PROVE  \E f \in [0 .. Len(transfers) -> Tally] : Finds(f, transfers, recipient)
<1> DEFINE n == Len(transfers)
           step == [x \in Nat \X Tally |->
                      IF x[1] \in 1 .. n THEN AddTransfer(x[2], transfers[x[1]], recipient)
                      ELSE x[2]]
<1>1. n \in Nat /\ EmptyTally \in Tally
  BY DEF EmptyTally, Tally
<1>2. \A i \in Nat, x \in Tally :
        step[<<i, x>>] = IF i \in 1 .. n THEN AddTransfer(x, transfers[i], recipient) ELSE x
  OBVIOUS
<1>3. \A i \in Nat, x \in Tally : step[<<i, x>>] \in Tally
  <2> SUFFICES ASSUME NEW i \in Nat, NEW x \in Tally PROVE step[<<i, x>>] \in Tally
    OBVIOUS
  <2>1. i \in 1 .. n => transfers[i] \in Log
    OBVIOUS
  <2> HIDE DEF step
  <2> QED BY <1>2, <2>1, AddTransferType
<1> HIDE DEF step
<1>4. PICK f \in [0 .. n -> Tally] : Follows(f, EmptyTally, step, n)
  BY <1>1, <1>3, SomeSequence
<1>5. ASSUME NEW i \in 1 .. n PROVE f[i] = AddTransfer(f[i - 1], transfers[i], recipient)
  <2>1. i - 1 \in 0 .. n - 1 /\ i - 1 \in 0 .. n /\ (i - 1) + 1 = i /\ i \in Nat
    BY <1>1
  <2>2. f[i - 1] \in Tally /\ f[i] = step[<<i, f[i - 1]>>]
    BY <1>4, <2>1 DEF Follows
  <2> QED BY <1>2, <2>1, <2>2
<1> QED BY <1>4, <1>5 DEF Finds, Follows

(* One more transfer. *)
LEMMA SumAppend ==
  ASSUME NEW transfers \in Seq(Log), NEW t \in Log, NEW recipient
  PROVE  SumTransfers(Append(transfers, t), recipient)
           = AddTransfer(SumTransfers(transfers, recipient), t, recipient)
<1> DEFINE longer == Append(transfers, t)
           n == Len(transfers)
<1>1. /\ longer \in Seq(Log) /\ Len(longer) = n + 1 /\ n \in Nat
      /\ \A i \in 1 .. n : longer[i] = transfers[i]
      /\ longer[n + 1] = t
  BY AppendProperties
<1> HIDE DEF longer
<1>2. PICK f \in [0 .. n + 1 -> Tally] : Finds(f, longer, recipient)
  BY <1>1, LoopEnds
<1>3. SumTransfers(longer, recipient) = f[n + 1]
  BY <1>1, <1>2, SumIs
<1>4. Finds(f, transfers, recipient)
  BY <1>1, <1>2 DEF Finds
<1>5. SumTransfers(transfers, recipient) = f[n]
  BY <1>4, SumIs
<1>6. f[n + 1] = AddTransfer(f[n], t, recipient)
  BY <1>1, <1>2 DEF Finds
<1> QED BY <1>3, <1>5, <1>6 DEF longer

LEMMA SumEmpty ==
  ASSUME NEW recipient
  PROVE  SumTransfers(<<>>, recipient) = EmptyTally
<1>1. <<>> \in Seq(Log) /\ Len(<<>>) = 0
  OBVIOUS
<1>2. PICK f \in [0 .. 0 -> Tally] : Finds(f, <<>>, recipient)
  BY <1>1, LoopEnds
<1> QED BY <1>1, <1>2, SumIs DEF Finds

LEMMA SumType ==
  ASSUME NEW transfers \in Seq(Log), NEW recipient
  PROVE  SumTransfers(transfers, recipient) \in Tally
<1>1. PICK f \in [0 .. Len(transfers) -> Tally] : Finds(f, transfers, recipient)
  BY LoopEnds
<1> QED BY <1>1, SumIs

-----------------------------------------------------------------------------
(* The filters. *)

Keep(kept, l, wanted) == IF l \in wanted THEN Append(kept, l) ELSE kept

LEMMA KeepType ==
  ASSUME NEW kept \in Seq(Log), NEW l \in Log, NEW wanted
  PROVE  Keep(kept, l, wanted) \in Seq(Log)
BY AppendProperties DEF Keep

(* "f" is the sequence of what the filter has kept after each log. *)
Keeps(f, logs, wanted) ==
  /\ f[0] = <<>>
  /\ \A i \in 1 .. Len(logs) : f[i] = Keep(f[i - 1], logs[i], wanted)

LEMMA SelectedIs ==
  ASSUME NEW logs \in Seq(Log), NEW wanted, NEW f, Keeps(f, logs, wanted)
  PROVE  Selected(logs, wanted) = f[Len(logs)]
<1> DEFINE n == Len(logs)
           Equation(g) == g = [i \in 0 .. n |->
                                 IF i = 0 THEN <<>>
                                 ELSE IF logs[i] \in wanted THEN Append(g[i - 1], logs[i])
                                 ELSE g[i - 1]]
           c == CHOOSE g : Equation(g)
           h == [i \in 0 .. n |-> f[i]]
<1>1. n \in Nat
  OBVIOUS
<1>2. Equation(h)
  <2> SUFFICES ASSUME NEW i \in 0 .. n
               PROVE  f[i] = IF i = 0 THEN <<>>
                             ELSE IF logs[i] \in wanted THEN Append(h[i - 1], logs[i])
                             ELSE h[i - 1]
    BY <1>1
  <2>1. CASE i = 0
    BY <2>1 DEF Keeps
  <2>2. CASE i # 0
    <3>1. i \in 1 .. n /\ i - 1 \in 0 .. n
      BY <1>1, <2>2
    <3>2. h[i - 1] = f[i - 1]
      BY <3>1
    <3> QED BY <2>2, <3>1, <3>2 DEF Keeps, Keep
  <2> QED BY <2>1, <2>2
<1>3. Equation(c)
  BY <1>2
<1> HIDE DEF c, h
<1> DEFINE S == {i \in Nat : i <= n => c[i] = f[i]}
<1>4. 0 \in S
  BY <1>1, <1>3 DEF Keeps
<1>5. ASSUME NEW i \in Nat, i \in S PROVE i + 1 \in S
  <2> SUFFICES ASSUME i + 1 <= n PROVE c[i + 1] = f[i + 1]
    OBVIOUS
  <2>1. i + 1 \in 1 .. n /\ i + 1 \in 0 .. n /\ i + 1 # 0 /\ (i + 1) - 1 = i
    BY <1>1
  <2>2. c[i + 1] = Keep(c[i], logs[i + 1], wanted)
    BY <1>3, <2>1 DEF Keep
  <2>3. f[i + 1] = Keep(f[i], logs[i + 1], wanted)
    BY <2>1 DEF Keeps
  <2>4. c[i] = f[i]
    BY <1>1, <1>5, <2>1
  <2> QED BY <2>2, <2>3, <2>4
<1>6. Nat \subseteq S
  <2> HIDE DEF S
  <2> QED BY <1>4, <1>5, SetInduction
<1>7. Selected(logs, wanted) = c[n]
  BY DEF Selected, c
<1> QED BY <1>1, <1>6, <1>7

LEMMA FilterEnds ==
  ASSUME NEW logs \in Seq(Log), NEW wanted
  PROVE  \E f \in [0 .. Len(logs) -> Seq(Log)] : Keeps(f, logs, wanted)
<1> DEFINE n == Len(logs)
           step == [x \in Nat \X Seq(Log) |->
                      IF x[1] \in 1 .. n THEN Keep(x[2], logs[x[1]], wanted) ELSE x[2]]
<1>1. n \in Nat /\ <<>> \in Seq(Log)
  OBVIOUS
<1>2. \A i \in Nat, x \in Seq(Log) :
        step[<<i, x>>] = IF i \in 1 .. n THEN Keep(x, logs[i], wanted) ELSE x
  OBVIOUS
<1>3. \A i \in Nat, x \in Seq(Log) : step[<<i, x>>] \in Seq(Log)
  <2> SUFFICES ASSUME NEW i \in Nat, NEW x \in Seq(Log) PROVE step[<<i, x>>] \in Seq(Log)
    OBVIOUS
  <2>1. i \in 1 .. n => logs[i] \in Log
    OBVIOUS
  <2> HIDE DEF step
  <2>2. step[<<i, x>>] = IF i \in 1 .. n THEN Keep(x, logs[i], wanted) ELSE x
    BY <1>2
  <2> QED BY <2>1, <2>2, KeepType
<1> HIDE DEF step
<1>4. PICK f \in [0 .. n -> Seq(Log)] : Follows(f, <<>>, step, n)
  BY <1>1, <1>3, SomeSequence
<1>5. ASSUME NEW i \in 1 .. n PROVE f[i] = Keep(f[i - 1], logs[i], wanted)
  <2>1. i - 1 \in 0 .. n - 1 /\ i - 1 \in 0 .. n /\ (i - 1) + 1 = i /\ i \in Nat
    BY <1>1
  <2>2. f[i - 1] \in Seq(Log) /\ f[i] = step[<<i, f[i - 1]>>]
    BY <1>4, <2>1 DEF Follows
  <2> QED BY <1>2, <2>1, <2>2
<1> QED BY <1>4, <1>5 DEF Keeps, Follows

LEMMA SelectedType ==
  ASSUME NEW logs \in Seq(Log), NEW wanted
  PROVE  Selected(logs, wanted) \in Seq(Log)
<1>1. PICK f \in [0 .. Len(logs) -> Seq(Log)] : Keeps(f, logs, wanted)
  BY FilterEnds
<1> QED BY <1>1, SelectedIs

(* One more log. *)
LEMMA SelectedAppend ==
  ASSUME NEW logs \in Seq(Log), NEW l \in Log, NEW wanted
  PROVE  Selected(Append(logs, l), wanted) = Keep(Selected(logs, wanted), l, wanted)
<1> DEFINE longer == Append(logs, l)
           n == Len(logs)
<1>1. /\ longer \in Seq(Log) /\ Len(longer) = n + 1 /\ n \in Nat
      /\ \A i \in 1 .. n : longer[i] = logs[i]
      /\ longer[n + 1] = l
  BY AppendProperties
<1> HIDE DEF longer
<1>2. PICK f \in [0 .. n + 1 -> Seq(Log)] : Keeps(f, longer, wanted)
  BY <1>1, FilterEnds
<1>3. Selected(longer, wanted) = f[n + 1]
  BY <1>1, <1>2, SelectedIs
<1>4. Keeps(f, logs, wanted)
  BY <1>1, <1>2 DEF Keeps
<1>5. Selected(logs, wanted) = f[n]
  BY <1>4, SelectedIs
<1>6. f[n + 1] = Keep(f[n], l, wanted)
  BY <1>1, <1>2 DEF Keeps
<1> QED BY <1>3, <1>5, <1>6 DEF longer

LEMMA SelectedEmpty == \A wanted : Selected(<<>>, wanted) = <<>>
<1> TAKE wanted
<1>1. <<>> \in Seq(Log) /\ Len(<<>>) = 0
  OBVIOUS
<1>2. PICK f \in [0 .. 0 -> Seq(Log)] : Keeps(f, <<>>, wanted)
  BY <1>1, FilterEnds
<1> QED BY <1>1, <1>2, SelectedIs DEF Keeps

(* Induction over the logs of a transaction. *)
LEMMA LogsInduction ==
  ASSUME NEW T, <<>> \in T,
         \A logs \in Seq(Log), l \in Log : logs \in T => Append(logs, l) \in T
  PROVE  Seq(Log) \subseteq T
<1> DEFINE S == {n \in Nat : \A logs \in Seq(Log) : Len(logs) = n => logs \in T}
<1>1. 0 \in S
  <2> SUFFICES ASSUME NEW logs \in Seq(Log), Len(logs) = 0 PROVE logs \in T
    OBVIOUS
  <2>1. logs = <<>>
    BY EmptySeq
  <2> QED BY <2>1
<1>2. ASSUME NEW n \in Nat, n \in S PROVE n + 1 \in S
  <2> SUFFICES ASSUME NEW logs \in Seq(Log), Len(logs) = n + 1 PROVE logs \in T
    OBVIOUS
  <2>1. logs # <<>>
    BY EmptySeq
  <2>2. PICK s \in Seq(Log), l \in Log : logs = Append(s, l)
    BY <2>1, SequenceEmptyOrAppend
  <2>3. Len(s) \in Nat /\ Len(logs) = Len(s) + 1
    BY <2>2, AppendProperties
  <2>4. s \in T
    BY <1>2, <2>3
  <2> QED BY <2>2, <2>4
<1>3. Nat \subseteq S
  <2> HIDE DEF S
  <2> QED BY <1>1, <1>2, SetInduction
<1> QED BY <1>3

(* To filter two times is to filter once. *)
LEMMA SelectedTwice ==
  ASSUME NEW logs \in Seq(Log), NEW wanted
  PROVE  Selected(Selected(logs, wanted), wanted) = Selected(logs, wanted)
<1> DEFINE T == {s \in Seq(Log) : Selected(Selected(s, wanted), wanted) = Selected(s, wanted)}
<1>1. <<>> \in T
  BY SelectedEmpty
<1>2. ASSUME NEW s \in Seq(Log), NEW l \in Log, s \in T PROVE Append(s, l) \in T
  <2> DEFINE k == Selected(s, wanted)
  <2>1. k \in Seq(Log) /\ Selected(k, wanted) = k
    BY <1>2, SelectedType
  <2>2. Selected(Append(s, l), wanted) = Keep(k, l, wanted)
    BY SelectedAppend
  <2>3. Selected(Append(k, l), wanted) = Keep(k, l, wanted)
    BY <2>1, SelectedAppend
  <2>4. Selected(Keep(k, l, wanted), wanted) = Keep(k, l, wanted)
    BY <2>1, <2>3 DEF Keep
  <2> QED BY <2>2, <2>4
<1>3. Seq(Log) \subseteq T
  <2> HIDE DEF T
  <2> QED BY <1>1, <1>2, LogsInduction
<1> QED BY <1>3

-----------------------------------------------------------------------------
(* The sum of the values of a set of logs, in whatever order. *)

Value(logs, s, i) == IF i \in s THEN logs[i].value ELSE 0

(* "f" has the sums of the logs of s among the first i. *)
Adds(f, logs, s) ==
  /\ f \in [0 .. Len(logs) -> Nat]
  /\ f[0] = 0
  /\ \A i \in 1 .. Len(logs) : f[i] = f[i - 1] + Value(logs, s, i)

LEMMA SomeSum ==
  ASSUME NEW logs \in Seq(Log), NEW s
  PROVE  \E f : Adds(f, logs, s)
<1> DEFINE n == Len(logs)
           step == [x \in Nat \X Nat |-> IF x[1] \in 1 .. n THEN x[2] + Value(logs, s, x[1])
                                         ELSE x[2]]
<1>1. n \in Nat
  OBVIOUS
<1>2. \A i \in Nat, x \in Nat :
        step[<<i, x>>] = IF i \in 1 .. n THEN x + Value(logs, s, i) ELSE x
  OBVIOUS
<1>3. \A i \in 1 .. n : Value(logs, s, i) \in Nat
  <2> TAKE i \in 1 .. n
  <2>1. logs[i] \in Log
    OBVIOUS
  <2> QED BY <2>1 DEF Value, Log
<1>4. \A i \in Nat, x \in Nat : step[<<i, x>>] \in Nat
  <2> SUFFICES ASSUME NEW i \in Nat, NEW x \in Nat PROVE step[<<i, x>>] \in Nat
    OBVIOUS
  <2> HIDE DEF step
  <2>1. step[<<i, x>>] = IF i \in 1 .. n THEN x + Value(logs, s, i) ELSE x
    BY <1>2
  <2>2. i \in 1 .. n => Value(logs, s, i) \in Nat
    BY <1>3
  <2> QED BY <2>1, <2>2
<1> HIDE DEF step
<1>5. PICK f \in [0 .. n -> Nat] : Follows(f, 0, step, n)
  BY <1>1, <1>4, SomeSequence
<1>6. ASSUME NEW i \in 1 .. n PROVE f[i] = f[i - 1] + Value(logs, s, i)
  <2>1. i - 1 \in 0 .. n - 1 /\ i - 1 \in 0 .. n /\ (i - 1) + 1 = i /\ i \in Nat
    BY <1>1
  <2>2. f[i - 1] \in Nat /\ f[i] = step[<<i, f[i - 1]>>]
    BY <1>5, <2>1 DEF Follows
  <2> QED BY <1>2, <2>1, <2>2
<1> QED BY <1>5, <1>6 DEF Adds, Follows

(* With one log less, the sum is less by its value. *)
LEMMA SumWithout ==
  ASSUME NEW logs \in Seq(Log), NEW s \in SUBSET (1 .. Len(logs)), NEW x \in s,
         NEW f, Adds(f, logs, s), NEW g, Adds(g, logs, s \ {x})
  PROVE  f[Len(logs)] = g[Len(logs)] + logs[x].value
<1> DEFINE n == Len(logs)
           v == logs[x].value
           S == {i \in Nat : i <= n => f[i] = g[i] + IF x <= i THEN v ELSE 0}
<1>1. n \in Nat /\ x \in 1 .. n /\ v \in Nat
  <2>1. n \in Nat /\ x \in 1 .. n
    OBVIOUS
  <2>2. logs[x] \in Log
    BY <2>1
  <2> QED BY <2>1, <2>2 DEF Log
<1> HIDE DEF v
<1>2. 0 \in S
  BY <1>1 DEF Adds
<1>3. ASSUME NEW i \in Nat, i \in S PROVE i + 1 \in S
  <2> SUFFICES ASSUME i + 1 <= n
               PROVE  f[i + 1] = g[i + 1] + IF x <= i + 1 THEN v ELSE 0
    OBVIOUS
  <2>1. i + 1 \in 1 .. n /\ i \in 0 .. n /\ (i + 1) - 1 = i
    BY <1>1
  <2>2. f[i + 1] = f[i] + Value(logs, s, i + 1) /\ g[i + 1] = g[i] + Value(logs, s \ {x}, i + 1)
    BY <2>1 DEF Adds
  <2>3. f[i] = g[i] + IF x <= i THEN v ELSE 0
    BY <1>1, <1>3, <2>1
  <2>4. f[i] \in Nat /\ g[i] \in Nat
    BY <2>1 DEF Adds
  <2>5. Value(logs, s \ {x}, i + 1) \in Nat
    <3>1. logs[i + 1] \in Log
      BY <2>1
    <3> QED BY <3>1 DEF Value, Log
  <2>6. CASE i + 1 = x
    <3>1. Value(logs, s, i + 1) = v /\ Value(logs, s \ {x}, i + 1) = 0
      BY <2>6 DEF Value, v
    <3> QED BY <1>1, <2>2, <2>3, <2>4, <2>6, <3>1
  <2>7. CASE i + 1 # x
    <3>1. Value(logs, s, i + 1) = Value(logs, s \ {x}, i + 1)
      BY <2>7 DEF Value
    <3>2. x <= i + 1 <=> x <= i
      BY <1>1, <2>7
    <3> QED BY <1>1, <2>2, <2>3, <2>4, <2>5, <3>1, <3>2
  <2> QED BY <2>6, <2>7
<1>4. Nat \subseteq S
  <2> HIDE DEF S
  <2> QED BY <1>2, <1>3, SetInduction
<1>5. f[n] = g[n] + IF x <= n THEN v ELSE 0
  BY <1>1, <1>4
<1> QED BY <1>1, <1>5 DEF v

LEMMA SumOfNone ==
  ASSUME NEW logs \in Seq(Log), NEW f, Adds(f, logs, {})
  PROVE  f[Len(logs)] = 0
<1> DEFINE n == Len(logs)
           S == {i \in Nat : i <= n => f[i] = 0}
<1>1. 0 \in S
  BY DEF Adds
<1>2. ASSUME NEW i \in Nat, i \in S PROVE i + 1 \in S
  <2> SUFFICES ASSUME i + 1 <= n PROVE f[i + 1] = 0
    OBVIOUS
  <2>1. i + 1 \in 1 .. n /\ (i + 1) - 1 = i
    OBVIOUS
  <2>2. f[i + 1] = f[i] + 0
    BY <2>1 DEF Adds, Value
  <2> QED BY <1>2, <2>2
<1>3. Nat \subseteq S
  <2> HIDE DEF S
  <2> QED BY <1>1, <1>2, SetInduction
<1> QED BY <1>3

(* Whatever element is taken next, Received comes to the sum in the order   *)
(* of the logs.                                                             *)
LEMMA ReceivedIs ==
  ASSUME NEW logs \in Seq(Log), NEW recipient,
         NEW f, Adds(f, logs, Contributions(logs, recipient))
  PROVE  Received(logs, recipient) = f[Len(logs)]
<1> DEFINE C == Contributions(logs, recipient)
           n == Len(logs)
           Sum(s) == (CHOOSE g : Adds(g, logs, s))[n]
           Pick(s) == CHOOSE j \in s : TRUE
           Equation(g) == g = [s \in SUBSET C |->
                                 IF s = {} THEN 0
                                 ELSE logs[Pick(s)].value + g[s \ {Pick(s)}]]
           c == CHOOSE g : Equation(g)
           h == [s \in SUBSET C |-> Sum(s)]
<1>1. n \in Nat /\ C \subseteq 1 .. n /\ IsFiniteSet(C)
  <2>1. n \in Nat /\ C \subseteq 1 .. n
    BY DEF Contributions
  <2>2. IsFiniteSet(1 .. n)
    BY <2>1, FS_Interval
  <2> QED BY <2>1, <2>2, FS_Subset
<1>2. ASSUME NEW s \in SUBSET C, NEW g, Adds(g, logs, s) PROVE g[n] = Sum(s)
  <2> DEFINE k == CHOOSE k : Adds(k, logs, s)
  <2>1. Adds(k, logs, s)
    BY SomeSum
  <2> HIDE DEF k
  <2> DEFINE S == {i \in Nat : i <= n => g[i] = k[i]}
  <2>2. 0 \in S
    BY <1>1, <1>2, <2>1 DEF Adds
  <2>3. ASSUME NEW i \in Nat, i \in S PROVE i + 1 \in S
    <3> SUFFICES ASSUME i + 1 <= n PROVE g[i + 1] = k[i + 1]
      OBVIOUS
    <3>1. i + 1 \in 1 .. n /\ (i + 1) - 1 = i /\ i <= n
      BY <1>1
    <3> QED BY <1>2, <2>1, <2>3, <3>1 DEF Adds
  <2>4. Nat \subseteq S
    <3> HIDE DEF S
    <3> QED BY <2>2, <2>3, SetInduction
  <2>5. g[n] = k[n]
    BY <1>1, <2>4
  <2> QED BY <2>5 DEF k
<1>3. \A s \in SUBSET C : \E g : Adds(g, logs, s)
  BY SomeSum
<1>4. Sum({}) = 0
  <2>1. PICK g : Adds(g, logs, {})
    BY <1>3
  <2>2. g[n] = 0
    BY <2>1, SumOfNone
  <2> HIDE DEF Sum
  <2> QED BY <1>2, <2>1, <2>2
<1>5. ASSUME NEW s \in SUBSET C, NEW x \in s PROVE Sum(s) = logs[x].value + Sum(s \ {x})
  <2>1. PICK g : Adds(g, logs, s)
    BY <1>3
  <2>2. PICK k : Adds(k, logs, s \ {x})
    BY <1>3
  <2>3. g[n] = k[n] + logs[x].value
    BY <1>1, <2>1, <2>2, SumWithout
  <2>4. g[n] = Sum(s) /\ k[n] = Sum(s \ {x})
    <3> HIDE DEF Sum
    <3> QED BY <1>2, <2>1, <2>2
  <2>5. k[n] \in Nat /\ logs[x].value \in Nat
    <3>1. n \in 0 .. n /\ x \in 1 .. n
      BY <1>1
    <3>2. logs[x] \in Log
      BY <3>1
    <3>3. k[n] \in Nat
      BY <2>2, <3>1 DEF Adds
    <3> QED BY <3>2, <3>3 DEF Log
  <2> QED BY <2>3, <2>4, <2>5
<1> HIDE DEF Sum
<1>6. \A s \in SUBSET C : s # {} => Pick(s) \in s
  OBVIOUS
<1> HIDE DEF Pick
<1>7. Equation(h)
  BY <1>4, <1>5, <1>6
<1>8. Equation(c)
  BY <1>7
<1> HIDE DEF c
<1> DEFINE Different == {s \in SUBSET C : c[s] # Sum(s)}
<1>9. ASSUME Different # {} PROVE FALSE
  <2>1. IsWellFoundedOn(StrictSubsetOrdering(C), SUBSET C)
    BY <1>1, FS_StrictSubsetOrderingWellFounded, FS_FiniteSubsetsOfFinite
  <2>2. PICK s \in Different : \A t \in Different : <<t, s>> \notin StrictSubsetOrdering(C)
    BY <1>9, <2>1, WFMin
  <2>3. s # {}
    BY <1>4, <1>8, <2>2
  <2> DEFINE t == s \ {Pick(s)}
  <2>4. Pick(s) \in s /\ t \in SUBSET C /\ t # s /\ t \subseteq s
    BY <1>6, <2>2, <2>3
  <2>5. <<t, s>> \in StrictSubsetOrdering(C)
    BY <2>2, <2>4 DEF StrictSubsetOrdering
  <2>6. c[t] = Sum(t)
    BY <2>2, <2>4, <2>5
  <2>7. c[s] = logs[Pick(s)].value + c[t]
    BY <1>8, <2>3
  <2> QED BY <1>5, <2>2, <2>4, <2>6, <2>7
<1>10. c[C] = Sum(C)
  BY <1>9
<1>11. Received(logs, recipient) = c[C]
  BY DEF Received, c, Pick
<1> QED BY <1>2, <1>10, <1>11

-----------------------------------------------------------------------------
(* The verdict. *)

Contributes(l, recipient) == l.address = USDm /\ l.event = "Transfer" /\ l.to = recipient

(* One more log: it counts when it is a transfer of USDm to the recipient. *)
LEMMA ReceivedAppend ==
  ASSUME NEW logs \in Seq(Log), NEW l \in Log, NEW recipient
  PROVE  Received(Append(logs, l), recipient)
           = Received(logs, recipient) + IF Contributes(l, recipient) THEN l.value ELSE 0
<1> DEFINE longer == Append(logs, l)
           n == Len(logs)
           C == Contributions(logs, recipient)
           D == Contributions(longer, recipient)
<1>1. /\ longer \in Seq(Log) /\ Len(longer) = n + 1 /\ n \in Nat
      /\ \A i \in 1 .. n : longer[i] = logs[i]
      /\ longer[n + 1] = l
  BY AppendProperties
<1> HIDE DEF longer
<1>2. PICK f : Adds(f, longer, D)
  BY <1>1, SomeSum
<1>3. Received(longer, recipient) = f[n + 1]
  BY <1>1, <1>2, ReceivedIs
<1> DEFINE g == [i \in 0 .. n |-> f[i]]
<1>4. ASSUME NEW i \in 1 .. n PROVE i \in C <=> i \in D
  BY <1>1 DEF Contributions
<1>5. Adds(g, logs, C)
  <2>1. g \in [0 .. n -> Nat] /\ g[0] = 0
    BY <1>1, <1>2 DEF Adds
  <2>2. ASSUME NEW i \in 1 .. n PROVE g[i] = g[i - 1] + Value(logs, C, i)
    <3>1. Value(logs, C, i) = Value(longer, D, i)
      BY <1>1, <1>4 DEF Value
    <3>2. i \in 1 .. n + 1 /\ i \in 0 .. n /\ i - 1 \in 0 .. n
      BY <1>1
    <3>3. f[i] = f[i - 1] + Value(longer, D, i)
      BY <1>1, <1>2, <3>2 DEF Adds
    <3> QED BY <3>1, <3>2, <3>3
  <2> QED BY <2>1, <2>2 DEF Adds
<1>6. Received(logs, recipient) = g[n] /\ g[n] = f[n]
  BY <1>1, <1>5, ReceivedIs
<1>7. f[n + 1] = f[n] + Value(longer, D, n + 1)
  <2>1. n + 1 \in 1 .. n + 1 /\ (n + 1) - 1 = n
    BY <1>1
  <2> QED BY <1>1, <1>2, <2>1 DEF Adds
<1>8. n + 1 \in D <=> Contributes(l, recipient)
  BY <1>1 DEF Contributions, Contributes
<1>9. Value(longer, D, n + 1) = IF Contributes(l, recipient) THEN l.value ELSE 0
  BY <1>1, <1>8 DEF Value
<1> QED BY <1>3, <1>6, <1>7, <1>9 DEF longer

LEMMA ReceivedEmpty == \A recipient : Received(<<>>, recipient) = 0
<1> TAKE recipient
<1>1. <<>> \in Seq(Log) /\ Len(<<>>) = 0
  OBVIOUS
<1>2. Contributions(<<>>, recipient) = {}
  BY DEF Contributions
<1>3. PICK f : Adds(f, <<>>, {})
  BY <1>1, SomeSum
<1> QED BY <1>1, <1>2, <1>3, SumOfNone, ReceivedIs

(* What the loop of verifyTransferLogs finds in a transaction. *)
Found(logs, recipient) == SumTransfers(DecodeTransfers(UsdmLogs(logs)), recipient)

LEMMA FoundType ==
  ASSUME NEW logs \in Seq(Log), NEW recipient
  PROVE  Found(logs, recipient) \in Tally
BY SelectedType, SumType DEF Found, UsdmLogs, DecodeTransfers

LEMMA FoundAppend ==
  ASSUME NEW logs \in Seq(Log), NEW l \in Log, NEW recipient
  PROVE  Found(Append(logs, l), recipient)
           = IF Contributes(l, recipient)
             THEN [total |-> Found(logs, recipient).total + l.value, payer |-> l.from]
             ELSE Found(logs, recipient)
<1> DEFINE U == {k \in Log : k.address = USDm}
           E == {k \in Log : k.event = "Transfer"}
           usdm == Selected(logs, U)
           sent == Selected(usdm, E)
<1>1. usdm \in Seq(Log) /\ sent \in Seq(Log)
  BY SelectedType
<1>2. Selected(Append(logs, l), U) = Keep(usdm, l, U)
  BY SelectedAppend
<1>3. Selected(Append(usdm, l), E) = Keep(sent, l, E)
  BY <1>1, SelectedAppend
<1>4. SumTransfers(Append(sent, l), recipient) = AddTransfer(SumTransfers(sent, recipient), l, recipient)
  BY <1>1, SumAppend
<1>5. Found(Append(logs, l), recipient) = SumTransfers(Selected(Keep(usdm, l, U), E), recipient)
  BY <1>2 DEF Found, UsdmLogs, DecodeTransfers
<1>6. Found(logs, recipient) = SumTransfers(sent, recipient)
  BY DEF Found, UsdmLogs, DecodeTransfers
<1> HIDE DEF usdm, sent
<1>7. CASE l \notin U
  BY <1>5, <1>6, <1>7 DEF Keep, Contributes, sent
<1>8. CASE l \in U /\ l \notin E
  <2>1. Selected(Keep(usdm, l, U), E) = sent
    BY <1>3, <1>8 DEF Keep
  <2> QED BY <1>5, <1>6, <1>8, <2>1 DEF Contributes
<1>9. CASE l \in U /\ l \in E
  <2>1. Selected(Keep(usdm, l, U), E) = Append(sent, l)
    BY <1>3, <1>9 DEF Keep
  <2> QED BY <1>4, <1>5, <1>6, <1>9, <2>1 DEF Contributes, AddTransfer
<1> QED BY <1>7, <1>8, <1>9

LEMMA FoundEmpty == \A recipient : Found(<<>>, recipient) = EmptyTally
BY SelectedEmpty, SumEmpty DEF Found, UsdmLogs, DecodeTransfers

(* The account is the sender of the last transfer of USDm to the recipient. *)
LastContributor(logs, recipient, payer) ==
  \E i \in Contributions(logs, recipient) :
    (\A j \in Contributions(logs, recipient) : j <= i) /\ logs[i].from = payer

(* Filters and loop find what the transaction pays, and who paid last.      *)
LEMMA FoundIsReceived ==
  ASSUME NEW logs \in Seq(Log), NEW recipient
  PROVE  /\ Found(logs, recipient).total = Received(logs, recipient)
         /\ Found(logs, recipient).total # 0 =>
              LastContributor(logs, recipient, Found(logs, recipient).payer)
<1> DEFINE T == {s \in Seq(Log) :
                   /\ Found(s, recipient).total = Received(s, recipient)
                   /\ Found(s, recipient).total # 0 =>
                        LastContributor(s, recipient, Found(s, recipient).payer)}
<1>1. <<>> \in T
  BY FoundEmpty, ReceivedEmpty DEF EmptyTally
<1>2. ASSUME NEW s \in Seq(Log), NEW l \in Log, s \in T PROVE Append(s, l) \in T
  <2> DEFINE longer == Append(s, l)
             n == Len(s)
  <2>1. /\ longer \in Seq(Log) /\ Len(longer) = n + 1 /\ n \in Nat
        /\ \A i \in 1 .. n : longer[i] = s[i]
        /\ longer[n + 1] = l
    BY AppendProperties
  <2>2. Found(longer, recipient)
          = IF Contributes(l, recipient)
            THEN [total |-> Found(s, recipient).total + l.value, payer |-> l.from]
            ELSE Found(s, recipient)
    BY FoundAppend
  <2>3. Received(longer, recipient)
          = Received(s, recipient) + IF Contributes(l, recipient) THEN l.value ELSE 0
    BY ReceivedAppend
  <2>4. Found(s, recipient).total \in Nat
    BY FoundType DEF Tally
  <2> HIDE DEF longer
  <2>5. CASE Contributes(l, recipient)
    <3>1. n + 1 \in Contributions(longer, recipient)
      BY <2>1, <2>5 DEF Contributions, Contributes
    <3>2. \A j \in Contributions(longer, recipient) : j <= n + 1
      BY <2>1 DEF Contributions
    <3>3. LastContributor(longer, recipient, l.from)
      BY <2>1, <3>1, <3>2 DEF LastContributor
    <3> QED BY <1>2, <2>1, <2>2, <2>3, <2>5, <3>3 DEF longer
  <2>6. CASE ~Contributes(l, recipient)
    <3>1. /\ Contributions(longer, recipient) = Contributions(s, recipient)
          /\ \A i \in Contributions(s, recipient) : longer[i] = s[i]
      BY <2>1, <2>6 DEF Contributions, Contributes
    <3>2. \A payer : LastContributor(s, recipient, payer)
                       => LastContributor(longer, recipient, payer)
      BY <3>1 DEF LastContributor
    <3>3. Received(longer, recipient) = Received(s, recipient)
      BY <1>2, <2>3, <2>4, <2>6
    <3> QED BY <1>2, <2>1, <2>2, <2>6, <3>2, <3>3 DEF longer
  <2> QED BY <2>5, <2>6
<1>3. Seq(Log) \subseteq T
  <2> HIDE DEF T
  <2> QED BY <1>1, <1>2, LogsInduction
<1> QED BY <1>3

LEMMA ReceivedType ==
  ASSUME NEW logs \in Seq(Log), NEW recipient
  PROVE  Received(logs, recipient) \in Nat
BY FoundType, FoundIsReceived DEF Tally

Errors == {"no USDm log", "no Transfer event", "wrong recipient", "insufficient"}

(* The four rejections of verifyTransferLogs and its acceptance, by what    *)
(* the loop has found.                                                      *)
LEMMA VerdictOf ==
  ASSUME NEW logs \in Seq(Log), NEW expected, NEW recipient,
         NEW v, v = VerifyTransferLogs(logs, expected, recipient)
  PROVE  LET found == Found(logs, recipient)
             short == found.total = 0 \/ found.total < expected
         IN /\ short => \E why \in Errors : v = Rejected(why)
            /\ ~short => v = [valid |-> TRUE, payer |-> found.payer, error |-> ""]
<1> DEFINE found == Found(logs, recipient)
           usdmLogs == UsdmLogs(logs)
           transfers == DecodeTransfers(usdmLogs)
<1>1. usdmLogs = <<>> => transfers = <<>>
  BY SelectedEmpty DEF DecodeTransfers
<1>2. transfers = <<>> => found.total = 0
  BY SumEmpty DEF Found, EmptyTally
<1>3. v = CASE usdmLogs = <<>>             -> Rejected("no USDm log")
            [] transfers = <<>> /\ usdmLogs # <<>> -> Rejected("no Transfer event")
            [] transfers # <<>> /\ found.total = 0  -> Rejected("wrong recipient")
            [] found.total # 0 /\ found.total < expected -> Rejected("insufficient")
            [] OTHER -> [valid |-> TRUE, payer |-> found.payer, error |-> ""]
  BY DEF VerifyTransferLogs, Found
<1> HIDE DEF found, usdmLogs, transfers
<1>4. CASE found.total = 0 \/ found.total < expected
  BY <1>1, <1>2, <1>3, <1>4 DEF found, Errors
<1>5. CASE ~(found.total = 0 \/ found.total < expected)
  BY <1>1, <1>2, <1>3, <1>5 DEF found, Errors
<1> QED BY <1>4, <1>5 DEF found

(* verifyTransferLogs decides for every transaction and every amount: it    *)
(* accepts exactly when the USDm transfers to the recipient come to         *)
(* something and to at least the amount, however they are split and         *)
(* whatever else the transaction logs.                                      *)
THEOREM VerdictIsRight ==
  ASSUME NEW logs \in Seq(Log), NEW expected \in Int, NEW recipient
  PROVE  LET verdict == VerifyTransferLogs(logs, expected, recipient)
             sum == Received(logs, recipient)
         IN /\ verdict \in Verdict
            /\ verdict.valid <=> (sum > 0 /\ sum >= expected)
<1> DEFINE verdict == VerifyTransferLogs(logs, expected, recipient)
           found == Found(logs, recipient)
           short == found.total = 0 \/ found.total < expected
<1>1. found \in Tally /\ found.total = Received(logs, recipient)
  BY FoundType, FoundIsReceived
<1>2. /\ short => \E why \in Errors : verdict = Rejected(why)
      /\ ~short => verdict = [valid |-> TRUE, payer |-> found.payer, error |-> ""]
  BY VerdictOf
<1>3. ~short <=> (found.total > 0 /\ found.total >= expected)
  BY <1>1 DEF Tally
<1> HIDE DEF verdict, found, short
<1>4. CASE short
  <2>1. PICK why \in Errors : verdict = Rejected(why)
    BY <1>2, <1>4
  <2>2. verdict \in Verdict /\ ~verdict.valid
    BY <2>1 DEF Verdict, Rejected, Errors
  <2> QED BY <1>1, <1>3, <1>4, <2>2 DEF verdict
<1>5. CASE ~short
  <2>1. found.payer \in Accounts \cup {NoPayer}
    BY <1>1 DEF Tally
  <2>2. verdict = [valid |-> TRUE, payer |-> found.payer, error |-> ""]
    BY <1>2, <1>5
  <2>3. verdict \in Verdict /\ verdict.valid
    BY <2>1, <2>2 DEF Verdict
  <2> QED BY <1>1, <1>3, <1>5, <2>3 DEF verdict
<1> QED BY <1>4, <1>5

(* An accepted payment is attributed to the sender of the last of its USDm  *)
(* transfers to the recipient, be that one of nothing.                      *)
THEOREM PayerPaid ==
  ASSUME NEW logs \in Seq(Log), NEW expected, NEW recipient
  PROVE  LET verdict == VerifyTransferLogs(logs, expected, recipient)
         IN verdict.valid => LastContributor(logs, recipient, verdict.payer)
<1> DEFINE verdict == VerifyTransferLogs(logs, expected, recipient)
           found == Found(logs, recipient)
           short == found.total = 0 \/ found.total < expected
<1>1. /\ short => \E why \in Errors : verdict = Rejected(why)
      /\ ~short => verdict = [valid |-> TRUE, payer |-> found.payer, error |-> ""]
  BY VerdictOf
<1>2. found.total # 0 => LastContributor(logs, recipient, found.payer)
  BY FoundIsReceived
<1> SUFFICES ASSUME verdict.valid PROVE LastContributor(logs, recipient, verdict.payer)
  OBVIOUS
<1>3. ~short => found.total # 0
  OBVIOUS
<1> HIDE DEF verdict, found, short
<1>4. ~short
  <2> SUFFICES ASSUME short PROVE FALSE
    OBVIOUS
  <2>1. PICK why \in Errors : verdict = Rejected(why)
    BY <1>1
  <2> QED BY <2>1 DEF Rejected
<1>5. verdict = [valid |-> TRUE, payer |-> found.payer, error |-> ""]
  BY <1>1, <1>4
<1>6. verdict.payer = found.payer
  BY <1>5
<1> QED BY <1>2, <1>3, <1>4, <1>6 DEF found

(* Without the logs of other contracts the verdict is the same.             *)
THEOREM OthersDoNotCount ==
  ASSUME NEW logs \in Seq(Log), NEW expected, NEW recipient
  PROVE  VerifyTransferLogs(UsdmLogs(logs), expected, recipient)
           = VerifyTransferLogs(logs, expected, recipient)
<1>1. UsdmLogs(UsdmLogs(logs)) = UsdmLogs(logs)
  BY SelectedTwice DEF UsdmLogs
<1> QED BY <1>1 DEF VerifyTransferLogs
=============================================================================
