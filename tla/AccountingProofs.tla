--------------------------- MODULE AccountingProofs ---------------------------
(***************************************************************************)
(* The accounts for any number of calls, any audit and any retention: what  *)
(* can make a lifetime figure wrong, by how much the figures of one answer  *)
(* can disagree, and when the lifetime figure can shrink.                   *)
(*                                                                         *)
(* The three follow from what a query knows (SeenIsRight): a row that has   *)
(* not moved since the dashboard began is seen exactly if it is stored, and *)
(* created_at does not change once the row is there.                        *)
(***************************************************************************)
EXTENDS Accounting, FiniteSetTheorems, TLAPS

Types ==
  /\ day \in Nat
  /\ settled \in [Calls -> Nat]
  /\ fate \in [Row -> Log!Fate]
  /\ created \in [Row -> Nat]
  /\ open \in BOOLEAN
  /\ seen = [q \in DOMAIN seen |-> seen[q]]
  /\ moved \subseteq Row /\ shown \subseteq Row

(* A direct payment is there before its row.                                *)
PaidFirst == \A c \in Direct : fate[Payment(c)] # "none" => settled[c] # 0

IsThere(row) == fate[row] \in {"stored", "deleted"}

SeenIsRight(q) ==
  /\ seen[q] \subseteq Row
  /\ \A row \in Row :
       /\ row \in seen[q] => Where(q, row) /\ IsThere(row)
       /\ row \notin moved /\ Where(q, row) => (row \in seen[q] <=> fate[row] = "stored")

ShownIsRight ==
  \A row \in shown :
    /\ IsThere(row) /\ IsSettlement(row)
    /\ "settlements" \in DOMAIN seen /\ row \notin seen["settlements"] => fate[row] = "deleted"

IInv ==
  /\ Types
  /\ PaidFirst
  /\ ~open => DOMAIN seen = {}
  /\ \A q \in DOMAIN seen : SeenIsRight(q)
  /\ ShownIsRight

-----------------------------------------------------------------------------
(* What a step may do to the rows.                                          *)
RowsRight ==
  /\ fate' \in [Row -> Log!Fate]
  /\ created' \in [Row -> Nat]
  /\ \A row \in Row :
       /\ IsThere(row) => created'[row] = created[row] /\ IsThere(row)'
       /\ fate[row] = "deleted" => fate'[row] = "deleted"
       /\ open /\ row \notin moved' =>
            created'[row] = created[row] /\ (fate'[row] = "stored" <=> fate[row] = "stored")

LEMMA WhereIsFixed ==
  ASSUME NEW row, created'[row] = created[row]
  PROVE  /\ IsSettlement(row)' <=> IsSettlement(row)
         /\ \A q \in Queries : Where(q, row)' <=> Where(q, row)
  BY DEF IsSettlement, PostAudit, Where, Queries

LEMMA RowsKeepIInv ==
  ASSUME IInv, RowsRight, PaidFirst', day' \in Nat, settled' \in [Calls -> Nat],
         moved \subseteq moved', moved' \subseteq Row, UNCHANGED <<open, seen, shown>>,
         DOMAIN seen \subseteq Queries
  PROVE  IInv'
  <1>1. Types'
    BY DEF IInv, Types, RowsRight
  <1>2. ASSUME NEW q \in DOMAIN seen
        PROVE  SeenIsRight(q)'
    <2>1. SeenIsRight(q) /\ open /\ q \in Queries
      BY DEF IInv, Types
    <2>2. ASSUME NEW row \in Row
          PROVE  /\ row \in seen[q] => Where(q, row)' /\ IsThere(row)'
                 /\ row \notin moved' /\ Where(q, row)' => (row \in seen[q] <=> fate'[row] = "stored")
      <3>1. /\ row \in seen[q] => Where(q, row) /\ IsThere(row)
            /\ row \notin moved /\ Where(q, row) => (row \in seen[q] <=> fate[row] = "stored")
        BY <2>1 DEF SeenIsRight
      <3>2. /\ IsThere(row) => created'[row] = created[row] /\ IsThere(row)'
            /\ row \notin moved' =>
                 created'[row] = created[row] /\ (fate'[row] = "stored" <=> fate[row] = "stored")
        BY <2>1 DEF RowsRight
      <3>3. created'[row] = created[row] => (Where(q, row)' <=> Where(q, row))
        BY <2>1, WhereIsFixed
      <3>4. QED BY <3>1, <3>2, <3>3
    <2>3. QED BY <2>1, <2>2 DEF SeenIsRight
  <1>3. ASSUME NEW row \in shown
        PROVE  /\ IsThere(row)' /\ IsSettlement(row)'
               /\ "settlements" \in DOMAIN seen /\ row \notin seen["settlements"]
                    => fate'[row] = "deleted"
    <2>1. /\ row \in Row /\ IsThere(row) /\ IsSettlement(row)
          /\ "settlements" \in DOMAIN seen /\ row \notin seen["settlements"] => fate[row] = "deleted"
      BY DEF IInv, Types, ShownIsRight
    <2>2. /\ created'[row] = created[row] /\ IsThere(row)'
          /\ fate[row] = "deleted" => fate'[row] = "deleted"
      BY <2>1 DEF RowsRight
    <2>3. QED BY <2>1, <2>2, WhereIsFixed
  <1>4. ShownIsRight'
    BY <1>3 DEF ShownIsRight
  <1>5. QED BY <1>1, <1>2, <1>4 DEF IInv

LEMMA CallsKeepIInv ==
  ASSUME IInv, DOMAIN seen \subseteq Queries,
         \/ NextDay
         \/ \E c \in Calls : Settle(c) \/ LogPayment(c) \/ LogApi(c)
  PROVE  IInv'
  <1>1. UNCHANGED <<created, open, seen, moved, shown>>
    BY DEF NextDay, Settle, LogPayment, LogApi, page
  <1>2. CASE NextDay \/ \E c \in Calls : Settle(c)
    <2>1. /\ UNCHANGED fate /\ day' \in Nat /\ settled' \in [Calls -> Nat]
          /\ \A c \in Calls : settled[c] # 0 => settled'[c] # 0
      BY <1>2 DEF NextDay, Settle, IInv, Types
    <2>2. RowsRight /\ PaidFirst'
      BY <1>1, <2>1, AccountingAssumption DEF RowsRight, IsThere, IInv, Types, PaidFirst
    <2>3. QED BY <1>1, <2>1, <2>2, RowsKeepIInv DEF IInv, Types
  <1>3. ASSUME NEW row \in Row, Log!Log(row), UNCHANGED <<day, settled>>,
               \A c \in Direct : row = Payment(c) => settled[c] # 0
        PROVE  IInv'
    <2>1. /\ fate[row] = "none"
          /\ fate' = [e \in Row |-> IF e = row THEN "pending" ELSE fate[e]]
      BY <1>3 DEF Log!Log, Log!Become
    <2>2. RowsRight
      BY <1>1, <2>1 DEF RowsRight, IsThere, IInv, Types, Log!Fate
    <2>3. PaidFirst'
      <3>1. \A c \in Direct : Payment(c) \in Row
        BY DEF Payment, Row
      <3>2. QED BY <1>3, <2>1, <3>1 DEF PaidFirst, IInv
    <2>4. QED BY <1>1, <1>3, <2>2, <2>3, RowsKeepIInv DEF IInv, Types
  <1>4. ASSUME NEW c \in Calls, LogPayment(c)
        PROVE  IInv'
    <2>1. Payment(c) \in Row /\ \A d \in Direct : Payment(c) = Payment(d) => c = d
      BY <1>4 DEF LogPayment, Payment, Row
    <2>2. QED BY <1>3, <1>4, <2>1 DEF LogPayment
  <1>5. ASSUME NEW c \in Calls, LogApi(c)
        PROVE  IInv'
    <2>1. Api(c) \in Row /\ \A d \in Direct : Api(c) # Payment(d)
      BY DEF Api, Payment, Row
    <2>2. QED BY <1>3, <1>5, <2>1 DEF LogApi, page
  <1>6. QED BY <1>2, <1>4, <1>5

LEMMA RowsEndKeepIInv ==
  ASSUME IInv, DOMAIN seen \subseteq Queries,
         NEW stored \in SUBSET Log!Are("pending"),
         NEW lost \in SUBSET (Log!Are("pending") \ stored),
         RowsEnd(stored, lost)
  PROVE  IInv'
  <1>1. /\ fate' = [e \in Row |-> IF e \in stored THEN "stored"
                                  ELSE IF e \in lost THEN "lost" ELSE fate[e]]
        /\ created' = [row \in Row |-> IF row \in stored THEN day ELSE created[row]]
        /\ moved' = IF open THEN moved \cup stored ELSE moved
        /\ UNCHANGED <<day, settled, open, seen, shown>>
    BY DEF RowsEnd, Log!End, Moved
  <1>2. /\ stored \subseteq Row /\ lost \subseteq Row
        /\ \A row \in stored \cup lost : fate[row] = "pending"
    BY DEF Log!Are
  <1>3. RowsRight
    BY <1>1, <1>2 DEF RowsRight, IsThere, IInv, Types, Log!Fate
  <1>4. PaidFirst'
    <2>1. \A c \in Direct : Payment(c) \in Row
      BY DEF Payment, Row
    <2>2. QED BY <1>1, <1>2, <2>1 DEF PaidFirst, IInv
  <1>5. moved \subseteq moved' /\ moved' \subseteq Row
    BY <1>1, <1>2 DEF IInv, Types
  <1>6. QED BY <1>1, <1>3, <1>4, <1>5, RowsKeepIInv DEF IInv, Types

LEMMA CleanupKeepsIInv ==
  ASSUME IInv, DOMAIN seen \subseteq Queries, Cleanup
  PROVE  IInv'
  <1>1. /\ fate' = [e \in Row |-> IF e \in Old THEN "deleted" ELSE fate[e]]
        /\ moved' = IF open THEN moved \cup Old ELSE moved
        /\ UNCHANGED <<day, settled, created, open, seen, shown>>
    BY DEF Cleanup, Log!Delete, Log!Become, Moved
  <1>2. Old \subseteq Row /\ \A row \in Old : fate[row] = "stored"
    BY DEF Old, Log!Are
  <1>3. RowsRight
    BY <1>1, <1>2 DEF RowsRight, IsThere, IInv, Types, Log!Fate
  <1>4. PaidFirst'
    <2>1. \A c \in Direct : Payment(c) \in Row
      BY DEF Payment, Row
    <2>2. QED BY <1>1, <1>2, <2>1 DEF PaidFirst, IInv
  <1>5. moved \subseteq moved' /\ moved' \subseteq Row
    BY <1>1, <1>2 DEF IInv, Types
  <1>6. QED BY <1>1, <1>3, <1>4, <1>5, RowsKeepIInv DEF IInv, Types

(* Opening the dashboard, failing and answering leave no query.             *)
LEMMA UnreadKeepsIInv ==
  ASSUME IInv, Open \/ QueryFails \/ Answer
  PROVE  IInv' /\ DOMAIN seen' = {}
  <1>1. /\ seen' = [q \in {} |-> {}] /\ moved' = {} /\ open' \in BOOLEAN
        /\ UNCHANGED <<day, settled, fate, created>>
    BY DEF Open, QueryFails, Answer, Unread
  <1>2. \A row \in shown' : row \in Row /\ IsThere(row) /\ IsSettlement(row)
    <2>1. CASE Open \/ QueryFails
      BY <2>1 DEF Open, QueryFails, IInv, Types, ShownIsRight
    <2>2. CASE Answer
      <3>1. shown' = seen["settlements"] /\ "settlements" \in DOMAIN seen
        BY <2>2 DEF Answer, Ready, Queries
      <3>2. SeenIsRight("settlements")
        BY <3>1 DEF IInv
      <3>3. QED BY <3>1, <3>2 DEF SeenIsRight, Where
    <2>3. QED BY <2>1, <2>2
  <1>3. DOMAIN seen' = {}
    BY <1>1
  <1>4. Types'
    BY <1>1, <1>2 DEF IInv, Types
  <1>5. ShownIsRight'
    BY <1>1, <1>2, <1>3 DEF ShownIsRight, IsThere, IsSettlement, PostAudit
  <1>6. PaidFirst'
    BY <1>1 DEF IInv, PaidFirst
  <1>7. QED BY <1>3, <1>4, <1>5, <1>6 DEF IInv

LEMMA QueryKeepsIInv ==
  ASSUME IInv, NEW q \in Queries, Query(q)
  PROVE  IInv'
  <1> DEFINE rows == {row \in Log!Are("stored") : Where(q, row)}
  <1>1. /\ open /\ q \notin DOMAIN seen
        /\ seen' = [p \in DOMAIN seen \cup {q} |-> IF p = q THEN rows ELSE seen[p]]
        /\ UNCHANGED <<day, settled, fate, created, open, moved, shown>>
    BY DEF Query
  <1>2. rows = {row \in Row : fate[row] = "stored" /\ Where(q, row)}
    BY DEF Log!Are
  <1> HIDE DEF rows
  <1>3. /\ DOMAIN seen' = DOMAIN seen \cup {q} /\ seen'[q] = rows
        /\ \A p \in DOMAIN seen : seen'[p] = seen[p]
    BY <1>1
  <1>4. Types' /\ PaidFirst'
    BY <1>1 DEF IInv, Types, PaidFirst
  <1>5. ASSUME NEW p \in DOMAIN seen'
        PROVE  SeenIsRight(p)'
    <2>1. \A row \in Row : (Where(p, row)' <=> Where(p, row)) /\ (IsThere(row)' <=> IsThere(row))
      BY <1>1 DEF Where, IsSettlement, PostAudit, IsThere
    <2>2. CASE p = q
      BY <1>1, <1>2, <1>3, <2>1, <2>2 DEF SeenIsRight, IsThere
    <2>3. CASE p # q
      BY <1>1, <1>3, <2>1, <2>3 DEF IInv, SeenIsRight
    <2>4. QED BY <2>2, <2>3
  <1>6. ASSUME NEW row \in shown
        PROVE  /\ IsThere(row)' /\ IsSettlement(row)'
               /\ "settlements" \in DOMAIN seen' /\ row \notin seen'["settlements"]
                    => fate[row] = "deleted"
    <2>1. /\ row \in Row /\ IsThere(row) /\ IsSettlement(row)
          /\ "settlements" \in DOMAIN seen /\ row \notin seen["settlements"] => fate[row] = "deleted"
      BY DEF IInv, Types, ShownIsRight
    <2>2. IsThere(row)' /\ IsSettlement(row)'
      BY <1>1, <2>1 DEF IsThere, IsSettlement, PostAudit
    <2>3. CASE q = "settlements"
      <3>1. Where(q, row)
        BY <2>1, <2>3 DEF Where
      <3>2. row \notin rows => fate[row] = "deleted"
        BY <1>2, <2>1, <3>1 DEF IsThere
      <3>3. QED BY <1>3, <2>2, <2>3, <3>2
    <2>4. CASE q # "settlements"
      BY <1>3, <2>1, <2>2, <2>4
    <2>5. QED BY <2>3, <2>4
  <1>7. ShownIsRight'
    BY <1>1, <1>6 DEF ShownIsRight
  <1>8. QED BY <1>1, <1>4, <1>5, <1>7 DEF IInv

THEOREM Invariance == Spec => [](IInv /\ DOMAIN seen \subseteq Queries)
  <1> DEFINE Inv == IInv /\ DOMAIN seen \subseteq Queries
  <1>1. Init => Inv
    <2> SUFFICES ASSUME Init PROVE Inv
      OBVIOUS
    <2>1. /\ day = 1 /\ settled = [c \in Calls |-> 0]
          /\ fate = [row \in Row |-> "none"] /\ created = [row \in Row |-> 0]
          /\ open = FALSE /\ seen = [q \in {} |-> {}] /\ moved = {} /\ shown = {}
      BY DEF Init, Log!Init, Unread
    <2>2. \A c \in Direct : Payment(c) \in Row
      BY DEF Payment, Row
    <2>3. Types
      BY <2>1 DEF Types, Log!Fate
    <2>4. QED BY <2>1, <2>2, <2>3 DEF IInv, PaidFirst, ShownIsRight
  <1>2. Inv /\ [Next]_vars => Inv'
    <2> SUFFICES ASSUME Inv, [Next]_vars PROVE Inv'
      OBVIOUS
    <2>1. CASE \/ NextDay
               \/ \E c \in Calls : Settle(c) \/ LogPayment(c) \/ LogApi(c)
      <3>1. seen' = seen
        BY <2>1 DEF NextDay, Settle, LogPayment, LogApi, page
      <3>2. QED BY <2>1, <3>1, CallsKeepIInv
    <2>2. ASSUME NEW stored \in SUBSET Log!Are("pending"),
                 NEW lost \in SUBSET (Log!Are("pending") \ stored),
                 RowsEnd(stored, lost)
          PROVE  Inv'
      <3>1. seen' = seen
        BY <2>2 DEF RowsEnd
      <3>2. QED BY <2>2, <3>1, RowsEndKeepIInv
    <2>3. CASE Cleanup
      <3>1. seen' = seen
        BY <2>3 DEF Cleanup
      <3>2. QED BY <2>3, <3>1, CleanupKeepsIInv
    <2>4. CASE Open \/ QueryFails \/ Answer
      BY <2>4, UnreadKeepsIInv
    <2>5. ASSUME NEW q \in Queries, Query(q)
          PROVE  Inv'
      <3>1. DOMAIN seen' = DOMAIN seen \cup {q}
        BY <2>5 DEF Query
      <3>2. QED BY <2>5, <3>1, QueryKeepsIInv
    <2>6. CASE UNCHANGED vars
      <3>1. UNCHANGED <<day, settled, fate, created, open, seen, moved, shown>>
        BY <2>6 DEF vars
      <3>2. QED BY <3>1 DEF IInv, Types, PaidFirst, SeenIsRight, ShownIsRight, IsThere,
                            IsSettlement, PostAudit, Where
    <2>7. QED BY <2>1, <2>2, <2>3, <2>4, <2>5, <2>6 DEF Next
  <1>3. QED BY <1>1, <1>2, PTL DEF Spec

-----------------------------------------------------------------------------
(* The lifetime figure shrinks only by what retention deletes, whatever the *)
(* calls, the queries and the flushes do in between (dashboard/lifetime.ts  *)
(* counts the increments from the retained rows).                           *)
THEOREM OnlyRetentionShrinks == Spec => []LifetimeShrinksOnlyByRetention
  <1>1. IInv => LifetimeShrinksOnlyByRetention
    <2> SUFFICES ASSUME IInv, Ready, NEW row \in shown, row \notin seen["settlements"]
                 PROVE  row \in Log!Are("deleted")
      BY DEF LifetimeShrinksOnlyByRetention
    <2>1. row \in Row /\ "settlements" \in DOMAIN seen
      BY DEF IInv, Types, Ready, Queries
    <2>2. QED BY <2>1 DEF IInv, ShownIsRight, Log!Are
  <1>2. QED BY <1>1, Invariance, PTL

(* The rows of a call among the settlements are one row at most.            *)
LEMMA OneSettlementRow ==
  ASSUME NEW c \in Calls, NEW row \in Row, row.call = c, IsSettlement(row)
  PROVE  row = SettlementRow(c)
  BY DEF IsSettlement, SettlementRow, Row, Api, Payment

(* How often a call counts, and what is amiss when that is not once per     *)
(* settlement, for every audit (calculateLifetimeMetrics).                  *)
THEOREM LifetimeIsExplained == Spec => []LifetimeExplained
  <1>1. IInv => LifetimeExplained
    <2> SUFFICES ASSUME IInv, Ready, NEW c \in Calls
                 PROVE  LET row == SettlementRow(c)
                            late == created[row] > AuditedThrough
                        IN /\ Times(c) > 1 => c \in Audited /\ late
                           /\ Times(c) = 1 /\ settled[c] = 0 => c \notin Direct
                           /\ Times(c) = 0 /\ settled[c] # 0 => ~Visible(row) \/ ~late
      BY DEF LifetimeExplained
    <2> DEFINE row == SettlementRow(c)
               mine == {e \in seen["settlements"] : e.call = c}
    <2>1. /\ "settlements" \in DOMAIN seen /\ SeenIsRight("settlements")
          /\ seen["settlements"] \subseteq Row
      BY DEF IInv, Ready, Queries, SeenIsRight
    <2>2. /\ row \in Row /\ row.call = c
          /\ row.service = "megaeth-payment" <=> c \in Direct
      BY DEF SettlementRow, Api, Payment, Row
    <2>3. IsSettlement(row) <=> created[row] > AuditedThrough
      BY <2>2 DEF IsSettlement, PostAudit
    <2>4. \A e \in mine : e = row
      BY <2>1, OneSettlementRow DEF SeenIsRight, Where
    <2>5. mine = IF row \in seen["settlements"] THEN {row} ELSE {}
      BY <2>2, <2>4
    <2>6. Cardinality(mine) = IF row \in seen["settlements"] THEN 1 ELSE 0
      BY <2>5, FS_EmptySet, FS_Singleton
    <2>7. Times(c) = (IF row \in seen["settlements"] THEN 1 ELSE 0)
                       + (IF c \in Audited THEN 1 ELSE 0)
      BY <2>6 DEF Times
    <2>8. /\ row \in seen["settlements"] => IsSettlement(row) /\ IsThere(row)
          /\ Visible(row) /\ IsSettlement(row) => row \in seen["settlements"]
      BY <2>1, <2>2 DEF SeenIsRight, Where, Visible
    <2>9. c \in Audited => settled[c] # 0
      BY DEF Audited, IInv, Types
    <2>10. c \in Direct /\ IsThere(row) => settled[c] # 0
      BY DEF IInv, PaidFirst, IsThere, SettlementRow
    <2> HIDE DEF row
    <2>11. /\ Times(c) > 1 => c \in Audited /\ created[row] > AuditedThrough
           /\ Times(c) = 1 /\ settled[c] = 0 => c \notin Direct
           /\ Times(c) = 0 /\ settled[c] # 0 => ~Visible(row) \/ ~(created[row] > AuditedThrough)
      BY <2>3, <2>7, <2>8, <2>9, <2>10
    <2>12. QED BY <2>11 DEF row
  <1>2. QED BY <1>1, Invariance, PTL

-----------------------------------------------------------------------------
(* Counting: no more settlements than rows and calls that account for them. *)

LEMMA CallsCount ==
  ASSUME NEW S \in SUBSET Row, NEW key \in [S -> Calls],
         \A a, b \in S : key[a] = key[b] => a = b
  PROVE  /\ IsFiniteSet(S)
         /\ Cardinality(S) \in Nat
         /\ Cardinality(S) = Cardinality({key[a] : a \in S})
  <1> DEFINE T == {key[a] : a \in S}
  <1>1. key \in Bijection(S, T)
    BY DEF Bijection, Injection, Surjection, IsInjective
  <1>2. T \subseteq Calls
    OBVIOUS
  <1>3. IsFiniteSet(T)
    BY <1>2, AccountingAssumption, FS_Subset
  <1> HIDE DEF T
  <1>4. IsFiniteSet(S) /\ Cardinality(S) <= Cardinality(T)
    BY <1>1, <1>3, FS_Injection DEF Bijection
  <1>5. Cardinality(T) <= Cardinality(S)
    BY <1>1, <1>4, FS_Surjection DEF Bijection
  <1>6. Cardinality(S) \in Nat /\ Cardinality(T) \in Nat
    BY <1>3, <1>4, FS_CardinalityType
  <1>7. Cardinality(S) = Cardinality(T)
    BY <1>4, <1>5, <1>6
  <1>8. QED BY <1>4, <1>6, <1>7 DEF T

LEMMA RowsAreFinite == IsFiniteSet(Row)
  <1> DEFINE R(service) == {row \in Row : row.service = service}
  <1>1. ASSUME NEW service \in {"api", "megaeth-payment"}
        PROVE  IsFiniteSet(R(service))
    <2> DEFINE key == [row \in R(service) |-> row.call]
    <2>1. key \in [R(service) -> Calls]
      BY AccountingAssumption DEF Row
    <2>2. \A a, b \in R(service) : key[a] = key[b] => a = b
      BY DEF Row
    <2>3. QED BY <2>1, <2>2, CallsCount
  <1>2. Row = R("api") \cup R("megaeth-payment")
    BY DEF Row
  <1> HIDE DEF R
  <1>3. QED BY <1>1, <1>2, FS_Union

LEMMA UnionOfThree ==
  ASSUME NEW A \in SUBSET Calls, NEW B \in SUBSET Calls, NEW C \in SUBSET Calls,
         NEW D \in SUBSET (A \cup B \cup C)
  PROVE  Cardinality(D) <= Cardinality(A) + Cardinality(B) + Cardinality(C)
  <1>1. /\ IsFiniteSet(A) /\ IsFiniteSet(B) /\ IsFiniteSet(C) /\ IsFiniteSet(A \cup B)
        /\ IsFiniteSet(A \cup B \cup C) /\ IsFiniteSet(D)
        /\ IsFiniteSet(A \cap B) /\ IsFiniteSet((A \cup B) \cap C)
    BY AccountingAssumption, FS_Subset
  <1>2. /\ Cardinality(A \cup B) = Cardinality(A) + Cardinality(B) - Cardinality(A \cap B)
        /\ Cardinality(A \cup B \cup C)
             = Cardinality(A \cup B) + Cardinality(C) - Cardinality((A \cup B) \cap C)
        /\ Cardinality(D) <= Cardinality(A \cup B \cup C)
    BY <1>1, FS_Union, FS_Subset
  <1>3. /\ Cardinality(A) \in Nat /\ Cardinality(B) \in Nat /\ Cardinality(C) \in Nat
        /\ Cardinality(A \cap B) \in Nat /\ Cardinality((A \cup B) \cap C) \in Nat
        /\ Cardinality(A \cup B) \in Nat /\ Cardinality(A \cup B \cup C) \in Nat
        /\ Cardinality(D) \in Nat
    BY <1>1, FS_CardinalityType
  <1>4. QED BY <1>2, <1>3

(* The figures of an answer disagree by no more than the rows that moved    *)
(* while its queries ran, for any number of calls (apis/dashboard.ts).      *)
THEOREM FiguresAddUp == Spec => []AnswersAddUp
  <1> DEFINE parts == seen["api"] \cup seen["payments"]
             alone == {c \in Direct : fate[Api(c)] # "stored" \/ ~PostAudit(Api(c))}
             S == seen["settlements"]
             P == seen["postAudit"]
             KeyOf(R) == {row.call : row \in R}
             apart == {row \in moved : row.service = "api"}
  <1>1. ASSUME IInv, Ready
        PROVE  \A q \in Queries : SeenIsRight(q)
    BY <1>1 DEF IInv, Ready
  <1>2. ASSUME IInv, Ready
        PROVE  (seen["total"] \ parts) \cup (parts \ seen["total"]) \subseteq moved
    <2>1. SeenIsRight("total") /\ SeenIsRight("api") /\ SeenIsRight("payments")
      BY <1>1, <1>2 DEF Queries
    <2>2. ASSUME NEW row \in Row, row \notin moved
          PROVE  row \in seen["total"] <=> row \in parts
      <3>1. /\ row \in seen["total"] <=> fate[row] = "stored"
            /\ row \in seen["api"] <=> row.service # "megaeth-payment" /\ fate[row] = "stored"
            /\ row \in seen["payments"] <=> row.service = "megaeth-payment" /\ fate[row] = "stored"
        BY <2>1, <2>2 DEF SeenIsRight, Where
      <3>2. QED BY <3>1
    <2>3. seen["total"] \subseteq Row /\ parts \subseteq Row
      BY <2>1 DEF SeenIsRight
    <2>4. QED BY <2>2, <2>3
  <1>3. ASSUME IInv, Ready
        PROVE  seen["api"] \cap seen["payments"] = {}
    <2>1. SeenIsRight("api") /\ SeenIsRight("payments")
      BY <1>1, <1>3 DEF Queries
    <2>2. QED BY <2>1 DEF SeenIsRight, Where
  <1>4. ASSUME IInv, Ready
        PROVE  Unattributed <= Cardinality(alone) + Cardinality(moved)
    <2>1. SeenIsRight("settlements") /\ SeenIsRight("postAudit")
      BY <1>1, <1>4 DEF Queries
    <2>2. /\ S \subseteq Row /\ P \subseteq Row /\ moved \subseteq Row /\ apart \subseteq Row
          /\ \A row \in S : IsSettlement(row)
          /\ \A row \in P : row.service = "api"
      <3>1. \A row \in Row : row.service # "megaeth-payment" => row.service = "api"
        BY DEF Row
      <3>2. QED BY <1>4, <2>1, <3>1 DEF SeenIsRight, Where, IInv, Types
    <2>3. \A row \in Row : row.call \in Calls
      BY AccountingAssumption DEF Row
    <2>4. /\ IsFiniteSet(S) /\ Cardinality(S) \in Nat
          /\ Cardinality(S) = Cardinality(KeyOf(S))
      <3> DEFINE key == [row \in S |-> row.call]
      <3>1. key \in [S -> Calls]
        BY <2>2, <2>3
      <3>2. \A a, b \in S : key[a] = key[b] => a = b
        BY <2>2, <2>3, OneSettlementRow
      <3>3. KeyOf(S) = {key[row] : row \in S}
        OBVIOUS
      <3> HIDE DEF key, S, KeyOf
      <3>4. S \in SUBSET Row
        BY <2>2
      <3>5. QED BY <3>1, <3>2, <3>3, <3>4, CallsCount
    <2>5. ASSUME NEW R \in SUBSET Row, \A row \in R : row.service = "api"
          PROVE  /\ IsFiniteSet(R) /\ Cardinality(R) \in Nat
                 /\ Cardinality(R) = Cardinality(KeyOf(R))
      <3> DEFINE key == [row \in R |-> row.call]
      <3>1. key \in [R -> Calls]
        BY <2>3
      <3>2. \A a, b \in R : key[a] = key[b] => a = b
        <4>1. \A a \in R : a = Api(a.call)
          BY <2>5 DEF Row, Api
        <4>2. QED BY <4>1
      <3>3. KeyOf(R) = {key[row] : row \in R}
        OBVIOUS
      <3> HIDE DEF key, KeyOf
      <3>4. QED BY <3>1, <3>2, <3>3, CallsCount
    <2>6. KeyOf(S) \subseteq KeyOf(P) \cup alone \cup KeyOf(apart)
      <3> SUFFICES ASSUME NEW row \in S, row.call \notin alone, Api(row.call) \notin moved
                   PROVE  Api(row.call) \in P
        <4>1. \A row \in S : Api(row.call).call = row.call /\ Api(row.call).service = "api"
          BY DEF Api
        <4>2. QED BY <4>1
      <3> DEFINE c == row.call
      <3>1. c \in Calls /\ Api(c) \in Row /\ Api(c).service # "megaeth-payment"
        BY <2>2, <2>3 DEF Api, Row
      <3>2. fate[Api(c)] = "stored" /\ PostAudit(Api(c))
        <4>1. CASE c \in Direct
          BY <4>1
        <4>2. CASE c \notin Direct
          <5>1. row = Api(c) /\ PostAudit(row)
            BY <2>2, <3>1, <4>2, OneSettlementRow DEF SettlementRow, IsSettlement
          <5>2. fate[row] = "stored"
            BY <2>1, <2>2, <5>1 DEF SeenIsRight, Where
          <5>3. QED BY <5>1, <5>2
        <4>3. QED BY <4>1, <4>2
      <3>3. Where("postAudit", Api(c))
        BY <3>1, <3>2 DEF Where
      <3>4. QED BY <2>1, <3>1, <3>2, <3>3 DEF SeenIsRight
    <2>7. /\ KeyOf(P) \subseteq Calls /\ alone \subseteq Calls /\ KeyOf(apart) \subseteq Calls
      BY <2>2, <2>3, AccountingAssumption
    <2>8. Cardinality(apart) <= Cardinality(moved) /\ Cardinality(moved) \in Nat
      <3>1. IsFiniteSet(moved)
        BY <1>4, RowsAreFinite, FS_Subset DEF IInv, Types
      <3>2. QED BY <3>1, FS_Subset, FS_CardinalityType
    <2>9. /\ Cardinality(P) = Cardinality(KeyOf(P)) /\ Cardinality(P) \in Nat
          /\ Cardinality(apart) = Cardinality(KeyOf(apart)) /\ Cardinality(apart) \in Nat
      BY <2>2, <2>5
    <2>10. Cardinality(alone) \in Nat
      BY <2>7, AccountingAssumption, FS_Subset, FS_CardinalityType
    <2> HIDE DEF S, P, KeyOf, alone, apart
    <2>11. Cardinality(KeyOf(S))
             <= Cardinality(KeyOf(P)) + Cardinality(alone) + Cardinality(KeyOf(apart))
      BY <2>6, <2>7, UnionOfThree
    <2>12. Cardinality(S) <= Cardinality(P) + Cardinality(alone) + Cardinality(moved)
      BY <2>4, <2>8, <2>9, <2>10, <2>11
    <2>13. Unattributed = IF Cardinality(S) - Cardinality(P) > 0
                          THEN Cardinality(S) - Cardinality(P) ELSE 0
      BY DEF Unattributed, S, P
    <2>14. QED BY <2>4, <2>8, <2>9, <2>10, <2>12, <2>13
  <1>5. IInv => AnswersAddUp
    BY <1>2, <1>3, <1>4 DEF AnswersAddUp
  <1>6. QED BY <1>5, Invariance, PTL

-----------------------------------------------------------------------------
(* The accounts assume nothing of the request log but its promise: whatever *)
(* calls, flushes, the end of the process and the retention policy do to    *)
(* the rows is a step of LogOnce, as the steps of db/ledger.ts are          *)
(* (RequestLogProofs!LogsOnce), so that the two compose.                    *)
THEOREM RowsKeepThePromise == Spec => Log!Init /\ [][Log!Next]_fate
  <1>1. Init => Log!Init
    BY DEF Init
  <1>2. [Next]_vars => [Log!Next]_fate
    <2> SUFFICES ASSUME Next PROVE [Log!Next]_fate
      BY DEF vars
    <2>1. ASSUME NEW c \in Calls, Settle(c) \/ LogPayment(c) \/ LogApi(c)
          PROVE  [Log!Next]_fate
      <3>1. CASE Settle(c)
        BY <3>1 DEF Settle
      <3>2. CASE LogPayment(c)
        <4>1. Payment(c) \in Row
          BY <3>2 DEF LogPayment, Payment, Row
        <4>2. QED BY <3>2, <4>1 DEF LogPayment, Log!Next
      <3>3. CASE LogApi(c)
        <4>1. Api(c) \in Row
          BY DEF Api, Row
        <4>2. QED BY <3>3, <4>1 DEF LogApi, Log!Next
      <3>4. QED BY <2>1, <3>1, <3>2, <3>3
    <2>2. ASSUME NEW stored \in SUBSET Log!Are("pending"),
                 NEW lost \in SUBSET (Log!Are("pending") \ stored), RowsEnd(stored, lost)
          PROVE  Log!Next
      <3>1. lost \in SUBSET ((Log!Are("pending") \ stored) \cup Log!Are("none"))
        OBVIOUS
      <3>2. Log!End(stored, lost)
        BY <2>2 DEF RowsEnd
      <3>3. QED BY <3>1, <3>2 DEF Log!Next
    <2>3. Cleanup => Log!Next
      <3> SUFFICES ASSUME Cleanup PROVE Log!Next
        OBVIOUS
      <3>1. Old \in SUBSET Log!Are("stored")
        BY DEF Old
      <3>2. QED BY <3>1 DEF Cleanup, Log!Next
    <2>4. ASSUME NextDay \/ Open \/ QueryFails \/ Answer \/ \E q \in Queries : Query(q)
          PROVE  UNCHANGED fate
      BY <2>4 DEF NextDay, Open, QueryFails, Answer, Query
    <2>5. QED BY <2>1, <2>2, <2>3, <2>4 DEF Next
  <1>3. QED BY <1>1, <1>2, PTL DEF Spec
=============================================================================
