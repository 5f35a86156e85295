------------------------------ MODULE Accounting ------------------------------
(***************************************************************************)
(* The accounts of the gateway: the rows that paid calls leave in the       *)
(* request log (LogOnce, which RequestLog implements), and the statistics   *)
(* that apis/dashboard.ts and dashboard/lifetime.ts make of them, next to   *)
(* what was settled on the chains.                                          *)
(*                                                                         *)
(* The queries of an answer run in parallel, each on a client of the pool,  *)
(* and each sees the table as it is at its own moment.  Time is in days.    *)
(* LIFETIME_AUDIT is a census of the settlements of the days up to          *)
(* AuditedThrough, taken from the chains and deployed afterwards.           *)
(***************************************************************************)
EXTENDS Integers, FiniteSets

CONSTANTS
  Calls,
  Direct,          (* the calls paid by a MegaETH transaction; the others  *)
                   (* are paid on Base through the SDK                     *)
  AuditedThrough,
  RetentionDays,   (* 0: retention is off                                  *)
  MaxDay

ASSUME AccountingAssumption ==
  /\ IsFiniteSet(Calls) /\ Direct \subseteq Calls
  /\ AuditedThrough \in Nat /\ RetentionDays \in Nat /\ MaxDay \in Nat

Row == [call : Calls, service : {"api"}] \cup [call : Direct, service : {"megaeth-payment"}]

Api(c) == [call |-> c, service |-> "api"]

Payment(c) == [call |-> c, service |-> "megaeth-payment"]

Queries == {"total", "api", "payments", "settlements", "postAudit"}

VARIABLES
  day,
  settled,   (* the day the payment of each call was settled, 0 if never   *)
  fate,      (* what became of each row (LogOnce)                          *)
  created,   (* created_at of each row                                     *)
  open,      (* is the dashboard working on an answer?                     *)
  seen,      (* the rows each of its queries has seen                      *)
  moved,     (* rows that came or went in the meantime (history)           *)
  shown      (* the settlements in the last answer (history)               *)

vars == <<day, settled, fate, created, open, seen, moved, shown>>

page == <<open, seen, moved, shown>>

Log == INSTANCE LogOnce WITH Entries <- Row, Retention <- RetentionDays > 0

Unread == [q \in {} |-> {}]

Init ==
  /\ day = 1
  /\ settled = [c \in Calls |-> 0]
  /\ Log!Init
  /\ created = [row \in Row |-> 0]
  /\ open = FALSE /\ seen = Unread /\ moved = {}
  /\ shown = {}

-----------------------------------------------------------------------------
(* The calls and their rows. *)

NextDay ==
  /\ day < MaxDay
  /\ day' = day + 1
  /\ UNCHANGED <<settled, fate, created, page>>

(* A direct payment is settled by the client, before the call; one through  *)
(* the SDK after the handler, if its answer was a success: also when that   *)
(* came from a cache and left no row.                                       *)
Settle(c) ==
  /\ settled[c] = 0
  /\ settled' = [settled EXCEPT ![c] = day]
  /\ UNCHANGED <<day, fate, created, page>>

(* The wrapped res.end of a direct payment.                                 *)
LogPayment(c) ==
  /\ c \in Direct /\ settled[c] # 0
  /\ Log!Log(Payment(c))
  /\ UNCHANGED <<day, settled, created, page>>

(* The finally block of the handler: after the response of a direct         *)
(* payment, before the settlement by the SDK.  The row carries the amount.  *)
LogApi(c) ==
  /\ IF c \in Direct THEN fate[Payment(c)] # "none" ELSE settled[c] = 0
  /\ Log!Log(Api(c))
  /\ UNCHANGED <<day, settled, created, page>>

Moved(rows) == moved' = IF open THEN moved \cup rows ELSE moved

(* An INSERT ends, or the process does; created_at is NOW().                *)
RowsEnd(stored, lost) ==
  /\ Log!End(stored, lost)
  /\ created' = [row \in Row |-> IF row \in stored THEN day ELSE created[row]]
  /\ Moved(stored)
  /\ UNCHANGED <<day, settled, open, seen, shown>>

Old == {row \in Log!Are("stored") : created[row] < day - RetentionDays}

Cleanup ==
  /\ Old # {}
  /\ Log!Delete(Old)
  /\ Moved(Old)
  /\ UNCHANGED <<day, settled, created, open, seen, shown>>

-----------------------------------------------------------------------------
(* The dashboard. *)

PostAudit(row) == created[row] > AuditedThrough

(* Mutant: a MegaETH settlement counts with each of its rows.               *)
IsSettlement_AnyRow(row) == PostAudit(row)

(* Mutant: only what was settled lately.                                    *)
IsSettlement_Lately(row) ==
  /\ row.service = "megaeth-payment" <=> row.call \in Direct
  /\ PostAudit(row) /\ created[row] = day

(* On MegaETH the payment row counts, elsewhere the API row.                *)
IsSettlement(row) ==
  /\ row.service = "megaeth-payment" <=> row.call \in Direct
  /\ PostAudit(row)

(* The WHERE clauses.                                                       *)
Where(q, row) ==
  CASE q = "total" -> TRUE
    [] q = "api" -> row.service # "megaeth-payment"
    [] q = "payments" -> row.service = "megaeth-payment"
    [] q = "settlements" -> IsSettlement(row)
    [] q = "postAudit" -> row.service # "megaeth-payment" /\ PostAudit(row)

Open ==
  /\ ~open
  /\ day > AuditedThrough
  /\ open' = TRUE /\ seen' = Unread /\ moved' = {}
  /\ UNCHANGED <<day, settled, fate, created, shown>>

(* PostgreSQL executes a query.                                             *)
Query(q) ==
  /\ open
  /\ q \notin DOMAIN seen
  /\ seen' = [p \in DOMAIN seen \cup {q} |->
               IF p = q THEN {row \in Log!Are("stored") : Where(q, row)} ELSE seen[p]]
  /\ UNCHANGED <<day, settled, fate, created, open, moved, shown>>

(* One query fails, or has no client for 5 s: 500, whatever the others say. *)
QueryFails ==
  /\ open
  /\ DOMAIN seen # Queries
  /\ open' = FALSE /\ seen' = Unread /\ moved' = {}
  /\ UNCHANGED <<day, settled, fate, created, shown>>

Ready == open /\ DOMAIN seen = Queries

Answer ==
  /\ Ready
  /\ shown' = seen["settlements"]
  /\ open' = FALSE /\ seen' = Unread /\ moved' = {}
  /\ UNCHANGED <<day, settled, fate, created>>

Next ==
  \/ NextDay
  \/ \E c \in Calls : Settle(c) \/ LogPayment(c) \/ LogApi(c)
  \/ \E stored \in SUBSET Log!Are("pending") :
       \E lost \in SUBSET (Log!Are("pending") \ stored) :
         stored \cup lost # {} /\ RowsEnd(stored, lost)
  \/ Cleanup
  \/ Open
  \/ \E q \in Queries : Query(q)
  \/ QueryFails
  \/ Answer

Spec == Init /\ [][Next]_vars

-----------------------------------------------------------------------------
(* calculateLifetimeMetrics on what the queries have seen. *)

(* The census of the chains.                                                *)
Audited == {c \in Calls : settled[c] \in 1 .. AuditedThrough}

(* How often the lifetime figure counts a call.                             *)
Times(c) ==
  Cardinality({row \in seen["settlements"] : row.call = c})
    + (IF c \in Audited THEN 1 ELSE 0)

Unattributed ==
  LET n == Cardinality(seen["settlements"]) - Cardinality(seen["postAudit"])
  IN IF n > 0 THEN n ELSE 0

(* The row that stands for the settlement of a call.                        *)
SettlementRow(c) == IF c \in Direct THEN Payment(c) ELSE Api(c)

Visible(row) == fate[row] = "stored" /\ row \notin moved

(* "adds post-audit settlements without double-counting the baseline"       *)
(* (test/lifetime-dashboard.test.ts:16): a call settled on a chain is       *)
(* counted once in the lifetime figures, and one that was not is not        *)
(* counted.  What goes wrong is due to one of these: its row was written on *)
(* the other side of the audit than its settlement, the row is not in the   *)
(* table (not yet, no more, or lost), it came or went while the queries     *)
(* ran, or the SDK did not settle after the handler had logged.             *)
LifetimeExplained ==
  Ready =>
    \A c \in Calls :
      LET row == SettlementRow(c)
          late == created[row] > AuditedThrough
      IN /\ Times(c) > 1 => c \in Audited /\ late
         /\ Times(c) = 1 /\ settled[c] = 0 => c \notin Direct
         /\ Times(c) = 0 /\ settled[c] # 0 => ~Visible(row) \/ ~late

(* The figures of one answer are not of one moment, but they disagree by no *)
(* more than the rows that came or went while the queries ran: the total    *)
(* against the API calls and payments it consists of, and the settlements   *)
(* that no API row accounts for against the direct payments whose handler   *)
(* did not log.                                                             *)
AnswersAddUp ==
  Ready =>
    LET parts == seen["api"] \cup seen["payments"]
        alone == {c \in Direct : fate[Api(c)] # "stored" \/ ~PostAudit(Api(c))}
    IN /\ (seen["total"] \ parts) \cup (parts \ seen["total"]) \subseteq moved
       /\ seen["api"] \cap seen["payments"] = {}
       /\ Unattributed <= Cardinality(alone) + Cardinality(moved)

(* The lifetime figure of an answer is below that of the answer before only *)
(* by settlements whose rows the retention policy has deleted: the          *)
(* increments since the audit are counted from the rows that are retained.  *)
LifetimeShrinksOnlyByRetention ==
  Ready => shown \ seen["settlements"] \subseteq Log!Are("deleted")
=============================================================================
