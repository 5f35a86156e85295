------------------------- MODULE MegaethPaymentProofs -------------------------
(***************************************************************************)
(* Type correctness of MegaethPayment, its central safety properties and    *)
(* its refinement of PaymentOnce, for all sets of calls and hashes, all     *)
(* receipts and any number of restarts.                                     *)
(*                                                                         *)
(* The argument rests on the row: a call whose INSERT is on its way has a   *)
(* paid transaction (InsertingIsPaid), only such a call can own a row       *)
(* (RowsArePaid), a reply "inserted" means the row is the call's own        *)
(* (InsertedHasRow), and a call is accepted on no other ground              *)
(* (AcceptedIsRecorded).  A row has one owner, so no transaction is         *)
(* accepted twice.                                                          *)
(*                                                                         *)
(* The last part is about what a payer can lose.                            *)
(***************************************************************************)
EXTENDS MegaethPayment, TransferLogsProofs

Paid(c) ==
  /\ Transaction(c) \in mined
  /\ Receipt[Key(c)].status = "success"
  /\ Sufficient(Key(c), request[c].demand)

(* A call that has not been made has no verification. *)
IdleIsFresh == \A c \in Calls : phase[c] = "idle" => verif[c] = "none"

UnansweredIsBlank == \A c \in Calls : phase[c] # "answered" => answer[c] = NoAnswer

OwnsNothingYet ==
  \A c \in Calls, s \in Spellings :
    verif[c] \in {"none", "check", "fetch", "insert", "orphan"} => rows[s] # c

InsertingIsPaid ==
  \A c \in Calls : verif[c] \in {"insert", "inserted", "conflict", "orphan"} => Paid(c)

InsertedHasRow == \A c \in Calls : verif[c] = "inserted" => rows[Key(c)] = c

RowsArePaid ==
  \A c \in Calls, s \in Spellings : rows[s] = c => Key(c) = s /\ Paid(c)

IInv ==
  /\ TypeOK
  /\ IdleIsFresh
  /\ UnansweredIsBlank
  /\ OwnsNothingYet
  /\ InsertingIsPaid
  /\ InsertedHasRow
  /\ RowsArePaid
  /\ AcceptedIsRecorded

-----------------------------------------------------------------------------
(* The key of a call with a request is the spelling of a transaction. *)
LEMMA KeyType ==
  ASSUME TypeOK, NEW c \in Calls, verif[c] # "none"
  PROVE  Key(c) \in Spellings /\ Key(c) \in Hashes
  BY LowerAssumption DEF TypeOK, Key, Request, Hashes

Codes == {0, 200, 400, 402, 408, 500, 503}

(* Answering a call that has no answer yet keeps the types, and accepts the *)
(* call only with the reason "valid".                                       *)
LEMMA RespondEffect ==
  ASSUME TypeOK, UnansweredIsBlank, NEW c \in Calls,
         phase[c] \in {"idle", "racing", "verifying"},
         NEW code \in Codes, NEW why \in Reasons, Respond(c, code, why)
  PROVE  /\ phase' \in [Calls -> Phases]
         /\ answer' \in [Calls -> Answers]
         /\ UnansweredIsBlank'
         /\ \A d \in Calls : phase'[d] = "idle" => phase[d] = "idle"
         /\ \A d \in Calls : Accepted(d) => Accepted(d)'
         /\ \A d \in Calls : Accepted(d)' => Accepted(d) \/ (d = c /\ why = "valid")
  <1>1. /\ phase' = [phase EXCEPT ![c] = "answered"]
        /\ answer' = [answer EXCEPT ![c] = [code |-> code, why |-> why]]
    BY DEF Respond
  <1>2. phase \in [Calls -> Phases] /\ answer \in [Calls -> Answers]
    BY DEF TypeOK
  <1>3. [code |-> code, why |-> why] \in Answers
    BY DEF Answers, Codes
  <1>4. phase' \in [Calls -> Phases] /\ answer' \in [Calls -> Answers]
    BY <1>1, <1>2, <1>3 DEF Phases
  <1>5. /\ phase'[c] = "answered"
        /\ answer'[c].why = why
        /\ \A d \in Calls \ {c} : phase'[d] = phase[d] /\ answer'[d] = answer[d]
    BY <1>1, <1>2
  <1>6. ~Accepted(c)
    <2>1. answer[c] = NoAnswer
      BY DEF UnansweredIsBlank
    <2>2. QED BY <2>1 DEF Accepted, NoAnswer
  <1>7. UnansweredIsBlank'
    BY <1>5 DEF UnansweredIsBlank
  <1>8. \A d \in Calls : phase'[d] = "idle" => phase[d] = "idle"
    BY <1>5
  <1>9. ASSUME NEW d \in Calls
        PROVE  /\ Accepted(d) => Accepted(d)'
               /\ Accepted(d)' => Accepted(d) \/ (d = c /\ why = "valid")
    <2>1. CASE d = c
      BY <1>5, <1>6, <2>1 DEF Accepted
    <2>2. CASE d # c
      BY <1>5, <2>2 DEF Accepted
    <2>3. QED BY <2>1, <2>2
  <1>10. QED
    BY <1>4, <1>7, <1>8, <1>9

(* Resuming whoever waits keeps the types, never un-accepts a call, and     *)
(* accepts none but c, and c only on the result "valid".                    *)
LEMMA ResumeEffect ==
  ASSUME TypeOK, UnansweredIsBlank, NEW c \in Calls, NEW result \in Reasons,
         Resume(c, result)
  PROVE  /\ phase' \in [Calls -> Phases]
         /\ answer' \in [Calls -> Answers]
         /\ UnansweredIsBlank'
         /\ \A d \in Calls : phase'[d] = "idle" => phase[d] = "idle"
         /\ \A d \in Calls : Accepted(d) => Accepted(d)'
         /\ \A d \in Calls : Accepted(d)' => Accepted(d) \/ (d = c /\ result = "valid")
  <1>1. \/ /\ phase[c] = "racing" /\ result = "valid"
           /\ phase' = [phase EXCEPT ![c] = "granted"] /\ answer' = answer
        \/ /\ phase[c] \in {"racing", "verifying"}
           /\ \E code \in Codes, why \in Reasons :
                Respond(c, code, why) /\ (why = "valid" => result = "valid")
        \/ phase' = phase /\ answer' = answer
    <2>1. "valid" \in Reasons /\ "timeout" \in Reasons /\ "error" \in Reasons
      BY DEF Reasons
    <2>2. 200 \in Codes /\ 402 \in Codes /\ 500 \in Codes /\ 503 \in Codes
      BY DEF Codes
    <2>3. CASE phase[c] = "racing" /\ MiddlewareResumes(c, result)
      BY <2>1, <2>2, <2>3 DEF MiddlewareResumes
    <2>4. CASE phase[c] = "verifying" /\ FacilitatorResumes(c, result)
      BY <2>1, <2>2, <2>4 DEF FacilitatorResumes
    <2>5. QED BY <2>3, <2>4 DEF Resume
  <1>2. CASE /\ phase[c] = "racing" /\ result = "valid"
             /\ phase' = [phase EXCEPT ![c] = "granted"] /\ answer' = answer
    BY <1>2 DEF TypeOK, Phases, UnansweredIsBlank, Accepted
  <1>3. CASE /\ phase[c] \in {"racing", "verifying"}
             /\ \E code \in Codes, why \in Reasons :
                  Respond(c, code, why) /\ (why = "valid" => result = "valid")
    BY <1>3, RespondEffect
  <1>4. CASE phase' = phase /\ answer' = answer
    BY <1>4 DEF TypeOK, UnansweredIsBlank, Accepted
  <1>5. QED BY <1>1, <1>2, <1>3, <1>4

-----------------------------------------------------------------------------
(* The steps that leave the chain, the table and the requests alone. *)

LEMMA SameRequestsSamePaid ==
  ASSUME UNCHANGED <<mined, request>>, NEW c \in Calls
  PROVE  /\ Key(c)' = Key(c)
         /\ Transaction(c)' = Transaction(c)
         /\ Paid(c)' <=> Paid(c)
  BY DEF Key, Transaction, Paid, Sufficient

(* Answering a call without touching its verification.                      *)
LEMMA RespondKeepsIInv ==
  ASSUME IInv, NEW c \in Calls, phase[c] \in {"idle", "racing", "verifying"},
         NEW code \in Codes, NEW why \in Reasons \ {"valid"}, Respond(c, code, why),
         UNCHANGED <<mined, rows, request, verif, restarts>>
  PROVE  IInv'
  <1> USE DEF IInv
  <1>1. /\ phase' \in [Calls -> Phases]
        /\ answer' \in [Calls -> Answers]
        /\ UnansweredIsBlank'
        /\ \A d \in Calls : phase'[d] = "idle" => phase[d] = "idle"
        /\ \A d \in Calls : Accepted(d)' => Accepted(d)
    BY RespondEffect
  <1>2. TypeOK'
    BY <1>1 DEF TypeOK
  <1>3. IdleIsFresh'
    BY <1>1 DEF IdleIsFresh
  <1>4. OwnsNothingYet'
    BY DEF OwnsNothingYet
  <1>5. InsertingIsPaid' /\ InsertedHasRow' /\ RowsArePaid'
    BY SameRequestsSamePaid DEF InsertingIsPaid, InsertedHasRow, RowsArePaid
  <1>6. AcceptedIsRecorded'
    BY <1>1, SameRequestsSamePaid DEF AcceptedIsRecorded
  <1>7. QED BY <1>1, <1>2, <1>3, <1>4, <1>5, <1>6

(* A verification ends, or is abandoned to an orphaned INSERT, and whoever  *)
(* waits is resumed: with "valid" only if the INSERT made the row.          *)
LEMMA ResumeKeepsIInv ==
  ASSUME IInv, NEW c \in Calls, verif[c] # "none",
         NEW result \in Reasons, Resume(c, result), result = "valid" => verif[c] = "inserted",
         NEW stage \in {"done", "orphan"}, stage = "orphan" => verif[c] = "insert",
         verif' = [verif EXCEPT ![c] = stage],
         UNCHANGED <<mined, rows, request, restarts>>
  PROVE  IInv'
  <1> USE DEF IInv
  <1>1. /\ phase' \in [Calls -> Phases]
        /\ answer' \in [Calls -> Answers]
        /\ UnansweredIsBlank'
        /\ \A d \in Calls : phase'[d] = "idle" => phase[d] = "idle"
        /\ \A d \in Calls : Accepted(d)' => Accepted(d) \/ (d = c /\ result = "valid")
    BY ResumeEffect
  <1>2. /\ verif' \in [Calls -> Stages]
        /\ verif'[c] = stage
        /\ \A d \in Calls \ {c} : verif'[d] = verif[d]
    BY DEF TypeOK, Stages
  <1>3. TypeOK'
    BY <1>1, <1>2 DEF TypeOK
  <1>4. IdleIsFresh'
    BY <1>1, <1>2 DEF IdleIsFresh
  <1>5. OwnsNothingYet'
    BY <1>2 DEF OwnsNothingYet
  <1>6. InsertingIsPaid' /\ InsertedHasRow' /\ RowsArePaid'
    BY <1>2, SameRequestsSamePaid DEF InsertingIsPaid, InsertedHasRow, RowsArePaid
  <1>7. AcceptedIsRecorded'
    <2>1. \A d \in Calls : Key(d)' = Key(d) /\ rows' = rows /\ request' = request
      BY SameRequestsSamePaid
    <2>2. result = "valid" => request[c] \in Request /\ rows[Key(c)] = c
      BY DEF TypeOK, InsertedHasRow
    <2>3. QED BY <1>1, <2>1, <2>2 DEF AcceptedIsRecorded
  <1>8. QED BY <1>1, <1>3, <1>4, <1>5, <1>6, <1>7

(* A verification goes on to fetch the receipt or to insert the row.        *)
LEMMA ProceedKeepsIInv ==
  ASSUME IInv, NEW c \in Calls, verif[c] \in {"check", "fetch"},
         NEW stage \in {"fetch", "insert"}, stage = "insert" => Paid(c),
         Proceed(c, stage), UNCHANGED <<mined, rows, request, restarts>>
  PROVE  IInv'
  <1> USE DEF IInv
  <1>1. /\ verif' \in [Calls -> Stages]
        /\ verif'[c] = stage
        /\ \A d \in Calls \ {c} : verif'[d] = verif[d]
        /\ phase' = phase /\ answer' = answer
    BY DEF TypeOK, Stages, Proceed
  <1>2. TypeOK'
    BY <1>1 DEF TypeOK
  <1>3. IdleIsFresh' /\ UnansweredIsBlank'
    BY <1>1 DEF IdleIsFresh, UnansweredIsBlank
  <1>4. OwnsNothingYet'
    BY <1>1 DEF OwnsNothingYet
  <1>5. InsertingIsPaid' /\ InsertedHasRow' /\ RowsArePaid'
    BY <1>1, SameRequestsSamePaid DEF InsertingIsPaid, InsertedHasRow, RowsArePaid
  <1>6. AcceptedIsRecorded'
    BY <1>1, SameRequestsSamePaid DEF AcceptedIsRecorded, Accepted
  <1>7. QED BY <1>2, <1>3, <1>4, <1>5, <1>6

-----------------------------------------------------------------------------
(* The steps that write a row, start a call, or belong to the environment. *)

(* PostgreSQL executes an INSERT: the row goes to the call if it is new.    *)
LEMMA InsertKeepsIInv ==
  ASSUME IInv, NEW c \in Calls, verif[c] \in {"insert", "orphan"},
         NEW stage \in {"inserted", "conflict", "done"},
         stage = "inserted" => rows[Key(c)] = NoOne,
         rows' = InsertOnConflictDoNothing(Key(c), c).rows,
         Proceed(c, stage), UNCHANGED <<mined, request, restarts>>
  PROVE  IInv'
  <1> USE DEF IInv
  <1>1. /\ verif' \in [Calls -> Stages]
        /\ verif'[c] = stage
        /\ \A d \in Calls \ {c} : verif'[d] = verif[d]
        /\ phase' = phase /\ answer' = answer
    BY DEF TypeOK, Stages, Proceed
  <1>2. Key(c) \in Spellings
    BY KeyType
  <1>3. /\ rows' \in [Spellings -> Calls \cup {NoOne}]
        /\ \A s \in Spellings : rows'[s] = rows[s] \/ (s = Key(c) /\ rows[s] = NoOne /\ rows'[s] = c)
        /\ stage = "inserted" => rows'[Key(c)] = c
    BY <1>2 DEF TypeOK, InsertOnConflictDoNothing
  <1>4. TypeOK'
    BY <1>1, <1>3 DEF TypeOK
  <1>5. IdleIsFresh' /\ UnansweredIsBlank'
    BY <1>1 DEF IdleIsFresh, UnansweredIsBlank
  <1>6. OwnsNothingYet'
    BY <1>1, <1>3 DEF OwnsNothingYet
  <1>7. Paid(c)
    BY DEF InsertingIsPaid
  <1>8. InsertingIsPaid'
    BY <1>1, SameRequestsSamePaid DEF InsertingIsPaid
  <1>9. InsertedHasRow'
    <2> SUFFICES ASSUME NEW d \in Calls, verif'[d] = "inserted"
                 PROVE  rows'[Key(d)] = d
      BY SameRequestsSamePaid DEF InsertedHasRow
    <2>1. CASE d = c
      BY <1>1, <1>3, <2>1
    <2>2. CASE d # c
      <3>1. verif[d] = "inserted" /\ rows[Key(d)] = d
        BY <1>1, <2>2 DEF InsertedHasRow
      <3>2. Key(d) \in Spellings
        BY <3>1, KeyType
      <3>3. QED BY <1>3, <3>1, <3>2, CallsAssumption
    <2>3. QED BY <2>1, <2>2
  <1>10. RowsArePaid'
    BY <1>3, <1>7, SameRequestsSamePaid, CallsAssumption DEF RowsArePaid
  <1>11. AcceptedIsRecorded'
    <2> SUFFICES ASSUME NEW d \in Calls, Accepted(d)
                 PROVE  rows'[Key(d)] = d
      BY <1>1, SameRequestsSamePaid DEF AcceptedIsRecorded, Accepted
    <2>1. rows[Key(d)] = d
      BY DEF AcceptedIsRecorded
    <2>2. rows'[Key(d)] = rows[Key(d)] \/ rows[Key(d)] = NoOne
      BY <1>2, <1>3 DEF TypeOK, InsertOnConflictDoNothing
    <2>3. QED BY <2>1, <2>2, CallsAssumption
  <1>12. QED BY <1>4, <1>5, <1>6, <1>8, <1>9, <1>10, <1>11

(* A call that has not been made gets its request: it owns no row, has no   *)
(* verification and is not accepted, so nothing is said of its request yet. *)
LEMMA RequestKeepsOthers ==
  ASSUME IInv, NEW c \in Calls, phase[c] = "idle", NEW r \in Request,
         request' = [request EXCEPT ![c] = r], UNCHANGED <<mined, rows>>
  PROVE  /\ request' \in [Calls -> Request \cup {NoRequest}]
         /\ request'[c] = r
         /\ \A d \in Calls \ {c} : /\ Key(d)' = Key(d) /\ Transaction(d)' = Transaction(d)
                                   /\ Paid(d)' <=> Paid(d)
                                   /\ request'[d] = request[d]
         /\ verif[c] = "none"
         /\ \A s \in Spellings : rows[s] # c
         /\ ~Accepted(c)
  <1> USE DEF IInv
  <1>1. /\ request' \in [Calls -> Request \cup {NoRequest}]
        /\ request'[c] = r
        /\ \A d \in Calls \ {c} : request'[d] = request[d]
    BY DEF TypeOK
  <1>2. verif[c] = "none"
    BY DEF IdleIsFresh
  <1>3. \A s \in Spellings : rows[s] # c
    BY <1>2 DEF OwnsNothingYet
  <1>4. ~Accepted(c)
    <2>1. answer[c] = NoAnswer
      BY DEF UnansweredIsBlank
    <2>2. QED BY <2>1 DEF Accepted, NoAnswer
  <1>5. ASSUME NEW d \in Calls \ {c}
        PROVE  /\ Key(d)' = Key(d) /\ Transaction(d)' = Transaction(d)
               /\ Paid(d)' <=> Paid(d)
    BY <1>1 DEF Key, Transaction, Paid, Sufficient
  <1>6. QED BY <1>1, <1>2, <1>3, <1>4, <1>5

LEMMA BeginKeepsIInv ==
  ASSUME IInv, NEW c \in Calls, phase[c] = "idle", NEW r \in Request,
         NEW waiting \in {"racing", "verifying"}, BeginVerification(c, r, waiting)
  PROVE  IInv'
  <1> USE DEF IInv
  <1>1. /\ request' = [request EXCEPT ![c] = r]
        /\ UNCHANGED <<mined, rows, restarts>>
    BY DEF BeginVerification
  <1>2. /\ phase' \in [Calls -> Phases]
        /\ answer' \in [Calls -> Answers]
        /\ UnansweredIsBlank'
        /\ phase'[c] # "idle"
        /\ \A d \in Calls : phase'[d] = "idle" => phase[d] = "idle"
        /\ \A d \in Calls : Accepted(d)' => Accepted(d)
        /\ \E stage \in {"check", "done"} : verif' = [verif EXCEPT ![c] = stage]
    <2>1. CASE r.demand.payTo \in IllFormed
      <3>1. /\ Respond(c, 402, "bad recipient")
            /\ verif' = [verif EXCEPT ![c] = "done"]
        BY <2>1 DEF BeginVerification
      <3>2. 402 \in Codes /\ "bad recipient" \in Reasons
        BY DEF Codes, Reasons
      <3>3. phase'[c] = "answered"
        BY <3>1 DEF Respond, TypeOK
      <3>4. QED BY <3>1, <3>2, <3>3, RespondEffect, ZenonT(60)
    <2>2. CASE r.demand.payTo \notin IllFormed
      <3>1. /\ phase' = [phase EXCEPT ![c] = waiting]
            /\ verif' = [verif EXCEPT ![c] = "check"]
            /\ answer' = answer
        BY <2>2 DEF BeginVerification
      <3>2. QED BY <3>1 DEF TypeOK, Phases, UnansweredIsBlank, Accepted
    <2>3. QED BY <2>1, <2>2
  <1>3. PICK stage \in {"check", "done"} : verif' = [verif EXCEPT ![c] = stage]
    BY <1>2
  <1>4. /\ verif' \in [Calls -> Stages]
        /\ verif'[c] = stage
        /\ \A d \in Calls \ {c} : verif'[d] = verif[d]
    BY <1>3 DEF TypeOK, Stages
  <1>5. TypeOK'
    BY <1>1, <1>2, <1>4, RequestKeepsOthers DEF TypeOK
  <1>6. IdleIsFresh' /\ OwnsNothingYet'
    BY <1>1, <1>2, <1>4, RequestKeepsOthers DEF IdleIsFresh, OwnsNothingYet
  <1>7. /\ \A d \in Calls \ {c} : Key(d)' = Key(d) /\ (Paid(d)' <=> Paid(d))
        /\ verif[c] = "none" /\ ~Accepted(c) /\ \A s \in Spellings : rows[s] # c
    BY <1>1, RequestKeepsOthers
  <1>8. InsertingIsPaid'
    BY <1>4, <1>7 DEF InsertingIsPaid
  <1>9. InsertedHasRow'
    BY <1>1, <1>4, <1>7 DEF InsertedHasRow
  <1>10. RowsArePaid'
    BY <1>1, <1>7 DEF RowsArePaid
  <1>11. AcceptedIsRecorded'
    BY <1>1, <1>2, <1>7 DEF AcceptedIsRecorded
  <1>12. QED BY <1>2, <1>5, <1>6, <1>8, <1>9, <1>10, <1>11

LEMMA SettleRequestKeepsIInv ==
  ASSUME IInv, NEW c \in Calls, FacilitatorSettle(c)
  PROVE  IInv'
  <1> USE DEF IInv
  <1>1. PICK r \in Request : request' = [request EXCEPT ![c] = r]
    BY DEF FacilitatorSettle
  <1>2. /\ phase[c] = "idle" /\ Respond(c, 200, "settled")
        /\ UNCHANGED <<mined, rows, verif, restarts>>
    BY DEF FacilitatorSettle
  <1>3. /\ phase' \in [Calls -> Phases]
        /\ answer' \in [Calls -> Answers]
        /\ UnansweredIsBlank'
        /\ \A d \in Calls : phase'[d] = "idle" => phase[d] = "idle"
        /\ \A d \in Calls : Accepted(d)' => Accepted(d)
    <2>1. 200 \in Codes /\ "settled" \in Reasons
      BY DEF Codes, Reasons
    <2>2. QED BY <1>2, <2>1, RespondEffect
  <1>4. TypeOK'
    BY <1>1, <1>2, <1>3, RequestKeepsOthers DEF TypeOK
  <1>5. IdleIsFresh' /\ OwnsNothingYet'
    BY <1>2, <1>3 DEF IdleIsFresh, OwnsNothingYet
  <1>6. /\ \A d \in Calls \ {c} : Key(d)' = Key(d) /\ (Paid(d)' <=> Paid(d))
        /\ verif[c] = "none" /\ ~Accepted(c) /\ \A s \in Spellings : rows[s] # c
    BY <1>1, <1>2, RequestKeepsOthers
  <1>7. InsertingIsPaid'
    BY <1>2, <1>6 DEF InsertingIsPaid
  <1>8. InsertedHasRow'
    BY <1>2, <1>6 DEF InsertedHasRow
  <1>9. RowsArePaid'
    BY <1>2, <1>6 DEF RowsArePaid
  <1>10. AcceptedIsRecorded'
    <2>1. \A d \in Calls \ {c} : request'[d] = request[d]
      BY <1>1, <1>2, RequestKeepsOthers
    <2>2. QED BY <1>2, <1>3, <1>6, <2>1 DEF AcceptedIsRecorded
  <1>11. QED BY <1>3, <1>4, <1>5, <1>7, <1>8, <1>9, <1>10

LEMMA RestartKeepsIInv ==
  ASSUME IInv, Restart
  PROVE  IInv'
  <1> USE DEF IInv
  <1>1. UNCHANGED <<mined, rows, request, answer>>
    BY DEF Restart, CreateTables
  <1>2. /\ phase' \in [Calls -> Phases]
        /\ \A c \in Calls : /\ phase'[c] = "idle" <=> phase[c] = "idle"
                            /\ phase'[c] = "granted" <=> phase[c] = "granted"
                            /\ phase'[c] = "answered" <=> phase[c] = "answered"
    BY DEF Restart, TypeOK, Phases
  <1>3. /\ verif' \in [Calls -> Stages]
        /\ \A c \in Calls :
             \/ verif'[c] = verif[c] /\ verif[c] \in {"none", "orphan"}
             \/ verif'[c] = "orphan" /\ verif[c] = "insert"
             \/ verif'[c] = "done" /\ verif[c] # "none"
    BY DEF Restart, TypeOK, Stages
  <1>4. restarts' \in 0 .. MaxRestarts
    BY CallsAssumption DEF Restart, TypeOK
  <1>5. TypeOK'
    BY <1>1, <1>2, <1>3, <1>4 DEF TypeOK
  <1>6. IdleIsFresh' /\ UnansweredIsBlank'
    BY <1>1, <1>2, <1>3 DEF IdleIsFresh, UnansweredIsBlank
  <1>7. OwnsNothingYet'
    BY <1>1, <1>3 DEF OwnsNothingYet
  <1>8. InsertingIsPaid' /\ InsertedHasRow' /\ RowsArePaid'
    BY <1>1, <1>3, SameRequestsSamePaid DEF InsertingIsPaid, InsertedHasRow, RowsArePaid
  <1>9. AcceptedIsRecorded'
    BY <1>1, <1>2, SameRequestsSamePaid DEF AcceptedIsRecorded, Accepted
  <1>10. QED BY <1>5, <1>6, <1>7, <1>8, <1>9

LEMMA MineKeepsIInv ==
  ASSUME IInv, NEW t \in Hashes, Mine(t)
  PROVE  IInv'
  <1> USE DEF IInv
  <1>1. /\ mined' = mined \cup {t}
        /\ UNCHANGED <<rows, request, phase, answer, verif, restarts>>
    BY DEF Mine
  <1>2. \A c \in Calls : Key(c)' = Key(c) /\ (Paid(c) => Paid(c)')
    BY <1>1 DEF Key, Transaction, Paid, Sufficient
  <1>3. TypeOK'
    BY <1>1 DEF TypeOK
  <1>4. IdleIsFresh' /\ UnansweredIsBlank' /\ OwnsNothingYet'
    BY <1>1 DEF IdleIsFresh, UnansweredIsBlank, OwnsNothingYet
  <1>5. InsertingIsPaid' /\ InsertedHasRow' /\ RowsArePaid'
    BY <1>1, <1>2 DEF InsertingIsPaid, InsertedHasRow, RowsArePaid
  <1>6. AcceptedIsRecorded'
    BY <1>1, <1>2 DEF AcceptedIsRecorded, Accepted
  <1>7. QED BY <1>3, <1>4, <1>5, <1>6

-----------------------------------------------------------------------------
(* Every step keeps the invariant. *)

LEMMA InitIInv == Init => IInv
  BY CallsAssumption
  DEF Init, IInv, TypeOK, Phases, Stages, Answers, NoAnswer, Reasons, IdleIsFresh,
      UnansweredIsBlank, OwnsNothingYet, InsertingIsPaid, InsertedHasRow, RowsArePaid,
      AcceptedIsRecorded, Accepted

LEMMA ArriveKeepsIInv ==
  ASSUME IInv, NEW c \in Calls, Arrive(c)
  PROVE  IInv'
  <1>1. CASE PassThrough(c)
    <2>1. /\ phase[c] = "idle" /\ phase' = [phase EXCEPT ![c] = "passed"]
          /\ UNCHANGED <<mined, rows, request, answer, verif, restarts>>
      BY <1>1 DEF PassThrough
    <2>2. TypeOK /\ phase' \in [Calls -> Phases]
      BY <2>1 DEF IInv, TypeOK, Phases
    <2>3. \A d \in Calls : phase'[d] = phase[d] \/ (d = c /\ phase'[d] = "passed")
      BY <2>1, <2>2 DEF TypeOK
    <2>4. TypeOK' /\ IdleIsFresh' /\ UnansweredIsBlank' /\ OwnsNothingYet'
      BY <2>1, <2>2, <2>3
      DEF IInv, TypeOK, IdleIsFresh, UnansweredIsBlank, OwnsNothingYet
    <2>5. InsertingIsPaid' /\ InsertedHasRow' /\ RowsArePaid'
      BY <2>1, SameRequestsSamePaid DEF IInv, InsertingIsPaid, InsertedHasRow, RowsArePaid
    <2>6. AcceptedIsRecorded'
      BY <2>1, <2>3, SameRequestsSamePaid DEF IInv, AcceptedIsRecorded, Accepted
    <2>7. QED BY <2>4, <2>5, <2>6 DEF IInv
  <1>2. CASE RefuseHeader(c) \/ FacilitatorRefuse(c)
    <2>1. /\ 400 \in Codes /\ 402 \in Codes /\ 500 \in Codes /\ 503 \in Codes
          /\ "missing hash" \in Reasons \ {"valid"} /\ "error" \in Reasons \ {"valid"}
          /\ "bad body" \in Reasons \ {"valid"}
      BY DEF Codes, Reasons
    <2>2. /\ phase[c] = "idle"
          /\ UNCHANGED <<mined, rows, request, verif, restarts>>
          /\ \/ Respond(c, 402, "missing hash") \/ Respond(c, 503, "error")
             \/ Respond(c, 400, "bad body") \/ Respond(c, 500, "error")
      BY <1>2 DEF RefuseHeader, FacilitatorRefuse
    <2>3. QED BY <2>1, <2>2, RespondKeepsIInv
  <1>3. CASE StartRace(c) \/ FacilitatorVerify(c)
    <2>1. PICK r \in Request, waiting \in {"racing", "verifying"} :
            phase[c] = "idle" /\ BeginVerification(c, r, waiting)
      BY <1>3 DEF StartRace, FacilitatorVerify
    <2>2. QED BY <2>1, BeginKeepsIInv
  <1>4. CASE FacilitatorSettle(c)
    BY <1>4, SettleRequestKeepsIInv
  <1>5. QED BY <1>1, <1>2, <1>3, <1>4 DEF Arrive

LEMMA VerifyKeepsIInv ==
  ASSUME IInv, NEW c \in Calls, Verify(c)
  PROVE  IInv'
  <1>1. ASSUME verif[c] # "none", NEW result \in Reasons, Settle(c, result),
               result = "valid" => verif[c] = "inserted",
               UNCHANGED <<mined, rows, request, restarts>>
        PROVE  IInv'
    BY <1>1, ResumeKeepsIInv DEF Settle
  <1>2. {"used", "error", "not found", "malformed", "reverted", "unpaid", "race", "valid"}
          \subseteq Reasons
    BY DEF Reasons
  <1>3. CASE CheckUsed(c)
    BY <1>1, <1>2, <1>3, ProceedKeepsIInv DEF CheckUsed
  <1>4. CASE CheckFails(c)
    BY <1>1, <1>2, <1>4 DEF CheckFails
  <1>5. CASE ReceiptArrives(c)
    <2> DEFINE result == Examine(Key(c), request[c].demand)
    <2>1. /\ verif[c] = "fetch" /\ Transaction(c) \in mined
          /\ UNCHANGED <<mined, rows, request, restarts>>
          /\ IF result = "paid" THEN Proceed(c, "insert") ELSE Settle(c, result)
      BY <1>5 DEF ReceiptArrives
    <2>2. /\ result \in {"reverted", "paid", "unpaid"}
          /\ result = "paid" => Paid(c)
      BY <2>1 DEF Examine, Paid
    <2> HIDE DEF result
    <2>3. CASE result = "paid"
      BY <2>1, <2>2, <2>3, ProceedKeepsIInv
    <2>4. CASE result # "paid"
      BY <1>1, <1>2, <2>1, <2>2, <2>4
    <2>5. QED BY <2>3, <2>4
  <1>6. CASE FetchFails(c)
    BY <1>1, <1>2, <1>6 DEF FetchFails
  <1>7. CASE InsertExecutes(c)
    <2> DEFINE done == InsertOnConflictDoNothing(Key(c), c)
               stage == IF done.inserted THEN "inserted" ELSE "conflict"
    <2>1. /\ verif[c] = "insert" /\ rows' = done.rows /\ Proceed(c, stage)
          /\ UNCHANGED <<mined, request, restarts>>
      BY <1>7 DEF InsertExecutes
    <2>2. stage \in {"inserted", "conflict"} /\ (stage = "inserted" => rows[Key(c)] = NoOne)
      BY DEF InsertOnConflictDoNothing
    <2> HIDE DEF stage
    <2>3. QED BY <2>1, <2>2, InsertKeepsIInv
  <1>8. CASE InsertReplies(c)
    BY <1>1, <1>2, <1>8 DEF InsertReplies
  <1>9. CASE InsertFails(c)
    <2>1. CASE verif[c] \in {"insert", "inserted", "conflict"} /\ Settle(c, "race")
      BY <1>1, <1>2, <1>9, <2>1 DEF InsertFails
    <2>2. CASE /\ verif[c] = "insert"
               /\ verif' = [verif EXCEPT ![c] = "orphan"]
               /\ Resume(c, "race")
      BY <1>2, <1>9, <2>2, ResumeKeepsIInv DEF InsertFails
    <2>3. QED BY <1>9, <2>1, <2>2 DEF InsertFails
  <1>10. QED
    BY <1>3, <1>4, <1>5, <1>6, <1>7, <1>8, <1>9 DEF Verify

LEMMA TimersKeepIInv ==
  ASSUME IInv, NEW c \in Calls, RaceTimeout(c) \/ RequestTimeout(c)
  PROVE  IInv'
  <1>1. 503 \in Codes /\ 408 \in Codes /\ "timeout" \in Reasons \ {"valid"}
    BY DEF Codes, Reasons
  <1>2. QED BY <1>1, RespondKeepsIInv DEF RaceTimeout, RequestTimeout

LEMMA OrphanKeepsIInv ==
  ASSUME IInv, NEW c \in Calls, OrphanEnds(c)
  PROVE  IInv'
  <1>1. /\ verif[c] = "orphan" /\ Proceed(c, "done")
        /\ UNCHANGED <<mined, request, restarts>>
    BY DEF OrphanEnds
  <1>2. CASE rows' = InsertOnConflictDoNothing(Key(c), c).rows
    BY <1>1, <1>2, InsertKeepsIInv
  <1>3. CASE UNCHANGED rows
    <2>1. /\ verif' \in [Calls -> Stages]
          /\ \A d \in Calls : verif'[d] = verif[d] \/ (d = c /\ verif'[d] = "done")
          /\ phase' = phase /\ answer' = answer
      BY <1>1 DEF IInv, TypeOK, Stages, Proceed
    <2>2. TypeOK' /\ IdleIsFresh' /\ UnansweredIsBlank' /\ OwnsNothingYet'
      BY <1>1, <1>3, <2>1
      DEF IInv, TypeOK, IdleIsFresh, UnansweredIsBlank, OwnsNothingYet
    <2>3. InsertingIsPaid' /\ InsertedHasRow' /\ RowsArePaid'
      BY <1>1, <1>3, <2>1, SameRequestsSamePaid
      DEF IInv, InsertingIsPaid, InsertedHasRow, RowsArePaid
    <2>4. AcceptedIsRecorded'
      BY <1>1, <1>3, <2>1, SameRequestsSamePaid DEF IInv, AcceptedIsRecorded, Accepted
    <2>5. QED BY <2>2, <2>3, <2>4 DEF IInv
  <1>4. QED BY <1>2, <1>3 DEF OrphanEnds

LEMMA StutterKeepsIInv == IInv /\ UNCHANGED vars => IInv'
  <1> SUFFICES ASSUME IInv, UNCHANGED vars
               PROVE  IInv'
    OBVIOUS
  <1>1. TypeOK' /\ IdleIsFresh' /\ UnansweredIsBlank' /\ OwnsNothingYet'
    BY DEF IInv, vars, TypeOK, IdleIsFresh, UnansweredIsBlank, OwnsNothingYet
  <1>2. InsertingIsPaid' /\ InsertedHasRow' /\ RowsArePaid'
    BY SameRequestsSamePaid DEF IInv, vars, InsertingIsPaid, InsertedHasRow, RowsArePaid
  <1>3. AcceptedIsRecorded'
    BY SameRequestsSamePaid DEF IInv, vars, AcceptedIsRecorded, Accepted
  <1>4. QED BY <1>1, <1>2, <1>3 DEF IInv

LEMMA StepKeepsIInv == IInv /\ [Next]_vars => IInv'
  BY ArriveKeepsIInv, VerifyKeepsIInv, TimersKeepIInv, OrphanKeepsIInv, MineKeepsIInv,
     RestartKeepsIInv, StutterKeepsIInv DEF Next

-----------------------------------------------------------------------------
(* The inductive invariant holds in every reachable state of the payment    *)
(* gateway (payment.ts, megaeth.ts, ledger.ts, facilitator/index.ts).       *)
THEOREM Invariance == Spec => []IInv
  BY InitIInv, StepKeepsIInv, PTL DEF Spec

(* The state of the payment gateway always has its types. *)
THEOREM TypeCorrectness == Spec => []TypeOK
  <1>1. IInv => TypeOK
    BY DEF IInv
  <1>2. QED BY <1>1, Invariance, PTL

(* A call's row is in used_tx_hashes before the call is accepted, and stays *)
(* there: the replay protection of megaeth.ts does not depend on memory.    *)
THEOREM RecordedBeforeAccepted == Spec => []AcceptedIsRecorded
  <1>1. IInv => AcceptedIsRecorded
    BY DEF IInv
  <1>2. QED BY <1>1, Invariance, PTL

(* Each transaction pays for at most one call: the replay protection of     *)
(* verifyMegaETHPayment and recordTxHash, under every interleaving.         *)
THEOREM NoDoubleUse == Spec => []TxHashUsedOnce
  <1>1. IInv => TxHashUsedOnce
    BY DEF IInv, AcceptedIsRecorded, TxHashUsedOnce, Key, Transaction
  <1>2. QED BY <1>1, Invariance, PTL

(* Hashes are spellings, and their receipts hold logs. *)
LEMMA KeyOfRequest ==
  ASSUME NEW c \in Calls, request[c] \in Request
  PROVE  /\ Key(c) \in Spellings
         /\ Receipt[Key(c)].logs \in Seq(Log)
         /\ request[c].demand.amount \in Int
  <1>1. request[c].tx \in Spellings /\ request[c].demand \in Demands
    BY DEF Request
  <1>2. Key(c) \in Spellings /\ Key(c) \in Hashes
    BY <1>1, LowerAssumption DEF Key, Hashes
  <1>3. QED BY <1>1, <1>2, ReceiptAssumption

(* No call is accepted by payment.ts or the facilitator unless the mined    *)
(* transaction sent the demanded recipient at least the demanded amount:    *)
(* for receipts with any logs, by what verifyTransferLogs computes          *)
(* (VerdictIsRight).                                                        *)
THEOREM NothingForFree == Spec => []AcceptedIsPaid
  <1>1. IInv => AcceptedIsPaid
    <2> SUFFICES ASSUME IInv, NEW c \in Calls, Accepted(c)
                 PROVE  /\ Paid(c)
                        /\ Received(Receipt[Key(c)].logs, request[c].demand.payTo) > 0
                        /\ Received(Receipt[Key(c)].logs, request[c].demand.payTo)
                             >= request[c].demand.amount
      BY DEF AcceptedIsPaid, Paid
    <2>1. rows[Key(c)] = c /\ request[c] \in Request
      BY DEF IInv, AcceptedIsRecorded
    <2>2. Paid(c)
      BY <2>1, KeyOfRequest DEF IInv, RowsArePaid
    <2>3. VerifyTransferLogs(Receipt[Key(c)].logs, request[c].demand.amount,
                             request[c].demand.payTo).valid
      BY <2>2 DEF Paid, Sufficient
    <2>4. QED BY <2>1, <2>2, <2>3, KeyOfRequest, VerdictIsRight
  <1>2. QED BY <1>1, Invariance, PTL

-----------------------------------------------------------------------------
(* What a step does to the chain, the table and the set of accepted calls.  *)

SameAccepted == \A d \in Calls : Accepted(d)' <=> Accepted(d)

NothingHappens == UNCHANGED <<mined, rows>> /\ SameAccepted

SomeoneIsAccepted ==
  /\ UNCHANGED <<mined, rows>>
  /\ \E c \in Calls : /\ Key(c) \in Hashes /\ rows[Key(c)] = c
                      /\ \A d \in Calls : Accepted(d)' <=> (Accepted(d) \/ d = c)

SomeoneTakesARow ==
  /\ UNCHANGED mined /\ SameAccepted
  /\ \E c \in Calls : /\ Key(c) \in Hashes /\ Key(c) \in mined
                      /\ rows[Key(c)] = NoOne
                      /\ \A s \in Spellings : rows[s] # c
                      /\ rows' = [rows EXCEPT ![Key(c)] = c]

LEMMA ResumeShape ==
  ASSUME IInv, NEW c \in Calls, verif[c] # "none",
         NEW result \in Reasons, Resume(c, result), result = "valid" => verif[c] = "inserted",
         UNCHANGED <<mined, rows>>
  PROVE  NothingHappens \/ SomeoneIsAccepted
  <1>1. /\ \A d \in Calls : Accepted(d) => Accepted(d)'
        /\ \A d \in Calls : Accepted(d)' => Accepted(d) \/ (d = c /\ result = "valid")
    BY ResumeEffect DEF IInv
  <1>2. CASE result = "valid"
    <2>1. Key(c) \in Hashes /\ rows[Key(c)] = c
      BY <1>2, KeyType DEF IInv, InsertedHasRow
    <2>2. CASE Accepted(c)'
      BY <1>1, <2>1, <2>2 DEF SomeoneIsAccepted
    <2>3. CASE ~Accepted(c)'
      BY <1>1, <2>3 DEF NothingHappens, SameAccepted
    <2>4. QED BY <2>2, <2>3
  <1>3. CASE result # "valid"
    BY <1>1, <1>3 DEF NothingHappens, SameAccepted
  <1>4. QED BY <1>2, <1>3

LEMMA RespondShape ==
  ASSUME IInv, NEW c \in Calls, phase[c] \in {"idle", "racing", "verifying"},
         NEW code \in Codes, NEW why \in Reasons \ {"valid"}, Respond(c, code, why),
         UNCHANGED <<mined, rows>>
  PROVE  NothingHappens
  <1>1. /\ \A d \in Calls : Accepted(d) => Accepted(d)'
        /\ \A d \in Calls : Accepted(d)' => Accepted(d) \/ (d = c /\ why = "valid")
    BY RespondEffect DEF IInv
  <1>2. QED BY <1>1 DEF NothingHappens, SameAccepted

(* Waiting, passing on and cutting off do not accept or un-accept a call.   *)
LEMMA PhaseShape ==
  ASSUME TypeOK, UNCHANGED <<mined, rows, answer>>, phase' \in [Calls -> Phases],
         \A c \in Calls : phase'[c] = "granted" <=> phase[c] = "granted"
  PROVE  NothingHappens
  BY DEF NothingHappens, SameAccepted, Accepted

LEMMA ArriveShape ==
  ASSUME IInv, NEW c \in Calls, Arrive(c)
  PROVE  NothingHappens
  <1>1. /\ 400 \in Codes /\ 402 \in Codes /\ 500 \in Codes /\ 503 \in Codes /\ 200 \in Codes
        /\ "missing hash" \in Reasons \ {"valid"} /\ "error" \in Reasons \ {"valid"}
        /\ "bad body" \in Reasons \ {"valid"} /\ "settled" \in Reasons \ {"valid"}
        /\ "bad recipient" \in Reasons \ {"valid"}
    BY DEF Codes, Reasons
  <1>2. CASE PassThrough(c)
    BY <1>2, PhaseShape DEF PassThrough, IInv, TypeOK, Phases
  <1>3. CASE RefuseHeader(c)
    BY <1>1, <1>3, RespondShape DEF RefuseHeader
  <1>4. CASE FacilitatorRefuse(c)
    BY <1>1, <1>4, RespondShape DEF FacilitatorRefuse
  <1>5. CASE FacilitatorSettle(c)
    BY <1>1, <1>5, RespondShape DEF FacilitatorSettle
  <1>6. CASE StartRace(c) \/ FacilitatorVerify(c)
    <2>1. PICK r \in Request, waiting \in {"racing", "verifying"} :
            phase[c] = "idle" /\ BeginVerification(c, r, waiting)
      BY <1>6 DEF StartRace, FacilitatorVerify
    <2>2. CASE r.demand.payTo \in IllFormed
      BY <1>1, <2>1, <2>2, RespondShape DEF BeginVerification
    <2>3. CASE r.demand.payTo \notin IllFormed
      BY <2>1, <2>3, PhaseShape DEF BeginVerification, IInv, TypeOK, Phases
    <2>4. QED BY <2>2, <2>3
  <1>7. QED BY <1>2, <1>3, <1>4, <1>5, <1>6 DEF Arrive

LEMMA InsertShape ==
  ASSUME IInv, NEW c \in Calls, verif[c] \in {"insert", "orphan"},
         rows' = InsertOnConflictDoNothing(Key(c), c).rows,
         UNCHANGED <<mined, request, phase, answer>>
  PROVE  NothingHappens \/ SomeoneTakesARow
  <1>1. SameAccepted
    BY DEF SameAccepted, Accepted
  <1>2. Key(c) \in Hashes /\ Key(c) \in mined
    <2>1. Key(c) \in Hashes
      BY KeyType DEF IInv
    <2>2. Transaction(c) \in mined
      BY DEF IInv, InsertingIsPaid, Paid
    <2>3. QED BY <2>1, <2>2 DEF Key, Transaction
  <1>3. CASE rows[Key(c)] = NoOne
    BY <1>1, <1>2, <1>3
    DEF IInv, OwnsNothingYet, InsertOnConflictDoNothing, SomeoneTakesARow
  <1>4. CASE rows[Key(c)] # NoOne
    BY <1>1, <1>4 DEF InsertOnConflictDoNothing, NothingHappens
  <1>5. QED BY <1>3, <1>4

LEMMA VerifyShape ==
  ASSUME IInv, NEW c \in Calls, Verify(c)
  PROVE  NothingHappens \/ SomeoneIsAccepted \/ SomeoneTakesARow
  <1>1. /\ {"used", "error", "not found", "malformed", "reverted", "unpaid", "race", "valid"}
             \subseteq Reasons
        /\ Examine(Key(c), request[c].demand) \in {"reverted", "paid", "unpaid"}
    BY DEF Reasons, Examine
  <1>2. ASSUME UNCHANGED <<phase, answer, mined, rows>>
        PROVE  NothingHappens
    BY <1>2 DEF NothingHappens, SameAccepted, Accepted
  <1>3. CASE CheckUsed(c)
    BY <1>1, <1>2, <1>3, ResumeShape DEF CheckUsed, Settle, Proceed
  <1>4. CASE CheckFails(c)
    BY <1>1, <1>4, ResumeShape DEF CheckFails, Settle
  <1>5. CASE ReceiptArrives(c)
    <2>1. CASE Examine(Key(c), request[c].demand) = "paid"
      BY <1>2, <1>5, <2>1 DEF ReceiptArrives, Proceed
    <2>2. CASE Examine(Key(c), request[c].demand) # "paid"
      BY <1>1, <1>5, <2>2, ResumeShape DEF ReceiptArrives, Settle
    <2>3. QED BY <2>1, <2>2
  <1>6. CASE FetchFails(c)
    BY <1>1, <1>6, ResumeShape DEF FetchFails, Settle
  <1>7. CASE InsertExecutes(c)
    BY <1>7, InsertShape DEF InsertExecutes, Proceed
  <1>8. CASE InsertReplies(c)
    BY <1>1, <1>8, ResumeShape DEF InsertReplies, Settle
  <1>9. CASE InsertFails(c)
    BY <1>1, <1>9, ResumeShape DEF InsertFails, Settle
  <1>10. QED
    BY <1>3, <1>4, <1>5, <1>6, <1>7, <1>8, <1>9 DEF Verify

(* Every step is one of four kinds, or leaves the promise's state alone.    *)
LEMMA StepShape ==
  ASSUME IInv, [Next]_vars
  PROVE  \/ NothingHappens
         \/ SomeoneIsAccepted
         \/ SomeoneTakesARow
         \/ /\ UNCHANGED rows /\ SameAccepted
            /\ \E t \in Hashes : mined' = mined \cup {t}
  <1>1. ASSUME NEW c \in Calls, RaceTimeout(c) \/ RequestTimeout(c)
        PROVE  NothingHappens
    <2>1. 503 \in Codes /\ 408 \in Codes /\ "timeout" \in Reasons \ {"valid"}
      BY DEF Codes, Reasons
    <2>2. QED BY <1>1, <2>1, RespondShape DEF RaceTimeout, RequestTimeout
  <1>2. ASSUME NEW c \in Calls, OrphanEnds(c)
        PROVE  NothingHappens \/ SomeoneTakesARow
    <2>1. verif[c] = "orphan" /\ UNCHANGED <<mined, request, phase, answer>>
      BY <1>2 DEF OrphanEnds, Proceed
    <2>2. CASE rows' = InsertOnConflictDoNothing(Key(c), c).rows
      BY <2>1, <2>2, InsertShape
    <2>3. CASE UNCHANGED rows
      BY <2>1, <2>3 DEF NothingHappens, SameAccepted, Accepted
    <2>4. QED BY <1>2, <2>2, <2>3 DEF OrphanEnds
  <1>3. CASE Restart
    <2>1. /\ phase' \in [Calls -> Phases]
          /\ \A c \in Calls : phase'[c] = "granted" <=> phase[c] = "granted"
      BY <1>3 DEF Restart, IInv, TypeOK, Phases
    <2>2. QED BY <1>3, <2>1, PhaseShape DEF Restart, CreateTables, IInv
  <1>4. ASSUME NEW t \in Hashes, Mine(t)
        PROVE  UNCHANGED rows /\ SameAccepted /\ mined' = mined \cup {t}
    BY <1>4 DEF Mine, SameAccepted, Accepted
  <1>5. CASE UNCHANGED vars
    BY <1>5 DEF vars, NothingHappens, SameAccepted, Accepted
  <1>6. QED
    BY <1>1, <1>2, <1>3, <1>4, <1>5, ArriveShape, VerifyShape DEF Next

(* used_tx_hashes only grows: no statement of ledger.ts, and no restart,    *)
(* removes a row or gives it to another call.                               *)
THEOREM RowsStay == Spec => RowsArePermanent
  <1>1. ASSUME IInv, [Next]_vars
        PROVE  [\A s \in Spellings : rows[s] # NoOne => rows'[s] = rows[s]]_vars
    <2>1. TypeOK
      BY <1>1 DEF IInv
    <2>2. ASSUME SomeoneTakesARow, NEW s \in Spellings, rows[s] # NoOne
          PROVE  rows'[s] = rows[s]
      BY <2>1, <2>2 DEF SomeoneTakesARow, TypeOK
    <2>3. QED
      BY <1>1, <2>2, StepShape DEF NothingHappens, SomeoneIsAccepted
  <1>2. QED BY <1>1, Invariance, PTL DEF Spec, RowsArePermanent

(* The payment gateway implements PaymentOnce: a row that is written is a   *)
(* claim, a call that is accepted is an acceptance on a claimed             *)
(* transaction, a mined transaction is funded, all else stutters.           *)
THEOREM ImplementsPromise == Spec => PromiseKept
  <1>1. Init => Promise!Init
    BY CallsAssumption, LowerAssumption
    DEF Init, Promise!Init, Accepted, NoAnswer, Hashes
  <1>2. ASSUME IInv, [Next]_vars
        PROVE  [Promise!Next]_(Promise!vars)
    <2> DEFINE owner == [t \in Hashes |-> rows[t]]
               accepted == {c \in Calls : Accepted(c)}
    <2>1. Hashes \subseteq Spellings /\ TypeOK
      BY <1>2, LowerAssumption DEF Hashes, IInv
    <2>2. CASE NothingHappens
      <3>1. UNCHANGED <<mined, owner, accepted>>
        BY <2>2 DEF NothingHappens, SameAccepted
      <3>2. QED BY <3>1 DEF Promise!vars
    <2>3. CASE SomeoneIsAccepted
      <3>1. PICK c \in Calls : /\ Key(c) \in Hashes /\ rows[Key(c)] = c
                               /\ \A d \in Calls : Accepted(d)' <=> (Accepted(d) \/ d = c)
        BY <2>3 DEF SomeoneIsAccepted
      <3>2. UNCHANGED <<mined, owner>> /\ accepted' = accepted \cup {c}
        BY <2>3, <3>1 DEF SomeoneIsAccepted
      <3>3. CASE c \in accepted
        <4>1. UNCHANGED <<mined, owner, accepted>>
          BY <3>2, <3>3
        <4>2. QED BY <4>1 DEF Promise!vars
      <3>4. CASE c \notin accepted
        <4>1. owner[Key(c)] = c
          BY <3>1
        <4>2. Promise!Accept(c)
          BY <3>1, <3>2, <3>4, <4>1 DEF Promise!Accept
        <4>3. QED BY <4>2 DEF Promise!Next
      <3>5. QED BY <3>3, <3>4
    <2>4. CASE SomeoneTakesARow
      <3>1. PICK c \in Calls, t \in Hashes : /\ t \in mined
                                             /\ rows[t] = NoOne
                                             /\ \A s \in Spellings : rows[s] # c
                                             /\ rows' = [rows EXCEPT ![t] = c]
        BY <2>4 DEF SomeoneTakesARow
      <3>2. UNCHANGED <<mined, accepted>>
        BY <2>4 DEF SomeoneTakesARow, SameAccepted
      <3>3. owner' = [owner EXCEPT ![t] = c]
        BY <2>1, <3>1 DEF TypeOK
      <3>4. owner[t] = NoOne /\ \A q \in Hashes : owner[q] # c
        BY <2>1, <3>1
      <3>5. Promise!Claim(c, t)
        BY <3>1, <3>2, <3>3, <3>4 DEF Promise!Claim
      <3>6. QED BY <3>1, <3>5 DEF Promise!Next
    <2>5. CASE /\ UNCHANGED rows /\ SameAccepted
               /\ \E t \in Hashes : mined' = mined \cup {t}
      <3>1. PICK t \in Hashes : mined' = mined \cup {t}
        BY <2>5
      <3>2. UNCHANGED <<owner, accepted>>
        BY <2>5 DEF SameAccepted
      <3>3. Promise!Fund(t)
        BY <3>1, <3>2 DEF Promise!Fund
      <3>4. QED BY <3>1, <3>3 DEF Promise!Next
    <2>6. QED BY <1>2, <2>2, <2>3, <2>4, <2>5, StepShape
  <1>3. QED BY <1>1, <1>2, Invariance, PTL DEF Spec, PromiseKept, Promise!Spec

-----------------------------------------------------------------------------
(***************************************************************************)
(* What a payer of MegaethPayment can lose, proved for all calls, hashes    *)
(* and restarts: a transaction that is used up without an accepted call     *)
(* was lost to a timer, a restart or a lost reply (ConsumptionExplained),   *)
(* and a transaction is refused as used only if another call holds its row  *)
(* (RefusalHasRival).                                                       *)
(*                                                                         *)
(* Both follow call by call from one fact, Explained: as long as the        *)
(* verification of a call runs, either its request still waits for it or a  *)
(* timer has answered it, and an INSERT that nobody waits for belongs to a  *)
(* call that was cut off or answered 503, 408 or 402 "race".                *)
(***************************************************************************)

Waits(c) == phase[c] \in {"racing", "verifying"}

Lost(c) == phase[c] = "cut" \/ answer[c].why \in {"timeout", "race"}

Explained(c) ==
  /\ verif[c] \in {"check", "fetch", "insert", "inserted", "conflict"}
       => Waits(c) \/ answer[c].why = "timeout"
  /\ verif[c] = "orphan" => Lost(c)
  /\ \A s \in Spellings : rows[s] = c => Accepted(c) \/ verif[c] = "inserted" \/ Lost(c)

Refused(c) ==
  /\ request[c] \in Request
  /\ \E d \in Calls \ {c} : rows[Key(c)] = d /\ Key(d) = Key(c)

LossInv ==
  /\ IInv
  /\ \A c \in Calls : Explained(c)
  /\ \A c \in Calls : answer[c].why = "used" => Refused(c)

-----------------------------------------------------------------------------
(* A step of another call, as one call sees it.                             *)
LEMMA BystanderKeepsExplained ==
  ASSUME NEW d \in Calls, Explained(d),
         phase'[d] = phase[d], answer'[d] = answer[d], verif'[d] = verif[d],
         \A s \in Spellings : rows'[s] = d => rows[s] = d
  PROVE  Explained(d)'
  BY DEF Explained, Waits, Lost, Accepted

(* What a step of c that answers, settles or moves on its verification      *)
(* leaves alone.                                                            *)
Touches(c) ==
  /\ \A d \in Calls \ {c} : /\ phase'[d] = phase[d] /\ answer'[d] = answer[d]
                            /\ verif'[d] = verif[d]
                            /\ \A s \in Spellings : rows'[s] = d => rows[s] = d

LEMMA OthersStayExplained ==
  ASSUME \A d \in Calls : Explained(d), NEW c \in Calls, Touches(c), Explained(c)'
  PROVE  \A d \in Calls : Explained(d)'
  BY BystanderKeepsExplained DEF Touches

LEMMA RespondTouches ==
  ASSUME TypeOK, NEW c \in Calls, NEW code \in Codes, NEW why \in Reasons, Respond(c, code, why)
  PROVE  /\ phase'[c] = "answered" /\ answer'[c].why = why
         /\ \A d \in Calls \ {c} : phase'[d] = phase[d] /\ answer'[d] = answer[d]
  BY DEF Respond, TypeOK

(* Where a call is once the result of its verification has come in.         *)
LEMMA ResumeTouches ==
  ASSUME TypeOK, NEW c \in Calls, NEW result \in Reasons, Resume(c, result)
  PROVE  /\ \A d \in Calls \ {c} : phase'[d] = phase[d] /\ answer'[d] = answer[d]
         /\ ~Waits(c) => phase'[c] = phase[c] /\ answer'[c] = answer[c]
         /\ Waits(c) /\ result = "valid" => Accepted(c)'
         /\ Waits(c) /\ result = "race" => answer'[c].why = "race"
         /\ answer'[c].why = "used" => answer[c].why = "used" \/ result = "used"
  <1>1. phase \in [Calls -> Phases] /\ answer \in [Calls -> Answers]
    BY DEF TypeOK
  <1>2. CASE ~Waits(c)
    BY <1>2 DEF Resume, Waits
  <1>3. CASE phase[c] = "racing" /\ result = "valid"
    BY <1>1, <1>3 DEF Resume, MiddlewareResumes, Waits, Accepted
  <1>4. CASE phase[c] = "racing" /\ result # "valid"
    <2>1. \/ result = "error" /\ Respond(c, 503, "timeout")
          \/ result \notin {"valid", "error"} /\ Respond(c, 402, result)
      BY <1>4 DEF Resume, MiddlewareResumes
    <2>2. 402 \in Codes /\ 503 \in Codes /\ "timeout" \in Reasons
      BY ZenonT(60) DEF Codes, Reasons
    <2>3. QED BY <1>4, <2>1, <2>2, RespondTouches, SMTT(30) DEF Waits
  <1>5. CASE phase[c] = "verifying"
    <2>1. \/ result = "valid" /\ Respond(c, 200, "valid")
          \/ result = "error" /\ Respond(c, 500, "error")
          \/ result \notin {"valid", "error"} /\ Respond(c, 402, result)
      BY <1>5 DEF Resume, FacilitatorResumes
    <2>2. {200, 402, 500} \subseteq Codes /\ {"valid", "error"} \subseteq Reasons
      BY DEF Codes, Reasons
    <2>3. QED BY <1>5, <2>1, <2>2, RespondTouches DEF Waits, Accepted
  <1>6. QED BY <1>2, <1>3, <1>4, <1>5 DEF Waits

-----------------------------------------------------------------------------
(* Explained, step by step.                                                 *)

LEMMA SettleKeepsExplained ==
  ASSUME IInv, \A d \in Calls : Explained(d), NEW c \in Calls,
         NEW result \in Reasons, Settle(c, result), UNCHANGED rows,
         \/ verif[c] \in {"check", "fetch", "insert"}
         \/ verif[c] \in {"inserted", "conflict"} /\ result \in {"valid", "race"}
  PROVE  \A d \in Calls : Explained(d)'
  <1>1. verif' = [verif EXCEPT ![c] = "done"] /\ Resume(c, result)
    BY DEF Settle
  <1>2. /\ verif'[c] = "done"
        /\ \A d \in Calls \ {c} : verif'[d] = verif[d]
    BY <1>1 DEF IInv, TypeOK
  <1>3. Touches(c)
    BY <1>1, <1>2, ResumeTouches DEF Touches, IInv
  <1>4. Explained(c)'
    <2> SUFFICES ASSUME NEW s \in Spellings, rows[s] = c
                 PROVE  Accepted(c)' \/ Lost(c)'
      BY <1>2 DEF Explained
    <2>1. result \in {"valid", "race"}
      BY DEF IInv, OwnsNothingYet
    <2>2. CASE Waits(c)
      BY <1>1, <2>1, <2>2, ResumeTouches DEF Lost, IInv
    <2>3. CASE ~Waits(c)
      <3>1. answer[c].why = "timeout"
        BY <2>3 DEF Explained
      <3>2. answer'[c] = answer[c]
        BY <1>1, <2>3, ResumeTouches DEF IInv
      <3>3. QED BY <3>1, <3>2 DEF Lost
    <2>4. QED BY <2>2, <2>3
  <1>5. QED BY <1>3, <1>4, OthersStayExplained

LEMMA ProceedKeepsExplained ==
  ASSUME IInv, \A d \in Calls : Explained(d), NEW c \in Calls,
         verif[c] \in {"check", "fetch"}, NEW stage \in {"fetch", "insert"},
         Proceed(c, stage), UNCHANGED rows
  PROVE  \A d \in Calls : Explained(d)'
  <1>1. /\ verif'[c] = stage /\ phase' = phase /\ answer' = answer
        /\ \A d \in Calls \ {c} : verif'[d] = verif[d]
    BY DEF Proceed, IInv, TypeOK
  <1>2. Touches(c)
    BY <1>1 DEF Touches
  <1>3. Explained(c)'
    BY <1>1 DEF Explained, Waits, IInv, OwnsNothingYet
  <1>4. QED BY <1>2, <1>3, OthersStayExplained

LEMMA InsertKeepsExplained ==
  ASSUME IInv, \A d \in Calls : Explained(d), NEW c \in Calls,
         \/ /\ verif[c] = "insert"
            /\ Proceed(c, IF rows[Key(c)] = NoOne THEN "inserted" ELSE "conflict")
         \/ verif[c] = "orphan" /\ Proceed(c, "done"),
         rows' = InsertOnConflictDoNothing(Key(c), c).rows
  PROVE  \A d \in Calls : Explained(d)'
  <1>1. /\ phase' = phase /\ answer' = answer
        /\ \A d \in Calls \ {c} : verif'[d] = verif[d]
        /\ \/ /\ verif[c] = "insert"
              /\ verif'[c] = IF rows[Key(c)] = NoOne THEN "inserted" ELSE "conflict"
           \/ verif[c] = "orphan" /\ verif'[c] = "done"
    BY DEF Proceed, IInv, TypeOK
  <1>2. Key(c) \in Spellings /\ \A s \in Spellings : rows[s] # c
    BY KeyType DEF IInv, OwnsNothingYet
  <1>3. \A s \in Spellings : rows'[s] = rows[s] \/ (rows[Key(c)] = NoOne /\ rows'[s] = c)
    BY <1>2 DEF InsertOnConflictDoNothing, IInv, TypeOK
  <1>4. Touches(c)
    BY <1>1, <1>3 DEF Touches
  <1>5. Explained(c)'
    BY <1>1, <1>2, <1>3 DEF Explained, Waits, Lost
  <1>6. QED BY <1>4, <1>5, OthersStayExplained

(* The INSERT is given up: its call is answered "race", or was answered.    *)
LEMMA AbandonKeepsExplained ==
  ASSUME IInv, \A d \in Calls : Explained(d), NEW c \in Calls, verif[c] = "insert",
         verif' = [verif EXCEPT ![c] = "orphan"], Resume(c, "race"), UNCHANGED rows
  PROVE  \A d \in Calls : Explained(d)'
  <1>1. verif'[c] = "orphan" /\ \A d \in Calls \ {c} : verif'[d] = verif[d]
    BY DEF IInv, TypeOK
  <1>2. "race" \in Reasons /\ TypeOK
    BY DEF Reasons, IInv
  <1>3. Touches(c)
    BY <1>1, <1>2, ResumeTouches DEF Touches
  <1>4. Lost(c)'
    BY <1>2, ResumeTouches DEF Explained, Lost
  <1>5. Explained(c)'
    BY <1>1, <1>4 DEF Explained
  <1>6. QED BY <1>3, <1>5, OthersStayExplained

LEMMA VerifyKeepsExplained ==
  ASSUME IInv, \A d \in Calls : Explained(d), NEW c \in Calls, Verify(c)
  PROVE  \A d \in Calls : Explained(d)'
  <1>1. /\ {"used", "error", "not found", "malformed", "reverted", "unpaid", "race", "valid"}
             \subseteq Reasons
        /\ Examine(Key(c), request[c].demand) \in {"reverted", "paid", "unpaid"}
    BY DEF Reasons, Examine
  <1>2. CASE CheckUsed(c)
    BY <1>1, <1>2, SettleKeepsExplained, ProceedKeepsExplained DEF CheckUsed
  <1>3. CASE CheckFails(c)
    BY <1>1, <1>3, SettleKeepsExplained DEF CheckFails
  <1>4. CASE ReceiptArrives(c)
    BY <1>1, <1>4, SettleKeepsExplained, ProceedKeepsExplained DEF ReceiptArrives
  <1>5. CASE FetchFails(c)
    BY <1>1, <1>5, SettleKeepsExplained DEF FetchFails
  <1>6. CASE InsertExecutes(c)
    <2>1. /\ verif[c] = "insert"
          /\ rows' = InsertOnConflictDoNothing(Key(c), c).rows
          /\ Proceed(c, IF rows[Key(c)] = NoOne THEN "inserted" ELSE "conflict")
      BY <1>6 DEF InsertExecutes, InsertOnConflictDoNothing
    <2>2. QED BY <2>1, InsertKeepsExplained
  <1>7. CASE InsertReplies(c)
    BY <1>1, <1>7, SettleKeepsExplained DEF InsertReplies
  <1>8. CASE InsertFails(c)
    BY <1>1, <1>8, SettleKeepsExplained, AbandonKeepsExplained DEF InsertFails
  <1>9. QED BY <1>2, <1>3, <1>4, <1>5, <1>6, <1>7, <1>8 DEF Verify

(* A call that arrives owns no row and nothing of it is under way.          *)
LEMMA ArriveKeepsExplained ==
  ASSUME IInv, \A d \in Calls : Explained(d), NEW c \in Calls, Arrive(c)
  PROVE  \A d \in Calls : Explained(d)'
  <1>1. TypeOK /\ phase[c] = "idle" /\ verif[c] = "none" /\ UNCHANGED rows
    BY DEF IInv, IdleIsFresh, Arrive, PassThrough, RefuseHeader, StartRace, FacilitatorVerify,
       FacilitatorRefuse, FacilitatorSettle, BeginVerification
  <1>2. \A s \in Spellings : rows'[s] # c
    BY <1>1 DEF IInv, OwnsNothingYet
  <1>3. CASE PassThrough(c)
    <2>1. Touches(c) /\ verif'[c] = "none"
      BY <1>1, <1>3 DEF PassThrough, Touches, TypeOK
    <2>2. QED BY <1>2, <2>1, OthersStayExplained DEF Explained
  <1>4. CASE RefuseHeader(c) \/ FacilitatorRefuse(c) \/ FacilitatorSettle(c)
    <2>1. verif' = verif /\ \E code \in Codes, why \in Reasons : Respond(c, code, why)
      <3>1. /\ 200 \in Codes /\ 400 \in Codes /\ 402 \in Codes /\ 500 \in Codes /\ 503 \in Codes
            /\ "missing hash" \in Reasons /\ "error" \in Reasons
            /\ "bad body" \in Reasons /\ "settled" \in Reasons
        BY DEF Codes, Reasons
      <3>2. QED BY <1>4, <3>1 DEF RefuseHeader, FacilitatorRefuse, FacilitatorSettle
    <2>2. Touches(c) /\ verif'[c] = "none"
      BY <1>1, <2>1, RespondTouches DEF Touches
    <2>3. QED BY <1>2, <2>2, OthersStayExplained DEF Explained
  <1>5. CASE StartRace(c) \/ FacilitatorVerify(c)
    <2>1. PICK r \in Request, waiting \in {"racing", "verifying"} : BeginVerification(c, r, waiting)
      BY <1>5 DEF StartRace, FacilitatorVerify
    <2>2. CASE r.demand.payTo \in IllFormed
      <3>1. Respond(c, 402, "bad recipient") /\ verif' = [verif EXCEPT ![c] = "done"]
        BY <2>1, <2>2 DEF BeginVerification
      <3>2. 402 \in Codes /\ "bad recipient" \in Reasons
        BY DEF Codes, Reasons
      <3>3. Touches(c) /\ verif'[c] = "done"
        BY <1>1, <3>1, <3>2, RespondTouches DEF Touches, TypeOK
      <3>4. QED BY <1>2, <3>3, OthersStayExplained DEF Explained
    <2>3. CASE r.demand.payTo \notin IllFormed
      <3>1. Touches(c) /\ phase'[c] = waiting /\ verif'[c] = "check"
        BY <1>1, <2>1, <2>3 DEF BeginVerification, Touches, TypeOK
      <3>2. Explained(c)'
        BY <1>2, <3>1 DEF Explained, Waits
      <3>3. QED BY <3>1, <3>2, OthersStayExplained
    <2>4. QED BY <2>2, <2>3
  <1>6. QED BY <1>3, <1>4, <1>5 DEF Arrive

LEMMA TimersKeepExplained ==
  ASSUME IInv, \A d \in Calls : Explained(d), NEW c \in Calls, RaceTimeout(c) \/ RequestTimeout(c)
  PROVE  \A d \in Calls : Explained(d)'
  <1>1. verif' = verif /\ rows' = rows /\ \E code \in Codes : Respond(c, code, "timeout")
    BY DEF Codes, RaceTimeout, RequestTimeout
  <1>2. Touches(c) /\ answer'[c].why = "timeout"
    <2>1. "timeout" \in Reasons /\ TypeOK
      BY DEF Reasons, IInv
    <2>2. QED BY <1>1, <2>1, RespondTouches DEF Touches
  <1>3. verif[c] # "orphan" => Explained(c)'
    BY <1>1, <1>2 DEF Explained, Lost
  <1>4. Explained(c)'
    BY <1>1, <1>2 DEF Explained, Lost
  <1>5. QED BY <1>2, <1>4, OthersStayExplained

LEMMA RestartKeepsExplained ==
  ASSUME IInv, \A d \in Calls : Explained(d), Restart
  PROVE  \A d \in Calls : Explained(d)'
  <1> SUFFICES ASSUME NEW d \in Calls PROVE Explained(d)'
    OBVIOUS
  <1>1. /\ rows' = rows /\ answer' = answer
        /\ phase'[d] = (IF Waits(d) THEN "cut" ELSE phase[d])
        /\ verif'[d] = (IF verif[d] = "insert" THEN "orphan"
                        ELSE IF verif[d] \in {"none", "orphan"} THEN verif[d] ELSE "done")
    BY DEF Restart, CreateTables, Waits
  <1>2. Explained(d)
    OBVIOUS
  <1>3. Accepted(d) => Accepted(d)'
    BY <1>1 DEF Accepted, Waits
  <1>4. Lost(d) \/ Waits(d) => Lost(d)'
    BY <1>1 DEF Lost, Waits
  <1>5. verif[d] \in {"insert", "inserted"} => Lost(d)'
    BY <1>1, <1>2, <1>4 DEF Explained, Lost
  <1>6. QED
    BY <1>1, <1>2, <1>3, <1>4, <1>5 DEF Explained

LEMMA StepKeepsExplained ==
  ASSUME IInv, \A d \in Calls : Explained(d), [Next]_vars
  PROVE  \A d \in Calls : Explained(d)'
  <1>1. ASSUME NEW c \in Calls, OrphanEnds(c)
        PROVE  \A d \in Calls : Explained(d)'
    <2>1. CASE rows' = InsertOnConflictDoNothing(Key(c), c).rows
      BY <1>1, <2>1, InsertKeepsExplained DEF OrphanEnds
    <2>2. CASE UNCHANGED rows
      <3>1. /\ phase' = phase /\ answer' = answer /\ verif'[c] = "done"
            /\ \A d \in Calls \ {c} : verif'[d] = verif[d]
        BY <1>1 DEF OrphanEnds, Proceed, IInv, TypeOK
      <3>2. \A s \in Spellings : rows'[s] # c
        BY <1>1, <2>2 DEF OrphanEnds, IInv, OwnsNothingYet
      <3>3. Touches(c) /\ Explained(c)'
        BY <2>2, <3>1, <3>2 DEF Touches, Explained
      <3>4. QED BY <3>3, OthersStayExplained
    <2>3. QED BY <1>1, <2>1, <2>2 DEF OrphanEnds
  <1>2. CASE UNCHANGED <<rows, phase, answer, verif>>
    BY <1>2, BystanderKeepsExplained
  <1>3. QED
    BY <1>1, <1>2, ArriveKeepsExplained, VerifyKeepsExplained, TimersKeepExplained,
       RestartKeepsExplained DEF Next, Mine, vars

-----------------------------------------------------------------------------
(* A request does not change once its call has arrived.                     *)
LEMMA RequestsStay ==
  ASSUME IInv, [Next]_vars
  PROVE  \A d \in Calls : phase[d] # "idle" => request'[d] = request[d]
  <1>1. CASE \E c \in Calls : Arrive(c)
    BY <1>1 DEF IInv, TypeOK, Arrive, PassThrough, RefuseHeader, StartRace, FacilitatorVerify,
       FacilitatorRefuse, FacilitatorSettle, BeginVerification
  <1>2. CASE \E c \in Calls : Verify(c)
    BY <1>2 DEF Verify, CheckUsed, CheckFails, ReceiptArrives, FetchFails, InsertExecutes,
       InsertReplies, InsertFails
  <1>3. CASE UNCHANGED request
    BY <1>3
  <1>4. QED
    BY <1>1, <1>2, <1>3 DEF Next, RaceTimeout, RequestTimeout, OrphanEnds, Mine, Restart, vars

(* A refusal "used" is only ever told by the check of used_tx_hashes.       *)
LEMMA OnlyTheCheckRefuses ==
  ASSUME IInv, [Next]_vars, NEW c \in Calls, answer'[c].why = "used", answer[c].why # "used"
  PROVE  verif[c] = "check" /\ rows[Key(c)] # NoOne
  <1> USE DEF IInv
  <1>1. ASSUME NEW d \in Calls, NEW code \in Codes, NEW why \in Reasons \ {"used"},
               Respond(d, code, why)
        PROVE  FALSE
    BY <1>1, RespondTouches
  <1>2. ASSUME NEW d \in Calls, NEW result \in Reasons, Resume(d, result)
        PROVE  d = c /\ result = "used"
    BY <1>2, ResumeTouches
  <1>3. /\ "missing hash" \in Reasons \ {"used"} /\ "error" \in Reasons \ {"used"}
        /\ "bad body" \in Reasons \ {"used"} /\ "settled" \in Reasons \ {"used"}
        /\ "bad recipient" \in Reasons \ {"used"} /\ "timeout" \in Reasons \ {"used"}
        /\ {"error", "not found", "malformed", "reverted", "unpaid", "race", "valid", "used"}
             \subseteq Reasons
        /\ 200 \in Codes /\ 400 \in Codes /\ 402 \in Codes
        /\ 408 \in Codes /\ 500 \in Codes /\ 503 \in Codes
    BY DEF Reasons, Codes
  <1>4. ASSUME NEW d \in Calls, Arrive(d)
        PROVE  UNCHANGED answer
    <2>1. ~(RefuseHeader(d) \/ FacilitatorRefuse(d) \/ FacilitatorSettle(d))
      <3>1. ~Respond(d, 402, "missing hash") /\ ~Respond(d, 503, "error")
        BY <1>1, <1>3
      <3>2. ~Respond(d, 400, "bad body") /\ ~Respond(d, 500, "error") /\ ~Respond(d, 200, "settled")
        BY <1>1, <1>3
      <3>3. QED BY <3>1, <3>2 DEF RefuseHeader, FacilitatorRefuse, FacilitatorSettle
    <2>2. CASE PassThrough(d)
      BY <2>2 DEF PassThrough
    <2>3. CASE StartRace(d) \/ FacilitatorVerify(d)
      <3>1. ~Respond(d, 402, "bad recipient")
        BY <1>1, <1>3
      <3>2. QED BY <2>3, <3>1 DEF StartRace, FacilitatorVerify, BeginVerification
    <2>4. QED BY <1>4, <2>1, <2>2, <2>3 DEF Arrive
  <1>5. CASE \E d \in Calls : CheckUsed(d)
    BY <1>2, <1>3, <1>5 DEF CheckUsed, Settle, Proceed
  <1>6. CASE \E d \in Calls : CheckFails(d) \/ FetchFails(d) \/ InsertFails(d) \/ InsertReplies(d)
    BY <1>2, <1>3, <1>6 DEF CheckFails, FetchFails, InsertFails, InsertReplies, Settle
  <1>7. CASE \E d \in Calls : ReceiptArrives(d)
    <2>1. \A d \in Calls : Examine(Key(d), request[d].demand) \in {"reverted", "paid", "unpaid"}
      BY DEF Examine
    <2>2. PICK d \in Calls : ReceiptArrives(d)
      BY <1>7
    <2>3. CASE Examine(Key(d), request[d].demand) = "paid"
      BY <2>2, <2>3 DEF ReceiptArrives, Proceed
    <2>4. CASE Examine(Key(d), request[d].demand) \in {"reverted", "unpaid"}
      BY <1>2, <1>3, <2>2, <2>4 DEF ReceiptArrives, Settle
    <2>5. QED BY <2>1, <2>3, <2>4
  <1>8. ASSUME NEW d \in Calls
        PROVE  ~RaceTimeout(d) /\ ~RequestTimeout(d)
    <2>1. ~Respond(d, 503, "timeout") /\ ~Respond(d, 408, "timeout")
      BY <1>1, <1>3
    <2>2. QED BY <2>1 DEF RaceTimeout, RequestTimeout
  <1>9. CASE UNCHANGED answer
    BY <1>9
  <1>10. QED
    BY <1>4, <1>5, <1>6, <1>7, <1>8, <1>9
    DEF Next, Verify, InsertExecutes, OrphanEnds, Proceed, Mine, Restart, vars

(* Rows stay, as RowsArePermanent says, in the form a step uses it.         *)
LEMMA RowStays ==
  ASSUME IInv, [Next]_vars, NEW s \in Spellings, rows[s] # NoOne
  PROVE  rows'[s] = rows[s]
  <1>1. ASSUME SomeoneTakesARow
        PROVE  rows'[s] = rows[s]
    BY <1>1 DEF SomeoneTakesARow, IInv, TypeOK
  <1>2. QED BY <1>1, StepShape DEF NothingHappens, SomeoneIsAccepted

LEMMA StepKeepsRefusals ==
  ASSUME IInv, \A c \in Calls : answer[c].why = "used" => Refused(c), [Next]_vars
  PROVE  \A c \in Calls : answer'[c].why = "used" => Refused(c)'
  <1> USE DEF IInv
  <1> SUFFICES ASSUME NEW c \in Calls, answer'[c].why = "used"
               PROVE  Refused(c)'
    OBVIOUS
  <1>1. Refused(c) /\ phase[c] # "idle"
    <2>1. CASE answer[c].why = "used"
      <3>1. answer[c] # NoAnswer
        BY <2>1 DEF NoAnswer
      <3>2. QED BY <2>1, <3>1 DEF UnansweredIsBlank
    <2>2. CASE answer[c].why # "used"
      <3>1. verif[c] = "check" /\ rows[Key(c)] # NoOne
        BY <2>2, OnlyTheCheckRefuses
      <3>2. Key(c) \in Spellings /\ \A s \in Spellings : rows[s] # c
        BY <3>1, KeyType DEF OwnsNothingYet
      <3>3. rows[Key(c)] \in Calls \ {c} /\ request[c] \in Request
        BY <3>1, <3>2 DEF TypeOK
      <3>4. Key(rows[Key(c)]) = Key(c)
        BY <3>2, <3>3 DEF RowsArePaid
      <3>5. QED BY <3>1, <3>3, <3>4 DEF Refused, IdleIsFresh
    <2>3. QED BY <2>1, <2>2
  <1>2. PICK d \in Calls \ {c} : rows[Key(c)] = d /\ Key(d) = Key(c)
    BY <1>1 DEF Refused
  <1>3. request'[c] = request[c] /\ Key(c)' = Key(c)
    BY <1>1, RequestsStay DEF Key
  <1>4. Key(c) \in Spellings
    BY <1>1, LowerAssumption DEF Refused, Request, Key
  <1>5. rows'[Key(c)] = d
    BY <1>2, <1>4, RowStays, CallsAssumption
  <1>6. phase[d] # "idle"
    BY <1>2, <1>4 DEF OwnsNothingYet, IdleIsFresh
  <1>7. Key(d)' = Key(d)
    BY <1>6, RequestsStay DEF Key
  <1>8. QED BY <1>1, <1>2, <1>3, <1>5, <1>7 DEF Refused

-----------------------------------------------------------------------------
THEOREM LossInvariance == Spec => []LossInv
  <1>1. Init => LossInv
    <2>1. Init => IInv
      BY InitIInv
    <2>2. ASSUME Init, NEW c \in Calls
          PROVE  Explained(c) /\ answer[c].why # "used"
      <3>1. verif[c] = "none" /\ answer[c] = NoAnswer /\ \A s \in Spellings : rows[s] # c
        BY <2>2, CallsAssumption DEF Init
      <3>2. QED BY <3>1 DEF Explained, NoAnswer
    <2>3. QED BY <2>1, <2>2 DEF LossInv
  <1>2. LossInv /\ [Next]_vars => LossInv'
    BY StepKeepsIInv, StepKeepsExplained, StepKeepsRefusals DEF LossInv
  <1>3. QED BY <1>1, <1>2, PTL DEF Spec

(* A payer whose transaction is used up was served or will be, or lost it   *)
(* to the 20s or 30s timer, a restart or the lost reply of an INSERT: no    *)
(* other refusal of verifyMegaETHPayment costs a transaction.               *)
THEOREM LossesAreExplained == Spec => []ConsumptionExplained
  <1>1. LossInv => ConsumptionExplained
    BY DEF LossInv, Explained, Lost, ConsumptionExplained
  <1>2. QED BY <1>1, LossInvariance, PTL

(* "Transaction already used" (megaeth.ts) is never told to a call because  *)
(* of itself: the row is another call's, and paid for the same hash.        *)
THEOREM RefusalsHaveRivals == Spec => []RefusalHasRival
  <1>1. LossInv => RefusalHasRival
    BY DEF LossInv, Refused, RefusalHasRival
  <1>2. QED BY <1>1, LossInvariance, PTL
=============================================================================
