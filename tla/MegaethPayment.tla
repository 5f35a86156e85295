---------------------------- MODULE MegaethPayment ----------------------------
(***************************************************************************)
(* Direct payment on MegaETH: megaethPaymentMiddleware (middleware/         *)
(* payment.ts), verifyMegaETHPayment (verification/megaeth.ts), the replay  *)
(* table used_tx_hashes (db/ledger.ts) and the facilitator endpoints        *)
(* (facilitator/index.ts), run by one Node process against PostgreSQL and   *)
(* a MegaETH RPC node.                                                      *)
(*                                                                         *)
(* A call is one HTTP request.  Its handler and the verification it started *)
(* are tracked apart (phase and verif), because the middleware stops        *)
(* waiting after 20 seconds and the verification does not stop.  An action  *)
(* is what runs between two awaits.  Every answer of the database and of    *)
(* the RPC node can be an error, and the reply of an INSERT can be lost     *)
(* after the row was committed.  The process can be restarted between any   *)
(* two steps; the table survives.                                           *)
(***************************************************************************)
EXTENDS TransferLogs

CONSTANTS
  Calls,        (* HTTP requests                                            *)
  Spellings,    (* transaction hashes as clients write them                 *)
  Lower,        (* toLowerCase on spellings                                 *)
  Receipt,      (* for each transaction, its receipt: [status, logs]        *)
  Demands,      (* what a call must be paid: [amount, payTo]                *)
  IllFormed,    (* the values of payTo that are not 0x + 40 hex digits      *)
  NoOne,        (* no call                                                  *)
  NoRequest,    (* a call that has not been made yet                        *)
  MaxRestarts   (* bound on the number of restarts                          *)

ASSUME LowerAssumption ==
  /\ Lower \in [Spellings -> Spellings]
  /\ \A s \in Spellings : Lower[Lower[s]] = Lower[s]

ASSUME CallsAssumption ==
  /\ NoOne \notin Calls
  /\ MaxRestarts \in Nat
  /\ NoRequest \notin [tx : Spellings, demand : Demands]

Hashes == {Lower[s] : s \in Spellings}

(* An amount is what BigInt makes of a string: it may be negative where it  *)
(* comes from the body of a facilitator call.                               *)
ASSUME ReceiptAssumption ==
  /\ \A t \in Hashes : Receipt[t].logs \in Seq(Log)
  /\ \A demand \in Demands : demand.amount \in Int

Request == [tx : Spellings, demand : Demands]

VARIABLES
  mined,      (* the transactions that have a receipt                      *)
  rows,       (* used_tx_hashes: the call whose INSERT made each row       *)
  request,    (* what each call asks for                                   *)
  phase,      (* where the HTTP side of each call is                       *)
  answer,     (* the response each call got                                *)
  verif,      (* where the verification a call started is                  *)
  restarts

vars == <<mined, rows, request, phase, answer, verif, restarts>>

(* "racing": the middleware waits, for 20s at most; "verifying": the same   *)
(* for POST /facilitator/megaeth/verify; "granted": next() with req.x402    *)
(* set to method "direct"; "passed": next() without it; "cut": the          *)
(* connection died with the process.                                        *)
Phases == {"idle", "racing", "verifying", "granted", "passed", "answered", "cut"}

(* "check", "fetch" and "insert": awaiting isTxHashUsed, the receipt and    *)
(* recordTxHash; "inserted" and "conflict": PostgreSQL has executed the     *)
(* INSERT and its reply is on the way; "orphan": the INSERT outlived the    *)
(* connection it was sent on.                                               *)
Stages == {"none", "check", "fetch", "insert", "inserted", "conflict", "orphan", "done"}

Reasons ==
  {"none", "valid", "settled", "missing hash", "bad body", "error", "timeout",
   "bad recipient", "used", "not found", "malformed", "reverted", "unpaid", "race"}

Answers == [code : {0, 200, 400, 402, 408, 500, 503}, why : Reasons]

NoAnswer == [code |-> 0, why |-> "none"]

(* The transaction a call names; the RPC node does not mind the case.       *)
Transaction(c) == Lower[request[c].tx]

(* Mutant: the hash is used as the client wrote it.                         *)
Key_AsWritten(c) == request[c].tx

(* The hash as the gateway uses it in SQL and towards the RPC node.         *)
Key(c) == Lower[request[c].tx]

Sufficient(t, demand) ==
  VerifyTransferLogs(Receipt[t].logs, demand.amount, demand.payTo).valid

Init ==
  /\ mined = {}
  /\ rows = [s \in Spellings |-> NoOne]
  /\ request = [c \in Calls |-> NoRequest]
  /\ phase = [c \in Calls |-> "idle"]
  /\ answer = [c \in Calls |-> NoAnswer]
  /\ verif = [c \in Calls |-> "none"]
  /\ restarts = 0

-----------------------------------------------------------------------------
(* Responses. *)

Respond(c, code, why) ==
  /\ phase' = [phase EXCEPT ![c] = "answered"]
  /\ answer' = [answer EXCEPT ![c] = [code |-> code, why |-> why]]

(* Mutant: req.x402 is not set before next().                               *)
MiddlewareResumes_NoContext(c, result) ==
  \/ /\ result = "valid"
     /\ phase' = [phase EXCEPT ![c] = "passed"]
     /\ UNCHANGED answer
  \/ result = "error" /\ Respond(c, 503, "timeout")
  \/ result \notin {"valid", "error"} /\ Respond(c, 402, result)

(* What the middleware does with the result of the race: a thrown error is  *)
(* answered like the timeout, an invalid result 402; a valid one sets       *)
(* req.x402 and hands the request on.                                       *)
MiddlewareResumes(c, result) ==
  \/ /\ result = "valid"
     /\ phase' = [phase EXCEPT ![c] = "granted"]
     /\ UNCHANGED answer
  \/ result = "error" /\ Respond(c, 503, "timeout")
  \/ result \notin {"valid", "error"} /\ Respond(c, 402, result)

FacilitatorResumes(c, result) ==
  \/ result = "valid" /\ Respond(c, 200, "valid")
  \/ result = "error" /\ Respond(c, 500, "error")
  \/ result \notin {"valid", "error"} /\ Respond(c, 402, result)

(* Whoever still waits for the verification of c goes on with its result,   *)
(* in the same turn of the event loop.                                      *)
Resume(c, result) ==
  \/ phase[c] = "racing" /\ MiddlewareResumes(c, result)
  \/ phase[c] = "verifying" /\ FacilitatorResumes(c, result)
  \/ phase[c] \notin {"racing", "verifying"} /\ UNCHANGED <<phase, answer>>

Settle(c, result) ==
  /\ verif' = [verif EXCEPT ![c] = "done"]
  /\ Resume(c, result)

Proceed(c, stage) ==
  /\ verif' = [verif EXCEPT ![c] = stage]
  /\ UNCHANGED <<phase, answer>>

-----------------------------------------------------------------------------
(* A call arrives at the middleware. *)

(* No payment header, one that does not decode, one for another network, or *)
(* a route without a MegaETH price: next() without credentials.             *)
PassThrough(c) ==
  /\ phase[c] = "idle"
  /\ phase' = [phase EXCEPT ![c] = "passed"]
  /\ UNCHANGED <<mined, rows, request, answer, verif, restarts>>

(* A MegaETH header without a usable txHash: none, one that does not start  *)
(* with 0x, or one that is no string, where startsWith throws and next(err) *)
(* reaches the global error handler.                                        *)
RefuseHeader(c) ==
  /\ phase[c] = "idle"
  /\ \/ Respond(c, 402, "missing hash")
     \/ Respond(c, 503, "error")
  /\ UNCHANGED <<mined, rows, request, verif, restarts>>

(* Mutant: the proof is not kept for the rest of the verification.          *)
BeginVerification_LosesRequest(c, r, waiting) ==
  /\ phase' = [phase EXCEPT ![c] = waiting]
  /\ verif' = [verif EXCEPT ![c] = "check"]
  /\ UNCHANGED <<mined, rows, request, answer, restarts>>

(* verifyMegaETHPayment up to its first await.                              *)
BeginVerification(c, r, waiting) ==
  /\ request' = [request EXCEPT ![c] = r]
  /\ IF r.demand.payTo \in IllFormed
     THEN /\ Respond(c, 402, "bad recipient")
          /\ verif' = [verif EXCEPT ![c] = "done"]
     ELSE /\ phase' = [phase EXCEPT ![c] = waiting]
          /\ verif' = [verif EXCEPT ![c] = "check"]
          /\ UNCHANGED answer
  /\ UNCHANGED <<mined, rows, restarts>>

StartRace(c) ==
  /\ phase[c] = "idle"
  /\ \E r \in Request : BeginVerification(c, r, "racing")

-----------------------------------------------------------------------------
(* A call arrives at the facilitator endpoints. *)

FacilitatorVerify(c) ==
  /\ phase[c] = "idle"
  /\ \E r \in Request : BeginVerification(c, r, "verifying")

(* A body without payload, amount or payTo; a payload without txHash; an    *)
(* amount that BigInt refuses or a txHash that is no string.                *)
FacilitatorRefuse(c) ==
  /\ phase[c] = "idle"
  /\ \/ Respond(c, 400, "bad body")
     \/ Respond(c, 402, "missing hash")
     \/ Respond(c, 500, "error")
  /\ UNCHANGED <<mined, rows, request, verif, restarts>>

(* settle() is a no-op that always succeeds.                                *)
FacilitatorSettle(c) ==
  /\ phase[c] = "idle"
  /\ \E r \in Request : request' = [request EXCEPT ![c] = r]
  /\ Respond(c, 200, "settled")
  /\ UNCHANGED <<mined, rows, verif, restarts>>

-----------------------------------------------------------------------------
(* The verification, from await to await. *)

(* isTxHashUsed answers.                                                    *)
CheckUsed(c) ==
  /\ verif[c] = "check"
  /\ IF rows[Key(c)] # NoOne
     THEN Settle(c, "used")
     ELSE Proceed(c, "fetch")
  /\ UNCHANGED <<mined, rows, request, restarts>>

(* Mutant: a failing check refuses the transaction, as recordTxHash does.   *)
CheckFails_Closed(c) ==
  /\ verif[c] = "check"
  /\ Settle(c, "used")
  /\ UNCHANGED <<mined, rows, request, restarts>>

(* isTxHashUsed has no try: a database error rejects the verification.      *)
CheckFails(c) ==
  /\ verif[c] = "check"
  /\ Settle(c, "error")
  /\ UNCHANGED <<mined, rows, request, restarts>>

(* Mutant: the status of the receipt is not looked at.                      *)
Examine_AnyStatus(t, demand) ==
  IF Sufficient(t, demand) THEN "paid" ELSE "unpaid"

(* The status of the receipt first, then its logs.                          *)
Examine(t, demand) ==
  CASE Receipt[t].status # "success" -> "reverted"
    [] Receipt[t].status = "success" /\ Sufficient(t, demand)  -> "paid"
    [] Receipt[t].status = "success" /\ ~Sufficient(t, demand) -> "unpaid"

(* The receipt arrives, is examined, and recordTxHash is called.            *)
ReceiptArrives(c) ==
  /\ verif[c] = "fetch"
  /\ Transaction(c) \in mined
  /\ LET result == Examine(Key(c), request[c].demand)
     IN IF result = "paid" THEN Proceed(c, "insert") ELSE Settle(c, result)
  /\ UNCHANGED <<mined, rows, request, restarts>>

(* There is no receipt yet or the RPC fails (not told apart), or the reply  *)
(* has no array of logs.                                                    *)
FetchFails(c) ==
  /\ verif[c] = "fetch"
  /\ \/ Settle(c, "not found")
     \/ Settle(c, "malformed")
  /\ UNCHANGED <<mined, rows, request, restarts>>

(* Mutant: ON CONFLICT DO UPDATE.                                           *)
InsertOnConflictDoNothing_DoUpdate(t, c) ==
  [rows |-> [rows EXCEPT ![t] = c], inserted |-> TRUE]

(* INSERT ... ON CONFLICT (tx_hash) DO NOTHING, and its rowCount > 0.       *)
InsertOnConflictDoNothing(t, c) ==
  IF rows[t] = NoOne
  THEN [rows |-> [rows EXCEPT ![t] = c], inserted |-> TRUE]
  ELSE [rows |-> rows, inserted |-> FALSE]

(* PostgreSQL executes the INSERT of recordTxHash.                          *)
InsertExecutes(c) ==
  /\ verif[c] = "insert"
  /\ LET done == InsertOnConflictDoNothing(Key(c), c)
     IN /\ rows' = done.rows
        /\ Proceed(c, IF done.inserted THEN "inserted" ELSE "conflict")
  /\ UNCHANGED <<mined, request, restarts>>

(* The reply arrives.                                                       *)
InsertReplies(c) ==
  /\ verif[c] \in {"inserted", "conflict"}
  /\ Settle(c, IF verif[c] = "inserted" THEN "valid" ELSE "race")
  /\ UNCHANGED <<mined, rows, request, restarts>>

(* recordTxHash catches every error and returns false: one that kept the    *)
(* INSERT from running, or the loss of the connection after it ran or with  *)
(* the INSERT still to be run.                                              *)
InsertFails(c) ==
  /\ \/ /\ verif[c] \in {"insert", "inserted", "conflict"}
        /\ Settle(c, "race")
     \/ /\ verif[c] = "insert"
        /\ verif' = [verif EXCEPT ![c] = "orphan"]
        /\ Resume(c, "race")
  /\ UNCHANGED <<mined, rows, request, restarts>>

-----------------------------------------------------------------------------
(* Timers. *)

(* Mutant: the timer answers only once the verification is over.            *)
RaceTimeout_AwaitsVerification(c) ==
  /\ phase[c] = "racing"
  /\ verif[c] = "done"
  /\ Respond(c, 503, "timeout")
  /\ UNCHANGED <<mined, rows, request, verif, restarts>>

(* The 20s timer of the middleware wins Promise.race.                       *)
RaceTimeout(c) ==
  /\ phase[c] = "racing"
  /\ Respond(c, 503, "timeout")
  /\ UNCHANGED <<mined, rows, request, verif, restarts>>

(* The request timeout of 30s.  In the middleware the 20s timer is first.   *)
RequestTimeout(c) ==
  /\ phase[c] = "verifying"
  /\ Respond(c, 408, "timeout")
  /\ UNCHANGED <<mined, rows, request, verif, restarts>>

-----------------------------------------------------------------------------
(* The world around the process. *)

Mine(t) ==
  /\ t \notin mined
  /\ mined' = mined \cup {t}
  /\ UNCHANGED <<rows, request, phase, answer, verif, restarts>>

(* Mutant: the table is created anew at every start.                        *)
CreateTables_Recreate(r) == [s \in Spellings |-> NoOne]

(* initDatabase: CREATE TABLE IF NOT EXISTS keeps the rows.                 *)
CreateTables(r) == r

(* The process dies and a new one starts.  An INSERT that PostgreSQL has    *)
(* received but not executed is on its own now.                             *)
Restart ==
  /\ restarts < MaxRestarts
  /\ restarts' = restarts + 1
  /\ rows' = CreateTables(rows)
  /\ phase' = [c \in Calls |-> IF phase[c] \in {"racing", "verifying"}
                               THEN "cut" ELSE phase[c]]
  /\ verif' = [c \in Calls |-> IF verif[c] = "insert" THEN "orphan"
                               ELSE IF verif[c] \in {"none", "orphan"} THEN verif[c]
                               ELSE "done"]
  /\ UNCHANGED <<mined, request, answer>>

(* The orphaned INSERT is executed or dropped; nobody reads the reply.      *)
OrphanEnds(c) ==
  /\ verif[c] = "orphan"
  /\ \/ rows' = InsertOnConflictDoNothing(Key(c), c).rows
     \/ UNCHANGED rows
  /\ Proceed(c, "done")
  /\ UNCHANGED <<mined, request, restarts>>

Verify(c) ==
  \/ CheckUsed(c)
  \/ CheckFails(c)
  \/ ReceiptArrives(c)
  \/ FetchFails(c)
  \/ InsertExecutes(c)
  \/ InsertReplies(c)
  \/ InsertFails(c)

Arrive(c) ==
  \/ PassThrough(c)
  \/ RefuseHeader(c)
  \/ StartRace(c)
  \/ FacilitatorVerify(c)
  \/ FacilitatorRefuse(c)
  \/ FacilitatorSettle(c)

Next ==
  \/ \E c \in Calls : \/ Arrive(c)
                      \/ Verify(c)
                      \/ RaceTimeout(c)
                      \/ RequestTimeout(c)
                      \/ OrphanEnds(c)
  \/ \E t \in Hashes : Mine(t)
  \/ Restart

Spec == Init /\ [][Next]_vars

(* Only the timers are fair: node's event loop runs an expired timer, and   *)
(* neither PostgreSQL nor the RPC node has to answer at all.                *)
TimerFairness ==
  \A c \in Calls : WF_vars(RaceTimeout(c)) /\ WF_vars(RequestTimeout(c))

FairSpec == Spec /\ TimerFairness

-----------------------------------------------------------------------------
TypeOK ==
  /\ mined \subseteq Hashes
  /\ rows \in [Spellings -> Calls \cup {NoOne}]
  /\ request \in [Calls -> Request \cup {NoRequest}]
  /\ phase \in [Calls -> Phases]
  /\ answer \in [Calls -> Answers]
  /\ verif \in [Calls -> Stages]
  /\ restarts \in 0 .. MaxRestarts
  /\ \A c \in Calls : verif[c] # "none" => request[c] \in Request

(* A call the gateway has accepted as paid: handed to the API handlers as a *)
(* direct payment, or answered isValid by the facilitator.                  *)
Accepted(c) == phase[c] = "granted" \/ answer[c].why = "valid"

(* "Each txHash can only be used once" (public/docs/index.html:471): over   *)
(* concurrent calls, retries, case variants of the hash, timeouts and       *)
(* restarts, no two calls are accepted on one transaction.                  *)
TxHashUsedOnce ==
  \A c, d \in Calls :
    Accepted(c) /\ Accepted(d) /\ Transaction(c) = Transaction(d) => c = d

(* An accepted call rests on a mined, successful transaction that sent the  *)
(* demanded recipient some USDm and at least the demanded amount, whatever  *)
(* the way verifyTransferLogs counts it.                                    *)
AcceptedIsPaid ==
  \A c \in Calls :
    Accepted(c) =>
      LET sum == Received(Receipt[Key(c)].logs, request[c].demand.payTo)
      IN /\ Transaction(c) \in mined
         /\ Receipt[Key(c)].status = "success"
         /\ sum > 0 /\ sum >= request[c].demand.amount

(* Before a call is accepted its own row is in used_tx_hashes, so that no   *)
(* restart can forget the payment ("persistent across restarts",            *)
(* megaeth.ts:66).                                                          *)
AcceptedIsRecorded ==
  \A c \in Calls : Accepted(c) => request[c] \in Request /\ rows[Key(c)] = c

(* The complete list of the ways to lose a transaction: a call that has     *)
(* used one up is accepted, will be, or was answered 503 or 408 by a timer, *)
(* was cut off by a restart, or lost the reply of its INSERT.  No 402 for   *)
(* another reason costs the payer anything.                                 *)
ConsumptionExplained ==
  \A c \in Calls, s \in Spellings :
    rows[s] = c => \/ Accepted(c)
                   \/ verif[c] = "inserted"
                   \/ phase[c] = "cut"
                   \/ answer[c].why \in {"timeout", "race"}

(* A call told "Transaction already used for payment" was not refused       *)
(* because of itself: another call holds the row, and on that transaction.  *)
RefusalHasRival ==
  \A c \in Calls :
    answer[c].why = "used" => \E d \in Calls \ {c} : rows[Key(c)] = d /\ Key(d) = Key(c)

(* A row is never removed or taken over, restarts included.                 *)
RowsArePermanent ==
  [][\A s \in Spellings : rows[s] # NoOne => rows'[s] = rows[s]]_vars

(* Every call the middleware or the facilitator waits for gets an answer,   *)
(* is handed on or is cut off, even if no database or RPC reply ever comes. *)
WaitingEnds ==
  \A c \in Calls :
    phase[c] \in {"racing", "verifying"} ~> phase[c] \notin {"racing", "verifying"}

(* The promise of PaymentOnce.                                              *)
Promise == INSTANCE PaymentOnce WITH
  Payments <- Hashes,
  funded   <- mined,
  owner    <- [t \in Hashes |-> rows[t]],
  accepted <- {c \in Calls : Accepted(c)}

PromiseKept == Promise!Spec

(* payment.ts:155-159 answers the 20s timeout, and every database error,    *)
(* with 503 and "retryable: true": the payer who retries with the same      *)
(* transaction is not refused because of the very call that was answered    *)
(* so.                                                                      *)
RetryableCallLeavesTxUnused ==
  \A c, d \in Calls :
    /\ answer[c].code = 503 /\ answer[c].why = "timeout"
    /\ answer[d].why = "used" /\ Transaction(d) = Transaction(c)
    => rows[Key(c)] # c
=============================================================================
