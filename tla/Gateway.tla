------------------------------- MODULE Gateway -------------------------------
(***************************************************************************)
(* One request through the Express application of index.ts: body parser,    *)
(* request timeout, rate limit, dev bypass, direct payment, header          *)
(* extraction, SDK payment, paid guard, API handler, error handler; and     *)
(* the rows it leaves in the request log.                                   *)
(*                                                                         *)
(* What runs in one turn of the event loop is one action: a middleware that *)
(* calls next() at once is an operator of the action that reaches it.  A    *)
(* request here is one for a paid API path, as the guard sees it.  Direct   *)
(* payment is reduced to its promise (PaymentOnce, which MegaethPayment     *)
(* implements): a transaction is claimed by one request, for good.  The     *)
(* x402 SDK is external: it refuses, throws, lets an unpriced route pass,   *)
(* or accepts and then holds the response back until it has settled.        *)
(***************************************************************************)
EXTENDS Naturals, Sequences, FiniteSets

CONSTANTS
  Requests,
  Txs,         (* MegaETH transactions                                     *)
  NoOne,       (* no request                                               *)
  IsDev,       (* config.isDev with a bypass secret configured             *)
  NoInput      (* a request that has not arrived                           *)

ASSUME GatewayAssumption == NoOne \notin Requests

(* A request: its payment header ("none"; "junk", which says nothing about  *)
(* network, amount or payer; "sdk", a Base or Solana payment; "direct", a   *)
(* MegaETH proof), the transaction of a proof, whether the bypass secret is *)
(* right, and whether method and path are an entry of the routes config.    *)
Input ==
  [header : {"none", "junk", "sdk", "direct"}, tx : Txs,
   bypass : BOOLEAN, priced : BOOLEAN]

(* A request whose body the body parser of the application refuses: it does *)
(* not parse, or it is longer than 1 MB (also where the transcription route *)
(* has a limit of 50 MB of its own, whose parser comes later).              *)
BadInput == [body : {"malformed", "large"}]

Methods == {"none", "dev-bypass", "direct", "sdk"}

Context == [bypassed : BOOLEAN, method : Methods, verified : BOOLEAN]

Fresh == [bypassed |-> FALSE, method |-> "none", verified |-> FALSE]

Stages == {"idle", "reading", "limiter", "direct", "sdk", "upstream", "settling", "over"}

Codes == {200, 400, 402, 403, 408, 429, 503}

Row == [service : {"api", "megaeth-payment"}, status : Codes \cup {0, 500, 502}, amount : BOOLEAN]

VARIABLES
  input,     (* what each request carries                                  *)
  at,        (* the await each request is at                               *)
  x402,      (* req.devBypassed, req.x402.method and req.x402Verified      *)
  sent,      (* the status sent, 0 until the headers are sent              *)
  gone,      (* the requests whose connection was closed before            *)
  draft,     (* the status of a response the SDK holds back                *)
  owner,     (* the request that claimed each transaction                  *)
  settled,   (* the requests whose SDK payment was settled                 *)
  served,    (* the requests that reached an API handler                   *)
  called,    (* those of them whose handler called its upstream            *)
  rows       (* what each request gave to logRequest                       *)

vars == <<input, at, x402, sent, gone, draft, owner, settled, served, called, rows>>

Init ==
  /\ input = [r \in Requests |-> NoInput]
  /\ at = [r \in Requests |-> "idle"]
  /\ x402 = [r \in Requests |-> Fresh]
  /\ sent = [r \in Requests |-> 0]
  /\ gone = {}
  /\ draft = [r \in Requests |-> 0]
  /\ owner = [t \in Txs |-> NoOne]
  /\ settled = {}
  /\ served = {}
  /\ called = {}
  /\ rows = [r \in Requests |-> <<>>]

HeadersSent(r) == sent[r] # 0

Move(r, stage) == at' = [at EXCEPT ![r] = stage]

Log(r, entries) == rows' = [rows EXCEPT ![r] = @ \o entries]

-----------------------------------------------------------------------------
(* Responses. *)

(* res.end as the direct payment middleware has wrapped it: log, then end.  *)
PaymentRow(x, code) ==
  IF x.method = "direct"
  THEN <<[service |-> "megaeth-payment", status |-> code, amount |-> TRUE]>>
  ELSE <<>>

ApiRow(x, status) ==
  <<[service |-> "api", status |-> status, amount |-> x.method \in {"direct", "sdk"}]>>

(* A response is ended and its turn goes on to log "entries".  The SDK      *)
(* holds back the response of a request it has accepted: one that succeeded *)
(* waits for the settlement, another is sent as it is.                      *)
Finish(r, x, code, entries) ==
  /\ Log(r, PaymentRow(x, code) \o entries)
  /\ IF x.verified /\ code < 400
     THEN /\ Move(r, "settling")
          /\ draft' = [draft EXCEPT ![r] = code]
          /\ UNCHANGED sent
     ELSE /\ Move(r, "over")
          /\ sent' = [sent EXCEPT ![r] = code]
          /\ UNCHANGED draft

(* Mutant: a late response still reaches the wrapped res.end.               *)
TooLate_EndsAgain(r, entries) ==
  /\ Move(r, "over")
  /\ Log(r, PaymentRow(x402[r], 500) \o entries)
  /\ UNCHANGED <<sent, draft>>

(* Mutant: a late response replaces the one that was sent.                  *)
TooLate_SendsAgain(r, entries) ==
  /\ Move(r, "over")
  /\ sent' = [sent EXCEPT ![r] = 503]
  /\ Log(r, entries)
  /\ UNCHANGED draft

(* Once the headers are sent a response throws, and "entries" are what the  *)
(* finally block still logs.                                                *)
TooLate(r, entries) ==
  /\ Move(r, "over")
  /\ Log(r, entries)
  /\ UNCHANGED <<sent, draft>>

Answer(r, x, code) ==
  IF HeadersSent(r) THEN TooLate(r, <<>>) ELSE Finish(r, x, code, <<>>)

-----------------------------------------------------------------------------
(* The middleware after the payment. *)

(* What a handler may end with before its first await: bad parameters are   *)
(* answered 400, a cached result 200, and an upload that the route's own    *)
(* body parser refuses 503 by the error handler, none of them logged; but   *)
(* two routes check in the try block whose finally block logs, with the     *)
(* status that upstreamStatus starts with, and a provider without an API    *)
(* key, or a pin of malformed JSON, is an error like one of the upstream.   *)
EarlyEnds(x) ==
  {<<200, <<>>>>, <<400, <<>>>>, <<503, <<>>>>,
   <<400, ApiRow(x, 0)>>, <<503, ApiRow(x, 502)>>, <<503, ApiRow(x, 500)>>}

(* A parameter of a type that nobody expects ("messages": [null]) makes a   *)
(* handler throw before its try block: nothing is sent or logged, Express 4 *)
(* does not see the rejected promise, and index.ts:742 keeps it from ending *)
(* the process.  The request is left to its timer.                          *)
Rejects(r) ==
  /\ Move(r, "over")
  /\ UNCHANGED <<sent, draft, rows>>

(* A paid handler up to its first await.                                    *)
Handler(r, x) ==
  /\ x402' = [x402 EXCEPT ![r] = x]
  /\ served' = served \cup {r}
  /\ \/ /\ \E end \in EarlyEnds(x) :
             IF HeadersSent(r) THEN TooLate(r, end[2]) ELSE Finish(r, x, end[1], end[2])
        /\ UNCHANGED called
     \/ Rejects(r) /\ UNCHANGED called
     \/ /\ Move(r, "upstream")
        /\ called' = called \cup {r}
        /\ UNCHANGED <<sent, draft, rows>>

(* Mutant: any payment context will do, as the extraction middleware sets   *)
(* it from an unverified header.                                            *)
PaidGuard_AnyContext(r, x) ==
  IF x.bypassed \/ x.method # "none"
  THEN Handler(r, x)
  ELSE /\ Answer(r, x, 403)
       /\ x402' = [x402 EXCEPT ![r] = x]
       /\ UNCHANGED <<served, called>>

PaidGuard(r, x) ==
  IF x.bypassed \/ x.method = "direct" \/ x.verified
  THEN Handler(r, x)
  ELSE /\ Answer(r, x, 403)
       /\ x402' = [x402 EXCEPT ![r] = x]
       /\ UNCHANGED <<served, called>>

(* buildSdkPaymentContext on the payment header.                            *)
WithContext(r, x) ==
  IF input[r].header \in {"sdk", "direct"}
  THEN [x EXCEPT !.method = "sdk"]
  ELSE x

(* Unless the request is paid already, what its header claims is noted.     *)
ExtractContext(r, x) ==
  IF x.bypassed \/ x.method # "none" THEN x ELSE WithContext(r, x)

(* The wrapper around the SDK middleware.                                   *)
SdkWrapper(r, x) ==
  IF x.bypassed \/ x.method = "direct"
  THEN PaidGuard(r, x)
  ELSE /\ Move(r, "sdk")
       /\ x402' = [x402 EXCEPT ![r] = x]
       /\ UNCHANGED <<sent, draft, served, called, rows>>

(* Only in development.                                                     *)
DevBypass(r, x) ==
  IF IsDev /\ input[r].bypass
  THEN [x EXCEPT !.bypassed = TRUE, !.method = "dev-bypass"]
  ELSE x

-----------------------------------------------------------------------------
(* A request arrives. *)

(* The headers have come; the body parser waits for the body, and no timer  *)
(* of the application runs yet.                                             *)
Arrive(r) ==
  /\ at[r] = "idle"
  /\ \E i \in Input \cup BadInput : input' = [input EXCEPT ![r] = i]
  /\ Move(r, "reading")
  /\ UNCHANGED <<x402, sent, gone, draft, owner, settled, served, called, rows>>

(* The body is there, and the request timer starts.                         *)
BodyRead(r) ==
  /\ at[r] = "reading"
  /\ input[r] \in Input
  /\ Move(r, "limiter")
  /\ UNCHANGED <<input, x402, sent, gone, draft, owner, settled, served, called, rows>>

(* A body that does not parse, or is too long, reaches the error handler.   *)
BadBody(r) ==
  /\ at[r] = "reading"
  /\ input[r] \in BadInput
  /\ Answer(r, Fresh, 503)
  /\ UNCHANGED <<input, x402, gone, owner, settled, served, called>>

(* The connection is closed before the body has come, by the client, or by  *)
(* Node's own requestTimeout of 300 s, which index.ts leaves at its default; *)
(* the error handler answers into the closed connection.                    *)
BodyAborted(r) ==
  /\ at[r] = "reading"
  /\ gone' = gone \cup {r}
  /\ Move(r, "over")
  /\ UNCHANGED <<input, x402, sent, draft, owner, settled, served, called, rows>>

OverLimit(r) ==
  /\ at[r] = "limiter"
  /\ Answer(r, Fresh, 429)
  /\ UNCHANGED <<gone, input, x402, owner, settled, served, called>>

(* From the rate limiter to the next await.  The direct payment middleware  *)
(* looks at the header of bypassed requests too.                            *)
WithinLimit(r) ==
  /\ at[r] = "limiter"
  /\ LET x == DevBypass(r, Fresh)
     IN IF input[r].header = "direct" /\ input[r].priced
        THEN /\ Move(r, "direct")
             /\ x402' = [x402 EXCEPT ![r] = x]
             /\ UNCHANGED <<sent, draft, served, called, rows>>
        ELSE SdkWrapper(r, ExtractContext(r, x))
  /\ UNCHANGED <<gone, input, owner, settled>>

-----------------------------------------------------------------------------
(* Direct payment. *)

Claim(r, t) == owner' = [owner EXCEPT ![t] = r]

(* The verification succeeds: req.x402 is set and the request goes on.      *)
DirectGrants(r) ==
  /\ at[r] = "direct"
  /\ owner[input[r].tx] = NoOne
  /\ Claim(r, input[r].tx)
  /\ PaidGuard(r, [x402[r] EXCEPT !.method = "direct"])
  /\ UNCHANGED <<gone, input, settled>>

(* It does not: 402, or 503 with "retryable: true".                         *)
DirectRefuses(r) ==
  /\ at[r] = "direct"
  /\ \/ Answer(r, x402[r], 402)
     \/ Answer(r, x402[r], 503)
  /\ UNCHANGED <<gone, input, x402, owner, settled, served, called>>

(* The verification that nobody waits for any more claims the transaction.  *)
AbandonedClaim(r) ==
  /\ input[r] \in Input
  /\ input[r].header = "direct" /\ input[r].priced
  /\ at[r] = "over" /\ r \notin served /\ sent[r] \in {402, 503}
  /\ owner[input[r].tx] = NoOne
  /\ \A t \in Txs : owner[t] # r
  /\ Claim(r, input[r].tx)
  /\ UNCHANGED <<gone, input, at, x402, sent, draft, settled, served, called, rows>>

-----------------------------------------------------------------------------
(* The SDK. *)

(* The payment is accepted: x402Verified is set on the request.  The        *)
(* context is completed unless the headers are sent.                        *)
SdkVerifies(r) ==
  /\ at[r] = "sdk"
  /\ input[r].header = "sdk" /\ input[r].priced
  /\ LET x == [x402[r] EXCEPT !.verified = TRUE]
     IN PaidGuard(r, IF HeadersSent(r) \/ x.method # "none" THEN x ELSE WithContext(r, x))
  /\ UNCHANGED <<gone, input, owner, settled>>

(* A method and path without a price need no payment.                       *)
SdkPassesUnpriced(r) ==
  /\ at[r] = "sdk"
  /\ ~input[r].priced
  /\ PaidGuard(r, x402[r])
  /\ UNCHANGED <<gone, input, owner, settled>>

(* 402, or an exception: 503 from the error handler.                        *)
SdkRefuses(r) ==
  /\ at[r] = "sdk"
  /\ \/ input[r].priced /\ Answer(r, x402[r], 402)
     \/ Answer(r, x402[r], 503)
  /\ UNCHANGED <<gone, input, x402, owner, settled, served, called>>

(* The handler's response is released when the payment has been settled.    *)
SdkSettles(r) ==
  /\ at[r] = "settling"
  /\ \/ /\ settled' = settled \cup {r}
        /\ sent' = [sent EXCEPT ![r] = draft[r]]
     \/ /\ sent' = [sent EXCEPT ![r] = 402]
        /\ UNCHANGED settled
  /\ Move(r, "over")
  /\ UNCHANGED <<gone, input, x402, draft, owner, served, called, rows>>

-----------------------------------------------------------------------------
(* The upstream. *)

(* The result is sent and logged.  After a timeout res.json throws, the     *)
(* catch block takes that for an upstream error, throws again when it sets  *)
(* Retry-After, and the finally block logs 500.                             *)
UpstreamAnswers(r) ==
  /\ at[r] = "upstream"
  /\ IF HeadersSent(r)
     THEN TooLate(r, ApiRow(x402[r], 500))
     ELSE Finish(r, x402[r], 200, ApiRow(x402[r], 200))
  /\ UNCHANGED <<gone, input, x402, owner, settled, served, called>>

(* Mutant: the status of the upstream is passed on.                         *)
UpstreamFails_PassesStatus(r) ==
  /\ at[r] = "upstream"
  /\ \E status \in {429, 500} :
       IF HeadersSent(r)
       THEN TooLate(r, ApiRow(x402[r], status))
       ELSE Finish(r, x402[r], status, ApiRow(x402[r], status))
  /\ UNCHANGED <<gone, input, x402, owner, settled, served, called>>

(* An error of the upstream, with or without a status of its own, is        *)
(* answered 503 with "retryable: true".                                     *)
UpstreamFails(r) ==
  /\ at[r] = "upstream"
  /\ \E status \in {429, 500} :
       IF HeadersSent(r)
       THEN TooLate(r, ApiRow(x402[r], status))
       ELSE Finish(r, x402[r], 503, ApiRow(x402[r], status))
  /\ UNCHANGED <<gone, input, x402, owner, settled, served, called>>

-----------------------------------------------------------------------------
(* The request timer. *)

(* Mutant: the timer is set for the handler only.                           *)
Timeout_HandlerOnly(r) ==
  /\ at[r] = "upstream"
  /\ ~HeadersSent(r) /\ r \notin gone
  /\ sent' = [sent EXCEPT ![r] = 408]
  /\ Log(r, PaymentRow(x402[r], 408))
  /\ UNCHANGED <<gone, input, at, x402, draft, owner, settled, served, called>>

(* It answers 408 and stops nothing; a handler that threw is over.  The 20s *)
(* timer of the direct payment middleware is always first.                  *)
Timeout(r) ==
  /\ at[r] \in {"sdk", "upstream", "over"}
  /\ ~HeadersSent(r) /\ r \notin gone
  /\ sent' = [sent EXCEPT ![r] = 408]
  /\ Log(r, PaymentRow(x402[r], 408))
  /\ UNCHANGED <<gone, input, at, x402, draft, owner, settled, served, called>>

(* While the SDK holds the response back its headers are not sent: the      *)
(* timer writes into it, and whether that wins is up to the SDK.            *)
TimeoutWhileSettling(r) ==
  /\ at[r] = "settling" /\ r \notin gone
  /\ draft[r] # 408
  /\ draft' = [draft EXCEPT ![r] = 408]
  /\ UNCHANGED <<gone, input, at, x402, sent, owner, settled, served, called, rows>>

(* The client leaves.  That clears the timer; what is under way goes on, a   *)
(* settlement included, and its response is ended and logged as any other.  *)
Disconnect(r) ==
  /\ at[r] \in {"limiter", "direct", "sdk", "upstream", "settling", "over"}
  /\ ~HeadersSent(r)
  /\ gone' = gone \cup {r}
  /\ UNCHANGED <<input, at, x402, sent, draft, owner, settled, served, called, rows>>

BodyEnds(r) == BodyRead(r) \/ BadBody(r) \/ BodyAborted(r)

DirectEnds(r) == DirectGrants(r) \/ DirectRefuses(r)

Next ==
  \E r \in Requests :
    \/ Arrive(r)
    \/ BodyEnds(r)
    \/ OverLimit(r)
    \/ WithinLimit(r)
    \/ DirectEnds(r)
    \/ AbandonedClaim(r)
    \/ SdkVerifies(r)
    \/ SdkPassesUnpriced(r)
    \/ SdkRefuses(r)
    \/ SdkSettles(r)
    \/ UpstreamAnswers(r)
    \/ UpstreamFails(r)
    \/ Timeout(r)
    \/ TimeoutWhileSettling(r)
    \/ Disconnect(r)

Spec == Init /\ [][Next]_vars

(* Node closes a connection whose body does not come; the rate limiter      *)
(* keeps its counters in memory; the wait for a direct                      *)
(* payment ends (MegaethPayment!WaitingEnds); the event loop runs expired   *)
(* timers; the SDK ends its settlements.  Neither the SDK's verification    *)
(* nor an upstream has to answer.                                           *)
Fairness ==
  \A r \in Requests :
    /\ WF_vars(BodyEnds(r))
    /\ WF_vars(WithinLimit(r))
    /\ WF_vars(DirectEnds(r))
    /\ WF_vars(Timeout(r))
    /\ WF_vars(SdkSettles(r))

FairSpec == Spec /\ Fairness

-----------------------------------------------------------------------------
TypeOK ==
  /\ input \in [Requests -> Input \cup BadInput \cup {NoInput}]
  /\ at \in [Requests -> Stages]
  /\ x402 \in [Requests -> Context]
  /\ sent \in [Requests -> Codes \cup {0}]
  /\ gone \subseteq Requests
  /\ draft \in [Requests -> Codes \cup {0}]
  /\ owner \in [Txs -> Requests \cup {NoOne}]
  /\ settled \subseteq Requests /\ called \subseteq served /\ served \subseteq Requests
  /\ rows \in [Requests -> Seq(Row)]

Entries(s, service) == {i \in DOMAIN s : s[i].service = service}

Count(r, service) == Cardinality(Entries(rows[r], service))

Granted(r) == x402[r].method = "direct"

(* "every paid API mounted below must have passed one of the accepted       *)
(* payment paths before the request reaches a handler" (index.ts:609): a    *)
(* request is served if the developer's secret let it in, if it is the one  *)
(* request that claimed its transaction, or if the SDK has verified it.     *)
ServedIsPaid ==
  \A r \in served :
    \/ IsDev /\ input[r].bypass
    \/ Granted(r) /\ owner[input[r].tx] = r
    \/ x402[r].verified

(* A request answered on a direct payment leaves exactly one                *)
(* "megaeth-payment" row, whichever of the timer and the handler answered,  *)
(* and no other request leaves one: the dashboard counts these rows as      *)
(* settlements (dashboard.ts:125-134).                                      *)
OnePaymentRowPerGrant ==
  \A r \in Requests :
    Count(r, "megaeth-payment") = IF Granted(r) /\ HeadersSent(r) THEN 1 ELSE 0

(* The API handler as PaidHandler has it, the common shape of the routes of *)
(* ApiRoutes.                                                               *)
Stage(r) ==
  CASE at[r] = "upstream" -> "upstream"
    [] at[r] \in {"settling", "over"} -> "over"
    [] OTHER -> "before"

Promise ==
  INSTANCE PaidHandler WITH
    at <- [r \in Requests |-> Stage(r)],
    Answers <- Codes,
    NoAnswer <- 0,
    answer <- sent,
    rows <- [r \in Requests |-> Count(r, "api")]

(* Whatever the timers, the payments and the clients do meanwhile, a        *)
(* handler runs once, a call of its upstream is logged exactly once, when   *)
(* it is over, and nothing is sent twice: the status a client has been sent *)
(* is never replaced by that of a late handler, settlement or timer.        *)
HandlerPromise == Promise!Spec

(* Every request that arrived is answered, unless its connection is closed  *)
(* before: though neither the SDK nor the upstream may ever come back, and  *)
(* though no timer of the application runs while the body is read           *)
(* (index.ts:90-93).                                                        *)
EveryRequestIsAnswered ==
  \A r \in Requests : at[r] # "idle" ~> (HeadersSent(r) \/ r \in gone)

(* dashboard.ts:189 says of the sum of the amounts in the API rows that it  *)
(* is "actual on-chain revenue": a row with an amount is one of a payment   *)
(* the gateway has received.                                                *)
RevenueIsOnChain ==
  \A r \in Requests :
    /\ at[r] = "over"
    /\ \E i \in DOMAIN rows[r] : rows[r][i].service = "api" /\ rows[r][i].amount
    => r \in settled \/ (Granted(r) /\ owner[input[r].tx] = r)
=============================================================================
