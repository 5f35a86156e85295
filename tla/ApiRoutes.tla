------------------------------ MODULE ApiRoutes ------------------------------
(***************************************************************************)
(* Concurrent requests to one API route, from their arrival on: the request *)
(* timer of middleware/timeout.ts, the handler of the route (a record of    *)
(* Routes), its cache and upload limiter, and the attempts of the provider  *)
(* function behind it (a record of Upstreams).  Different routes share no   *)
(* state of this module but the endpoints of ENS.                           *)
(*                                                                         *)
(* Time is counted in units of 30 seconds; what takes less, a backoff of at *)
(* most 4.2 seconds included, happens between two ticks.  An action is what *)
(* runs from one await to the next.  A payment that the x402 SDK has        *)
(* verified is settled when the handler is done, and holds its answer back  *)
(* until then.                                                              *)
(***************************************************************************)
EXTENDS Routes, Sequences, FiniteSets

CONSTANTS
  Requests,
  Routes,                (* the routes to check                            *)
  Keys,                  (* questions that a cache key tells apart         *)
  MAX_CONCURRENT_UPLOADS,
  NoQuestion             (* not a question                                 *)

(* What a request asks: the parameters of the cache key, and "children".    *)
Question == [key : Keys, children : {0, 2}]

ASSUME ApiRoutesAssumption ==
  /\ MAX_CONCURRENT_UPLOADS \in Nat \ {0}
  /\ NoQuestion \notin Question

Endpoints == 0 .. 2

NoTicks == 0 - 1      (* a timer that is not set                           *)
Nothing == [of |-> NoQuestion, left |-> NoTicks]

(* An answer: 0 is none yet, 499 a client that has gone.  "of" is what the  *)
(* data answer that the handler has handed over, whatever became of them    *)
(* then.                                                                    *)
Codes == {0, 200, 400, 402, 404, 408, 499, 503}

Reply(code, retryable) ==
  [code |-> code, held |-> FALSE, retryable |-> retryable, of |-> NoQuestion, age |-> 0]

Data(q, age) == [code |-> 200, held |-> FALSE, retryable |-> FALSE, of |-> q, age |-> age]

NoAnswer == Reply(0, FALSE)

Stages == {"idle", "before", "checking", "calling", "backoff", "over"}

(* What the routes of Routes have in common: an error is never reported as  *)
(* a success, nor as the 0 of a call that was not made, and the routes that *)
(* look up a host have no cache.                                            *)
ASSUME RoutesAssumption ==
  /\ IsFiniteSet(Requests)
  /\ \A rt \in Routes :
       /\ rt.timer \in 1 .. VideoTimer /\ rt.ttl \in Nat
       /\ rt.ttl > 0 => rt.dns = "never"
       /\ rt.upstream.tries \in 1 .. 4
       /\ rt.upstream.limit \in 1 .. 4 \cup {Never}
       /\ rt.upstream.unset \in Nat \ {200}
       /\ \A reply \in DOMAIN rt.upstream.status \ {"ok"} :
            rt.upstream.status[reply] \in Nat \ {0, 200}
       /\ rt.passed \subseteq {400, 404}

VARIABLES
  route,          (* the route called                                      *)
  configured,     (* has its provider an API key?                          *)
  sdk,            (* the requests whose payment the SDK has verified       *)
  question,       (* what each request asks                                *)
  stage,          (* the await each request is at                          *)
  timer,          (* ticks left of its request timer                       *)
  attempt,        (* the number of the attempt                             *)
  limit,          (* ticks left of the attempt                             *)
  answer,         (* what was sent, or is held back                        *)
  logged,         (* the upstream status of each row given to logRequest   *)
  cache,          (* the TTLCache                                          *)
  activeUploads,
  providerIndex,  (* the next RPC endpoint of ENS                          *)
  asked,          (* the endpoints each request has tried (history)        *)
  fetched         (* ticks since each question was last answered by the    *)
                  (* upstream, NoTicks if never (history)                  *)

request == <<question, stage, timer, attempt, limit, answer, logged, asked>>
vars == <<route, configured, sdk, request, cache, activeUploads, providerIndex, fetched>>

(* The cache key of a question.                                             *)
CacheKey(q) == IF route.omits THEN [q EXCEPT !.children = 0] ELSE q

(* Without a cache it makes no difference what is asked.                    *)
Questions ==
  {q \in Question : /\ route.omits \/ q.children = 0
                    /\ route.ttl > 0 \/ q.key = CHOOSE k \in Keys : TRUE}

Init ==
  /\ route \in Routes
  /\ configured \in {TRUE, route.upstream.unset = 0}
  /\ sdk \in IF route.logged THEN SUBSET Requests ELSE {{}}
  /\ question \in [Requests -> Questions]
  /\ stage = [r \in Requests |-> "idle"]
  /\ timer = [r \in Requests |-> NoTicks]
  /\ attempt = [r \in Requests |-> 0]
  /\ limit = [r \in Requests |-> NoTicks]
  /\ answer = [r \in Requests |-> NoAnswer]
  /\ logged = [r \in Requests |-> <<>>]
  /\ cache = [q \in Question |-> Nothing]
  /\ activeUploads = 0
  /\ providerIndex = 0
  /\ asked = [r \in Requests |-> {}]
  /\ fetched = [q \in Question |-> NoTicks]

HeadersSent(r) == answer[r].code \notin {0, 499} /\ ~answer[r].held

-----------------------------------------------------------------------------
(* Answering.  *)

(* The client gets the answer, or has gone, which clears the timer.         *)
Deliver(r, a) ==
  /\ answer' = [answer EXCEPT ![r] = a]
  /\ timer' = [timer EXCEPT ![r] = NoTicks]

(* Once the headers are sent a response throws; to a client that has gone   *)
(* it does nothing.  The SDK holds a success back, and lets an error pass.  *)
Send(r, a) ==
  IF answer[r].code # 0 THEN UNCHANGED <<answer, timer>>
  ELSE IF r \in sdk /\ a.code < 400
  THEN /\ answer' = [answer EXCEPT ![r] = [a EXCEPT !.held = TRUE]]
       /\ UNCHANGED timer
  ELSE Deliver(r, a)

(* Mutant: a call is logged only while its client waits for the answer.     *)
Log_WhileWaiting(r, status) ==
  logged' = [logged EXCEPT ![r] = IF route.logged /\ ~HeadersSent(r) THEN Append(@, status) ELSE @]

Log(r, status) ==
  logged' = [logged EXCEPT ![r] = IF route.logged THEN Append(@, status) ELSE @]

(* The handler is done; "status" is what its finally block logs.            *)
Done(r, status) ==
  /\ stage' = [stage EXCEPT ![r] = "over"]
  /\ limit' = [limit EXCEPT ![r] = NoTicks]
  /\ Log(r, status)

(* ... or it ends before its try block, which logs nothing.                 *)
Return(r) ==
  /\ stage' = [stage EXCEPT ![r] = "over"]
  /\ UNCHANGED <<limit, logged>>

(* Mutant: the slot of a pin that was not answered is kept.                 *)
Release_IfAnswered ==
  activeUploads' = IF route.uploads /\ \E r \in Requests : answer'[r] # answer[r]
                   THEN activeUploads - 1 ELSE activeUploads

(* A pin gives its slot back in the finally block.                          *)
Release == activeUploads' = IF route.uploads THEN activeUploads - 1 ELSE activeUploads

(* The catch block on an error of this status.                              *)
FailureAnswer(reply, status) ==
  IF reply \in route.tooSlow THEN Reply(408, FALSE)
  ELSE IF status \in route.passed THEN Reply(status, FALSE)
  ELSE Reply(503, status \notin route.final)

Fail(r, reply, status) ==
  /\ Send(r, FailureAnswer(reply, status))
  /\ Done(r, status)
  /\ UNCHANGED <<cache, fetched>>

(* Mutant: the result is cached only when it could still be sent.           *)
Store_AfterSending(r) ==
  cache' = IF route.ttl = 0 \/ HeadersSent(r) THEN cache
           ELSE [cache EXCEPT ![CacheKey(question[r])] = [of |-> question[r], left |-> route.ttl]]

(* cache.set                                                                *)
Store(r) ==
  cache' = IF route.ttl = 0 THEN cache
           ELSE [cache EXCEPT ![CacheKey(question[r])] = [of |-> question[r], left |-> route.ttl]]

(* Mutant: a success is logged as one, whether or not it could be sent.     *)
Succeed_LogsSuccess(r) ==
  /\ Store(r)
  /\ fetched' = IF route.ttl = 0 THEN fetched ELSE [fetched EXCEPT ![question[r]] = 0]
  /\ Send(r, Data(question[r], 0))
  /\ Done(r, 200)

(* The result is cached, then sent; if that throws, the catch block takes   *)
(* it for an error of the upstream without a status.                        *)
Succeed(r) ==
  /\ Store(r)
  /\ fetched' = IF route.ttl = 0 THEN fetched ELSE [fetched EXCEPT ![question[r]] = 0]
  /\ Send(r, Data(question[r], 0))
  /\ Done(r, IF HeadersSent(r) THEN 500 ELSE 200)

-----------------------------------------------------------------------------
(* Calling the upstream. *)

(* Mutant: the last endpoint is never reached.                              *)
NextEndpoint_SkipsLast == (providerIndex + 1) % (Cardinality(Endpoints) - 1)

NextEndpoint == (providerIndex + 1) % Cardinality(Endpoints)

(* An attempt starts; one at ENS takes the next endpoint.                   *)
Attempt(r, n) ==
  /\ stage' = [stage EXCEPT ![r] = "calling"]
  /\ attempt' = [attempt EXCEPT ![r] = n]
  /\ limit' = [limit EXCEPT ![r] = route.upstream.limit]
  /\ IF route.upstream = Ens
     THEN /\ providerIndex' = NextEndpoint
          /\ asked' = [asked EXCEPT ![r] = @ \cup {providerIndex}]
     ELSE UNCHANGED <<providerIndex, asked>>

(* Without an API key the provider function throws at once.                 *)
Call(r) ==
  IF configured \/ route.upstream.unset = 0
  THEN /\ Attempt(r, 1)
       /\ UNCHANGED <<timer, answer, logged, cache, fetched>>
  ELSE /\ Fail(r, "unset", route.upstream.unset)
       /\ UNCHANGED <<attempt, providerIndex, asked>>

(* Mutant: one attempt too many.                                            *)
Again_OneTooMany(r, reply) ==
  reply \in route.upstream.again /\ attempt[r] <= route.upstream.tries

(* Is another attempt made?                                                 *)
Again(r, reply) ==
  reply \in route.upstream.again /\ attempt[r] < route.upstream.tries

Outcome(r, reply) ==
  IF Again(r, reply)
  THEN /\ IF route.upstream.pause
          THEN /\ stage' = [stage EXCEPT ![r] = "backoff"]
               /\ limit' = [limit EXCEPT ![r] = NoTicks]
               /\ UNCHANGED <<attempt, providerIndex, asked>>
          ELSE Attempt(r, attempt[r] + 1)
       /\ UNCHANGED <<timer, answer, logged, cache, fetched, activeUploads>>
  ELSE /\ IF reply = "ok" THEN Succeed(r)
          ELSE Fail(r, reply, route.upstream.status[reply])
       /\ Release
       /\ UNCHANGED <<attempt, providerIndex, asked>>

(* The limit of an attempt is a timer of its own; the SDKs may time out     *)
(* whenever they do.                                                        *)
UpstreamReplies(r) ==
  /\ stage[r] = "calling"
  /\ \E reply \in DOMAIN route.upstream.status :
       /\ reply = "timeout" =>
            limit[r] \in {0, Never} /\ ~(route.upstream.headers /\ limit[r] = Never)
       /\ Outcome(r, reply)
  /\ UNCHANGED <<route, configured, sdk, question>>

(* SerpApi: the abort timer is cleared once fetch has resolved.             *)
HeadersArrive(r) ==
  /\ stage[r] = "calling"
  /\ route.upstream.headers /\ limit[r] # Never
  /\ limit' = [limit EXCEPT ![r] = Never]
  /\ UNCHANGED <<route, configured, sdk, question, stage, timer, attempt, answer, logged, asked,
                 cache, activeUploads, providerIndex, fetched>>

BackoffEnds(r) ==
  /\ stage[r] = "backoff"
  /\ Attempt(r, attempt[r] + 1)
  /\ UNCHANGED <<route, configured, sdk, question, timer, answer, logged, cache, activeUploads, fetched>>

-----------------------------------------------------------------------------
(* The handler up to its first await. *)

(* A request arrives and its timer starts; payment, and the buffering of an *)
(* upload, come before the handler.                                         *)
Arrive(r) ==
  /\ stage[r] = "idle"
  /\ stage' = [stage EXCEPT ![r] = "before"]
  /\ timer' = [timer EXCEPT ![r] = route.timer]
  /\ UNCHANGED <<route, configured, sdk, question, attempt, limit, answer, logged, asked,
                 cache, activeUploads, providerIndex, fetched>>

SlotFree == ~route.uploads \/ activeUploads < MAX_CONCURRENT_UPLOADS

TakeSlot == activeUploads' = IF route.uploads THEN activeUploads + 1 ELSE activeUploads

Cached(r) == cache[CacheKey(question[r])]

(* Too many pins are under way.                                             *)
NoSlot(r) ==
  /\ stage[r] = "before"
  /\ ~SlotFree
  /\ Send(r, Reply(503, FALSE))
  /\ Return(r)
  /\ UNCHANGED <<route, configured, sdk, question, attempt, asked, cache, activeUploads,
                 providerIndex, fetched>>

(* Parameters are refused.  When they are checked in the try block, its     *)
(* finally block still logs, with the status that upstreamStatus starts     *)
(* with, or that of the error when the response throws.                     *)
Refused(r) ==
  /\ Send(r, Reply(400, FALSE))
  /\ IF route.inTry THEN Done(r, IF HeadersSent(r) THEN 500 ELSE 0) ELSE Return(r)

Refuse(r) ==
  /\ stage[r] = "before"
  /\ route.params /\ SlotFree
  /\ Refused(r)
  /\ UNCHANGED <<route, configured, sdk, question, attempt, asked, cache, activeUploads,
                 providerIndex, fetched>>

(* A parameter makes the handler throw: JSON that does not parse, a value   *)
(* that is not of the type the code takes it for.  In the try block that is *)
(* caught like an error of the upstream.  Before it nobody does (Express 4  *)
(* does not look at the promise of a handler, index.ts:742 logs it): the    *)
(* request is left to its timer.                                            *)
Throw(r) ==
  /\ stage[r] = "before"
  /\ route.throws /\ SlotFree
  /\ IF route.inTry THEN Fail(r, "malformed", 500)
     ELSE /\ Return(r)
          /\ UNCHANGED <<timer, answer, cache, fetched>>
  /\ UNCHANGED <<route, configured, sdk, question, attempt, asked, activeUploads, providerIndex>>

CacheHit(r) ==
  /\ stage[r] = "before"
  /\ Cached(r) # Nothing
  /\ Send(r, Data(Cached(r).of, fetched[Cached(r).of]))
  /\ Return(r)
  /\ UNCHANGED <<route, configured, sdk, question, attempt, asked, cache, activeUploads,
                 providerIndex, fetched>>

(* The host of a URL is looked up.                                          *)
CheckUrl(r) ==
  /\ stage[r] = "before"
  /\ route.dns # "never" /\ SlotFree
  /\ stage' = [stage EXCEPT ![r] = "checking"]
  /\ TakeSlot
  /\ UNCHANGED <<route, configured, sdk, question, timer, attempt, limit, answer, logged, asked,
                 cache, providerIndex, fetched>>

(* A cache miss, or a route without a cache; pins of JSON or of a file, and *)
(* transcriptions of base64, have no URL to check.                          *)
StartCall(r) ==
  /\ stage[r] = "before"
  /\ route.dns # "always" /\ SlotFree
  /\ Cached(r) = Nothing
  /\ Call(r)
  /\ IF stage'[r] = "calling" THEN TakeSlot ELSE UNCHANGED activeUploads
  /\ UNCHANGED <<route, configured, sdk, question>>

UrlRefused(r) ==
  /\ stage[r] = "checking"
  /\ Refused(r)
  /\ Release
  /\ UNCHANGED <<route, configured, sdk, question, attempt, asked, cache, providerIndex, fetched>>

UrlAccepted(r) ==
  /\ stage[r] = "checking"
  /\ Call(r)
  /\ IF stage'[r] = "calling" THEN UNCHANGED activeUploads ELSE Release
  /\ UNCHANGED <<route, configured, sdk, question>>

-----------------------------------------------------------------------------
(* Time, and clients. *)

(* While the SDK holds an answer back its headers are not sent, and the     *)
(* timer writes into it; whether that wins is up to the SDK.                *)
RequestTimeout(r) ==
  /\ timer[r] = 0
  /\ IF answer[r].held
     THEN /\ timer' = [timer EXCEPT ![r] = NoTicks]
          /\ \/ UNCHANGED answer
             \/ answer' = [answer EXCEPT ![r] = [@ EXCEPT !.code = 408, !.retryable = TRUE]]
     ELSE Send(r, Reply(408, TRUE))
  /\ UNCHANGED <<route, configured, sdk, question, stage, attempt, limit, logged, asked,
                 cache, activeUploads, providerIndex, fetched>>

(* The payment has been settled, and the answer is released; or it has not, *)
(* and 402 is sent in its place.                                            *)
SdkSettles(r) ==
  /\ answer[r].held
  /\ \/ Deliver(r, [answer[r] EXCEPT !.held = FALSE])
     \/ Deliver(r, [Reply(402, FALSE) EXCEPT !.of = answer[r].of])
  /\ UNCHANGED <<route, configured, sdk, question, stage, attempt, limit, logged, asked,
                 cache, activeUploads, providerIndex, fetched>>

(* The connection is closed; the handler goes on.                           *)
Disconnect(r) ==
  /\ stage[r] # "idle" /\ (answer[r].code = 0 \/ answer[r].held)
  /\ Deliver(r, Reply(499, FALSE))
  /\ UNCHANGED <<route, configured, sdk, question, stage, attempt, limit, logged, asked,
                 cache, activeUploads, providerIndex, fetched>>

Less(n) == IF n \in {NoTicks, Never} THEN n ELSE n - 1

(* Mutant: an entry is kept one tick too long.                              *)
Older_KeptTooLong(e) ==
  IF e = Nothing THEN e ELSE IF e.left = NoTicks THEN Nothing ELSE [e EXCEPT !.left = @ - 1]

(* TTLCache.get: an entry is good up to and including its last instant.     *)
Older(e) ==
  IF e = Nothing \/ e.left = 0 THEN Nothing ELSE [e EXCEPT !.left = @ - 1]

(* A tick waits for the timers that are due, and for the backoffs.          *)
Tick ==
  /\ \A r \in Requests : timer[r] # 0 /\ limit[r] # 0 /\ stage[r] # "backoff"
  /\ \/ \E r \in Requests : timer[r] > 0 \/ limit[r] \in 1 .. Never - 1
     \/ \E q \in Question : cache[q] # Nothing
  /\ timer' = [r \in Requests |-> Less(timer[r])]
  /\ limit' = [r \in Requests |-> Less(limit[r])]
  /\ cache' = [q \in Question |-> Older(cache[q])]
  /\ fetched' = [q \in Question |->
                   IF fetched[q] \in {NoTicks, route.ttl + 1} THEN fetched[q] ELSE fetched[q] + 1]
  /\ UNCHANGED <<route, configured, sdk, question, stage, attempt, answer, logged, asked,
                 activeUploads, providerIndex>>

Handle(r) ==
  \/ NoSlot(r) \/ Refuse(r) \/ Throw(r) \/ CacheHit(r) \/ CheckUrl(r) \/ StartCall(r)

Check(r) == UrlRefused(r) \/ UrlAccepted(r)

Next ==
  \/ \E r \in Requests :
       \/ Arrive(r) \/ Handle(r) \/ Check(r)
       \/ UpstreamReplies(r) \/ HeadersArrive(r) \/ BackoffEnds(r)
       \/ RequestTimeout(r) \/ SdkSettles(r) \/ Disconnect(r)
  \/ Tick

Spec == Init /\ [][Next]_vars

(* Timers fire, resolvers, payments and upstreams answer (one without a     *)
(* limit of its own by the limits of its SDK), and what has resolved goes   *)
(* on.                                                                      *)
Fairness ==
  /\ WF_vars(Tick)
  /\ \A r \in Requests :
       /\ WF_vars(Handle(r)) /\ WF_vars(Check(r)) /\ WF_vars(UpstreamReplies(r))
       /\ WF_vars(BackoffEnds(r)) /\ WF_vars(RequestTimeout(r))

-----------------------------------------------------------------------------
(* Properties. *)

TypeOK ==
  /\ configured \in BOOLEAN
  /\ question \in [Requests -> Question]
  /\ stage \in [Requests -> Stages]
  /\ timer \in [Requests -> NoTicks .. VideoTimer]
  /\ attempt \in [Requests -> 0 .. 4]
  /\ limit \in [Requests -> NoTicks .. 4 \cup {Never}]
  /\ sdk \subseteq Requests
  /\ \A r \in Requests : answer[r].code \in Codes
  /\ \A r \in Requests : Len(logged[r]) <= 1
  /\ activeUploads \in 0 .. MAX_CONCURRENT_UPLOADS
  /\ providerIndex \in Endpoints

Called(r) == attempt[r] > 0

HandedOver(r) == answer[r].of # NoQuestion

(* However the upstream, the request timer and the client race, a row says  *)
(* 200 exactly when the handler handed the data over in time (a client that *)
(* had gone aside), and 0 only when the upstream was not called.  What is   *)
(* handed over the client gets, unless the SDK holds it back: then a        *)
(* settlement that fails, or the timer, may still put a 402 or 408 in its   *)
(* place, behind a row that says 200.                                       *)
LogMatchesAnswer ==
  \A r \in Requests :
    stage[r] = "over" /\ logged[r] # <<>> =>
      /\ answer[r].code # 499 => (logged[r] = <<200>> <=> HandedOver(r))
      /\ HandedOver(r) => answer[r].code \in (IF r \in sdk THEN {200, 402, 408} ELSE {200})
      /\ logged[r] = <<0>> => ~Called(r)

(* The data a client is sent answer its question, as far as the cache key   *)
(* tells questions apart, and are no older than the time to live of the     *)
(* cache when the handler hands them over.                                  *)
AnswersAreFresh ==
  \A r \in Requests :
    answer[r].code = 200 =>
      /\ answer[r].of.key = question[r].key
      /\ answer[r].age \in 0 .. route.ttl

(* Everything a client asks for is in the question its data answer: "Number *)
(* of children" is a parameter of the travel routes                         *)
(* (config/services.json:2776), which the cache key leaves out.             *)
AnswersMatchQuestions ==
  \A r \in Requests : answer[r].code = 200 => answer[r].of = question[r]

(* A question that the upstream has answered within the time to live is     *)
(* not put to it again, even if the answer came too late for the client:    *)
(* the retry of a request that timed out is served from the cache.          *)
NoNeedlessCalls ==
  [][\A r \in Requests :
       attempt[r] = 0 /\ attempt'[r] = 1 /\ route.ttl > 0 =>
         fetched[question[r]] \notin 0 .. route.ttl]_vars

(* The slots taken are those of the pins under way, also when a pin is      *)
(* refused, fails, times out or is abandoned by its client.                 *)
SlotsAreCounted ==
  /\ activeUploads = (IF route.uploads
                      THEN Cardinality({r \in Requests :
                                          stage[r] \in {"checking", "calling", "backoff"}})
                      ELSE 0)
  /\ activeUploads <= MAX_CONCURRENT_UPLOADS

(* All lookups of ENS share the next endpoint, so that "resolve failed on   *)
(* RPC i/3" (providers/ens.ts:26) may be one endpoint twice and another     *)
(* never.  But an endpoint that a failed lookup did not try has been tried  *)
(* by another: together they leave none out.                                *)
NoEndpointLeftOut ==
  route.upstream = Ens =>
    \A r \in Requests :
      logged[r] = <<502>> => UNION {asked[s] : s \in Requests} = Endpoints

(* The handler, called or not, as the pipeline has it (PaidHandler).  What  *)
(* the SDK holds back is not sent; to leave counts as an answer; the one    *)
(* route that logs nothing counts as if it did.                             *)
HandlerStage(r) ==
  CASE stage[r] \in {"idle", "before", "checking"} -> "before"
    [] stage[r] \in {"calling", "backoff"} -> "upstream"
    [] stage[r] = "over" -> "over"

Rows(r) ==
  IF route.logged THEN Len(logged[r])
  ELSE IF stage[r] = "over" /\ Called(r) THEN 1 ELSE 0

Promise ==
  INSTANCE PaidHandler WITH
    at <- [r \in Requests |-> HandlerStage(r)],
    Answers <- Codes \ {0},
    NoAnswer <- 0,
    answer <- [r \in Requests |-> IF answer[r].held THEN 0 ELSE answer[r].code],
    rows <- [r \in Requests |-> Rows(r)]

(* Every route is the handler that Gateway composes with the payments, and  *)
(* what a client has been sent is not replaced, be it by the answer that    *)
(* the SDK releases.                                                        *)
HandlerPromise == Promise!Spec

(* Every call of an upstream is logged in the end, whether its client got   *)
(* an answer, timed out or left.                                            *)
CallsAreLogged ==
  \A r \in Requests : Called(r) /\ route.logged ~> logged[r] # <<>>
=============================================================================
