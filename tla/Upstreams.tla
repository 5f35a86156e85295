------------------------------ MODULE Upstreams ------------------------------
(***************************************************************************)
(* The upstream services behind the API routes, as providers/*.ts call      *)
(* them: how often an attempt is made, how long one may take, which replies *)
(* are tried again, and the status that the provider function reports for   *)
(* the others.  Time is counted in units of 30 seconds, of which every      *)
(* limit in the code is a multiple.                                         *)
(***************************************************************************)
EXTENDS Naturals

(* No limit: the call is awaited for as long as it takes.                   *)
Never == 99

(* What an attempt may come to.  A "garbled" reply is one below 500 whose   *)
(* body is not the JSON that the code reads; "network" stands for a fetch   *)
(* that rejects before its limit.                                           *)
Replies == {"ok", "garbled", "400", "403", "404", "429", "5xx", "5xx garbled",
            "network", "timeout"}

(* The status that handlers see, "err.status || 500": an error that the     *)
(* code makes from a reply carries the status of it, one that fetch or the  *)
(* JSON parser throws has none.                                             *)
FetchStatus ==
  [s \in Replies |->
     CASE s = "ok" -> 200  [] s = "400" -> 400 [] s = "403" -> 403
       [] s = "404" -> 404 [] s = "429" -> 429 [] s = "5xx" -> 503
       [] OTHER -> 500]

(* Every error has the same status.                                         *)
OneStatus(replies, code) == [s \in replies |-> IF s = "ok" THEN 200 ELSE code]

(* A provider: "tries" attempts of "limit" each; after a reply in "again"   *)
(* another is made while there are any left, the last one's error counting; *)
(* "pause": the backoff before it; "headers": the limit is lifted when the  *)
(* headers arrive; "unset": the status without an API key, 0 when the       *)
(* provider needs none; "status" of the replies it can get.                 *)
OpenRouter ==
  [tries |-> 3, limit |-> 4, again |-> {"5xx", "5xx garbled", "timeout"},
   pause |-> TRUE, headers |-> FALSE, unset |-> 502, status |-> FetchStatus]

CoinGecko ==
  [OpenRouter EXCEPT !.tries = 4, !.limit = 1, !.again = @ \cup {"network"}, !.unset = 0]

Exa == [OpenRouter EXCEPT !.limit = 1]

Firecrawl == [OpenRouter EXCEPT !.limit = 1]

Tenderly == [OpenRouter EXCEPT !.limit = 1]

(* The audio is read as bytes, and an error body that is not JSON is        *)
(* replaced by an empty one.                                                *)
ElevenLabs ==
  [OpenRouter EXCEPT !.limit = 1,
     !.status = [s \in Replies \ {"garbled"} |-> IF s = "5xx garbled" THEN 503 ELSE FetchStatus[s]]]

OpenAiTts ==
  [OpenRouter EXCEPT !.limit = 1,
     !.status = [s \in Replies \ {"garbled"} |-> IF s = "5xx garbled" THEN 503 ELSE FetchStatus[s]]]

(* The calls of an SDK, or of a fetch, that are made once.                  *)
Once(limit, unset, status) ==
  [tries |-> 1, limit |-> limit, again |-> {}, pause |-> FALSE, headers |-> FALSE,
   unset |-> unset, status |-> status]

SerpApi ==
  [Once(1, 503, [s \in Replies |->
     CASE s = "timeout" -> 504 [] s = "5xx garbled" -> 503 [] OTHER -> FetchStatus[s]])
   EXCEPT !.headers = TRUE]

Allium ==
  Once(2, 502, [s \in Replies |->
    CASE s = "ok" -> 200 [] s \in {"garbled", "network", "timeout"} -> 500 [] OTHER -> 502])

(* getFile: every reply that is not a success is a 404; one that succeeds   *)
(* may be too large, or be JSON that the handler cannot parse.              *)
IpfsGateway ==
  Once(2, 0, [s \in (Replies \ {"5xx garbled"}) \cup {"too large"} |->
    CASE s = "ok" -> 200 [] s = "too large" -> 413
      [] s \in {"garbled", "network", "timeout"} -> 500 [] OTHER -> 404])

Pinata == Once(Never, 502, OneStatus({"ok", "403", "5xx", "network"}, 500))

Fal ==
  Once(Never, 502, [s \in {"ok", "400", "403", "429", "5xx", "network"} |-> FetchStatus[s]])

(* A video reply without a URL is an error of its own.                      *)
FalVideo ==
  Once(Never, 502, [s \in {"ok", "garbled", "400", "403", "429", "5xx", "network"} |->
    IF s = "garbled" THEN 502 ELSE FetchStatus[s]])

(* An error of the SDK, a rejected call, a result without a transcript.     *)
Deepgram ==
  Once(Never, 502, [s \in {"ok", "garbled", "5xx", "network"} |->
    CASE s = "ok" -> 200 [] s = "5xx" -> 502 [] OTHER -> 500])

(* The sandbox is killed in a finally block, after its time at the latest.  *)
E2b == Once(Never, 502, OneStatus({"ok", "5xx", "network", "timeout"}, 500))

(* Three public RPC endpoints, tried one after the other.                   *)
Ens ==
  [tries |-> 3, limit |-> Never, again |-> {"5xx", "network"}, pause |-> FALSE,
   headers |-> FALSE, unset |-> 0, status |-> OneStatus({"ok", "5xx", "network"}, 502)]

(* The request table, behind /api/health/services.                          *)
Database == Once(Never, 0, OneStatus({"ok", "network"}, 500))
=============================================================================
