-------------------------------- MODULE Routes --------------------------------
(***************************************************************************)
(* The handlers of apis/*.ts, one record for each.  They have one shape     *)
(* (ApiRoutes): check the parameters, look in the cache, call the upstream, *)
(* answer, log; the record says in what a handler differs from the others.  *)
(***************************************************************************)
EXTENDS Upstreams

(* getTimeoutForPath, in units of 30 seconds.                               *)
LlmTimer == 6
VideoTimer == 10
ComputeTimer == 3
TravelTimer == 2
IpfsTimer == 2
StandardTimer == 1

(* "ttl": how long an answer is cached, 0 for not at all; "omits": does the *)
(* cache key leave a parameter out; "params": are there parameters to       *)
(* refuse; "throws": is one used as if it had the type expected; "dns": is  *)
(* the host of a URL looked up first; "inTry": are parameters checked in    *)
(* the try block whose finally logs; "uploads": is the body buffered, and   *)
(* the number of calls limited; "passed": the upstream errors passed        *)
(* through; "final": those answered with "retryable: false"; "tooSlow": the *)
(* replies answered 408; "logged": is the call logged.                      *)
Route(upstream, timer) ==
  [upstream |-> upstream, timer |-> timer, ttl |-> 0, omits |-> FALSE,
   params |-> TRUE, throws |-> FALSE, dns |-> "never", inTry |-> FALSE, uploads |-> FALSE,
   passed |-> {}, final |-> {}, tooSlow |-> {}, logged |-> TRUE]

(* "messages: [null]", a list where trim() is called, or an object whose    *)
(* toString is not a function, makes it throw.                              *)
Trusting(rt) == [rt EXCEPT !.throws = TRUE]

CachedFor(ttl, rt) == [rt EXCEPT !.ttl = ttl]

(* 403, which is what a key without credit gets, is not worth a retry.      *)
Generating(rt) == [rt EXCEPT !.final = {403}]

-----------------------------------------------------------------------------
Chat == Trusting(Route(OpenRouter, LlmTimer))

(* Its path does not begin with /api/llm/.                                  *)
Embeddings == Route(OpenRouter, StandardTimer)

CryptoPrice == Trusting(CachedFor(1, Route(CoinGecko, StandardTimer)))
CryptoMarkets == Trusting(CachedFor(1, Route(CoinGecko, StandardTimer)))
CryptoHistory == Trusting(CachedFor(1, Route(CoinGecko, StandardTimer)))
CryptoTrending == [CachedFor(1, Route(CoinGecko, StandardTimer)) EXCEPT !.params = FALSE]
CryptoSearch == Trusting(CachedFor(1, Route(CoinGecko, StandardTimer)))

EnsResolve == Trusting(CachedFor(20, Route(Ens, StandardTimer)))
EnsReverse == Trusting(CachedFor(20, Route(Ens, StandardTimer)))

(* "children" goes to the upstream and not into the key.                    *)
TravelFlights == [Trusting(CachedFor(10, Route(SerpApi, TravelTimer))) EXCEPT !.omits = TRUE]
TravelHotels == [Trusting(CachedFor(10, Route(SerpApi, TravelTimer))) EXCEPT !.omits = TRUE]

ImageModel == Generating(Route(Fal, ComputeTimer))
FaceSwap == [Trusting(Generating(Route(Fal, ComputeTimer))) EXCEPT !.passed = {400}]
NanoBanana == Generating(Route(Fal, ComputeTimer))

Video == Trusting(Generating(Route(FalVideo, VideoTimer)))
VideoAnimate == [Video EXCEPT !.dns = "always"]

TtsOpenAi == Route(OpenAiTts, ComputeTimer)
TtsElevenLabs == Route(ElevenLabs, ComputeTimer)
TtsLux == Generating(Route(Fal, ComputeTimer))

Transcribe == [Route(Deepgram, ComputeTimer) EXCEPT !.dns = "some"]

CodeRun == [Trusting(Route(E2b, ComputeTimer)) EXCEPT !.tooSlow = {"timeout"}]

TxSimulate == [Trusting(Route(Tenderly, StandardTimer)) EXCEPT !.passed = {400}]

WebScrape == Trusting(Route(Firecrawl, StandardTimer))
WebScreenshot == Route(Firecrawl, StandardTimer)

SearchWeb == Route(Exa, StandardTimer)
SearchContents == Route(Exa, StandardTimer)

WalletBalances == Trusting(Route(Allium, StandardTimer))
WalletTransactions == Trusting(Route(Allium, StandardTimer))
WalletPnl == Trusting(Route(Allium, StandardTimer))
TokenPrices == Trusting(Route(Allium, StandardTimer))
TokenMetadata == [Trusting(Route(Allium, StandardTimer)) EXCEPT !.inTry = TRUE]

IpfsPin ==
  [Trusting(Route(Pinata, IpfsTimer)) EXCEPT !.dns = "some", !.inTry = TRUE, !.uploads = TRUE]
IpfsGet == [Trusting(Route(IpfsGateway, IpfsTimer)) EXCEPT !.passed = {404}]

(* Free; the handler logs nothing, and its errors say nothing of a retry.   *)
HealthServices ==
  [CachedFor(2, Route(Database, StandardTimer)) EXCEPT
     !.params = FALSE, !.final = {500}, !.logged = FALSE]
=============================================================================
