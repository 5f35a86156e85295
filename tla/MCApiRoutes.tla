----------------------------- MODULE MCApiRoutes -----------------------------
(***************************************************************************)
(* Every route of Routes, with two questions and one upload slot.           *)
(***************************************************************************)
EXTENDS ApiRoutes

MCRoutes ==
  {Chat, Embeddings, CryptoPrice, CryptoMarkets, CryptoHistory, CryptoTrending, CryptoSearch,
   EnsResolve, EnsReverse, TravelFlights, TravelHotels, ImageModel, FaceSwap, NanoBanana,
   Video, VideoAnimate, TtsOpenAi, TtsElevenLabs, TtsLux, Transcribe, CodeRun, TxSimulate,
   WebScrape, WebScreenshot, SearchWeb, SearchContents, WalletBalances, WalletTransactions,
   WalletPnl, TokenPrices, TokenMetadata, IpfsPin, IpfsGet, HealthServices}

TravelRoutes == {TravelFlights, TravelHotels}

First == CHOOSE r \in Requests : TRUE

(* One request is paid by way of the SDK, and the other is not: how it is   *)
(* paid touches only its own answer and timer, so that this pair does what  *)
(* any other does.  Keys are interchangeable, and the first request asks    *)
(* for the first.                                                           *)
OneOfEachKind ==
  /\ Init
  /\ sdk = IF route.logged THEN {First} ELSE {}
  /\ question[First].key = CHOOSE k \in Keys : TRUE

MCSpec == OneOfEachKind /\ [][Next]_vars /\ Fairness
=============================================================================
