---------------------------- MODULE ApiRoutesProofs ----------------------------
(***************************************************************************)
(* The API routes for any finite number of requests, any routes of the      *)
(* shape that RoutesAssumption states and any number of upload slots: the   *)
(* log says what the handler handed over, the slots are counted, and every  *)
(* step is one of PaidHandler.  The cache is part of the same invariant:    *)
(* how old an answer is, is settled when it is handed over.                 *)
(*                                                                         *)
(* As in GatewayProofs a step belongs to one request, or is a tick, and the *)
(* inductive invariant is one of a single request (Sound), together with    *)
(* the count of the slots.                                                  *)
(***************************************************************************)
EXTENDS ApiRoutes, FiniteSetTheorems, TLAPS

OneRow == {<<>>} \cup {<<status>> : status \in Nat}

Types ==
  /\ route \in Routes
  /\ configured \in BOOLEAN
  /\ sdk \subseteq Requests
  /\ question \in [Requests -> Question]
  /\ stage \in [Requests -> Stages]
  /\ timer \in [Requests -> NoTicks .. VideoTimer]
  /\ attempt \in [Requests -> 0 .. 4]
  /\ limit \in [Requests -> NoTicks .. 4 \cup {Never}]
  /\ answer = [r \in Requests |-> answer[r]]
  /\ logged \in [Requests -> OneRow]
  /\ activeUploads \in 0 .. MAX_CONCURRENT_UPLOADS
  /\ providerIndex \in Endpoints

AnswerType ==
  [code : Codes, held : BOOLEAN, retryable : BOOLEAN, of : Question \cup {NoQuestion}, age : Int]

(* What may become of data that are handed over.                            *)
Ends200(r) == IF r \in sdk THEN {200, 402, 408} ELSE {200}

(* The answer to a request, by itself.                                      *)
Proper(r) ==
  /\ answer[r] \in AnswerType
  /\ HandedOver(r) => answer[r].code \in Ends200(r)
  /\ answer[r].code = 200 => HandedOver(r)
  /\ answer[r].held => r \in sdk /\ HandedOver(r) /\ answer[r].code \in {200, 408}

LogMatches(r) ==
  stage[r] = "over" /\ logged[r] # <<>> =>
    /\ answer[r].code # 499 => (logged[r] = <<200>> <=> HandedOver(r))
    /\ logged[r] = <<0>> => ~Called(r)

Sound(r) ==
  /\ Proper(r)
  /\ stage[r] \in {"idle", "before", "checking"} => attempt[r] = 0
  /\ stage[r] \in {"calling", "backoff"} => attempt[r] > 0
  /\ stage[r] = "backoff" => attempt[r] < route.upstream.tries
  /\ stage[r] = "checking" => route.dns # "never"
  /\ stage[r] # "over" => logged[r] = <<>> /\ ~HandedOver(r)
  /\ LogMatches(r)

Slots == {r \in Requests : stage[r] \in {"checking", "calling", "backoff"}}

IInv ==
  /\ Types
  /\ \A r \in Requests : Sound(r)
  /\ SlotsAreCounted

-----------------------------------------------------------------------------
(***************************************************************************)
(* The cache.  An entry and its age are kept in step (EntryIsRight): the    *)
(* ticks since the upstream answered and the ticks the entry has left add   *)
(* up to the time to live.  That holds although questions share entries,    *)
(* because a question that is answered anew is answered into the entry it   *)
(* has.  The entry is at least as young as each of the questions that share *)
(* it (KnownIsCached).                                                      *)
(***************************************************************************)

EntryIsRight(k) ==
  cache[k] # Nothing =>
    /\ cache[k] = [of |-> cache[k].of, left |-> cache[k].left]
    /\ cache[k].of \in Question /\ CacheKey(cache[k].of) = k
    /\ cache[k].left \in 0 .. route.ttl
    /\ fetched[cache[k].of] + cache[k].left = route.ttl

KnownIsCached(q) ==
  fetched[q] \in 0 .. route.ttl =>
    /\ cache[CacheKey(q)] # Nothing
    /\ fetched[cache[CacheKey(q)].of] <= fetched[q]

CInv ==
  /\ cache = [k \in Question |-> cache[k]]
  /\ fetched \in [Question -> Int]
  /\ \A k \in Question : EntryIsRight(k)
  /\ \A q \in Question : KnownIsCached(q)
  /\ AnswersAreFresh

LEMMA KeyIsKept ==
  ASSUME NEW q \in Question
  PROVE  CacheKey(q) \in Question /\ CacheKey(q).key = q.key
  BY DEF CacheKey, Question

-----------------------------------------------------------------------------
(* A step of one request. *)

OthersRest(r) ==
  \A d \in Requests \ {r} :
    /\ stage'[d] = stage[d] /\ attempt'[d] = attempt[d]
    /\ answer'[d] = answer[d] /\ logged'[d] = logged[d]

(* What the step is to PaidHandler. *)
Sent(r) == IF answer[r].held THEN 0 ELSE answer[r].code

Rests(r) ==
  HandlerStage(r)' = HandlerStage(r) /\ Sent(r)' = Sent(r) /\ Rows(r)' = Rows(r)

CallsUpstream(r) ==
  /\ HandlerStage(r) = "before" /\ HandlerStage(r)' = "upstream"
  /\ Sent(r)' = Sent(r) /\ Rows(r)' = Rows(r)

Answers(r) ==
  /\ Sent(r) = 0 /\ Sent(r)' # 0
  /\ HandlerStage(r)' = HandlerStage(r) /\ Rows(r)' = Rows(r)

Ends(r) ==
  \E n \in {0, 1} :
    /\ HandlerStage(r) \in {"before", "upstream"} /\ HandlerStage(r)' = "over"
    /\ HandlerStage(r) = "upstream" => n = 1
    /\ Sent(r) # 0 => Sent(r)' = Sent(r)
    /\ Rows(r)' = Rows(r) + n

(* What it is to the upload limiter. *)
SlotStays(r) == (r \in Slots' <=> r \in Slots) /\ activeUploads' = activeUploads

SlotTaken(r) == r \notin Slots /\ r \in Slots' /\ SlotFree /\ TakeSlot

SlotGivenBack(r) == r \in Slots /\ r \notin Slots' /\ Release

(* All of Types but the count of the slots. *)
OtherTypes ==
  /\ route \in Routes
  /\ configured \in BOOLEAN
  /\ sdk \subseteq Requests
  /\ question \in [Requests -> Question]
  /\ stage \in [Requests -> Stages]
  /\ timer \in [Requests -> NoTicks .. VideoTimer]
  /\ attempt \in [Requests -> 0 .. 4]
  /\ limit \in [Requests -> NoTicks .. 4 \cup {Never}]
  /\ answer = [r \in Requests |-> answer[r]]
  /\ logged \in [Requests -> OneRow]
  /\ providerIndex \in Endpoints

Good(r) ==
  /\ OtherTypes' /\ route' = route /\ sdk' = sdk
  /\ Sound(r)'
  /\ OthersRest(r)
  /\ Rests(r) \/ CallsUpstream(r) \/ Answers(r) \/ Ends(r)
  /\ SlotStays(r) \/ SlotTaken(r) \/ SlotGivenBack(r)

LEMMA GoodKeepsIInv ==
  ASSUME IInv, NEW r \in Requests, Good(r)
  PROVE  IInv'
  <1>1. ASSUME NEW d \in Requests
        PROVE  Sound(d)'
    <2>1. CASE d = r
      BY <2>1 DEF Good
    <2>2. CASE d # r
      BY <2>2 DEF IInv, Good, OthersRest, Sound, LogMatches, Called, Proper, AnswerType, HandedOver, Ends200
    <2>3. QED BY <2>1, <2>2
  <1>2. /\ Slots \subseteq Requests /\ IsFiniteSet(Slots) /\ Cardinality(Slots) \in Nat
    BY RoutesAssumption, FS_Subset, FS_CardinalityType DEF Slots
  <1>3. \A d \in Requests \ {r} : d \in Slots' <=> d \in Slots
    BY DEF Good, OthersRest, Slots
  <1>4. Slots' \subseteq Requests
    BY DEF Slots
  <1>5. /\ activeUploads = IF route.uploads THEN Cardinality(Slots) ELSE 0
        /\ activeUploads \in 0 .. MAX_CONCURRENT_UPLOADS
        /\ MAX_CONCURRENT_UPLOADS \in Nat
    BY ApiRoutesAssumption DEF IInv, SlotsAreCounted, Slots, Types
  <1>6. /\ activeUploads' = IF route.uploads THEN Cardinality(Slots') ELSE 0
        /\ activeUploads' \in 0 .. MAX_CONCURRENT_UPLOADS
    <2>1. CASE SlotStays(r)
      <3>1. Slots' = Slots
        BY <1>2, <1>3, <1>4, <2>1 DEF SlotStays
      <3>2. QED BY <1>5, <2>1, <3>1 DEF SlotStays
    <2>2. CASE SlotTaken(r)
      <3>1. Slots' = Slots \cup {r}
        BY <1>2, <1>3, <1>4, <2>2 DEF SlotTaken
      <3>2. Cardinality(Slots') = Cardinality(Slots) + 1
        BY <1>2, <2>2, <3>1, FS_AddElement DEF SlotTaken
      <3>3. QED BY <1>2, <1>5, <2>2, <3>2 DEF SlotTaken, SlotFree, TakeSlot
    <2>3. CASE SlotGivenBack(r)
      <3>1. Slots' = Slots \ {r} /\ r \in Slots
        BY <1>2, <1>3, <1>4, <2>3 DEF SlotGivenBack
      <3>2. Cardinality(Slots') = Cardinality(Slots) - 1 /\ Cardinality(Slots') \in Nat
        <4>1. IsFiniteSet(Slots') /\ Cardinality(Slots') = Cardinality(Slots) - 1
          BY <1>2, <3>1, FS_RemoveElement
        <4>2. QED BY <4>1, FS_CardinalityType
      <3>3. QED BY <1>2, <1>5, <2>3, <3>2 DEF SlotGivenBack, Release
    <2>4. QED BY <2>1, <2>2, <2>3 DEF Good
  <1>7. SlotsAreCounted'
    BY <1>5, <1>6 DEF SlotsAreCounted, Slots, Good
  <1>8. Types'
    BY <1>6 DEF Good, OtherTypes, Types
  <1>9. QED BY <1>1, <1>7, <1>8 DEF IInv

-----------------------------------------------------------------------------
(* The answers. *)

(* What a step may do to the answer of its request, and does to no other.   *)
AnswerStep(r) ==
  /\ answer' = [d \in Requests |-> answer'[d]]
  /\ timer' \in [Requests -> NoTicks .. VideoTimer]
  /\ \A d \in Requests \ {r} : answer'[d] = answer[d]
  /\ Proper(r)'
  /\ Sent(r) # 0 => Sent(r)' = Sent(r)

LEMMA SilenceIsFine ==
  ASSUME IInv, NEW r \in Requests, UNCHANGED <<sdk, answer, timer>>
  PROVE  AnswerStep(r)
  BY DEF IInv, Types, Sound, AnswerStep, Proper, AnswerType, HandedOver, Ends200, Sent

LEMMA DeliverIsFine ==
  ASSUME IInv, NEW r \in Requests, NEW a, Deliver(r, a), UNCHANGED sdk, Sent(r) = 0,
         a \in AnswerType, ~a.held,
         a.of # NoQuestion => a.code \in Ends200(r),
         a.code = 200 => a.of # NoQuestion
  PROVE  AnswerStep(r) /\ answer'[r] = a
  <1>1. /\ answer = [d \in Requests |-> answer[d]]
        /\ timer \in [Requests -> NoTicks .. VideoTimer]
        /\ NoTicks \in NoTicks .. VideoTimer
    BY DEF IInv, Types, NoTicks, VideoTimer
  <1>2. /\ answer' = [answer EXCEPT ![r] = a]
        /\ timer' = [timer EXCEPT ![r] = NoTicks]
    BY DEF Deliver
  <1>3. /\ answer' = [d \in Requests |-> answer'[d]] /\ answer'[r] = a
        /\ timer' \in [Requests -> NoTicks .. VideoTimer]
        /\ \A d \in Requests \ {r} : answer'[d] = answer[d]
    BY <1>1, <1>2
  <1>4. Proper(r)'
    BY <1>3 DEF Proper, HandedOver, Ends200, AnswerType
  <1>5. QED BY <1>3, <1>4 DEF AnswerStep

(* What handlers and timers send: data, or an error without any.            *)
Sendable(a) ==
  /\ a \in AnswerType /\ ~a.held /\ a.code # 0
  /\ a.of # NoQuestion <=> a.code = 200

LEMMA FailureIsSendable ==
  ASSUME route \in Routes, NEW reply, NEW status
  PROVE  Sendable(FailureAnswer(reply, status)) /\ FailureAnswer(reply, status).code # 200
  <1>1. route.passed \subseteq {400, 404}
    BY RoutesAssumption
  <1>2. CASE reply \in route.tooSlow
    BY <1>2 DEF FailureAnswer, Reply, Sendable, AnswerType, Codes
  <1>3. CASE reply \notin route.tooSlow /\ status \in route.passed
    BY <1>1, <1>3 DEF FailureAnswer, Reply, Sendable, AnswerType, Codes
  <1>4. CASE reply \notin route.tooSlow /\ status \notin route.passed
    BY <1>4 DEF FailureAnswer, Reply, Sendable, AnswerType, Codes
  <1>5. QED BY <1>2, <1>3, <1>4

LEMMA DataAreSendable ==
  ASSUME NEW q \in Question, NEW age \in Int
  PROVE  Sendable(Data(q, age)) /\ Data(q, age).code = 200
  BY ApiRoutesAssumption DEF Data, Sendable, AnswerType, Codes

LEMMA SendIsFine ==
  ASSUME IInv, NEW r \in Requests, NEW a, Sendable(a), Send(r, a), UNCHANGED sdk
  PROVE  /\ AnswerStep(r)
         /\ answer'[r].code = IF answer[r].code = 0 THEN a.code ELSE answer[r].code
         /\ HandedOver(r)' <=> HandedOver(r) \/ (answer[r].code = 0 /\ a.code = 200)
  <1>1. /\ answer = [d \in Requests |-> answer[d]]
        /\ timer \in [Requests -> NoTicks .. VideoTimer]
        /\ Proper(r)
    BY DEF IInv, Types, Sound
  <1>2. CASE answer[r].code # 0
    <2>1. UNCHANGED <<answer, timer>>
      BY <1>2 DEF Send
    <2>2. QED BY <1>2, <2>1, SilenceIsFine DEF HandedOver
  <1>3. CASE answer[r].code = 0
    <2>1. ~HandedOver(r) /\ Sent(r) = 0
      BY <1>1, <1>3 DEF Proper, Ends200, Sent
    <2>2. CASE r \in sdk /\ a.code < 400
      <3> DEFINE b == [a EXCEPT !.held = TRUE]
      <3>1. answer' = [answer EXCEPT ![r] = b] /\ timer' = timer
        BY <1>3, <2>2 DEF Send
      <3>2. a.code = 200
        BY <2>2 DEF Sendable, AnswerType, Codes
      <3>3. /\ b \in AnswerType /\ b.held /\ b.code = 200 /\ b.of = a.of /\ b.of # NoQuestion
        BY <3>2 DEF Sendable, AnswerType
      <3>4. /\ answer' = [d \in Requests |-> answer'[d]] /\ answer'[r] = b
            /\ \A d \in Requests \ {r} : answer'[d] = answer[d]
        BY <1>1, <3>1
      <3> HIDE DEF b
      <3>5. Proper(r)' /\ HandedOver(r)'
        BY <2>2, <3>3, <3>4 DEF Proper, HandedOver, Ends200, AnswerType
      <3>6. AnswerStep(r)
        BY <1>1, <2>1, <3>1, <3>4, <3>5 DEF AnswerStep
      <3>7. QED BY <1>3, <3>2, <3>3, <3>4, <3>5, <3>6
    <2>3. CASE ~(r \in sdk /\ a.code < 400)
      <3>1. Deliver(r, a)
        BY <1>3, <2>3 DEF Send
      <3>2. a.of # NoQuestion => a.code \in Ends200(r)
        BY DEF Sendable, Ends200
      <3>3. AnswerStep(r) /\ answer'[r] = a
        BY <2>1, <3>1, <3>2, DeliverIsFine DEF Sendable
      <3>4. QED BY <1>3, <2>1, <3>3 DEF HandedOver, Sendable
    <2>4. QED BY <2>2, <2>3
  <1>4. QED BY <1>2, <1>3

(* The row of a handler that ends, if it writes one.                        *)
RightRow(r) ==
  \/ logged' = logged /\ stage[r] # "calling"
  \/ \E status \in Nat :
       /\ Log(r, status)
       /\ status = 0 => stage[r] # "calling"
       /\ answer'[r].code # 499 => (status = 200 <=> HandedOver(r)')

(* The end of a handler, logged or not.                                     *)
LEMMA OverIsGood ==
  ASSUME IInv, NEW r \in Requests, stage[r] \in {"before", "checking", "calling"},
         AnswerStep(r), RightRow(r),
         stage' = [stage EXCEPT ![r] = "over"],
         limit' \in [Requests -> NoTicks .. 4 \cup {Never}],
         UNCHANGED <<route, configured, sdk, question, attempt, providerIndex>>,
         IF r \in Slots THEN Release ELSE activeUploads' = activeUploads
  PROVE  Good(r)
  <1> USE DEF IInv
  <1>1. /\ answer' = [d \in Requests |-> answer'[d]]
        /\ timer' \in [Requests -> NoTicks .. VideoTimer]
        /\ \A d \in Requests \ {r} : answer'[d] = answer[d]
        /\ Proper(r)'
        /\ Sent(r) # 0 => Sent(r)' = Sent(r)
    BY DEF AnswerStep
  <1>2. logged[r] = <<>> /\ Sound(r)
    BY DEF Sound
  <1>3. /\ logged' \in [Requests -> OneRow]
        /\ \A d \in Requests \ {r} : logged'[d] = logged[d]
        /\ \/ logged'[r] = <<>> /\ (stage[r] = "calling" => ~route.logged)
           \/ \E status \in Nat :
                /\ logged'[r] = <<status>> /\ route.logged
                /\ status = 0 => stage[r] # "calling"
                /\ answer'[r].code # 499 => (status = 200 <=> HandedOver(r)')
    <2>1. CASE logged' = logged /\ stage[r] # "calling"
      BY <1>2, <2>1 DEF Types
    <2>2. ASSUME NEW status \in Nat, Log(r, status)
          PROVE  /\ logged' \in [Requests -> OneRow]
                 /\ \A d \in Requests \ {r} : logged'[d] = logged[d]
                 /\ \/ logged'[r] = <<>> /\ ~route.logged
                    \/ logged'[r] = <<status>> /\ route.logged
      <3>1. logged' = [logged EXCEPT ![r] = IF route.logged THEN <<status>> ELSE <<>>]
        BY <1>2, <2>2 DEF Log, Types
      <3>2. <<status>> \in OneRow /\ <<>> \in OneRow
        BY DEF OneRow
      <3>3. QED BY <3>1, <3>2 DEF Types
    <2>3. QED BY <2>1, <2>2 DEF RightRow
  <1>4. /\ stage' \in [Requests -> Stages] /\ stage'[r] = "over"
        /\ \A d \in Requests \ {r} : stage'[d] = stage[d]
    BY DEF Types, Stages
  <1>5. OtherTypes'
    BY <1>1, <1>3, <1>4 DEF Types, OtherTypes
  <1>6. OthersRest(r)
    BY <1>1, <1>3, <1>4 DEF OthersRest
  <1>7. Called(r)' <=> stage[r] = "calling"
    BY <1>2 DEF Called, Sound, Types
  <1>8. LogMatches(r)'
    <2>1. CASE logged'[r] = <<>>
      BY <2>1 DEF LogMatches
    <2>2. ASSUME NEW status \in Nat, logged'[r] = <<status>>,
                 status = 0 => stage[r] # "calling",
                 answer'[r].code # 499 => (status = 200 <=> HandedOver(r)')
          PROVE  LogMatches(r)'
      <3>1. (logged'[r] = <<200>> <=> status = 200) /\ (logged'[r] = <<0>> <=> status = 0)
        BY <2>2
      <3>2. QED BY <1>7, <2>2, <3>1 DEF LogMatches
    <2>3. QED BY <1>3, <2>1, <2>2
  <1>9. Sound(r)'
    BY <1>1, <1>4, <1>8 DEF Sound
  <1>10. Ends(r)
    <2>1. Rows(r) = 0
      BY <1>2 DEF Rows
    <2>2. /\ HandlerStage(r)' = "over"
          /\ HandlerStage(r) = IF stage[r] = "calling" THEN "upstream" ELSE "before"
      BY <1>4 DEF HandlerStage
    <2>3. Rows(r)' \in {0, 1} /\ (stage[r] = "calling" => Rows(r)' = 1)
      <3>1. CASE route.logged
        <4>1. logged'[r] = <<>> \/ \E status \in Nat : logged'[r] = <<status>>
          BY <1>3
        <4>2. Len(<<>>) = 0 /\ \A status \in Nat : Len(<<status>>) = 1
          OBVIOUS
        <4>3. QED BY <1>3, <3>1, <4>1, <4>2 DEF Rows
      <3>2. CASE ~route.logged
        BY <1>4, <1>7, <3>2 DEF Rows
      <3>3. QED BY <3>1, <3>2
    <2>4. QED BY <1>1, <2>1, <2>2, <2>3 DEF Ends
  <1>11. SlotStays(r) \/ SlotGivenBack(r)
    BY <1>4 DEF SlotStays, SlotGivenBack, Slots
  <1>12. QED BY <1>5, <1>6, <1>9, <1>10, <1>11 DEF Good

LEMMA FailIsGood ==
  ASSUME IInv, NEW r \in Requests, stage[r] \in {"before", "checking", "calling"},
         NEW reply, NEW status \in Nat \ {200}, status = 0 => stage[r] # "calling",
         Fail(r, reply, status),
         UNCHANGED <<route, configured, sdk, question, attempt, providerIndex>>,
         IF r \in Slots THEN Release ELSE activeUploads' = activeUploads
  PROVE  Good(r)
  <1> DEFINE a == FailureAnswer(reply, status)
  <1>1. Sendable(a) /\ a.code # 200
    BY FailureIsSendable DEF IInv, Types
  <1>2. /\ Send(r, a) /\ Log(r, status)
        /\ stage' = [stage EXCEPT ![r] = "over"]
        /\ limit' = [limit EXCEPT ![r] = NoTicks]
    BY DEF Fail, Done
  <1>3. limit' \in [Requests -> NoTicks .. 4 \cup {Never}]
    BY <1>2 DEF IInv, Types, NoTicks
  <1> HIDE DEF a
  <1>4. AnswerStep(r) /\ ~HandedOver(r)'
    BY <1>1, <1>2, SendIsFine DEF IInv, Sound
  <1>5. RightRow(r)
    BY <1>2, <1>4 DEF RightRow
  <1>6. QED BY <1>2, <1>3, <1>4, <1>5, OverIsGood

(* A handler that ends without a row, before its upstream is called.        *)
LEMMA ReturnIsGood ==
  ASSUME IInv, NEW r \in Requests, stage[r] = "before", Return(r), AnswerStep(r),
         UNCHANGED <<route, configured, sdk, question, attempt, activeUploads, providerIndex>>
  PROVE  Good(r)
  <1>1. RightRow(r) /\ r \notin Slots
    BY DEF RightRow, Return, Slots
  <1>2. stage' = [stage EXCEPT ![r] = "over"] /\ limit' \in [Requests -> NoTicks .. 4 \cup {Never}]
    BY DEF Return, IInv, Types
  <1>3. QED BY <1>1, <1>2, OverIsGood

(* An attempt starts, the first one or another.                             *)
LEMMA AttemptIsGood ==
  ASSUME IInv, NEW r \in Requests, stage[r] \in {"before", "checking", "calling", "backoff"},
         NEW n \in 1 .. 4, Attempt(r, n),
         UNCHANGED <<route, configured, sdk, question, timer, answer, logged>>,
         IF r \in Slots THEN activeUploads' = activeUploads ELSE SlotFree /\ TakeSlot
  PROVE  Good(r)
  <1> USE DEF IInv
  <1>1. /\ stage' = [stage EXCEPT ![r] = "calling"]
        /\ attempt' = [attempt EXCEPT ![r] = n]
        /\ limit' = [limit EXCEPT ![r] = route.upstream.limit]
    BY DEF Attempt
  <1>2. /\ stage' \in [Requests -> Stages] /\ stage'[r] = "calling"
        /\ attempt' \in [Requests -> 0 .. 4] /\ attempt'[r] = n
        /\ \A d \in Requests \ {r} : stage'[d] = stage[d] /\ attempt'[d] = attempt[d]
    BY <1>1 DEF Types, Stages
  <1>3. limit' \in [Requests -> NoTicks .. 4 \cup {Never}]
    <2>1. route.upstream.limit \in NoTicks .. 4 \cup {Never}
      BY RoutesAssumption DEF Types, NoTicks
    <2>2. QED BY <1>1, <2>1 DEF Types
  <1>4. providerIndex' \in Endpoints
    <2>1. Cardinality(Endpoints) = 3
      <3>1. 0 \in Int /\ 2 \in Int
        OBVIOUS
      <3>2. Cardinality(0 .. 2) = IF 0 > 2 THEN 0 ELSE 2 - 0 + 1
        BY <3>1, FS_Interval, Zenon
      <3>3. QED BY <3>2 DEF Endpoints
    <2>2. NextEndpoint \in Endpoints
      BY <2>1 DEF NextEndpoint, Endpoints, Types
    <2>3. QED BY <2>2 DEF Attempt, Types
  <1>5. OtherTypes' /\ OthersRest(r)
    BY <1>2, <1>3, <1>4 DEF Types, OtherTypes, OthersRest
  <1>6. Sound(r)'
    <2>1. Proper(r)' /\ ~HandedOver(r)'
      BY SilenceIsFine DEF AnswerStep, Sound, HandedOver
    <2>2. QED BY <1>2, <2>1 DEF Sound, LogMatches
  <1>7. Rests(r) \/ CallsUpstream(r)
    BY <1>2 DEF Rests, CallsUpstream, HandlerStage, Sent, Rows
  <1>8. SlotStays(r) \/ SlotTaken(r)
    BY <1>2 DEF SlotStays, SlotTaken, Slots
  <1>9. QED BY <1>5, <1>6, <1>7, <1>8 DEF Good

(* A step of the handler that neither calls, nor answers, nor ends.         *)
LEMMA MoveIsGood ==
  ASSUME IInv, NEW r \in Requests, NEW s \in Stages, stage' = [stage EXCEPT ![r] = s],
         \/ stage[r] \in {"idle", "before", "checking"} /\ s \in {"before", "checking"}
         \/ stage[r] = "calling" /\ s \in {"calling", "backoff"},
         s = "backoff" => attempt[r] < route.upstream.tries,
         s = "checking" => route.dns # "never",
         OtherTypes', UNCHANGED <<route, sdk, attempt, answer, logged>>,
         SlotStays(r) \/ SlotTaken(r)
  PROVE  Good(r)
  <1> USE DEF IInv
  <1>1. stage'[r] = s /\ \A d \in Requests \ {r} : stage'[d] = stage[d]
    BY DEF Types
  <1>2. OthersRest(r)
    BY <1>1 DEF OthersRest
  <1>3. Sound(r)'
    <2>1. Proper(r)' /\ ~HandedOver(r)'
      BY DEF Sound, Proper, AnswerType, HandedOver, Ends200
    <2>2. QED BY <1>1, <2>1 DEF Sound, LogMatches
  <1>4. Rests(r)
    BY <1>1 DEF Rests, HandlerStage, Sent, Rows
  <1>5. QED BY <1>2, <1>3, <1>4 DEF Good

(* Only the answer changes: the handler goes on, or is over.                *)
LEMMA AnswerIsGood ==
  ASSUME IInv, NEW r \in Requests, AnswerStep(r),
         answer'[r].code # 499 => (HandedOver(r)' <=> HandedOver(r)),
         UNCHANGED <<route, configured, sdk, question, stage, attempt, limit, logged,
                     activeUploads, providerIndex>>
  PROVE  Good(r)
  <1> USE DEF IInv
  <1>1. /\ answer' = [d \in Requests |-> answer'[d]]
        /\ timer' \in [Requests -> NoTicks .. VideoTimer]
        /\ \A d \in Requests \ {r} : answer'[d] = answer[d]
        /\ Proper(r)'
        /\ Sent(r) # 0 => Sent(r)' = Sent(r)
    BY DEF AnswerStep
  <1>2. OtherTypes' /\ OthersRest(r)
    BY <1>1 DEF Types, OtherTypes, OthersRest
  <1>3. Sound(r) /\ Proper(r)
    BY DEF Sound
  <1>4. ~HandedOver(r) => ~HandedOver(r)'
    BY <1>1 DEF Proper, Ends200
  <1>5. answer[r].code = 499 => answer'[r].code = 499
    BY <1>1, <1>3 DEF Proper, Sent
  <1>6. LogMatches(r)'
    BY <1>3, <1>5 DEF Sound, LogMatches, Called
  <1>7. Sound(r)'
    BY <1>1, <1>3, <1>4, <1>6 DEF Sound
  <1>8. Rests(r) \/ Answers(r)
    <2>1. HandlerStage(r)' = HandlerStage(r) /\ Rows(r)' = Rows(r)
      BY DEF HandlerStage, Rows, Called
    <2>2. QED BY <1>1, <2>1 DEF Rests, Answers
  <1>9. SlotStays(r)
    BY DEF SlotStays, Slots
  <1>10. QED BY <1>2, <1>7, <1>8, <1>9 DEF Good

-----------------------------------------------------------------------------
(* The actions. *)

LEMMA NoTicksIsFine ==
  ASSUME IInv, NEW r \in Requests, limit' = limit \/ limit' = [limit EXCEPT ![r] = NoTicks]
  PROVE  limit' \in [Requests -> NoTicks .. 4 \cup {Never}]
  BY DEF IInv, Types, NoTicks

LEMMA CallIsGood ==
  ASSUME IInv, NEW r \in Requests, stage[r] \in {"before", "checking"}, Call(r),
         UNCHANGED <<route, configured, sdk, question>>,
         IF stage'[r] = "calling"
         THEN IF r \in Slots THEN activeUploads' = activeUploads ELSE SlotFree /\ TakeSlot
         ELSE IF r \in Slots THEN Release ELSE activeUploads' = activeUploads
  PROVE  Good(r)
  <1>1. stage \in [Requests -> Stages] /\ route \in Routes
    BY DEF IInv, Types
  <1>2. CASE configured \/ route.upstream.unset = 0
    <2>1. Attempt(r, 1) /\ UNCHANGED <<timer, answer, logged>>
      BY <1>2 DEF Call
    <2>2. stage'[r] = "calling"
      BY <1>1, <2>1 DEF Attempt
    <2>3. QED BY <2>1, <2>2, AttemptIsGood
  <1>3. CASE ~(configured \/ route.upstream.unset = 0)
    <2>1. /\ Fail(r, "unset", route.upstream.unset)
          /\ UNCHANGED <<attempt, providerIndex>>
      BY <1>3 DEF Call
    <2>2. stage'[r] = "over"
      BY <1>1, <2>1 DEF Fail, Done
    <2>3. route.upstream.unset \in Nat \ {200}
      BY <1>1, RoutesAssumption
    <2>4. QED BY <2>1, <2>2, <2>3, FailIsGood
  <1>4. QED BY <1>2, <1>3

LEMMA RefusedIsGood ==
  ASSUME IInv, NEW r \in Requests, stage[r] \in {"before", "checking"}, Refused(r),
         UNCHANGED <<route, configured, sdk, question, attempt, providerIndex>>,
         IF r \in Slots THEN Release ELSE activeUploads' = activeUploads
  PROVE  Good(r)
  <1> DEFINE a == Reply(400, FALSE)
  <1>1. Sendable(a) /\ a.code # 200
    BY DEF Reply, Sendable, AnswerType, Codes
  <1>2. Send(r, a) /\ stage' = [stage EXCEPT ![r] = "over"]
    BY DEF Refused, Done, Return
  <1>3. \/ limit' = [limit EXCEPT ![r] = NoTicks]
        \/ limit' = limit
    BY DEF Refused, Done, Return
  <1>4. \/ logged' = logged
        \/ \E status \in Nat \ {200} : Log(r, status)
    BY DEF Refused, Done, Return
  <1> HIDE DEF a
  <1>5. AnswerStep(r) /\ ~HandedOver(r)'
    BY <1>1, <1>2, SendIsFine DEF IInv, Sound
  <1>6. RightRow(r)
    BY <1>4, <1>5 DEF RightRow
  <1>7. limit' \in [Requests -> NoTicks .. 4 \cup {Never}]
    BY <1>3, NoTicksIsFine
  <1>8. stage[r] \in {"before", "checking", "calling"}
    OBVIOUS
  <1>9. QED BY <1>2, <1>5, <1>6, <1>7, <1>8, OverIsGood

LEMMA HandleIsGood ==
  ASSUME IInv, CInv, NEW r \in Requests, Handle(r)
  PROVE  Good(r)
  <1>1. /\ stage[r] = "before" /\ r \notin Slots /\ ~HandedOver(r)
        /\ UNCHANGED <<route, configured, sdk, question>>
    BY DEF Handle, NoSlot, Refuse, Throw, CacheHit, CheckUrl, StartCall, Slots, IInv, Sound
  <1>2. CASE NoSlot(r)
    <2> DEFINE a == Reply(503, FALSE)
    <2>1. Sendable(a)
      BY DEF Reply, Sendable, AnswerType, Codes
    <2>2. Send(r, a)
      BY <1>2 DEF NoSlot
    <2> HIDE DEF a
    <2>3. AnswerStep(r)
      BY <1>1, <2>1, <2>2, SendIsFine
    <2>4. QED BY <1>1, <1>2, <2>3, ReturnIsGood DEF NoSlot
  <1>3. CASE Refuse(r)
    BY <1>1, <1>3, RefusedIsGood DEF Refuse
  <1>4. CASE Throw(r)
    <2>1. UNCHANGED <<attempt, activeUploads, providerIndex>>
      BY <1>4 DEF Throw
    <2>2. CASE route.inTry
      <3>1. Fail(r, "malformed", 500)
        BY <1>4, <2>2 DEF Throw
      <3>2. QED BY <1>1, <2>1, <3>1, FailIsGood
    <2>3. CASE ~route.inTry
      <3>1. Return(r) /\ UNCHANGED <<timer, answer>>
        BY <1>4, <2>3 DEF Throw
      <3>2. AnswerStep(r)
        BY <1>1, <3>1, SilenceIsFine
      <3>3. QED BY <1>1, <2>1, <3>1, <3>2, ReturnIsGood
    <2>4. QED BY <2>2, <2>3
  <1>5. CASE CacheHit(r)
    <2> DEFINE a == Data(Cached(r).of, fetched[Cached(r).of])
    <2>1. Cached(r).of \in Question /\ fetched[Cached(r).of] \in Int
      BY <1>5, KeyIsKept DEF CacheHit, Cached, CInv, EntryIsRight, IInv, Types
    <2>2. Sendable(a)
      BY <2>1, DataAreSendable
    <2>3. Send(r, a)
      BY <1>5 DEF CacheHit
    <2> HIDE DEF a
    <2>4. AnswerStep(r)
      BY <1>1, <2>2, <2>3, SendIsFine
    <2>5. QED BY <1>1, <1>5, <2>4, ReturnIsGood DEF CacheHit
  <1>6. CASE CheckUrl(r)
    <2>1. stage' = [stage EXCEPT ![r] = "checking"] /\ "checking" \in Stages
      BY <1>6 DEF CheckUrl, Stages
    <2>2. OtherTypes'
      BY <1>6, <2>1 DEF CheckUrl, IInv, Types, OtherTypes
    <2>3. SlotTaken(r)
      BY <1>1, <1>6, <2>1 DEF CheckUrl, SlotTaken, Slots, IInv, Types
    <2>4. QED BY <1>1, <1>6, <2>1, <2>2, <2>3, MoveIsGood DEF CheckUrl
  <1>7. CASE StartCall(r)
    BY <1>1, <1>7, CallIsGood DEF StartCall
  <1>8. QED BY <1>2, <1>3, <1>4, <1>5, <1>6, <1>7 DEF Handle

LEMMA CheckIsGood ==
  ASSUME IInv, NEW r \in Requests, Check(r)
  PROVE  Good(r)
  <1>1. stage[r] = "checking" /\ r \in Slots /\ UNCHANGED <<route, configured, sdk, question>>
    BY DEF Check, UrlRefused, UrlAccepted, Slots
  <1>2. CASE UrlRefused(r)
    BY <1>1, <1>2, RefusedIsGood DEF UrlRefused
  <1>3. CASE UrlAccepted(r)
    BY <1>1, <1>3, CallIsGood DEF UrlAccepted
  <1>4. QED BY <1>2, <1>3 DEF Check

LEMMA ReplyIsGood ==
  ASSUME IInv, NEW r \in Requests, UpstreamReplies(r)
  PROVE  Good(r)
  <1> USE DEF IInv
  <1>1. PICK reply \in DOMAIN route.upstream.status : Outcome(r, reply)
    BY DEF UpstreamReplies
  <1>2. /\ stage[r] = "calling" /\ r \in Slots /\ route \in Routes
        /\ UNCHANGED <<route, configured, sdk, question>>
    BY DEF UpstreamReplies, Slots, Types
  <1>3. CASE Again(r, reply)
    <2>1. attempt[r] \in 0 .. 4 /\ attempt[r] < route.upstream.tries /\ route.upstream.tries \in 1 .. 4
      BY <1>2, <1>3, RoutesAssumption DEF Again, Types
    <2>2. UNCHANGED <<timer, answer, logged, activeUploads>>
      BY <1>1, <1>3 DEF Outcome
    <2>3. CASE route.upstream.pause
      <3>1. /\ stage' = [stage EXCEPT ![r] = "backoff"] /\ "backoff" \in Stages
            /\ limit' = [limit EXCEPT ![r] = NoTicks]
            /\ UNCHANGED <<attempt, providerIndex>>
        BY <1>1, <1>3, <2>3 DEF Outcome, Stages
      <3>2. OtherTypes'
        BY <1>2, <2>2, <3>1, NoTicksIsFine DEF Types, OtherTypes
      <3>3. SlotStays(r)
        BY <1>2, <2>2, <3>1 DEF SlotStays, Slots, Types
      <3>4. QED BY <1>2, <2>1, <2>2, <3>1, <3>2, <3>3, MoveIsGood
    <2>4. CASE ~route.upstream.pause
      <3>1. Attempt(r, attempt[r] + 1) /\ attempt[r] + 1 \in 1 .. 4
        BY <1>1, <1>3, <2>1, <2>4 DEF Outcome
      <3>2. QED BY <1>2, <2>2, <3>1, AttemptIsGood
    <2>5. QED BY <2>3, <2>4
  <1>4. CASE ~Again(r, reply)
    <2>1. Release /\ UNCHANGED <<attempt, providerIndex>>
      BY <1>1, <1>4 DEF Outcome
    <2>2. CASE reply = "ok"
      <3> DEFINE a == Data(question[r], 0)
                 status == IF HeadersSent(r) THEN 500 ELSE 200
      <3>1. Sendable(a) /\ a.code = 200
        BY DataAreSendable DEF Types
      <3>2. /\ Send(r, a) /\ Log(r, status)
            /\ stage' = [stage EXCEPT ![r] = "over"] /\ limit' = [limit EXCEPT ![r] = NoTicks]
        BY <1>1, <1>4, <2>2 DEF Outcome, Succeed, Done
      <3>3. /\ status \in Nat /\ status # 0
            /\ answer[r].code # 499 => (status = 200 <=> answer[r].code = 0)
        BY <1>2 DEF HeadersSent, Sound, Proper, AnswerType
      <3> HIDE DEF a, status
      <3>4. /\ AnswerStep(r)
            /\ answer[r].code = 499 => answer'[r].code = 499
            /\ HandedOver(r)' <=> answer[r].code = 0
        BY <1>2, <3>1, <3>2, SendIsFine DEF Sound
      <3>5. RightRow(r)
        BY <3>2, <3>3, <3>4 DEF RightRow
      <3>6. limit' \in [Requests -> NoTicks .. 4 \cup {Never}]
        BY <3>2, NoTicksIsFine
      <3>7. QED BY <1>2, <2>1, <3>2, <3>4, <3>5, <3>6, OverIsGood
    <2>3. CASE reply # "ok"
      <3>1. Fail(r, reply, route.upstream.status[reply])
        BY <1>1, <1>4, <2>3 DEF Outcome
      <3>2. route.upstream.status[reply] \in Nat \ {0, 200}
        BY <1>2, <2>3, RoutesAssumption
      <3>3. QED BY <1>2, <2>1, <3>1, <3>2, FailIsGood
    <2>4. QED BY <2>2, <2>3
  <1>5. QED BY <1>3, <1>4

LEMMA OthersAreGood ==
  ASSUME IInv, NEW r \in Requests,
         \/ Arrive(r) \/ HeadersArrive(r) \/ BackoffEnds(r)
         \/ RequestTimeout(r) \/ SdkSettles(r) \/ Disconnect(r)
  PROVE  Good(r)
  <1> USE DEF IInv
  <1>1. CASE Arrive(r)
    <2>1. /\ stage[r] = "idle" /\ stage' = [stage EXCEPT ![r] = "before"] /\ "before" \in Stages
          /\ timer' = [timer EXCEPT ![r] = route.timer]
          /\ UNCHANGED <<route, configured, sdk, question, attempt, limit, answer, logged,
                         activeUploads, providerIndex>>
      BY <1>1 DEF Arrive, Stages
    <2>2. route.timer \in NoTicks .. VideoTimer
      BY RoutesAssumption DEF Types, NoTicks, VideoTimer
    <2>3. OtherTypes'
      BY <2>1, <2>2 DEF Types, OtherTypes
    <2>4. SlotStays(r)
      BY <2>1 DEF SlotStays, Slots, Types
    <2>5. QED BY <2>1, <2>3, <2>4, MoveIsGood
  <1>2. CASE HeadersArrive(r)
    <2>1. /\ stage[r] = "calling" /\ stage' = [stage EXCEPT ![r] = "calling"]
          /\ "calling" \in Stages /\ stage' = stage
          /\ limit' = [limit EXCEPT ![r] = Never]
          /\ UNCHANGED <<route, configured, sdk, question, timer, attempt, answer, logged,
                         activeUploads, providerIndex>>
      BY <1>2 DEF HeadersArrive, Types, Stages
    <2>2. OtherTypes'
      BY <2>1 DEF Types, OtherTypes
    <2>3. SlotStays(r)
      BY <2>1 DEF SlotStays, Slots
    <2>4. QED BY <2>1, <2>2, <2>3, MoveIsGood
  <1>3. CASE BackoffEnds(r)
    <2>1. /\ stage[r] = "backoff" /\ r \in Slots /\ Attempt(r, attempt[r] + 1)
          /\ UNCHANGED <<route, configured, sdk, question, timer, answer, logged, activeUploads>>
      BY <1>3 DEF BackoffEnds, Slots
    <2>2. /\ attempt[r] \in 0 .. 4 /\ attempt[r] < route.upstream.tries
          /\ route.upstream.tries \in 1 .. 4
      BY <2>1, RoutesAssumption DEF Sound, Types
    <2>3. attempt[r] + 1 \in 1 .. 4
      BY <2>2
    <2>4. QED BY <2>1, <2>3, AttemptIsGood
  <1>4. Proper(r) /\ answer = [d \in Requests |-> answer[d]]
        /\ timer \in [Requests -> NoTicks .. VideoTimer]
    BY DEF Sound, Types
  <1>5. CASE RequestTimeout(r)
    <2>1. UNCHANGED <<route, configured, sdk, question, stage, attempt, limit, logged,
                      activeUploads, providerIndex>>
      BY <1>5, ZenonT(60) DEF RequestTimeout
    <2>2. CASE answer[r].held
      <3>1. timer' \in [Requests -> NoTicks .. VideoTimer]
        <4>1. timer' = [timer EXCEPT ![r] = NoTicks] /\ NoTicks \in NoTicks .. VideoTimer
          BY <1>5, <2>2 DEF RequestTimeout, NoTicks, VideoTimer
        <4>2. QED BY <1>4, <4>1
      <3>2. Sent(r) = 0 /\ r \in sdk /\ HandedOver(r)
        BY <1>4, <2>2 DEF Proper, Sent
      <3>3. CASE answer' = answer
        <4>1. AnswerStep(r)
          BY <1>4, <2>1, <3>1, <3>2, <3>3
             DEF AnswerStep, Proper, AnswerType, HandedOver, Ends200, Sent
        <4>2. QED BY <2>1, <3>3, <4>1, AnswerIsGood DEF HandedOver
      <3>4. CASE answer' = [answer EXCEPT ![r] = [@ EXCEPT !.code = 408, !.retryable = TRUE]]
        <4> DEFINE a == [answer[r] EXCEPT !.code = 408, !.retryable = TRUE]
        <4>1. /\ a \in AnswerType /\ a.held /\ a.code = 408
              /\ a.of = answer[r].of
          <5>1. answer[r] \in AnswerType /\ 408 \in Codes
            BY <1>4 DEF Proper, Codes
          <5>2. a \in AnswerType /\ a.code = 408 /\ a.of = answer[r].of
            BY <5>1 DEF AnswerType
          <5>3. a.held = answer[r].held
            BY <5>1 DEF AnswerType
          <5>4. QED BY <2>2, <5>2, <5>3
        <4>2. /\ answer' = [d \in Requests |-> answer'[d]] /\ answer'[r] = a
              /\ \A d \in Requests \ {r} : answer'[d] = answer[d]
          BY <1>4, <3>4
        <4> HIDE DEF a
        <4>3. Proper(r)' /\ HandedOver(r)'
          BY <2>1, <3>2, <4>1, <4>2 DEF Proper, HandedOver, Ends200, AnswerType
        <4>4. AnswerStep(r)
          BY <3>1, <3>2, <4>2, <4>3 DEF AnswerStep
        <4>5. QED BY <2>1, <3>2, <4>3, <4>4, AnswerIsGood
      <3>5. QED BY <1>5, <2>2, <3>3, <3>4 DEF RequestTimeout
    <2>3. CASE ~answer[r].held
      <3> DEFINE a == Reply(408, TRUE)
      <3>1. Sendable(a) /\ a.code # 200
        BY DEF Reply, Sendable, AnswerType, Codes
      <3>2. Send(r, a)
        BY <1>5, <2>3 DEF RequestTimeout
      <3> HIDE DEF a
      <3>3. AnswerStep(r) /\ (HandedOver(r)' <=> HandedOver(r))
        BY <2>1, <3>1, <3>2, SendIsFine
      <3>4. QED BY <2>1, <3>3, AnswerIsGood
    <2>4. QED BY <2>2, <2>3
  <1>6. CASE SdkSettles(r)
    <2>1. /\ answer[r].held
          /\ UNCHANGED <<route, configured, sdk, question, stage, attempt, limit, logged,
                         activeUploads, providerIndex>>
      BY <1>6, ZenonT(60) DEF SdkSettles
    <2>2. Sent(r) = 0 /\ r \in sdk /\ HandedOver(r)
      BY <1>4, <2>1 DEF Proper, Sent
    <2>3. ASSUME NEW a, Deliver(r, a), a \in AnswerType, ~a.held, a.of = answer[r].of,
                 a.code \in {200, 402, 408}
          PROVE  Good(r)
      <3>1. a.of # NoQuestion /\ a.code \in Ends200(r)
        BY <2>2, <2>3 DEF HandedOver, Ends200
      <3>2. AnswerStep(r) /\ answer'[r] = a
        BY <2>1, <2>2, <2>3, <3>1, DeliverIsFine
      <3>3. HandedOver(r)'
        BY <3>1, <3>2 DEF HandedOver
      <3>4. QED BY <2>1, <2>2, <3>2, <3>3, AnswerIsGood
    <2>4. CASE Deliver(r, [answer[r] EXCEPT !.held = FALSE])
      <3> DEFINE a == [answer[r] EXCEPT !.held = FALSE]
      <3>1. /\ a \in AnswerType /\ ~a.held /\ a.of = answer[r].of
            /\ a.code \in {200, 402, 408}
        <4> DEFINE held == answer[r]
        <4>1. held \in AnswerType /\ held.code \in {200, 408}
          BY <1>4, <2>1 DEF Proper
        <4>2. a = [held EXCEPT !.held = FALSE]
          OBVIOUS
        <4> HIDE DEF held, a
        <4>3. a \in AnswerType /\ a.of = held.of /\ a.code = held.code /\ a.held = FALSE
          BY <4>1, <4>2 DEF AnswerType
        <4>4. QED BY <4>1, <4>3 DEF held
      <3> HIDE DEF a
      <3>2. Deliver(r, a)
        BY <2>4 DEF a
      <3>3. QED BY <2>3, <3>1, <3>2
    <2>5. CASE Deliver(r, [Reply(402, FALSE) EXCEPT !.of = answer[r].of])
      <3> DEFINE a == [Reply(402, FALSE) EXCEPT !.of = answer[r].of]
      <3>1. /\ a \in AnswerType /\ ~a.held /\ a.of = answer[r].of
            /\ a.code \in {200, 402, 408}
        <4> DEFINE b == Reply(402, FALSE)
        <4>1. b \in AnswerType /\ ~b.held /\ b.code = 402
          BY DEF Reply, AnswerType, Codes
        <4>2. answer[r].of \in Question \cup {NoQuestion}
          BY <1>4 DEF Proper, AnswerType
        <4> HIDE DEF b
        <4>3. [b EXCEPT !.of = answer[r].of] \in AnswerType
          BY <4>1, <4>2 DEF AnswerType
        <4>4. /\ ~[b EXCEPT !.of = answer[r].of].held
              /\ [b EXCEPT !.of = answer[r].of].of = answer[r].of
              /\ [b EXCEPT !.of = answer[r].of].code = 402
          BY <4>1 DEF AnswerType
        <4>5. QED BY <4>3, <4>4 DEF b
      <3> HIDE DEF a
      <3>2. Deliver(r, a)
        BY <2>5 DEF a
      <3>3. QED BY <2>3, <3>1, <3>2
    <2>6. QED BY <1>6, <2>4, <2>5 DEF SdkSettles
  <1>7. CASE Disconnect(r)
    <2>1. /\ Deliver(r, Reply(499, FALSE))
          /\ UNCHANGED <<route, configured, sdk, question, stage, attempt, limit, logged,
                         activeUploads, providerIndex>>
      BY <1>7, ZenonT(60) DEF Disconnect
    <2>2. Sent(r) = 0
      BY <1>4, <1>7 DEF Disconnect, Sent
    <2> DEFINE a == Reply(499, FALSE)
    <2>3. a \in AnswerType /\ ~a.held /\ ~(a.of # NoQuestion) /\ a.code # 200 /\ a.code = 499
      BY DEF Reply, AnswerType, Codes
    <2>4. Deliver(r, a) /\ UNCHANGED sdk
      BY <2>1
    <2> HIDE DEF a
    <2>5. AnswerStep(r) /\ answer'[r] = a
      BY <2>2, <2>3, <2>4, DeliverIsFine
    <2>6. QED BY <2>1, <2>3, <2>5, AnswerIsGood
  <1>8. QED BY <1>1, <1>2, <1>3, <1>5, <1>6, <1>7

(* A tick moves the timers only. *)
LEMMA TickKeepsIInv ==
  ASSUME IInv, Tick
  PROVE  IInv'
  <1>1. UNCHANGED <<route, configured, sdk, question, stage, attempt, answer, logged,
                    activeUploads, providerIndex>>
    BY DEF Tick
  <1>2. timer' \in [Requests -> NoTicks .. VideoTimer]
    <2>1. \A r \in Requests : timer[r] \in NoTicks .. VideoTimer /\ timer[r] # 0
      BY DEF Tick, IInv, Types
    <2>2. \A r \in Requests : Less(timer[r]) \in NoTicks .. VideoTimer
      BY <2>1 DEF Less, NoTicks, VideoTimer, Never
    <2>3. QED BY <2>2 DEF Tick
  <1>3. limit' \in [Requests -> NoTicks .. 4 \cup {Never}]
    <2>1. \A r \in Requests : limit[r] \in NoTicks .. 4 \cup {Never} /\ limit[r] # 0
      BY DEF Tick, IInv, Types
    <2>2. \A r \in Requests : Less(limit[r]) \in NoTicks .. 4 \cup {Never}
      BY <2>1 DEF Less, NoTicks, Never
    <2>3. QED BY <2>2 DEF Tick
  <1>4. Types'
    BY <1>1, <1>2, <1>3 DEF IInv, Types
  <1>5. SlotsAreCounted' /\ \A r \in Requests : Sound(r)'
    BY <1>1 DEF IInv, SlotsAreCounted, Sound, LogMatches, Called, Proper, AnswerType, HandedOver, Ends200
  <1>6. QED BY <1>4, <1>5 DEF IInv

LEMMA StepIsGood ==
  ASSUME IInv, CInv, Next
  PROVE  Tick \/ \E r \in Requests : Good(r)
  BY HandleIsGood, CheckIsGood, ReplyIsGood, OthersAreGood DEF Next

-----------------------------------------------------------------------------
(* What a step does to the cache, and what it sends from it.                *)

IsFresh(r, a) ==
  a.code = 200 => a.of.key = question[r].key /\ a.age \in 0 .. route.ttl

(* What a step sends is fresh when each answer is.                          *)
LEMMA NewAnswerKeepsCInv ==
  ASSUME IInv, CInv, NEW r \in Requests, NEW a, IsFresh(r, a),
         answer' = answer \/ answer' = [answer EXCEPT ![r] = a],
         UNCHANGED <<route, question>>
  PROVE  /\ AnswersAreFresh'
         /\ UNCHANGED <<cache, fetched>> => CInv'
  <1>1. answer = [d \in Requests |-> answer[d]]
    BY DEF IInv, Types
  <1>2. ASSUME NEW d \in Requests, answer'[d].code = 200
        PROVE  /\ answer'[d].of.key = question[d].key
               /\ answer'[d].age \in 0 .. route.ttl
    <2>1. CASE answer'[d] = answer[d]
      BY <1>2, <2>1 DEF CInv, AnswersAreFresh
    <2>2. CASE answer'[d] # answer[d]
      <3>1. d = r /\ answer'[d] = a
        BY <1>1, <2>2
      <3>2. QED BY <1>2, <3>1 DEF IsFresh
    <2>3. QED BY <2>1, <2>2
  <1>3. AnswersAreFresh'
    BY <1>2 DEF AnswersAreFresh
  <1>4. QED BY <1>3 DEF CInv, EntryIsRight, KnownIsCached, CacheKey

LEMMA SendIsFresh ==
  ASSUME IInv, CInv, NEW r \in Requests, NEW a, Sendable(a), Send(r, a), IsFresh(r, a),
         UNCHANGED <<route, question>>
  PROVE  /\ AnswersAreFresh'
         /\ UNCHANGED <<cache, fetched>> => CInv'
  <1> DEFINE b == [a EXCEPT !.held = TRUE]
  <1>1. b.code = a.code /\ b.of = a.of /\ b.age = a.age
    BY DEF Sendable, AnswerType
  <1>2. \/ answer' = answer
        \/ answer' = [answer EXCEPT ![r] = a]
        \/ answer' = [answer EXCEPT ![r] = b]
    BY DEF Send, Deliver
  <1> HIDE DEF b
  <1>3. IsFresh(r, b)
    BY <1>1 DEF IsFresh
  <1>4. QED BY <1>2, <1>3, NewAnswerKeepsCInv

LEMMA SendKeepsCInv ==
  ASSUME IInv, CInv, NEW r \in Requests, NEW a, Sendable(a), Send(r, a), IsFresh(r, a),
         UNCHANGED <<route, question, cache, fetched>>
  PROVE  CInv'
  BY SendIsFresh

LEMMA SilenceKeepsCInv ==
  ASSUME CInv, UNCHANGED <<route, question, answer, cache, fetched>>
  PROVE  CInv'
  BY DEF CInv, EntryIsRight, KnownIsCached, CacheKey, AnswersAreFresh

LEMMA FailKeepsCInv ==
  ASSUME IInv, CInv, NEW r \in Requests, NEW reply, NEW status, Fail(r, reply, status),
         UNCHANGED <<route, question>>
  PROVE  CInv'
  <1> DEFINE a == FailureAnswer(reply, status)
  <1>1. Sendable(a) /\ a.code # 200
    BY FailureIsSendable DEF IInv, Types
  <1>2. Send(r, a) /\ UNCHANGED <<cache, fetched>>
    BY DEF Fail
  <1> HIDE DEF a
  <1>3. QED BY <1>1, <1>2, SendKeepsCInv DEF IsFresh

(* A result is stored and sent.                                             *)
LEMMA SucceedKeepsCInv ==
  ASSUME IInv, CInv, NEW r \in Requests, Succeed(r), UNCHANGED <<route, question>>
  PROVE  CInv'
  <1> DEFINE q == question[r]
             entry == [of |-> q, left |-> route.ttl]
  <1>1. q \in Question /\ route.ttl \in Nat
    BY RoutesAssumption DEF IInv, Types
  <1>2. AnswersAreFresh'
    <2>1. IsFresh(r, Data(q, 0)) /\ Send(r, Data(q, 0))
      BY <1>1 DEF IsFresh, Data, Succeed
    <2>2. Sendable(Data(q, 0))
      BY <1>1, DataAreSendable
    <2>3. QED BY <2>1, <2>2, SendIsFresh
  <1>3. CASE route.ttl = 0
    <2>1. UNCHANGED <<cache, fetched>>
      BY <1>3 DEF Succeed, Store
    <2>2. QED BY <1>2, <2>1 DEF CInv, EntryIsRight, KnownIsCached, CacheKey
  <1>4. CASE route.ttl # 0
    <2>1. /\ cache' = [cache EXCEPT ![CacheKey(q)] = entry]
          /\ fetched' = [fetched EXCEPT ![q] = 0]
      BY <1>4 DEF Succeed, Store
    <2>2. CacheKey(q) \in Question
      BY <1>1, KeyIsKept
    <2>3. entry.of = q /\ entry.left = route.ttl
      OBVIOUS
    <2>4. /\ cache' = [k \in Question |-> cache'[k]]
          /\ fetched' \in [Question -> Int] /\ fetched'[q] = 0
          /\ cache'[CacheKey(q)] = entry
          /\ \A k \in Question \ {CacheKey(q)} : cache'[k] = cache[k]
          /\ \A p \in Question \ {q} : fetched'[p] = fetched[p]
      BY <1>1, <2>1, <2>2 DEF CInv
    <2>5. ASSUME NEW k \in Question
          PROVE  EntryIsRight(k)'
      <3>1. CASE k = CacheKey(q)
        BY <1>1, <2>3, <2>4, <3>1 DEF EntryIsRight, CacheKey
      <3>2. CASE k # CacheKey(q)
        <4>1. cache'[k] = cache[k] /\ EntryIsRight(k)
          BY <2>4, <3>2 DEF CInv
        <4>2. CASE cache[k] = Nothing
          BY <4>1, <4>2 DEF EntryIsRight
        <4>3. CASE cache[k] # Nothing
          <5>1. /\ cache[k] = [of |-> cache[k].of, left |-> cache[k].left]
                /\ cache[k].of \in Question /\ cache[k].of # q
                /\ CacheKey(cache[k].of) = k
                /\ cache[k].left \in 0 .. route.ttl
                /\ fetched[cache[k].of] + cache[k].left = route.ttl
            BY <3>2, <4>1, <4>3 DEF EntryIsRight
          <5>2. fetched'[cache[k].of] = fetched[cache[k].of]
            BY <2>4, <5>1
          <5>3. CacheKey(cache[k].of)' = k
            BY <4>1, <5>1 DEF CacheKey
          <5>4. QED BY <4>1, <5>1, <5>2, <5>3 DEF EntryIsRight
        <4>4. QED BY <4>2, <4>3
      <3>3. QED BY <3>1, <3>2
    <2>6. ASSUME NEW p \in Question
          PROVE  KnownIsCached(p)'
      <3>1. /\ CacheKey(p)' = CacheKey(p) /\ CacheKey(p) \in Question
            /\ route'.ttl = route.ttl
        BY KeyIsKept DEF CacheKey
      <3>2. CASE CacheKey(p) = CacheKey(q)
        <4>1. /\ cache'[CacheKey(p)'] = entry /\ entry # Nothing
              /\ fetched'[cache'[CacheKey(p)'].of] = 0
          BY <1>1, <2>3, <2>4, <3>1, <3>2 DEF Nothing, NoTicks
        <4>2. QED BY <4>1 DEF KnownIsCached
      <3>3. CASE CacheKey(p) # CacheKey(q)
        <4>1. p # q /\ fetched'[p] = fetched[p] /\ cache'[CacheKey(p)'] = cache[CacheKey(p)]
          BY <2>4, <3>1, <3>3
        <4>2. CASE fetched[p] \notin 0 .. route.ttl
          BY <3>1, <4>1, <4>2 DEF KnownIsCached
        <4>3. CASE fetched[p] \in 0 .. route.ttl
          <5> DEFINE e == cache[CacheKey(p)].of
          <5>1. cache[CacheKey(p)] # Nothing /\ fetched[e] <= fetched[p]
            BY <4>3 DEF CInv, KnownIsCached
          <5>2. e \in Question /\ CacheKey(e) = CacheKey(p)
            BY <3>1, <5>1 DEF CInv, EntryIsRight
          <5>3. fetched'[e] = fetched[e]
            BY <2>4, <3>3, <5>2
          <5>4. cache'[CacheKey(p)'].of = e
            BY <4>1
          <5> HIDE DEF e
          <5>5. QED BY <4>1, <5>1, <5>3, <5>4 DEF KnownIsCached
        <4>4. QED BY <4>2, <4>3
      <3>4. QED BY <3>2, <3>3
    <2>7. QED BY <1>2, <2>4, <2>5, <2>6 DEF CInv
  <1>5. QED BY <1>3, <1>4

-----------------------------------------------------------------------------
(* The actions. *)

LEMMA CallKeepsCInv ==
  ASSUME IInv, CInv, NEW r \in Requests, Call(r), UNCHANGED <<route, question>>
  PROVE  CInv'
  BY FailKeepsCInv, SilenceKeepsCInv DEF Call

LEMMA HandleKeepsCInv ==
  ASSUME IInv, CInv, NEW r \in Requests, Handle(r) \/ Check(r)
  PROVE  CInv'
  <1>1. UNCHANGED <<route, question>>
    BY DEF Handle, Check, NoSlot, Refuse, Throw, CacheHit, CheckUrl, StartCall,
           UrlRefused, UrlAccepted
  <1>2. CASE NoSlot(r)
    <2>1. Sendable(Reply(503, FALSE)) /\ Reply(503, FALSE).code # 200
      BY DEF Reply, Sendable, AnswerType, Codes
    <2>2. QED BY <1>2, <2>1, SendKeepsCInv DEF NoSlot, IsFresh
  <1>3. CASE Refuse(r) \/ UrlRefused(r)
    <2>1. Sendable(Reply(400, FALSE)) /\ Reply(400, FALSE).code # 200
      BY DEF Reply, Sendable, AnswerType, Codes
    <2>2. Send(r, Reply(400, FALSE)) /\ UNCHANGED <<cache, fetched>>
      BY <1>3 DEF Refuse, UrlRefused, Refused
    <2>3. QED BY <1>1, <2>1, <2>2, SendKeepsCInv DEF IsFresh
  <1>4. CASE Throw(r)
    BY <1>1, <1>4, FailKeepsCInv, SilenceKeepsCInv DEF Throw
  <1>5. CASE CacheHit(r)
    <2> DEFINE k == CacheKey(question[r])
               a == Data(Cached(r).of, fetched[Cached(r).of])
    <2>1. k \in Question /\ k.key = question[r].key
      BY KeyIsKept DEF IInv, Types
    <2>2. cache[k] # Nothing /\ Send(r, a) /\ UNCHANGED <<cache, fetched>>
      BY <1>5 DEF CacheHit, Cached
    <2>3. /\ cache[k].of \in Question /\ CacheKey(cache[k].of) = k
          /\ cache[k].left \in 0 .. route.ttl
          /\ fetched[cache[k].of] \in Int /\ route.ttl \in Nat
          /\ fetched[cache[k].of] + cache[k].left = route.ttl
      BY <2>1, <2>2, RoutesAssumption DEF CInv, EntryIsRight, IInv, Types
    <2>4. cache[k].of.key = question[r].key /\ fetched[cache[k].of] \in 0 .. route.ttl
      BY <2>1, <2>3, KeyIsKept
    <2>5. a.of = cache[k].of /\ a.age = fetched[cache[k].of]
      BY DEF Data, Cached
    <2>6. IsFresh(r, a)
      BY <2>4, <2>5 DEF IsFresh
    <2>7. Sendable(a)
      BY <2>3, DataAreSendable DEF Cached
    <2> HIDE DEF a
    <2>8. QED BY <1>1, <2>2, <2>6, <2>7, SendKeepsCInv
  <1>6. CASE CheckUrl(r)
    BY <1>6, SilenceKeepsCInv DEF CheckUrl
  <1>7. CASE StartCall(r) \/ UrlAccepted(r)
    BY <1>1, <1>7, CallKeepsCInv DEF StartCall, UrlAccepted
  <1>8. QED BY <1>2, <1>3, <1>4, <1>5, <1>6, <1>7 DEF Handle, Check

LEMMA ReplyKeepsCInv ==
  ASSUME IInv, CInv, NEW r \in Requests, UpstreamReplies(r)
  PROVE  CInv'
  <1>1. PICK reply \in DOMAIN route.upstream.status : Outcome(r, reply)
    BY DEF UpstreamReplies
  <1>2. UNCHANGED <<route, question>>
    BY DEF UpstreamReplies
  <1>3. CASE Again(r, reply)
    BY <1>1, <1>2, <1>3, SilenceKeepsCInv DEF Outcome
  <1>4. CASE ~Again(r, reply)
    BY <1>1, <1>2, <1>4, SucceedKeepsCInv, FailKeepsCInv DEF Outcome
  <1>5. QED BY <1>3, <1>4

LEMMA OthersKeepCInv ==
  ASSUME IInv, CInv, NEW r \in Requests,
         \/ Arrive(r) \/ HeadersArrive(r) \/ BackoffEnds(r)
         \/ RequestTimeout(r) \/ SdkSettles(r) \/ Disconnect(r)
  PROVE  CInv'
  <1>1. CASE Arrive(r) \/ HeadersArrive(r) \/ BackoffEnds(r)
    BY <1>1, SilenceKeepsCInv DEF Arrive, HeadersArrive, BackoffEnds
  <1>2. answer[r] \in AnswerType /\ (answer[r].code = 200 => IsFresh(r, answer[r]))
    BY DEF IInv, Sound, Proper, CInv, AnswersAreFresh, IsFresh
  <1>3. CASE RequestTimeout(r)
    <2>1. UNCHANGED <<route, question, cache, fetched>>
      BY <1>3, ZenonT(60) DEF RequestTimeout
    <2>2. CASE answer[r].held
      <3> DEFINE a == [answer[r] EXCEPT !.code = 408, !.retryable = TRUE]
      <3>1. IsFresh(r, a)
        BY <1>2 DEF AnswerType, IsFresh
      <3>2. answer' = answer \/ answer' = [answer EXCEPT ![r] = a]
        BY <1>3, <2>2 DEF RequestTimeout
      <3> HIDE DEF a
      <3>3. QED BY <2>1, <3>1, <3>2, NewAnswerKeepsCInv
    <2>3. CASE ~answer[r].held
      <3>1. Sendable(Reply(408, TRUE)) /\ Reply(408, TRUE).code # 200
        BY DEF Reply, Sendable, AnswerType, Codes
      <3>2. Send(r, Reply(408, TRUE))
        BY <1>3, <2>3 DEF RequestTimeout
      <3>3. QED BY <2>1, <3>1, <3>2, SendKeepsCInv DEF IsFresh
    <2>4. QED BY <2>2, <2>3
  <1>4. CASE SdkSettles(r)
    <2>1. UNCHANGED <<route, question, cache, fetched>>
      BY <1>4, ZenonT(60) DEF SdkSettles
    <2> DEFINE a == [answer[r] EXCEPT !.held = FALSE]
               b == [Reply(402, FALSE) EXCEPT !.of = answer[r].of]
    <2>2. IsFresh(r, a) /\ IsFresh(r, b)
      BY <1>2 DEF AnswerType, IsFresh, Reply
    <2>3. answer' = [answer EXCEPT ![r] = a] \/ answer' = [answer EXCEPT ![r] = b]
      BY <1>4 DEF SdkSettles, Deliver
    <2> HIDE DEF a, b
    <2>4. QED BY <2>1, <2>2, <2>3, NewAnswerKeepsCInv
  <1>5. CASE Disconnect(r)
    <2>1. IsFresh(r, Reply(499, FALSE))
      BY DEF IsFresh, Reply
    <2>2. /\ answer' = [answer EXCEPT ![r] = Reply(499, FALSE)]
          /\ UNCHANGED <<route, question, cache, fetched>>
      BY <1>5, ZenonT(60) DEF Disconnect, Deliver
    <2>3. QED BY <2>1, <2>2, NewAnswerKeepsCInv
  <1>6. QED BY <1>1, <1>3, <1>4, <1>5

(* An entry ages by what it has left, or is dropped.                        *)
LEMMA TickKeepsCInv ==
  ASSUME IInv, CInv, Tick
  PROVE  CInv'
  <1>1. /\ UNCHANGED <<route, question, answer>>
        /\ route.ttl \in Nat
        /\ cache' = [k \in Question |-> Older(cache[k])]
        /\ fetched' = [q \in Question |->
                         IF fetched[q] \in {NoTicks, route.ttl + 1} THEN fetched[q] ELSE fetched[q] + 1]
    BY RoutesAssumption DEF Tick, IInv, Types
  <1>2. fetched' \in [Question -> Int]
    <2>1. \A q \in Question : fetched[q] \in Int
      BY DEF CInv
    <2>2. QED BY <1>1, <2>1
  <1>3. ASSUME NEW k \in Question
        PROVE  EntryIsRight(k)'
    <2>1. cache'[k] = Older(cache[k]) /\ EntryIsRight(k)
      BY <1>1 DEF CInv
    <2>2. CASE cache[k] = Nothing \/ cache[k].left = 0
      <3>1. cache'[k] = Nothing
        BY <2>1, <2>2 DEF Older
      <3>2. QED BY <3>1 DEF EntryIsRight, Nothing, NoTicks
    <2>3. CASE cache[k] # Nothing /\ cache[k].left # 0
      <3>0. PICK p \in Question : p = cache[k].of
        BY <2>1, <2>3 DEF EntryIsRight
      <3>1. /\ cache[k] = [of |-> p, left |-> cache[k].left]
            /\ p \in Question /\ CacheKey(p) = k
            /\ cache[k].left \in 0 .. route.ttl /\ fetched[p] + cache[k].left = route.ttl
        BY <2>1, <2>3, <3>0 DEF EntryIsRight
      <3>2. cache'[k] = [of |-> p, left |-> cache[k].left - 1]
        BY <2>1, <2>3, <3>1 DEF Older
      <3>3. fetched[p] \in Int
        BY <3>1 DEF CInv
      <3>4. fetched'[p] = fetched[p] + 1
        BY <1>1, <2>3, <3>1, <3>3 DEF NoTicks
      <3>5. CacheKey(p)' = k
        BY <1>1, <3>1 DEF CacheKey
      <3>6. cache'[k].of = p /\ cache'[k].left = cache[k].left - 1
        BY <3>2
      <3>7. /\ cache'[k].left \in 0 .. route'.ttl
            /\ fetched'[p] + cache'[k].left = route'.ttl
        BY <1>1, <2>3, <3>1, <3>3, <3>4, <3>6
      <3>8. QED BY <3>0, <3>2, <3>5, <3>6, <3>7 DEF EntryIsRight, CacheKey
    <2>4. QED BY <2>2, <2>3
  <1>4. AnswersAreFresh'
    BY <1>1 DEF CInv, AnswersAreFresh
  <1>5. ASSUME NEW q \in Question
        PROVE  KnownIsCached(q)'
    <2>1. /\ CacheKey(q)' = CacheKey(q) /\ CacheKey(q) \in Question
          /\ route'.ttl = route.ttl
      BY <1>1, KeyIsKept DEF CacheKey
    <2>2. CASE fetched'[q] \notin 0 .. route.ttl
      BY <2>1, <2>2 DEF KnownIsCached
    <2>3. CASE fetched'[q] \in 0 .. route.ttl
      <3>1. /\ fetched[q] \in 0 .. route.ttl - 1
            /\ fetched'[q] = fetched[q] + 1
        <4>1. fetched[q] \in Int
          BY DEF CInv
        <4>2. fetched'[q] = IF fetched[q] \in {NoTicks, route.ttl + 1}
                            THEN fetched[q] ELSE fetched[q] + 1
          BY <1>1
        <4>3. QED BY <1>1, <2>3, <4>1, <4>2 DEF NoTicks
      <3>2. PICK k \in Question : k = CacheKey(q)
        BY <2>1
      <3>3. cache[k] # Nothing /\ fetched[cache[k].of] <= fetched[q]
        BY <1>1, <3>1, <3>2 DEF CInv, KnownIsCached
      <3>4. PICK p \in Question : p = cache[k].of
        BY <3>3 DEF CInv, EntryIsRight
      <3>5. /\ cache[k] = [of |-> p, left |-> cache[k].left]
            /\ cache[k].left \in 0 .. route.ttl /\ fetched[p] + cache[k].left = route.ttl
            /\ fetched[p] \in Int
        BY <3>3, <3>4 DEF CInv, EntryIsRight
      <3>6. cache[k].left # 0 /\ fetched[p] \in 0 .. route.ttl - 1
        BY <1>1, <3>1, <3>3, <3>4, <3>5
      <3>7. cache'[k] = [of |-> p, left |-> cache[k].left - 1]
        BY <1>1, <3>3, <3>5, <3>6 DEF Older
      <3>8. cache'[k].of = p /\ cache'[k].left # NoTicks
        BY <3>5, <3>6, <3>7 DEF NoTicks
      <3>9. cache'[k] # Nothing
        BY <3>8 DEF Nothing
      <3>10. fetched'[p] = fetched[p] + 1
        BY <1>1, <3>5, <3>6 DEF NoTicks
      <3>11. fetched'[p] <= fetched'[q]
        BY <3>1, <3>3, <3>4, <3>5, <3>10
      <3>12. QED BY <2>1, <3>2, <3>8, <3>9, <3>11 DEF KnownIsCached
    <2>4. QED BY <2>2, <2>3
  <1>6. QED BY <1>1, <1>2, <1>3, <1>4, <1>5 DEF CInv

-----------------------------------------------------------------------------
LEMMA InitIInv ==
  ASSUME Init
  PROVE  IInv
  <1>1. /\ route \in Routes /\ configured \in BOOLEAN
        /\ sdk \subseteq Requests
        /\ question \in [Requests -> Question]
    BY DEF Init, Questions
  <1>2. /\ stage = [r \in Requests |-> "idle"]
        /\ attempt = [r \in Requests |-> 0]
        /\ answer = [r \in Requests |-> NoAnswer]
        /\ logged = [r \in Requests |-> <<>>]
        /\ timer = [r \in Requests |-> NoTicks]
        /\ limit = [r \in Requests |-> NoTicks]
        /\ activeUploads = 0 /\ providerIndex = 0
    BY DEF Init
  <1>3. Types
    BY <1>1, <1>2, ApiRoutesAssumption DEF Types, Stages, OneRow, NoTicks, VideoTimer, Endpoints
  <1>4. \A r \in Requests : Sound(r)
    BY <1>2 DEF Sound, LogMatches, Proper, AnswerType, HandedOver, NoAnswer, Reply, Codes
  <1>5. SlotsAreCounted
    <2>1. {r \in Requests : stage[r] \in {"checking", "calling", "backoff"}} = {}
      BY <1>2
    <2>2. Cardinality({}) = 0 /\ 0 <= MAX_CONCURRENT_UPLOADS
      BY FS_EmptySet, ApiRoutesAssumption
    <2>3. QED BY <1>2, <2>1, <2>2 DEF SlotsAreCounted
  <1>6. QED BY <1>3, <1>4, <1>5 DEF IInv

LEMMA InitCInv ==
  ASSUME Init
  PROVE  CInv
  <1>1. /\ cache = [q \in Question |-> Nothing]
        /\ fetched = [q \in Question |-> NoTicks] /\ NoTicks \in Int
        /\ answer = [r \in Requests |-> NoAnswer] /\ NoAnswer.code # 200
    BY DEF Init, NoTicks, NoAnswer, Reply
  <1>2. \A q \in Question : fetched[q] \notin 0 .. route.ttl
    BY <1>1 DEF NoTicks
  <1>3. QED BY <1>1, <1>2 DEF CInv, EntryIsRight, KnownIsCached, AnswersAreFresh

THEOREM Invariance == Spec => [](IInv /\ CInv)
  <1>1. IInv /\ CInv /\ [Next]_vars => IInv'
    <2>1. CASE IInv /\ CInv /\ Next
      BY <2>1, StepIsGood, GoodKeepsIInv, TickKeepsIInv
    <2>2. CASE IInv /\ UNCHANGED vars
      BY <2>2 DEF IInv, vars, request, Types, Sound, SlotsAreCounted, LogMatches, Called,
                  Proper, AnswerType, HandedOver, Ends200
    <2>3. QED BY <2>1, <2>2
  <1>2. IInv /\ CInv /\ [Next]_vars => CInv'
    <2>1. CASE IInv /\ CInv /\ Next
      BY <2>1, HandleKeepsCInv, ReplyKeepsCInv, OthersKeepCInv, TickKeepsCInv DEF Next
    <2>2. CASE CInv /\ UNCHANGED vars
      BY <2>2, SilenceKeepsCInv DEF vars, request
    <2>3. QED BY <2>1, <2>2
  <1>3. QED BY <1>1, <1>2, InitIInv, InitCInv, PTL DEF Spec

(* The state of a route always has its types: no handler makes more than    *)
(* its attempts, logs more than one row or exceeds the upload slots.        *)
THEOREM TypeCorrectness == Spec => []TypeOK
  <1>1. IInv => TypeOK
    <2> SUFFICES ASSUME IInv PROVE TypeOK
      OBVIOUS
    <2>1. \A r \in Requests : Len(logged[r]) <= 1
      <3>1. \A row \in OneRow : Len(row) <= 1
        <4>1. Len(<<>>) = 0 /\ \A status \in Nat : Len(<<status>>) = 1
          OBVIOUS
        <4>2. ASSUME NEW row \in OneRow
              PROVE  Len(row) <= 1
          <5>1. CASE row = <<>>
            BY <4>1, <5>1
          <5>2. CASE row # <<>>
            <6>1. PICK status \in Nat : row = <<status>>
              BY <4>2, <5>2, Zenon DEF OneRow
            <6>2. Len(<<status>>) = 1
              BY <4>1
            <6>3. QED BY <6>1, <6>2
          <5>3. QED BY <5>1, <5>2
        <4>3. QED BY <4>2
      <3>2. QED BY <3>1 DEF IInv, Types
    <2>2. QED BY <2>1 DEF IInv, Types, Sound, Proper, AnswerType, TypeOK
  <1>2. QED BY <1>1, Invariance, PTL

(* In every race of upstream, request timer, settlement and client a row of *)
(* the request log says 200 exactly when the handler handed the data over   *)
(* to a client that had not gone, and 0 only when the upstream was not      *)
(* called (the finally blocks of apis/*.ts); a client that was handed data  *)
(* gets them, or under the SDK (middleware/x402.ts) perhaps a 402 or 408.   *)
THEOREM TheLogIsRight == Spec => []LogMatchesAnswer
  <1>1. IInv => LogMatchesAnswer
    BY DEF IInv, Sound, LogMatches, Proper, Ends200, LogMatchesAnswer
  <1>2. QED BY <1>1, Invariance, PTL

(* No upload slot of apis/ipfs.ts is lost or given back twice.              *)
THEOREM NoSlotIsLost == Spec => []SlotsAreCounted
  <1>1. IInv => SlotsAreCounted
    BY DEF IInv
  <1>2. QED BY <1>1, Invariance, PTL

-----------------------------------------------------------------------------
LEMMA StepRefines ==
  ASSUME IInv, NEW r \in Requests, Good(r)
  PROVE  [Promise!Next]_(Promise!vars)
  <1> DEFINE stages == [d \in Requests |-> HandlerStage(d)]
             answers == [d \in Requests |-> IF answer[d].held THEN 0 ELSE answer[d].code]
             counts == [d \in Requests |-> Rows(d)]
  <1>1. ASSUME NEW d \in Requests \ {r}
        PROVE  /\ HandlerStage(d)' = HandlerStage(d)
               /\ Sent(d)' = Sent(d)
               /\ Rows(d)' = Rows(d)
    BY DEF Good, OthersRest, HandlerStage, Rows, Called, Sent
  <1>2. answers = [d \in Requests |-> Sent(d)] /\ answers' = [d \in Requests |-> Sent(d)']
    BY DEF Sent
  <1>3. ASSUME Sent(r)' = Sent(r)
        PROVE  answers' = answers
    BY <1>1, <1>2, <1>3
  <1>4. ASSUME Sent(r) = 0, Sent(r)' # 0
        PROVE  Promise!Send(r)
    <2>1. Sent(r)' \in Codes \ {0}
      BY <1>4 DEF Good, Sound, Proper, AnswerType, Sent
    <2>2. PICK a \in Codes \ {0} : a = Sent(r)'
      BY <2>1
    <2>3. answers[r] = 0
      BY <1>2, <1>4
    <2>4. \A d \in Requests : Sent(d)' = IF d = r THEN a ELSE Sent(d)
      BY <1>1, <2>2
    <2>5. [d \in Requests |-> Sent(d)'] = [[d \in Requests |-> Sent(d)] EXCEPT ![r] = a]
      BY <2>4
    <2>6. answers' = [answers EXCEPT ![r] = a]
      BY <1>2, <2>5
    <2>7. QED BY <2>3, <2>6 DEF Promise!Send
  <1>5. CASE Rests(r)
    <2>1. \A d \in Requests : HandlerStage(d)' = HandlerStage(d) /\ Rows(d)' = Rows(d)
      BY <1>1, <1>5 DEF Rests
    <2>2. stages' = stages
      BY <2>1
    <2>3. counts' = counts
      BY <2>1
    <2>4. answers' = answers
      BY <1>3, <1>5 DEF Rests
    <2>5. QED BY <2>2, <2>3, <2>4 DEF Promise!vars
  <1>6. CASE CallsUpstream(r)
    <2>1. stages' = [stages EXCEPT ![r] = "upstream"] /\ stages[r] = "before"
      BY <1>1, <1>6 DEF CallsUpstream
    <2>2. answers' = answers
      BY <1>3, <1>6 DEF CallsUpstream
    <2>3. counts' = counts
      BY <1>1, <1>6 DEF CallsUpstream
    <2>4. Promise!CallUpstream(r)
      BY <2>1, <2>2, <2>3 DEF Promise!CallUpstream
    <2>5. QED BY <2>4 DEF Promise!Next
  <1>7. CASE Answers(r)
    <2>1. stages' = stages
      BY <1>1, <1>7 DEF Answers
    <2>2. counts' = counts
      BY <1>1, <1>7 DEF Answers
    <2>3. Promise!Send(r)
      BY <1>4, <1>7 DEF Answers
    <2>4. Promise!Answer(r)
      BY <2>1, <2>2, <2>3 DEF Promise!Answer
    <2>5. QED BY <2>4 DEF Promise!Next
  <1>8. CASE Ends(r)
    <2>1. PICK n \in {0, 1} :
            /\ HandlerStage(r) \in {"before", "upstream"} /\ HandlerStage(r)' = "over"
            /\ HandlerStage(r) = "upstream" => n = 1
            /\ Sent(r) # 0 => Sent(r)' = Sent(r)
            /\ Rows(r)' = Rows(r) + n
      BY <1>8 DEF Ends
    <2>2. stages' = [stages EXCEPT ![r] = "over"]
      BY <1>1, <2>1
    <2>3. counts' = [counts EXCEPT ![r] = @ + n]
      BY <1>1, <2>1
    <2>4. /\ stages[r] \in {"before", "upstream"}
          /\ stages[r] = "upstream" => n = 1
      BY <2>1
    <2>5. Promise!Send(r) \/ answers' = answers
      BY <1>3, <1>4, <2>1
    <2>6. Promise!End(r, n)
      BY <2>2, <2>3, <2>4, <2>5 DEF Promise!End
    <2>7. QED BY <2>6 DEF Promise!Next
  <1>9. QED BY <1>5, <1>6, <1>7, <1>8 DEF Good

(* Every route implements PaidHandler, whatever its retries, timers and     *)
(* caches, for any number of requests: none replaces what has been sent,    *)
(* and each call of an upstream leaves one row.                             *)
THEOREM ImplementsHandler == Spec => HandlerPromise
  <1>1. Init => Promise!Init
    <2> SUFFICES ASSUME Init PROVE Promise!Init
      OBVIOUS
    <2>1. ASSUME NEW r \in Requests
          PROVE  /\ HandlerStage(r) = "before" /\ Rows(r) = 0
               /\ answer[r].held = FALSE /\ answer[r].code = 0
      BY DEF Init, HandlerStage, NoAnswer, Reply, Rows
    <2>2. [r \in Requests |-> HandlerStage(r)] = [r \in Requests |-> "before"]
      BY <2>1
    <2>3. [r \in Requests |-> IF answer[r].held THEN 0 ELSE answer[r].code] = [r \in Requests |-> 0]
      BY <2>1
    <2>4. [r \in Requests |-> Rows(r)] = [r \in Requests |-> 0]
      BY <2>1
    <2>5. QED BY <2>2, <2>3, <2>4 DEF Promise!Init
  <1>2. IInv /\ CInv /\ [Next]_vars => [Promise!Next]_(Promise!vars)
    <2>1. CASE UNCHANGED <<route, stage, attempt, answer, logged>>
      BY <2>1 DEF Promise!vars, HandlerStage, Rows, Called
    <2>2. CASE IInv /\ CInv /\ Next /\ ~Tick
      BY <2>2, StepIsGood, StepRefines
    <2>3. QED BY <2>1, <2>2 DEF Tick, vars, request
  <1>3. QED BY <1>1, <1>2, Invariance, PTL DEF Spec, HandlerPromise, Promise!Spec

-----------------------------------------------------------------------------
(* ENS: the endpoints that the lookups have tried, all together.            *)

Tried == UNION {asked[r] : r \in Requests}

AllTried == Tried = Endpoints

GaveUp(r) == logged[r] = <<502>>

(* Until the index has come round, it counts the attempts of all lookups,   *)
(* and so bounds those of each.                                             *)
EInv ==
  /\ asked \in [Requests -> SUBSET Endpoints]
  /\ route.upstream = Ens =>
       /\ AllTried \/ (Tried = 0 .. providerIndex - 1 /\ \A r \in Requests : attempt[r] <= providerIndex)
       /\ \A r \in Requests : GaveUp(r) => AllTried

LEMMA NextEndpointIs ==
  ASSUME providerIndex \in Endpoints
  PROVE  NextEndpoint = IF providerIndex = 2 THEN 0 ELSE providerIndex + 1
  <1>1. 0 \in Int /\ 2 \in Int
    OBVIOUS
  <1>2. Cardinality(0 .. 2) = IF 0 > 2 THEN 0 ELSE 2 - 0 + 1
    BY <1>1, FS_Interval, Zenon
  <1>3. Cardinality(Endpoints) = 3
    BY <1>2 DEF Endpoints
  <1>4. providerIndex \in {0, 1, 2}
    BY DEF Endpoints
  <1>5. QED BY <1>3, <1>4 DEF NextEndpoint

LEMMA AttemptKeepsEInv ==
  ASSUME IInv, EInv, NEW r \in Requests, Attempt(r, attempt[r] + 1), UNCHANGED <<route, logged>>
  PROVE  EInv'
  <1>1. /\ attempt \in [Requests -> 0 .. 4] /\ providerIndex \in 0 .. 2
        /\ attempt' = [attempt EXCEPT ![r] = attempt[r] + 1]
        /\ asked \in [Requests -> SUBSET Endpoints]
    BY DEF IInv, Types, EInv, Attempt, Endpoints
  <1>2. CASE route.upstream # Ens
    <2>1. asked' = asked
      BY <1>2 DEF Attempt
    <2>2. QED BY <1>1, <1>2, <2>1 DEF EInv
  <1>3. CASE route.upstream = Ens
    <2>1. /\ asked' = [asked EXCEPT ![r] = asked[r] \cup {providerIndex}]
          /\ providerIndex' = IF providerIndex = 2 THEN 0 ELSE providerIndex + 1
      BY <1>1, <1>3, NextEndpointIs DEF Attempt, Endpoints
    <2>2. providerIndex \in Endpoints
      BY <1>1 DEF Endpoints
    <2>3. asked' \in [Requests -> SUBSET Endpoints]
      BY <1>1, <2>1, <2>2
    <2>4. Tried' = Tried \cup {providerIndex}
      <3>1. \A s \in Requests : asked'[s] = IF s = r THEN asked[r] \cup {providerIndex} ELSE asked[s]
        BY <1>1, <2>1
      <3>2. QED BY <3>1 DEF Tried
    <2>5. AllTried => AllTried'
      BY <2>2, <2>4 DEF AllTried
    <2>6. AllTried' \/ (Tried' = 0 .. providerIndex' - 1 /\ \A s \in Requests : attempt'[s] <= providerIndex')
      <3>1. CASE AllTried
        BY <2>5, <3>1
      <3>2. CASE ~AllTried
        <4>1. Tried = 0 .. providerIndex - 1 /\ \A s \in Requests : attempt[s] <= providerIndex
          BY <1>3, <3>2 DEF EInv
        <4>2. Tried' = 0 .. providerIndex
          BY <1>1, <2>4, <4>1
        <4>3. CASE providerIndex = 2
          BY <4>2, <4>3 DEF AllTried, Endpoints
        <4>4. CASE providerIndex # 2
          <5>1. providerIndex' = providerIndex + 1 /\ providerIndex' - 1 = providerIndex
            BY <1>1, <2>1, <4>4
          <5>2. \A s \in Requests : attempt'[s] <= providerIndex'
            BY <1>1, <4>1, <5>1
          <5>3. QED BY <4>2, <5>1, <5>2
        <4>5. QED BY <4>3, <4>4
      <3>3. QED BY <3>1, <3>2
    <2>7. \A s \in Requests : GaveUp(s)' => AllTried'
      BY <1>3, <2>5 DEF EInv, GaveUp
    <2>8. QED BY <2>3, <2>6, <2>7 DEF EInv
  <1>4. QED BY <1>2, <1>3

LEMMA RowKeepsEInv ==
  ASSUME IInv, EInv, NEW r \in Requests, UNCHANGED <<route, asked, attempt, providerIndex>>,
         \/ logged' = logged
         \/ \E status \in Nat :
              /\ Log(r, status) /\ stage[r] # "over"
              /\ route.upstream = Ens /\ status = 502 => attempt[r] >= 3
  PROVE  EInv'
  <1>1. ASSUME NEW s \in Requests, GaveUp(s)', route.upstream = Ens
        PROVE  GaveUp(s) \/ attempt[s] >= 3
    <2>1. CASE logged'[s] = logged[s]
      BY <1>1, <2>1 DEF GaveUp
    <2>2. CASE logged'[s] # logged[s]
      <3>1. PICK status \in Nat :
              /\ Log(r, status) /\ stage[r] # "over"
              /\ route.upstream = Ens /\ status = 502 => attempt[r] >= 3
        BY <2>2
      <3>2. logged \in [Requests -> OneRow] /\ logged[r] = <<>>
        BY <3>1 DEF IInv, Types, Sound
      <3>3. s = r /\ logged'[s] = <<status>>
        BY <2>2, <3>1, <3>2 DEF Log
      <3>4. status = 502
        BY <1>1, <3>3 DEF GaveUp
      <3>5. QED BY <1>1, <3>1, <3>3, <3>4
    <2>3. QED BY <2>1, <2>2
  <1>2. (AllTried' <=> AllTried) /\ Tried' = Tried
    BY DEF AllTried, Tried
  <1>3. attempt \in [Requests -> 0 .. 4] /\ providerIndex \in 0 .. 2
    BY DEF IInv, Types, Endpoints
  <1>4. ASSUME NEW s \in Requests, GaveUp(s)', route.upstream = Ens
        PROVE  AllTried'
    <2>1. CASE GaveUp(s)
      BY <1>2, <1>4, <2>1 DEF EInv
    <2>2. CASE attempt[s] >= 3
      BY <1>2, <1>3, <1>4, <2>2 DEF EInv
    <2>3. QED BY <1>1, <1>4, <2>1, <2>2
  <1>5. QED BY <1>2, <1>4 DEF EInv

LEMMA CallKeepsEInv ==
  ASSUME IInv, EInv, NEW r \in Requests, stage[r] \in {"before", "checking"}, Call(r),
         UNCHANGED route
  PROVE  EInv'
  <1>1. attempt[r] = 0 /\ 0 + 1 = 1
    BY DEF IInv, Sound
  <1>2. CASE configured \/ route.upstream.unset = 0
    <2>1. Attempt(r, attempt[r] + 1) /\ UNCHANGED logged
      BY <1>1, <1>2 DEF Call
    <2>2. QED BY <2>1, AttemptKeepsEInv
  <1>3. CASE ~(configured \/ route.upstream.unset = 0)
    <2>1. /\ Log(r, route.upstream.unset)
          /\ UNCHANGED <<attempt, providerIndex, asked>>
      BY <1>3 DEF Call, Fail, Done
    <2>2. route.upstream.unset \in Nat /\ route.upstream # Ens
      BY <1>3, RoutesAssumption DEF IInv, Types, Ens
    <2>3. QED BY <2>1, <2>2, RowKeepsEInv
  <1>4. QED BY <1>2, <1>3

LEMMA ReplyKeepsEInv ==
  ASSUME IInv, EInv, NEW r \in Requests, UpstreamReplies(r)
  PROVE  EInv'
  <1>1. PICK reply \in DOMAIN route.upstream.status : Outcome(r, reply)
    BY DEF UpstreamReplies
  <1>2. stage[r] = "calling" /\ UNCHANGED route /\ route \in Routes /\ attempt[r] \in 0 .. 4
    BY DEF UpstreamReplies, IInv, Types
  <1>3. CASE Again(r, reply)
    <2>1. CASE route.upstream.pause
      <3>1. UNCHANGED <<attempt, providerIndex, asked, logged>>
        BY <1>1, <1>3, <2>1 DEF Outcome
      <3>2. QED BY <1>2, <3>1, RowKeepsEInv
    <2>2. CASE ~route.upstream.pause
      <3>1. Attempt(r, attempt[r] + 1) /\ UNCHANGED logged
        BY <1>1, <1>3, <2>2 DEF Outcome
      <3>2. QED BY <1>2, <3>1, AttemptKeepsEInv
    <2>3. QED BY <2>1, <2>2
  <1>4. CASE ~Again(r, reply)
    <2>1. UNCHANGED <<attempt, providerIndex, asked>>
      BY <1>1, <1>4 DEF Outcome
    <2>2. CASE reply = "ok"
      <3>1. PICK status \in {200, 500} : Log(r, status)
        BY <1>1, <1>4, <2>2 DEF Outcome, Succeed, Done
      <3>2. QED BY <1>2, <2>1, <3>1, RowKeepsEInv
    <2>3. CASE reply # "ok"
      <3>1. Log(r, route.upstream.status[reply]) /\ route.upstream.status[reply] \in Nat
        BY <1>1, <1>2, <1>4, <2>3, RoutesAssumption DEF Outcome, Fail, Done
      <3>2. route.upstream = Ens => attempt[r] >= 3
        <4>1. route.upstream = Ens => /\ route.upstream.tries = 3
                                     /\ reply \in {"5xx", "network"}
                                     /\ route.upstream.again = {"5xx", "network"}
          BY <2>3 DEF Ens, OneStatus
        <4>2. QED BY <1>2, <1>4, <4>1 DEF Again
      <3>3. QED BY <1>2, <2>1, <3>1, <3>2, RowKeepsEInv
    <2>4. QED BY <2>2, <2>3
  <1>5. QED BY <1>3, <1>4

LEMMA StepKeepsEInv ==
  ASSUME IInv, EInv, Next
  PROVE  EInv'
  <1>1. CASE Tick
    BY <1>1 DEF Tick, EInv, AllTried, Tried, GaveUp
  <1>2. ASSUME NEW r \in Requests,
               \/ Arrive(r) \/ HeadersArrive(r) \/ RequestTimeout(r) \/ SdkSettles(r) \/ Disconnect(r)
               \/ NoSlot(r) \/ CacheHit(r) \/ CheckUrl(r)
        PROVE  EInv'
    <2>1. UNCHANGED <<route, asked, attempt, providerIndex, logged>>
      BY <1>2 DEF Arrive, HeadersArrive, RequestTimeout, SdkSettles, Disconnect, NoSlot, CacheHit, CheckUrl,
                  Return
    <2>2. QED BY <2>1, RowKeepsEInv
  <1>3. ASSUME NEW r \in Requests, Refuse(r) \/ UrlRefused(r) \/ Throw(r)
        PROVE  EInv'
    <2>1. /\ stage[r] # "over" /\ UNCHANGED <<route, asked, attempt, providerIndex>>
          /\ logged' = logged \/ \E status \in {0, 500} : Log(r, status)
      BY <1>3 DEF Refuse, UrlRefused, Throw, Refused, Fail, Done, Return
    <2>2. QED BY <2>1, RowKeepsEInv
  <1>4. ASSUME NEW r \in Requests, StartCall(r) \/ UrlAccepted(r)
        PROVE  EInv'
    BY <1>4, CallKeepsEInv DEF StartCall, UrlAccepted
  <1>5. ASSUME NEW r \in Requests, BackoffEnds(r)
        PROVE  EInv'
    BY <1>5, AttemptKeepsEInv DEF BackoffEnds
  <1>6. QED BY <1>1, <1>2, <1>3, <1>4, <1>5, ReplyKeepsEInv DEF Next, Handle, Check

(* When a lookup of ENS has failed, the lookups have together left no       *)
(* endpoint untried, however they took turns (providers/ens.ts).            *)
THEOREM NoEndpointIsLeftOut == Spec => []NoEndpointLeftOut
  <1>1. Init => EInv
    <2> SUFFICES ASSUME Init PROVE EInv
      OBVIOUS
    <2>1. /\ asked = [r \in Requests |-> {}] /\ attempt = [r \in Requests |-> 0]
          /\ logged = [r \in Requests |-> <<>>] /\ providerIndex = 0
      BY DEF Init
    <2>2. Tried = {} /\ 0 .. 0 - 1 = {}
      BY <2>1 DEF Tried
    <2>3. QED BY <2>1, <2>2 DEF EInv, GaveUp
  <1>2. IInv /\ EInv /\ [Next]_vars => EInv'
    <2>1. CASE EInv /\ UNCHANGED vars
      BY <2>1 DEF vars, request, EInv, AllTried, Tried, GaveUp
    <2>2. QED BY <2>1, StepKeepsEInv
  <1>3. EInv => NoEndpointLeftOut
    BY DEF EInv, NoEndpointLeftOut, AllTried, Tried, GaveUp
  <1>4. QED BY <1>1, <1>2, <1>3, Invariance, PTL DEF Spec

-----------------------------------------------------------------------------
(* Data are never older than the cache keeps them, and answer the question  *)
(* that was asked as far as the cache key tells questions apart             *)
(* (lib/cache.ts and the handlers of apis/*.ts that use it).                *)
THEOREM AnswersStayFresh == Spec => []AnswersAreFresh
  <1>1. CInv => AnswersAreFresh
    BY DEF CInv
  <1>2. QED BY <1>1, Invariance, PTL

-----------------------------------------------------------------------------
(* Whose data a request is sent.  Where the cache key leaves nothing out, an *)
(* entry answers the one question it is kept for.                           *)

MInv == ~route.omits => AnswersMatchQuestions

IsForIt(r, a) == a.code = 200 => a.of = question[r]

LEMMA NewAnswerKeepsMInv ==
  ASSUME IInv, MInv, NEW r \in Requests, NEW a, ~route.omits => IsForIt(r, a),
         answer' = answer \/ answer' = [answer EXCEPT ![r] = a],
         UNCHANGED <<route, question>>
  PROVE  MInv'
  <1>1. SUFFICES ASSUME ~route.omits, NEW d \in Requests, answer'[d].code = 200
                 PROVE  answer'[d].of = question[d]
    BY DEF MInv, AnswersMatchQuestions
  <1>2. CASE answer'[d] = answer[d]
    BY <1>1, <1>2 DEF MInv, AnswersMatchQuestions
  <1>3. CASE answer'[d] # answer[d]
    <2>1. answer = [e \in Requests |-> answer[e]]
      BY DEF IInv, Types
    <2>2. d = r /\ answer'[d] = a
      BY <1>3, <2>1
    <2>3. QED BY <1>1, <2>2 DEF IsForIt
  <1>4. QED BY <1>2, <1>3

LEMMA SendKeepsMInv ==
  ASSUME IInv, MInv, NEW r \in Requests, NEW a, Sendable(a), Send(r, a),
         ~route.omits => IsForIt(r, a), UNCHANGED <<route, question>>
  PROVE  MInv'
  <1> DEFINE b == [a EXCEPT !.held = TRUE]
  <1>1. b.code = a.code /\ b.of = a.of
    BY DEF Sendable, AnswerType
  <1>2. \/ answer' = answer
        \/ answer' = [answer EXCEPT ![r] = a]
        \/ answer' = [answer EXCEPT ![r] = b]
    BY DEF Send, Deliver
  <1> HIDE DEF b
  <1>3. ~route.omits => IsForIt(r, b)
    BY <1>1 DEF IsForIt
  <1>4. QED BY <1>2, <1>3, NewAnswerKeepsMInv

LEMMA SilenceKeepsMInv ==
  ASSUME MInv, UNCHANGED <<route, question, answer>>
  PROVE  MInv'
  BY DEF MInv, AnswersMatchQuestions

LEMMA FailKeepsMInv ==
  ASSUME IInv, MInv, NEW r \in Requests, NEW reply, NEW status, Fail(r, reply, status),
         UNCHANGED <<route, question>>
  PROVE  MInv'
  <1> DEFINE a == FailureAnswer(reply, status)
  <1>1. Sendable(a) /\ a.code # 200
    BY FailureIsSendable DEF IInv, Types
  <1>2. Send(r, a)
    BY DEF Fail
  <1> HIDE DEF a
  <1>3. QED BY <1>1, <1>2, SendKeepsMInv DEF IsForIt

LEMMA RefusalKeepsMInv ==
  ASSUME IInv, MInv, NEW r \in Requests, NEW a, Sendable(a), a.code # 200, Send(r, a),
         UNCHANGED <<route, question>>
  PROVE  MInv'
  BY SendKeepsMInv DEF IsForIt

(* What becomes of an answer that is held back.                             *)
LEMMA SettlingKeepsMInv ==
  ASSUME IInv, MInv, NEW r \in Requests,
         (RequestTimeout(r) /\ answer[r].held) \/ SdkSettles(r) \/ Disconnect(r)
  PROVE  MInv'
  <1> DEFINE a == [answer[r] EXCEPT !.code = 408, !.retryable = TRUE]
             b == [answer[r] EXCEPT !.held = FALSE]
             c == [Reply(402, FALSE) EXCEPT !.of = answer[r].of]
             e == Reply(499, FALSE)
  <1>1. answer[r] \in AnswerType /\ (~route.omits => IsForIt(r, answer[r]))
    BY DEF IInv, Sound, Proper, MInv, AnswersMatchQuestions, IsForIt
  <1>2. IsForIt(r, a) /\ IsForIt(r, c) /\ IsForIt(r, e) /\ (~route.omits => IsForIt(r, b))
    BY <1>1 DEF AnswerType, IsForIt, Reply
  <1>3. UNCHANGED <<route, question>>
    BY ZenonT(60) DEF RequestTimeout, SdkSettles, Disconnect
  <1>4. \/ answer' = answer
        \/ answer' = [answer EXCEPT ![r] = a]
        \/ answer' = [answer EXCEPT ![r] = b]
        \/ answer' = [answer EXCEPT ![r] = c]
        \/ answer' = [answer EXCEPT ![r] = e]
    BY DEF RequestTimeout, SdkSettles, Disconnect, Deliver
  <1> HIDE DEF a, b, c, e
  <1>5. QED BY <1>2, <1>3, <1>4, NewAnswerKeepsMInv

LEMMA StepKeepsMInv ==
  ASSUME IInv, CInv, MInv, NEW r \in Requests,
         \/ Arrive(r) \/ Handle(r) \/ Check(r)
         \/ UpstreamReplies(r) \/ HeadersArrive(r) \/ BackoffEnds(r)
         \/ RequestTimeout(r) \/ SdkSettles(r) \/ Disconnect(r)
  PROVE  MInv'
  <1>1. CASE Arrive(r) \/ HeadersArrive(r) \/ BackoffEnds(r) \/ CheckUrl(r)
    BY <1>1, SilenceKeepsMInv DEF Arrive, HeadersArrive, BackoffEnds, CheckUrl
  <1>2. CASE \/ NoSlot(r) \/ Refuse(r) \/ UrlRefused(r)
            \/ (RequestTimeout(r) /\ ~answer[r].held)
    <2>1. UNCHANGED <<route, question>>
      BY <1>2 DEF NoSlot, Refuse, UrlRefused, RequestTimeout
    <2> DEFINE a == Reply(503, FALSE)
               b == Reply(400, FALSE)
               c == Reply(408, TRUE)
    <2>2. Send(r, a) \/ Send(r, b) \/ Send(r, c)
      BY <1>2 DEF NoSlot, Refuse, UrlRefused, Refused, RequestTimeout
    <2>3. Sendable(a) /\ a.code # 200
      BY DEF Reply, Sendable, AnswerType, Codes
    <2>4. Sendable(b) /\ b.code # 200
      BY DEF Reply, Sendable, AnswerType, Codes
    <2>5. Sendable(c) /\ c.code # 200
      BY DEF Reply, Sendable, AnswerType, Codes
    <2> HIDE DEF a, b, c
    <2>6. QED BY <2>1, <2>2, <2>3, <2>4, <2>5, RefusalKeepsMInv
  <1>3. CASE Throw(r) \/ StartCall(r) \/ UrlAccepted(r)
    BY <1>3, FailKeepsMInv, SilenceKeepsMInv DEF Throw, StartCall, UrlAccepted, Call
  <1>4. CASE CacheHit(r)
    <2> DEFINE k == CacheKey(question[r])
               a == Data(Cached(r).of, fetched[Cached(r).of])
    <2>1. Send(r, a) /\ cache[k] # Nothing /\ UNCHANGED <<route, question>>
      BY <1>4 DEF CacheHit, Cached
    <2>7. cache[k].of \in Question /\ Sendable(a)
      BY <2>1, KeyIsKept, DataAreSendable DEF IInv, Types, CInv, EntryIsRight, Cached
    <2>2. CacheKey(cache[k].of) = k
      BY <2>1, KeyIsKept DEF IInv, Types, CInv, EntryIsRight
    <2>3. ~route.omits => cache[k].of = question[r]
      BY <2>2 DEF CacheKey
    <2>4. a.of = cache[k].of
      BY DEF Data, Cached
    <2>5. ~route.omits => IsForIt(r, a)
      BY <2>3, <2>4 DEF IsForIt
    <2> HIDE DEF a
    <2>8. QED BY <2>1, <2>5, <2>7, SendKeepsMInv
  <1>5. CASE UpstreamReplies(r)
    <2>1. PICK reply \in DOMAIN route.upstream.status : Outcome(r, reply)
      BY <1>5 DEF UpstreamReplies
    <2>2. UNCHANGED <<route, question>>
      BY <1>5 DEF UpstreamReplies
    <2>3. CASE Again(r, reply)
      BY <2>1, <2>2, <2>3, SilenceKeepsMInv DEF Outcome
    <2>4. CASE Succeed(r)
      <3>1. Data(question[r], 0).of = question[r] /\ Sendable(Data(question[r], 0))
        BY DataAreSendable DEF Data, IInv, Types
      <3>2. QED BY <2>2, <2>4, <3>1, SendKeepsMInv DEF Succeed, IsForIt
    <2>5. QED BY <2>1, <2>2, <2>3, <2>4, FailKeepsMInv DEF Outcome
  <1>6. QED BY <1>1, <1>2, <1>3, <1>4, <1>5, SettlingKeepsMInv DEF Handle, Check

(* No client is sent the data of another question, whoever filled the cache *)
(* entry and when, but for the routes whose cache key leaves a parameter    *)
(* out: of the handlers of apis/*.ts these are the two of travel.ts, and    *)
(* the fault that AnswersMatchQuestions has there is in no other.           *)
THEOREM CompleteKeysKeepApart == Spec => [](~route.omits => AnswersMatchQuestions)
  <1>1. Init => MInv
    <2> SUFFICES ASSUME Init, NEW r \in Requests
                 PROVE  answer[r].code # 200
      BY DEF MInv, AnswersMatchQuestions
    <2>1. answer[r] = NoAnswer
      BY DEF Init
    <2>2. QED BY <2>1 DEF NoAnswer, Reply
  <1>2. IInv /\ CInv /\ MInv /\ [Next]_vars => MInv'
    <2>1. CASE IInv /\ CInv /\ MInv /\ Next
      <3>1. CASE Tick
        BY <2>1, <3>1, SilenceKeepsMInv DEF Tick
      <3>2. QED BY <2>1, <3>1, StepKeepsMInv DEF Next
    <2>2. CASE MInv /\ UNCHANGED vars
      BY <2>2, SilenceKeepsMInv DEF vars, request
    <2>3. QED BY <2>1, <2>2
  <1>3. MInv => (~route.omits => AnswersMatchQuestions)
    BY DEF MInv
  <1>4. QED BY <1>1, <1>2, <1>3, Invariance, PTL DEF Spec

-----------------------------------------------------------------------------
(* A first attempt is made after a look into the cache.                     *)
LEMMA FirstAttemptMissed ==
  ASSUME IInv, CInv, Next, NEW r \in Requests, attempt[r] = 0, attempt'[r] = 1, route.ttl > 0
  PROVE  StartCall(r)
  <1>1. attempt \in [Requests -> 0 .. 4] /\ Sound(r)
    BY DEF IInv, Types
  <1>2. ASSUME NEW s \in Requests, NEW n, Attempt(s, n)
        PROVE  s = r
    BY <1>1, <1>2 DEF Attempt
  <1>3. PICK s \in Requests : StartCall(s) \/ UrlAccepted(s) \/ UpstreamReplies(s) \/ BackoffEnds(s)
    <2>1. attempt' # attempt
      BY <1>1
    <2>2. ~Tick
      BY <2>1 DEF Tick
    <2>3. PICK s \in Requests : \/ Arrive(s) \/ Handle(s) \/ Check(s)
                               \/ UpstreamReplies(s) \/ HeadersArrive(s) \/ BackoffEnds(s)
                               \/ RequestTimeout(s) \/ SdkSettles(s) \/ Disconnect(s)
      BY <2>2 DEF Next
    <2>4. /\ ~Arrive(s) /\ ~HeadersArrive(s)
          /\ ~RequestTimeout(s) /\ ~SdkSettles(s) /\ ~Disconnect(s)
      BY <2>1 DEF Arrive, HeadersArrive, RequestTimeout, SdkSettles, Disconnect
    <2>5. Handle(s) => StartCall(s)
      BY <2>1 DEF Handle, NoSlot, Refuse, Throw, CacheHit, CheckUrl
    <2>6. Check(s) => UrlAccepted(s)
      BY <2>1 DEF Check, UrlRefused
    <2>7. QED BY <2>3, <2>4, <2>5, <2>6
  <1>4. s = r
    <2>1. CASE StartCall(s) \/ UrlAccepted(s)
      BY <1>2, <2>1 DEF StartCall, UrlAccepted, Call
    <2>2. CASE UpstreamReplies(s)
      BY <1>2, <2>2 DEF UpstreamReplies, Outcome
    <2>3. CASE BackoffEnds(s)
      BY <1>2, <2>3 DEF BackoffEnds
    <2>4. QED BY <1>3, <2>1, <2>2, <2>3
  <1>5. ~UpstreamReplies(r) /\ ~BackoffEnds(r)
    BY <1>1 DEF Sound, UpstreamReplies, BackoffEnds
  <1>6. ~UrlAccepted(r)
    <2>1. route.dns = "never"
      BY RoutesAssumption DEF IInv, Types
    <2>2. QED BY <1>1, <2>1 DEF Sound, UrlAccepted
  <1>7. QED BY <1>3, <1>4, <1>5, <1>6

(* What the upstream has answered is not asked again while it is fresh,     *)
(* even if the answer came too late for its client (the handlers store a    *)
(* result before they send it).                                             *)
THEOREM KnownIsNotAsked == Spec => NoNeedlessCalls
  <1>1. ASSUME IInv, CInv, [Next]_vars, NEW r \in Requests,
               attempt[r] = 0, attempt'[r] = 1, route.ttl > 0
        PROVE  fetched[question[r]] \notin 0 .. route.ttl
    <2>1. Next
      BY <1>1 DEF vars, request
    <2>2. StartCall(r)
      BY <1>1, <2>1, FirstAttemptMissed
    <2>3. question[r] \in Question /\ cache[CacheKey(question[r])] = Nothing
      BY <1>1, <2>2 DEF StartCall, Cached, IInv, Types
    <2>4. KnownIsCached(question[r])
      BY <1>1, <2>3 DEF CInv
    <2>5. QED BY <2>3, <2>4 DEF KnownIsCached
  <1>2. IInv /\ CInv /\ [Next]_vars =>
          [\A r \in Requests :
             attempt[r] = 0 /\ attempt'[r] = 1 /\ route.ttl > 0 =>
               fetched[question[r]] \notin 0 .. route.ttl]_vars
    BY <1>1
  <1>3. QED BY <1>2, Invariance, PTL DEF Spec, NoNeedlessCalls
=============================================================================
