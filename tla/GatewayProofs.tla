----------------------------- MODULE GatewayProofs -----------------------------
(***************************************************************************)
(* The request pipeline for any number of requests and transactions: what   *)
(* reaches a handler is paid, a direct payment leaves one payment row, and  *)
(* every step of the pipeline is one of PaidHandler.                        *)
(*                                                                         *)
(* A step belongs to one request and leaves the others alone but for the    *)
(* claim of a free transaction, so the inductive invariant is one of a      *)
(* single request: Sound.                                                   *)
(***************************************************************************)
EXTENDS Gateway, FiniteSetTheorems, SequenceTheorems, TLAPS

Passes(x) == x.bypassed \/ x.method = "direct" \/ x.verified

Sound(r) ==
  /\ at[r] \in {"limiter", "direct", "sdk"} => input[r] \in Input
  /\ at[r] \in {"idle", "reading", "limiter"} => x402[r] = Fresh
  /\ at[r] \in {"idle", "reading", "limiter", "direct"} => ~x402[r].verified
  /\ at[r] \in {"idle", "reading", "limiter", "direct", "sdk"}
       => r \notin served /\ x402[r].method # "direct"
  /\ at[r] \in {"idle", "reading", "limiter", "direct", "settling"} => sent[r] = 0
  /\ at[r] = "settling" => x402[r].verified
  /\ x402[r].verified => x402[r].method # "direct"
  /\ x402[r].bypassed => IsDev /\ input[r].bypass
  /\ x402[r].method = "direct" => input[r] \in Input /\ owner[input[r].tx] = r
  /\ r \in served => Passes(x402[r])
  /\ Count(r, "megaeth-payment") = IF Granted(r) /\ HeadersSent(r) THEN 1 ELSE 0

IInv ==
  /\ TypeOK
  /\ \A r \in Requests : Sound(r)

-----------------------------------------------------------------------------
(* Counting the rows of one service.                                        *)

LEMMA EntriesAreFinite ==
  ASSUME NEW s \in Seq(Row), NEW service
  PROVE  /\ Entries(s, service) \subseteq 1 .. Len(s)
         /\ IsFiniteSet(Entries(s, service))
         /\ Cardinality(Entries(s, service)) \in Nat
  <1>1. Entries(s, service) \subseteq 1 .. Len(s)
    BY DEF Entries
  <1>2. IsFiniteSet(1 .. Len(s))
    BY FS_Interval
  <1>3. IsFiniteSet(Entries(s, service))
    BY <1>1, <1>2, FS_Subset
  <1>4. QED BY <1>1, <1>3, FS_CardinalityType

LEMMA CountConcat ==
  ASSUME NEW s \in Seq(Row), NEW t \in Seq(Row), NEW service
  PROVE  Cardinality(Entries(s \o t, service))
           = Cardinality(Entries(s, service)) + Cardinality(Entries(t, service))
  <1> DEFINE A == Entries(s, service)
             B == Entries(t, service)
             C == {i \in Len(s) + 1 .. Len(s) + Len(t) : t[i - Len(s)].service = service}
             f == [i \in B |-> i + Len(s)]
  <1>1. /\ Len(s) \in Nat /\ Len(t) \in Nat
        /\ A \subseteq 1 .. Len(s) /\ B \subseteq 1 .. Len(t)
        /\ IsFiniteSet(A) /\ IsFiniteSet(B)
        /\ Cardinality(A) \in Nat /\ Cardinality(B) \in Nat
    BY EntriesAreFinite
  <1>2. Entries(s \o t, service) = A \cup C
    <2>1. /\ DOMAIN (s \o t) = 1 .. Len(s) + Len(t)
          /\ DOMAIN s = 1 .. Len(s)
          /\ \A i \in 1 .. Len(s) + Len(t) :
               (s \o t)[i] = IF i <= Len(s) THEN s[i] ELSE t[i - Len(s)]
      BY ConcatProperties
    <2>2. QED BY <1>1, <2>1 DEF Entries
  <1>3. A \cap C = {}
    BY <1>1
  <1>4. ExistsBijection(B, C)
    <2>1. \A i \in B : i \in 1 .. Len(t) /\ t[i].service = service
      BY DEF Entries
    <2>2. f \in [B -> C]
      BY <1>1, <2>1
    <2>3. \A i, j \in B : f[i] = f[j] => i = j
      BY <1>1, <2>1
    <2>4. \A k \in C : \E i \in B : f[i] = k
      <3> SUFFICES ASSUME NEW k \in C PROVE \E i \in B : f[i] = k
        OBVIOUS
      <3>1. k - Len(s) \in 1 .. Len(t) /\ t[k - Len(s)].service = service
        BY <1>1
      <3>2. k - Len(s) \in B
        BY <3>1 DEF Entries
      <3>3. f[k - Len(s)] = k
        BY <1>1, <3>2
      <3>4. QED BY <3>2, <3>3
    <2>5. f \in Bijection(B, C)
      BY <2>2, <2>3, <2>4 DEF Bijection, Injection, Surjection, IsInjective
    <2>6. QED BY <2>5 DEF ExistsBijection
  <1>5. IsFiniteSet(C) /\ Cardinality(C) = Cardinality(B)
    BY <1>1, <1>4, FS_Bijection
  <1>6. Cardinality(A \cup C) = Cardinality(A) + Cardinality(C) - Cardinality(A \cap C)
    BY <1>1, <1>5, FS_Union
  <1>7. Cardinality(A \cap C) = 0
    BY <1>3, FS_EmptySet
  <1>8. QED BY <1>1, <1>2, <1>5, <1>6, <1>7

LEMMA CountShort ==
  ASSUME NEW service
  PROVE  /\ Cardinality(Entries(<<>>, service)) = 0
         /\ \A e \in Row : Cardinality(Entries(<<e>>, service)) = IF e.service = service THEN 1 ELSE 0
  <1>1. Entries(<<>>, service) = {}
    BY DEF Entries
  <1>2. ASSUME NEW e \in Row
        PROVE  Entries(<<e>>, service) = IF e.service = service THEN {1} ELSE {}
    BY DEF Entries
  <1>3. QED BY <1>1, <1>2, FS_EmptySet, FS_Singleton

(* What a handler logs in the end: nothing, or an API row.                  *)
ApiEntries == {<<>>} \cup {<<e>> : e \in {row \in Row : row.service = "api"}}

Number(entries) == IF entries = <<>> THEN 0 ELSE 1

LEMMA CountApi ==
  ASSUME NEW entries \in ApiEntries
  PROVE  /\ entries \in Seq(Row)
         /\ Cardinality(Entries(entries, "api")) = Number(entries)
         /\ Cardinality(Entries(entries, "megaeth-payment")) = 0
         /\ Number(entries) \in {0, 1}
  <1>1. CASE entries = <<>>
    BY <1>1, CountShort DEF Number
  <1>2. CASE entries # <<>>
    <2>1. PICK e \in Row : e.service = "api" /\ entries = <<e>>
      BY <1>2 DEF ApiEntries
    <2>2. QED BY <1>2, <2>1, CountShort DEF Number
  <1>3. QED BY <1>1, <1>2

LEMMA CountPayment ==
  ASSUME NEW x \in Context, NEW code \in Codes
  PROVE  /\ PaymentRow(x, code) \in Seq(Row)
         /\ Cardinality(Entries(PaymentRow(x, code), "api")) = 0
         /\ Cardinality(Entries(PaymentRow(x, code), "megaeth-payment"))
              = IF x.method = "direct" THEN 1 ELSE 0
  <1> DEFINE e == [service |-> "megaeth-payment", status |-> code, amount |-> TRUE]
  <1>1. e \in Row /\ e.service = "megaeth-payment"
    BY DEF Row
  <1>2. CASE x.method = "direct"
    <2>1. PaymentRow(x, code) = <<e>>
      BY <1>2 DEF PaymentRow
    <2> HIDE DEF e
    <2>2. /\ Cardinality(Entries(<<e>>, "api")) = 0
          /\ Cardinality(Entries(<<e>>, "megaeth-payment")) = 1
      BY <1>1, CountShort
    <2>3. <<e>> \in Seq(Row)
      BY <1>1
    <2>4. QED BY <1>2, <2>1, <2>2, <2>3
  <1>3. CASE x.method # "direct"
    BY <1>3, CountShort DEF PaymentRow
  <1>4. QED BY <1>2, <1>3

(* A row more or less for a payment, and for the handler.                   *)
LEMMA LogEffect ==
  ASSUME TypeOK, NEW r \in Requests, NEW p \in Seq(Row), NEW entries \in ApiEntries,
         Cardinality(Entries(p, "api")) = 0, Log(r, p \o entries)
  PROVE  /\ rows' \in [Requests -> Seq(Row)]
         /\ \A d \in Requests \ {r} : rows'[d] = rows[d]
         /\ Count(r, "api")' = Count(r, "api") + Number(entries)
         /\ Count(r, "megaeth-payment")'
              = Count(r, "megaeth-payment") + Cardinality(Entries(p, "megaeth-payment"))
  <1>1. rows \in [Requests -> Seq(Row)] /\ rows[r] \in Seq(Row)
    BY DEF TypeOK
  <1>2. entries \in Seq(Row) /\ p \o entries \in Seq(Row) /\ rows[r] \o (p \o entries) \in Seq(Row)
    BY <1>1, CountApi, ConcatProperties
  <1>3. /\ rows' = [rows EXCEPT ![r] = rows[r] \o (p \o entries)]
        /\ rows'[r] = rows[r] \o (p \o entries)
    BY <1>1 DEF Log
  <1>4. ASSUME NEW service
        PROVE  /\ Cardinality(Entries(rows'[r], service))
                    = Cardinality(Entries(rows[r], service))
                        + (Cardinality(Entries(p, service)) + Cardinality(Entries(entries, service)))
               /\ Cardinality(Entries(rows[r], service)) \in Nat
               /\ Cardinality(Entries(p, service)) \in Nat
    <2>1. Cardinality(Entries(p \o entries, service))
            = Cardinality(Entries(p, service)) + Cardinality(Entries(entries, service))
      BY <1>2, CountConcat
    <2>2. Cardinality(Entries(rows[r] \o (p \o entries), service))
            = Cardinality(Entries(rows[r], service)) + Cardinality(Entries(p \o entries, service))
      BY <1>1, <1>2, CountConcat
    <2>3. /\ Cardinality(Entries(rows[r], service)) \in Nat
          /\ Cardinality(Entries(p, service)) \in Nat
      BY <1>1, EntriesAreFinite
    <2>4. QED BY <1>3, <2>1, <2>2, <2>3
  <1>5. /\ Count(r, "api")' = Count(r, "api") + Number(entries)
        /\ Count(r, "megaeth-payment")'
             = Count(r, "megaeth-payment") + Cardinality(Entries(p, "megaeth-payment"))
    BY <1>4, CountApi DEF Count
  <1>6. QED BY <1>1, <1>2, <1>3, <1>5

-----------------------------------------------------------------------------
(* What the end of a handler, or of another answer, does to its request.    *)

OthersRest(r) ==
  \A d \in Requests \ {r} :
    at'[d] = at[d] /\ sent'[d] = sent[d] /\ rows'[d] = rows[d]

ResponseTypes ==
  /\ at \in [Requests -> Stages]
  /\ sent \in [Requests -> Codes \cup {0}]
  /\ draft \in [Requests -> Codes \cup {0}]
  /\ rows \in [Requests -> Seq(Row)]

Ended(r, x, n) ==
  /\ ResponseTypes'
  /\ OthersRest(r)
  /\ at'[r] \in {"over", "settling"}
  /\ at'[r] = "settling" => x.verified /\ sent[r] = 0 /\ sent'[r] = 0
  /\ at'[r] = "over" => sent'[r] # 0
  /\ sent[r] # 0 => sent'[r] = sent[r]
  /\ Count(r, "api")' = Count(r, "api") + n
  /\ Count(r, "megaeth-payment")'
       = Count(r, "megaeth-payment") + (IF x.method = "direct" /\ sent[r] = 0 THEN 1 ELSE 0)

LEMMA EndEffect ==
  ASSUME TypeOK, NEW r \in Requests, NEW x \in Context, NEW code \in Codes,
         NEW entries \in ApiEntries,
         IF HeadersSent(r) THEN TooLate(r, entries) ELSE Finish(r, x, code, entries)
  PROVE  Ended(r, x, Number(entries))
  <1>1. /\ at \in [Requests -> Stages] /\ sent \in [Requests -> Codes \cup {0}]
        /\ draft \in [Requests -> Codes \cup {0}]
        /\ 0 \notin Codes /\ code \in Nat
        /\ "over" \in Stages /\ "settling" \in Stages
    BY DEF TypeOK, Codes, Stages
  <1>2. CASE HeadersSent(r)
    <2>1. /\ at' = [at EXCEPT ![r] = "over"] /\ sent' = sent /\ draft' = draft
          /\ Log(r, entries)
      BY <1>2 DEF TooLate, Move
    <2>2. /\ <<>> \in Seq(Row) /\ entries \in Seq(Row) /\ <<>> \o entries = entries
      BY CountApi
    <2>3. Log(r, <<>> \o entries)
      BY <2>1, <2>2
    <2>4. /\ Cardinality(Entries(<<>>, "api")) = 0
          /\ Cardinality(Entries(<<>>, "megaeth-payment")) = 0
      BY CountShort
    <2>5. /\ rows' \in [Requests -> Seq(Row)]
          /\ \A d \in Requests \ {r} : rows'[d] = rows[d]
          /\ Count(r, "api")' = Count(r, "api") + Number(entries)
          /\ Count(r, "megaeth-payment")' = Count(r, "megaeth-payment") + 0
      BY <2>2, <2>3, <2>4, LogEffect
    <2>6. QED
      BY <1>1, <1>2, <2>1, <2>5 DEF Ended, ResponseTypes, OthersRest, HeadersSent
  <1>3. CASE ~HeadersSent(r)
    <2>1. /\ Log(r, PaymentRow(x, code) \o entries)
          /\ \/ /\ x.verified /\ at' = [at EXCEPT ![r] = "settling"]
                /\ draft' = [draft EXCEPT ![r] = code] /\ sent' = sent
             \/ /\ at' = [at EXCEPT ![r] = "over"]
                /\ sent' = [sent EXCEPT ![r] = code] /\ draft' = draft
      BY <1>3 DEF Finish, Move
    <2>2. /\ PaymentRow(x, code) \in Seq(Row)
          /\ Cardinality(Entries(PaymentRow(x, code), "api")) = 0
          /\ Cardinality(Entries(PaymentRow(x, code), "megaeth-payment"))
               = IF x.method = "direct" THEN 1 ELSE 0
      BY CountPayment
    <2>3. /\ rows' \in [Requests -> Seq(Row)]
          /\ \A d \in Requests \ {r} : rows'[d] = rows[d]
          /\ Count(r, "api")' = Count(r, "api") + Number(entries)
          /\ Count(r, "megaeth-payment")'
               = Count(r, "megaeth-payment") + (IF x.method = "direct" THEN 1 ELSE 0)
      BY <2>1, <2>2, LogEffect
    <2>4. /\ ResponseTypes' /\ OthersRest(r)
          /\ at'[r] \in {"over", "settling"}
          /\ at'[r] = "settling" => x.verified /\ sent[r] = 0 /\ sent'[r] = 0
          /\ at'[r] = "over" => sent'[r] # 0
          /\ sent[r] = 0
      BY <1>1, <1>3, <2>1, <2>3 DEF ResponseTypes, OthersRest, HeadersSent
    <2>5. QED BY <2>3, <2>4 DEF Ended
  <1>4. QED BY <1>2, <1>3

LEMMA AnswerEffect ==
  ASSUME TypeOK, NEW r \in Requests, NEW x \in Context, NEW code \in Codes, Answer(r, x, code)
  PROVE  Ended(r, x, 0)
  <1>1. <<>> \in ApiEntries /\ Number(<<>>) = 0
    BY DEF ApiEntries, Number
  <1>2. QED BY <1>1, EndEffect DEF Answer

LEMMA ApiRowType ==
  ASSUME NEW x \in Context, NEW status \in Codes \cup {0, 500, 502}
  PROVE  ApiRow(x, status) \in ApiEntries /\ Number(ApiRow(x, status)) = 1
  <1> DEFINE row == [service |-> "api", status |-> status, amount |-> x.method \in {"direct", "sdk"}]
  <1>1. (x.method \in {"direct", "sdk"}) \in BOOLEAN
    OBVIOUS
  <1>2. row \in Row /\ row.service = "api"
    BY <1>1 DEF Row
  <1>3. ApiRow(x, status) = <<row>>
    BY DEF ApiRow
  <1> HIDE DEF row
  <1>4. <<row>> # <<>>
    OBVIOUS
  <1>5. QED BY <1>2, <1>3, <1>4 DEF ApiEntries, Number

(* The guard and the handler: the request is over, answered or not, or its  *)
(* upstream is called, and it has not come so far without a payment.        *)
Guarded(r, x) ==
  /\ x402' = [x402 EXCEPT ![r] = x]
  /\ \/ /\ \E n \in {0, 1} : Ended(r, x, n)
        /\ called' = called
        /\ served' = served \/ (served' = served \cup {r} /\ Passes(x))
     \/ /\ at' = [at EXCEPT ![r] = "upstream"] /\ UNCHANGED <<sent, draft, rows>>
        /\ served' = served \cup {r} /\ called' = called \cup {r} /\ Passes(x)
     \/ /\ at' = [at EXCEPT ![r] = "over"] /\ UNCHANGED <<sent, draft, rows>>
        /\ served' = served \cup {r} /\ called' = called /\ Passes(x)

LEMMA GuardEffect ==
  ASSUME TypeOK, NEW r \in Requests, NEW x \in Context, PaidGuard(r, x)
  PROVE  Guarded(r, x)
  <1>1. CASE Passes(x)
    <2>1. Handler(r, x)
      BY <1>1 DEF PaidGuard, Passes
    <2>2. /\ x402' = [x402 EXCEPT ![r] = x] /\ served' = served \cup {r}
      BY <2>1 DEF Handler
    <2>3. CASE /\ \E end \in EarlyEnds(x) :
                    IF HeadersSent(r) THEN TooLate(r, end[2]) ELSE Finish(r, x, end[1], end[2])
               /\ UNCHANGED called
      <3>1. PICK end \in EarlyEnds(x) :
              IF HeadersSent(r) THEN TooLate(r, end[2]) ELSE Finish(r, x, end[1], end[2])
        BY <2>3
      <3>2. /\ ApiRow(x, 0) \in ApiEntries /\ ApiRow(x, 502) \in ApiEntries
            /\ ApiRow(x, 500) \in ApiEntries /\ <<>> \in ApiEntries
        BY ApiRowType DEF ApiEntries
      <3>3. end[1] \in Codes /\ end[2] \in ApiEntries
        BY <3>2 DEF EarlyEnds, Codes
      <3>4. Ended(r, x, Number(end[2])) /\ Number(end[2]) \in {0, 1}
        BY <3>1, <3>3, EndEffect, CountApi
      <3>5. QED BY <1>1, <2>2, <2>3, <3>4 DEF Guarded
    <2>4. CASE /\ Move(r, "upstream") /\ called' = called \cup {r}
               /\ UNCHANGED <<sent, draft, rows>>
      BY <1>1, <2>2, <2>4 DEF Guarded, Move
    <2>5. CASE Rejects(r) /\ UNCHANGED called
      BY <1>1, <2>2, <2>5 DEF Guarded, Rejects, Move
    <2>6. QED BY <2>1, <2>3, <2>4, <2>5 DEF Handler
  <1>2. CASE ~Passes(x)
    <2>1. Answer(r, x, 403) /\ x402' = [x402 EXCEPT ![r] = x] /\ UNCHANGED <<served, called>>
      BY <1>2 DEF PaidGuard, Passes
    <2>2. Ended(r, x, 0)
      BY <2>1, AnswerEffect DEF Codes
    <2>3. QED BY <2>1, <2>2 DEF Guarded
  <1>3. QED BY <1>1, <1>2

-----------------------------------------------------------------------------
(* The invariant of the request a step is about. *)

LEMMA GuardKeepsSound ==
  ASSUME IInv, NEW r \in Requests, NEW x \in Context, Guarded(r, x), input' = input,
         at[r] \in {"limiter", "direct", "sdk"},
         x.verified => x.method # "direct",
         x.bypassed => IsDev /\ input[r].bypass,
         x.method = "direct" => owner'[input[r].tx] = r /\ sent[r] = 0
  PROVE  Sound(r)'
  <1>1. x402'[r] = x /\ input'[r] = input[r] /\ input[r] \in Input
    BY DEF Guarded, IInv, TypeOK, Sound
  <1>2. Count(r, "megaeth-payment") = 0
    BY DEF IInv, Sound, Granted
  <1>3. CASE /\ at' = [at EXCEPT ![r] = "upstream"] /\ UNCHANGED <<sent, draft, rows>>
             /\ served' = served \cup {r} /\ called' = called \cup {r} /\ Passes(x)
    <2>1. at'[r] = "upstream" /\ sent'[r] = sent[r] /\ Count(r, "megaeth-payment")' = 0
      BY <1>2, <1>3 DEF IInv, TypeOK, Count
    <2>2. QED BY <1>1, <1>3, <2>1 DEF Sound, Granted, HeadersSent, Passes
  <1>4. CASE \E n \in {0, 1} : Ended(r, x, n)
    <2>1. /\ at'[r] \in {"over", "settling"}
          /\ at'[r] = "settling" => x.verified /\ sent'[r] = 0
          /\ at'[r] = "over" => sent'[r] # 0
          /\ Count(r, "megaeth-payment")'
               = IF x.method = "direct" /\ sent[r] = 0 THEN 1 ELSE 0
      BY <1>2, <1>4 DEF Ended
    <2>2. r \in served' => Passes(x)
      BY DEF Guarded, IInv, Sound
    <2>3. QED BY <1>1, <2>1, <2>2 DEF Sound, Granted, HeadersSent, Passes
  <1>5. CASE /\ at' = [at EXCEPT ![r] = "over"] /\ UNCHANGED <<sent, draft, rows>>
             /\ served' = served \cup {r} /\ called' = called /\ Passes(x)
    <2>1. at'[r] = "over" /\ sent'[r] = sent[r] /\ Count(r, "megaeth-payment")' = 0
      BY <1>2, <1>5 DEF IInv, TypeOK, Count
    <2>2. QED BY <1>1, <1>5, <2>1 DEF Sound, Granted, HeadersSent, Passes
  <1>6. QED BY <1>3, <1>4, <1>5 DEF Guarded

(* An answer, early or late, that leaves the payment context alone.         *)
LEMMA EndKeepsSound ==
  ASSUME IInv, NEW r \in Requests, NEW n \in {0, 1}, Ended(r, x402[r], n),
         UNCHANGED <<input, x402, owner, served>>
  PROVE  Sound(r)'
  <1>1. Sound(r)
    BY DEF IInv
  <1>2. /\ at'[r] \in {"over", "settling"}
        /\ at'[r] = "settling" => x402[r].verified /\ sent'[r] = 0
        /\ at'[r] = "over" => sent'[r] # 0
        /\ sent[r] # 0 => sent'[r] # 0
        /\ Count(r, "megaeth-payment")' = Count(r, "megaeth-payment")
              + (IF x402[r].method = "direct" /\ sent[r] = 0 THEN 1 ELSE 0)
    BY DEF Ended
  <1>3. Count(r, "megaeth-payment") = IF Granted(r) /\ HeadersSent(r) THEN 1 ELSE 0
    BY <1>1 DEF Sound
  <1>4. Count(r, "megaeth-payment")' = IF Granted(r)' /\ HeadersSent(r)' THEN 1 ELSE 0
    BY <1>1, <1>2, <1>3 DEF Sound, Granted, HeadersSent
  <1>5. QED BY <1>1, <1>2, <1>4 DEF Sound

-----------------------------------------------------------------------------
(* A step of one request. *)

Bystanders(r) ==
  /\ OthersRest(r)
  /\ \A d \in Requests \ {r} : /\ input'[d] = input[d] /\ x402'[d] = x402[d]
                               /\ d \in served' <=> d \in served
                               /\ \A t \in Txs : owner[t] = d => owner'[t] = d

(* What the step is to PaidHandler. *)
Rests(r) ==
  Stage(r)' = Stage(r) /\ sent'[r] = sent[r] /\ Count(r, "api")' = Count(r, "api")

CallsUpstream(r) ==
  /\ Stage(r) = "before" /\ Stage(r)' = "upstream"
  /\ sent'[r] = sent[r]
  /\ Count(r, "api")' = Count(r, "api")

Answers(r) ==
  /\ sent[r] = 0 /\ sent'[r] # 0
  /\ Stage(r)' = Stage(r) /\ Count(r, "api")' = Count(r, "api")

Ends(r) ==
  \E n \in {0, 1} :
    /\ Stage(r) \in {"before", "upstream"} /\ Stage(r)' = "over"
    /\ Stage(r) = "upstream" => n = 1
    /\ sent[r] # 0 => sent'[r] = sent[r]
    /\ Count(r, "api")' = Count(r, "api") + n

Good(r) ==
  /\ TypeOK'
  /\ Sound(r)'
  /\ Bystanders(r)
  /\ Rests(r) \/ CallsUpstream(r) \/ Answers(r) \/ Ends(r)

LEMMA BystanderStaysSound ==
  ASSUME IInv, NEW r \in Requests, Bystanders(r), NEW d \in Requests \ {r}
  PROVE  Sound(d)'
  <1>1. /\ at'[d] = at[d] /\ sent'[d] = sent[d] /\ rows'[d] = rows[d]
        /\ input'[d] = input[d] /\ x402'[d] = x402[d]
        /\ d \in served' <=> d \in served
        /\ \A t \in Txs : owner[t] = d => owner'[t] = d
    BY DEF Bystanders, OthersRest
  <1>2. Count(d, "megaeth-payment")' = Count(d, "megaeth-payment")
    BY <1>1 DEF Count
  <1>3. input[d] \in Input /\ owner[input[d].tx] = d => owner'[input[d].tx] = d
    BY <1>1 DEF Input
  <1>4. Sound(d)
    BY DEF IInv
  <1>5. QED BY <1>1, <1>2, <1>3, <1>4 DEF Sound, Granted, HeadersSent

LEMMA GuardIsGood ==
  ASSUME IInv, NEW r \in Requests, NEW x \in Context, Guarded(r, x),
         at[r] \in {"limiter", "direct", "sdk"},
         x.verified => x.method # "direct",
         x.bypassed => IsDev /\ input[r].bypass,
         x.method = "direct" => owner'[input[r].tx] = r /\ sent[r] = 0,
         owner' \in [Txs -> Requests \cup {NoOne}],
         \A d \in Requests \ {r}, t \in Txs : owner[t] = d => owner'[t] = d,
         UNCHANGED <<gone, input, settled>>
  PROVE  Good(r)
  <1>1. Sound(r)'
    BY GuardKeepsSound
  <1>2. /\ x402' \in [Requests -> Context]
        /\ \A d \in Requests \ {r} : x402'[d] = x402[d] /\ (d \in served' <=> d \in served)
        /\ called' \subseteq served' /\ served' \subseteq Requests
    BY DEF Guarded, IInv, TypeOK
  <1>3. CASE /\ at' = [at EXCEPT ![r] = "upstream"] /\ UNCHANGED <<sent, draft, rows>>
    <2>1. TypeOK'
      BY <1>2, <1>3 DEF IInv, TypeOK, Stages
    <2>2. Bystanders(r)
      BY <1>2, <1>3 DEF IInv, TypeOK, Bystanders, OthersRest
    <2>3. CallsUpstream(r)
      BY <1>3 DEF CallsUpstream, Stage, HeadersSent, Count, IInv, TypeOK
    <2>4. QED BY <1>1, <2>1, <2>2, <2>3 DEF Good
  <1>4. CASE \E n \in {0, 1} : Ended(r, x, n)
    <2>1. TypeOK'
      BY <1>2, <1>4 DEF IInv, TypeOK, Ended, ResponseTypes
    <2>2. Bystanders(r)
      BY <1>2, <1>4 DEF Bystanders, Ended
    <2>3. Ends(r)
      BY <1>4 DEF Ends, Ended, Stage, HeadersSent
    <2>4. QED BY <1>1, <2>1, <2>2, <2>3 DEF Good
  <1>5. CASE /\ at' = [at EXCEPT ![r] = "over"] /\ UNCHANGED <<sent, draft, rows>>
    <2>1. TypeOK'
      BY <1>2, <1>5 DEF IInv, TypeOK, Stages
    <2>2. Bystanders(r)
      BY <1>2, <1>5 DEF IInv, TypeOK, Bystanders, OthersRest
    <2>3. Count(r, "api") \in Nat
      BY EntriesAreFinite DEF Count, IInv, TypeOK
    <2>4. at[r] # at'[r] /\ at'[r] = "over" /\ sent'[r] = sent[r]
          /\ Count(r, "api")' = Count(r, "api") + 0
      BY <1>5, <2>3 DEF Count, IInv, TypeOK
    <2>5. Ends(r)
      BY <2>4 DEF Ends, Stage
    <2>6. QED BY <1>1, <2>1, <2>2, <2>5 DEF Good
  <1>6. QED BY <1>3, <1>4, <1>5 DEF Guarded

LEMMA EndIsGood ==
  ASSUME IInv, NEW r \in Requests, NEW n \in {0, 1}, Ended(r, x402[r], n),
         at[r] \notin {"settling", "over"}, at[r] = "upstream" => n = 1,
         UNCHANGED <<gone, input, x402, owner, settled, served, called>>
  PROVE  Good(r)
  <1>1. Sound(r)'
    BY EndKeepsSound
  <1>2. TypeOK'
    BY DEF IInv, TypeOK, Ended, ResponseTypes
  <1>3. Bystanders(r)
    BY DEF Bystanders, Ended
  <1>4. Ends(r)
    BY DEF Ends, Ended, Stage, HeadersSent, IInv, TypeOK, Stages
  <1>5. QED BY <1>1, <1>2, <1>3, <1>4 DEF Good

(* A step that moves a request on, before anything is sent or logged.       *)
LEMMA MoveIsGood ==
  ASSUME IInv, NEW r \in Requests, NEW stage \in Stages, at' = [at EXCEPT ![r] = stage],
         TypeOK', Sound(r)', UNCHANGED <<sent, rows, served, owner>>,
         \A d \in Requests \ {r} : input'[d] = input[d] /\ x402'[d] = x402[d],
         \/ at[r] \notin {"upstream", "settling", "over"} /\ stage # "upstream"
         \/ at[r] = stage
  PROVE  Good(r)
  <1>1. /\ at'[r] = stage /\ OthersRest(r)
        /\ Count(r, "api")' = Count(r, "api")
        /\ HeadersSent(r)' = HeadersSent(r)
    BY DEF IInv, TypeOK, OthersRest, Count, HeadersSent
  <1>2. Bystanders(r)
    BY <1>1 DEF Bystanders
  <1>3. Count(r, "api") \in Nat
    BY EntriesAreFinite DEF Count, IInv, TypeOK
  <1>4. Rests(r) \/ Ends(r)
    BY <1>1, <1>3 DEF Rests, Ends, Stage, IInv, TypeOK, Stages
  <1>5. QED BY <1>2, <1>4 DEF Good

-----------------------------------------------------------------------------
(* The actions. *)

LEMMA ContextTypes ==
  /\ Fresh \in Context
  /\ \A x \in Context, m \in Methods :
       /\ [x EXCEPT !.method = m] \in Context
       /\ [x EXCEPT !.verified = TRUE] \in Context
       /\ [x EXCEPT !.bypassed = TRUE, !.method = m] \in Context
  BY DEF Fresh, Context, Methods

LEMMA ReadingIsGood ==
  ASSUME IInv, NEW r \in Requests, Arrive(r) \/ BodyEnds(r) \/ OverLimit(r)
  PROVE  Good(r)
  <1> USE DEF IInv
  <1>1. CASE Arrive(r)
    <2>1. PICK i \in Input \cup BadInput : input' = [input EXCEPT ![r] = i]
      BY <1>1 DEF Arrive
    <2>2. TypeOK'
      BY <1>1, <2>1 DEF Arrive, Move, TypeOK, Stages
    <2>3. x402[r] = Fresh /\ at'[r] = "reading"
      BY <1>1 DEF Sound, Arrive, Move, TypeOK
    <2>4. Sound(r)'
      BY <1>1, <2>3 DEF Sound, Arrive, Granted, HeadersSent, Count, Fresh
    <2>5. QED BY <1>1, <2>1, <2>2, <2>4, MoveIsGood DEF Arrive, Move, TypeOK, Stages
  <1>2. CASE BodyRead(r)
    <2>1. TypeOK' /\ at'[r] = "limiter"
      BY <1>2 DEF BodyRead, Move, TypeOK, Stages
    <2>2. Sound(r)'
      BY <1>2, <2>1 DEF Sound, BodyRead, Granted, HeadersSent, Count
    <2>3. QED BY <1>2, <2>1, <2>2, MoveIsGood DEF BodyRead, Move, Stages
  <1>3. CASE BodyAborted(r)
    <2>1. TypeOK' /\ at'[r] = "over"
      BY <1>3 DEF BodyAborted, Move, TypeOK, Stages
    <2>2. Sound(r)'
      BY <1>3, <2>1 DEF Sound, BodyAborted, Granted, HeadersSent, Count
    <2>3. QED BY <1>3, <2>1, <2>2, MoveIsGood DEF BodyAborted, Move, Stages
  <1>4. CASE BadBody(r) \/ OverLimit(r)
    <2>1. /\ Answer(r, Fresh, 503) \/ Answer(r, Fresh, 429)
          /\ at[r] \in {"reading", "limiter"}
          /\ UNCHANGED <<gone, input, x402, owner, settled, served, called>>
      BY <1>4 DEF BadBody, OverLimit
    <2>2. x402[r] = Fresh
      BY <2>1 DEF Sound
    <2>3. Ended(r, x402[r], 0)
      <3>1. 503 \in Codes /\ 429 \in Codes
        BY DEF Codes
      <3>2. Ended(r, Fresh, 0)
        BY <2>1, <3>1, AnswerEffect, ContextTypes
      <3>3. QED BY <2>2, <3>2 DEF Ended
    <2>4. QED BY <2>1, <2>3, EndIsGood
  <1>5. QED BY <1>1, <1>2, <1>3, <1>4 DEF BodyEnds

LEMMA WithinLimitIsGood ==
  ASSUME IInv, NEW r \in Requests, WithinLimit(r)
  PROVE  Good(r)
  <1> USE DEF IInv
  <1> DEFINE x == DevBypass(r, Fresh)
             y == ExtractContext(r, x)
  <1>1. /\ at[r] = "limiter" /\ input[r] \in Input /\ x402[r] = Fresh
        /\ sent[r] = 0 /\ r \notin served
        /\ UNCHANGED <<gone, input, owner, settled>>
    BY DEF WithinLimit, Sound
  <1>2. /\ x \in Context /\ ~x.verified /\ x.method # "direct"
        /\ x.bypassed => IsDev /\ input[r].bypass
    BY ContextTypes DEF DevBypass, Fresh, Context, Methods
  <1>3. /\ y \in Context /\ ~y.verified /\ y.method # "direct"
        /\ y.bypassed => IsDev /\ input[r].bypass
    BY <1>2, ContextTypes DEF ExtractContext, WithContext, Context, Methods
  <1> HIDE DEF x, y
  <1>4. ASSUME NEW z \in Context, ~z.verified, z.method # "direct",
               z.bypassed => IsDev /\ input[r].bypass,
               NEW stage \in {"direct", "sdk"}, Move(r, stage),
               x402' = [x402 EXCEPT ![r] = z],
               UNCHANGED <<sent, draft, served, called, rows>>
        PROVE  Good(r)
    <2>1. at'[r] = stage /\ x402'[r] = z
      BY <1>4 DEF Move, TypeOK
    <2>2. TypeOK'
      BY <1>1, <1>4 DEF Move, TypeOK, Stages
    <2>3. Sound(r)'
      BY <1>1, <1>4, <2>1 DEF Sound, Granted, HeadersSent, Count, Fresh
    <2>4. QED BY <1>1, <1>4, <2>2, <2>3, MoveIsGood DEF Move, TypeOK, Stages
  <1>5. CASE input[r].header = "direct" /\ input[r].priced
    BY <1>2, <1>4, <1>5 DEF WithinLimit, x
  <1>6. CASE ~(input[r].header = "direct" /\ input[r].priced)
    <2>1. SdkWrapper(r, y)
      BY <1>6 DEF WithinLimit, x, y
    <2>2. CASE y.bypassed
      <3>1. Guarded(r, y)
        BY <1>3, <2>1, <2>2, GuardEffect DEF SdkWrapper
      <3>2. QED BY <1>1, <1>3, <3>1, GuardIsGood DEF TypeOK
    <2>3. CASE ~y.bypassed
      BY <1>3, <1>4, <2>1, <2>3 DEF SdkWrapper
    <2>4. QED BY <2>2, <2>3
  <1>7. QED BY <1>5, <1>6

LEMMA DirectIsGood ==
  ASSUME IInv, NEW r \in Requests, DirectEnds(r)
  PROVE  Good(r)
  <1> USE DEF IInv
  <1>1. /\ at[r] = "direct" /\ input[r] \in Input /\ ~x402[r].verified
        /\ sent[r] = 0 /\ x402[r] \in Context /\ Sound(r)
    BY DEF DirectEnds, DirectGrants, DirectRefuses, Sound, TypeOK
  <1>2. CASE DirectGrants(r)
    <2> DEFINE x == [x402[r] EXCEPT !.method = "direct"]
    <2>1. /\ x \in Context /\ ~x.verified /\ x.bypassed = x402[r].bypassed
      BY <1>1, ContextTypes DEF Context, Methods
    <2>2. Guarded(r, x)
      BY <1>2, <2>1, GuardEffect DEF DirectGrants
    <2>3. /\ input[r].tx \in Txs /\ owner[input[r].tx] = NoOne
          /\ owner' = [owner EXCEPT ![input[r].tx] = r]
      BY <1>1, <1>2 DEF DirectGrants, Claim, Input
    <2>4. /\ owner' \in [Txs -> Requests \cup {NoOne}]
          /\ owner'[input[r].tx] = r
          /\ \A d \in Requests \ {r}, t \in Txs : owner[t] = d => owner'[t] = d
      BY <2>3, GatewayAssumption DEF TypeOK
    <2>5. x.bypassed => IsDev /\ input[r].bypass
      BY <1>1, <2>1 DEF Sound
    <2> HIDE DEF x
    <2>6. QED BY <1>1, <1>2, <2>1, <2>2, <2>4, <2>5, GuardIsGood DEF DirectGrants
  <1>3. CASE DirectRefuses(r)
    <2>1. Ended(r, x402[r], 0)
      <3>1. (Answer(r, x402[r], 402) \/ Answer(r, x402[r], 503)) /\ TypeOK
        BY <1>3 DEF DirectRefuses
      <3>2. 402 \in Codes /\ 503 \in Codes
        BY DEF Codes
      <3>3. QED BY <1>1, <3>1, <3>2, AnswerEffect
    <2>2. QED BY <1>1, <1>3, <2>1, EndIsGood DEF DirectRefuses
  <1>4. QED BY <1>2, <1>3 DEF DirectEnds

LEMMA AbandonedClaimIsGood ==
  ASSUME IInv, NEW r \in Requests, AbandonedClaim(r)
  PROVE  Good(r)
  <1> USE DEF IInv
  <1>1. /\ input[r].tx \in Txs /\ owner[input[r].tx] = NoOne
        /\ owner' = [owner EXCEPT ![input[r].tx] = r]
        /\ UNCHANGED <<gone, input, at, x402, sent, draft, settled, served, called, rows>>
    BY DEF AbandonedClaim, Claim, Input
  <1>2. /\ owner' \in [Txs -> Requests \cup {NoOne}]
        /\ \A d \in Requests, t \in Txs : owner[t] = d => owner'[t] = d
    BY <1>1, GatewayAssumption DEF TypeOK
  <1>3. TypeOK'
    BY <1>1, <1>2 DEF TypeOK
  <1>4. Sound(r)'
    BY <1>1, <1>2 DEF Sound, Granted, HeadersSent, Count
  <1>5. Bystanders(r)
    BY <1>1, <1>2 DEF Bystanders, OthersRest
  <1>6. Rests(r)
    BY <1>1 DEF Rests, Stage, HeadersSent, Count
  <1>7. QED BY <1>3, <1>4, <1>5, <1>6 DEF Good

LEMMA SdkIsGood ==
  ASSUME IInv, NEW r \in Requests, SdkVerifies(r) \/ SdkPassesUnpriced(r) \/ SdkRefuses(r)
  PROVE  Good(r)
  <1> USE DEF IInv
  <1>1. /\ at[r] = "sdk" /\ x402[r] \in Context /\ x402[r].method # "direct" /\ Sound(r)
        /\ UNCHANGED <<gone, input, owner, settled>>
        /\ owner \in [Txs -> Requests \cup {NoOne}]
    BY DEF SdkVerifies, SdkPassesUnpriced, SdkRefuses, Sound, TypeOK
  <1>2. ASSUME NEW x \in Context, x.method # "direct", x.bypassed = x402[r].bypassed,
               PaidGuard(r, x)
        PROVE  Good(r)
    <2>1. Guarded(r, x)
      BY <1>2, GuardEffect
    <2>2. x.bypassed => IsDev /\ input[r].bypass
      BY <1>1, <1>2 DEF Sound
    <2>3. QED BY <1>1, <1>2, <2>1, <2>2, GuardIsGood
  <1>3. CASE SdkVerifies(r)
    <2> DEFINE x == [x402[r] EXCEPT !.verified = TRUE]
               y == IF HeadersSent(r) \/ x.method # "none" THEN x ELSE WithContext(r, x)
    <2>1. x \in Context /\ x.method = x402[r].method /\ x.bypassed = x402[r].bypassed
      BY <1>1, ContextTypes DEF Context
    <2>2. y \in Context /\ y.method # "direct" /\ y.bypassed = x402[r].bypassed
      <3> HIDE DEF x
      <3>1. QED BY <1>1, <2>1, ContextTypes DEF WithContext, Context, Methods
    <2>3. PaidGuard(r, y)
      BY <1>3 DEF SdkVerifies
    <2> HIDE DEF x, y
    <2>4. QED BY <1>2, <2>2, <2>3
  <1>4. CASE SdkPassesUnpriced(r)
    BY <1>1, <1>2, <1>4 DEF SdkPassesUnpriced
  <1>5. CASE SdkRefuses(r)
    <2>1. Ended(r, x402[r], 0)
      BY <1>1, <1>5, AnswerEffect DEF SdkRefuses, Codes
    <2>2. QED BY <1>1, <1>5, <2>1, EndIsGood DEF SdkRefuses
  <1>6. QED BY <1>3, <1>4, <1>5

LEMMA UpstreamIsGood ==
  ASSUME IInv, NEW r \in Requests, UpstreamAnswers(r) \/ UpstreamFails(r)
  PROVE  Good(r)
  <1> USE DEF IInv
  <1>1. /\ at[r] = "upstream" /\ x402[r] \in Context
        /\ UNCHANGED <<gone, input, x402, owner, settled, served, called>>
    BY DEF UpstreamAnswers, UpstreamFails, TypeOK
  <1>2. PICK status \in {200, 429, 500}, code \in {200, 503} :
          IF HeadersSent(r) THEN TooLate(r, ApiRow(x402[r], status))
                            ELSE Finish(r, x402[r], code, ApiRow(x402[r], status))
    BY DEF UpstreamAnswers, UpstreamFails
  <1>3. ApiRow(x402[r], status) \in ApiEntries /\ Number(ApiRow(x402[r], status)) = 1
    BY <1>1, ApiRowType DEF Codes
  <1>4. Ended(r, x402[r], 1)
    BY <1>1, <1>2, <1>3, EndEffect DEF Codes
  <1>5. QED BY <1>1, <1>4, EndIsGood

LEMMA SettlementIsGood ==
  ASSUME IInv, NEW r \in Requests, SdkSettles(r) \/ TimeoutWhileSettling(r)
  PROVE  Good(r)
  <1> USE DEF IInv
  <1>1. /\ at[r] = "settling" /\ sent[r] = 0 /\ x402[r].verified /\ Sound(r)
        /\ UNCHANGED <<gone, input, x402, owner, served, called, rows>>
    BY DEF SdkSettles, TimeoutWhileSettling, Sound
  <1>2. CASE SdkSettles(r)
    <2>1. /\ at' = [at EXCEPT ![r] = "over"] /\ draft' = draft
          /\ settled' \subseteq Requests
          /\ \E code \in Codes \cup {0} : sent' = [sent EXCEPT ![r] = code]
      BY <1>2 DEF SdkSettles, Move, TypeOK, Codes
    <2>2. /\ TypeOK' /\ at'[r] = "over" /\ OthersRest(r)
      BY <1>1, <2>1 DEF TypeOK, Stages, OthersRest
    <2>3. Sound(r)'
      BY <1>1, <2>2 DEF Sound, Granted, HeadersSent, Count
    <2>4. Bystanders(r)
      BY <1>1, <2>2 DEF Bystanders
    <2>5. Rests(r) \/ Answers(r)
      BY <1>1, <2>2 DEF Rests, Answers, Stage, HeadersSent, Count
    <2>6. QED BY <2>2, <2>3, <2>4, <2>5 DEF Good
  <1>3. CASE TimeoutWhileSettling(r)
    <2>1. UNCHANGED <<at, sent, settled>> /\ TypeOK'
      BY <1>1, <1>3 DEF TimeoutWhileSettling, TypeOK, Codes
    <2>2. Sound(r)' /\ Bystanders(r) /\ Rests(r)
      BY <1>1, <2>1
      DEF Sound, Granted, HeadersSent, Count, Bystanders, OthersRest, Rests, Stage
    <2>3. QED BY <2>1, <2>2 DEF Good
  <1>4. QED BY <1>2, <1>3

LEMMA TimeoutIsGood ==
  ASSUME IInv, NEW r \in Requests, Timeout(r)
  PROVE  Good(r)
  <1> USE DEF IInv
  <1>1. /\ at[r] \in {"sdk", "upstream", "over"} /\ sent[r] = 0 /\ x402[r] \in Context /\ Sound(r)
        /\ sent' = [sent EXCEPT ![r] = 408]
        /\ Log(r, PaymentRow(x402[r], 408))
        /\ UNCHANGED <<gone, input, at, x402, draft, owner, settled, served, called>>
    BY DEF Timeout, HeadersSent, TypeOK
  <1>2. /\ PaymentRow(x402[r], 408) \in Seq(Row)
        /\ Cardinality(Entries(PaymentRow(x402[r], 408), "api")) = 0
        /\ Cardinality(Entries(PaymentRow(x402[r], 408), "megaeth-payment"))
             = IF x402[r].method = "direct" THEN 1 ELSE 0
    BY <1>1, CountPayment DEF Codes
  <1>3. Log(r, PaymentRow(x402[r], 408) \o <<>>)
    <2>1. PaymentRow(x402[r], 408) \o <<>> = PaymentRow(x402[r], 408)
      BY <1>2, ConcatEmptySeq
    <2>2. QED BY <1>1, <2>1
  <1>4. <<>> \in ApiEntries /\ Number(<<>>) = 0
    BY DEF ApiEntries, Number
  <1>5. /\ rows' \in [Requests -> Seq(Row)]
        /\ \A d \in Requests \ {r} : rows'[d] = rows[d]
        /\ Count(r, "api")' = Count(r, "api") + 0
        /\ Count(r, "megaeth-payment")'
             = Count(r, "megaeth-payment") + (IF x402[r].method = "direct" THEN 1 ELSE 0)
    <2> DEFINE p == PaymentRow(x402[r], 408)
    <2> HIDE DEF p
    <2>1. TypeOK /\ p \in Seq(Row) /\ Cardinality(Entries(p, "api")) = 0 /\ Log(r, p \o <<>>)
      BY <1>2, <1>3 DEF p
    <2>2. /\ rows' \in [Requests -> Seq(Row)]
          /\ \A d \in Requests \ {r} : rows'[d] = rows[d]
          /\ Count(r, "api")' = Count(r, "api") + Number(<<>>)
          /\ Count(r, "megaeth-payment")'
               = Count(r, "megaeth-payment") + Cardinality(Entries(p, "megaeth-payment"))
      BY <1>4, <2>1, LogEffect
    <2>3. QED BY <1>2, <1>4, <2>2 DEF p
  <1>6. Count(r, "api") \in Nat
    BY EntriesAreFinite DEF Count, TypeOK
  <1>7. TypeOK' /\ sent'[r] = 408 /\ OthersRest(r)
    <2>1. 408 \in Codes /\ TypeOK
      BY DEF Codes
    <2>2. sent' \in [Requests -> Codes \cup {0}] /\ sent'[r] = 408
      BY <1>1, <2>1 DEF TypeOK
    <2>3. TypeOK'
      BY <1>1, <1>5, <2>1, <2>2 DEF TypeOK
    <2>4. OthersRest(r)
      BY <1>1, <1>5, <2>1 DEF TypeOK, OthersRest
    <2>5. QED BY <2>2, <2>3, <2>4
  <1>8. Sound(r)'
    BY <1>1, <1>5, <1>7 DEF Sound, Granted, HeadersSent
  <1>9. Bystanders(r)
    BY <1>1, <1>7 DEF Bystanders
  <1>10. Answers(r)
    BY <1>1, <1>5, <1>6, <1>7 DEF Answers, Stage, HeadersSent
  <1>11. QED BY <1>7, <1>8, <1>9, <1>10 DEF Good

LEMMA DisconnectIsGood ==
  ASSUME IInv, NEW r \in Requests, Disconnect(r)
  PROVE  Good(r)
  <1>1. /\ TypeOK'
        /\ UNCHANGED <<input, at, x402, sent, draft, owner, settled, served, called, rows>>
    BY DEF Disconnect, IInv, TypeOK
  <1>2. Sound(r)' /\ Bystanders(r) /\ Rests(r)
    BY <1>1 DEF IInv, Sound, Granted, HeadersSent, Count, Bystanders, OthersRest, Rests, Stage
  <1>3. QED BY <1>1, <1>2 DEF Good

LEMMA StepIsGood ==
  ASSUME IInv, Next
  PROVE  \E r \in Requests : Good(r)
  BY ReadingIsGood, WithinLimitIsGood, DirectIsGood, AbandonedClaimIsGood, SdkIsGood,
     UpstreamIsGood, SettlementIsGood, TimeoutIsGood, DisconnectIsGood DEF Next

-----------------------------------------------------------------------------
(* The pipeline of index.ts keeps its invariant. *)
THEOREM Invariance == Spec => []IInv
  <1>1. Init => IInv
    <2> SUFFICES ASSUME Init PROVE IInv
      OBVIOUS
    <2>1. TypeOK
      <3>1. /\ input \in [Requests -> Input \cup BadInput \cup {NoInput}]
            /\ at \in [Requests -> Stages] /\ x402 \in [Requests -> Context]
        BY ContextTypes DEF Init, Stages
      <3>2. /\ sent \in [Requests -> Codes \cup {0}] /\ draft \in [Requests -> Codes \cup {0}]
            /\ owner \in [Txs -> Requests \cup {NoOne}]
        BY DEF Init
      <3>3. rows \in [Requests -> Seq(Row)]
        BY DEF Init
      <3>4. QED BY <3>1, <3>2, <3>3 DEF Init, TypeOK
    <2>2. ASSUME NEW r \in Requests
          PROVE  Sound(r)
      <3>1. rows[r] = <<>> /\ at[r] = "idle" /\ x402[r] = Fresh /\ sent[r] = 0 /\ served = {}
        BY DEF Init
      <3>2. Count(r, "megaeth-payment") = 0
        BY <3>1, CountShort DEF Count
      <3>3. QED BY <3>1, <3>2 DEF Sound, Fresh, Granted
    <2>3. QED BY <2>1, <2>2 DEF IInv
  <1>2. IInv /\ [Next]_vars => IInv'
    <2>1. CASE IInv /\ Next
      <3>1. PICK r \in Requests : Good(r)
        BY <2>1, StepIsGood
      <3>2. QED BY <2>1, <3>1, BystanderStaysSound DEF Good, IInv
    <2>2. CASE IInv /\ UNCHANGED vars
      BY <2>2 DEF IInv, vars, TypeOK, Sound, Granted, HeadersSent, Count
    <2>3. QED BY <2>1, <2>2
  <1>3. QED BY <1>1, <1>2, PTL DEF Spec

(* The state of the pipeline always has its types. *)
THEOREM TypeCorrectness == Spec => []TypeOK
  <1>1. IInv => TypeOK
    BY DEF IInv
  <1>2. QED BY <1>1, Invariance, PTL

(* No request reaches an API handler unpaid (index.ts:609), whatever the    *)
(* order of timers, verifications and disconnects.                          *)
THEOREM OnlyPaidIsServed == Spec => []ServedIsPaid
  <1>1. IInv => ServedIsPaid
    BY DEF IInv, TypeOK, Sound, Passes, ServedIsPaid, Granted
  <1>2. QED BY <1>1, Invariance, PTL

(* A direct payment that was answered leaves one payment row, and nothing   *)
(* else leaves one: what the dashboard counts as MegaETH settlements.       *)
THEOREM PaymentsAreLoggedOnce == Spec => []OnePaymentRowPerGrant
  <1>1. IInv => OnePaymentRowPerGrant
    BY DEF IInv, Sound, OnePaymentRowPerGrant
  <1>2. QED BY <1>1, Invariance, PTL

-----------------------------------------------------------------------------
LEMMA StepRefines ==
  ASSUME IInv, NEW r \in Requests, Good(r)
  PROVE  [Promise!Next]_(Promise!vars)
  <1> DEFINE stages == [d \in Requests |-> Stage(d)]
             counts == [d \in Requests |-> Count(d, "api")]
  <1>1. /\ sent \in [Requests -> Codes \cup {0}] /\ sent' \in [Requests -> Codes \cup {0}]
        /\ 0 \notin Codes
    BY DEF IInv, Good, TypeOK, Codes
  <1>2. ASSUME NEW d \in Requests \ {r}
        PROVE  /\ Stage(d)' = Stage(d) /\ sent'[d] = sent[d]
               /\ Count(d, "api")' = Count(d, "api")
    BY DEF Good, Bystanders, OthersRest, Stage, Count
  <1>3. ASSUME sent'[r] = sent[r]
        PROVE  sent' = sent
    BY <1>1, <1>2, <1>3
  <1>4. ASSUME sent[r] = 0, sent'[r] # 0
        PROVE  Promise!Send(r)
    <2>1. sent'[r] \in Codes /\ sent' = [sent EXCEPT ![r] = sent'[r]]
      BY <1>1, <1>2, <1>4
    <2>2. QED BY <1>4, <2>1 DEF Promise!Send
  <1>5. CASE Rests(r)
    <2>1. \A d \in Requests : Stage(d)' = Stage(d) /\ Count(d, "api")' = Count(d, "api")
      BY <1>2, <1>5 DEF Rests
    <2>2. stages' = stages
      BY <2>1
    <2>3. counts' = counts
      BY <2>1
    <2>4. sent' = sent
      BY <1>3, <1>5 DEF Rests
    <2>5. QED BY <2>2, <2>3, <2>4 DEF Promise!vars
  <1>6. CASE CallsUpstream(r)
    <2>1. sent' = sent
      BY <1>3, <1>6 DEF CallsUpstream
    <2>2. Promise!CallUpstream(r)
      BY <1>2, <1>6, <2>1 DEF CallsUpstream, Promise!CallUpstream
    <2>3. QED BY <2>2 DEF Promise!Next
  <1>7. CASE Answers(r)
    <2>1. Promise!Send(r)
      BY <1>4, <1>7 DEF Answers
    <2>2. Promise!Answer(r)
      BY <1>2, <1>7, <2>1 DEF Answers, Promise!Answer
    <2>3. QED BY <2>2 DEF Promise!Next
  <1>8. CASE Ends(r)
    <2>1. PICK n \in {0, 1} :
            /\ Stage(r) \in {"before", "upstream"} /\ Stage(r)' = "over"
            /\ Stage(r) = "upstream" => n = 1
            /\ sent[r] # 0 => sent'[r] = sent[r]
            /\ Count(r, "api")' = Count(r, "api") + n
      BY <1>8 DEF Ends
    <2>2. stages' = [stages EXCEPT ![r] = "over"]
      BY <1>2, <2>1
    <2>3. counts' = [counts EXCEPT ![r] = @ + n]
      BY <1>2, <2>1
    <2>4. /\ stages[r] \in {"before", "upstream"}
          /\ stages[r] = "upstream" => n = 1
      BY <2>1
    <2>5. Promise!Send(r) \/ sent' = sent
      BY <1>3, <1>4, <2>1
    <2>6. Promise!End(r, n)
      BY <2>2, <2>3, <2>4, <2>5 DEF Promise!End
    <2>7. QED BY <2>6 DEF Promise!Next
  <1>9. QED BY <1>5, <1>6, <1>7, <1>8 DEF Good

(* The pipeline implements PaidHandler for any number of requests: a        *)
(* handler runs once, each call of its upstream leaves one API row, and     *)
(* what a client has been sent is never replaced.                           *)
THEOREM ImplementsHandler == Spec => HandlerPromise
  <1>1. Init => Promise!Init
    <2> SUFFICES ASSUME Init PROVE Promise!Init
      OBVIOUS
    <2> DEFINE stages == [r \in Requests |-> Stage(r)]
               counts == [r \in Requests |-> Count(r, "api")]
    <2>1. ASSUME NEW r \in Requests
          PROVE  Stage(r) = "before" /\ Count(r, "api") = 0
      BY CountShort DEF Init, Stage, Count
    <2>2. stages = [r \in Requests |-> "before"]
      BY <2>1
    <2>3. counts = [r \in Requests |-> 0]
      BY <2>1
    <2>4. QED BY <2>2, <2>3 DEF Init, Promise!Init
  <1>2. IInv /\ [Next]_vars => [Promise!Next]_(Promise!vars)
    <2>1. CASE IInv /\ Next
      BY <2>1, StepIsGood, StepRefines
    <2>2. CASE UNCHANGED vars
      BY <2>2 DEF vars, Promise!vars, Stage, Count
    <2>3. QED BY <2>1, <2>2
  <1>3. QED BY <1>1, <1>2, Invariance, PTL DEF Spec, HandlerPromise, Promise!Spec
=============================================================================
