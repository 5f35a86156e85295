---------------------------- MODULE KeyPoolProofs ----------------------------
(***************************************************************************)
(* LoadIsSpread for every number of providers and keys.                     *)
(*                                                                         *)
(* Between two turns of a pool the counts of its keys are equal, but for    *)
(* the keys that startup took out of the first turn; within a turn the keys *)
(* before the index have one call more.  "turn" in Spread is the number of  *)
(* full turns.                                                              *)
(***************************************************************************)
EXTENDS KeyPool, Integers, TLAPS

Position(p) == IF p \in Wrapped THEN clientIndex[p] ELSE index[p]

(* Where the first turn of the pool began.                                  *)
Offset(p) ==
  IF started /\ p \notin Wrapped /\ InitialAcquires(p) < Count[p]
  THEN InitialAcquires(p) ELSE 0

(* The call that a key before m has ahead of the others.                    *)
One(k, m) == IF k < m THEN 1 ELSE 0

(* The counts c of n keys "turn" turns after the first, which began at off. *)
Shape(c, n, pos, off, turn) ==
  \A k \in 0 .. n - 1 : c[k] = turn + One(k, pos) - One(k, off)

(* d counts one call more than c, with the key at pos.                      *)
CalledAt(c, d, n, pos) ==
  \A k \in 0 .. n - 1 : d[k] = IF k = pos THEN c[k] + 1 ELSE c[k]

SpreadAt(p, turn) == Shape(calls[p], Count[p], Position(p), Offset(p), turn)

Spread == \A p \in Providers : \E turn \in Int : SpreadAt(p, turn)

Unused == ~started => \A p \in Providers : \A k \in KeysOf(p) : calls[p][k] = 0

IInv == TypeOK /\ Unused /\ Spread

(* The keys acquired at startup are at most as many as there are, and at    *)
(* most one of them is out of turn.                                         *)
LEMMA InitialAcquiresBound ==
  ASSUME NEW p \in Providers
  PROVE  /\ InitialAcquires(p) \in 0 .. Count[p]
         /\ p \notin Wrapped => InitialAcquires(p) \in {0, 1}
BY KeyPoolAssumption, SMT DEF InitialAcquires

(* Equal counts but for one position of the turn differ by one at most.     *)
LEMMA SpreadSuffices ==
  ASSUME IInv
  PROVE  LoadIsSpread
<1> SUFFICES ASSUME NEW p \in Providers, NEW k \in KeysOf(p), NEW l \in KeysOf(p)
             PROVE  calls[p][k] <= calls[p][l] + 1
  BY DEF LoadIsSpread
<1>1. PICK turn \in Int : SpreadAt(p, turn)
  BY DEF IInv, Spread
<1>2. Offset(p) \in {0, 1}
  BY InitialAcquiresBound, KeyPoolAssumption, SMT DEF Offset
<1>3. Position(p) \in Nat
  BY SMT DEF IInv, TypeOK, Position
<1>4. k \in Nat /\ l \in Nat
  BY KeyPoolAssumption, SMT DEF KeysOf
<1>5. /\ calls[p][k] = turn + One(k, Position(p)) - One(k, Offset(p))
      /\ calls[p][l] = turn + One(l, Position(p)) - One(l, Offset(p))
  BY <1>1 DEF SpreadAt, Shape, KeysOf
<1> QED
  BY <1>2, <1>3, <1>4, <1>5, SMT DEF One

(* One call with the key at the position of the pool, and the position      *)
(* advanced, keep the counts spread.                                        *)
LEMMA TurnStep ==
  ASSUME NEW n \in Nat, n > 0, NEW pos \in 0 .. n - 1, NEW off \in Nat,
         NEW c, NEW d, NEW turn \in Int,
         Shape(c, n, pos, off, turn), CalledAt(c, d, n, pos)
  PROVE  \E t \in Int : Shape(d, n, Advance(pos, n), off, t)
<1>1. CASE pos + 1 = n
  <2>1. Advance(pos, n) = 0
    BY <1>1 DEF Advance
  <2>2. ASSUME NEW k \in 0 .. n - 1
        PROVE  d[k] = (turn + 1) + One(k, 0) - One(k, off)
    <3>1. One(k, 0) = 0 /\ One(k, pos) = (IF k = pos THEN 0 ELSE 1) /\ One(k, off) \in Int
      BY <1>1, SMT DEF One
    <3>2. /\ d[k] = IF k = pos THEN c[k] + 1 ELSE c[k]
          /\ c[k] = turn + One(k, pos) - One(k, off)
      BY DEF Shape, CalledAt
    <3> QED
      BY <3>1, <3>2, SMT
  <2> QED
    BY <2>1, <2>2, turn + 1 \in Int DEF Shape
<1>2. CASE pos + 1 # n
  <2>1. Advance(pos, n) = pos + 1
    BY <1>2 DEF Advance
  <2>2. ASSUME NEW k \in 0 .. n - 1
        PROVE  d[k] = turn + One(k, pos + 1) - One(k, off)
    <3>1. /\ One(k, pos + 1) = One(k, pos) + (IF k = pos THEN 1 ELSE 0)
          /\ One(k, pos) \in Int /\ One(k, off) \in Int
      BY SMT DEF One
    <3>2. /\ d[k] = IF k = pos THEN c[k] + 1 ELSE c[k]
          /\ c[k] = turn + One(k, pos) - One(k, off)
      BY DEF Shape, CalledAt
    <3> QED
      BY <3>1, <3>2, SMT
  <2> QED
    BY <2>1, <2>2 DEF Shape
<1> QED
  BY <1>1, <1>2

(* Nothing has been called.                                                 *)
LEMMA InitInvariant == Init => IInv
<1> SUFFICES ASSUME Init PROVE IInv
  OBVIOUS
<1>1. \A p \in Providers : \A k \in KeysOf(p) : calls[p][k] = 0
  BY DEF Init
<1>2. TypeOK
  <2>1. /\ index \in [Providers -> Nat]
        /\ totalAcquires \in [Providers -> Nat]
        /\ clientIndex \in [Wrapped -> Nat]
    BY SMT DEF Init
  <2>2. /\ \A p \in Providers : index[p] = 0
        /\ \A p \in Wrapped : clientIndex[p] = 0
    BY DEF Init
  <2>3. \A p \in Providers : calls[p] \in [KeysOf(p) -> Nat]
    <3> SUFFICES ASSUME NEW p \in Providers PROVE calls[p] \in [KeysOf(p) -> Nat]
      OBVIOUS
    <3>1. calls[p] = [k \in KeysOf(p) |-> 0]
      BY DEF Init
    <3> QED
      BY <3>1, SMT
  <2>4. started = FALSE /\ DOMAIN calls = Providers
    BY DEF Init
  <2> QED
    BY <2>1, <2>2, <2>3, <2>4 DEF TypeOK
<1>3. ASSUME NEW p \in Providers
      PROVE  \E turn \in Int : SpreadAt(p, turn)
  <2>1. Position(p) = 0 /\ Offset(p) = 0
    BY KeyPoolAssumption DEF Init, Position, Offset
  <2>2. SpreadAt(p, 0)
    <3> SUFFICES ASSUME NEW k \in KeysOf(p)
                 PROVE  0 = 0 + One(k, 0) - One(k, 0)
      BY <1>1, <2>1 DEF SpreadAt, Shape, KeysOf
    <3> QED
      BY SMT DEF One
  <2> QED
    BY <2>2, 0 \in Int
<1> QED
  BY <1>1, <1>2, <1>3 DEF IInv, Unused, Spread

(* The first turn of a pool starts after the keys taken at startup.         *)
LEMMA StartupInvariant == IInv /\ Startup => IInv'
<1> SUFFICES ASSUME IInv, Startup PROVE IInv'
  OBVIOUS
<1> USE DEF IInv
<1>1. calls' = calls /\ clientIndex' = clientIndex /\ ~started /\ started'
  BY DEF Startup
<1>2. TypeOK'
  <2>1. ASSUME NEW p \in Providers PROVE InitialAcquires(p) \in Nat
    BY InitialAcquiresBound, KeyPoolAssumption, SMT
  <2>2. index' \in [Providers -> Nat] /\ totalAcquires' \in [Providers -> Nat]
    BY <2>1, SMT DEF Startup
  <2>3. \A p \in Providers : index'[p] < Count[p] \/ index'[p] = 0
    BY SMT DEF Startup
  <2>4. clients' = [p \in Wrapped |-> [i \in KeysOf(p) |-> i]]
    BY DEF Startup
  <2> QED
    BY <1>1, <2>2, <2>3, <2>4 DEF TypeOK, KeysOf
<1>3. ASSUME NEW p \in Providers
      PROVE  \E turn \in Int : SpreadAt(p, turn)'
  <2>1. CASE p \in Wrapped
    <3>1. Position(p)' = Position(p) /\ Offset(p) = 0 /\ Offset(p)' = 0
      BY <1>1, <2>1 DEF Position, Offset
    <3>2. PICK turn \in Int : SpreadAt(p, turn)
      BY DEF Spread
    <3> QED
      BY <1>1, <3>1, <3>2 DEF SpreadAt, Shape
  <2>2. CASE p \notin Wrapped
    <3>1. Position(p)' = Offset(p)'
      BY <1>1, <2>2 DEF Position, Offset, Startup, InitialAcquires
    <3>2. Offset(p)' \in Nat
      BY <1>1, <2>2, InitialAcquiresBound, SMT DEF Offset
    <3>3. ASSUME NEW k \in KeysOf(p)
          PROVE  calls'[p][k] = 0 + One(k, Position(p)') - One(k, Offset(p)')
      <4>1. calls'[p][k] = 0
        BY <1>1 DEF Unused
      <4>2. k \in Nat
        BY KeyPoolAssumption, SMT DEF KeysOf
      <4>3. One(k, Offset(p)') \in Int
        BY <3>2, <4>2, SMT DEF One
      <4> QED
        BY <3>1, <4>1, <4>3, SMT
    <3> QED
      BY <3>3, 0 \in Int DEF SpreadAt, Shape, KeysOf
  <2> QED
    BY <2>1, <2>2
<1> QED
  BY <1>1, <1>2, <1>3 DEF Unused, Spread
(* A call with the key at the position of p, which then advances, keeps the *)
(* invariant: what Acquire and GetClient have in common.                    *)
LEMMA CallKeepsSpread ==
  ASSUME IInv, started, started',
         NEW p \in Providers, Count[p] > 0,
         Call(p, Position(p)),
         Position(p)' = Advance(Position(p), Count[p]),
         \A q \in Providers \ {p} : Position(q)' = Position(q)
  PROVE  /\ \A q \in Providers : calls'[q] \in [KeysOf(q) -> Nat]
         /\ DOMAIN calls' = Providers
         /\ Spread'
<1> USE DEF IInv
<1>1. /\ Count[p] \in Nat /\ Position(p) \in 0 .. Count[p] - 1
      /\ KeysOf(p) = 0 .. Count[p] - 1
  <2>1. KeysOf(p) = 0 .. Count[p] - 1 /\ Count[p] \in Nat
    BY KeyPoolAssumption DEF KeysOf
  <2>2. Position(p) \in Nat /\ (Position(p) < Count[p] \/ Position(p) = 0)
    BY DEF TypeOK, Position
  <2> QED
    BY <2>1, <2>2, SMT
<1>2. \A q \in Providers : calls[q] \in [KeysOf(q) -> Nat]
  BY DEF TypeOK
<1>3. /\ DOMAIN calls' = Providers
      /\ calls'[p] = [calls[p] EXCEPT ![Position(p)] = @ + 1]
      /\ \A q \in Providers \ {p} : calls'[q] = calls[q]
  BY DEF TypeOK, Call
<1>4. calls'[p] \in [KeysOf(p) -> Nat]
  BY <1>1, <1>2, <1>3, SMT
<1>5. ASSUME NEW q \in Providers
      PROVE  \E turn \in Int : SpreadAt(q, turn)'
  <2>1. Offset(q)' = Offset(q)
    BY DEF Offset
  <2>2. PICK turn \in Int : SpreadAt(q, turn)
    BY DEF Spread
  <2>3. CASE q # p
    BY <1>3, <2>1, <2>2, <2>3 DEF SpreadAt, Shape
  <2>4. CASE q = p
    <3>1. Offset(p) \in Nat
      BY InitialAcquiresBound, SMT DEF Offset
    <3>2. Shape(calls[p], Count[p], Position(p), Offset(p), turn)
      BY <2>2, <2>4 DEF SpreadAt
    <3>3. CalledAt(calls[p], calls'[p], Count[p], Position(p))
      BY <1>1, <1>2, <1>3, SMT DEF CalledAt
    <3>4. \E t \in Int :
            Shape(calls'[p], Count[p], Advance(Position(p), Count[p]), Offset(p), t)
      BY <1>1, <3>1, <3>2, <3>3, TurnStep
    <3> QED
      BY <2>1, <2>4, <3>4 DEF SpreadAt
  <2> QED
    BY <2>3, <2>4
<1> QED
  BY <1>2, <1>3, <1>4, <1>5 DEF Spread

(* Advance stays within the pool.                                           *)
LEMMA AdvanceStays ==
  ASSUME NEW n \in Nat, NEW i \in Nat, i < n
  PROVE  Advance(i, n) \in Nat /\ Advance(i, n) < n
BY SMT DEF Advance

(* A key pool's call.                                                       *)
LEMMA AcquireInvariant ==
  ASSUME IInv, NEW p \in Providers, Acquire(p)
  PROVE  IInv'
<1> USE DEF IInv
<1>1. /\ started /\ started' /\ p \notin Wrapped /\ Count[p] > 0
      /\ clients' = clients /\ clientIndex' = clientIndex
  BY DEF Acquire
<1>2. /\ index[p] \in Nat /\ index[p] < Count[p] /\ Count[p] \in Nat
  BY <1>1, KeyPoolAssumption, SMT DEF TypeOK
<1>3. index' = [index EXCEPT ![p] = Advance(index[p], Count[p])]
  BY DEF Acquire
<1>4. /\ Position(p) = index[p]
      /\ Position(p)' = Advance(Position(p), Count[p])
      /\ \A q \in Providers \ {p} : Position(q)' = Position(q)
  BY <1>1, <1>3 DEF TypeOK, Position
<1>5. /\ \A q \in Providers : calls'[q] \in [KeysOf(q) -> Nat]
      /\ DOMAIN calls' = Providers
      /\ Spread'
  <2>1. Call(p, Position(p))
    BY <1>4 DEF Acquire
  <2> QED
    BY <1>1, <1>4, <2>1, CallKeepsSpread
<1>6. /\ index' \in [Providers -> Nat]
      /\ \A q \in Providers : index'[q] < Count[q] \/ index'[q] = 0
  BY <1>2, <1>3, AdvanceStays DEF TypeOK
<1>7. totalAcquires' \in [Providers -> Nat]
  BY SMT DEF Acquire, TypeOK
<1> QED
  BY <1>1, <1>5, <1>6, <1>7 DEF TypeOK, KeysOf, Unused

(* A client pool's call.                                                    *)
LEMMA GetClientInvariant ==
  ASSUME IInv, NEW p \in Providers, GetClient(p)
  PROVE  IInv'
<1> USE DEF IInv
<1>1. /\ started /\ started' /\ p \in Wrapped /\ Count[p] > 0
      /\ clients' = clients /\ index' = index /\ totalAcquires' = totalAcquires
  BY DEF GetClient
<1>2. /\ clientIndex[p] \in Nat /\ clientIndex[p] < Count[p] /\ Count[p] \in Nat
  BY <1>1, KeyPoolAssumption, SMT DEF TypeOK
<1>3. clientIndex' = [clientIndex EXCEPT ![p] = Advance(clientIndex[p], Count[p])]
  BY DEF GetClient
<1>4. /\ Position(p) = clientIndex[p]
      /\ Position(p)' = Advance(Position(p), Count[p])
      /\ \A q \in Providers \ {p} : Position(q)' = Position(q)
  BY <1>1, <1>3 DEF TypeOK, Position
<1>5. /\ \A q \in Providers : calls'[q] \in [KeysOf(q) -> Nat]
      /\ DOMAIN calls' = Providers
      /\ Spread'
  <2>1. clients[p][clientIndex[p]] = clientIndex[p]
    BY <1>1, <1>2, SMT DEF TypeOK, KeysOf
  <2>2. Call(p, Position(p))
    BY <1>4, <2>1 DEF GetClient
  <2> QED
    BY <1>1, <1>4, <2>2, CallKeepsSpread
<1>6. /\ clientIndex' \in [Wrapped -> Nat]
      /\ \A q \in Wrapped : clientIndex'[q] < Count[q] \/ clientIndex'[q] = 0
  BY <1>2, <1>3, AdvanceStays DEF TypeOK
<1> QED
  BY <1>1, <1>5, <1>6 DEF TypeOK, KeysOf, Unused

(* The inductive invariant of the pools holds in every reachable state.     *)
THEOREM Invariance == Spec => []IInv
<1>1. Init => IInv
  BY InitInvariant
<1>2. IInv /\ [Next]_vars => IInv'
  <2> SUFFICES ASSUME IInv, [Next]_vars PROVE IInv'
    OBVIOUS
  <2>1. CASE Startup
    BY <2>1, StartupInvariant
  <2>2. CASE \E p \in Providers : Acquire(p) \/ GetClient(p)
    BY <2>2, AcquireInvariant, GetClientInvariant
  <2>3. CASE UNCHANGED vars
    BY <2>3 DEF vars, IInv, TypeOK, Unused, Spread, SpreadAt, Shape, Position, Offset, KeysOf
  <2> QED
    BY <2>1, <2>2, <2>3 DEF Next
<1> QED
  BY <1>1, <1>2, PTL DEF Spec

(* The indices stay within their pools, and client i keeps key i.           *)
THEOREM IndicesInRange == Spec => []TypeOK
<1>1. IInv => TypeOK
  BY DEF IInv
<1> QED
  BY <1>1, Invariance, PTL

(* However many keys a provider has and however the calls of all providers  *)
(* interleave, no key is used two times more than another.                  *)
THEOREM KeysShareTheLoad == Spec => []LoadIsSpread
<1>1. IInv => LoadIsSpread
  BY SpreadSuffices
<1> QED
  BY <1>1, Invariance, PTL
=============================================================================
