------------------------------- MODULE KeyPool -------------------------------
(***************************************************************************)
(* The API key pools of lib/key-pool.ts and the client pools made from them *)
(* (providers/deepgram.ts, providers/ipfs.ts), from the start of the        *)
(* process on.  Many calls are under way at once; acquire and getClient     *)
(* have no await in them, so one of them is one step.                       *)
(*                                                                         *)
(* The keys of a provider are numbered from 0 in the order of its           *)
(* environment variable, empty ones left out.                               *)
(***************************************************************************)
EXTENDS Naturals

CONSTANTS
  Providers,
  Count,      (* how many keys each provider has                           *)
  Fal,        (* the provider whose SDK is given one key at startup        *)
  Wrapped,    (* the providers that get one client for each key            *)
  MaxCalls    (* bound on the calls of a provider                          *)

ASSUME KeyPoolAssumption ==
  /\ Count \in [Providers -> Nat]
  /\ Wrapped \subseteq Providers
  /\ Fal \in Providers \ Wrapped
  /\ MaxCalls \in Nat

KeysOf(p) == 0 .. Count[p] - 1

VARIABLES
  started,        (* has main() set everything up?                         *)
  index,          (* the next key of each pool                             *)
  totalAcquires,
  clients,        (* the key of each client                                *)
  clientIndex,    (* the next client of each client pool                   *)
  calls           (* how many calls were made with each key (history)      *)

vars == <<started, index, totalAcquires, clients, clientIndex, calls>>

Init ==
  /\ started = FALSE
  /\ index = [p \in Providers |-> 0]
  /\ totalAcquires = [p \in Providers |-> 0]
  /\ clients = [p \in Wrapped |-> [i \in {} |-> 0]]
  /\ clientIndex = [p \in Wrapped |-> 0]
  /\ calls = [p \in Providers |-> [k \in KeysOf(p) |-> 0]]

(* Mutant: the last key is never reached.                                   *)
Advance_LastNeverReached(i, n) == IF i + 2 >= n THEN 0 ELSE i + 1

(* Mutant: the index runs past the last key before it starts again.         *)
Advance_PastTheEnd(i, n) == IF i + 1 > n THEN 0 ELSE i + 1

(* The next position in a pool of n.                                        *)
Advance(i, n) == IF i + 1 = n THEN 0 ELSE i + 1

(* The acquires of initFal, initDeepgram and initIpfs.                      *)
InitialAcquires(p) ==
  IF p \in Wrapped THEN Count[p] ELSE IF p = Fal /\ Count[p] > 0 THEN 1 ELSE 0

(* main(): register every provider, then run the init functions.  Client i  *)
(* gets the i-th key acquired, and as many acquires as there are keys bring *)
(* the index back to 0.                                                     *)
Startup ==
  /\ ~started
  /\ started' = TRUE
  /\ index' = [p \in Providers |-> IF InitialAcquires(p) < Count[p]
                                   THEN InitialAcquires(p) ELSE 0]
  /\ totalAcquires' = [p \in Providers |-> InitialAcquires(p)]
  /\ clients' = [p \in Wrapped |-> [i \in KeysOf(p) |-> i]]
  /\ UNCHANGED <<clientIndex, calls>>

Call(p, key) == calls' = [calls EXCEPT ![p][key] = @ + 1]

(* A call acquires a key; without keys it fails with "not configured".      *)
Acquire(p) ==
  /\ started
  /\ p \notin Wrapped /\ Count[p] > 0
  /\ totalAcquires[p] < MaxCalls
  /\ Call(p, index[p])
  /\ index' = [index EXCEPT ![p] = Advance(@, Count[p])]
  /\ totalAcquires' = [totalAcquires EXCEPT ![p] = @ + 1]
  /\ UNCHANGED <<started, clients, clientIndex>>

(* A call takes a client, and with it the key of the client.                *)
GetClient(p) ==
  /\ started
  /\ p \in Wrapped /\ Count[p] > 0
  /\ \E k \in KeysOf(p) : calls[p][k] < MaxCalls
  /\ Call(p, clients[p][clientIndex[p]])
  /\ clientIndex' = [clientIndex EXCEPT ![p] = Advance(@, Count[p])]
  /\ UNCHANGED <<started, index, totalAcquires, clients>>

Next == Startup \/ \E p \in Providers : Acquire(p) \/ GetClient(p)

Spec == Init /\ [][Next]_vars

-----------------------------------------------------------------------------
TypeOK ==
  /\ started \in BOOLEAN
  /\ index \in [Providers -> Nat]
  /\ \A p \in Providers : index[p] < Count[p] \/ index[p] = 0
  /\ totalAcquires \in [Providers -> Nat]
  /\ clientIndex \in [Wrapped -> Nat]
  /\ \A p \in Wrapped : clientIndex[p] < Count[p] \/ clientIndex[p] = 0
  /\ started => clients = [p \in Wrapped |-> [i \in KeysOf(p) |-> i]]
  /\ \A p \in Providers : calls[p] \in [KeysOf(p) -> Nat]
  /\ DOMAIN calls = Providers

(* "Distributes requests across multiple API keys per provider to avoid     *)
(* hitting per-key rate limits" (key-pool.ts:4-5): over any run of calls no *)
(* key of a provider is used two times more than another, also where the    *)
(* startup has taken keys out of turn or calls go through clients.          *)
LoadIsSpread ==
  \A p \in Providers : \A k, l \in KeysOf(p) : calls[p][k] <= calls[p][l] + 1
=============================================================================
