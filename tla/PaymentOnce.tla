----------------------------- MODULE PaymentOnce -----------------------------
(***************************************************************************)
(* What direct MegaETH payments promise, with the gateway's mechanism left  *)
(* out: a transaction that has been mined can be claimed by one call,       *)
(* once and for good, and a call is accepted only on a transaction it has   *)
(* claimed.  The site's documentation puts it as "Each txHash can only be   *)
(* used once" (public/docs/index.html:471).                                 *)
(***************************************************************************)
CONSTANTS Calls, Payments, NoOne

VARIABLES
  funded,    (* the transactions that are on the chain                     *)
  owner,     (* the call that claimed each transaction, or NoOne           *)
  accepted   (* the calls accepted as paid                                 *)

vars == <<funded, owner, accepted>>

Init ==
  /\ funded = {}
  /\ owner = [p \in Payments |-> NoOne]
  /\ accepted = {}

Fund(p) ==
  /\ funded' = funded \cup {p}
  /\ UNCHANGED <<owner, accepted>>

Claim(c, p) ==
  /\ p \in funded
  /\ owner[p] = NoOne
  /\ \A q \in Payments : owner[q] # c
  /\ owner' = [owner EXCEPT ![p] = c]
  /\ UNCHANGED <<funded, accepted>>

Accept(c) ==
  /\ c \notin accepted
  /\ \E p \in Payments : owner[p] = c
  /\ accepted' = accepted \cup {c}
  /\ UNCHANGED <<funded, owner>>

Next ==
  \/ \E p \in Payments : Fund(p)
  \/ \E c \in Calls, p \in Payments : Claim(c, p)
  \/ \E c \in Calls : Accept(c)

Spec == Init /\ [][Next]_vars
=============================================================================
