----------------------------- MODULE PaidHandler -----------------------------
(***************************************************************************)
(* What the pipeline (Gateway) and the routes (ApiRoutes) have to agree on: *)
(* a handler runs once; it may be over without its upstream, and then       *)
(* leaves a row in the request log or none; a call of the upstream leaves   *)
(* exactly one, when it is over; and one answer is sent, by the handler, or *)
(* by a timer that does not stop the handler.  What has been sent stands.   *)
(***************************************************************************)
EXTENDS Naturals

CONSTANTS
  Requests,
  Answers,
  NoAnswer   (* not an answer                                              *)

VARIABLES
  at,        (* "before" the call of the upstream, in it, or "over"        *)
  answer,    (* what the client has been sent                              *)
  rows       (* the number of rows logged                                  *)

vars == <<at, answer, rows>>

Init ==
  /\ at = [r \in Requests |-> "before"]
  /\ answer = [r \in Requests |-> NoAnswer]
  /\ rows = [r \in Requests |-> 0]

CallUpstream(r) ==
  /\ at[r] = "before"
  /\ at' = [at EXCEPT ![r] = "upstream"]
  /\ UNCHANGED <<answer, rows>>

Send(r) ==
  /\ answer[r] = NoAnswer
  /\ \E a \in Answers : answer' = [answer EXCEPT ![r] = a]

Answer(r) ==
  /\ Send(r)
  /\ UNCHANGED <<at, rows>>

End(r, logs) ==
  /\ at[r] \in {"before", "upstream"}
  /\ at[r] = "upstream" => logs = 1
  /\ at' = [at EXCEPT ![r] = "over"]
  /\ Send(r) \/ UNCHANGED answer
  /\ rows' = [rows EXCEPT ![r] = @ + logs]

Next ==
  \E r \in Requests :
    \/ CallUpstream(r)
    \/ Answer(r)
    \/ \E logs \in {0, 1} : End(r, logs)

Spec == Init /\ [][Next]_vars
=============================================================================
