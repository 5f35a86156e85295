------------------------------- MODULE LogOnce -------------------------------
(***************************************************************************)
(* What the request log promises of an entry: it becomes a row once, or is  *)
(* lost for good, and it does not stay in memory; only the retention policy *)
(* takes a row away, and nothing brings it back.                            *)
(***************************************************************************)
EXTENDS FiniteSets

CONSTANTS
  Entries,
  Retention

VARIABLE
  fate

Fate == {"none", "pending", "stored", "lost", "deleted"}

Init == fate = [e \in Entries |-> "none"]

Are(f) == {e \in Entries : fate[e] = f}

Become(changed, f) == [e \in Entries |-> IF e \in changed THEN f ELSE fate[e]]

(* logRequest. *)
Log(e) ==
  /\ fate[e] = "none"
  /\ fate' = Become({e}, "pending")

(* Some entries become rows, and others are lost: when the process ends     *)
(* both happen at once, and what is logged without a pool is lost at once.  *)
End(stored, lost) ==
  /\ stored \subseteq Are("pending")
  /\ lost \subseteq (Are("pending") \ stored) \cup Are("none")
  /\ fate' = [e \in Entries |-> IF e \in stored THEN "stored"
                                ELSE IF e \in lost THEN "lost" ELSE fate[e]]

(* cleanupOldRequests. *)
Delete(old) ==
  /\ Retention
  /\ old \subseteq Are("stored")
  /\ fate' = Become(old, "deleted")

Next ==
  \/ \E e \in Entries : Log(e)
  \/ \E stored \in SUBSET Are("pending") :
       \E lost \in SUBSET ((Are("pending") \ stored) \cup Are("none")) : End(stored, lost)
  \/ \E old \in SUBSET Are("stored") : Delete(old)

Leave(e) == fate[e] = "pending" /\ Next /\ fate'[e] # "pending"

Spec == Init /\ [][Next]_fate /\ \A e \in Entries : WF_fate(Leave(e))
=============================================================================
