------------------------------ MODULE RequestLog ------------------------------
(***************************************************************************)
(* The request log of db/ledger.ts from logRequest to the requests table,   *)
(* and the graceful shutdown of index.ts that drains it.                    *)
(*                                                                         *)
(* Entries wait in a buffer in memory; flushLogBuffer takes the whole       *)
(* buffer and awaits one multi-row INSERT.  Several INSERTs can be under    *)
(* way at once.  A failed INSERT is reported on the console and its entries *)
(* are gone ("dropped").  An entry is a uuid: the rest of the row does not  *)
(* matter here.                                                             *)
(***************************************************************************)
EXTENDS Naturals, FiniteSets

CONSTANTS
  Entries,    (* the entries handlers may log                              *)
  BatchSize,  (* LOG_BATCH_SIZE                                            *)
  Signals,    (* deliveries of SIGTERM and SIGINT                          *)
  Retention   (* is REQUEST_LOG_RETENTION_DAYS set to a positive number?   *)

ASSUME RequestLogAssumption ==
  /\ IsFiniteSet(Entries)
  /\ BatchSize \in Nat \ {0}
  /\ Retention \in BOOLEAN

VARIABLES
  logged,     (* the entries given to logRequest so far                    *)
  buffer,     (* logBuffer                                                 *)
  batches,    (* the INSERTs under way                                     *)
  table,      (* the rows of requests                                      *)
  dropped,    (* entries whose INSERT was reported as failed               *)
  deleted,    (* rows removed by the retention policy                      *)
  flusher,    (* is logFlushTimer running?                                 *)
  cleaner,    (* is cleanupTimer running?                                  *)
  pool,       (* the pg pool                                               *)
  shut,       (* how far shutdown() is for each signal                     *)
  awaited,    (* the INSERT shutdownDatabase awaits                        *)
  due,        (* the entries logged when the first drain began             *)
  process     (* "up", or how it ended                                     *)

vars == <<logged, buffer, batches, table, dropped, deleted, flusher, cleaner,
          pool, shut, awaited, due, process>>

Init ==
  /\ logged = {} /\ buffer = {} /\ batches = {} /\ table = {}
  /\ dropped = {} /\ deleted = {} /\ due = {}
  /\ flusher = TRUE
  /\ cleaner = Retention
  /\ pool = "open"
  /\ shut = [s \in Signals |-> "none"]
  /\ awaited = [s \in Signals |-> {}]
  /\ process = "up"

-----------------------------------------------------------------------------
(* Mutant: the buffer is not swapped before the INSERT.                     *)
Flush_KeepsBuffer(entries) ==
  /\ buffer' = entries
  /\ IF pool = "open"
     THEN batches' = batches \cup ({entries} \ {{}}) /\ UNCHANGED dropped
     ELSE dropped' = dropped \cup entries /\ UNCHANGED batches

(* Mutant: an empty buffer is flushed too.                                  *)
Flush_EmptyToo(entries) ==
  /\ buffer' = {}
  /\ IF pool = "open"
     THEN batches' = batches \cup {entries} /\ UNCHANGED dropped
     ELSE dropped' = dropped \cup entries /\ UNCHANGED batches

(* flushLogBuffer up to its await; it does nothing if the buffer is empty.  *)
(* Once pool.end() has been called pool.query rejects at once.              *)
Flush(entries) ==
  /\ buffer' = {}
  /\ IF pool = "open"
     THEN batches' = batches \cup ({entries} \ {{}}) /\ UNCHANGED dropped
     ELSE dropped' = dropped \cup entries /\ UNCHANGED batches

(* Mutant: the batch is flushed when it has become too large.               *)
Full_TooLate(entries) == Cardinality(entries) > BatchSize

Full(entries) == Cardinality(entries) >= BatchSize

(* logRequest: append, and flush at once if the batch is full.              *)
LogRequest(e) ==
  /\ process = "up"
  /\ e \notin logged
  /\ logged' = logged \cup {e}
  /\ IF Full(buffer \cup {e})
     THEN Flush(buffer \cup {e})
     ELSE buffer' = buffer \cup {e} /\ UNCHANGED <<batches, dropped>>
  /\ UNCHANGED <<table, deleted, flusher, cleaner, pool, shut, awaited, due, process>>

(* Every LOG_FLUSH_INTERVAL_MS.                                             *)
TimerFlush ==
  /\ process = "up"
  /\ flusher
  /\ buffer # {}
  /\ Flush(buffer)
  /\ UNCHANGED <<logged, table, deleted, flusher, cleaner, pool, shut, awaited, due, process>>

(* The INSERT is committed and acknowledged.  Were one of its ids in the    *)
(* table already, the primary key would fail the whole statement.           *)
BatchStored(b) ==
  /\ process = "up"
  /\ b \in batches
  /\ b \cap (table \cup deleted) = {}
  /\ batches' = batches \ {b}
  /\ table' = table \cup b
  /\ UNCHANGED <<logged, buffer, dropped, deleted, flusher, cleaner, pool, shut, awaited, due,
                 process>>

(* Mutant: the entries of a failed INSERT are flushed again.                *)
BatchFails_Retries(b) ==
  /\ process = "up"
  /\ b \in batches
  /\ batches' = batches \ {b}
  /\ buffer' = buffer \cup b
  /\ \/ UNCHANGED table
     \/ b \cap (table \cup deleted) = {} /\ table' = table \cup b
  /\ UNCHANGED <<logged, dropped, deleted, flusher, cleaner, pool, shut, awaited, due, process>>

(* The INSERT is reported as failed: it was not executed, or its            *)
(* acknowledgement was lost.                                                *)
BatchFails(b) ==
  /\ process = "up"
  /\ b \in batches
  /\ batches' = batches \ {b}
  /\ dropped' = dropped \cup b
  /\ \/ UNCHANGED table
     \/ b \cap (table \cup deleted) = {} /\ table' = table \cup b
  /\ UNCHANGED <<logged, buffer, deleted, flusher, cleaner, pool, shut, awaited, due, process>>

(* cleanupOldRequests deletes the rows that are old enough.                 *)
Cleanup ==
  /\ process = "up"
  /\ cleaner
  /\ \E old \in (SUBSET table) \ {{}} :
       table' = table \ old /\ deleted' = deleted \cup old
  /\ UNCHANGED <<logged, buffer, batches, dropped, flusher, cleaner, pool, shut, awaited, due,
                 process>>

-----------------------------------------------------------------------------
(* process.exit, or the death of the process: what is in memory is gone,    *)
(* and of the INSERTs under way PostgreSQL completes any.                   *)
Die(how) ==
  /\ process' = how
  /\ \E done \in SUBSET batches : table' = table \cup UNION done
  /\ buffer' = {} /\ batches' = {}
  /\ UNCHANGED <<logged, dropped, deleted, flusher, cleaner, pool, awaited, due>>

(* shutdown() runs once for every signal delivered: server.close(), then    *)
(* ten seconds of grace.                                                    *)
Signal(s) ==
  /\ process = "up"
  /\ shut[s] = "none"
  /\ shut' = [shut EXCEPT ![s] = "grace"]
  /\ UNCHANGED <<logged, buffer, batches, table, dropped, deleted, flusher, cleaner, pool,
                 awaited, due, process>>

(* shutdownDatabase: stop the flusher, flush what is left and await it.     *)
GraceEnds(s) ==
  /\ process = "up"
  /\ shut[s] = "grace"
  /\ flusher' = FALSE
  /\ shut' = [shut EXCEPT ![s] = "flushing"]
  /\ awaited' = [awaited EXCEPT ![s] = IF pool = "open" THEN buffer ELSE {}]
  /\ due' = IF flusher THEN logged ELSE due
  /\ Flush(buffer)
  /\ UNCHANGED <<logged, table, deleted, cleaner, pool, process>>

(* Mutant: the flush of shutdownDatabase is not awaited, nor the pool.      *)
FlushAwaited_NoAwait(s) ==
  /\ process = "up"
  /\ shut[s] = "flushing"
  /\ cleaner' = FALSE
  /\ shut' = [shut EXCEPT ![s] = "done"]
  /\ process' = "exited"
  /\ \E done \in SUBSET batches : table' = table \cup UNION done
  /\ buffer' = {} /\ batches' = {}
  /\ UNCHANGED <<logged, dropped, deleted, flusher, pool, awaited, due>>

(* Mutant: shutdown also waits for the buffer to stay empty.                *)
FlushAwaited_UntilEmpty(s) ==
  /\ process = "up"
  /\ shut[s] = "flushing"
  /\ awaited[s] \notin batches
  /\ buffer = {}
  /\ IF pool = "open"
     THEN /\ cleaner' = FALSE
          /\ pool' = "ending"
          /\ shut' = [shut EXCEPT ![s] = "ending"]
          /\ UNCHANGED <<logged, buffer, batches, table, dropped, deleted, flusher, awaited,
                         due, process>>
     ELSE Die("exited") /\ shut' = [shut EXCEPT ![s] = "done"]

(* The flush is over: stop the cleaner and end the pool.  A second          *)
(* pool.end() throws; shutdown() logs the error and exits.                  *)
FlushAwaited(s) ==
  /\ process = "up"
  /\ shut[s] = "flushing"
  /\ awaited[s] \notin batches
  /\ IF pool = "open"
     THEN /\ cleaner' = FALSE
          /\ pool' = "ending"
          /\ shut' = [shut EXCEPT ![s] = "ending"]
          /\ UNCHANGED <<logged, buffer, batches, table, dropped, deleted, flusher, awaited,
                         due, process>>
     ELSE Die("exited") /\ shut' = [shut EXCEPT ![s] = "done"]

(* pool.end() resolves when every client has been returned.                 *)
PoolEnded(s) ==
  /\ process = "up"
  /\ shut[s] = "ending"
  /\ batches = {}
  /\ shut' = [shut EXCEPT ![s] = "done"]
  /\ Die("exited")

Crash ==
  /\ process = "up"
  /\ Die("crashed")
  /\ UNCHANGED shut

Next ==
  \/ \E e \in Entries : LogRequest(e)
  \/ TimerFlush
  \/ \E b \in batches : BatchStored(b) \/ BatchFails(b)
  \/ Cleanup
  \/ \E s \in Signals : Signal(s) \/ GraceEnds(s) \/ FlushAwaited(s) \/ PoolEnded(s)
  \/ Crash

Spec == Init /\ [][Next]_vars

(* The timers fire, and every INSERT comes to an end: connection and socket *)
(* errors end it when PostgreSQL does not.                                  *)
Fairness ==
  /\ WF_vars(TimerFlush)
  /\ WF_vars(\E b \in batches : BatchStored(b) \/ BatchFails(b))
  /\ \A s \in Signals : /\ WF_vars(GraceEnds(s))
                        /\ WF_vars(FlushAwaited(s))
                        /\ WF_vars(PoolEnded(s))

FairSpec == Spec /\ Fairness

-----------------------------------------------------------------------------
TypeOK ==
  /\ logged \subseteq Entries /\ buffer \subseteq Entries /\ table \subseteq Entries
  /\ dropped \subseteq Entries /\ deleted \subseteq Entries /\ due \subseteq Entries
  /\ batches \subseteq (SUBSET Entries) \ {{}}
  /\ flusher \in BOOLEAN /\ cleaner \in BOOLEAN
  /\ pool \in {"open", "ending"}
  /\ shut \in [Signals -> {"none", "grace", "flushing", "ending", "done"}]
  /\ awaited \in [Signals -> SUBSET Entries]
  /\ process \in {"up", "exited", "crashed"}

Stored == table \cup deleted

(* The entries of the INSERTs under way.                                    *)
UnderWay == UNION batches

(* While the process runs every logged entry is in the buffer, in one       *)
(* INSERT, in the table, or reported as dropped: concurrent flushes never   *)
(* take an entry twice and never lose one.                                  *)
EachEntryInOnePlace ==
  /\ process = "up" => logged = buffer \cup UnderWay \cup Stored \cup dropped
  /\ buffer \cap (UnderWay \cup Stored \cup dropped) = {}
  /\ UnderWay \cap (Stored \cup dropped) = {}
  /\ \A b, d \in batches : b # d => b \cap d = {}

(* "when batch hits 50 entries" (ledger.ts:97): between two requests the    *)
(* buffer is short of a batch, so what a crash can lose from it is bounded. *)
BufferShortOfBatch == Cardinality(buffer) < BatchSize

(* "Flush any remaining buffered logs" and "Gracefully drain the pool"      *)
(* (ledger.ts:283, 290): when the process exits, all that was logged before *)
(* the drain began is in the table or was reported as dropped.              *)
DrainKeepsItsWord == process = "exited" => due \subseteq Stored \cup dropped

(* Where an entry is. *)
fate ==
  [e \in Entries |->
    IF e \in table THEN "stored"
    ELSE IF e \in deleted THEN "deleted"
    ELSE IF e \in buffer \cup UnderWay THEN "pending"
    ELSE IF e \in logged THEN "lost"
    ELSE "none"]

Promise == INSTANCE LogOnce

(* The log keeps the promise of LogOnce, whatever flushes overlap, fail or  *)
(* are cut off by a shutdown or a crash: an entry becomes a row once or is  *)
(* lost for good, and does not stay in memory.                              *)
PromiseKept == Promise!Spec

(* A process that was asked to stop does stop.                              *)
ShutdownEnds == (\E s \in Signals : shut[s] # "none") ~> process # "up"
=============================================================================
