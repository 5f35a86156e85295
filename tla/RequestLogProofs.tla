--------------------------- MODULE RequestLogProofs ---------------------------
(***************************************************************************)
(* The request log for any number of entries, any batch size and any number *)
(* of signals: an entry is in one place, the buffer is short of a batch,    *)
(* one shutdown keeps its word, and every step is one of LogOnce.           *)
(*                                                                         *)
(* The places of an entry hardly need strengthening: what is anywhere has   *)
(* been logged (Known), and a row is not in the table and deleted at once   *)
(* (DeletedIsGone).  The drain needs that what is due has left the buffer   *)
(* (DueIsFlushed) and that only a shutdown that has flushed ends the pool   *)
(* (EndedByDrain).                                                          *)
(***************************************************************************)
EXTENDS RequestLog, FiniteSetTheorems, TLAPS

Known ==
  /\ buffer \cup UnderWay \cup Stored \cup dropped \subseteq logged
  /\ due \subseteq logged

DeletedIsGone == table \cap deleted = {}

CleanerIsRetention == cleaner => Retention

EndedIsEmpty == process # "up" => buffer = {} /\ batches = {}

IInv ==
  /\ TypeOK
  /\ EachEntryInOnePlace
  /\ BufferShortOfBatch
  /\ Known
  /\ DeletedIsGone
  /\ CleanerIsRetention
  /\ EndedIsEmpty

-----------------------------------------------------------------------------
(* The helpers of the actions. *)

LEMMA SubsetsAreFinite ==
  ASSUME NEW s \in SUBSET Entries
  PROVE  IsFiniteSet(s) /\ Cardinality(s) \in Nat
BY RequestLogAssumption, FS_Subset, FS_CardinalityType

LEMMA EmptyIsShort == Cardinality({}) = 0 /\ 0 < BatchSize
BY RequestLogAssumption, FS_EmptySet, SMT

(* Flushing takes entries from the buffer, where they are or where they     *)
(* would go, to an INSERT of their own, or reports them as dropped.         *)
LEMMA FlushEffect ==
  ASSUME IInv, NEW e \in SUBSET Entries, Flush(e),
         e \cap (UnderWay \cup Stored \cup dropped) = {}
  PROVE  /\ buffer' = {}
         /\ batches' \subseteq (SUBSET Entries) \ {{}}
         /\ dropped' \subseteq Entries
         /\ UnderWay' \cup dropped' = UnderWay \cup dropped \cup e
         /\ UnderWay \subseteq UnderWay' /\ dropped \subseteq dropped'
         /\ UnderWay' \cap dropped' = {}
         /\ \A b, d \in batches' : b # d => b \cap d = {}
         /\ pool = "open" => dropped' = dropped
         /\ pool # "open" => batches' = batches
<1>1. CASE pool = "open"
  <2>1. batches' = batches \cup ({e} \ {{}}) /\ dropped' = dropped /\ buffer' = {}
    BY <1>1 DEF Flush
  <2>2. UnderWay' = UnderWay \cup e
    BY <2>1 DEF UnderWay
  <2>3. \A b \in batches : b \cap e = {}
    BY DEF UnderWay
  <2>4. \A b, d \in batches' : b # d => b \cap d = {}
    BY <2>1, <2>3 DEF IInv, EachEntryInOnePlace
  <2>5. QED BY <1>1, <2>1, <2>2, <2>4 DEF IInv, TypeOK, EachEntryInOnePlace
<1>2. CASE pool # "open"
  BY <1>2 DEF Flush, IInv, TypeOK, EachEntryInOnePlace, UnderWay
<1>3. QED BY <1>1, <1>2

(* The end of the process leaves nothing in memory.                         *)
LEMMA DieEffect ==
  ASSUME IInv, NEW how \in {"exited", "crashed"}, Die(how)
  PROVE  /\ process' = how
         /\ buffer' = {} /\ batches' = {}
         /\ table \subseteq table' /\ table' \subseteq table \cup UnderWay /\ UnderWay' = {}
         /\ UNCHANGED <<logged, dropped, deleted, flusher, cleaner, pool, awaited, due>>
BY DEF Die, UnderWay

-----------------------------------------------------------------------------
(* The invariant. *)

LEMMA InitInvariant == Init => IInv
<1> SUFFICES ASSUME Init PROVE IInv
  OBVIOUS
<1>1. TypeOK
  BY RequestLogAssumption DEF Init, TypeOK
<1>2. EachEntryInOnePlace /\ Known /\ DeletedIsGone /\ CleanerIsRetention /\ EndedIsEmpty
  BY DEF Init, EachEntryInOnePlace, Known, DeletedIsGone, CleanerIsRetention, EndedIsEmpty, Stored, UnderWay
<1>3. BufferShortOfBatch
  BY EmptyIsShort DEF Init, BufferShortOfBatch
<1>4. QED BY <1>1, <1>2, <1>3 DEF IInv

LEMMA LogRequestInvariant ==
  ASSUME IInv, NEW e \in Entries, LogRequest(e)
  PROVE  IInv'
<1>1. e \notin buffer \cup UnderWay \cup Stored \cup dropped
  BY DEF LogRequest, IInv, Known
<1>2. CASE Full(buffer \cup {e})
  <2>1. Flush(buffer \cup {e})
    BY <1>2 DEF LogRequest
  <2>2. buffer \cup {e} \in SUBSET Entries
    BY DEF IInv, TypeOK
  <2>3. (buffer \cup {e}) \cap (UnderWay \cup Stored \cup dropped) = {}
    BY <1>1 DEF IInv, EachEntryInOnePlace
  <2>4. TypeOK'
    BY <2>1, <2>2, <2>3, FlushEffect DEF LogRequest, IInv, TypeOK
  <2>5. EachEntryInOnePlace'
    BY <2>1, <2>2, <2>3, FlushEffect DEF LogRequest, IInv, EachEntryInOnePlace, Stored, UnderWay
  <2>6. BufferShortOfBatch'
    BY <2>1, <2>2, <2>3, FlushEffect, EmptyIsShort DEF BufferShortOfBatch
  <2>7. Known' /\ DeletedIsGone' /\ CleanerIsRetention' /\ EndedIsEmpty'
    BY <2>1, <2>2, <2>3, FlushEffect
    DEF LogRequest, IInv, Known, DeletedIsGone, CleanerIsRetention, EndedIsEmpty, Stored, UnderWay
  <2>8. QED BY <2>4, <2>5, <2>6, <2>7 DEF IInv
<1>3. CASE ~Full(buffer \cup {e})
  <2>1. buffer' = buffer \cup {e} /\ UNCHANGED <<batches, dropped>>
    BY <1>3 DEF LogRequest
  <2>2. BufferShortOfBatch'
    <3>1. Cardinality(buffer \cup {e}) \in Nat
      BY SubsetsAreFinite DEF IInv, TypeOK
    <3>2. ~(Cardinality(buffer \cup {e}) >= BatchSize)
      BY <1>3 DEF Full
    <3>3. QED BY <2>1, <3>1, <3>2, RequestLogAssumption, SMT DEF BufferShortOfBatch
  <2>3. TypeOK'
    BY <2>1 DEF LogRequest, IInv, TypeOK
  <2>4. EachEntryInOnePlace'
    BY <1>1, <2>1 DEF LogRequest, IInv, EachEntryInOnePlace, Stored, UnderWay
  <2>5. Known' /\ DeletedIsGone' /\ CleanerIsRetention' /\ EndedIsEmpty'
    BY <2>1
    DEF LogRequest, IInv, Known, DeletedIsGone, CleanerIsRetention, EndedIsEmpty, Stored, UnderWay
  <2>6. QED BY <2>2, <2>3, <2>4, <2>5 DEF IInv
<1>4. QED BY <1>2, <1>3

(* The flushes of the timer and of shutdownDatabase.                        *)
LEMMA FlushInvariant ==
  ASSUME IInv, Flush(buffer), due' \in {due, logged}, TypeOK', process = "up",
         cleaner' = cleaner, UNCHANGED <<logged, table, deleted, process>>
  PROVE  IInv'
<1>1. buffer \in SUBSET Entries /\ buffer \cap (UnderWay \cup Stored \cup dropped) = {}
  BY DEF IInv, TypeOK, EachEntryInOnePlace
<1>2. EachEntryInOnePlace'
  BY <1>1, FlushEffect DEF IInv, EachEntryInOnePlace, Stored, UnderWay
<1>3. BufferShortOfBatch'
  BY <1>1, FlushEffect, EmptyIsShort DEF BufferShortOfBatch
<1>4. Known' /\ DeletedIsGone' /\ CleanerIsRetention' /\ EndedIsEmpty'
  BY <1>1, FlushEffect DEF IInv, Known, DeletedIsGone, CleanerIsRetention, EndedIsEmpty, Stored, UnderWay
<1>5. QED BY <1>2, <1>3, <1>4 DEF IInv

LEMMA TimerFlushInvariant ==
  ASSUME IInv, TimerFlush
  PROVE  IInv'
<1>1. buffer \in SUBSET Entries /\ buffer \cap (UnderWay \cup Stored \cup dropped) = {}
  BY DEF IInv, TypeOK, EachEntryInOnePlace
<1>2. TypeOK'
  BY <1>1, FlushEffect DEF TimerFlush, IInv, TypeOK
<1>3. QED BY <1>2, FlushInvariant DEF TimerFlush

LEMMA GraceEndsInvariant ==
  ASSUME IInv, NEW s \in Signals, GraceEnds(s)
  PROVE  IInv'
<1>1. buffer \in SUBSET Entries /\ buffer \cap (UnderWay \cup Stored \cup dropped) = {}
  BY DEF IInv, TypeOK, EachEntryInOnePlace
<1>2. due' \in {due, logged}
  BY DEF GraceEnds
<1>3. /\ buffer' \subseteq Entries /\ batches' \subseteq (SUBSET Entries) \ {{}}
      /\ dropped' \subseteq Entries
  BY <1>1, FlushEffect DEF GraceEnds
<1>4. /\ shut' \in [Signals -> {"none", "grace", "flushing", "ending", "done"}]
      /\ awaited' \in [Signals -> SUBSET Entries]
  <2>1. (IF pool = "open" THEN buffer ELSE {}) \in SUBSET Entries
    BY <1>1
  <2>2. QED BY <2>1 DEF GraceEnds, IInv, TypeOK
<1>5. TypeOK'
  BY <1>2, <1>3, <1>4 DEF GraceEnds, IInv, TypeOK
<1>6. QED BY <1>2, <1>5, FlushInvariant DEF GraceEnds

LEMMA BatchInvariant ==
  ASSUME IInv, NEW b \in batches, BatchStored(b) \/ BatchFails(b)
  PROVE  IInv'
<1>1. /\ b \in SUBSET Entries
      /\ batches' = batches \ {b}
      /\ UnderWay = UnderWay' \cup b
      /\ UnderWay' \cap b = {}
      /\ UNCHANGED <<logged, buffer, deleted, cleaner, due, process>>
  BY DEF BatchStored, BatchFails, IInv, TypeOK, EachEntryInOnePlace, UnderWay
<1>2. /\ table' \in {table, table \cup b} /\ dropped' \in {dropped, dropped \cup b}
      /\ b \subseteq table' \cup dropped'
  BY DEF BatchStored, BatchFails
<1>3. TypeOK'
  BY <1>1, <1>2 DEF BatchStored, BatchFails, IInv, TypeOK
<1>4. EachEntryInOnePlace'
  BY <1>1, <1>2 DEF IInv, EachEntryInOnePlace, Stored, UnderWay
<1>5. Known' /\ DeletedIsGone'
  BY <1>1, <1>2 DEF IInv, EachEntryInOnePlace, Known, DeletedIsGone, Stored, UnderWay
<1>6. BufferShortOfBatch' /\ CleanerIsRetention' /\ EndedIsEmpty'
  BY <1>1 DEF IInv, BufferShortOfBatch, CleanerIsRetention, EndedIsEmpty
<1>7. QED BY <1>3, <1>4, <1>5, <1>6 DEF IInv

LEMMA CleanupInvariant ==
  ASSUME IInv, Cleanup
  PROVE  IInv'
<1>1. PICK old \in SUBSET table : table' = table \ old /\ deleted' = deleted \cup old
  BY DEF Cleanup
<1>2. Stored' = Stored
  BY <1>1 DEF Stored
<1>3. TypeOK' /\ DeletedIsGone'
  BY <1>1 DEF Cleanup, IInv, TypeOK, DeletedIsGone
<1>4. EachEntryInOnePlace' /\ Known'
  BY <1>2 DEF Cleanup, IInv, EachEntryInOnePlace, Known, UnderWay
<1>5. BufferShortOfBatch' /\ CleanerIsRetention' /\ EndedIsEmpty'
  BY DEF Cleanup, IInv, BufferShortOfBatch, CleanerIsRetention, EndedIsEmpty
<1>6. QED BY <1>3, <1>4, <1>5 DEF IInv

LEMMA DieInvariant ==
  ASSUME IInv, NEW how \in {"exited", "crashed"}, Die(how),
         shut' \in [Signals -> {"none", "grace", "flushing", "ending", "done"}]
  PROVE  IInv'
<1>1. TypeOK'
  BY DieEffect DEF IInv, TypeOK, UnderWay
<1>2. EachEntryInOnePlace' /\ Known' /\ EndedIsEmpty'
  BY DieEffect DEF IInv, EachEntryInOnePlace, Known, EndedIsEmpty, Stored, UnderWay
<1>3. DeletedIsGone' /\ CleanerIsRetention'
  BY DieEffect DEF IInv, EachEntryInOnePlace, DeletedIsGone, CleanerIsRetention, Stored, UnderWay
<1>4. BufferShortOfBatch'
  BY DieEffect, EmptyIsShort DEF BufferShortOfBatch
<1>5. QED BY <1>1, <1>2, <1>3, <1>4 DEF IInv

LEMMA ShutdownInvariant ==
  ASSUME IInv, NEW s \in Signals, Signal(s) \/ FlushAwaited(s) \/ PoolEnded(s)
  PROVE  IInv'
<1>1. shut' \in [Signals -> {"none", "grace", "flushing", "ending", "done"}]
  BY DEF Signal, FlushAwaited, PoolEnded, IInv, TypeOK
<1>2. CASE Die("exited")
  BY <1>1, <1>2, DieInvariant
<1>3. CASE ~Die("exited")
  <2>1. /\ UNCHANGED <<logged, buffer, batches, table, dropped, deleted, flusher, awaited, due, process>>
        /\ cleaner' \in {cleaner, FALSE} /\ pool' \in {pool, "ending"}
    BY <1>3 DEF Signal, FlushAwaited, PoolEnded
  <2>2. TypeOK'
    BY <1>1, <2>1 DEF IInv, TypeOK
  <2>3. EachEntryInOnePlace' /\ Known' /\ DeletedIsGone' /\ BufferShortOfBatch' /\ EndedIsEmpty'
    BY <2>1
    DEF IInv, EachEntryInOnePlace, Known, DeletedIsGone, BufferShortOfBatch, EndedIsEmpty, Stored, UnderWay
  <2>4. CleanerIsRetention'
    BY <2>1 DEF IInv, CleanerIsRetention
  <2>5. QED BY <2>2, <2>3, <2>4 DEF IInv
<1>4. QED BY <1>2, <1>3

LEMMA NextInvariant == IInv /\ [Next]_vars => IInv'
<1> SUFFICES ASSUME IInv, [Next]_vars PROVE IInv'
  OBVIOUS
<1>1. ASSUME NEW e \in Entries, LogRequest(e) PROVE IInv'
  BY <1>1, LogRequestInvariant
<1>2. CASE TimerFlush
  BY <1>2, TimerFlushInvariant
<1>3. ASSUME NEW b \in batches, BatchStored(b) \/ BatchFails(b) PROVE IInv'
  BY <1>3, BatchInvariant
<1>4. CASE Cleanup
  BY <1>4, CleanupInvariant
<1>5. ASSUME NEW s \in Signals, Signal(s) \/ GraceEnds(s) \/ FlushAwaited(s) \/ PoolEnded(s)
      PROVE  IInv'
  BY <1>5, GraceEndsInvariant, ShutdownInvariant
<1>6. CASE Crash
  BY <1>6, DieInvariant DEF Crash, IInv, TypeOK
<1>7. CASE UNCHANGED vars
  BY <1>7 DEF vars, IInv, TypeOK, EachEntryInOnePlace, BufferShortOfBatch, Known, DeletedIsGone,
     CleanerIsRetention, EndedIsEmpty, Stored, UnderWay
<1>8. QED BY <1>1, <1>2, <1>3, <1>4, <1>5, <1>6, <1>7 DEF Next

LEMMA Invariance == Spec => []IInv
BY InitInvariant, NextInvariant, PTL DEF Spec

(* The types, for any number of entries and signals.                        *)
THEOREM TypeCorrectness == Spec => []TypeOK
<1>1. IInv => TypeOK
  BY DEF IInv
<1>2. QED BY <1>1, Invariance, PTL

(* No entry is taken by two flushes or lost between them, whatever the size *)
(* of a batch and however many INSERTs are under way.                       *)
THEOREM NoEntryAstray == Spec => []EachEntryInOnePlace
<1>1. IInv => EachEntryInOnePlace
  BY DEF IInv
<1>2. QED BY <1>1, Invariance, PTL

(* The buffer never holds a batch between two turns of the event loop.      *)
THEOREM BufferIsBounded == Spec => []BufferShortOfBatch
<1>1. IInv => BufferShortOfBatch
  BY DEF IInv
<1>2. QED BY <1>1, Invariance, PTL

-----------------------------------------------------------------------------
(* One shutdown. *)

DueIsFlushed == process = "up" => due \subseteq UnderWay \cup Stored \cup dropped

EndedByDrain == pool # "open" => \E s \in Signals : shut[s] \in {"ending", "done"}

DInv == DueIsFlushed /\ EndedByDrain /\ DrainKeepsItsWord

(* What the process does besides shutting down.                             *)
LEMMA WorkKeepsDInv ==
  ASSUME IInv, DInv,
         \/ \E e \in Entries : LogRequest(e)
         \/ TimerFlush
         \/ \E b \in batches : BatchStored(b) \/ BatchFails(b)
         \/ Cleanup
  PROVE  DInv'
<1>1. UNCHANGED <<due, pool, shut, process>> /\ process = "up"
  BY DEF LogRequest, TimerFlush, BatchStored, BatchFails, Cleanup
<1>2. UnderWay \cup Stored \cup dropped \subseteq (UnderWay \cup Stored \cup dropped)'
  <2>1. ASSUME NEW e \in Entries, LogRequest(e)
        PROVE  UnderWay \subseteq UnderWay' /\ dropped \subseteq dropped' /\ UNCHANGED Stored
    <3>1. CASE Full(buffer \cup {e})
      <4>1. buffer \cup {e} \in SUBSET Entries
        BY DEF IInv, TypeOK
      <4>2. (buffer \cup {e}) \cap (UnderWay \cup Stored \cup dropped) = {}
        BY <2>1 DEF LogRequest, IInv, Known, EachEntryInOnePlace
      <4>3. QED BY <2>1, <3>1, <4>1, <4>2, FlushEffect DEF LogRequest, Stored
    <3>2. CASE ~Full(buffer \cup {e})
      BY <2>1, <3>2 DEF LogRequest, UnderWay, Stored
    <3>3. QED BY <3>1, <3>2
  <2>2. CASE TimerFlush
    <3>1. buffer \in SUBSET Entries /\ buffer \cap (UnderWay \cup Stored \cup dropped) = {}
      BY DEF IInv, TypeOK, EachEntryInOnePlace
    <3>2. QED BY <2>2, <3>1, FlushEffect DEF TimerFlush, Stored
  <2>3. ASSUME NEW b \in batches, BatchStored(b) \/ BatchFails(b)
        PROVE  UnderWay \cup Stored \cup dropped \subseteq (UnderWay \cup Stored \cup dropped)'
    <3>1. UnderWay = UnderWay' \cup b /\ UNCHANGED deleted
      BY <2>3 DEF BatchStored, BatchFails, UnderWay
    <3>2. table \subseteq table' /\ dropped \subseteq dropped' /\ b \subseteq table' \cup dropped'
      BY <2>3 DEF BatchStored, BatchFails
    <3>3. QED BY <3>1, <3>2 DEF Stored
  <2>4. CASE Cleanup
    BY <2>4 DEF Cleanup, Stored, UnderWay
  <2>5. QED BY <2>1, <2>2, <2>3, <2>4
<1>3. DueIsFlushed'
  BY <1>1, <1>2 DEF DInv, DueIsFlushed
<1>4. EndedByDrain' /\ DrainKeepsItsWord'
  BY <1>1 DEF DInv, EndedByDrain, DrainKeepsItsWord
<1>5. QED BY <1>3, <1>4 DEF DInv

LEMMA ShutdownKeepsDInv ==
  ASSUME IInv, DInv, \A s, t \in Signals : s = t, NEW s \in Signals,
         Signal(s) \/ GraceEnds(s) \/ FlushAwaited(s) \/ PoolEnded(s)
  PROVE  DInv'
<1>1. CASE Signal(s)
  <2>1. EndedByDrain'
    BY <1>1 DEF Signal, IInv, TypeOK, DInv, EndedByDrain
  <2>2. QED BY <1>1, <2>1 DEF Signal, DInv, DueIsFlushed, DrainKeepsItsWord, Stored, UnderWay
<1>2. CASE GraceEnds(s)
  <2>1. buffer \in SUBSET Entries /\ buffer \cap (UnderWay \cup Stored \cup dropped) = {}
    BY DEF IInv, TypeOK, EachEntryInOnePlace
  <2>2. UnderWay' \cup dropped' = UnderWay \cup dropped \cup buffer /\ UNCHANGED Stored
    BY <1>2, <2>1, FlushEffect DEF GraceEnds, Stored
  <2>3. due' \subseteq buffer \cup UnderWay \cup Stored \cup dropped
    BY <1>2 DEF GraceEnds, IInv, Known, EachEntryInOnePlace
  <2>4. DueIsFlushed'
    BY <2>2, <2>3 DEF DueIsFlushed
  <2>5. EndedByDrain'
    BY <1>2 DEF GraceEnds, IInv, TypeOK, DInv, EndedByDrain
  <2>6. DrainKeepsItsWord'
    BY <1>2 DEF GraceEnds, DrainKeepsItsWord
  <2>7. QED BY <2>4, <2>5, <2>6 DEF DInv
<1>3. CASE FlushAwaited(s)
  <2>1. pool = "open"
    BY <1>3 DEF FlushAwaited, DInv, EndedByDrain
  <2>2. EndedByDrain'
    BY <1>3, <2>1 DEF FlushAwaited, IInv, TypeOK, EndedByDrain
  <2>3. QED
    BY <1>3, <2>1, <2>2
    DEF FlushAwaited, DInv, DueIsFlushed, DrainKeepsItsWord, Stored, UnderWay
<1>4. CASE PoolEnded(s)
  <2>1. UnderWay = {} /\ Die("exited")
    BY <1>4 DEF PoolEnded, UnderWay
  <2>2. DrainKeepsItsWord' /\ DueIsFlushed'
    BY <1>4, <2>1, DieEffect
    DEF PoolEnded, DInv, DueIsFlushed, DrainKeepsItsWord, Stored
  <2>3. EndedByDrain'
    BY <1>4, <2>1, DieEffect DEF PoolEnded, IInv, TypeOK, DInv, EndedByDrain
  <2>4. QED BY <2>2, <2>3 DEF DInv
<1>5. QED BY <1>1, <1>2, <1>3, <1>4

(* With one signal the drain keeps its word: RequestLog_twosignals shows    *)
(* what a second one does.                                                  *)
THEOREM OneShutdownKeepsItsWord ==
  ASSUME \A s, t \in Signals : s = t
  PROVE  Spec => []DrainKeepsItsWord
<1>1. Init => DInv
  BY DEF Init, DInv, DueIsFlushed, EndedByDrain, DrainKeepsItsWord
<1>2. IInv /\ DInv /\ [Next]_vars => DInv'
  <2> SUFFICES ASSUME IInv, DInv, [Next]_vars PROVE DInv'
    OBVIOUS
  <2>1. CASE \E s \in Signals : Signal(s) \/ GraceEnds(s) \/ FlushAwaited(s) \/ PoolEnded(s)
    BY <2>1, ShutdownKeepsDInv
  <2>2. CASE Crash
    BY <2>2, DieEffect DEF Crash, DInv, DueIsFlushed, EndedByDrain, DrainKeepsItsWord
  <2>3. CASE UNCHANGED vars
    BY <2>3 DEF vars, DInv, DueIsFlushed, EndedByDrain, DrainKeepsItsWord, Stored, UnderWay
  <2>4. QED BY <2>1, <2>2, <2>3, WorkKeepsDInv DEF Next
<1>3. DInv => DrainKeepsItsWord
  BY DEF DInv
<1>4. QED BY <1>1, <1>2, <1>3, Invariance, PTL DEF Spec

-----------------------------------------------------------------------------
(* The refinement of LogOnce. *)

LEMMA FateOf ==
  ASSUME NEW e \in Entries
  PROVE  fate[e] = IF e \in table THEN "stored"
                   ELSE IF e \in deleted THEN "deleted"
                   ELSE IF e \in buffer \cup UnderWay THEN "pending"
                   ELSE IF e \in logged THEN "lost"
                   ELSE "none"
BY DEF fate

LEMMA FateOfPrime ==
  ASSUME NEW e \in Entries
  PROVE  fate'[e] = IF e \in table' THEN "stored"
                    ELSE IF e \in deleted' THEN "deleted"
                    ELSE IF e \in buffer' \cup UnderWay' THEN "pending"
                    ELSE IF e \in logged' THEN "lost"
                    ELSE "none"
BY DEF fate

(* What is in memory is pending, and nothing else is.                       *)
LEMMA PendingIsInMemory ==
  ASSUME IInv, NEW e \in Entries
  PROVE  fate[e] = "pending" <=> e \in buffer \cup UnderWay
BY FateOf DEF IInv, EachEntryInOnePlace, Stored

(* A step that keeps the rows, and takes each entry in memory to where it   *)
(* is stored, or nowhere.                                                   *)
LEMMA EndRefines ==
  ASSUME IInv, NEW stored, NEW lost,
         stored \subseteq buffer \cup UnderWay,
         lost \subseteq ((buffer \cup UnderWay) \ stored) \cup (Entries \ logged),
         buffer' \cup UnderWay' = (buffer \cup UnderWay) \ (stored \cup lost),
         table' = table \cup stored, logged' = logged \cup lost, deleted' = deleted
  PROVE  Promise!End(stored, lost)
<1>1. stored \subseteq Entries /\ lost \subseteq Entries
  BY DEF IInv, TypeOK, UnderWay
<1>2. stored \subseteq Promise!Are("pending")
  BY <1>1, PendingIsInMemory DEF Promise!Are
<1>3. \A e \in Entries \ logged : fate[e] = "none"
  BY FateOf DEF IInv, Known, Stored
<1>4. lost \subseteq (Promise!Are("pending") \ stored) \cup Promise!Are("none")
  BY <1>1, <1>3, PendingIsInMemory DEF Promise!Are
<1>5. ASSUME NEW e \in Entries
      PROVE  fate'[e] = IF e \in stored THEN "stored"
                        ELSE IF e \in lost THEN "lost" ELSE fate[e]
  <2>1. e \in lost => e \notin Stored
    BY DEF IInv, EachEntryInOnePlace, Known
  <2>2. CASE e \in stored
    BY <2>2, FateOfPrime
  <2>3. CASE e \in lost /\ e \notin stored
    BY <2>1, <2>3, FateOfPrime DEF Stored
  <2>4. CASE e \notin stored \cup lost
    BY <2>4, FateOf, FateOfPrime
  <2>5. QED BY <2>2, <2>3, <2>4
<1>6. fate' = [e \in Entries |-> IF e \in stored THEN "stored"
                                 ELSE IF e \in lost THEN "lost" ELSE fate[e]]
  BY <1>5 DEF fate
<1>7. QED BY <1>2, <1>4, <1>6 DEF Promise!End

(* ... and LogOnce allows it.                                               *)
LEMMA EndIsNext ==
  ASSUME NEW stored, NEW lost, Promise!End(stored, lost)
  PROVE  Promise!Next
BY DEF Promise!Next, Promise!End

(* Where the entries in memory are makes no difference.                     *)
LEMMA MemoryStutters ==
  ASSUME buffer' \cup UnderWay' = buffer \cup UnderWay, UNCHANGED <<table, deleted, logged>>
  PROVE  fate' = fate
<1>1. \A e \in Entries : fate'[e] = fate[e]
  BY FateOf, FateOfPrime
<1>2. QED BY <1>1 DEF fate

(* A flush moves entries to an INSERT, or loses them.                       *)
LEMMA FlushRefines ==
  ASSUME IInv, NEW e \in SUBSET Entries, Flush(e), buffer \subseteq e,
         e \ buffer \subseteq Entries \ logged,
         table' = table, deleted' = deleted, logged' = logged \cup e
  PROVE  \/ /\ pool = "open"
            /\ buffer' \cup UnderWay' = UnderWay \cup e
         \/ Promise!Next
<1>1. e \cap (UnderWay \cup Stored \cup dropped) = {}
  BY DEF IInv, EachEntryInOnePlace, Known
<1>2. CASE pool = "open"
  BY <1>1, <1>2, FlushEffect
<1>3. CASE pool # "open"
  <2>1. buffer' = {} /\ UnderWay' = UnderWay
    BY <1>1, <1>3, FlushEffect DEF UnderWay
  <2>2. (buffer \cup UnderWay) \ ({} \cup e) = buffer' \cup UnderWay'
    BY <1>1, <2>1
  <2>3. Promise!End({}, e)
    BY <2>2, EndRefines
  <2>4. QED BY <2>3, EndIsNext
<1>4. QED BY <1>2, <1>3

LEMMA LogRequestRefines ==
  ASSUME IInv, NEW e \in Entries, LogRequest(e)
  PROVE  Promise!Next
<1>1. e \notin logged /\ e \notin buffer \cup UnderWay \cup Stored
  BY DEF LogRequest, IInv, Known
<1>2. CASE buffer' \cup UnderWay' = buffer \cup UnderWay \cup {e}
  <2>1. fate[e] = "none"
    BY <1>1, FateOf DEF Stored
  <2>2. \A d \in Entries : fate'[d] = IF d \in {e} THEN "pending" ELSE fate[d]
    BY <1>1, <1>2, FateOf, FateOfPrime DEF LogRequest, Stored
  <2>3. fate' = Promise!Become({e}, "pending")
    BY <2>2 DEF fate, Promise!Become
  <2>4. QED BY <2>1, <2>3 DEF Promise!Next, Promise!Log
<1>3. CASE Full(buffer \cup {e})
  <2>1. buffer \cup {e} \in SUBSET Entries
    BY DEF IInv, TypeOK
  <2>2. logged' = logged \cup (buffer \cup {e})
    BY DEF LogRequest, IInv, Known
  <2>3. \/ buffer' \cup UnderWay' = UnderWay \cup (buffer \cup {e})
        \/ Promise!Next
    BY <1>1, <1>3, <2>1, <2>2, FlushRefines DEF LogRequest
  <2>4. QED BY <1>2, <2>3
<1>4. CASE ~Full(buffer \cup {e})
  BY <1>2, <1>4 DEF LogRequest, UnderWay
<1>5. QED BY <1>3, <1>4

LEMMA BufferFlushRefines ==
  ASSUME IInv, Flush(buffer), UNCHANGED <<logged, table, deleted>>
  PROVE  Promise!Next \/ fate' = fate
<1>1. buffer \in SUBSET Entries /\ logged = logged \cup buffer
  BY DEF IInv, TypeOK, Known
<1>2. buffer' \cup UnderWay' = UnderWay \cup buffer \/ Promise!Next
  BY <1>1, FlushRefines
<1>3. QED BY <1>2, MemoryStutters

LEMMA BatchRefines ==
  ASSUME IInv, NEW b \in batches, BatchStored(b) \/ BatchFails(b)
  PROVE  Promise!Next
<1>1. /\ b \subseteq buffer \cup UnderWay /\ b \subseteq logged /\ b \cap buffer = {}
      /\ UnderWay' = UnderWay \ b
      /\ UNCHANGED <<logged, buffer, deleted>>
  BY DEF BatchStored, BatchFails, IInv, EachEntryInOnePlace, Known, UnderWay
<1>2. CASE table' = table \cup b
  <2>1. Promise!End(b, {})
    BY <1>1, <1>2, EndRefines
  <2>2. QED BY <2>1, EndIsNext
<1>3. CASE table' = table
  <2>1. Promise!End({}, b)
    BY <1>1, <1>3, EndRefines
  <2>2. QED BY <2>1, EndIsNext
<1>4. QED BY <1>2, <1>3 DEF BatchStored, BatchFails

LEMMA CleanupRefines ==
  ASSUME IInv, Cleanup
  PROVE  Promise!Next
<1>1. PICK old \in SUBSET table : table' = table \ old /\ deleted' = deleted \cup old
  BY DEF Cleanup
<1>2. old \subseteq Promise!Are("stored")
  BY FateOf DEF IInv, TypeOK, Promise!Are
<1>3. \A e \in Entries : fate'[e] = IF e \in old THEN "deleted" ELSE fate[e]
  BY <1>1, FateOf, FateOfPrime DEF Cleanup, IInv, DeletedIsGone, UnderWay
<1>4. fate' = Promise!Become(old, "deleted")
  BY <1>3 DEF fate, Promise!Become
<1>5. Promise!Delete(old)
  BY <1>2, <1>4 DEF Promise!Delete, Cleanup, IInv, CleanerIsRetention
<1>6. QED BY <1>2, <1>5 DEF Promise!Next

(* The end of the process stores some of what is under way and loses the    *)
(* rest of what is in memory.                                               *)
LEMMA DieRefines ==
  ASSUME IInv, NEW how \in {"exited", "crashed"}, Die(how)
  PROVE  Promise!Next
<1>1. PICK done \in SUBSET batches : table' = table \cup (UNION done)
  BY DEF Die
<1>2. UNION done \subseteq buffer \cup UnderWay
  BY DEF UnderWay
<1>3. DEFINE lost == (buffer \cup UnderWay) \ (UNION done)
<1>4. logged' = logged \cup lost /\ deleted' = deleted /\ buffer' = {} /\ UnderWay' = {}
  BY DieEffect DEF IInv, Known
<1>5. Promise!End(UNION done, lost)
  BY <1>1, <1>2, <1>4, EndRefines
<1>6. QED BY <1>5, EndIsNext

LEMMA StepRefines ==
  ASSUME IInv, [Next]_vars
  PROVE  Promise!Next \/ fate' = fate
<1>1. CASE \E e \in Entries : LogRequest(e)
  BY <1>1, LogRequestRefines
<1>2. CASE TimerFlush \/ \E s \in Signals : GraceEnds(s)
  BY <1>2, BufferFlushRefines DEF TimerFlush, GraceEnds
<1>3. CASE \E b \in batches : BatchStored(b) \/ BatchFails(b)
  BY <1>3, BatchRefines
<1>4. CASE Cleanup
  BY <1>4, CleanupRefines
<1>5. CASE \E s \in Signals : Signal(s) \/ FlushAwaited(s) \/ PoolEnded(s)
  <2>1. CASE Die("exited")
    BY <2>1, DieRefines
  <2>2. CASE ~Die("exited")
    BY <1>5, <2>2 DEF Signal, FlushAwaited, PoolEnded, fate, UnderWay
  <2>3. QED BY <2>1, <2>2
<1>6. CASE Crash
  BY <1>6, DieRefines DEF Crash
<1>7. CASE UNCHANGED vars
  BY <1>7 DEF vars, fate, UnderWay
<1>8. QED BY <1>1, <1>2, <1>3, <1>4, <1>5, <1>6, <1>7 DEF Next

(* Every behaviour of the log is one of LogOnce, for any number of entries, *)
(* signals and concurrent INSERTs: the safety part of PromiseKept.  That    *)
(* no entry stays in memory is left to the model checker.                   *)
THEOREM LogsOnce == Spec => Promise!Init /\ [][Promise!Next]_fate
<1>1. Init => Promise!Init
  <2> SUFFICES ASSUME Init PROVE fate = [e \in Entries |-> "none"]
    BY DEF Promise!Init
  <2>1. QED BY DEF Init, fate, UnderWay
<1>2. IInv /\ [Next]_vars => [Promise!Next]_fate
  BY StepRefines
<1>3. QED BY <1>1, <1>2, Invariance, PTL DEF Spec
=============================================================================
