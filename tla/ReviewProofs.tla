---- MODULE ReviewProofs ----
(***************************************************************************)
(* Proofs about a review: first about ReviewPersistence, for any set of    *)
(* tabs and payloads, any clock and any record an earlier run has left;    *)
(* then about ReviewSession, whose specification is SessionSpec.           *)
(***************************************************************************)
EXTENDS ReviewPersistence, ReviewSession, FoldProofs, TLAPS

(* A generation that replaces another is larger, positive, and within the  *)
(* range of the record.                                                    *)
LEMMA NextGenerationGrows ==
    ASSUME NEW g \in Generations, NEW reset \in BOOLEAN,
           NEW now \in Int, reset => now \in Clock,
           reset => g # MaxSafeInteger,
           reset \/ ValidGeneration(g)
    PROVE  /\ NextGeneration(g, reset, now) \in Generations
           /\ NextGeneration(g, reset, now) > g
           /\ NextGeneration(g, reset, now) > 0
<1>1. MaxSafeInteger \in Nat /\ MaxSafeInteger > 1
      /\ \A c \in Clock : c \in 1 .. MaxSafeInteger - 1
    BY StorageAssumption
<1>2. CASE ~reset
    BY <1>1, <1>2 DEF NextGeneration, ValidGeneration, Generations
<1>3. CASE reset
    <2>1. now \in Int /\ 1 <= now /\ now <= MaxSafeInteger - 1
        BY <1>1, <1>3
    <2>2. CASE ValidGeneration(g)
        BY <1>1, <1>3, <2>1, <2>2 DEF NextGeneration, ValidGeneration, Generations
    <2>3. CASE ~ValidGeneration(g)
        BY <1>1, <1>3, <2>1, <2>3 DEF NextGeneration, ValidGeneration, Generations
    <2>4. QED
        BY <2>2, <2>3
<1>4. QED
    BY <1>2, <1>3

(* Making jobs stale keeps them a sequence of jobs, all of them stale.     *)
LEMMA StaleJobs ==
    ASSUME NEW jobs \in Seq(Jobs)
    PROVE  /\ Stale(jobs) \in Seq(Jobs)
           /\ Len(Stale(jobs)) = Len(jobs)
           /\ DOMAIN Stale(jobs) = DOMAIN jobs
           /\ \A i \in DOMAIN Stale(jobs) : Stale(jobs)[i].stale
<1>1. DOMAIN jobs = 1 .. Len(jobs) /\ Len(jobs) \in Nat
    OBVIOUS
<1>0. \A i \in 1 .. Len(jobs) : jobs[i] \in Jobs
    BY <1>1
<1>2. \A i \in 1 .. Len(jobs) :
          /\ [jobs[i] EXCEPT !.stale = TRUE] \in Jobs
          /\ [jobs[i] EXCEPT !.stale = TRUE].stale
    BY <1>0 DEF Jobs
<1>3. Stale(jobs) \in [1 .. Len(jobs) -> Jobs]
    BY <1>1, <1>2 DEF Stale
<1>4. Stale(jobs) \in Seq(Jobs)
    BY <1>1, <1>3
<1>5. DOMAIN Stale(jobs) = 1 .. Len(jobs) /\ Len(Stale(jobs)) = Len(jobs)
    BY <1>1, <1>3, <1>4
<1>6. \A i \in 1 .. Len(jobs) : Stale(jobs)[i].stale
    BY <1>1, <1>2 DEF Stale
<1>7. QED
    BY <1>1, <1>4, <1>5, <1>6
(* The constants of the record shapes have their types.                    *)
LEMMA Shapes ==
    /\ Absent \in Records
    /\ NoTimer \in Timers
    /\ NoWrite \in Writes
    /\ NoTask \in Tasks
    /\ \A kind \in {"load", "clear", "reset"} : Begin(kind) \in Tasks
<1>1. Absent \in Records
    BY StorageAssumption DEF Absent, Records, Generations, Kinds
<1>2. NoTimer \in Timers /\ NoWrite \in Writes
    BY StorageAssumption DEF NoTimer, Timers, NoWrite, Writes
<1>3. NoTask \in Tasks /\ \A kind \in {"load", "clear", "reset"} : Begin(kind) \in Tasks
    BY <1>1 DEF NoTask, Begin, Tasks
<1>4. QED
    BY <1>1, <1>2, <1>3

(* ++epoch.current keeps timers timers and jobs jobs, and leaves no timer  *)
(* and no job of the tab fresh.                                            *)
LEMMA BumpEpochEffect ==
    ASSUME TypeOK, NEW t \in Tabs, BumpEpoch(t)
    PROVE  /\ timer' \in [Tabs -> Timers]
           /\ queue' \in [Tabs -> Seq(Jobs)]
           /\ timer'[t].stale
           /\ \A i \in DOMAIN queue'[t] : queue'[t][i].stale
           /\ \A u \in Tabs \ {t} : timer'[u] = timer[u] /\ queue'[u] = queue[u]
<1>1. queue[t] \in Seq(Jobs) /\ timer[t] \in Timers
    BY DEF TypeOK
<1>2. Stale(queue[t]) \in Seq(Jobs)
      /\ \A i \in DOMAIN Stale(queue[t]) : Stale(queue[t])[i].stale
    BY <1>1, StaleJobs
<1>3. queue' = [queue EXCEPT ![t] = Stale(queue[t])]
      /\ timer' = [timer EXCEPT ![t].stale = TRUE]
    BY DEF BumpEpoch
<1>4. queue' \in [Tabs -> Seq(Jobs)] /\ queue'[t] = Stale(queue[t])
      /\ \A u \in Tabs \ {t} : queue'[u] = queue[u]
    BY <1>2, <1>3 DEF TypeOK
<1>5. timer' \in [Tabs -> Timers] /\ timer'[t].stale
      /\ \A u \in Tabs \ {t} : timer'[u] = timer[u]
    BY <1>1, <1>3 DEF TypeOK, Timers
<1>6. QED
    BY <1>2, <1>4, <1>5

(* What a commit does to the record: its generation grows, and the tab     *)
(* remembers the new one.                                                  *)
LEMMA CommitWriteEffect ==
    ASSUME TypeOK, NEW t \in Tabs, CommitWrite(t)
    PROVE  /\ record' = Stored(record.generation + 1, inflight[t].payload)
           /\ record.generation \in Nat
           /\ record.generation = inflight[t].expected
           /\ record' \in Records
           /\ inflight' = [inflight EXCEPT ![t] =
                               Committed(inflight[t], record.generation + 1)]
<1>1. inflight[t] \in Writes /\ record \in Records
    BY DEF TypeOK
<1>2. record.generation = inflight[t].expected /\ ValidGeneration(record.generation)
    BY DEF CommitWrite, MayReplace
<1>3. NextGeneration(record.generation, FALSE, 0) = record.generation + 1
    BY DEF NextGeneration
<1>4. record.generation \in Nat /\ record.generation + 1 \in Generations
    BY <1>2, StorageAssumption DEF ValidGeneration, Generations
<1>5. record' = Stored(record.generation + 1, inflight[t].payload)
    BY <1>3 DEF CommitWrite
<1>6. record' \in Records
    BY <1>1, <1>4, <1>5 DEF Stored, Records, Kinds, Writes
<1>7. inflight' = [inflight EXCEPT ![t] =
                       Committed(inflight[t], record.generation + 1)]
    BY <1>3 DEF CommitWrite
<1>8. QED
    BY <1>2, <1>4, <1>5, <1>6, <1>7

LEMMA CommitResetEffect ==
    ASSUME TypeOK, NEW t \in Tabs, CommitReset(t)
    PROVE  /\ record' \in Records
           /\ record'.generation > record.generation
           /\ record'.generation > 0
           /\ record'.payload = Initial
           /\ record'.kind = IF task[t].kind = "clear" THEN "disabled" ELSE "review"
           /\ task' = [task EXCEPT ![t] =
                 Advance(task[t], "committed", task[t].observed, record'.generation)]
<1>1. task[t] \in Tasks /\ record \in Records /\ record.generation \in Generations
    BY DEF TypeOK, Records
<1>2. record.generation # MaxSafeInteger
    BY DEF CommitReset
<1>3. PICK now \in Clock :
        LET next == NextGeneration(record.generation, TRUE, now)
        IN  /\ record' = IF task[t].kind = "clear"
                         THEN disabledStoredReview(next)
                         ELSE Stored(next, Initial)
            /\ task' = [task EXCEPT ![t] =
                   Advance(task[t], "committed", task[t].observed, next)]
    BY DEF CommitReset
<1> DEFINE next == NextGeneration(record.generation, TRUE, now)
<1>4. now \in Int
    BY StorageAssumption
<1>5. next \in Generations /\ next > record.generation /\ next > 0
    BY <1>1, <1>2, <1>4, NextGenerationGrows
<1>6. /\ record' = IF task[t].kind = "clear"
                   THEN disabledStoredReview(next)
                   ELSE Stored(next, Initial)
      /\ task' = [task EXCEPT ![t] =
                   Advance(task[t], "committed", task[t].observed, next)]
    BY <1>3
<1> HIDE DEF next
<1>7. /\ record' \in Records
      /\ record'.generation = next
      /\ record'.payload = Initial
      /\ record'.kind = IF task[t].kind = "clear" THEN "disabled" ELSE "review"
    BY <1>5, <1>6, StorageAssumption DEF disabledStoredReview, Stored, Records, Kinds
<1>8. QED
    BY <1>5, <1>6, <1>7

(* A task that moves on stays a task, a write that commits a write.        *)
LEMMA Updates ==
    /\ \A k \in Tasks, phase \in {"read", "committed"}, r \in Records, n \in Int :
          Advance(k, phase, r, n) \in Tasks
    /\ \A w \in Writes, n \in Int : Committed(w, n) \in Writes
<1>1. \A k \in Tasks, phase \in {"read", "committed"}, r \in Records, n \in Int :
          Advance(k, phase, r, n) \in Tasks
    BY DEF Tasks, Advance
<1>2. \A w \in Writes, n \in Int : Committed(w, n) \in Writes
    BY DEF Writes, Committed
<1>3. QED
    BY <1>1, <1>2

(* Type correctness is kept by every step.                                 *)
LEMMA TypeStep == TypeOK /\ [Next]_vars => TypeOK'
<1> SUFFICES ASSUME TypeOK, [Next]_vars PROVE TypeOK'
    OBVIOUS
<1> USE StorageAssumption, Shapes DEF TypeOK, control, known, writes
<1>1. ASSUME NEW t \in Tabs, Edit(t) PROVE TypeOK'
    BY <1>1 DEF Edit, UserActs
<1>2. ASSUME NEW t \in Tabs, AutosaveEffect(t) PROVE TypeOK'
    <2>0. [set |-> TRUE, payload |-> payload[t], stale |-> FALSE] \in Timers
        BY DEF Timers
    <2>1. timer' \in [Tabs -> Timers]
        BY <1>2, <2>0 DEF AutosaveEffect
    <2>2. status' \in [Tabs -> Statuses]
        BY <1>2 DEF AutosaveEffect, Statuses
    <2>3. effect' \in [Tabs -> BOOLEAN]
        BY <1>2 DEF AutosaveEffect
    <2>4. QED
        BY <1>2, <2>1, <2>2, <2>3 DEF AutosaveEffect
<1>3. ASSUME NEW t \in Tabs, TimerFires(t) PROVE TypeOK'
    <2>1. [payload |-> timer[t].payload, stale |-> timer[t].stale] \in Jobs
        BY DEF Timers, Jobs
    <2>2. Append(queue[t], [payload |-> timer[t].payload,
                            stale |-> timer[t].stale]) \in Seq(Jobs)
        BY <2>1
    <2>3. queue' \in [Tabs -> Seq(Jobs)]
        BY <1>3, <2>2 DEF TimerFires
    <2>4. QED
        BY <1>3, <2>3 DEF TimerFires
<1>4. ASSUME NEW t \in Tabs, StartWrite(t) PROVE TypeOK'
    <2>1. queue[t] \in Seq(Jobs) /\ queue[t] # <<>>
        BY <1>4 DEF StartWrite
    <2>2. Head(queue[t]) \in Jobs /\ Tail(queue[t]) \in Seq(Jobs)
        BY <2>1
    <2>3. queue' \in [Tabs -> Seq(Jobs)]
        BY <1>4, <2>2 DEF StartWrite
    <2>0. [phase |-> "sent", payload |-> Head(queue[t]).payload,
           expected |-> generation[t], next |-> 0] \in Writes
        BY <2>2 DEF Writes, Jobs
    <2>4. inflight' \in [Tabs -> Writes]
        BY <1>4, <2>0 DEF StartWrite
    <2>5. effect' \in [Tabs -> BOOLEAN]
        BY <1>4 DEF StartWrite, Settle
    <2>6. QED
        BY <1>4, <2>3, <2>4, <2>5 DEF StartWrite
<1>5. ASSUME NEW t \in Tabs, CommitWrite(t) PROVE TypeOK'
    <2>1. record' \in Records
        BY <1>5, CommitWriteEffect
    <2>2. record.generation + 1 \in Int
        BY <1>5, CommitWriteEffect
    <2>0. Committed(inflight[t], record.generation + 1) \in Writes
        BY <2>2, Updates
    <2>3. inflight' \in [Tabs -> Writes]
        BY <1>5, <2>0, CommitWriteEffect
    <2>4. QED
        BY <1>5, <2>1, <2>3 DEF CommitWrite
<1>6. ASSUME NEW t \in Tabs, RefuseWrite(t) PROVE TypeOK'
    BY <1>6 DEF RefuseWrite, Writes
<1>7. ASSUME NEW t \in Tabs, WriteSucceeds(t) PROVE TypeOK'
    BY <1>7 DEF WriteSucceeds, Writes, Settle
<1>8. ASSUME NEW t \in Tabs, WriteFails(t) PROVE TypeOK'
    BY <1>8, BumpEpochEffect DEF WriteFails, Settle, Statuses
<1>9. ASSUME NEW t \in Tabs, Reload(t) PROVE TypeOK'
    BY <1>9, BumpEpochEffect DEF Reload, UserActs, StartLoad, Statuses
<1>10. ASSUME NEW t \in Tabs, ReadRecord(t) PROVE TypeOK'
    BY <1>10 DEF ReadRecord, Tasks, Advance
<1>11. ASSUME NEW t \in Tabs, LoadSucceeds(t) PROVE TypeOK'
    BY <1>11 DEF LoadSucceeds, Tasks, Records, Generations, Statuses
<1>12. ASSUME NEW t \in Tabs, LoadFails(t) PROVE TypeOK'
    BY <1>12 DEF LoadFails, Statuses
<1>13. ASSUME NEW t \in Tabs, clearAndDisable(t) PROVE TypeOK'
    BY <1>13, BumpEpochEffect DEF clearAndDisable, UserActs
<1>14. ASSUME NEW t \in Tabs, ResetSaved(t) PROVE TypeOK'
    BY <1>14 DEF ResetSaved, UserActs
<1>15. ASSUME NEW t \in Tabs, CommitReset(t) PROVE TypeOK'
    <2>1. record' \in Records
        BY <1>15, CommitResetEffect
    <2>2. record'.generation \in Int /\ task[t].observed \in Records
        BY <2>1 DEF Records, Generations, Tasks
    <2>3. Advance(task[t], "committed", task[t].observed, record'.generation) \in Tasks
        BY <2>2, Updates
    <2>4. task' \in [Tabs -> Tasks]
        BY <1>15, <2>3, CommitResetEffect
    <2>5. QED
        BY <1>15, <2>1, <2>4 DEF CommitReset
<1>16. ASSUME NEW t \in Tabs, ClearSucceeds(t) PROVE TypeOK'
    BY <1>16 DEF ClearSucceeds, Tasks, Statuses
<1>17. ASSUME NEW t \in Tabs, ResetSucceeds(t) PROVE TypeOK'
    BY <1>17, BumpEpochEffect DEF ResetSucceeds, StartLoad, Statuses
<1>18. ASSUME NEW t \in Tabs, TaskFails(t) PROVE TypeOK'
    BY <1>18 DEF TaskFails, Statuses
<1>19. ASSUME NEW t \in Tabs, enableAutosave(t) PROVE TypeOK'
    BY <1>19 DEF enableAutosave, UserActs
<1>20. ASSUME NEW t \in Tabs, Close(t) PROVE TypeOK'
    BY <1>20 DEF Close, UserActs, Statuses
<1>21. ASSUME NEW t \in Tabs, Reopen(t) PROVE TypeOK'
    BY <1>21 DEF Reopen, UserActs
<1>22. CASE UNCHANGED vars
    BY <1>22 DEF vars
<1>23. QED
    BY <1>1, <1>2, <1>3, <1>4, <1>5, <1>6, <1>7, <1>8, <1>9, <1>10, <1>11,
       <1>12, <1>13, <1>14, <1>15, <1>16, <1>17, <1>18, <1>19, <1>20, <1>21, <1>22
       DEF Next, WriteStep, TaskStep, UserStep
-----------------------------------------------------------------------------
(* The record moves on under a tab that knows an older one.                *)
LEMMA RecordAdvances ==
    ASSUME TypeOK, NEW u \in Tabs, Current(u), Past(u), record' \in Records,
           record'.generation > record.generation, record'.generation > 0,
           UNCHANGED <<generation[u], saved[u], inflight[u], task[u]>>
    PROVE  Current(u)' /\ Past(u)'
<1>1. record.generation \in Int /\ record'.generation \in Int
    BY DEF TypeOK, Records, Generations
<1>2. generation[u] \in Int /\ generation[u] < record'.generation
    BY <1>1 DEF TypeOK, Past
<1>3. Current(u)'
    BY <1>1, <1>2 DEF Current
<1>4. inflight[u].next \in Int /\ task[u].next \in Int /\ task[u].observed.generation \in Int
    BY DEF TypeOK, Writes, Tasks, Records, Generations
<1>5. Past(u)'
    BY <1>1, <1>4 DEF Past
<1>6. QED BY <1>3, <1>5

(* The autosave effect runs.                                              *)
LEMMA AutosaveEffectKeeps ==
    ASSUME IInv, TypeOK', NEW t \in Tabs, AutosaveEffect(t)
    PROVE  IInv'
<1> USE DEF control, known, writes
<1>1. \A u \in Tabs : Current(u) /\ Quiet(u) /\ Orderly(u) /\ Past(u) /\ WellFormed(task[u].observed)
    BY DEF IInv, KnownIsCurrent, NothingLiveWhileOff, OneThingAtATime, PastIsPast
<1>2. TypeOK
    BY DEF IInv
<1>3. ASSUME NEW u \in Tabs, u # t
      PROVE  (Current(u) /\ Quiet(u) /\ Orderly(u) /\ Past(u) /\ WellFormed(task[u].observed))'
    BY <1>1, <1>2, <1>3 DEF TypeOK, AutosaveEffect, NoTimer, Current, Content, Quiet, AutosaveOn, Orderly, Past, WellFormed
<1>4. Current(t)'
    BY <1>1, <1>2 DEF TypeOK, AutosaveEffect, NoTimer, Current, Content, Quiet, AutosaveOn, Orderly, Past, WellFormed, IInv
<1>5. Quiet(t)'
    BY <1>1, <1>2 DEF TypeOK, AutosaveEffect, NoTimer, Current, Content, Quiet, AutosaveOn, Orderly, Past, WellFormed, IInv
<1>6. Orderly(t)'
    BY <1>1, <1>2 DEF TypeOK, AutosaveEffect, NoTimer, Current, Content, Quiet, AutosaveOn, Orderly, Past, WellFormed, IInv
<1>7. Past(t)'
    BY <1>1, <1>2 DEF TypeOK, AutosaveEffect, NoTimer, Current, Content, Quiet, AutosaveOn, Orderly, Past, WellFormed, IInv
<1>8. WellFormed(record)' /\ WellFormed(task[t].observed)'
    BY <1>1, <1>2 DEF TypeOK, AutosaveEffect, NoTimer, WellFormed, IInv
<1>9. QED
    BY <1>3, <1>4, <1>5, <1>6, <1>7, <1>8 DEF IInv, KnownIsCurrent, NothingLiveWhileOff, OneThingAtATime, PastIsPast

(* The debounce timer fires.                                              *)
LEMMA TimerFiresKeeps ==
    ASSUME IInv, TypeOK', NEW t \in Tabs, TimerFires(t)
    PROVE  IInv'
<1> USE DEF control, known, writes
<1>1. \A u \in Tabs : Current(u) /\ Quiet(u) /\ Orderly(u) /\ Past(u) /\ WellFormed(task[u].observed)
    BY DEF IInv, KnownIsCurrent, NothingLiveWhileOff, OneThingAtATime, PastIsPast
<1>2. TypeOK
    BY DEF IInv
<1>3. ASSUME NEW u \in Tabs, u # t
      PROVE  (Current(u) /\ Quiet(u) /\ Orderly(u) /\ Past(u) /\ WellFormed(task[u].observed))'
    BY <1>1, <1>2, <1>3 DEF TypeOK, TimerFires, NoTimer, Current, Content, Quiet, AutosaveOn, Orderly, Past, WellFormed
<1>4. Current(t)'
    BY <1>1, <1>2 DEF TypeOK, TimerFires, NoTimer, Current, Content, Quiet, AutosaveOn, Orderly, Past, WellFormed, IInv
<1>5. Quiet(t)'
    BY <1>1, <1>2 DEF TypeOK, TimerFires, NoTimer, Current, Content, Quiet, AutosaveOn, Orderly, Past, WellFormed, IInv
<1>6. Orderly(t)'
    BY <1>1, <1>2 DEF TypeOK, TimerFires, NoTimer, Current, Content, Quiet, AutosaveOn, Orderly, Past, WellFormed, IInv
<1>7. Past(t)'
    BY <1>1, <1>2 DEF TypeOK, TimerFires, NoTimer, Current, Content, Quiet, AutosaveOn, Orderly, Past, WellFormed, IInv
<1>8. WellFormed(record)' /\ WellFormed(task[t].observed)'
    BY <1>1, <1>2 DEF TypeOK, TimerFires, NoTimer, WellFormed, IInv
<1>9. QED
    BY <1>3, <1>4, <1>5, <1>6, <1>7, <1>8 DEF IInv, KnownIsCurrent, NothingLiveWhileOff, OneThingAtATime, PastIsPast

(* A queued job begins, or is skipped.                                    *)
LEMMA StartWriteKeeps ==
    ASSUME IInv, TypeOK', NEW t \in Tabs, StartWrite(t)
    PROVE  IInv'
<1> USE DEF control, known, writes
<1>1. \A u \in Tabs : Current(u) /\ Quiet(u) /\ Orderly(u) /\ Past(u) /\ WellFormed(task[u].observed)
    BY DEF IInv, KnownIsCurrent, NothingLiveWhileOff, OneThingAtATime, PastIsPast
<1>2. TypeOK
    BY DEF IInv
<1>3. ASSUME NEW u \in Tabs, u # t
      PROVE  (Current(u) /\ Quiet(u) /\ Orderly(u) /\ Past(u) /\ WellFormed(task[u].observed))'
    BY <1>1, <1>2, <1>3 DEF TypeOK, StartWrite, Settle, Current, Content, Quiet, AutosaveOn, Orderly, Past, WellFormed
<1>4. Current(t)'
    BY <1>1, <1>2 DEF TypeOK, StartWrite, Settle, Current, Content, Quiet, AutosaveOn, Orderly, Past, WellFormed, IInv
<1>5. Quiet(t)'
    BY <1>1, <1>2 DEF TypeOK, StartWrite, Settle, Current, Content, Quiet, AutosaveOn, Orderly, Past, WellFormed, IInv
<1>6. Orderly(t)'
    BY <1>1, <1>2 DEF TypeOK, StartWrite, Settle, Current, Content, Quiet, AutosaveOn, Orderly, Past, WellFormed, IInv
<1>7. Past(t)'
    BY <1>1, <1>2 DEF TypeOK, StartWrite, Settle, Current, Content, Quiet, AutosaveOn, Orderly, Past, WellFormed, IInv
<1>8. WellFormed(record)' /\ WellFormed(task[t].observed)'
    BY <1>1, <1>2 DEF TypeOK, StartWrite, Settle, WellFormed, IInv
<1>9. QED
    BY <1>3, <1>4, <1>5, <1>6, <1>7, <1>8 DEF IInv, KnownIsCurrent, NothingLiveWhileOff, OneThingAtATime, PastIsPast

(* The tab learns that its write has committed.                           *)
LEMMA WriteSucceedsKeeps ==
    ASSUME IInv, TypeOK', NEW t \in Tabs, WriteSucceeds(t)
    PROVE  IInv'
<1> USE DEF control, known, writes
<1>1. \A u \in Tabs : Current(u) /\ Quiet(u) /\ Orderly(u) /\ Past(u) /\ WellFormed(task[u].observed)
    BY DEF IInv, KnownIsCurrent, NothingLiveWhileOff, OneThingAtATime, PastIsPast
<1>2. TypeOK
    BY DEF IInv
<1>3. ASSUME NEW u \in Tabs, u # t
      PROVE  (Current(u) /\ Quiet(u) /\ Orderly(u) /\ Past(u) /\ WellFormed(task[u].observed))'
    BY <1>1, <1>2, <1>3 DEF TypeOK, WriteSucceeds, Settle, NoWrite, Current, Content, Quiet, AutosaveOn, Orderly, Past, WellFormed
<1>4. Current(t)'
    <2>1. Past(t) /\ inflight[t] \in Writes /\ inflight[t].phase = "committed"
        BY <1>1, <1>2 DEF TypeOK, WriteSucceeds
    <2>2. inflight[t].payload # Unsaved
        BY <2>1, UnsavedAssumption DEF Writes
    <2>3. /\ saved'[t] = inflight[t].payload /\ generation'[t] = inflight[t].next
          /\ record' = record
        BY <1>2 DEF WriteSucceeds, TypeOK
    <2>4. QED
        BY <2>1, <2>2, <2>3 DEF Current, Content, Past
<1>5. Quiet(t)'
    BY <1>1, <1>2 DEF TypeOK, WriteSucceeds, Settle, NoWrite, Current, Content, Quiet, AutosaveOn, Orderly, Past, WellFormed, IInv
<1>6. Orderly(t)'
    BY <1>1, <1>2 DEF TypeOK, WriteSucceeds, Settle, NoWrite, Current, Content, Quiet, AutosaveOn, Orderly, Past, WellFormed, IInv
<1>7. Past(t)'
    BY <1>1, <1>2 DEF TypeOK, WriteSucceeds, Settle, NoWrite, Current, Content, Quiet, AutosaveOn, Orderly, Past, WellFormed, IInv
<1>8. WellFormed(record)' /\ WellFormed(task[t].observed)'
    BY <1>1, <1>2 DEF TypeOK, WriteSucceeds, Settle, NoWrite, WellFormed, IInv
<1>9. QED
    BY <1>3, <1>4, <1>5, <1>6, <1>7, <1>8 DEF IInv, KnownIsCurrent, NothingLiveWhileOff, OneThingAtATime, PastIsPast

(* A task reads the record.                                               *)
LEMMA ReadRecordKeeps ==
    ASSUME IInv, TypeOK', NEW t \in Tabs, ReadRecord(t)
    PROVE  IInv'
<1> USE DEF control, known, writes
<1>1. \A u \in Tabs : Current(u) /\ Quiet(u) /\ Orderly(u) /\ Past(u) /\ WellFormed(task[u].observed)
    BY DEF IInv, KnownIsCurrent, NothingLiveWhileOff, OneThingAtATime, PastIsPast
<1>2. TypeOK
    BY DEF IInv
<1>3. ASSUME NEW u \in Tabs, u # t
      PROVE  (Current(u) /\ Quiet(u) /\ Orderly(u) /\ Past(u) /\ WellFormed(task[u].observed))'
    BY <1>1, <1>2, <1>3 DEF TypeOK, ReadRecord, Advance, Current, Content, Quiet, AutosaveOn, Orderly, Past, WellFormed
<1>4. Current(t)'
    BY <1>1, <1>2 DEF TypeOK, ReadRecord, Advance, Current, Content, Quiet, AutosaveOn, Orderly, Past, WellFormed, IInv
<1>5. Quiet(t)'
    BY <1>1, <1>2 DEF TypeOK, ReadRecord, Advance, Current, Content, Quiet, AutosaveOn, Orderly, Past, WellFormed, IInv
<1>6. Orderly(t)'
    BY <1>1, <1>2 DEF TypeOK, ReadRecord, Advance, Current, Content, Quiet, AutosaveOn, Orderly, Past, WellFormed, IInv
<1>7. Past(t)'
    <2>1. Past(t) /\ record.generation \in Int
        BY <1>1, <1>2 DEF TypeOK, Records, Generations
    <2>2. /\ record' = record /\ generation' = generation /\ inflight' = inflight
          /\ task'[t] = Advance(task[t], "read", record, 0)
        BY <1>2 DEF ReadRecord, TypeOK
    <2>3. QED
        BY <2>1, <2>2 DEF Past, Advance
<1>8. WellFormed(record)' /\ WellFormed(task[t].observed)'
    BY <1>1, <1>2 DEF TypeOK, ReadRecord, Advance, WellFormed, IInv
<1>9. QED
    BY <1>3, <1>4, <1>5, <1>6, <1>7, <1>8 DEF IInv, KnownIsCurrent, NothingLiveWhileOff, OneThingAtATime, PastIsPast

(* The tab restores the session it has read.                              *)
LEMMA LoadSucceedsKeeps ==
    ASSUME IInv, TypeOK', NEW t \in Tabs, LoadSucceeds(t)
    PROVE  IInv'
<1> USE DEF control, known, writes
<1>1. \A u \in Tabs : Current(u) /\ Quiet(u) /\ Orderly(u) /\ Past(u) /\ WellFormed(task[u].observed)
    BY DEF IInv, KnownIsCurrent, NothingLiveWhileOff, OneThingAtATime, PastIsPast
<1>2. TypeOK
    BY DEF IInv
<1>3. ASSUME NEW u \in Tabs, u # t
      PROVE  (Current(u) /\ Quiet(u) /\ Orderly(u) /\ Past(u) /\ WellFormed(task[u].observed))'
    BY <1>1, <1>2, <1>3 DEF TypeOK, LoadSucceeds, NoTask, Absent, Restorable, DamagedGeneration, isStoredReviewDisabled, Current, Content, Quiet, AutosaveOn, Orderly, Past, WellFormed
<1>4. Current(t)'
    <2>1. Past(t) /\ task[t].observed \in Records /\ task[t].phase = "read"
        BY <1>1, <1>2 DEF TypeOK, LoadSucceeds, Tasks
    <2>2. task[t].observed.payload # Unsaved
        BY <2>1, UnsavedAssumption DEF Records
    <2>3. /\ saved'[t] = task[t].observed.payload
          /\ generation'[t] = task[t].observed.generation
          /\ record' = record
        BY <1>2 DEF LoadSucceeds, TypeOK
    <2>4. QED
        BY <2>1, <2>2, <2>3 DEF Current, Content, Past
<1>5. Quiet(t)'
    BY <1>1, <1>2 DEF TypeOK, LoadSucceeds, NoTask, Absent, Restorable, DamagedGeneration, isStoredReviewDisabled, Current, Content, Quiet, AutosaveOn, Orderly, Past, WellFormed, IInv
<1>6. Orderly(t)'
    BY <1>1, <1>2 DEF TypeOK, LoadSucceeds, NoTask, Absent, Restorable, DamagedGeneration, isStoredReviewDisabled, Current, Content, Quiet, AutosaveOn, Orderly, Past, WellFormed, IInv
<1>7. Past(t)'
    BY <1>1, <1>2 DEF TypeOK, LoadSucceeds, NoTask, Absent, Restorable, DamagedGeneration, isStoredReviewDisabled, Current, Content, Quiet, AutosaveOn, Orderly, Past, WellFormed, IInv
<1>8. WellFormed(record)' /\ WellFormed(task[t].observed)'
    BY <1>1, <1>2 DEF TypeOK, LoadSucceeds, NoTask, Absent, Restorable, DamagedGeneration, isStoredReviewDisabled, WellFormed, IInv
<1>9. QED
    BY <1>3, <1>4, <1>5, <1>6, <1>7, <1>8 DEF IInv, KnownIsCurrent, NothingLiveWhileOff, OneThingAtATime, PastIsPast

(* The tab learns that its clear has committed.                           *)
LEMMA ClearSucceedsKeeps ==
    ASSUME IInv, TypeOK', NEW t \in Tabs, ClearSucceeds(t)
    PROVE  IInv'
<1> USE DEF control, known, writes
<1>1. \A u \in Tabs : Current(u) /\ Quiet(u) /\ Orderly(u) /\ Past(u) /\ WellFormed(task[u].observed)
    BY DEF IInv, KnownIsCurrent, NothingLiveWhileOff, OneThingAtATime, PastIsPast
<1>2. TypeOK
    BY DEF IInv
<1>3. ASSUME NEW u \in Tabs, u # t
      PROVE  (Current(u) /\ Quiet(u) /\ Orderly(u) /\ Past(u) /\ WellFormed(task[u].observed))'
    BY <1>1, <1>2, <1>3 DEF TypeOK, ClearSucceeds, NoTask, Absent, Current, Content, Quiet, AutosaveOn, Orderly, Past, WellFormed
<1>4. Current(t)'
    BY <1>1, <1>2 DEF TypeOK, ClearSucceeds, NoTask, Absent, Current, Content, Quiet, AutosaveOn, Orderly, Past, WellFormed, IInv
<1>5. Quiet(t)'
    BY <1>1, <1>2 DEF TypeOK, ClearSucceeds, NoTask, Absent, Current, Content, Quiet, AutosaveOn, Orderly, Past, WellFormed, IInv
<1>6. Orderly(t)'
    <2>1. Orderly(t) /\ task[t].kind = "clear" /\ task[t].phase = "committed" /\ open[t]
        BY <1>1 DEF ClearSucceeds
    <2>2. inflight[t].phase = "none" /\ ~enabled[t]
        BY <2>1 DEF Orderly, AutosaveOn
    <2>3. /\ task'[t] = NoTask /\ saved'[t] = Initial
          /\ inflight' = inflight /\ enabled' = enabled /\ open' = open
        BY <1>2 DEF ClearSucceeds, TypeOK
    <2>4. QED
        BY <2>1, <2>2, <2>3 DEF Orderly, Content, NoTask
<1>7. Past(t)'
    BY <1>1, <1>2 DEF TypeOK, ClearSucceeds, NoTask, Absent, Current, Content, Quiet, AutosaveOn, Orderly, Past, WellFormed, IInv
<1>8. WellFormed(record)' /\ WellFormed(task[t].observed)'
    BY <1>1, <1>2 DEF TypeOK, ClearSucceeds, NoTask, Absent, WellFormed, IInv
<1>9. QED
    BY <1>3, <1>4, <1>5, <1>6, <1>7, <1>8 DEF IInv, KnownIsCurrent, NothingLiveWhileOff, OneThingAtATime, PastIsPast

(* A tab closes.                                                          *)
LEMMA CloseKeeps ==
    ASSUME IInv, TypeOK', NEW t \in Tabs, Close(t)
    PROVE  IInv'
<1> USE DEF control, known, writes
<1>1. \A u \in Tabs : Current(u) /\ Quiet(u) /\ Orderly(u) /\ Past(u) /\ WellFormed(task[u].observed)
    BY DEF IInv, KnownIsCurrent, NothingLiveWhileOff, OneThingAtATime, PastIsPast
<1>2. TypeOK
    BY DEF IInv
<1>3. ASSUME NEW u \in Tabs, u # t
      PROVE  (Current(u) /\ Quiet(u) /\ Orderly(u) /\ Past(u) /\ WellFormed(task[u].observed))'
    BY <1>1, <1>2, <1>3 DEF TypeOK, Close, UserActs, NoTask, NoWrite, NoTimer, Absent, Current, Content, Quiet, AutosaveOn, Orderly, Past, WellFormed
<1>4. Current(t)'
    BY <1>1, <1>2 DEF TypeOK, Close, UserActs, NoTask, NoWrite, NoTimer, Absent, Current, Content, Quiet, AutosaveOn, Orderly, Past, WellFormed, IInv
<1>5. Quiet(t)'
    BY <1>1, <1>2 DEF TypeOK, Close, UserActs, NoTask, NoWrite, NoTimer, Absent, Current, Content, Quiet, AutosaveOn, Orderly, Past, WellFormed, IInv
<1>6. Orderly(t)'
    BY <1>1, <1>2 DEF TypeOK, Close, UserActs, NoTask, NoWrite, NoTimer, Absent, Current, Content, Quiet, AutosaveOn, Orderly, Past, WellFormed, IInv
<1>7. Past(t)'
    BY <1>1, <1>2 DEF TypeOK, Close, UserActs, NoTask, NoWrite, NoTimer, Absent, Current, Content, Quiet, AutosaveOn, Orderly, Past, WellFormed, IInv
<1>8. WellFormed(record)' /\ WellFormed(task[t].observed)'
    BY <1>1, <1>2 DEF TypeOK, Close, UserActs, NoTask, NoWrite, NoTimer, Absent, WellFormed, IInv
<1>9. QED
    BY <1>3, <1>4, <1>5, <1>6, <1>7, <1>8 DEF IInv, KnownIsCurrent, NothingLiveWhileOff, OneThingAtATime, PastIsPast

(* A tab opens.                                                           *)
LEMMA ReopenKeeps ==
    ASSUME IInv, TypeOK', NEW t \in Tabs, Reopen(t)
    PROVE  IInv'
<1> USE DEF control, known, writes
<1>1. \A u \in Tabs : Current(u) /\ Quiet(u) /\ Orderly(u) /\ Past(u) /\ WellFormed(task[u].observed)
    BY DEF IInv, KnownIsCurrent, NothingLiveWhileOff, OneThingAtATime, PastIsPast
<1>2. TypeOK
    BY DEF IInv
<1>3. ASSUME NEW u \in Tabs, u # t
      PROVE  (Current(u) /\ Quiet(u) /\ Orderly(u) /\ Past(u) /\ WellFormed(task[u].observed))'
    BY <1>1, <1>2, <1>3 DEF TypeOK, Reopen, UserActs, Begin, Absent, Current, Content, Quiet, AutosaveOn, Orderly, Past, WellFormed
<1>4. Current(t)'
    BY <1>1, <1>2 DEF TypeOK, Reopen, UserActs, Begin, Absent, Current, Content, Quiet, AutosaveOn, Orderly, Past, WellFormed, IInv
<1>5. Quiet(t)'
    BY <1>1, <1>2 DEF TypeOK, Reopen, UserActs, Begin, Absent, Current, Content, Quiet, AutosaveOn, Orderly, Past, WellFormed, IInv
<1>6. Orderly(t)'
    BY <1>1, <1>2 DEF TypeOK, Reopen, UserActs, Begin, Absent, Current, Content, Quiet, AutosaveOn, Orderly, Past, WellFormed, IInv
<1>7. Past(t)'
    BY <1>1, <1>2 DEF TypeOK, Reopen, UserActs, Begin, Absent, Current, Content, Quiet, AutosaveOn, Orderly, Past, WellFormed, IInv
<1>8. WellFormed(record)' /\ WellFormed(task[t].observed)'
    BY <1>1, <1>2 DEF TypeOK, Reopen, UserActs, Begin, Absent, WellFormed, IInv
<1>9. QED
    BY <1>3, <1>4, <1>5, <1>6, <1>7, <1>8 DEF IInv, KnownIsCurrent, NothingLiveWhileOff, OneThingAtATime, PastIsPast

(* A save commits.                                                         *)
LEMMA CommitWriteKeeps ==
    ASSUME IInv, TypeOK', NEW t \in Tabs, CommitWrite(t)
    PROVE  IInv'
<1> USE DEF control, known, writes
<1>1. \A u \in Tabs : Current(u) /\ Quiet(u) /\ Orderly(u) /\ Past(u) /\ WellFormed(task[u].observed)
    BY DEF IInv, KnownIsCurrent, NothingLiveWhileOff, OneThingAtATime, PastIsPast
<1>2. TypeOK
    BY DEF IInv
<1>3. /\ record' = Stored(record.generation + 1, inflight[t].payload)
      /\ record.generation \in Nat /\ record' \in Records
      /\ inflight' = [inflight EXCEPT ![t] = Committed(inflight[t], record.generation + 1)]
    BY <1>2, CommitWriteEffect
<1>4. /\ record'.generation = record.generation + 1
      /\ record'.payload = inflight[t].payload /\ record'.kind = "review"
    BY <1>3 DEF Stored
<1>5. UNCHANGED <<open, ready, error, enabled, saved, generation, timer, queue, task>>
    BY DEF CommitWrite
<1>6. WellFormed(record)' /\ \A u \in Tabs : WellFormed(task[u].observed)'
    BY <1>1, <1>3, <1>4, <1>5 DEF WellFormed
<1>7. \A u \in Tabs : Quiet(u)'
    BY <1>1, <1>5 DEF Quiet, AutosaveOn
<1>8. \A u \in Tabs : (inflight[u].phase # "none" /\ inflight[u].expected = inflight'[u].expected)
                      \/ inflight'[u] = inflight[u]
    <2>1. inflight'[t] = Committed(inflight[t], record.generation + 1)
          /\ \A u \in Tabs \ {t} : inflight'[u] = inflight[u]
        BY <1>2, <1>3 DEF TypeOK
    <2>2. inflight[t].phase = "sent"
        BY DEF CommitWrite
    <2>3. QED
        BY <2>1, <2>2 DEF Committed
<1>9. \A u \in Tabs : Orderly(u)'
    BY <1>1, <1>5, <1>8 DEF Orderly, AutosaveOn, Content
<1>10. ASSUME NEW u \in Tabs, u # t PROVE Current(u)' /\ Past(u)'
    <2>1. inflight'[u] = inflight[u]
        BY <1>2, <1>3, <1>10 DEF TypeOK
    <2>2. record'.generation > record.generation /\ record'.generation > 0
        BY <1>3, <1>4
    <2>3. QED
        BY <1>1, <1>2, <1>3, <1>5, <2>1, <2>2, RecordAdvances
<1>11. Current(t)' /\ Past(t)'
    <2>0. Past(t) /\ generation[t] \in Int
        BY <1>1, <1>2 DEF TypeOK
    <2>1. generation[t] \in Int /\ generation[t] < record'.generation
        BY <1>3, <1>4, <2>0 DEF Past
    <2>2. Current(t)'
        BY <1>5, <2>1 DEF Current
    <2>3. inflight'[t].next = record'.generation /\ inflight'[t].payload = record'.payload
        BY <1>2, <1>3, <1>4 DEF TypeOK, Committed
    <2>4. task[t].next \in Int /\ task[t].observed.generation \in Int
        BY <1>2 DEF TypeOK, Tasks, Records, Generations
    <2>5. Past(t)'
        BY <1>1, <1>3, <1>4, <1>5, <2>1, <2>3, <2>4 DEF Past
    <2>6. QED
        BY <2>2, <2>5
<1>12. QED
    BY <1>6, <1>7, <1>9, <1>10, <1>11 DEF IInv, KnownIsCurrent, NothingLiveWhileOff, OneThingAtATime, PastIsPast

(* A clear or a reset commits.                                             *)
LEMMA CommitResetKeeps ==
    ASSUME IInv, TypeOK', NEW t \in Tabs, CommitReset(t)
    PROVE  IInv'
<1> USE DEF control, known, writes
<1>1. \A u \in Tabs : Current(u) /\ Quiet(u) /\ Orderly(u) /\ Past(u) /\ WellFormed(task[u].observed)
    BY DEF IInv, KnownIsCurrent, NothingLiveWhileOff, OneThingAtATime, PastIsPast
<1>2. TypeOK
    BY DEF IInv
<1>3. /\ record' \in Records
      /\ record'.generation > record.generation /\ record'.generation > 0
      /\ record'.payload = Initial
      /\ record'.kind \in {"disabled", "review"}
      /\ task' = [task EXCEPT ![t] =
            Advance(task[t], "committed", task[t].observed, record'.generation)]
    BY <1>2, CommitResetEffect
<1>4. /\ task'[t].kind = task[t].kind /\ task'[t].phase = "committed"
      /\ task'[t].observed = task[t].observed /\ task'[t].next = record'.generation
      /\ \A u \in Tabs \ {t} : task'[u] = task[u]
    BY <1>2, <1>3 DEF TypeOK, Advance
<1>5. UNCHANGED <<open, ready, error, enabled, saved, generation, timer, queue, inflight>>
    BY DEF CommitReset
<1>6. WellFormed(record)' /\ \A u \in Tabs : WellFormed(task[u].observed)'
    BY <1>1, <1>3, <1>4 DEF WellFormed, Records, Generations
<1>7. \A u \in Tabs : Quiet(u)'
    BY <1>1, <1>5 DEF Quiet, AutosaveOn
<1>8. task[t].kind \in {"clear", "reset"} /\ task[t].phase = "read"
    BY DEF CommitReset
<1>9. \A u \in Tabs : Orderly(u)'
    BY <1>1, <1>4, <1>5, <1>8 DEF Orderly, AutosaveOn, Content
<1>10. ASSUME NEW u \in Tabs, u # t PROVE Current(u)' /\ Past(u)'
    BY <1>1, <1>2, <1>3, <1>4, <1>5, <1>10, RecordAdvances
<1>11. Current(t)' /\ Past(t)'
    <2>1. /\ generation[t] \in Int /\ record.generation \in Int /\ record'.generation \in Int
          /\ inflight[t].next \in Int
        BY <1>2, <1>3 DEF TypeOK, Records, Generations, Writes
    <2>2. generation[t] < record'.generation
        BY <1>1, <1>3, <2>1 DEF Past
    <2>3. Current(t)'
        BY <1>5, <2>1, <2>2 DEF Current
    <2>4. Past(t)'
        BY <1>1, <1>3, <1>4, <1>5, <2>1 DEF Past
    <2>5. QED
        BY <2>3, <2>4
<1>12. QED
    BY <1>6, <1>7, <1>9, <1>10, <1>11 DEF IInv, KnownIsCurrent, NothingLiveWhileOff, OneThingAtATime, PastIsPast

(* Every step keeps the inductive invariant.                               *)
LEMMA InductiveStep == IInv /\ [Next]_vars => IInv'
<1> SUFFICES ASSUME IInv, [Next]_vars PROVE IInv'
    OBVIOUS
<1> USE DEF control, known, writes
<1>0. TypeOK /\ TypeOK'
    BY TypeStep DEF IInv
<1>1. ASSUME NEW t \in Tabs, Edit(t) PROVE IInv'
    BY <1>0, <1>1, SMTT(30)
       DEF TypeOK, Edit, UserActs, IInv, KnownIsCurrent, NothingLiveWhileOff, OneThingAtATime, PastIsPast, Current, Content, Quiet, AutosaveOn, Orderly, Past, WellFormed, NoTask, Begin, NoWrite, Usable, Idle, Absent
<1>2. ASSUME NEW t \in Tabs, AutosaveEffect(t) PROVE IInv'
    BY <1>0, <1>2, AutosaveEffectKeeps
<1>3. ASSUME NEW t \in Tabs, TimerFires(t) PROVE IInv'
    BY <1>0, <1>3, TimerFiresKeeps
<1>4. ASSUME NEW t \in Tabs, StartWrite(t) PROVE IInv'
    BY <1>0, <1>4, StartWriteKeeps
<1>5. ASSUME NEW t \in Tabs, CommitWrite(t) PROVE IInv'
    BY <1>0, <1>5, CommitWriteKeeps
<1>6. ASSUME NEW t \in Tabs, RefuseWrite(t) PROVE IInv'
    BY <1>0, <1>6, SMTT(30)
       DEF TypeOK, RefuseWrite, Writes, IInv, KnownIsCurrent, NothingLiveWhileOff, OneThingAtATime, PastIsPast, Current, Content, Quiet, AutosaveOn, Orderly, Past, WellFormed, NoTask, Begin, NoWrite, Usable, Idle, Absent
<1>7. ASSUME NEW t \in Tabs, WriteSucceeds(t) PROVE IInv'
    BY <1>0, <1>7, WriteSucceedsKeeps
<1>8. ASSUME NEW t \in Tabs, WriteFails(t) PROVE IInv'
    BY <1>0, <1>8, SMTT(30), BumpEpochEffect
       DEF TypeOK, WriteFails, Settle, Statuses, IInv, KnownIsCurrent, NothingLiveWhileOff, OneThingAtATime, PastIsPast, Current, Content, Quiet, AutosaveOn, Orderly, Past, WellFormed, NoTask, Begin, NoWrite, Usable, Idle, Absent
<1>9. ASSUME NEW t \in Tabs, Reload(t) PROVE IInv'
    BY <1>0, <1>9, SMTT(30), BumpEpochEffect
       DEF TypeOK, Reload, UserActs, StartLoad, Statuses, IInv, KnownIsCurrent, NothingLiveWhileOff, OneThingAtATime, PastIsPast, Current, Content, Quiet, AutosaveOn, Orderly, Past, WellFormed, NoTask, Begin, NoWrite, Usable, Idle, Absent
<1>10. ASSUME NEW t \in Tabs, ReadRecord(t) PROVE IInv'
    BY <1>0, <1>10, ReadRecordKeeps
<1>11. ASSUME NEW t \in Tabs, LoadSucceeds(t) PROVE IInv'
    BY <1>0, <1>11, LoadSucceedsKeeps
<1>12. ASSUME NEW t \in Tabs, LoadFails(t) PROVE IInv'
    BY <1>0, <1>12, SMTT(30)
       DEF TypeOK, LoadFails, Statuses, IInv, KnownIsCurrent, NothingLiveWhileOff, OneThingAtATime, PastIsPast, Current, Content, Quiet, AutosaveOn, Orderly, Past, WellFormed, NoTask, Begin, NoWrite, Usable, Idle, Absent
<1>13. ASSUME NEW t \in Tabs, clearAndDisable(t) PROVE IInv'
    BY <1>0, <1>13, SMTT(30), BumpEpochEffect
       DEF TypeOK, clearAndDisable, UserActs, IInv, KnownIsCurrent, NothingLiveWhileOff, OneThingAtATime, PastIsPast, Current, Content, Quiet, AutosaveOn, Orderly, Past, WellFormed, NoTask, Begin, NoWrite, Usable, Idle, Absent
<1>14. ASSUME NEW t \in Tabs, ResetSaved(t) PROVE IInv'
    BY <1>0, <1>14, SMTT(30)
       DEF TypeOK, ResetSaved, UserActs, IInv, KnownIsCurrent, NothingLiveWhileOff, OneThingAtATime, PastIsPast, Current, Content, Quiet, AutosaveOn, Orderly, Past, WellFormed, NoTask, Begin, NoWrite, Usable, Idle, Absent
<1>15. ASSUME NEW t \in Tabs, CommitReset(t) PROVE IInv'
    BY <1>0, <1>15, CommitResetKeeps
<1>16. ASSUME NEW t \in Tabs, ClearSucceeds(t) PROVE IInv'
    BY <1>0, <1>16, ClearSucceedsKeeps
<1>17. ASSUME NEW t \in Tabs, ResetSucceeds(t) PROVE IInv'
    BY <1>0, <1>17, SMTT(30), BumpEpochEffect
       DEF TypeOK, ResetSucceeds, StartLoad, Statuses, IInv, KnownIsCurrent, NothingLiveWhileOff, OneThingAtATime, PastIsPast, Current, Content, Quiet, AutosaveOn, Orderly, Past, WellFormed, NoTask, Begin, NoWrite, Usable, Idle, Absent
<1>18. ASSUME NEW t \in Tabs, TaskFails(t) PROVE IInv'
    BY <1>0, <1>18, SMTT(30)
       DEF TypeOK, TaskFails, Statuses, IInv, KnownIsCurrent, NothingLiveWhileOff, OneThingAtATime, PastIsPast, Current, Content, Quiet, AutosaveOn, Orderly, Past, WellFormed, NoTask, Begin, NoWrite, Usable, Idle, Absent
<1>19. ASSUME NEW t \in Tabs, enableAutosave(t) PROVE IInv'
    BY <1>0, <1>19, SMTT(30)
       DEF TypeOK, enableAutosave, UserActs, IInv, KnownIsCurrent, NothingLiveWhileOff, OneThingAtATime, PastIsPast, Current, Content, Quiet, AutosaveOn, Orderly, Past, WellFormed, NoTask, Begin, NoWrite, Usable, Idle, Absent
<1>20. ASSUME NEW t \in Tabs, Close(t) PROVE IInv'
    BY <1>0, <1>20, CloseKeeps
<1>21. ASSUME NEW t \in Tabs, Reopen(t) PROVE IInv'
    BY <1>0, <1>21, ReopenKeeps
<1>22. CASE UNCHANGED vars
    BY <1>0, <1>22 DEF vars, IInv, KnownIsCurrent, NothingLiveWhileOff, OneThingAtATime,
       PastIsPast, Current, Content, Quiet, AutosaveOn, Orderly, Past
<1>23. QED
    BY <1>1, <1>2, <1>3, <1>4, <1>5, <1>6, <1>7, <1>8, <1>9, <1>10, <1>11,
       <1>12, <1>13, <1>14, <1>15, <1>16, <1>17, <1>18, <1>19, <1>20, <1>21, <1>22
       DEF Next, WriteStep, TaskStep, UserStep

(* A tab that has just been mounted, over a record of an earlier run.      *)
LEMMA InductiveInit == Init => IInv
<1> SUFFICES ASSUME Init PROVE IInv
    OBVIOUS
<1> USE StorageAssumption, PersistenceAssumption DEF Init
<1>1. record \in Records /\ WellFormed(record)
    OBVIOUS
<1>2. TypeOK
    BY <1>1, Shapes DEF TypeOK, Statuses
<1>3. \A t \in Tabs : task[t] = Begin("load") /\ WellFormed(task[t].observed)
    BY DEF Begin, Absent, WellFormed
<1>4. KnownIsCurrent
    BY <1>1 DEF KnownIsCurrent, Current, Content, WellFormed
<1>5. NothingLiveWhileOff
    BY DEF NothingLiveWhileOff, Quiet, NoTimer
<1>6. OneThingAtATime
    BY <1>3 DEF OneThingAtATime, Orderly, NoWrite, Begin
<1>7. PastIsPast
    BY <1>3 DEF PastIsPast, Past, NoWrite, Begin
<1>8. QED
    BY <1>1, <1>2, <1>3, <1>4, <1>5, <1>6, <1>7 DEF IInv

(* The inductive invariant, type correctness with it, holds throughout.    *)
THEOREM Inductive == Spec => []IInv
<1>1. QED
    BY InductiveInit, InductiveStep, PTL DEF Spec

(* No two tabs can disagree on what a generation stands for: whoever holds *)
(* the stored generation has read or written what is stored.  This is the  *)
(* property that makes the generation check of review-storage.ts enough.   *)
THEOREM KnownAlwaysCurrent == Spec => []KnownIsCurrent
<1>1. IInv => KnownIsCurrent
    BY DEF IInv
<1>2. QED
    BY <1>1, Inductive, PTL

(* No write scheduled before an error, a load or a clear survives it.      *)
THEOREM AlwaysQuietWhileOff == Spec => []NothingLiveWhileOff
<1>1. IInv => NothingLiveWhileOff
    BY DEF IInv
<1>2. QED
    BY <1>1, Inductive, PTL

(* A tab that closes without the beforeunload question leaves its session  *)
(* stored, unless another tab has replaced it.                             *)
THEOREM SilentCloseAlwaysSafe == Spec => []SilentCloseIsSafe
<1>1. ASSUME IInv PROVE SilentCloseIsSafe
    <2> SUFFICES ASSUME NEW t \in Tabs, Usable(t), ~Warns(t)
                 PROVE  /\ inflight[t].phase = "none"
                        /\ generation[t] = record.generation => record.payload = payload[t]
        BY DEF SilentCloseIsSafe
    <2>1. payload[t] = saved[t] /\ ~(PendingWrites(t) > 0)
        BY DEF Warns, Usable
    <2>2. Len(queue[t]) \in Nat
        BY <1>1 DEF IInv, TypeOK
    <2>3. inflight[t].phase = "none"
        <3>1. inflight[t].phase # "none" => PendingWrites(t) = Len(queue[t]) + 1
            BY DEF PendingWrites
        <3>2. QED
            BY <2>1, <2>2, <3>1
    <2>4. saved[t] # Unsaved
        BY <1>1, <2>1, UnsavedAssumption DEF IInv, TypeOK
    <2>5. QED
        BY <1>1, <2>1, <2>3, <2>4 DEF IInv, KnownIsCurrent, Current, Content
<1>2. QED
    BY <1>1, Inductive, PTL
-----------------------------------------------------------------------------
(***************************************************************************)
(* What the tabs say and what a clear promises: "Saved locally" is true,   *)
(* and what was cleared does not come back.                                *)
(*                                                                         *)
(* Truthful is what makes the message true when it is shown: until its     *)
(* effect has run nothing that can still write is left.  Marked is what    *)
(* makes a clear stick: a tab that may write and whose generation is that  *)
(* of the marker has been told to start over.                              *)
(***************************************************************************)
Truthful(t) ==
    AutosaveOn(t) /\ status[t] = "saved" =>
        /\ inflight[t].phase = "none"
        /\ timer[t].set => timer[t].stale
        /\ \A i \in DOMAIN queue[t] : queue[t][i].stale
        /\ ~effect[t] => payload[t] = saved[t]

Writing(t) == AutosaveOn(t) \/ inflight[t].phase # "none"

Marked(t) ==
    /\ Writing(t) /\ record.kind = "disabled" /\ generation[t] = record.generation =>
          saved[t] = Unsaved
    /\ inflight[t].phase = "committed" /\ inflight[t].next = record.generation =>
          record.kind = "review"
    /\ task[t].phase = "read" /\ task[t].observed.generation = record.generation =>
          record.kind = task[t].observed.kind

Honest(t) == Truthful(t) /\ Marked(t)

StatusInv == IInv /\ \A t \in Tabs : Honest(t)

(* What concerns a tab stays as it is.                                     *)
OwnState(u) == <<ready[u], error[u], enabled[u], status[u], payload[u], saved[u],
                 generation[u], effect[u], timer[u], queue[u], inflight[u], task[u]>>

LEMMA UntouchedStaysHonest ==
    ASSUME IInv, NEW u \in Tabs, Honest(u), UNCHANGED OwnState(u),
           \/ UNCHANGED record
           \/ record' \in Records /\ record'.generation > record.generation
              /\ record'.generation > 0
    PROVE  Honest(u)'
<1>1. Truthful(u)'
    BY DEF Honest, Truthful, OwnState, AutosaveOn
<1>2. CASE UNCHANGED record
    BY <1>1, <1>2 DEF Honest, Marked, Writing, OwnState, AutosaveOn
<1>3. CASE record' \in Records /\ record'.generation > record.generation
           /\ record'.generation > 0
    <2>1. /\ record.generation \in Int /\ record'.generation \in Int
          /\ generation[u] \in Int /\ inflight[u].next \in Int
          /\ task[u].observed.generation \in Int
        BY <1>3 DEF IInv, TypeOK, Records, Generations, Writes, Tasks
    <2>2. Past(u)
        BY DEF IInv, PastIsPast
    <2>3. /\ generation[u] # record'.generation
          /\ inflight[u].phase = "committed" => inflight[u].next # record'.generation
          /\ task[u].phase = "read" => task[u].observed.generation # record'.generation
        BY <1>3, <2>1, <2>2 DEF Past
    <2> QED BY <1>1, <2>3 DEF Honest, Marked, OwnState
<1> QED BY <1>2, <1>3

LEMMA StatusInit == Init => StatusInv
<1> SUFFICES ASSUME Init PROVE \A t \in Tabs : Honest(t)
    BY InductiveInit DEF StatusInv
<1>1. \A t \in Tabs : task[t] = Begin("load") /\ ~ready[t] /\ inflight[t] = NoWrite
    BY DEF Init
<1> QED BY <1>1 DEF Honest, Truthful, Marked, Writing, AutosaveOn, Begin, NoWrite

(* The other tabs see at most a new record.                                *)
LEMMA OthersStayHonest ==
    ASSUME StatusInv, IInv', NEW t \in Tabs, WriteStep(t) \/ TaskStep(t) \/ UserStep(t)
    PROVE  \A u \in Tabs \ {t} : Honest(u)'
<1>1. TypeOK
    BY DEF StatusInv, IInv
<1> SUFFICES ASSUME NEW u \in Tabs \ {t} PROVE Honest(u)'
    OBVIOUS
<1>2. \/ UNCHANGED record
      \/ record' \in Records /\ record'.generation > record.generation
         /\ record'.generation > 0
    <2>1. CASE CommitWrite(t)
        <3>1. /\ record' = Stored(record.generation + 1, inflight[t].payload)
              /\ record.generation \in Nat /\ record' \in Records
            BY <1>1, <2>1, CommitWriteEffect
        <3> QED BY <3>1 DEF Stored
    <2>2. CASE CommitReset(t)
        BY <1>1, <2>2, CommitResetEffect
    <2>3. CASE ~CommitWrite(t) /\ ~CommitReset(t)
        BY <2>3 DEF WriteStep, TaskStep, UserStep, Edit, AutosaveEffect, TimerFires, StartWrite,
           RefuseWrite, WriteSucceeds, WriteFails, Reload, ReadRecord, LoadSucceeds, LoadFails,
           clearAndDisable, ResetSaved, ClearSucceeds, ResetSucceeds, TaskFails, enableAutosave,
           Close, Reopen
    <2> QED BY <2>1, <2>2, <2>3
<1>3. UNCHANGED OwnState(u)
    <2> USE <1>1 DEF TypeOK, OwnState, control, known, writes
    <2>1. CASE WriteStep(t)
        BY <2>1, BumpEpochEffect DEF WriteStep, AutosaveEffect, TimerFires, StartWrite,
           CommitWrite, RefuseWrite, WriteSucceeds, WriteFails, Settle
    <2>2. CASE TaskStep(t)
        <3>1. CASE ReadRecord(t) \/ CommitReset(t)
            BY <3>1 DEF ReadRecord, CommitReset
        <3>2. CASE LoadSucceeds(t) \/ LoadFails(t)
            BY <3>2 DEF LoadSucceeds, LoadFails
        <3>3. CASE ClearSucceeds(t) \/ TaskFails(t)
            BY <3>3 DEF ClearSucceeds, TaskFails
        <3>4. CASE ResetSucceeds(t)
            BY <3>4, BumpEpochEffect DEF ResetSucceeds, StartLoad
        <3> QED BY <2>2, <3>1, <3>2, <3>3, <3>4 DEF TaskStep
    <2>3. CASE UserStep(t)
        BY <2>3, BumpEpochEffect DEF UserStep, Edit, Reload, clearAndDisable, ResetSaved,
           enableAutosave, Close, Reopen, StartLoad
    <2> QED BY <2>1, <2>2, <2>3
<1> QED BY <1>2, <1>3, UntouchedStaysHonest DEF StatusInv

-----------------------------------------------------------------------------
(* What IInv says of one tab, in the terms of its state.                   *)
LEMMA TabIs ==
    ASSUME IInv, NEW t \in Tabs
    PROVE  /\ Quiet(t) /\ Orderly(t) /\ Past(t)
           /\ WellFormed(record) /\ WellFormed(task[t].observed)
    BY DEF IInv, NothingLiveWhileOff, OneThingAtATime, PastIsPast

(* The autosave effect: it says "saved" only when nothing is left to write. *)
LEMMA AutosaveEffectIsHonest ==
    ASSUME StatusInv, NEW t \in Tabs, AutosaveEffect(t)
    PROVE  Honest(t)'
<1>1. Honest(t) /\ TypeOK /\ Quiet(t) /\ Orderly(t)
    BY TabIs DEF StatusInv, IInv
<1>2. UNCHANGED <<record, ready, error, enabled, payload, saved, generation, queue, inflight, task>>
    BY DEF AutosaveEffect, known
<1>3. Marked(t)'
    BY <1>1, <1>2 DEF Honest, Marked, Writing, AutosaveOn
<1>4. Truthful(t)'
    <2>1. CASE ~AutosaveOn(t)
        BY <1>2, <2>1 DEF Truthful, AutosaveOn
    <2>2. CASE AutosaveOn(t) /\ payload[t] = saved[t] /\ PendingWrites(t) = 0
        <3>1. queue[t] \in Seq(Jobs)
            BY <1>1 DEF TypeOK
        <3>2. Len(queue[t]) = 0 /\ inflight[t].phase = "none"
            <4>1. Len(queue[t]) \in Nat
                BY <3>1
            <4>2. CASE inflight[t].phase = "none"
                BY <2>2, <4>1, <4>2 DEF PendingWrites
            <4>3. CASE inflight[t].phase # "none"
                BY <2>2, <4>1, <4>3 DEF PendingWrites
            <4> QED BY <4>2, <4>3
        <3>3. timer'[t] = NoTimer
            BY <1>1, <2>2 DEF AutosaveEffect, TypeOK
        <3> QED BY <1>2, <2>2, <3>1, <3>2, <3>3 DEF Truthful, NoTimer
    <2>3. CASE AutosaveOn(t) /\ payload[t] = saved[t] /\ PendingWrites(t) # 0
        <3>1. status' = status /\ timer'[t] = NoTimer
            BY <1>1, <2>3 DEF AutosaveEffect, TypeOK
        <3> QED BY <1>1, <1>2, <2>3, <3>1 DEF Honest, Truthful, NoTimer, AutosaveOn
    <2>4. CASE AutosaveOn(t) /\ payload[t] # saved[t]
        <3>1. status'[t] = "saving"
            BY <1>1, <2>4 DEF AutosaveEffect, TypeOK
        <3> QED BY <3>1 DEF Truthful
    <2> QED BY <2>1, <2>2, <2>3, <2>4
<1> QED BY <1>3, <1>4 DEF Honest

LEMMA TimerFiresIsHonest ==
    ASSUME StatusInv, NEW t \in Tabs, TimerFires(t)
    PROVE  Honest(t)'
<1>1. Honest(t) /\ TypeOK
    BY DEF StatusInv, IInv
<1>2. /\ UNCHANGED <<record, ready, error, enabled, status, payload, saved, generation,
                     effect, inflight, task>>
      /\ timer[t].set /\ timer'[t] = NoTimer
      /\ queue'[t] = Append(queue[t], [payload |-> timer[t].payload, stale |-> timer[t].stale])
    BY <1>1 DEF TimerFires, TypeOK, control, known
<1>3. queue[t] \in Seq(Jobs)
    BY <1>1 DEF TypeOK
<1>4. ASSUME timer[t].stale, \A i \in DOMAIN queue[t] : queue[t][i].stale
      PROVE  \A i \in DOMAIN queue'[t] : queue'[t][i].stale
    BY <1>2, <1>3, <1>4
<1> QED BY <1>1, <1>2, <1>4 DEF Honest, Truthful, Marked, Writing, AutosaveOn, NoTimer

LEMMA StartWriteIsHonest ==
    ASSUME StatusInv, NEW t \in Tabs, StartWrite(t)
    PROVE  Honest(t)'
<1>1. Honest(t) /\ TypeOK /\ Quiet(t)
    BY TabIs DEF StatusInv, IInv
<1>2. /\ UNCHANGED <<record, ready, error, enabled, status, payload, saved, generation, timer, task>>
      /\ queue[t] # <<>> /\ queue'[t] = Tail(queue[t]) /\ inflight[t].phase = "none"
    BY <1>1 DEF StartWrite, TypeOK, control, known
<1>3. queue[t] \in Seq(Jobs)
    BY <1>1 DEF TypeOK
<1>4. 1 \in DOMAIN queue[t] /\ Head(queue[t]) = queue[t][1]
    BY <1>2, <1>3
<1>5. ASSUME \A i \in DOMAIN queue[t] : queue[t][i].stale
      PROVE  \A i \in DOMAIN queue'[t] : queue'[t][i].stale
    BY <1>2, <1>3, <1>5
<1>6. CASE Head(queue[t]).stale
    <2>1. inflight' = inflight /\ effect'[t]
        BY <1>1, <1>6 DEF StartWrite, TypeOK
    <2> QED BY <1>1, <1>2, <1>5, <2>1 DEF Honest, Truthful, Marked, Writing, AutosaveOn
<1>7. CASE ~Head(queue[t]).stale
    <2>1. inflight'[t].phase = "sent"
        BY <1>1, <1>7 DEF StartWrite, TypeOK
    <2>2. AutosaveOn(t) /\ status[t] # "saved"
        BY <1>1, <1>4, <1>7 DEF Quiet, Honest, Truthful
    <2> QED BY <1>1, <1>2, <2>1, <2>2 DEF Honest, Truthful, Marked, Writing, AutosaveOn
<1> QED BY <1>6, <1>7

(* The transaction of a write: the record holds a session then.            *)
LEMMA CommitWriteIsHonest ==
    ASSUME StatusInv, NEW t \in Tabs, CommitWrite(t)
    PROVE  Honest(t)'
<1>1. Honest(t) /\ TypeOK /\ Past(t)
    BY TabIs DEF StatusInv, IInv
<1>2. /\ record' = Stored(record.generation + 1, inflight[t].payload)
      /\ record.generation \in Nat
      /\ inflight' = [inflight EXCEPT ![t] = Committed(inflight[t], record.generation + 1)]
    BY <1>1, CommitWriteEffect
<1>3. /\ UNCHANGED <<ready, error, enabled, status, payload, saved, generation, effect, timer,
                     queue, task>>
      /\ inflight[t].phase = "sent" /\ inflight'[t].phase = "committed"
    BY <1>1, <1>2 DEF CommitWrite, TypeOK, Committed, control, known
<1>4. record'.kind = "review" /\ record'.generation = record.generation + 1
    BY <1>2 DEF Stored
<1>5. task[t].phase = "read" => task[t].observed.generation # record'.generation
    <2>1. task[t].observed.generation \in Int
        BY <1>1 DEF TypeOK, Tasks, Records, Generations
    <2> QED BY <1>1, <1>2, <1>4, <2>1 DEF Past
<1> QED BY <1>1, <1>3, <1>4, <1>5 DEF Honest, Truthful, Marked, Writing, AutosaveOn

LEMMA WriteEndsHonest ==
    ASSUME StatusInv, NEW t \in Tabs, RefuseWrite(t) \/ WriteSucceeds(t) \/ WriteFails(t)
    PROVE  Honest(t)'
<1>1. Honest(t) /\ TypeOK
    BY DEF StatusInv, IInv
<1>2. CASE RefuseWrite(t)
    <2>1. /\ inflight[t].phase = "sent" /\ inflight'[t].phase = "refused"
          /\ UNCHANGED <<record, ready, error, enabled, status, payload, saved, generation,
                         effect, timer, queue, task>>
        BY <1>1, <1>2 DEF RefuseWrite, TypeOK, Writes, control, known
    <2> QED BY <1>1, <2>1 DEF Honest, Truthful, Marked, Writing, AutosaveOn
<1>3. CASE WriteSucceeds(t)
    <2>1. /\ inflight[t].phase = "committed" /\ inflight'[t].phase = "none" /\ effect'[t]
          /\ generation'[t] = inflight[t].next
          /\ UNCHANGED <<record, ready, error, enabled, status, timer, queue, task>>
        BY <1>1, <1>3 DEF WriteSucceeds, TypeOK, NoWrite, Settle, control
    <2> QED BY <1>1, <2>1 DEF Honest, Truthful, Marked, Writing, AutosaveOn
<1>4. CASE WriteFails(t)
    <2>1. /\ inflight'[t].phase = "none" /\ error'[t] /\ UNCHANGED <<record, task>>
        BY <1>1, <1>4 DEF WriteFails, TypeOK, NoWrite
    <2> QED BY <1>1, <2>1 DEF Honest, Truthful, Marked, Writing, AutosaveOn
<1> QED BY <1>2, <1>3, <1>4
-----------------------------------------------------------------------------
(* The steps of a load, a clear or a reset.                                *)
LEMMA LoadIsHonest ==
    ASSUME StatusInv, NEW t \in Tabs,
           ReadRecord(t) \/ LoadSucceeds(t) \/ LoadFails(t) \/ ResetSucceeds(t) \/ Reload(t)
    PROVE  Honest(t)'
<1>1. Honest(t) /\ TypeOK /\ Quiet(t) /\ Orderly(t) /\ record \in Records
    BY TabIs DEF StatusInv, IInv, TypeOK
<1>2. CASE ReadRecord(t)
    <2>1. task'[t].phase = "read" /\ task'[t].observed = record
        BY <1>1, <1>2 DEF ReadRecord, TypeOK, Advance
    <2>2. UNCHANGED <<record, ready, error, enabled, status, payload, saved, generation,
                      effect, timer, queue, inflight>>
        BY <1>2 DEF ReadRecord, control, known, writes
    <2> QED BY <1>1, <2>1, <2>2 DEF Honest, Truthful, Marked, Writing, AutosaveOn
<1>3. CASE LoadSucceeds(t)
    <2>1. /\ effect'[t] /\ task'[t] = NoTask /\ UNCHANGED <<record, error, timer, queue, inflight>>
          /\ generation'[t] = task[t].observed.generation
          /\ enabled'[t] => task[t].observed.kind # "disabled"
          /\ task[t].kind = "load" /\ task[t].phase = "read"
        BY <1>1, <1>3 DEF LoadSucceeds, TypeOK, isStoredReviewDisabled, writes
    <2>2. ~ready[t] /\ inflight[t].phase = "none"
        BY <1>1, <2>1 DEF Orderly, AutosaveOn
    <2>3. Truthful(t)'
        BY <1>1, <2>1, <2>2 DEF Truthful, Quiet, AutosaveOn
    <2>4. Marked(t)'
        BY <1>1, <2>1, <2>2 DEF Honest, Marked, Writing, AutosaveOn, NoTask
    <2> QED BY <2>3, <2>4 DEF Honest
<1>4. CASE LoadFails(t)
    <2>1. /\ error'[t] /\ task'[t] = NoTask /\ UNCHANGED <<record, inflight>>
          /\ inflight[t].phase = "none"
        BY <1>1, <1>4 DEF LoadFails, TypeOK, writes
    <2> QED BY <1>1, <2>1 DEF Honest, Truthful, Marked, Writing, AutosaveOn, NoTask
<1>5. CASE ResetSucceeds(t) \/ Reload(t)
    <2>1. /\ ~ready'[t] /\ task'[t] = Begin("load")
          /\ UNCHANGED <<record, inflight, saved, generation>>
        BY <1>1, <1>5 DEF ResetSucceeds, Reload, StartLoad, TypeOK, known
    <2> QED BY <1>1, <2>1 DEF Honest, Truthful, Marked, Writing, AutosaveOn, Begin
<1> QED BY <1>2, <1>3, <1>4, <1>5

LEMMA ClearIsHonest ==
    ASSUME StatusInv, NEW t \in Tabs,
           CommitReset(t) \/ ClearSucceeds(t) \/ TaskFails(t) \/ clearAndDisable(t) \/ ResetSaved(t)
    PROVE  Honest(t)'
<1>1. Honest(t) /\ TypeOK /\ Quiet(t) /\ Orderly(t) /\ Past(t)
    BY TabIs DEF StatusInv, IInv
<1>2. CASE CommitReset(t)
    <2>1. /\ record' \in Records /\ record'.generation > record.generation
          /\ record'.generation > 0
          /\ task' = [task EXCEPT ![t] =
                Advance(task[t], "committed", task[t].observed, record'.generation)]
        BY <1>1, <1>2, CommitResetEffect
    <2>2. /\ task'[t].phase = "committed"
          /\ UNCHANGED <<ready, error, enabled, status, payload, saved, generation,
                         effect, timer, queue, inflight>>
        BY <1>1, <1>2, <2>1 DEF CommitReset, TypeOK, Advance, control, known, writes
    <2>3. /\ generation[t] # record'.generation
          /\ inflight[t].phase = "committed" => inflight[t].next # record'.generation
        <3>1. /\ record.generation \in Int /\ record'.generation \in Int
              /\ generation[t] \in Int /\ inflight[t].next \in Int
            BY <1>1, <2>1 DEF TypeOK, Records, Generations, Writes
        <3> QED BY <1>1, <2>1, <3>1 DEF Past
    <2> QED BY <1>1, <2>2, <2>3 DEF Honest, Truthful, Marked, Writing, AutosaveOn
<1>3. CASE ClearSucceeds(t)
    <2>1. /\ task'[t] = NoTask /\ UNCHANGED <<record, enabled, inflight>>
          /\ task[t].kind = "clear" /\ task[t].phase = "committed"
        BY <1>1, <1>3 DEF ClearSucceeds, TypeOK, writes
    <2>2. ~enabled[t] /\ inflight[t].phase = "none"
        BY <1>1, <2>1 DEF Orderly, AutosaveOn
    <2> QED BY <2>1, <2>2 DEF Honest, Truthful, Marked, Writing, AutosaveOn, NoTask
<1>4. CASE TaskFails(t)
    <2>1. /\ error'[t] /\ task'[t] = NoTask
          /\ UNCHANGED <<record, saved, generation, inflight>>
        BY <1>1, <1>4 DEF TaskFails, TypeOK, known, writes
    <2> QED BY <1>1, <2>1 DEF Honest, Truthful, Marked, Writing, AutosaveOn, NoTask
<1>5. CASE clearAndDisable(t)
    <2>1. /\ ~enabled'[t] /\ task'[t] = Begin("clear") /\ Idle(t)
          /\ UNCHANGED <<record, saved, generation, inflight>>
        BY <1>1, <1>5 DEF clearAndDisable, TypeOK, known
    <2> QED BY <1>1, <2>1 DEF Honest, Truthful, Marked, Writing, AutosaveOn, Begin
<1>6. CASE ResetSaved(t)
    <2>1. /\ task'[t] = Begin("reset")
          /\ UNCHANGED <<record, ready, error, enabled, status, payload, saved, generation,
                         effect, timer, queue, inflight>>
        BY <1>1, <1>6 DEF ResetSaved, TypeOK, control, known, writes
    <2> QED BY <1>1, <2>1 DEF Honest, Truthful, Marked, Writing, AutosaveOn, Begin
<1> QED BY <1>2, <1>3, <1>4, <1>5, <1>6

(* What else the user does.                                                *)
LEMMA UserIsHonest ==
    ASSUME StatusInv, NEW t \in Tabs, Edit(t) \/ enableAutosave(t) \/ Close(t) \/ Reopen(t)
    PROVE  Honest(t)'
<1>1. Honest(t) /\ TypeOK /\ Quiet(t) /\ Orderly(t)
    BY TabIs DEF StatusInv, IInv
<1>2. CASE Edit(t)
    <2>1. /\ effect'[t] /\ UNCHANGED <<record, ready, error, enabled, status, saved, generation,
                                       timer, queue, inflight, task>>
        BY <1>1, <1>2 DEF Edit, TypeOK, control, writes
    <2> QED BY <1>1, <2>1 DEF Honest, Truthful, Marked, Writing, AutosaveOn
<1>3. CASE enableAutosave(t)
    <2>1. /\ ~enabled[t] /\ task[t].kind = "none" /\ saved'[t] = Unsaved /\ effect'[t]
          /\ UNCHANGED <<record, ready, error, generation, timer, queue, inflight, task>>
        BY <1>1, <1>3 DEF enableAutosave, Idle, TypeOK, writes
    <2>2. inflight[t].phase = "none" /\ ~AutosaveOn(t)
        BY <1>1, <2>1 DEF Orderly, AutosaveOn
    <2>3. Truthful(t)'
        BY <1>1, <2>1, <2>2 DEF Truthful, Quiet
    <2>4. Marked(t)'
        BY <1>1, <2>1, <2>2 DEF Honest, Marked
    <2> QED BY <2>3, <2>4 DEF Honest
<1>4. CASE Close(t)
    <2>1. ~ready'[t] /\ inflight'[t] = NoWrite /\ task'[t] = NoTask
        BY <1>1, <1>4 DEF Close, TypeOK
    <2> QED BY <2>1 DEF Honest, Truthful, Marked, Writing, AutosaveOn, NoWrite, NoTask
<1>5. CASE Reopen(t)
    <2>1. ~open[t] /\ UNCHANGED <<record, ready, inflight, saved, generation>>
          /\ task'[t] = Begin("load")
        BY <1>1, <1>5 DEF Reopen, TypeOK, control, known, writes
    <2>2. ~ready[t]
        BY <1>1, <2>1 DEF Orderly
    <2> QED BY <1>1, <2>1, <2>2 DEF Honest, Truthful, Marked, Writing, AutosaveOn, Begin
<1> QED BY <1>2, <1>3, <1>4, <1>5

LEMMA StatusStep == StatusInv /\ [Next]_vars => StatusInv'
<1> SUFFICES ASSUME StatusInv, [Next]_vars PROVE StatusInv'
    OBVIOUS
<1>1. IInv'
    BY InductiveStep DEF StatusInv
<1>2. CASE Next
    <2>1. PICK t \in Tabs : WriteStep(t) \/ TaskStep(t) \/ UserStep(t)
        BY <1>2 DEF Next
    <2>2. \A u \in Tabs \ {t} : Honest(u)'
        BY <1>1, <2>1, OthersStayHonest
    <2>3. Honest(t)'
        BY <2>1, AutosaveEffectIsHonest, TimerFiresIsHonest, StartWriteIsHonest,
           CommitWriteIsHonest, WriteEndsHonest, LoadIsHonest, ClearIsHonest, UserIsHonest
           DEF WriteStep, TaskStep, UserStep
    <2> QED BY <1>1, <2>2, <2>3 DEF StatusInv
<1>3. CASE UNCHANGED vars
    <2>1. UNCHANGED record /\ \A u \in Tabs : UNCHANGED OwnState(u)
        BY <1>3 DEF vars, OwnState, control, known, writes
    <2> QED BY <1>1, <2>1, UntouchedStaysHonest DEF StatusInv
<1> QED BY <1>2, <1>3
-----------------------------------------------------------------------------
(* The invariant behind the message and the marker holds throughout.       *)
THEOREM StatusInvariant == Spec => []StatusInv
<1> QED BY StatusInit, StatusStep, PTL DEF Spec

(* "Saved locally", once the effect has run, means that the session on the *)
(* screen was written last and nothing older can still land.               *)
THEOREM SavedIsAlwaysTrue == Spec => []SavedIsTrue
<1>1. StatusInv => SavedIsTrue
    BY DEF StatusInv, Honest, Truthful, SavedIsTrue
<1> QED BY <1>1, StatusInvariant, PTL

(* Only the user's own reset, or a tab that was told to start over from    *)
(* the marker, writes where saved data was cleared.                        *)
THEOREM ClearAlwaysSticks == Spec => ClearSticks
<1> DEFINE Allowed(t) ==
        task[t].kind = "reset" \/ (saved[t] = Unsaved /\ generation[t] = record.generation)
<1> DEFINE Sticks ==
        record.kind = "disabled" /\ record'.kind # "disabled" => \E t \in Tabs : Allowed(t)
<1>1. StatusInv /\ [Next]_vars => Sticks
    <2> SUFFICES ASSUME StatusInv, [Next]_vars, record.kind = "disabled",
                        record'.kind # "disabled"
                 PROVE  \E t \in Tabs : Allowed(t)
        OBVIOUS
    <2>1. record' # record
        OBVIOUS
    <2>2. PICK t \in Tabs : CommitWrite(t) \/ CommitReset(t)
        BY <2>1 DEF vars, Next, WriteStep, TaskStep, UserStep, Edit, AutosaveEffect, TimerFires,
           StartWrite, RefuseWrite, WriteSucceeds, WriteFails, Reload, ReadRecord, LoadSucceeds,
           LoadFails, clearAndDisable, ResetSaved, ClearSucceeds, ResetSucceeds, TaskFails,
           enableAutosave, Close, Reopen
    <2>3. TypeOK /\ Orderly(t) /\ Honest(t)
        BY TabIs DEF StatusInv, IInv
    <2>4. CASE CommitWrite(t)
        <3>1. inflight[t].phase = "sent" /\ record.generation = inflight[t].expected
            BY <2>3, <2>4, CommitWriteEffect DEF CommitWrite
        <3>2. generation[t] = record.generation
            BY <2>3, <3>1 DEF Orderly
        <3>3. saved[t] = Unsaved
            BY <2>3, <3>1, <3>2 DEF Honest, Marked, Writing
        <3> QED BY <3>2, <3>3
    <2>5. CASE CommitReset(t)
        <3>1. record'.kind = IF task[t].kind = "clear" THEN "disabled" ELSE "review"
            BY <2>3, <2>5, CommitResetEffect
        <3>2. task[t].kind \in {"clear", "reset"}
            BY <2>5 DEF CommitReset
        <3> QED BY <3>1, <3>2
    <2> QED BY <2>2, <2>4, <2>5
<1>2. StatusInv /\ [Next]_vars =>
        [record.kind = "disabled" /\ record'.kind # "disabled" =>
            \E t \in Tabs :
               \/ task[t].kind = "reset"
               \/ saved[t] = Unsaved /\ generation[t] = record.generation]_vars
    BY <1>1
<1> QED BY <1>2, StatusInvariant, PTL DEF Spec, ClearSticks
-----------------------------------------------------------------------------
(***************************************************************************)
(* The tabs implement the shared register of ReviewRegister: every step of *)
(* the detailed specification is a step of the register under the mapping  *)
(* Knows, or leaves the mapping alone.  The inductive invariant is what    *)
(* makes it so: a write that commits does so at a generation whose content *)
(* its tab knows.                                                          *)
(***************************************************************************)
(* Edit changes neither the record nor what any tab knows.                *)
LEMMA EditKeepsKnowledge ==
    ASSUME IInv, NEW t \in Tabs, Edit(t), NEW u \in Tabs
    PROVE  record' = record /\ Knows(u)' = Knows(u)
    BY UnsavedAssumption
       DEF IInv, TypeOK, OneThingAtATime, Orderly, AutosaveOn, Edit, control,
           known, writes, Settle, BumpEpoch, StartLoad, NoTask, NoWrite, Begin,
           Usable, Idle, Restorable, Tasks, Writes, Knows, Content

(* AutosaveEffect changes neither the record nor what any tab knows.      *)
LEMMA AutosaveEffectKeepsKnowledge ==
    ASSUME IInv, NEW t \in Tabs, AutosaveEffect(t), NEW u \in Tabs
    PROVE  record' = record /\ Knows(u)' = Knows(u)
    BY UnsavedAssumption
       DEF IInv, TypeOK, OneThingAtATime, Orderly, AutosaveOn, AutosaveEffect, control,
           known, writes, Settle, BumpEpoch, StartLoad, NoTask, NoWrite, Begin,
           Usable, Idle, Restorable, Tasks, Writes, Knows, Content

(* TimerFires changes neither the record nor what any tab knows.          *)
LEMMA TimerFiresKeepsKnowledge ==
    ASSUME IInv, NEW t \in Tabs, TimerFires(t), NEW u \in Tabs
    PROVE  record' = record /\ Knows(u)' = Knows(u)
    BY UnsavedAssumption
       DEF IInv, TypeOK, OneThingAtATime, Orderly, AutosaveOn, TimerFires, control,
           known, writes, Settle, BumpEpoch, StartLoad, NoTask, NoWrite, Begin,
           Usable, Idle, Restorable, Tasks, Writes, Knows, Content

(* RefuseWrite changes neither the record nor what any tab knows.         *)
LEMMA RefuseWriteKeepsKnowledge ==
    ASSUME IInv, NEW t \in Tabs, RefuseWrite(t), NEW u \in Tabs
    PROVE  record' = record /\ Knows(u)' = Knows(u)
    BY UnsavedAssumption
       DEF IInv, TypeOK, OneThingAtATime, Orderly, AutosaveOn, RefuseWrite, control,
           known, writes, Settle, BumpEpoch, StartLoad, NoTask, NoWrite, Begin,
           Usable, Idle, Restorable, Tasks, Writes, Knows, Content

(* WriteSucceeds changes neither the record nor what any tab knows.       *)
LEMMA WriteSucceedsKeepsKnowledge ==
    ASSUME IInv, NEW t \in Tabs, WriteSucceeds(t), NEW u \in Tabs
    PROVE  record' = record /\ Knows(u)' = Knows(u)
    BY UnsavedAssumption
       DEF IInv, TypeOK, OneThingAtATime, Orderly, AutosaveOn, WriteSucceeds, control,
           known, writes, Settle, BumpEpoch, StartLoad, NoTask, NoWrite, Begin,
           Usable, Idle, Restorable, Tasks, Writes, Knows, Content

(* WriteFails changes neither the record nor what any tab knows.          *)
LEMMA WriteFailsKeepsKnowledge ==
    ASSUME IInv, NEW t \in Tabs, WriteFails(t), NEW u \in Tabs
    PROVE  record' = record /\ Knows(u)' = Knows(u)
    BY UnsavedAssumption
       DEF IInv, TypeOK, OneThingAtATime, Orderly, AutosaveOn, WriteFails, control,
           known, writes, Settle, BumpEpoch, StartLoad, NoTask, NoWrite, Begin,
           Usable, Idle, Restorable, Tasks, Writes, Knows, Content

(* Reload changes neither the record nor what any tab knows.              *)
LEMMA ReloadKeepsKnowledge ==
    ASSUME IInv, NEW t \in Tabs, Reload(t), NEW u \in Tabs
    PROVE  record' = record /\ Knows(u)' = Knows(u)
    BY UnsavedAssumption
       DEF IInv, TypeOK, OneThingAtATime, Orderly, AutosaveOn, Reload, control,
           known, writes, Settle, BumpEpoch, StartLoad, NoTask, NoWrite, Begin,
           Usable, Idle, Restorable, Tasks, Writes, Knows, Content

(* LoadFails changes neither the record nor what any tab knows.           *)
LEMMA LoadFailsKeepsKnowledge ==
    ASSUME IInv, NEW t \in Tabs, LoadFails(t), NEW u \in Tabs
    PROVE  record' = record /\ Knows(u)' = Knows(u)
    BY UnsavedAssumption
       DEF IInv, TypeOK, OneThingAtATime, Orderly, AutosaveOn, LoadFails, control,
           known, writes, Settle, BumpEpoch, StartLoad, NoTask, NoWrite, Begin,
           Usable, Idle, Restorable, Tasks, Writes, Knows, Content

(* clearAndDisable changes neither the record nor what any tab knows.     *)
LEMMA clearAndDisableKeepsKnowledge ==
    ASSUME IInv, NEW t \in Tabs, clearAndDisable(t), NEW u \in Tabs
    PROVE  record' = record /\ Knows(u)' = Knows(u)
    BY UnsavedAssumption
       DEF IInv, TypeOK, OneThingAtATime, Orderly, AutosaveOn, clearAndDisable, control,
           known, writes, Settle, BumpEpoch, StartLoad, NoTask, NoWrite, Begin,
           Usable, Idle, Restorable, Tasks, Writes, Knows, Content

(* ResetSaved changes neither the record nor what any tab knows.          *)
LEMMA ResetSavedKeepsKnowledge ==
    ASSUME IInv, NEW t \in Tabs, ResetSaved(t), NEW u \in Tabs
    PROVE  record' = record /\ Knows(u)' = Knows(u)
    BY UnsavedAssumption
       DEF IInv, TypeOK, OneThingAtATime, Orderly, AutosaveOn, ResetSaved, control,
           known, writes, Settle, BumpEpoch, StartLoad, NoTask, NoWrite, Begin,
           Usable, Idle, Restorable, Tasks, Writes, Knows, Content

(* ClearSucceeds changes neither the record nor what any tab knows.       *)
LEMMA ClearSucceedsKeepsKnowledge ==
    ASSUME IInv, NEW t \in Tabs, ClearSucceeds(t), NEW u \in Tabs
    PROVE  record' = record /\ Knows(u)' = Knows(u)
    BY UnsavedAssumption
       DEF IInv, TypeOK, OneThingAtATime, Orderly, AutosaveOn, ClearSucceeds, control,
           known, writes, Settle, BumpEpoch, StartLoad, NoTask, NoWrite, Begin,
           Usable, Idle, Restorable, Tasks, Writes, Knows, Content

(* ResetSucceeds changes neither the record nor what any tab knows.       *)
LEMMA ResetSucceedsKeepsKnowledge ==
    ASSUME IInv, NEW t \in Tabs, ResetSucceeds(t), NEW u \in Tabs
    PROVE  record' = record /\ Knows(u)' = Knows(u)
    BY UnsavedAssumption
       DEF IInv, TypeOK, OneThingAtATime, Orderly, AutosaveOn, ResetSucceeds, control,
           known, writes, Settle, BumpEpoch, StartLoad, NoTask, NoWrite, Begin,
           Usable, Idle, Restorable, Tasks, Writes, Knows, Content

(* TaskFails changes neither the record nor what any tab knows.           *)
LEMMA TaskFailsKeepsKnowledge ==
    ASSUME IInv, NEW t \in Tabs, TaskFails(t), NEW u \in Tabs
    PROVE  record' = record /\ Knows(u)' = Knows(u)
    BY UnsavedAssumption
       DEF IInv, TypeOK, OneThingAtATime, Orderly, AutosaveOn, TaskFails, control,
           known, writes, Settle, BumpEpoch, StartLoad, NoTask, NoWrite, Begin,
           Usable, Idle, Restorable, Tasks, Writes, Knows, Content

(* enableAutosave changes neither the record nor what any tab knows.      *)
LEMMA enableAutosaveKeepsKnowledge ==
    ASSUME IInv, NEW t \in Tabs, enableAutosave(t), NEW u \in Tabs
    PROVE  record' = record /\ Knows(u)' = Knows(u)
    BY UnsavedAssumption
       DEF IInv, TypeOK, OneThingAtATime, Orderly, AutosaveOn, enableAutosave, control,
           known, writes, Settle, BumpEpoch, StartLoad, NoTask, NoWrite, Begin,
           Usable, Idle, Restorable, Tasks, Writes, Knows, Content

(* Reopen changes neither the record nor what any tab knows.              *)
LEMMA ReopenKeepsKnowledge ==
    ASSUME IInv, NEW t \in Tabs, Reopen(t), NEW u \in Tabs
    PROVE  record' = record /\ Knows(u)' = Knows(u)
    BY UnsavedAssumption
       DEF IInv, TypeOK, OneThingAtATime, Orderly, AutosaveOn, Reopen, control,
           known, writes, Settle, BumpEpoch, StartLoad, NoTask, NoWrite, Begin,
           Usable, Idle, Restorable, Tasks, Writes, Knows, Content

(* A job that starts is sent with what its tab knows already.              *)
LEMMA StartWriteKeepsKnowledge ==
    ASSUME IInv, NEW t \in Tabs, StartWrite(t), NEW u \in Tabs
    PROVE  record' = record /\ Knows(u)' = Knows(u)
<1>1. UNCHANGED <<record, task, generation, saved>>
    BY DEF StartWrite, known, writes
<1>2. inflight[t].phase = "none" /\ inflight \in [Tabs -> Writes]
    BY DEF StartWrite, IInv, TypeOK
<1>3. \/ inflight' = inflight
      \/ inflight' = [inflight EXCEPT ![t] =
                         [phase |-> "sent", payload |-> Head(queue[t]).payload,
                          expected |-> generation[t], next |-> 0]]
    BY DEF StartWrite
<1>4. \/ inflight'[u] = inflight[u]
      \/ inflight[u].phase # "committed" /\ inflight'[u].phase # "committed"
    BY <1>2, <1>3
<1>5. CASE inflight'[u] = inflight[u]
    BY <1>1, <1>5 DEF Knows, Content
<1>6. CASE inflight[u].phase # "committed" /\ inflight'[u].phase # "committed"
    BY <1>1, <1>6 DEF Knows, Content
<1>7. QED
    BY <1>4, <1>5, <1>6

(* A load stores what the tab has known since it read the record.          *)
LEMMA LoadSucceedsKeepsKnowledge ==
    ASSUME IInv, NEW t \in Tabs, LoadSucceeds(t), NEW u \in Tabs
    PROVE  record' = record /\ Knows(u)' = Knows(u)
<1> USE DEF control, known, writes
<1>1. record' = record
   BY DEF LoadSucceeds
<1>2. CASE u = t
  <2>0. Orderly(t) /\ task[t].kind = "load" /\ task[t] \in Tasks
     BY DEF IInv, TypeOK, OneThingAtATime, LoadSucceeds
  <2>1. task[t].observed.payload # Unsaved /\ inflight[t].phase # "committed"
     BY <2>0, UnsavedAssumption DEF Tasks, Records, Orderly, AutosaveOn
  <2>2. Knows(t) = [generation |-> task[t].observed.generation, content |-> task[t].observed.payload]
     BY <2>1 DEF LoadSucceeds, Knows
  <2>3. generation'[t] = task[t].observed.generation /\ saved'[t] = task[t].observed.payload /\ inflight' = inflight /\ task'[t] = NoTask
     BY DEF LoadSucceeds, IInv, TypeOK
  <2>4. Knows(t)' = [generation |-> task[t].observed.generation, content |-> task[t].observed.payload]
     BY <2>1, <2>3 DEF Knows, NoTask, Content
  <2> QED BY <1>1, <1>2, <2>2, <2>4
<1>3. CASE u # t
   BY <1>1, <1>3 DEF LoadSucceeds, Knows, Content, IInv, TypeOK
<1> QED BY <1>2, <1>3

(* The write that commits is a save of the register: the tab that sent it  *)
(* knows the content it replaces.                                          *)
LEMMA CommitWriteSaves ==
    ASSUME IInv, NEW t \in Tabs, CommitWrite(t)
    PROVE  Register!Save(t)
<1> USE DEF control, known, writes
<1>1. /\ record' = Stored(record.generation + 1, inflight[t].payload)
      /\ record.generation = inflight[t].expected
      /\ inflight' = [inflight EXCEPT ![t] = Committed(inflight[t], record.generation + 1)]
    BY CommitWriteEffect DEF IInv
<1>2. /\ Current(t) /\ Orderly(t) /\ inflight[t].phase = "sent" /\ inflight[t] \in Writes
    BY DEF IInv, KnownIsCurrent, OneThingAtATime, TypeOK, CommitWrite
<1>3. generation[t] = record.generation /\ record.payload = Content(t)
    BY <1>1, <1>2 DEF Orderly, Current
<1>4. task[t].kind = "clear" => task[t].phase = "wait"
    BY <1>2 DEF Orderly, AutosaveOn
<1>5. ~(task[t].kind = "load" /\ task[t].phase = "read")
    BY <1>2 DEF Orderly, AutosaveOn
<1>6. Knows(t) = [generation |-> record.generation, content |-> record.payload]
    BY <1>2, <1>3, <1>4, <1>5 DEF Knows
<1>7. /\ inflight'[t] = Committed(inflight[t], record.generation + 1)
      /\ \A u \in Tabs \ {t} : inflight'[u] = inflight[u]
    BY <1>1 DEF IInv, TypeOK
<1>8. Knows(t)' = [generation |-> record.generation + 1, content |-> inflight[t].payload]
    <2>1. /\ inflight'[t].phase = "committed" /\ inflight'[t].next = record.generation + 1
          /\ inflight'[t].payload = inflight[t].payload
        BY <1>7 DEF Committed
    <2> QED BY <2>1 DEF Knows
<1>9. UNCHANGED <<task, generation, saved>>
    BY DEF CommitWrite
<1>10. \A u \in Tabs \ {t} : Knows(u)' = Knows(u)
    BY <1>7, <1>9 DEF Knows, Content
<1>11. [u \in Tabs |-> Knows(u)]' =
           [[u \in Tabs |-> Knows(u)] EXCEPT
               ![t] = [generation |-> record.generation + 1, content |-> inflight[t].payload]]
    BY <1>8, <1>10
<1>12. record'.generation = record.generation + 1 /\ record'.payload = inflight[t].payload /\ record'.kind = "review"
    BY <1>1 DEF Stored
<1>13. inflight[t].payload \in Payloads
    BY <1>2 DEF Writes
<1> QED BY <1>6, <1>11, <1>12, <1>13 DEF Register!Save, Register!Knowledge

(* A tab that closes forgets; its unfinished work goes with it.            *)
LEMMA CloseForgets ==
    ASSUME IInv, NEW t \in Tabs, Close(t)
    PROVE  Register!Forget(t)
<1> USE DEF control, known, writes
<1>1. Knows(t)' = [generation |-> 0, content |-> Initial]
   BY DEF Close, IInv, TypeOK, Knows, Content, NoTask, NoWrite
<1>2. \A u \in Tabs \ {t} : Knows(u)' = Knows(u)
   BY DEF Close, IInv, TypeOK, Knows, Content, NoTask, NoWrite
<1>3. [u \in Tabs |-> Knows(u)]' =
          [[u \in Tabs |-> Knows(u)] EXCEPT
              ![t] = [generation |-> 0, content |-> Initial]]
    BY <1>1, <1>2
<1>4. record' = record BY DEF Close
<1> QED BY <1>3, <1>4 DEF Register!Forget, Register!Unknowing

(* The read of a load is an observation; that of a clear or a reset, and of *)
(* a record that cannot be restored, teaches the tab nothing.              *)
LEMMA ReadRecordObserves ==
    ASSUME IInv, NEW t \in Tabs, ReadRecord(t)
    PROVE  \/ Register!Observe(t)
           \/ record' = record /\ \A u \in Tabs : Knows(u)' = Knows(u)
<1> USE DEF control, known, writes
<1>1. /\ UNCHANGED <<record, inflight, generation, saved>>
      /\ task'[t] = Advance(task[t], "read", record, 0)
      /\ \A u \in Tabs \ {t} : task'[u] = task[u]
    BY DEF ReadRecord, IInv, TypeOK
<1>2. task[t].phase = "wait" /\ (task[t].kind \in {"load", "clear"} => inflight[t].phase = "none")
    BY DEF ReadRecord
<1>3. \A u \in Tabs \ {t} : Knows(u)' = Knows(u)
    BY <1>1 DEF Knows, Content
<1>4. task'[t].kind = task[t].kind /\ task'[t].phase = "read" /\ task'[t].observed = record
    BY <1>1 DEF Advance
<1>5. CASE task[t].kind = "load" /\ Restorable(record)
  <2>1. Knows(t)' = [generation |-> record.generation, content |-> record.payload]
    BY <1>1, <1>2, <1>4, <1>5 DEF Knows
  <2>2. [u \in Tabs |-> Knows(u)]' =
            [[u \in Tabs |-> Knows(u)] EXCEPT
                ![t] = [generation |-> record.generation, content |-> record.payload]]
    BY <1>3, <2>1
  <2> QED BY <1>1, <2>2 DEF Register!Observe, Register!Knowledge
<1>6. CASE ~(task[t].kind = "load" /\ Restorable(record))
  <2>1. Knows(t)' = Knows(t)
    BY <1>1, <1>2, <1>4, <1>6 DEF Knows, Content
  <2> QED BY <1>1, <1>3, <2>1
<1> QED BY <1>5, <1>6

(* A clear and a reset blank the register at a generation never seen.      *)
LEMMA CommitResetResets ==
    ASSUME IInv, NEW t \in Tabs, CommitReset(t)
    PROVE  Register!Reset(t)
<1> USE DEF control, known, writes
<1>1. /\ record' \in Records
      /\ record'.generation > record.generation /\ record'.generation > 0
      /\ record'.payload = Initial
      /\ task' = [task EXCEPT ![t] =
            Advance(task[t], "committed", task[t].observed, record'.generation)]
    BY CommitResetEffect DEF IInv
<1>2. /\ UNCHANGED <<inflight, generation, saved>>
      /\ \A u \in Tabs \ {t} : task'[u] = task[u]
      /\ task'[t].kind = task[t].kind /\ task'[t].phase = "committed"
      /\ task'[t].next = record'.generation
    BY <1>1 DEF CommitReset, IInv, TypeOK, Advance
<1>3. \A u \in Tabs \ {t} : Knows(u)' = Knows(u)
    BY <1>2 DEF Knows, Content
<1>4. task[t].kind \in {"clear", "reset"} /\ task[t].phase = "read" /\ Orderly(t)
    BY DEF CommitReset, IInv, OneThingAtATime
<1>5. inflight[t].phase # "committed"
    BY <1>4 DEF Orderly, AutosaveOn
<1>6. CASE task[t].kind = "clear"
  <2>1. Knows(t)' = [generation |-> record'.generation, content |-> record'.payload]
    BY <1>1, <1>2, <1>5, <1>6 DEF Knows
  <2>2. [u \in Tabs |-> Knows(u)]' =
            [[u \in Tabs |-> Knows(u)] EXCEPT
                ![t] = [generation |-> record'.generation, content |-> record'.payload]]
    BY <1>3, <2>1
  <2> QED BY <1>1, <2>2 DEF Register!Reset, Register!Knowledge, Records, Generations
<1>7. CASE task[t].kind = "reset"
  <2>1. Knows(t)' = Knows(t)
    BY <1>2, <1>4, <1>5, <1>7 DEF Knows, Content
  <2>2. [u \in Tabs |-> Knows(u)]' = [u \in Tabs |-> Knows(u)]
    BY <1>3, <2>1
  <2> QED BY <1>1, <2>2 DEF Register!Reset, Register!Knowledge, Records, Generations
<1> QED BY <1>4, <1>6, <1>7

(* Every step is a step of the register, or changes nothing it shows.      *)
LEMMA StepImplements ==
    ASSUME IInv, [Next]_vars
    PROVE  [Register!Next]_(Register!vars)
<1>1. CASE UNCHANGED vars
    BY <1>1 DEF vars, control, known, writes, Register!vars, Knows, Content
<1>2. ASSUME NEW t \in Tabs, WriteStep(t) \/ TaskStep(t) \/ UserStep(t)
      PROVE  \/ \E u \in Tabs : \/ Register!Observe(u) \/ Register!Forget(u)
                               \/ Register!Save(u) \/ Register!Reset(u)
             \/ record' = record /\ \A u \in Tabs : Knows(u)' = Knows(u)
    <2>1. CASE WriteStep(t)
        BY <2>1, AutosaveEffectKeepsKnowledge, TimerFiresKeepsKnowledge,
           StartWriteKeepsKnowledge, CommitWriteSaves,
           RefuseWriteKeepsKnowledge, WriteSucceedsKeepsKnowledge,
           WriteFailsKeepsKnowledge
           DEF WriteStep
    <2>2. CASE TaskStep(t)
        BY <2>2, ReadRecordObserves, LoadSucceedsKeepsKnowledge,
           LoadFailsKeepsKnowledge, CommitResetResets,
           ClearSucceedsKeepsKnowledge, ResetSucceedsKeepsKnowledge,
           TaskFailsKeepsKnowledge
           DEF TaskStep
    <2>3. CASE UserStep(t)
        BY <2>3, EditKeepsKnowledge, ReloadKeepsKnowledge,
           clearAndDisableKeepsKnowledge, ResetSavedKeepsKnowledge,
           enableAutosaveKeepsKnowledge, CloseForgets, ReopenKeepsKnowledge
           DEF UserStep
    <2>4. QED
        BY <1>2, <2>1, <2>2, <2>3
<1>3. ASSUME record' = record, \A u \in Tabs : Knows(u)' = Knows(u)
      PROVE  UNCHANGED Register!vars
    BY <1>3 DEF Register!vars
<1>4. QED
    BY <1>1, <1>2, <1>3 DEF Next, Register!Next

(* A mounted tab knows nothing, whatever the record it will find.          *)
LEMMA InitImplements ==
    ASSUME Init
    PROVE  Register!Init
<1>1. record \in Records
    BY PersistenceAssumption DEF Init
<1>2. [generation |-> record.generation, content |-> record.payload,
       autosave |-> record.kind # "disabled"]
         \in [generation : Int, content : Payloads, autosave : BOOLEAN]
    BY <1>1 DEF Records, Generations
<1>3. \A t \in Tabs : Knows(t) = [generation |-> 0, content |-> Initial]
    BY DEF Init, Knows, Content, NoWrite, Begin, Unsaved
<1>4. QED
    BY <1>2, <1>3 DEF Register!Init, Register!Unknowing

(* The saved review behaves as one register that a tab may save to only    *)
(* while it knows the content it replaces.                                 *)
THEOREM Implements == Spec => ImplementsRegister
<1>1. QED
    BY Inductive, InitImplements, StepImplements, PTL
       DEF Spec, ImplementsRegister, Register!Spec

(* Generations are never given out twice: the record moves to a higher one *)
(* with every change, resets of damaged records included.                  *)
THEOREM GenerationAlwaysGrows == Spec => GenerationGrows
<1>1. ASSUME IInv, [Next]_vars
      PROVE  record' # record => record'.generation > record.generation
    <2>1. CASE UNCHANGED vars
        BY <2>1 DEF vars
    <2>2. ASSUME NEW t \in Tabs, CommitWrite(t)
          PROVE  record'.generation > record.generation
        <3>1. record'.generation = record.generation + 1
            BY <2>2, <1>1, CommitWriteEffect DEF IInv, Stored
        <3>2. record.generation \in Int
            BY <1>1 DEF IInv, TypeOK, Records, Generations
        <3>3. QED
            BY <3>1, <3>2
    <2>3. ASSUME NEW t \in Tabs, CommitReset(t)
          PROVE  record'.generation > record.generation
        BY <2>3, <1>1, CommitResetEffect DEF IInv
    <2>4. ASSUME NEW t \in Tabs, WriteStep(t) \/ TaskStep(t) \/ UserStep(t)
          PROVE  CommitWrite(t) \/ CommitReset(t) \/ record' = record
        BY <2>4 DEF WriteStep, TaskStep, UserStep, AutosaveEffect, TimerFires,
           StartWrite, RefuseWrite, WriteSucceeds, WriteFails, ReadRecord,
           LoadSucceeds, LoadFails, ClearSucceeds, ResetSucceeds, TaskFails,
           Edit, Reload, clearAndDisable, ResetSaved, enableAutosave, Close,
           Reopen
    <2>5. QED
        BY <1>1, <2>1, <2>2, <2>3, <2>4 DEF Next
<1>2. QED
    BY <1>1, Inductive, PTL DEF Spec, GenerationGrows
-----------------------------------------------------------------------------
(***************************************************************************)
(* Four promises of a review session, for any candidates, baselines, files *)
(* and number of drafts: the decision just taken supersedes all others     *)
(* about its candidate; what is saved is restored as it was; imports add   *)
(* up; and the reviewed graph follows the decisions.                       *)
(*                                                                         *)
(* SessionInv says what the next revision is counted from.  FullInv adds   *)
(* that nothing a session holds has the id of something else: then the     *)
(* lists that override each other by id are unions, whatever order things  *)
(* came in.  Both need the room that RevisionsAreLow and SetsFit name: a   *)
(* file may hold a revision one below MaxRevision, after which the second  *)
(* decision about the candidate has a number that no longer grows.         *)
(***************************************************************************)

UpToLow(D) == D \subseteq Decisions /\ \A d \in D : d.revision <= Low

Sessions == [drafts : Seq(Intents), imported : DecisionSets,
             revisions : [CandidateIds -> Nat], workflow : BOOLEAN]

(* The numbers the session goes on from are those of the baseline and the  *)
(* imports it holds, and its drafts count on from Low at most.             *)
RevisionsAreKnown ==
    /\ UpToLow(session.imported.decisions)
    /\ session.revisions =
          deriveBaselineRevisions(baseline.decisions \cup session.imported.decisions)
    /\ \A i \in DOMAIN session.drafts : session.drafts[i].revision <= Low + i

SessionInv ==
    /\ session \in Sessions /\ Len(session.drafts) <= MaxDrafts
    /\ baseline \in Baselines
    /\ screen \in {"workspace", "reading", "dialog", "dead"}
    /\ chosen \in [file : Files \cup {EmptySet}, suited : BOOLEAN]
    /\ RevisionsAreKnown
-----------------------------------------------------------------------------
LEMMA MaxOfIsMax ==
    ASSUME NEW S, S \subseteq Nat, S # {}, NEW b \in Nat, \A n \in S : n <= b
    PROVE  MaxOf(S) \in S /\ \A n \in S : n <= MaxOf(S)
<1> DEFINE Bounds == {n \in Nat : \A m \in S : m <= n}
<1> DEFINE Less == OpToRel(<, Nat)
<1>1. b \in Bounds /\ Bounds \subseteq Nat
    OBVIOUS
<1>2. PICK u \in Bounds : \A k \in Bounds : u <= k
    <2>1. \A x, y \in Nat : x < y => <<x, y>> \in Less
        BY DEF OpToRel
    <2>2. PICK u \in Bounds : \A k \in Bounds : ~ (<<k, u>> \in Less)
        <3> HIDE DEF Bounds, Less
        <3>1. IsWellFoundedOn(Less, Nat)
            BY NatLessThanWellFounded DEF Less
        <3> QED BY <1>1, <3>1, WFMin
    <2> HIDE DEF Bounds, Less
    <2>3. ASSUME NEW k \in Bounds PROVE u <= k
        <3>1. k \in Nat /\ u \in Nat /\ ~ (<<k, u>> \in Less)
            BY <1>1, <2>2
        <3>2. ~ (k < u)
            BY <2>1, <3>1
        <3> QED BY <3>1, <3>2
    <2> QED BY <2>3
<1>3. u \in S
    <2> SUFFICES ASSUME u \notin S PROVE FALSE
        OBVIOUS
    <2>1. PICK m \in S : TRUE
        OBVIOUS
    <2>2. u - 1 \in Nat /\ \A n \in S : n <= u - 1
        BY <2>1
    <2>3. u - 1 \in Bounds
        BY <2>2
    <2> QED BY <1>2, <2>3
<1>4. \E n \in S : \A m \in S : m <= n
    BY <1>3
<1> QED BY <1>4 DEF MaxOf

(* What the next decision about a candidate is numbered after.             *)
LEMMA BaselineRevisions ==
    ASSUME RevisionsAreLow, NEW D, UpToLow(D)
    PROVE  /\ deriveBaselineRevisions(D) \in [CandidateIds -> Nat]
           /\ \A c \in CandidateIds : deriveBaselineRevisions(D)[c] <= Low
           /\ \A d \in D : d.revision <= deriveBaselineRevisions(D)[d.candidate]
<1> DEFINE Of(c) == {0} \cup {d.revision : d \in {e \in D : e.candidate = c}}
<1>1. ASSUME NEW c \in CandidateIds
      PROVE  /\ MaxOf(Of(c)) \in Nat /\ MaxOf(Of(c)) <= Low
             /\ \A n \in Of(c) : n <= MaxOf(Of(c))
    <2>1. Of(c) \subseteq Nat /\ Of(c) # {} /\ \A n \in Of(c) : n <= Low
        BY DEF RevisionsAreLow, UpToLow, Decisions
    <2>2. MaxOf(Of(c)) \in Of(c) /\ \A n \in Of(c) : n <= MaxOf(Of(c))
        <3> HIDE DEF Of
        <3> QED BY <2>1, MaxOfIsMax DEF RevisionsAreLow
    <2> QED BY <2>1, <2>2
<1>2. deriveBaselineRevisions(D) = [c \in CandidateIds |-> MaxOf(Of(c))]
    BY DEF deriveBaselineRevisions
<1>3. ASSUME NEW d \in D PROVE d.revision <= deriveBaselineRevisions(D)[d.candidate]
    <2>1. d.candidate \in CandidateIds /\ d.revision \in Of(d.candidate)
        BY DEF UpToLow, Decisions
    <2> HIDE DEF Of
    <2> QED BY <1>1, <1>2, <2>1
<1> HIDE DEF Of
<1> QED BY <1>1, <1>2, <1>3

(* A new draft is numbered above everything about its candidate.           *)
LEMMA NextRevision ==
    ASSUME RevisionsAreLow, SessionInv, NEW c \in CandidateIds,
           Len(session.drafts) < MaxDrafts
    PROVE  /\ getNextReviewRevision(session, c) \in Nat \ {0}
           /\ getNextReviewRevision(session, c) <= Low + Len(session.drafts) + 1
           /\ session.revisions[c] < getNextReviewRevision(session, c)
           /\ \A i \in DOMAIN session.drafts : session.drafts[i].candidate = c =>
                 session.drafts[i].revision < getNextReviewRevision(session, c)
<1> DEFINE drafts == session.drafts
           n == Len(drafts)
           S == {session.revisions[c]} \cup
                {i.revision : i \in {j \in ToSet(drafts) : j.candidate = c}}
<1>1. drafts \in Seq(Intents) /\ n \in Nat /\ DOMAIN drafts = 1 .. n
    BY DEF SessionInv, Sessions
<1>2. Low \in Nat /\ Low + n < MaxRevision /\ MaxRevision \in Nat
    BY <1>1, SessionAssumption DEF RevisionsAreLow, Low
<1>3. session.revisions[c] \in Nat /\ session.revisions[c] <= Low
    <2>1. UpToLow(baseline.decisions \cup session.imported.decisions)
        BY SessionAssumption
           DEF SessionInv, RevisionsAreKnown, RevisionsAreLow, UpToLow, DecisionSets
    <2> QED BY <2>1, BaselineRevisions DEF SessionInv, RevisionsAreKnown
<1>4. ASSUME NEW i \in DOMAIN drafts
      PROVE  drafts[i].revision \in Nat /\ drafts[i].revision <= Low + n
    <2>1. drafts[i] \in Intents /\ i \in 1 .. n
        BY <1>1
    <2>2. drafts[i].revision \in Nat
        BY <2>1 DEF Intents
    <2>3. drafts[i].revision <= Low + i
        BY DEF SessionInv, RevisionsAreKnown
    <2> HIDE DEF n
    <2> QED BY <1>1, <1>2, <2>1, <2>2, <2>3
<1>5. S \subseteq Nat /\ S # {} /\ \A k \in S : k <= Low + n
    <2>1. \A k \in S : k = session.revisions[c] \/ \E i \in DOMAIN drafts : k = drafts[i].revision
        BY DEF ToSet
    <2>2. S # {}
        OBVIOUS
    <2> HIDE DEF S, n, drafts
    <2> QED BY <1>1, <1>2, <1>3, <1>4, <2>1, <2>2
<1>6. \A i \in DOMAIN drafts : drafts[i].candidate = c => drafts[i].revision \in S
    BY DEF ToSet
<1>7. session.revisions[c] \in S
    OBVIOUS
<1>8. getNextReviewRevision(session, c) = PlusOne(MaxOf(S))
    BY DEF getNextReviewRevision
<1> HIDE DEF S, n
<1>9. MaxOf(S) \in S /\ \A k \in S : k <= MaxOf(S)
    <2>1. Low + n \in Nat
        BY <1>1, <1>2
    <2> QED BY <1>5, <2>1, MaxOfIsMax
<1>10. MaxOf(S) \in Nat /\ MaxOf(S) <= Low + n /\ PlusOne(MaxOf(S)) = MaxOf(S) + 1
    <2>1. MaxOf(S) \in Nat /\ MaxOf(S) <= Low + n
        BY <1>5, <1>9
    <2> QED BY <1>1, <1>2, <2>1 DEF PlusOne
<1>11. getNextReviewRevision(session, c) = MaxOf(S) + 1
    BY <1>8, <1>10
<1>12. \A k \in S : k < MaxOf(S) + 1
    BY <1>5, <1>9, <1>10
<1>13. MaxOf(S) + 1 \in Nat \ {0} /\ MaxOf(S) + 1 <= Low + n + 1
    BY <1>1, <1>2, <1>10
<1> USE DEF n
<1> QED BY <1>6, <1>7, <1>11, <1>12, <1>13
-----------------------------------------------------------------------------
LEMMA SetsAreLow ==
    ASSUME RevisionsAreLow, NEW set \in Baselines \cup Files \cup {EmptySet}
    PROVE  set \in DecisionSets /\ UpToLow(set.decisions)
<1>1. CASE set = EmptySet
    BY <1>1 DEF EmptySet, DecisionSets, UpToLow
<1>2. CASE set # EmptySet
    BY <1>2, SessionAssumption DEF RevisionsAreLow, UpToLow, DecisionSets
<1> QED BY <1>1, <1>2

LEMMA SessionStarts == ASSUME RevisionsAreLow, SessionInit PROVE SessionInv
<1>1. UpToLow(baseline.decisions)
    BY SetsAreLow DEF SessionInit
<1>2. session = [drafts |-> <<>>, imported |-> EmptySet, workflow |-> FALSE,
                 revisions |-> deriveBaselineRevisions(baseline.decisions)]
    BY DEF SessionInit, createInitialReviewSession
<1>3. /\ deriveBaselineRevisions(baseline.decisions) \in [CandidateIds -> Nat]
      /\ EmptySet \in DecisionSets /\ UpToLow(EmptySet.decisions)
    BY <1>1, BaselineRevisions, SetsAreLow
<1>4. session \in Sessions
    BY <1>2, <1>3 DEF Sessions
<1>5. RevisionsAreKnown
    <2>1. baseline.decisions \cup session.imported.decisions = baseline.decisions
        BY <1>2 DEF EmptySet
    <2>2. DOMAIN session.drafts = {}
        BY <1>2
    <2> QED BY <1>2, <1>3, <2>1, <2>2 DEF RevisionsAreKnown
<1>6. Len(session.drafts) <= MaxDrafts
    BY <1>2, SessionAssumption
<1> QED BY <1>4, <1>5, <1>6 DEF SessionInv, SessionInit, NoChoice

(* A draft of the user's, whatever he decides.                             *)
LEMMA DraftStep ==
    ASSUME RevisionsAreLow, SessionInv, NEW c \in CandidateIds,
           NEW action \in {"accept", "reject", "edit"},
           NEW mapping \in Mappings \cup {NoMapping}, Draft(c, action, mapping)
    PROVE  SessionInv'
<1> DEFINE next == getNextReviewRevision(session, c)
           draft == [candidate |-> c, revision |-> next,
                     action |-> action, mapping |-> mapping]
           drafts == session.drafts
<1>1. /\ session' = [session EXCEPT !.drafts = Append(drafts, draft)]
      /\ Len(drafts) < MaxDrafts /\ UNCHANGED <<baseline, screen, chosen>>
    BY DEF Draft
<1>2. /\ next \in Nat \ {0} /\ next <= Low + Len(drafts) + 1
    BY <1>1, NextRevision
<1>3. draft \in Intents /\ draft.revision = next
    BY <1>2 DEF Intents
<1>4. drafts \in Seq(Intents)
    BY DEF SessionInv, Sessions
<1> HIDE DEF draft, next
<1>5. session' \in Sessions /\ session'.drafts = Append(drafts, draft)
      /\ session'.imported = session.imported /\ session'.revisions = session.revisions
    <2>1. Append(drafts, draft) \in Seq(Intents)
        BY <1>3, <1>4
    <2>2. session \in Sessions
        BY DEF SessionInv
    <2> QED BY <1>1, <2>1, <2>2 DEF Sessions
<1>6. \A i \in DOMAIN session'.drafts : session'.drafts[i].revision <= Low + i
    <2> SUFFICES ASSUME NEW i \in DOMAIN Append(drafts, draft)
                 PROVE  Append(drafts, draft)[i].revision <= Low + i
        BY <1>5
    <2>1. CASE i \in DOMAIN drafts
        <3>1. Append(drafts, draft)[i] = drafts[i]
            BY <1>3, <1>4, <2>1
        <3> QED BY <2>1, <3>1 DEF SessionInv, RevisionsAreKnown
    <2>2. CASE i \notin DOMAIN drafts
        <3>1. i = Len(drafts) + 1 /\ Append(drafts, draft)[i] = draft
            BY <1>3, <1>4, <2>2
        <3> QED BY <1>2, <1>3, <1>4, <3>1 DEF RevisionsAreLow
    <2> QED BY <2>1, <2>2
<1>7. Len(session'.drafts) <= MaxDrafts
    BY <1>1, <1>3, <1>4, <1>5, SessionAssumption
<1>8. RevisionsAreKnown'
    BY <1>1, <1>5, <1>6 DEF SessionInv, RevisionsAreKnown
<1> QED BY <1>1, <1>5, <1>7, <1>8 DEF SessionInv

LEMMA UndoStep == ASSUME SessionInv, undoLastDraft PROVE SessionInv'
<1> DEFINE drafts == session.drafts
<1>1. /\ session' = [session EXCEPT !.drafts = Front(drafts)]
      /\ drafts # <<>> /\ UNCHANGED <<baseline, screen, chosen>>
    BY DEF undoLastDraft
<1>2. drafts \in Seq(Intents) /\ Len(drafts) <= MaxDrafts
    BY DEF SessionInv, Sessions
<1>3. /\ Front(drafts) \in Seq(Intents) /\ Len(Front(drafts)) = Len(drafts) - 1
      /\ \A i \in DOMAIN Front(drafts) : i \in DOMAIN drafts /\ Front(drafts)[i] = drafts[i]
    BY <1>1, <1>2 DEF Front
<1>4. session' \in Sessions /\ session'.drafts = Front(drafts)
      /\ session'.imported = session.imported /\ session'.revisions = session.revisions
    BY <1>1, <1>3 DEF SessionInv, Sessions
<1>5. Len(session'.drafts) <= MaxDrafts
    BY <1>2, <1>3, <1>4, SessionAssumption
<1>6. RevisionsAreKnown'
    BY <1>1, <1>3, <1>4 DEF SessionInv, RevisionsAreKnown
<1> QED BY <1>1, <1>4, <1>5, <1>6 DEF SessionInv

(* What an import makes of a session: its numbers are derived anew.        *)
LEMMA ImportedSession ==
    ASSUME RevisionsAreLow, baseline \in Baselines,
           NEW s \in Sessions, UpToLow(s.imported.decisions),
           NEW file \in DecisionSets, UpToLow(file.decisions)
    PROVE  LET t == previewDecisionImport(s, file)
           IN  /\ t \in Sessions /\ UpToLow(t.imported.decisions)
               /\ t.drafts = s.drafts
               /\ t.revisions = deriveBaselineRevisions(
                                    baseline.decisions \cup t.imported.decisions)
<1> DEFINE foreign == Foreign(s, file)
           merged == mergeDecisionSets(s.imported, foreign)
           revisions == deriveBaselineRevisions(baseline.decisions \cup merged.decisions)
<1>1. /\ foreign \in DecisionSets /\ foreign.decisions \subseteq file.decisions
    BY DEF Foreign, DecisionSets
<1>2. s.imported \in DecisionSets
    BY DEF Sessions
<1>3. merged.decisions = s.imported.decisions \cup foreign.decisions
    BY DEF mergeDecisionSets
<1>4. merged \in DecisionSets
    <2>1. MaxOf({s.imported.revision, foreign.revision}) \in Nat
        BY <1>1, <1>2 DEF DecisionSets, MaxOf
    <2> HIDE DEF foreign
    <2> QED BY <1>1, <1>2, <2>1 DEF DecisionSets, mergeDecisionSets
<1>5. UpToLow(merged.decisions)
    BY <1>1, <1>3 DEF UpToLow
<1>6. UpToLow(baseline.decisions)
    BY SetsAreLow
<1>7. revisions \in [CandidateIds -> Nat]
    <2>1. UpToLow(baseline.decisions \cup merged.decisions)
        BY <1>5, <1>6 DEF UpToLow
    <2> HIDE DEF merged
    <2> QED BY <2>1, BaselineRevisions
<1>8. mergeDecisionSets(baseline, merged).decisions = baseline.decisions \cup merged.decisions
    BY DEF mergeDecisionSets
<1>9. previewDecisionImport(s, file) =
        [s EXCEPT !.imported = merged, !.revisions = revisions]
    BY <1>8 DEF previewDecisionImport
<1> HIDE DEF merged, revisions
<1>10. /\ [s EXCEPT !.imported = merged, !.revisions = revisions] \in Sessions
       /\ [s EXCEPT !.imported = merged, !.revisions = revisions].imported = merged
       /\ [s EXCEPT !.imported = merged, !.revisions = revisions].revisions = revisions
       /\ [s EXCEPT !.imported = merged, !.revisions = revisions].drafts = s.drafts
    BY <1>4, <1>7 DEF Sessions
<1> QED BY <1>5, <1>9, <1>10 DEF revisions

LEMMA ApplyStep == ASSUME RevisionsAreLow, SessionInv, ApplyImport PROVE SessionInv'
<1> DEFINE imported == previewDecisionImport(session, chosen.file)
<1>1. /\ session' = [imported EXCEPT !.workflow = FALSE]
      /\ screen' = "workspace" /\ chosen' = NoChoice /\ UNCHANGED baseline
    BY DEF ApplyImport
<1>2. chosen.file \in DecisionSets /\ UpToLow(chosen.file.decisions)
    BY SetsAreLow DEF SessionInv
<1>3. /\ imported \in Sessions /\ UpToLow(imported.imported.decisions)
      /\ imported.drafts = session.drafts
      /\ imported.revisions = deriveBaselineRevisions(
                                  baseline.decisions \cup imported.imported.decisions)
    BY <1>2, ImportedSession DEF SessionInv, RevisionsAreKnown
<1> HIDE DEF imported
<1>4. /\ session' \in Sessions /\ session'.drafts = session.drafts
      /\ session'.imported = imported.imported /\ session'.revisions = imported.revisions
    BY <1>1, <1>3 DEF Sessions
<1>5. RevisionsAreKnown'
    BY <1>1, <1>3, <1>4 DEF SessionInv, RevisionsAreKnown
<1> QED BY <1>1, <1>4, <1>5 DEF SessionInv, NoChoice

(* What decodes is restored; what does not leaves a blank session.         *)
LEMMA RestoreStep == ASSUME RevisionsAreLow, SessionInv, Restore PROVE SessionInv'
<1> DEFINE stored == encodeStoredReview(session)
           blank == createInitialReviewSession
           restored == previewDecisionImport(blank, session.imported)
<1>1. /\ screen' = "workspace" /\ chosen' = NoChoice /\ UNCHANGED baseline
      /\ session' = decoded(stored) \/ session' = blank
    BY DEF Restore
<1>2. /\ blank \in Sessions /\ blank.drafts = <<>> /\ blank.imported = EmptySet
      /\ blank.revisions = deriveBaselineRevisions(baseline.decisions)
      /\ UpToLow(baseline.decisions) /\ UpToLow(EmptySet.decisions)
    <2>1. /\ UpToLow(baseline.decisions)
          /\ EmptySet \in DecisionSets /\ UpToLow(EmptySet.decisions)
        BY SetsAreLow DEF SessionInv
    <2>2. deriveBaselineRevisions(baseline.decisions) \in [CandidateIds -> Nat]
        BY <2>1, BaselineRevisions
    <2> QED BY <2>1, <2>2 DEF createInitialReviewSession, Sessions
<1>3. CASE session' = blank
    <2>1. baseline.decisions \cup blank.imported.decisions = baseline.decisions
        BY <1>2 DEF EmptySet
    <2>2. DOMAIN blank.drafts = {} /\ Len(blank.drafts) = 0
        BY <1>2
    <2> HIDE DEF blank
    <2>3. RevisionsAreKnown'
        BY <1>1, <1>2, <1>3, <2>1, <2>2 DEF RevisionsAreKnown
    <2>4. Len(session'.drafts) <= MaxDrafts
        BY <1>3, <2>2, SessionAssumption
    <2> QED BY <1>1, <1>2, <1>3, <2>3, <2>4 DEF SessionInv, NoChoice
<1>4. CASE session' = decoded(stored)
    <2>1. session.imported \in DecisionSets /\ UpToLow(session.imported.decisions)
        BY DEF SessionInv, Sessions, RevisionsAreKnown
    <2>2. /\ restored \in Sessions /\ UpToLow(restored.imported.decisions)
          /\ restored.revisions = deriveBaselineRevisions(
                                      baseline.decisions \cup restored.imported.decisions)
        <3> HIDE DEF blank
        <3> QED BY <1>2, <2>1, ImportedSession DEF SessionInv
    <2>3. decoded(stored) =
             [restored EXCEPT !.drafts = session.drafts, !.workflow = session.workflow]
        BY DEF decoded, encodeStoredReview
    <2>4. session.drafts \in Seq(Intents) /\ session.workflow \in BOOLEAN
        BY DEF SessionInv, Sessions
    <2> HIDE DEF restored, stored
    <2>5. /\ session' \in Sessions /\ session'.drafts = session.drafts
          /\ session'.imported = restored.imported
          /\ session'.revisions = restored.revisions
        BY <1>4, <2>2, <2>3, <2>4 DEF Sessions
    <2>6. RevisionsAreKnown'
        BY <1>1, <2>2, <2>5 DEF SessionInv, RevisionsAreKnown
    <2> QED BY <1>1, <2>5, <2>6 DEF SessionInv, NoChoice
<1> QED BY <1>1, <1>3, <1>4

(* The drafts of accept, reject and edit.                                  *)
LEMMA DecisionIsDraft ==
    ASSUME NEW c \in DOMAIN Candidates,
           acceptCandidate(c) \/ rejectCandidate(c) \/ editCandidate(c)
    PROVE  \E action \in {"accept", "reject", "edit"} :
           \E mapping \in Mappings \cup {NoMapping} :
              Draft(c, action, mapping) /\ (action = "edit" => mapping \in Editable)
<1>1. CASE acceptCandidate(c)
    BY <1>1 DEF acceptCandidate
<1>2. CASE rejectCandidate(c)
    BY <1>2 DEF rejectCandidate
<1>3. CASE editCandidate(c)
    <2>1. PICK m \in Editable : Draft(c, "edit", m)
        BY <1>3 DEF editCandidate
    <2>2. m \in Mappings
        BY SessionAssumption
    <2> QED BY <2>1, <2>2
<1> QED BY <1>1, <1>2, <1>3

LEMMA SessionStep == ASSUME RevisionsAreLow, SessionInv, [SessionNext]_sessionVars PROVE SessionInv'
<1>1. ASSUME NEW c \in DOMAIN Candidates,
             acceptCandidate(c) \/ rejectCandidate(c) \/ editCandidate(c)
      PROVE  SessionInv'
    <2>1. c \in CandidateIds
        BY DecisionsAssumption
    <2> QED BY <1>1, <2>1, DecisionIsDraft, DraftStep
<1>2. CASE undoLastDraft
    BY <1>2, UndoStep
<1>3. CASE setWorkflowDraft
    <2>1. /\ session' = [session EXCEPT !.workflow = ~session.workflow]
          /\ UNCHANGED <<baseline, screen, chosen>>
        BY <1>3 DEF setWorkflowDraft
    <2>2. /\ session' \in Sessions /\ session'.drafts = session.drafts
          /\ session'.imported = session.imported
          /\ session'.revisions = session.revisions
        BY <2>1 DEF SessionInv, Sessions
    <2> QED BY <2>1, <2>2 DEF SessionInv, RevisionsAreKnown
<1>4. CASE ChooseFile
    <2>1. UNCHANGED <<baseline, session>> /\ screen' = "reading"
          /\ chosen' \in [file : Files \cup {EmptySet}, suited : BOOLEAN]
        BY <1>4 DEF ChooseFile
    <2> QED BY <2>1 DEF SessionInv, RevisionsAreKnown
<1>5. CASE FileRead \/ CancelImport
    <2>1. /\ UNCHANGED <<baseline, session>>
          /\ screen' \in {"workspace", "dead", "dialog"}
          /\ chosen' \in {chosen, NoChoice}
        BY <1>5 DEF FileRead, CancelImport
    <2>2. chosen' \in [file : Files \cup {EmptySet}, suited : BOOLEAN]
        <3>1. NoChoice \in [file : Files \cup {EmptySet}, suited : BOOLEAN]
            BY DEF NoChoice
        <3> QED BY <2>1, <3>1 DEF SessionInv
    <2>3. RevisionsAreKnown'
        BY <2>1 DEF SessionInv, RevisionsAreKnown
    <2> QED BY <2>1, <2>2, <2>3 DEF SessionInv
<1>6. CASE ApplyImport
    BY <1>6, ApplyStep
<1>7. CASE Restore
    BY <1>7, RestoreStep
<1>8. CASE UNCHANGED sessionVars
    BY <1>8 DEF SessionInv, RevisionsAreKnown, sessionVars
<1> QED BY <1>1, <1>2, <1>3, <1>4, <1>5, <1>6, <1>7, <1>8 DEF SessionNext
-----------------------------------------------------------------------------
(* A decision numbered above all others about its candidate, which the     *)
(* snapshot has, is the active one.                                        *)
LEMMA HighestIsActive ==
    ASSUME NEW D, NEW d \in D, d.candidate \in DOMAIN Candidates,
           d.print = "current", decisionSemantics(d) = d, d.revision \in Nat,
           \A e \in D : e.candidate = d.candidate /\ e # d =>
              e.revision \in Nat /\ e.revision < d.revision
    PROVE  d \in Active(D)
<1>1. Highest(D, d.candidate) = {d}
    <2>1. d \in Highest(D, d.candidate)
        BY DEF Highest
    <2>2. ASSUME NEW e \in Highest(D, d.candidate) PROVE e = d
        BY DEF Highest
    <2> QED BY <2>1, <2>2
<1>2. Resolution(D, d.candidate) = "active"
    <2>1. {decisionSemantics(e) : e \in Highest(D, d.candidate)} = {d}
        BY <1>1
    <2>2. Cardinality({d}) = 1
        BY FS_Singleton
    <2>3. ~ \E e \in Highest(D, d.candidate) : e.print = "old"
        BY <1>1
    <2> QED BY <2>1, <2>2, <2>3 DEF Resolution
<1> QED BY <1>1, <1>2 DEF Active

(* The draft just made is the highest of its candidate.                    *)
LEMMA DraftRules ==
    ASSUME RevisionsAreLow, SessionInv, NEW c \in DOMAIN Candidates,
           NEW action \in {"accept", "reject", "edit"},
           NEW mapping \in Mappings \cup {NoMapping}, Draft(c, action, mapping)
    PROVE  createReviewDecisionFromIntent(Last(session'.drafts))
              \in Active(decisionSet(session').decisions)
<1> DEFINE next == getNextReviewRevision(session, c)
           draft == [candidate |-> c, revision |-> next,
                     action |-> action, mapping |-> mapping]
           drafts == session.drafts
           d == createReviewDecisionFromIntent(draft)
           D == decisionSet(session').decisions
<1>1. c \in CandidateIds
    BY DecisionsAssumption
<1>2. /\ session' = [session EXCEPT !.drafts = Append(drafts, draft)]
      /\ Len(drafts) < MaxDrafts /\ UNCHANGED baseline
    BY DEF Draft
<1>3. /\ next \in Nat \ {0} /\ session.revisions[c] < next
      /\ \A i \in DOMAIN drafts : drafts[i].candidate = c => drafts[i].revision < next
    BY <1>1, <1>2, NextRevision
<1>4. /\ d.candidate = c /\ d.print = "current" /\ d.revision = next
      /\ decisionSemantics(d) = d
    BY DEF createReviewDecisionFromIntent, Decision, decisionSemantics
<1>5. drafts \in Seq(Intents) /\ draft \in Intents
    BY <1>1, <1>3 DEF SessionInv, Sessions, Intents
<1> HIDE DEF draft, next
<1>6. /\ session'.drafts = Append(drafts, draft)
      /\ session'.imported = session.imported
    BY <1>2, <1>5 DEF SessionInv, Sessions
<1>7. Last(session'.drafts) = draft
    BY <1>5, <1>6 DEF Last
<1>8. ToSet(session'.drafts) = ToSet(drafts) \cup {draft}
    BY <1>5, <1>6 DEF ToSet
<1>9. d \in D
    <2>1. d \in draftDecisions(session')
        BY <1>8 DEF draftDecisions
    <2> QED BY <2>1 DEF decisionSet, uniqueById
<1>10. ASSUME NEW e \in D, e.candidate = d.candidate, e # d
       PROVE  e.revision \in Nat /\ e.revision < d.revision
    <2>1. e \in baseline.decisions \cup session.imported.decisions
          \/ e \in draftDecisions(session')
        BY <1>2, <1>6 DEF decisionSet, uniqueById
    <2>2. CASE e \in baseline.decisions \cup session.imported.decisions
        <3>1. UpToLow(baseline.decisions \cup session.imported.decisions)
            BY SetsAreLow DEF SessionInv, RevisionsAreKnown, UpToLow
        <3>2. e.revision \in Nat
            BY <2>2, <3>1 DEF UpToLow, Decisions
        <3>3. e.revision <= session.revisions[c] /\ session.revisions[c] \in Nat
            BY <1>1, <1>4, <1>10, <2>2, <3>1, BaselineRevisions
               DEF SessionInv, RevisionsAreKnown
        <3> QED BY <1>3, <1>4, <3>2, <3>3
    <2>3. CASE e \in draftDecisions(session')
        <3>1. PICK i \in DOMAIN drafts : e = createReviewDecisionFromIntent(drafts[i])
            <4>1. PICK j \in ToSet(drafts) \cup {draft} :
                         e = createReviewDecisionFromIntent(j)
                BY <1>8, <2>3 DEF draftDecisions
            <4>2. j # draft
                BY <1>10, <4>1
            <4> QED BY <4>1, <4>2 DEF ToSet
        <3>2. e.candidate = drafts[i].candidate /\ e.revision = drafts[i].revision
            BY <3>1 DEF createReviewDecisionFromIntent, Decision
        <3>3. drafts[i].revision \in Nat
            <4>1. drafts[i] \in Intents
                BY <1>5
            <4> QED BY <4>1 DEF Intents
        <3> QED BY <1>3, <1>4, <1>10, <3>2, <3>3
    <2> QED BY <2>1, <2>2, <2>3
<1> HIDE DEF d, D
<1>11. d \in Active(D)
    BY <1>3, <1>4, <1>9, <1>10, HighestIsActive
<1> QED BY <1>7, <1>11 DEF d, D

LEMMA LatestRules ==
    ASSUME RevisionsAreLow, SessionInv, [SessionNext]_sessionVars,
           Len(session'.drafts) > Len(session.drafts)
    PROVE  createReviewDecisionFromIntent(Last(session'.drafts))
              \in Active(decisionSet(session').decisions)
<1>1. session.drafts \in Seq(Intents) /\ session \in Sessions
    BY DEF SessionInv, Sessions
<1>2. ASSUME session'.drafts = session.drafts PROVE FALSE
    BY <1>1, <1>2
<1>3. ~ undoLastDraft
    <2> SUFFICES ASSUME undoLastDraft PROVE FALSE
        OBVIOUS
    <2>1. session.drafts # <<>> /\ session'.drafts = Front(session.drafts)
        BY <1>1 DEF undoLastDraft, Sessions
    <2> QED BY <1>1, <2>1 DEF Front
<1>4. ~ setWorkflowDraft
    BY <1>1, <1>2 DEF setWorkflowDraft, Sessions
<1>5. ~ (ChooseFile \/ FileRead \/ CancelImport \/ UNCHANGED sessionVars)
    BY <1>2 DEF ChooseFile, FileRead, CancelImport, sessionVars
<1>6. ~ ApplyImport
    <2> SUFFICES ASSUME ApplyImport PROVE FALSE
        OBVIOUS
    <2>1. chosen.file \in DecisionSets /\ UpToLow(chosen.file.decisions)
        BY SetsAreLow DEF SessionInv
    <2> DEFINE imported == previewDecisionImport(session, chosen.file)
    <2>2. imported \in Sessions /\ imported.drafts = session.drafts
        BY <1>1, <2>1, ImportedSession DEF SessionInv, RevisionsAreKnown
    <2>3. session' = [imported EXCEPT !.workflow = FALSE]
        BY DEF ApplyImport
    <2> HIDE DEF imported
    <2> QED BY <1>2, <2>2, <2>3 DEF Sessions
<1>7. ~ Restore
    <2> SUFFICES ASSUME Restore PROVE FALSE
        OBVIOUS
    <2>1. session' = decoded(encodeStoredReview(session)) \/ session'.drafts = <<>>
        BY DEF Restore, createInitialReviewSession
    <2>2. session' = decoded(encodeStoredReview(session)) =>
             session'.drafts = session.drafts
        <3> DEFINE restored == previewDecisionImport(createInitialReviewSession,
                                                     session.imported)
        <3>1. decoded(encodeStoredReview(session)) =
                [restored EXCEPT !.drafts = session.drafts, !.workflow = session.workflow]
            BY DEF decoded, encodeStoredReview
        <3>2. "drafts" \in DOMAIN restored
            BY DEF previewDecisionImport, createInitialReviewSession
        <3> HIDE DEF restored
        <3> QED BY <3>1, <3>2
    <2>3. session'.drafts = <<>> => Len(session'.drafts) <= Len(session.drafts)
        BY <1>1
    <2> QED BY <1>1, <1>2, <2>1, <2>2, <2>3
<1>8. PICK c \in DOMAIN Candidates :
            acceptCandidate(c) \/ rejectCandidate(c) \/ editCandidate(c)
    BY <1>3, <1>4, <1>5, <1>6, <1>7 DEF SessionNext
<1> QED BY <1>8, DecisionIsDraft, DraftRules

(* A session keeps its shape, its numbers follow from what it holds, and   *)
(* its drafts count on from there, through imports, undo and reloads.      *)
THEOREM SessionInvariant == ASSUME RevisionsAreLow PROVE SessionSpec => []SessionInv
<1>1. SessionInit => SessionInv
    BY SessionStarts
<1>2. SessionInv /\ [SessionNext]_sessionVars => SessionInv'
    BY SessionStep
<1> QED BY <1>1, <1>2, PTL DEF SessionSpec

THEOREM SessionTypeOK == ASSUME RevisionsAreLow PROVE SessionSpec => []SessionTyped
<1>1. SessionInv => SessionTyped
    BY DEF SessionInv, Sessions, SessionTyped
<1> QED BY <1>1, SessionInvariant, PTL

(* What the user has just decided is in force at once, whatever the        *)
(* snapshot, the imports and the decisions undone or restored before say.  *)
THEOREM LatestAlwaysRules == ASSUME RevisionsAreLow PROVE SessionSpec => LatestDraftRules
<1>1. SessionInv /\ [SessionNext]_sessionVars =>
        [Len(session'.drafts) > Len(session.drafts) =>
            createReviewDecisionFromIntent(Last(session'.drafts))
               \in Active(decisionSet(session').decisions)]_sessionVars
    BY LatestRules
<1> QED BY <1>1, SessionInvariant, PTL DEF SessionSpec, LatestDraftRules
-----------------------------------------------------------------------------
(* What a session holds beside its drafts.                                 *)
Held(s) == baseline.decisions \cup s.imported.decisions
HeldEdges(s) == baseline.manualEdges \cup s.imported.manualEdges

(* Entries of one id are one entry, and the browser can show them.         *)
Agree(D, E) ==
    /\ \A d, e \in D : Id(d) = Id(e) => d = e
    /\ \A d \in D : ~Incompatible(d)
    /\ \A e, f \in E : e.id = f.id => e = f

(* Drafts are about candidates of the snapshot, none of them has the id of *)
(* what is held, and what is held agrees: then a set that "overrides" by   *)
(* id is nothing but a union.                                              *)
Coherent(s) ==
    /\ \A i \in ToSet(s.drafts) : /\ i.candidate \in DOMAIN Candidates
                                  /\ i.action = "edit" => i.mapping \in Editable
    /\ \A d \in draftDecisions(s), e \in Held(s) : Id(d) # Id(e)
    /\ Agree(Held(s), HeldEdges(s))

Small(s) ==
    /\ s.imported.decisions \subseteq AllDecisions
    /\ s.imported.manualEdges \subseteq AllEdges
    /\ s.imported.revision <= Low

FullInv ==
    /\ SessionInv /\ Coherent(session) /\ Small(session)
    /\ screen = "dialog" => ~Refuses(session, chosen.file)

LEMMA IdKeeps ==
    ASSUME NEW d \in Decisions
    PROVE  /\ Id(d).candidate = d.candidate /\ Id(d).revision = d.revision
           /\ decisionSemantics(d).candidate = d.candidate
    BY DEF Decisions, Id, decisionSemantics

LEMMA DraftIsItsId ==
    ASSUME NEW s \in Sessions, NEW d \in draftDecisions(s)
    PROVE  d \in Decisions /\ Id(d) = d
<1>1. PICK i \in ToSet(s.drafts) : d = createReviewDecisionFromIntent(i)
    BY DEF draftDecisions
<1>2. i \in Intents
    BY DEF Sessions, ToSet
<1>3. d \in Decisions /\ d.aliases = "-" /\ d.decidedAt = "-"
    BY <1>1, <1>2 DEF createReviewDecisionFromIntent, Decision, Decisions, Intents
<1>4. [d EXCEPT !.aliases = "-"] = d
    BY <1>3 DEF Decisions
<1>5. [[d EXCEPT !.aliases = "-"] EXCEPT !.decidedAt = "-"] = d
    BY <1>3, <1>4 DEF Decisions
<1> QED BY <1>3, <1>5 DEF Id

LEMMA HeldIsTyped ==
    ASSUME SessionInv, NEW s \in Sessions
    PROVE  Held(s) \subseteq Decisions /\ HeldEdges(s) \subseteq ManualEdges
    BY SessionAssumption DEF Held, HeldEdges, SessionInv, Sessions, DecisionSets

LEMMA SetIsUnion ==
    ASSUME NEW s, Coherent(s)
    PROVE  /\ decisionSet(s).decisions = Held(s) \cup draftDecisions(s)
           /\ decisionSet(s).manualEdges = HeldEdges(s)
<1>1. uniqueById(baseline.decisions, s.imported.decisions) = Held(s)
    BY DEF Coherent, Agree, Held, uniqueById
<1>2. uniqueById(Held(s), draftDecisions(s)) = Held(s) \cup draftDecisions(s)
    BY DEF Coherent, uniqueById
<1>3. {e \in baseline.manualEdges : \A f \in s.imported.manualEdges : e.id # f.id}
         \cup s.imported.manualEdges = HeldEdges(s)
    BY DEF Coherent, Agree, HeldEdges
<1> QED BY <1>1, <1>2, <1>3 DEF decisionSet

LEMMA PreviewIs ==
    ASSUME NEW s \in Sessions, NEW file
    PROVE  LET t == previewDecisionImport(s, file)
               merged == mergeDecisionSets(s.imported, Foreign(s, file))
           IN  /\ t.drafts = s.drafts /\ t.workflow = s.workflow
               /\ t.imported = merged
               /\ t.revisions = deriveBaselineRevisions(
                                    baseline.decisions \cup merged.decisions)
<1> DEFINE merged == mergeDecisionSets(s.imported, Foreign(s, file))
           revisions == deriveBaselineRevisions(mergeDecisionSets(baseline, merged).decisions)
<1>1. previewDecisionImport(s, file) =
        [s EXCEPT !.imported = merged, !.revisions = revisions]
    BY DEF previewDecisionImport
<1>2. mergeDecisionSets(baseline, merged).decisions = baseline.decisions \cup merged.decisions
    BY DEF mergeDecisionSets
<1> HIDE DEF merged
<1>3. revisions = deriveBaselineRevisions(baseline.decisions \cup merged.decisions)
    BY <1>2
<1> HIDE DEF revisions
<1> QED BY <1>1, <1>3 DEF Sessions, merged

(* An import that is not refused adds what is not a draft, and nothing is  *)
(* held twice.                                                             *)
LEMMA ImportKeepsCoherent ==
    ASSUME NEW s \in Sessions, Coherent(s), NEW file \in DecisionSets, ~Refuses(s, file)
    PROVE  LET t == previewDecisionImport(s, file)
           IN  /\ Held(t) = Held(s) \cup Foreign(s, file).decisions
               /\ HeldEdges(t) = HeldEdges(s) \cup file.manualEdges
               /\ Coherent(t)
<1> DEFINE t == previewDecisionImport(s, file)
           F == Foreign(s, file)
<1>0. t.drafts = s.drafts /\ t.imported = mergeDecisionSets(s.imported, F)
    BY PreviewIs
<1>1. /\ F.decisions = {d \in file.decisions : \A e \in draftDecisions(s) : Id(d) # Id(e)}
      /\ F.manualEdges = file.manualEdges
    BY DEF Foreign, DecisionSets
<1>2. /\ t.imported.decisions = s.imported.decisions \cup F.decisions
      /\ t.imported.manualEdges = s.imported.manualEdges \cup file.manualEdges
    BY <1>0, <1>1 DEF mergeDecisionSets
<1> HIDE DEF t, F
<1>3. /\ Held(t) = Held(s) \cup F.decisions
      /\ HeldEdges(t) = HeldEdges(s) \cup file.manualEdges
    BY <1>2 DEF Held, HeldEdges
<1>4. draftDecisions(t) = draftDecisions(s)
    BY <1>0 DEF draftDecisions
<1>5. \A d \in draftDecisions(t), e \in Held(t) : Id(d) # Id(e)
    BY <1>1, <1>3, <1>4 DEF Coherent
<1>6. ~Clash(decisionSet(s), file) /\ \A d \in file.decisions : ~Incompatible(d)
    BY DEF Refuses
<1>7. /\ Held(s) \subseteq decisionSet(s).decisions
      /\ HeldEdges(s) = decisionSet(s).manualEdges
    BY SetIsUnion
<1>8. Agree(Held(t), HeldEdges(t))
    <2>1. /\ Held(t) \subseteq decisionSet(s).decisions \cup file.decisions
          /\ HeldEdges(t) \subseteq decisionSet(s).manualEdges \cup file.manualEdges
        BY <1>1, <1>3, <1>7
    <2>2. \A d, e \in Held(t) : Id(d) = Id(e) => d = e
        BY <1>6, <2>1 DEF Clash
    <2>3. \A d, e \in HeldEdges(t) : d.id = e.id => d = e
        BY <1>6, <2>1 DEF Clash
    <2>4. \A d \in Held(t) : ~Incompatible(d)
        BY <1>1, <1>3, <1>6 DEF Coherent, Agree
    <2> QED BY <2>2, <2>3, <2>4 DEF Agree
<1>9. Coherent(t)
    BY <1>0, <1>5, <1>8 DEF Coherent
<1> QED BY <1>3, <1>9 DEF t, F

LEMMA FullInit == ASSUME SetsFit, SessionInit PROVE FullInv
<1>1. SessionInv
    BY SessionStarts DEF SetsFit
<1>2. /\ session.drafts = <<>> /\ session.imported = EmptySet
      /\ baseline \in Baselines /\ screen = "workspace"
    BY DEF SessionInit, createInitialReviewSession
<1>3. Held(session) = baseline.decisions /\ HeldEdges(session) = baseline.manualEdges
    BY <1>2 DEF Held, HeldEdges, EmptySet
<1>4. Agree(Held(session), HeldEdges(session))
    <2>1. ~Clash(baseline, EmptySet) /\ \A d \in baseline.decisions : ~Incompatible(d)
        BY <1>2 DEF SetsFit
    <2> QED BY <1>3, <2>1 DEF Agree, Clash, EmptySet
<1>5. ToSet(session.drafts) = {}
    BY <1>2 DEF ToSet
<1>6. Coherent(session)
    BY <1>4, <1>5 DEF Coherent, draftDecisions
<1>7. Small(session)
    BY <1>2 DEF Small, EmptySet, SetsFit, RevisionsAreLow
<1> QED BY <1>1, <1>2, <1>6, <1>7 DEF FullInv

(* The number of a draft is new, and so is its id.                         *)
LEMMA DraftKeepsCoherent ==
    ASSUME RevisionsAreLow, SessionInv, Coherent(session), NEW c \in DOMAIN Candidates,
           NEW action \in {"accept", "reject", "edit"},
           NEW mapping \in Mappings \cup {NoMapping}, Draft(c, action, mapping),
           action = "edit" => mapping \in Editable
    PROVE  Coherent(session)' /\ session'.imported = session.imported
<1> DEFINE next == getNextReviewRevision(session, c)
           draft == [candidate |-> c, revision |-> next,
                     action |-> action, mapping |-> mapping]
           drafts == session.drafts
           d == createReviewDecisionFromIntent(draft)
<1>1. /\ session' = [session EXCEPT !.drafts = Append(drafts, draft)]
      /\ Len(drafts) < MaxDrafts /\ UNCHANGED baseline
    BY DEF Draft
<1>2. c \in CandidateIds
    BY DecisionsAssumption
<1>3. next \in Nat \ {0} /\ session.revisions[c] < next
    BY <1>1, <1>2, NextRevision
<1>4. d.candidate = c /\ d.revision = next
    BY DEF createReviewDecisionFromIntent, Decision
<1>5. drafts \in Seq(Intents) /\ draft \in Intents
    BY <1>2, <1>3 DEF SessionInv, Sessions, Intents
<1>6. draft.candidate = c /\ draft.action = action /\ draft.mapping = mapping
    OBVIOUS
<1> HIDE DEF draft, next
<1>7. /\ session'.drafts = Append(drafts, draft) /\ session'.imported = session.imported
      /\ session' \in Sessions
    <2>1. Append(drafts, draft) \in Seq(Intents)
        BY <1>5
    <2>2. session \in Sessions
        BY DEF SessionInv
    <2> QED BY <1>1, <2>1, <2>2 DEF Sessions
<1>8. ToSet(session'.drafts) = ToSet(drafts) \cup {draft}
    BY <1>5, <1>7 DEF ToSet
<1>9. draftDecisions(session') = draftDecisions(session) \cup {d}
    BY <1>8 DEF draftDecisions
<1>10. d \in Decisions
    BY <1>7, <1>9, DraftIsItsId
<1>11. ASSUME NEW e \in Held(session) PROVE Id(d) # Id(e)
    <2>1. e \in Decisions
        BY HeldIsTyped DEF SessionInv
    <2>2. UpToLow(baseline.decisions \cup session.imported.decisions)
        BY SetsAreLow DEF SessionInv, RevisionsAreKnown, UpToLow
    <2>3. e.revision <= session.revisions[e.candidate]
        BY <2>2, BaselineRevisions DEF SessionInv, RevisionsAreKnown, Held
    <2>4. e.candidate = c => e.revision # next
        <3>1. session.revisions[c] \in Nat /\ e.revision \in Nat
            BY <1>2, <2>1 DEF SessionInv, Sessions, Decisions
        <3> QED BY <1>3, <2>3, <3>1
    <2> QED BY <1>4, <1>10, <2>1, <2>4, IdKeeps
<1>12. Coherent(session')
    <2>1. Held(session') = Held(session) /\ HeldEdges(session') = HeldEdges(session)
        BY <1>7 DEF Held, HeldEdges
    <2>2. \A i \in ToSet(session'.drafts) : /\ i.candidate \in DOMAIN Candidates
                                            /\ i.action = "edit" => i.mapping \in Editable
        BY <1>6, <1>8 DEF Coherent
    <2>3. \A x \in draftDecisions(session'), e \in Held(session') : Id(x) # Id(e)
        <3> HIDE DEF d
        <3> QED BY <1>9, <1>11, <2>1 DEF Coherent
    <2> QED BY <2>1, <2>2, <2>3 DEF Coherent
<1>13. Coherent(session)'
    BY <1>1, <1>12 DEF Coherent, Held, HeldEdges
<1> QED BY <1>7, <1>13

(* Less drafts, nothing else.                                              *)
LEMMA UndoKeepsCoherent ==
    ASSUME NEW s \in Sessions, Coherent(s), s.drafts # <<>>
    PROVE  LET t == [s EXCEPT !.drafts = Front(@)]
           IN  /\ t \in Sessions /\ t.imported = s.imported
               /\ t.drafts = Front(s.drafts) /\ Coherent(t)
<1> DEFINE t == [s EXCEPT !.drafts = Front(@)]
<1>1. s.drafts \in Seq(Intents)
    BY DEF Sessions
<1>2. /\ Front(s.drafts) \in Seq(Intents)
      /\ \A i \in DOMAIN Front(s.drafts) : i \in DOMAIN s.drafts
                                           /\ Front(s.drafts)[i] = s.drafts[i]
    BY <1>1 DEF Front
<1>3. t \in Sessions /\ t.imported = s.imported /\ t.drafts = Front(s.drafts)
    BY <1>2 DEF Sessions
<1>4. ToSet(t.drafts) \subseteq ToSet(s.drafts)
    BY <1>2, <1>3 DEF ToSet
<1> HIDE DEF t
<1>5. draftDecisions(t) \subseteq draftDecisions(s)
    BY <1>4 DEF draftDecisions
<1>6. Held(t) = Held(s) /\ HeldEdges(t) = HeldEdges(s)
    BY <1>3 DEF Held, HeldEdges
<1>7. Coherent(t)
    BY <1>4, <1>5, <1>6 DEF Coherent
<1> QED BY <1>3, <1>7 DEF t
-----------------------------------------------------------------------------
(* The blank session takes what was saved for an import, adds the drafts,  *)
(* and is the session that was saved.                                      *)
LEMMA DecodedIsTheSession ==
    ASSUME SessionInv
    PROVE  decoded(encodeStoredReview(session)) = session
<1> DEFINE blank == createInitialReviewSession
           restored == previewDecisionImport(blank, session.imported)
<1>1. session \in Sessions /\ session.imported \in DecisionSets
    BY DEF SessionInv, Sessions
<1>2. /\ blank.drafts = <<>> /\ blank.imported = EmptySet
      /\ blank.revisions = deriveBaselineRevisions(baseline.decisions)
      /\ DOMAIN blank = {"drafts", "imported", "revisions", "workflow"}
    BY DEF createInitialReviewSession
<1>3. draftDecisions(blank) = {}
    BY <1>2 DEF draftDecisions, ToSet
<1>4. Foreign(blank, session.imported) = session.imported
    <2>1. {d \in session.imported.decisions : \A e \in draftDecisions(blank) : Id(d) # Id(e)}
             = session.imported.decisions
        BY <1>3
    <2>2. [session.imported EXCEPT !.decisions = session.imported.decisions] = session.imported
        BY <1>1 DEF DecisionSets
    <2> HIDE DEF blank
    <2> QED BY <2>1, <2>2 DEF Foreign
<1>5. mergeDecisionSets(EmptySet, session.imported) = session.imported
    <2>1. MaxOf({0, session.imported.revision}) = session.imported.revision
        <3>1. session.imported.revision \in Nat
            BY <1>1 DEF DecisionSets
        <3> DEFINE r == session.imported.revision
        <3>2. MaxOf({0, r}) \in {0, r} /\ \A k \in {0, r} : k <= MaxOf({0, r})
            BY <3>1, MaxOfIsMax
        <3> QED BY <3>1, <3>2
    <2>2. mergeDecisionSets(EmptySet, session.imported) =
            [revision |-> session.imported.revision,
             decisions |-> session.imported.decisions,
             manualEdges |-> session.imported.manualEdges]
        BY <2>1 DEF mergeDecisionSets, EmptySet
    <2> QED BY <1>1, <2>2 DEF DecisionSets
<1>6. /\ restored.imported = session.imported
      /\ restored.revisions = session.revisions
      /\ DOMAIN restored = {"drafts", "imported", "revisions", "workflow"}
    <2>1. restored = [blank EXCEPT !.imported = session.imported,
                        !.revisions = deriveBaselineRevisions(
                            mergeDecisionSets(baseline, session.imported).decisions)]
        BY <1>2, <1>4, <1>5 DEF previewDecisionImport
    <2>2. mergeDecisionSets(baseline, session.imported).decisions =
             baseline.decisions \cup session.imported.decisions
        BY DEF mergeDecisionSets
    <2>3. session.revisions = deriveBaselineRevisions(
                mergeDecisionSets(baseline, session.imported).decisions)
        BY <2>2 DEF SessionInv, RevisionsAreKnown
    <2> HIDE DEF restored, blank
    <2> QED BY <1>2, <2>1, <2>3
<1>7. decoded(encodeStoredReview(session)) =
         [restored EXCEPT !.drafts = session.drafts, !.workflow = session.workflow]
    BY DEF decoded, encodeStoredReview
<1> HIDE DEF restored
<1>8. [restored EXCEPT !.drafts = session.drafts, !.workflow = session.workflow] =
         [drafts |-> session.drafts, imported |-> session.imported,
          revisions |-> session.revisions, workflow |-> session.workflow]
    <2> DEFINE r == [restored EXCEPT !.drafts = session.drafts, !.workflow = session.workflow]
    <2>1. /\ r.drafts = session.drafts /\ r.workflow = session.workflow
          /\ r.imported = session.imported /\ r.revisions = session.revisions
          /\ DOMAIN r = {"drafts", "imported", "revisions", "workflow"}
        BY <1>6
    <2>2. r = [k \in DOMAIN r |-> r[k]]
        OBVIOUS
    <2> HIDE DEF r
    <2>3. r = [k \in {"drafts", "imported", "revisions", "workflow"} |-> r[k]]
        BY <2>1, <2>2
    <2>4. [k \in {"drafts", "imported", "revisions", "workflow"} |-> r[k]] =
             [drafts |-> r.drafts, imported |-> r.imported,
              revisions |-> r.revisions, workflow |-> r.workflow]
        OBVIOUS
    <2> QED BY <2>1, <2>3, <2>4 DEF r
<1>9. session = [drafts |-> session.drafts, imported |-> session.imported,
                 revisions |-> session.revisions, workflow |-> session.workflow]
    BY <1>1 DEF Sessions
<1> QED BY <1>7, <1>8, <1>9

(* There are no more decisions of drafts than drafts.                      *)
LEMMA DraftsAreFew ==
    ASSUME SessionInv
    PROVE  /\ IsFiniteSet(draftDecisions(session))
           /\ Cardinality(draftDecisions(session)) <= MaxDrafts
           /\ \A d \in draftDecisions(session) : d.revision \in Nat /\ d.revision <= Low + MaxDrafts
<1> DEFINE n == Len(session.drafts)
           f == [i \in 1 .. n |-> createReviewDecisionFromIntent(session.drafts[i])]
           S == draftDecisions(session)
<1>1. /\ session.drafts \in Seq(Intents) /\ n \in Nat /\ n <= MaxDrafts
      /\ DOMAIN session.drafts = 1 .. n
    BY DEF SessionInv, Sessions
<1>2. S = {f[i] : i \in 1 .. n}
    BY <1>1 DEF draftDecisions, ToSet
<1>3. IsFiniteSet(1 .. n) /\ Cardinality(1 .. n) = n
    <2>1. 0 \in Int /\ 1 \in Int /\ n \in Int
        BY <1>1
    <2> HIDE DEF n
    <2> QED BY <1>1, <2>1, FS_Interval
<1>4. f \in Surjection(1 .. n, S)
    <2> HIDE DEF n, S
    <2> QED BY <1>2 DEF Surjection
<1>5. IsFiniteSet(S) /\ Cardinality(S) <= n
    <2> HIDE DEF f, S, n
    <2> QED BY <1>3, <1>4, FS_Surjection
<1>6. Cardinality(S) <= MaxDrafts
    <2>1. Cardinality(S) \in Nat /\ MaxDrafts \in Nat
        BY <1>5, FS_CardinalityType, SessionAssumption
    <2> HIDE DEF n, S
    <2> QED BY <1>1, <1>5, <2>1
<1>7. ASSUME NEW d \in S PROVE d.revision \in Nat /\ d.revision <= Low + MaxDrafts
    <2>1. PICK i \in 1 .. n : d = createReviewDecisionFromIntent(session.drafts[i])
        BY <1>2
    <2>2. d.revision = session.drafts[i].revision
        BY <2>1 DEF createReviewDecisionFromIntent, Decision
    <2>3. session.drafts[i] \in Intents
        BY <1>1
    <2>4. session.drafts[i].revision \in Nat
        BY <2>3 DEF Intents
    <2>5. session.drafts[i].revision <= Low + i
        BY <1>1 DEF SessionInv, RevisionsAreKnown
    <2>6. Low \in Int /\ MaxDrafts \in Nat
        BY SessionAssumption DEF Low
    <2> HIDE DEF n
    <2> QED BY <1>1, <2>2, <2>4, <2>5, <2>6
<1> QED BY <1>5, <1>6, <1>7

(* A session never refuses what it says itself, and neither does the blank *)
(* one: drafts have no id in common with anything else.                    *)
LEMMA OwnSetIsFine ==
    ASSUME NEW s \in Sessions, Coherent(s), SessionInv
    PROVE  /\ \A d \in decisionSet(s).decisions : ~Incompatible(d)
           /\ ~Clash(decisionSet(s), decisionSet(s))
           /\ ~Clash(baseline, decisionSet(s))
           /\ ~Clash(baseline, s.imported)
<1> DEFINE D == decisionSet(s).decisions
           E == decisionSet(s).manualEdges
<1>1. D = Held(s) \cup draftDecisions(s) /\ E = HeldEdges(s)
    BY SetIsUnion
<1>2. /\ baseline.decisions \subseteq D /\ s.imported.decisions \subseteq D
      /\ baseline.manualEdges \subseteq E /\ s.imported.manualEdges \subseteq E
    BY <1>1 DEF Held, HeldEdges
<1>3. \A d, e \in D : Id(d) = Id(e) => d = e
    <2> SUFFICES ASSUME NEW d \in D, NEW e \in D, Id(d) = Id(e) PROVE d = e
        OBVIOUS
    <2>1. CASE d \in Held(s) /\ e \in Held(s)
        BY <2>1 DEF Coherent, Agree
    <2>2. CASE d \in draftDecisions(s) /\ e \in draftDecisions(s)
        BY <2>2, DraftIsItsId
    <2>3. CASE d \in draftDecisions(s) /\ e \in Held(s)
        BY <2>3 DEF Coherent
    <2>4. CASE d \in Held(s) /\ e \in draftDecisions(s)
        BY <2>4 DEF Coherent
    <2> QED BY <1>1, <2>1, <2>2, <2>3, <2>4
<1>4. \A d, e \in E : d.id = e.id => d = e
    BY <1>1 DEF Coherent, Agree
<1>5. \A d \in D : ~Incompatible(d)
    <2> SUFFICES ASSUME NEW d \in D PROVE ~Incompatible(d)
        OBVIOUS
    <2>1. CASE d \in Held(s)
        BY <2>1 DEF Coherent, Agree
    <2>2. CASE d \in draftDecisions(s)
        <3>1. PICK i \in ToSet(s.drafts) : d = createReviewDecisionFromIntent(i)
            BY <2>2 DEF draftDecisions
        <3>2. d.action = i.action /\ d.mapping = i.mapping
            BY <3>1 DEF createReviewDecisionFromIntent, Decision
        <3> QED BY <3>2 DEF Coherent, Incompatible
    <2> QED BY <1>1, <2>1, <2>2
<1> HIDE DEF D, E
<1>6. ASSUME NEW a, NEW b, a.decisions \subseteq D, b.decisions \subseteq D,
             a.manualEdges \subseteq E, b.manualEdges \subseteq E
      PROVE  ~Clash(a, b)
    BY <1>3, <1>4, <1>6 DEF Clash
<1>7. ~Clash(decisionSet(s), decisionSet(s)) /\ ~Clash(baseline, decisionSet(s))
    BY <1>2, <1>6 DEF D, E
<1>8. ~Clash(baseline, s.imported)
    BY <1>2, <1>6
<1> QED BY <1>5, <1>7, <1>8 DEF D

(* The number of the whole is one of those it is made of.                  *)
LEMMA WholeIsTyped ==
    ASSUME SetsFit, FullInv
    PROVE  /\ decisionSet(session) \in DecisionSets
           /\ decisionSet(session).revision \in Nat
           /\ decisionSet(session).revision <= Low + MaxDrafts
<1> DEFINE N == {baseline.revision, session.imported.revision}
                \cup {d.revision : d \in draftDecisions(session)}
<1>1. /\ SessionInv /\ Coherent(session) /\ Small(session) /\ session \in Sessions
      /\ RevisionsAreLow /\ baseline \in Baselines /\ Low \in Nat /\ MaxDrafts \in Nat
    BY SessionAssumption DEF FullInv, SessionInv, SetsFit, RevisionsAreLow
<1>2. /\ baseline.revision \in Nat /\ session.imported.revision \in Nat
      /\ baseline.revision <= Low /\ session.imported.revision <= Low
    <2>1. baseline \in DecisionSets /\ baseline.revision <= Low
        BY <1>1, SetsAreLow DEF SetsFit
    <2> QED BY <1>1, <2>1 DEF Small, DecisionSets, Sessions
<1>3. \A d \in draftDecisions(session) :
         d.revision \in Nat /\ d.revision <= Low + MaxDrafts
    BY <1>1, DraftsAreFew
<1>4. N \subseteq Nat /\ N # {} /\ \A k \in N : k <= Low + MaxDrafts
    BY <1>1, <1>2, <1>3
<1>5. Low + MaxDrafts \in Nat
    BY <1>1
<1>6. decisionSet(session).revision = MaxOf(N)
    BY DEF decisionSet
<1> HIDE DEF N
<1>7. MaxOf(N) \in N
    BY <1>4, <1>5, MaxOfIsMax
<1>8. MaxOf(N) \in Nat /\ MaxOf(N) <= Low + MaxDrafts
    BY <1>4, <1>7
<1>9. /\ decisionSet(session).decisions \in SUBSET Decisions
      /\ decisionSet(session).manualEdges \in SUBSET ManualEdges
    <2>1. /\ decisionSet(session).decisions = Held(session) \cup draftDecisions(session)
          /\ decisionSet(session).manualEdges = HeldEdges(session)
        BY <1>1, SetIsUnion
    <2> QED BY <1>1, <2>1, HeldIsTyped, DraftIsItsId
<1>10. decisionSet(session) =
         [revision |-> decisionSet(session).revision,
          decisions |-> decisionSet(session).decisions,
          manualEdges |-> decisionSet(session).manualEdges]
    BY DEF decisionSet
<1>11. decisionSet(session) \in DecisionSets
    <2> DEFINE w == decisionSet(session)
    <2>1. w.revision \in Nat /\ w.decisions \in SUBSET Decisions
          /\ w.manualEdges \in SUBSET ManualEdges
        BY <1>6, <1>8, <1>9
    <2>2. w = [revision |-> w.revision, decisions |-> w.decisions,
               manualEdges |-> w.manualEdges]
        BY <1>10
    <2> HIDE DEF w
    <2>3. w \in DecisionSets
        BY <2>1, <2>2 DEF DecisionSets
    <2> QED BY <2>3 DEF w
<1> QED BY <1>6, <1>8, <1>11

(* What is saved fits, numbers and entries, and can be imported.           *)
LEMMA SavedDecodes ==
    ASSUME SetsFit, FullInv
    PROVE  Decodes(encodeStoredReview(session))
<1> DEFINE stored == encodeStoredReview(session)
           blank == createInitialReviewSession
           whole == decisionSet(session)
<1>1. /\ stored.drafts = session.drafts /\ stored.imported = session.imported
      /\ decoded(stored) = session
    BY DecodedIsTheSession DEF FullInv, encodeStoredReview
<1>2. /\ SessionInv /\ Coherent(session) /\ Small(session) /\ session \in Sessions
      /\ RevisionsAreLow /\ baseline \in Baselines
    BY DEF FullInv, SessionInv, SetsFit
<1>3. /\ Low \in Nat /\ MaxDrafts \in Nat /\ MaxFileEntries \in Nat
      /\ Low + MaxDrafts < MaxRevision
    BY <1>2, SessionAssumption DEF RevisionsAreLow, Low
<1>4. \A i \in ToSet(stored.drafts) :
         /\ i.revision <= MaxRevision /\ i.candidate \in DOMAIN Candidates
         /\ i.action = "edit" => i.mapping \in Editable
    <2> SUFFICES ASSUME NEW i \in ToSet(session.drafts) PROVE i.revision <= MaxRevision
        BY <1>1, <1>2 DEF Coherent
    <2>1. createReviewDecisionFromIntent(i) \in draftDecisions(session)
        BY DEF draftDecisions
    <2>2. i.revision \in Nat /\ i.revision <= Low + MaxDrafts
        BY <1>2, <2>1, DraftsAreFew DEF createReviewDecisionFromIntent, Decision
    <2> QED BY <1>3, <2>2, SessionAssumption
<1>5. /\ IsFiniteSet(AllDecisions) /\ IsFiniteSet(AllEdges)
      /\ Cardinality(AllDecisions) \in Nat /\ Cardinality(AllEdges) \in Nat
      /\ Cardinality(AllDecisions) + Cardinality(AllEdges) + MaxDrafts <= MaxFileEntries
    BY FS_CardinalityType DEF SetsFit
<1>6. Held(session) \subseteq AllDecisions /\ HeldEdges(session) \subseteq AllEdges
    BY <1>2 DEF Held, HeldEdges, Small, AllDecisions, AllEdges
<1>7. /\ session.imported \in DecisionSets /\ UpToLow(session.imported.decisions)
      /\ UpToLow(baseline.decisions) /\ baseline \in DecisionSets
      /\ baseline.revision <= Low
    BY <1>2, SetsAreLow DEF SessionInv, Sessions, RevisionsAreKnown, SetsFit
<1>8. Parses(stored.imported)
    <2>1. /\ session.imported.decisions \in SUBSET AllDecisions
          /\ session.imported.manualEdges \in SUBSET AllEdges
        BY <1>2 DEF Small
    <2>2. /\ Cardinality(session.imported.decisions) \in Nat
          /\ Cardinality(session.imported.decisions) <= Cardinality(AllDecisions)
          /\ Cardinality(session.imported.manualEdges) \in Nat
          /\ Cardinality(session.imported.manualEdges) <= Cardinality(AllEdges)
        BY <1>5, <2>1, FS_Subset, FS_CardinalityType
    <2>3. Cardinality(session.imported.decisions) + Cardinality(session.imported.manualEdges)
             <= MaxFileEntries
        BY <1>3, <1>5, <2>2
    <2>4. session.imported.revision \in Nat /\ session.imported.revision <= Low
        BY <1>2, <1>7 DEF Small, DecisionSets
    <2>5. \A d \in session.imported.decisions : d.revision \in Nat /\ d.revision <= Low
        BY <1>7 DEF UpToLow, Decisions
    <2>6. \A k \in {session.imported.revision}
                   \cup {d.revision : d \in session.imported.decisions} : k < MaxRevision
        BY <1>3, <2>4, <2>5, SessionAssumption
    <2> QED BY <1>1, <2>3, <2>6 DEF Parses
<1>9. /\ whole.decisions = Held(session) \cup draftDecisions(session)
      /\ whole.manualEdges = HeldEdges(session)
    BY <1>2, SetIsUnion
<1>10. Parses(whole)
    <2>1. Held(session) \in SUBSET AllDecisions /\ HeldEdges(session) \in SUBSET AllEdges
        BY <1>6
    <2>2. /\ IsFiniteSet(Held(session)) /\ Cardinality(Held(session)) \in Nat
          /\ Cardinality(Held(session)) <= Cardinality(AllDecisions)
          /\ Cardinality(HeldEdges(session)) \in Nat
          /\ Cardinality(HeldEdges(session)) <= Cardinality(AllEdges)
        BY <1>5, <2>1, FS_Subset, FS_CardinalityType
    <2>3. /\ IsFiniteSet(draftDecisions(session))
          /\ Cardinality(draftDecisions(session)) \in Nat
          /\ Cardinality(draftDecisions(session)) <= MaxDrafts
        BY <1>2, DraftsAreFew, FS_CardinalityType
    <2>4. /\ Cardinality(whole.decisions) \in Nat
          /\ Cardinality(whole.decisions) <= Cardinality(AllDecisions) + MaxDrafts
        <3> DEFINE H == Held(session)
                   R == draftDecisions(session)
        <3>1. /\ IsFiniteSet(H \cup R)
              /\ Cardinality(H \cup R) = Cardinality(H) + Cardinality(R) - Cardinality(H \cap R)
            <4> HIDE DEF H, R
            <4> QED BY <2>2, <2>3, FS_Union DEF H, R
        <3>2. Cardinality(H \cap R) \in Nat
            <4>1. (H \cap R) \in SUBSET H
                OBVIOUS
            <4> HIDE DEF H, R
            <4> QED BY <2>2, <4>1, FS_Subset, FS_CardinalityType DEF H
        <3>3. Cardinality(H \cup R) \in Nat
            <4> HIDE DEF H, R
            <4> QED BY <3>1, FS_CardinalityType
        <3> QED BY <1>3, <1>5, <1>9, <2>2, <2>3, <3>1, <3>2, <3>3
    <2>5. Cardinality(whole.decisions) + Cardinality(whole.manualEdges) <= MaxFileEntries
        BY <1>3, <1>5, <1>9, <2>2, <2>4
    <2>6. \A d \in whole.decisions : d.revision \in Nat /\ d.revision <= Low + MaxDrafts
        <3>1. \A d \in draftDecisions(session) :
                 d.revision \in Nat /\ d.revision <= Low + MaxDrafts
            BY <1>2, DraftsAreFew
        <3>2. \A d \in Held(session) : d.revision \in Nat /\ d.revision <= Low
            BY <1>7 DEF Held, UpToLow, Decisions
        <3> QED BY <1>3, <1>9, <3>1, <3>2
    <2>7. whole.revision \in Nat /\ whole.revision <= Low + MaxDrafts
        BY WholeIsTyped
    <2> HIDE DEF whole
    <2>8. \A k \in {whole.revision} \cup {d.revision : d \in whole.decisions} :
             k < MaxRevision
        BY <1>3, <2>6, <2>7, SessionAssumption
    <2> QED BY <2>5, <2>8 DEF Parses
<1>11. /\ decisionSet(blank).decisions = baseline.decisions
       /\ decisionSet(blank).manualEdges = baseline.manualEdges
    BY DEF createInitialReviewSession, decisionSet, EmptySet, draftDecisions, ToSet, uniqueById
<1>12. \A set : Clash(decisionSet(blank), set) <=> Clash(baseline, set)
    BY <1>11 DEF Clash
<1>13. ~Refuses(blank, stored.imported)
    <2>1. \A d \in session.imported.decisions : ~Incompatible(d)
        BY <1>2 DEF Coherent, Agree, Held
    <2>2. ~Clash(decisionSet(blank), session.imported)
        BY <1>2, <1>12, OwnSetIsFine
    <2> QED BY <1>1, <2>1, <2>2 DEF Refuses
<1>14. ~Refuses(blank, whole)
    <2>1. \A d \in whole.decisions : ~Incompatible(d)
        BY <1>2, OwnSetIsFine
    <2>2. ~Clash(decisionSet(blank), whole)
        BY <1>2, <1>12, OwnSetIsFine
    <2> QED BY <2>1, <2>2 DEF Refuses
<1> QED BY <1>1, <1>4, <1>8, <1>10, <1>13, <1>14 DEF Decodes
-----------------------------------------------------------------------------
LEMMA StaysCoherent ==
    ASSUME FullInv, UNCHANGED baseline, session'.drafts = session.drafts,
           session'.imported = session.imported
    PROVE  Coherent(session)' /\ Small(session)'
    BY DEF FullInv, Coherent, Small, Held, HeldEdges, draftDecisions

LEMMA ApplyIsCoherent ==
    ASSUME SetsFit, FullInv, ApplyImport
    PROVE  /\ Coherent(session') /\ Small(session')
           /\ session'.drafts = session.drafts
           /\ session'.imported =
                 mergeDecisionSets(session.imported, Foreign(session, chosen.file))
           /\ Held(session') = Held(session) \cup Foreign(session, chosen.file).decisions
           /\ HeldEdges(session') = HeldEdges(session) \cup chosen.file.manualEdges
           /\ session' \in Sessions /\ ~session'.workflow
<1> DEFINE t == previewDecisionImport(session, chosen.file)
           F == Foreign(session, chosen.file)
<1>1. /\ session' = [t EXCEPT !.workflow = FALSE]
      /\ screen = "dialog" /\ ~Refuses(session, chosen.file)
    BY DEF ApplyImport, FullInv
<1>2. /\ chosen.file \in DecisionSets /\ UpToLow(chosen.file.decisions)
      /\ chosen.file.decisions \subseteq AllDecisions
      /\ chosen.file.manualEdges \subseteq AllEdges
      /\ chosen.file.revision \in Nat /\ chosen.file.revision <= Low
    <2>1. chosen.file \in Files \cup {EmptySet} /\ RevisionsAreLow
        BY DEF FullInv, SessionInv, SetsFit
    <2>2. chosen.file \in DecisionSets /\ UpToLow(chosen.file.decisions)
        BY <2>1, SetsAreLow
    <2>3. CASE chosen.file \in Files
        BY <2>2, <2>3 DEF SetsFit, AllDecisions, AllEdges, DecisionSets
    <2>4. CASE chosen.file = EmptySet
        BY <2>1, <2>2, <2>4 DEF EmptySet, RevisionsAreLow
    <2> QED BY <2>1, <2>2, <2>3, <2>4
<1>3. session \in Sessions /\ RevisionsAreLow /\ Coherent(session)
    BY DEF FullInv, SessionInv, SetsFit
<1>4. t \in Sessions
    BY <1>2, <1>3, ImportedSession DEF FullInv, SessionInv, RevisionsAreKnown
<1>5. t.drafts = session.drafts /\ t.imported = mergeDecisionSets(session.imported, F)
    BY <1>3, PreviewIs
<1>6. /\ Held(t) = Held(session) \cup F.decisions
      /\ HeldEdges(t) = HeldEdges(session) \cup chosen.file.manualEdges
      /\ Coherent(t)
    BY <1>1, <1>2, <1>3, ImportKeepsCoherent
<1>7. /\ F.decisions \subseteq chosen.file.decisions
      /\ F.manualEdges = chosen.file.manualEdges /\ F.revision = chosen.file.revision
    BY <1>2 DEF Foreign, DecisionSets
<1> HIDE DEF t, F
<1>8. /\ session' \in Sessions /\ session'.drafts = t.drafts
      /\ session'.imported = t.imported /\ session'.workflow = FALSE
    BY <1>1, <1>4 DEF Sessions
<1>9. /\ Held(session') = Held(t) /\ HeldEdges(session') = HeldEdges(t)
      /\ draftDecisions(session') = draftDecisions(t)
    BY <1>8 DEF Held, HeldEdges, draftDecisions
<1>10. Coherent(session')
    BY <1>6, <1>8, <1>9 DEF Coherent
<1>11. Small(session')
    <2>1. /\ session'.imported.decisions = session.imported.decisions \cup F.decisions
          /\ session'.imported.manualEdges =
                session.imported.manualEdges \cup chosen.file.manualEdges
          /\ session'.imported.revision =
                MaxOf({session.imported.revision, chosen.file.revision})
        BY <1>5, <1>7, <1>8 DEF mergeDecisionSets
    <2>2. Small(session) /\ session.imported.revision \in Nat /\ Low \in Nat
        BY <1>3 DEF FullInv, Sessions, DecisionSets, RevisionsAreLow
    <2>3. MaxOf({session.imported.revision, chosen.file.revision}) <= Low
        <3> DEFINE N == {session.imported.revision, chosen.file.revision}
        <3>1. N \subseteq Nat /\ N # {} /\ \A k \in N : k <= Low
            BY <1>2, <2>2 DEF Small
        <3> HIDE DEF N
        <3>2. MaxOf(N) \in N
            BY <2>2, <3>1, MaxOfIsMax
        <3>3. MaxOf(N) <= Low
            BY <3>1, <3>2
        <3> QED BY <3>3 DEF N
    <2> QED BY <1>2, <1>7, <2>1, <2>2, <2>3 DEF Small
<1> QED BY <1>5, <1>6, <1>8, <1>9, <1>10, <1>11 DEF F

(* A reload gives back the session that was there.                         *)
LEMMA RestoreKeepsSession ==
    ASSUME SetsFit, FullInv, Restore
    PROVE  session' = session /\ screen' = "workspace" /\ UNCHANGED baseline
    BY SavedDecodes, DecodedIsTheSession DEF Restore, FullInv

LEMMA FullStep == ASSUME SetsFit, FullInv, [SessionNext]_sessionVars PROVE FullInv'
<1>1. SessionInv' /\ RevisionsAreLow
    BY SessionStep DEF FullInv, SetsFit
<1>2. ASSUME NEW c \in DOMAIN Candidates,
             acceptCandidate(c) \/ rejectCandidate(c) \/ editCandidate(c)
      PROVE  FullInv'
    <2>1. PICK action \in {"accept", "reject", "edit"} :
          \E mapping \in Mappings \cup {NoMapping} :
             Draft(c, action, mapping) /\ (action = "edit" => mapping \in Editable)
        BY <1>2, DecisionIsDraft
    <2>2. PICK mapping \in Mappings \cup {NoMapping} :
             Draft(c, action, mapping) /\ (action = "edit" => mapping \in Editable)
        BY <2>1
    <2>3. Coherent(session)' /\ session'.imported = session.imported
        BY <1>1, <2>2, DraftKeepsCoherent DEF FullInv
    <2>4. screen' # "dialog"
        BY <2>2 DEF Draft, Reviewing
    <2>5. Small(session)'
        BY <2>3 DEF FullInv, Small
    <2> QED BY <1>1, <2>3, <2>4, <2>5 DEF FullInv
<1>3. CASE undoLastDraft
    <2>1. /\ Coherent(session') /\ session'.imported = session.imported
          /\ UNCHANGED <<baseline, screen>> /\ screen # "dialog"
        BY <1>3, UndoKeepsCoherent DEF undoLastDraft, FullInv, SessionInv, Reviewing
    <2>2. Coherent(session)'
        BY <2>1 DEF Coherent, Held, HeldEdges
    <2>3. Small(session)'
        BY <2>1 DEF FullInv, Small
    <2> QED BY <1>1, <2>1, <2>2, <2>3 DEF FullInv
<1>4. CASE setWorkflowDraft
    <2>1. /\ session'.drafts = session.drafts /\ session'.imported = session.imported
          /\ UNCHANGED <<baseline, screen>> /\ screen # "dialog"
        BY <1>4 DEF setWorkflowDraft, FullInv, SessionInv, Sessions, Reviewing
    <2> QED BY <1>1, <2>1, StaysCoherent DEF FullInv
<1>5. CASE ChooseFile \/ CancelImport
    <2>1. UNCHANGED <<baseline, session>> /\ screen' # "dialog"
        BY <1>5 DEF ChooseFile, CancelImport
    <2> QED BY <1>1, <2>1, StaysCoherent DEF FullInv
<1>6. CASE FileRead
    <2>1. UNCHANGED <<baseline, session>>
        BY <1>6 DEF FileRead
    <2>2. screen' = "dialog" => chosen' = chosen /\ ~Refuses(session, chosen.file)
        BY <1>6 DEF FileRead
    <2>3. screen' = "dialog" => ~Refuses(session, chosen.file)'
        BY <2>1, <2>2 DEF Refuses, decisionSet
    <2> QED BY <1>1, <2>1, <2>3, StaysCoherent DEF FullInv
<1>7. CASE ApplyImport
    <2>1. /\ Coherent(session') /\ Small(session')
          /\ UNCHANGED baseline /\ screen' # "dialog"
        BY <1>7, ApplyIsCoherent DEF ApplyImport
    <2>2. Coherent(session)' /\ Small(session)'
        BY <2>1 DEF Coherent, Small, Held, HeldEdges
    <2> QED BY <1>1, <2>1, <2>2 DEF FullInv
<1>8. CASE Restore
    <2>1. session' = session /\ screen' # "dialog" /\ UNCHANGED baseline
        BY <1>8, RestoreKeepsSession
    <2> QED BY <1>1, <2>1, StaysCoherent DEF FullInv
<1>9. CASE UNCHANGED sessionVars
    <2>1. UNCHANGED <<baseline, session, screen, chosen>>
        BY <1>9 DEF sessionVars
    <2>2. screen' = "dialog" => ~Refuses(session, chosen.file)'
        BY <2>1 DEF FullInv, Refuses, decisionSet
    <2> QED BY <1>1, <2>1, <2>2, StaysCoherent DEF FullInv
<1> QED BY <1>2, <1>3, <1>4, <1>5, <1>6, <1>7, <1>8, <1>9 DEF SessionNext
-----------------------------------------------------------------------------
(* Of two sets that say the same of a candidate the same is active.        *)
LEMMA ActiveIsLocal ==
    ASSUME NEW D, D \subseteq Decisions, NEW E, E \subseteq Decisions, NEW c,
           {d \in D : d.candidate = c} = {d \in E : d.candidate = c}
    PROVE  {d \in Active(D) : d.candidate = c} \subseteq {d \in Active(E) : d.candidate = c}
<1> SUFFICES ASSUME NEW a \in Active(D), a.candidate = c PROVE a \in Active(E)
    OBVIOUS
<1>1. PICK d \in D : /\ a = decisionSemantics(d) /\ d \in Highest(D, d.candidate)
                     /\ Resolution(D, d.candidate) = "active"
    BY DEF Active
<1>2. d.candidate = c
    BY <1>1, IdKeeps
<1>3. Highest(D, c) = Highest(E, c)
    BY DEF Highest
<1>4. Resolution(D, c) = Resolution(E, c)
    BY <1>3 DEF Resolution
<1>5. d \in E
    BY <1>2
<1> QED BY <1>1, <1>2, <1>3, <1>4, <1>5 DEF Active

LEMMA SetIsTyped ==
    ASSUME SessionInv, NEW s \in Sessions, Coherent(s)
    PROVE  decisionSet(s).decisions \subseteq Decisions
    BY SetIsUnion, HeldIsTyped, DraftIsItsId

(* What an import leaves alone.                                            *)
LEMMA ApplyKeepsToItself ==
    ASSUME SetsFit, FullInv, ApplyImport,
           NEW c \in CandidateIds \ Named(chosen.file.decisions)
    PROVE  {d \in Active(decisionSet(session).decisions) : d.candidate = c} =
           {d \in Active(decisionSet(session').decisions) : d.candidate = c}
<1> DEFINE D == decisionSet(session).decisions
           E == decisionSet(session').decisions
           F == Foreign(session, chosen.file)
<1>1. /\ Coherent(session) /\ Coherent(session') /\ SessionInv
      /\ session \in Sessions /\ session' \in Sessions
      /\ Held(session') = Held(session) \cup F.decisions
      /\ session'.drafts = session.drafts
    BY ApplyIsCoherent DEF FullInv, SessionInv
<1>2. D \subseteq Decisions /\ E \subseteq Decisions
    BY <1>1, SetIsTyped
<1>3. \A d \in F.decisions : d.candidate # c
    <2>1. F.decisions \subseteq chosen.file.decisions
        <3>1. chosen.file \in DecisionSets
            BY SetsAreLow DEF FullInv, SessionInv, SetsFit
        <3> QED BY <3>1 DEF Foreign, DecisionSets
    <2> QED BY <2>1 DEF Named
<1>4. draftDecisions(session') = draftDecisions(session)
    BY <1>1 DEF draftDecisions
<1>5. E = D \cup F.decisions
    <2>1. D = Held(session) \cup draftDecisions(session)
          /\ E = Held(session') \cup draftDecisions(session')
        BY <1>1, SetIsUnion
    <2> QED BY <1>1, <1>4, <2>1
<1> HIDE DEF D, E, F
<1>6. {d \in D : d.candidate = c} = {d \in E : d.candidate = c}
    BY <1>3, <1>5
<1>7. /\ {d \in Active(D) : d.candidate = c} \subseteq {d \in Active(E) : d.candidate = c}
      /\ {d \in Active(E) : d.candidate = c} \subseteq {d \in Active(D) : d.candidate = c}
    BY <1>2, <1>6, ActiveIsLocal
<1> QED BY <1>7 DEF D, E

(* The file that was just imported changes nothing any more.               *)
LEMMA ApplyIsIdempotent ==
    ASSUME SetsFit, FullInv, ApplyImport
    PROVE  /\ ~Refuses(session', chosen.file)
           /\ previewDecisionImport(session', chosen.file) = session'
<1> DEFINE file == chosen.file
           F == Foreign(session, file)
           t == previewDecisionImport(session', file)
<1>1. /\ Coherent(session) /\ Coherent(session') /\ SessionInv
      /\ session \in Sessions /\ session' \in Sessions
      /\ session'.imported = mergeDecisionSets(session.imported, F)
      /\ Held(session') = Held(session) \cup F.decisions
      /\ HeldEdges(session') = HeldEdges(session) \cup file.manualEdges
      /\ session'.drafts = session.drafts
      /\ ~Refuses(session, file) /\ file \in DecisionSets
    BY ApplyIsCoherent, SetsAreLow DEF FullInv, SessionInv, SetsFit, ApplyImport
<1>2. draftDecisions(session') = draftDecisions(session)
    BY <1>1 DEF draftDecisions
<1>3. Foreign(session', file) = F
    BY <1>2 DEF Foreign
<1>4. F.decisions \subseteq file.decisions
    BY <1>1 DEF Foreign, DecisionSets
<1>5. /\ decisionSet(session').decisions \cup file.decisions =
            decisionSet(session).decisions \cup file.decisions
      /\ decisionSet(session').manualEdges \cup file.manualEdges =
            decisionSet(session).manualEdges \cup file.manualEdges
    <2>1. /\ decisionSet(session).decisions = Held(session) \cup draftDecisions(session)
          /\ decisionSet(session').decisions = Held(session') \cup draftDecisions(session')
          /\ decisionSet(session).manualEdges = HeldEdges(session)
          /\ decisionSet(session').manualEdges = HeldEdges(session')
        BY <1>1, SetIsUnion
    <2> HIDE DEF F
    <2> QED BY <1>1, <1>2, <1>4, <2>1
<1>6. ~Refuses(session', file)
    BY <1>1, <1>5 DEF Refuses, Clash
<1>7. mergeDecisionSets(session'.imported, F) = session'.imported
    <2> DEFINE a == session.imported.revision
               b == F.revision
               m == MaxOf({a, b})
    <2>1. a \in Nat /\ b \in Nat
        BY <1>1 DEF Sessions, DecisionSets, Foreign
    <2>2. m \in {a, b} /\ a <= m /\ b <= m
        <3>1. \A k \in {a, b} : k <= a + b
            BY <2>1
        <3>2. a + b \in Nat /\ {a, b} \subseteq Nat
            BY <2>1
        <3> HIDE DEF a, b
        <3> QED BY <3>1, <3>2, MaxOfIsMax
    <2>3. MaxOf({m, b}) = m
        <3>1. m \in Nat /\ m + b \in Nat
            BY <2>1, <2>2
        <3> HIDE DEF m, a, b
        <3>2. \A k \in {m, b} : k <= m + b
            BY <2>1, <2>2, <3>1
        <3>3. MaxOf({m, b}) \in {m, b} /\ \A k \in {m, b} : k <= MaxOf({m, b})
            BY <2>1, <3>1, <3>2, MaxOfIsMax
        <3> QED BY <2>1, <2>2, <3>1, <3>3
    <2>4. /\ session'.imported.revision = m
          /\ session'.imported.decisions = session.imported.decisions \cup F.decisions
          /\ session'.imported.manualEdges = session.imported.manualEdges \cup F.manualEdges
        BY <1>1 DEF mergeDecisionSets
    <2> HIDE DEF m, a, F
    <2>5. mergeDecisionSets(session'.imported, F) =
             [revision |-> session'.imported.revision,
              decisions |-> session'.imported.decisions,
              manualEdges |-> session'.imported.manualEdges]
        BY <2>3, <2>4 DEF mergeDecisionSets
    <2> QED BY <1>1, <2>5 DEF Sessions, DecisionSets
<1>8. /\ t.imported = session'.imported /\ t.drafts = session'.drafts
      /\ t.workflow = session'.workflow
      /\ t.revisions = deriveBaselineRevisions(
                          baseline.decisions \cup session'.imported.decisions)
    <2> HIDE DEF F
    <2> QED BY <1>1, <1>3, <1>7, PreviewIs
<1>9. session'.revisions = deriveBaselineRevisions(
                               baseline.decisions \cup session'.imported.decisions)
    <2>1. SessionInv' /\ UNCHANGED baseline
        BY ApplyStep DEF FullInv, SetsFit, ApplyImport
    <2> QED BY <2>1 DEF SessionInv, RevisionsAreKnown
<1>10. t \in Sessions
    <2>1. /\ UpToLow(file.decisions) /\ UpToLow(session'.imported.decisions)
          /\ baseline \in Baselines /\ RevisionsAreLow
        <3>1. SessionInv'
            BY ApplyStep DEF FullInv, SetsFit
        <3> QED BY <3>1, SetsAreLow DEF FullInv, SessionInv, SetsFit, RevisionsAreKnown
    <2> QED BY <1>1, <2>1, ImportedSession
<1> HIDE DEF t
<1>11. t = session'
    BY <1>1, <1>8, <1>9, <1>10 DEF Sessions
<1> QED BY <1>6, <1>11 DEF t

(* One's own export brings nothing that undo would not take back.          *)
LEMMA OwnExportKeepsUndo == ASSUME SetsFit, FullInv PROVE ReimportKeepsUndo
<1> SUFFICES ASSUME session.drafts # <<>> PROVE ReimportKeepsUndo
    BY DEF ReimportKeepsUndo
<1> DEFINE whole == decisionSet(session)
           F == Foreign(session, whole)
           again == previewDecisionImport(session, whole)
           plain == [session EXCEPT !.drafts = Front(@)]
           undone == [again EXCEPT !.drafts = Front(@)]
<1>1. /\ SessionInv /\ Coherent(session) /\ Small(session) /\ session \in Sessions
      /\ RevisionsAreLow /\ baseline \in Baselines
    BY DEF FullInv, SessionInv, SetsFit
<1>2. whole \in DecisionSets /\ ~Refuses(session, whole)
    BY <1>1, WholeIsTyped, OwnSetIsFine DEF Refuses
<1>3. F.decisions = Held(session) /\ F \in DecisionSets
    <2>1. whole.decisions = Held(session) \cup draftDecisions(session)
        BY <1>1, SetIsUnion
    <2>2. F.decisions =
             {d \in whole.decisions : \A e \in draftDecisions(session) : Id(d) # Id(e)}
        BY <1>2 DEF Foreign, DecisionSets
    <2>3. F \in DecisionSets
        BY <1>2 DEF Foreign, DecisionSets
    <2> HIDE DEF F, whole
    <2> QED BY <1>1, <2>1, <2>2, <2>3 DEF Coherent
<1>4. /\ again.drafts = session.drafts
      /\ again.imported = mergeDecisionSets(session.imported, F)
      /\ Held(again) = Held(session) /\ Coherent(again)
    <2>1. Held(again) = Held(session) \cup F.decisions /\ Coherent(again)
        BY <1>1, <1>2, ImportKeepsCoherent
    <2>2. /\ again.drafts = session.drafts
          /\ again.imported = mergeDecisionSets(session.imported, F)
        BY <1>1, PreviewIs
    <2> HIDE DEF again, F
    <2> QED BY <1>3, <2>1, <2>2
<1>5. again \in Sessions
    <2> DEFINE merged == mergeDecisionSets(session.imported, F)
               revisions == deriveBaselineRevisions(
                                mergeDecisionSets(baseline, merged).decisions)
    <2>1. merged \in DecisionSets
        <3>1. session.imported.revision \in Nat /\ F.revision \in Nat
            <4> HIDE DEF F
            <4> QED BY <1>1, <1>3 DEF Sessions, DecisionSets
        <3> HIDE DEF F
        <3>2. MaxOf({session.imported.revision, F.revision}) \in Nat
            <4> DEFINE N == {session.imported.revision, F.revision}
                       b == session.imported.revision + F.revision
            <4>1. N \subseteq Nat /\ N # {} /\ b \in Nat /\ \A k \in N : k <= b
                BY <3>1
            <4> HIDE DEF N, b
            <4>2. MaxOf(N) \in N
                BY <4>1, MaxOfIsMax
            <4>3. MaxOf(N) \in Nat
                BY <4>1, <4>2
            <4> QED BY <4>3 DEF N
        <3> QED BY <1>1, <1>3, <3>2 DEF Sessions, DecisionSets, mergeDecisionSets
    <2>2. mergeDecisionSets(baseline, merged).decisions = Held(session)
        <3> HIDE DEF F
        <3> QED BY <1>3 DEF mergeDecisionSets, Held
    <2>3. UpToLow(Held(session))
        BY <1>1, SetsAreLow DEF SessionInv, RevisionsAreKnown, Held, UpToLow
    <2>4. revisions \in [CandidateIds -> Nat]
        <3> HIDE DEF merged
        <3> QED BY <1>1, <2>2, <2>3, BaselineRevisions
    <2>5. again = [session EXCEPT !.imported = merged, !.revisions = revisions]
        BY DEF previewDecisionImport
    <2> HIDE DEF merged, revisions, again
    <2> QED BY <1>1, <2>1, <2>4, <2>5 DEF Sessions
<1> HIDE DEF again
<1>6. /\ undone.imported = again.imported /\ undone.drafts = Front(session.drafts)
      /\ Coherent(undone)
    BY <1>4, <1>5, UndoKeepsCoherent
<1>7. /\ plain.imported = session.imported /\ plain.drafts = Front(session.drafts)
      /\ Coherent(plain)
    BY <1>1, UndoKeepsCoherent
<1> HIDE DEF undone, plain
<1>8. decisionSet(undone).decisions = decisionSet(plain).decisions
    <2>1. /\ decisionSet(undone).decisions = Held(undone) \cup draftDecisions(undone)
          /\ decisionSet(plain).decisions = Held(plain) \cup draftDecisions(plain)
        BY <1>6, <1>7, SetIsUnion
    <2>2. Held(undone) = Held(again) /\ Held(plain) = Held(session)
        BY <1>6, <1>7 DEF Held
    <2>3. draftDecisions(undone) = draftDecisions(plain)
        BY <1>6, <1>7 DEF draftDecisions
    <2> QED BY <1>4, <2>1, <2>2, <2>3
<1> QED BY <1>8 DEF ReimportKeepsUndo, undone, plain, again
-----------------------------------------------------------------------------
(* Nothing a session holds contradicts anything else it holds, and what    *)
(* the dialog shows is not refused.                                        *)
THEOREM FullInvariant == ASSUME SetsFit PROVE SessionSpec => []FullInv
<1>1. SessionInit => FullInv
    BY FullInit
<1>2. FullInv /\ [SessionNext]_sessionVars => FullInv'
    BY FullStep
<1> QED BY <1>1, <1>2, PTL DEF SessionSpec

(* Every session that can come about is restored from what is saved of it, *)
(* whatever was imported into it and undone in it.                         *)
THEOREM SavedAlwaysRestores == ASSUME SetsFit PROVE SessionSpec => []SavedSessionRestores
<1>1. FullInv => SavedSessionRestores
    BY SavedDecodes, DecodedIsTheSession DEF SavedSessionRestores, FullInv
<1> QED BY <1>1, FullInvariant, PTL

(* What leaves the dialog is an import, or changes nothing.                *)
LEMMA DialogEnds ==
    ASSUME SetsFit, FullInv, [SessionNext]_sessionVars, screen = "dialog"
    PROVE  ApplyImport \/ session' = session
<1>1. ~Reviewing
    BY DEF Reviewing
<1>2. Restore => session' = session
    BY RestoreKeepsSession
<1> QED BY <1>1, <1>2 DEF SessionNext, acceptCandidate, rejectCandidate, editCandidate, Draft,
           undoLastDraft, setWorkflowDraft, ChooseFile, FileRead, CancelImport, sessionVars

(* Imports add up: once more is as good as once, what a file does not name *)
(* stays as it was, and one's own export does not outlive an undo.         *)
THEOREM ImportsAlwaysAddUp == ASSUME SetsFit PROVE SessionSpec => ImportsAddUp
<1>1. FullInv /\ [SessionNext]_sessionVars =>
        [screen = "dialog" /\ screen' = "workspace" /\ session' # session =>
          /\ ~Refuses(session', chosen.file)
          /\ previewDecisionImport(session', chosen.file) = session']_sessionVars
    BY DialogEnds, ApplyIsIdempotent
<1>2. FullInv /\ [SessionNext]_sessionVars =>
        [screen = "dialog" =>
          \A c \in CandidateIds \ Named(chosen.file.decisions) :
             {d \in Active(decisionSet(session).decisions) : d.candidate = c} =
             {d \in Active(decisionSet(session').decisions) : d.candidate = c}]_sessionVars
    <2> SUFFICES ASSUME FullInv, [SessionNext]_sessionVars, screen = "dialog",
                        NEW c \in CandidateIds \ Named(chosen.file.decisions)
                 PROVE
             {d \in Active(decisionSet(session).decisions) : d.candidate = c} =
             {d \in Active(decisionSet(session').decisions) : d.candidate = c}
        OBVIOUS
    <2>1. CASE ApplyImport
        BY <2>1, ApplyKeepsToItself
    <2>2. CASE session' = session
        BY <2>2
    <2> QED BY <2>1, <2>2, DialogEnds
<1>3. FullInv => ReimportKeepsUndo
    BY OwnExportKeepsUndo
<1> QED BY <1>1, <1>2, <1>3, FullInvariant, PTL
    DEF SessionSpec, ImportsAddUp, ImportIsIdempotent, ImportKeepsToItself
-----------------------------------------------------------------------------
(* The graph is built by two folds, first over the manual edges and then   *)
(* over the active decisions.  What a graph under construction is:         *)
EndPoints == STRING \cup {Candidates[c].ends : c \in DOMAIN Candidates}
Carried == Mappings \cup {NoMapping} \cup {Candidates[c].mapping : c \in DOMAIN Candidates}
Outcomes == [decision : Decisions,
             state : {"rejected", "invalid", "already-present", "applied", "orphaned",
                      "stale", "superseded"}]
AddedEdges == [ends : EndPoints, mappings : SUBSET Carried,
               provenance : {"manual", "inferred"}, by : SUBSET Decisions]
Drawn == [keys : SUBSET (Declared \cup (EndPoints \X Carried)),
          edges : SUBSET AddedEdges, outcomes : SUBSET Outcomes]

FiniteSet(set) ==
    /\ set.decisions \subseteq Decisions /\ IsFiniteSet(set.decisions)
    /\ set.manualEdges \subseteq ManualEdges /\ IsFiniteSet(set.manualEdges)

LEMMA IdsAreDecisions ==
    ASSUME NEW d \in Decisions
    PROVE  Id(d) \in Decisions /\ decisionSemantics(d) \in Decisions
           /\ Id(decisionSemantics(d)) = Id(d)
<1>1. PICK c \in CandidateIds, p \in {"current", "old"}, r \in Nat \ {0},
           a \in {"accept", "reject", "edit"}, m \in Mappings \cup {NoMapping},
           al \in {"-", "alias"}, da \in {"-", "date"} :
        d = [candidate |-> c, print |-> p, revision |-> r, action |-> a,
             mapping |-> m, aliases |-> al, decidedAt |-> da]
    BY DEF Decisions
<1>2. Id(d) = [candidate |-> c, print |-> p, revision |-> r, action |-> a,
               mapping |-> m, aliases |-> "-", decidedAt |-> "-"]
    <2> DEFINE plain == [candidate |-> c, print |-> p, revision |-> r, action |-> a,
                         mapping |-> m, aliases |-> "-", decidedAt |-> da]
    <2>1. [d EXCEPT !.aliases = "-"] = plain
        BY <1>1
    <2>2. [[d EXCEPT !.aliases = "-"] EXCEPT !.decidedAt = "-"] =
            [plain EXCEPT !.decidedAt = "-"]
        BY <2>1
    <2> QED BY <2>2 DEF Id
<1>3. decisionSemantics(d) = [candidate |-> c, print |-> p, revision |-> r, action |-> a,
                              mapping |-> m, aliases |-> al, decidedAt |-> "-"]
    BY <1>1 DEF decisionSemantics
<1>4. Id(decisionSemantics(d)) = [candidate |-> c, print |-> p, revision |-> r, action |-> a,
                                  mapping |-> m, aliases |-> "-", decidedAt |-> "-"]
    <2> DEFINE plain == [candidate |-> c, print |-> p, revision |-> r, action |-> a,
                         mapping |-> m, aliases |-> "-", decidedAt |-> "-"]
    <2>1. [decisionSemantics(d) EXCEPT !.aliases = "-"] = plain
        BY <1>3
    <2>2. [[decisionSemantics(d) EXCEPT !.aliases = "-"] EXCEPT !.decidedAt = "-"] =
            [plain EXCEPT !.decidedAt = "-"]
        BY <2>1
    <2> QED BY <2>2 DEF Id
<1> QED BY <1>1, <1>2, <1>3, <1>4 DEF Decisions

(* An active decision is about the candidate as it is now, and all that    *)
(* are as high mean the same.                                              *)
LEMMA ActiveIs ==
    ASSUME NEW D, D \subseteq Decisions, IsFiniteSet(D), NEW a \in Active(D)
    PROVE  /\ a \in Decisions /\ a.candidate \in DOMAIN Candidates /\ a.print = "current"
           /\ \A x \in D : x.candidate = a.candidate =>
                 x.revision < a.revision \/ decisionSemantics(x) = a
           /\ \E e \in D : /\ a = decisionSemantics(e) /\ e \in Highest(D, e.candidate)
                           /\ Resolution(D, e.candidate) = "active"
<1>1. PICK e \in D : /\ a = decisionSemantics(e) /\ e \in Highest(D, e.candidate)
                     /\ Resolution(D, e.candidate) = "active"
    BY DEF Active
<1> DEFINE H == Highest(D, e.candidate)
           M == {decisionSemantics(d) : d \in H}
<1>2. a \in Decisions /\ a.candidate = e.candidate /\ a.revision = e.revision
      /\ a.print = e.print
    BY <1>1, IdsAreDecisions DEF decisionSemantics, Decisions
<1>3. ~(Cardinality(M) > 1) /\ e.candidate \in DOMAIN Candidates /\ e.print # "old"
    BY <1>1 DEF Resolution
<1>4. IsFiniteSet(M)
    <2>1. IsFiniteSet(H)
        BY FS_Subset DEF Highest
    <2> DEFINE f == [d \in H |-> decisionSemantics(d)]
    <2>2. M = {f[d] : d \in H}
        OBVIOUS
    <2> HIDE DEF H, M, f
    <2> QED BY <2>1, <2>2, ImageIsFinite
<1>5. \A x \in M : x = a
    <2>1. a \in M
        BY <1>1
    <2> QED BY <1>3, <1>4, <2>1, AtMostOne
<1>6. ASSUME NEW x \in D, x.candidate = a.candidate, ~(x.revision < a.revision)
      PROVE  decisionSemantics(x) = a
    <2>1. x.revision \in Nat /\ a.revision \in Nat
        BY <1>2 DEF Decisions
    <2>2. x \in H
        <3>1. ASSUME NEW y \in D, y.candidate = e.candidate PROVE y.revision <= x.revision
            <4>1. y.revision <= e.revision /\ y.revision \in Nat
                BY <1>1, <3>1 DEF Highest, Decisions
            <4> QED BY <1>2, <1>6, <2>1, <4>1
        <3> QED BY <1>2, <1>6, <3>1 DEF Highest
    <2> QED BY <1>5, <2>2
<1>7. a.print = "current"
    BY <1>2, <1>3 DEF Decisions
<1> QED BY <1>1, <1>2, <1>3, <1>6, <1>7

LEMMA ActiveIsFinite ==
    ASSUME NEW D, D \subseteq Decisions, IsFiniteSet(D)
    PROVE  IsFiniteSet(Active(D))
<1> DEFINE E == {e \in D : e \in Highest(D, e.candidate)
                           /\ Resolution(D, e.candidate) = "active"}
           f == [d \in E |-> decisionSemantics(d)]
<1>1. IsFiniteSet(E)
    BY FS_Subset
<1>2. IsFiniteSet({f[d] : d \in E})
    <2> HIDE DEF E, f
    <2> QED BY <1>1, ImageIsFinite
<1>3. Active(D) = {f[d] : d \in E}
    BY DEF Active
<1> QED BY <1>2, <1>3

LEMMA ResolvedOutcomes ==
    ASSUME NEW D, D \subseteq Decisions
    PROVE  resolveReviewDecisions(D) \subseteq Outcomes
<1>1. ASSUME NEW d \in D, d \in Highest(D, d.candidate) => Resolution(D, d.candidate) # "active"
      PROVE  Outcome(d, IF d \in Highest(D, d.candidate)
                        THEN Resolution(D, d.candidate) ELSE "superseded") \in Outcomes
    <2>1. Id(d) \in Decisions
        BY IdsAreDecisions
    <2>2. (IF d \in Highest(D, d.candidate) THEN Resolution(D, d.candidate) ELSE "superseded")
            \in {"invalid", "orphaned", "stale", "superseded"}
        BY <1>1 DEF Resolution
    <2> QED BY <2>1, <2>2 DEF Outcome, Outcomes
<1> QED BY <1>1 DEF resolveReviewDecisions

LEMMA NoEdgesYet ==
    ASSUME NEW D, D \subseteq Decisions
    PROVE  [keys |-> Declared, edges |-> {}, outcomes |-> resolveReviewDecisions(D)] \in Drawn
    BY ResolvedOutcomes DEF Drawn

LEMMA ManualEdgeIsDrawn ==
    ASSUME NEW e \in ManualEdges, NEW g \in Drawn
    PROVE  AddManualEdge(e, g) \in Drawn
<1> DEFINE new == {m \in e.mappings : <<e.ends, m>> \notin g.keys}
           edge == [ends |-> e.ends, mappings |-> new, provenance |-> "manual", by |-> {}]
           added == [g EXCEPT !.keys = @ \cup {<<e.ends, m>> : m \in new},
                              !.edges = @ \cup {edge}]
<1>1. e.ends \in EndPoints /\ new \subseteq Carried
    BY DEF ManualEdges, EndPoints, Carried
<1>2. edge \in AddedEdges
    <2> HIDE DEF new
    <2> QED BY <1>1 DEF AddedEdges
<1>3. added \in Drawn
    <2>1. added = [keys |-> g.keys \cup {<<e.ends, m>> : m \in new},
                   edges |-> g.edges \cup {edge}, outcomes |-> g.outcomes]
        <3> DEFINE more == {<<e.ends, m>> : m \in new}
        <3>1. g = [keys |-> g.keys, edges |-> g.edges, outcomes |-> g.outcomes]
            BY DEF Drawn
        <3>2. added = [g EXCEPT !.keys = @ \cup more, !.edges = @ \cup {edge}]
            OBVIOUS
        <3> HIDE DEF more, edge, added
        <3>3. added = [keys |-> g.keys \cup more, edges |-> g.edges \cup {edge},
                       outcomes |-> g.outcomes]
            BY <3>1, <3>2
        <3> QED BY <3>3 DEF more
    <2>2. {<<e.ends, m>> : m \in new} \subseteq EndPoints \X Carried
        <3> HIDE DEF new
        <3> QED BY <1>1
    <2> HIDE DEF new, edge, added
    <2> QED BY <1>2, <2>1, <2>2 DEF Drawn
<1>4. AddManualEdge(e, g) \in {g, added}
    BY DEF AddManualEdge
<1> QED BY <1>3, <1>4

LEMMA DecisionIsDrawn ==
    ASSUME NEW d \in Decisions, d.candidate \in DOMAIN Candidates, NEW g \in Drawn
    PROVE  AddDecision(d, g) \in Drawn
<1>1. Ends(d) \in EndPoints /\ MappingOf(d) \in Carried
    BY DEF Ends, MappingOf, EndPoints, Carried, Decisions
<1>2. acceptedEdge(d) \in AddedEdges
    BY <1>1 DEF acceptedEdge, AddedEdges
<1>3. Outcome(d, Verdict(g, d)) \in Outcomes
    <2>1. Verdict(g, d) \in {"rejected", "invalid", "already-present", "applied"}
        BY DEF Verdict
    <2> QED BY <2>1, IdsAreDecisions DEF Outcome, Outcomes
<1> QED BY <1>1, <1>2, <1>3 DEF AddDecision, Drawn

(* What holds of the declared graph and is kept by every manual edge holds *)
(* of the graph with the manual edges.                                     *)
LEMMA ManualEdgesKeep ==
    ASSUME NEW set, FiniteSet(set), NEW Good, Good \subseteq Drawn,
           [keys |-> Declared, edges |-> {},
            outcomes |-> resolveReviewDecisions(set.decisions)] \in Good,
           \A e \in set.manualEdges : \A g \in Good : AddManualEdge(e, g) \in Good
    PROVE  WithManualEdges(set) \in Good
<1> DEFINE S == set.manualEdges
           base == [keys |-> Declared, edges |-> {},
                    outcomes |-> resolveReviewDecisions(set.decisions)]
           rank == [e \in S |-> e.id]
           pick == [T \in (SUBSET S) \ {{}} |-> LastEdge(T)]
           step == [p \in S \X Drawn |-> AddManualEdge(p[1], p[2])]
           Folds(f) == f = [T \in SUBSET S |->
                              IF T = {} THEN base
                              ELSE AddManualEdge(LastEdge(T), f[T \ {LastEdge(T)}])]
<1>1. S \subseteq ManualEdges /\ IsFiniteSet(S) /\ base \in Good /\ base \in Drawn
    BY DEF FiniteSet
<1>2. ASSUME NEW T \in (SUBSET S) \ {{}} PROVE LastEdge(T) \in T
    <2>1. rank \in [S -> Int]
        BY <1>1 DEF ManualEdges
    <2>2. PICK e \in T : \A f \in T : rank[f] <= rank[e]
        <3> HIDE DEF rank
        <3> QED BY <1>1, <2>1, HighestRank
    <2>3. \A f \in T : f.id <= e.id
        BY <2>2
    <2> QED BY <2>3 DEF LastEdge
<1>3. step \in [S \X Drawn -> Drawn]
    BY <1>1, ManualEdgeIsDrawn
<1>4. PICK f \in [SUBSET S -> Drawn] :
           IsFold(f, S, base, pick, step)
    <2>1. Picks(pick, S)
        BY <1>2 DEF Picks
    <2> HIDE DEF step, pick, base, S, Folds, rank
    <2> QED BY <1>1, <1>3, <2>1, FoldExists
<1>5. Folds(f)
    <2>1. ASSUME NEW T \in (SUBSET S) \ {{}}
          PROVE  f[T] = AddManualEdge(LastEdge(T), f[T \ {LastEdge(T)}])
        <3>1. LastEdge(T) \in S /\ f[T \ {LastEdge(T)}] \in Drawn
            BY <1>2
        <3>2. f[T] = step[<<LastEdge(T), f[T \ {LastEdge(T)}]>>]
            BY <1>4 DEF IsFold
        <3> QED BY <3>1, <3>2
    <2> HIDE DEF base, S
    <2> QED BY <1>4, <2>1 DEF IsFold
<1> DEFINE iter == CHOOSE h : Folds(h)
<1>6. Folds(iter)
    <2> HIDE DEF Folds
    <2> QED BY <1>5
<1>7. WithManualEdges(set) = iter[S]
    BY DEF WithManualEdges, MapThenFoldSet
<1> DEFINE P == {T \in SUBSET S : iter[T] \in Good}
<1> HIDE DEF iter
<1>8. iter[{}] = base /\ {} \in P
    <2>1. iter[{}] = base
        BY <1>6
    <2> QED BY <1>1, <2>1
<1>9. ASSUME NEW T \in (SUBSET S) \ {{}} PROVE \E x \in T : T \ {x} \in P => T \in P
    <2>1. iter[T] = AddManualEdge(LastEdge(T), iter[T \ {LastEdge(T)}])
        BY <1>6
    <2>2. LastEdge(T) \in T /\ LastEdge(T) \in S
        BY <1>2
    <2> QED BY <2>1, <2>2
<1>10. S \in P
    <2> HIDE DEF P, S
    <2> QED BY <1>1, <1>8, <1>9, SetInduction
<1> QED BY <1>7, <1>10

(* The same of the active decisions, where what holds may speak of those   *)
(* that were added.                                                        *)
LEMMA DecisionsKeep ==
    ASSUME NEW set, FiniteSet(set), NEW Good, WithManualEdges(set) \in Drawn,
           <<{}, WithManualEdges(set)>> \in Good,
           \A T \in SUBSET Active(set.decisions) : \A d \in T : \A g \in Drawn :
              <<T \ {d}, g>> \in Good => <<T, AddDecision(d, g)>> \in Good
    PROVE  <<Active(set.decisions), materializeReviewedOperationGraph(set)>> \in Good
<1> DEFINE S == Active(set.decisions)
           base == WithManualEdges(set)
           rank == [d \in S |-> d.candidate]
           pick == [T \in (SUBSET S) \ {{}} |-> LastDecision(T)]
           step == [p \in S \X Drawn |-> AddDecision(p[1], p[2])]
           Folds(f) == f = [T \in SUBSET S |->
                              IF T = {} THEN base
                              ELSE AddDecision(LastDecision(T), f[T \ {LastDecision(T)}])]
<1>1. IsFiniteSet(S) /\ \A d \in S : d \in Decisions /\ d.candidate \in DOMAIN Candidates
    BY ActiveIs, ActiveIsFinite DEF FiniteSet
<1>0. ASSUME NEW d \in S PROVE d.candidate \in Int
    <2>1. d.candidate \in CandidateIds
        BY <1>1 DEF Decisions
    <2>2. \A n \in CandidateIds : n \in Int
        BY DecisionsAssumption
    <2> HIDE DEF S
    <2> QED BY <2>1, <2>2
<1>2. ASSUME NEW T \in (SUBSET S) \ {{}} PROVE LastDecision(T) \in T
    <2>1. rank \in [S -> Int]
        <3> HIDE DEF S
        <3> QED BY <1>0
    <2>2. PICK d \in T : \A e \in T : rank[e] <= rank[d]
        <3> HIDE DEF rank, S
        <3> QED BY <1>1, <2>1, HighestRank
    <2>3. \A e \in T : e.candidate <= d.candidate
        <3> HIDE DEF S
        <3> QED BY <2>2
    <2> QED BY <2>3 DEF LastDecision
<1>3. step \in [S \X Drawn -> Drawn]
    <2> HIDE DEF S
    <2> QED BY <1>1, DecisionIsDrawn
<1>4. PICK f \in [SUBSET S -> Drawn] :
           IsFold(f, S, base, pick, step)
    <2>1. Picks(pick, S)
        <3> HIDE DEF S
        <3> QED BY <1>2 DEF Picks
    <2>4. base \in Drawn
        OBVIOUS
    <2> HIDE DEF step, pick, base, S, Folds, rank
    <2> QED BY <1>1, <1>3, <2>1, <2>4, FoldExists
<1>5. Folds(f)
    <2>1. ASSUME NEW T \in (SUBSET S) \ {{}}
          PROVE  f[T] = AddDecision(LastDecision(T), f[T \ {LastDecision(T)}])
        <3> HIDE DEF S
        <3>1. LastDecision(T) \in S /\ f[T \ {LastDecision(T)}] \in Drawn
            BY <1>2
        <3>2. f[T] = step[<<LastDecision(T), f[T \ {LastDecision(T)}]>>]
            BY <1>4 DEF IsFold
        <3> QED BY <3>1, <3>2
    <2> HIDE DEF base, S
    <2> QED BY <1>4, <2>1 DEF IsFold
<1> DEFINE iter == CHOOSE h : Folds(h)
<1>6. Folds(iter)
    <2> HIDE DEF Folds
    <2> QED BY <1>5
<1>7. materializeReviewedOperationGraph(set) = iter[S]
    BY DEF materializeReviewedOperationGraph, MapThenFoldSet
<1> DEFINE P == {T \in SUBSET S : <<T, iter[T]>> \in Good /\ iter[T] \in Drawn}
<1> HIDE DEF iter
<1>8. {} \in P
    <2>1. iter[{}] = base
        <3> HIDE DEF S, base
        <3> QED BY <1>6
    <2> QED BY <2>1
<1>9. ASSUME NEW T \in (SUBSET S) \ {{}} PROVE \E x \in T : T \ {x} \in P => T \in P
    <2> HIDE DEF S
    <2>1. iter[T] = AddDecision(LastDecision(T), iter[T \ {LastDecision(T)}])
        BY <1>6
    <2>2. LastDecision(T) \in T /\ LastDecision(T) \in S
        BY <1>2
    <2>3. ASSUME T \ {LastDecision(T)} \in P PROVE T \in P
        <3>1. iter[T] \in Drawn
            BY <1>1, <2>1, <2>2, <2>3, DecisionIsDrawn
        <3>2. <<T, iter[T]>> \in Good
            BY <2>1, <2>2, <2>3 DEF S
        <3> QED BY <3>1, <3>2
    <2> QED BY <2>2, <2>3
<1>10. S \in P
    <2> HIDE DEF P, S
    <2> QED BY <1>1, <1>8, <1>9, SetInduction
<1> QED BY <1>7, <1>10

-----------------------------------------------------------------------------
(* What adding edges and decisions keeps: no mapping is drawn twice, what  *)
(* is drawn rests on active decisions that do not reject, and each of the  *)
(* decisions that were looked at has one outcome.                          *)
Links(e) == {<<e.ends, m>> : m \in e.mappings}

Apart(g) ==
    /\ Declared \subseteq g.keys
    /\ \A e \in g.edges :
          /\ Links(e) \subseteq g.keys /\ Links(e) \cap Declared = {}
          /\ \A f \in g.edges \ {e} : Links(e) \cap Links(f) = {}

DrawnFrom(g, D) ==
    \A e \in g.edges : \A d \in e.by : d \in Active(D) /\ d.action # "reject"

Told(outcomes, D, T) ==
    /\ resolveReviewDecisions(D) \subseteq outcomes
    /\ \A o \in outcomes :
          o \in resolveReviewDecisions(D) \/ \E d \in T : o.decision = Id(d)
    /\ \A d \in T : \E o \in outcomes : o.decision = Id(d)
    /\ \A o, p \in outcomes : o.decision = p.decision => o = p

Separate(D) == \A d, e \in D : Id(d) = Id(e) => d = e

LEMMA NewEdgeStaysApart ==
    ASSUME NEW g \in Drawn, Apart(g), NEW edge, Links(edge) \cap g.keys = {},
           NEW h \in Drawn, h.keys = g.keys \cup Links(edge), h.edges = g.edges \cup {edge}
    PROVE  Apart(h)
<1>1. Links(edge) \cap Declared = {}
    BY DEF Apart
<1>2. \A e \in g.edges : Links(e) \cap Links(edge) = {}
    BY DEF Apart
<1>3. \A e \in h.edges : Links(e) \subseteq h.keys /\ Links(e) \cap Declared = {}
    BY <1>1 DEF Apart
<1>4. ASSUME NEW e \in h.edges, NEW f \in h.edges \ {e} PROVE Links(e) \cap Links(f) = {}
    <2>1. CASE e \in g.edges /\ f \in g.edges
        BY <2>1 DEF Apart
    <2>2. CASE e = edge \/ f = edge
        BY <1>2, <2>2
    <2> QED BY <2>1, <2>2
<1> QED BY <1>3, <1>4 DEF Apart

LEMMA ManualEdgeKeeps ==
    ASSUME NEW e \in ManualEdges, NEW g \in Drawn, NEW D, Apart(g), DrawnFrom(g, D)
    PROVE  LET h == AddManualEdge(e, g)
           IN  Apart(h) /\ DrawnFrom(h, D) /\ h.outcomes = g.outcomes
<1> DEFINE new == {m \in e.mappings : <<e.ends, m>> \notin g.keys}
           edge == [ends |-> e.ends, mappings |-> new, provenance |-> "manual", by |-> {}]
           h == AddManualEdge(e, g)
<1>1. CASE h = g
    BY <1>1
<1>2. CASE h # g
    <2>1. h = [g EXCEPT !.keys = @ \cup {<<e.ends, m>> : m \in new}, !.edges = @ \cup {edge}]
        BY <1>2 DEF AddManualEdge
    <2>2. {<<e.ends, m>> : m \in new} = Links(edge)
        BY DEF Links
    <2>3. g = [keys |-> g.keys, edges |-> g.edges, outcomes |-> g.outcomes]
        BY DEF Drawn
    <2>4. Links(edge) \cap g.keys = {}
        BY DEF Links
    <2>5. h \in Drawn
        BY ManualEdgeIsDrawn
    <2>6. edge.by = {}
        OBVIOUS
    <2> HIDE DEF h, edge, new
    <2>7. h = [g EXCEPT !.keys = @ \cup Links(edge), !.edges = @ \cup {edge}]
        BY <2>1, <2>2
    <2>8. h.keys = g.keys \cup Links(edge) /\ h.edges = g.edges \cup {edge}
          /\ h.outcomes = g.outcomes
        BY <2>3, <2>7
    <2>9. Apart(h)
        BY <2>4, <2>5, <2>8, NewEdgeStaysApart
    <2>10. DrawnFrom(h, D)
        BY <2>6, <2>8 DEF DrawnFrom
    <2> QED BY <2>8, <2>9, <2>10 DEF h
<1> QED BY <1>1, <1>2

LEMMA DecisionKeeps ==
    ASSUME NEW D, NEW d \in Active(D), d \in Decisions, d.candidate \in DOMAIN Candidates,
           NEW g \in Drawn, Apart(g), DrawnFrom(g, D)
    PROVE  Apart(AddDecision(d, g)) /\ DrawnFrom(AddDecision(d, g), D)
<1> DEFINE h == AddDecision(d, g)
<1>1. h \in Drawn
    BY DecisionIsDrawn
<1>2. CASE Verdict(g, d) = "applied"
    <2>1. h.keys = g.keys \cup {<<Ends(d), MappingOf(d)>>} /\ h.edges = g.edges \cup {acceptedEdge(d)}
        BY <1>2 DEF AddDecision
    <2>2. Links(acceptedEdge(d)) = {<<Ends(d), MappingOf(d)>>} /\ acceptedEdge(d).by = {d}
        BY DEF Links, acceptedEdge
    <2>3. <<Ends(d), MappingOf(d)>> \notin g.keys /\ d.action # "reject"
        BY <1>2 DEF Verdict
    <2> HIDE DEF h
    <2>4. Apart(h)
        BY <1>1, <2>1, <2>2, <2>3, NewEdgeStaysApart
    <2>5. DrawnFrom(h, D)
        BY <2>1, <2>2, <2>3 DEF DrawnFrom
    <2> QED BY <2>4, <2>5 DEF h
<1>3. CASE Verdict(g, d) # "applied"
    <2>1. h.keys = g.keys /\ h.edges = g.edges
        BY <1>3 DEF AddDecision
    <2> HIDE DEF h
    <2>2. Apart(h) /\ DrawnFrom(h, D)
        BY <2>1 DEF Apart, DrawnFrom
    <2> QED BY <2>2 DEF h
<1> QED BY <1>2, <1>3

(* No two active decisions have one id, and no outcome was given before.   *)
LEMMA ActiveIsNew ==
    ASSUME NEW D, D \subseteq Decisions, IsFiniteSet(D), Separate(D), NEW a \in Active(D)
    PROVE  /\ \A o \in resolveReviewDecisions(D) : o.decision # Id(a)
           /\ \A b \in Active(D) : Id(a) = Id(b) => a = b
<1>1. PICK d \in D : /\ a = decisionSemantics(d) /\ d \in Highest(D, d.candidate)
                     /\ Resolution(D, d.candidate) = "active"
    BY ActiveIs
<1>2. Id(a) = Id(d)
    BY <1>1, IdsAreDecisions
<1>3. ASSUME NEW o \in resolveReviewDecisions(D), o.decision = Id(a) PROVE FALSE
    <2>1. PICK e \in D : /\ e \in Highest(D, e.candidate) => Resolution(D, e.candidate) # "active"
                         /\ o.decision = Id(e)
        BY DEF resolveReviewDecisions, Outcome
    <2>2. e = d
        BY <1>2, <1>3, <2>1 DEF Separate
    <2> QED BY <1>1, <2>1, <2>2
<1>4. ASSUME NEW b \in Active(D), Id(a) = Id(b) PROVE a = b
    <2>1. PICK e \in D : b = decisionSemantics(e)
        BY DEF Active
    <2>2. Id(b) = Id(e)
        BY <2>1, IdsAreDecisions
    <2>3. e = d
        BY <1>2, <1>4, <2>2 DEF Separate
    <2> QED BY <1>1, <2>1, <2>3
<1> QED BY <1>3, <1>4

LEMMA DecisionIsTold ==
    ASSUME NEW D, D \subseteq Decisions, IsFiniteSet(D), Separate(D),
           NEW T, T \subseteq Active(D), NEW d \in T, NEW g \in Drawn,
           Told(g.outcomes, D, T \ {d})
    PROVE  Told(AddDecision(d, g).outcomes, D, T)
<1> DEFINE new == Outcome(d, Verdict(g, d))
           after == AddDecision(d, g).outcomes
<1>1. after = g.outcomes \cup {new} /\ new.decision = Id(d)
    BY DEF AddDecision, Outcome
<1>2. \A o \in g.outcomes : o.decision # Id(d)
    <2>1. ASSUME NEW o \in g.outcomes, o.decision = Id(d) PROVE FALSE
        <3>1. CASE o \in resolveReviewDecisions(D)
            BY <2>1, <3>1, ActiveIsNew
        <3>2. CASE \E e \in T \ {d} : o.decision = Id(e)
            BY <2>1, <3>2, ActiveIsNew
        <3> QED BY <3>1, <3>2 DEF Told
    <2> QED BY <2>1
<1> HIDE DEF after, new
<1>3. resolveReviewDecisions(D) \subseteq after
    BY <1>1 DEF Told
<1>4. \A o \in after : o \in resolveReviewDecisions(D) \/ \E e \in T : o.decision = Id(e)
    BY <1>1 DEF Told
<1>5. \A e \in T : \E o \in after : o.decision = Id(e)
    BY <1>1 DEF Told
<1>6. \A o, p \in after : o.decision = p.decision => o = p
    BY <1>1, <1>2 DEF Told
<1> QED BY <1>3, <1>4, <1>5, <1>6 DEF Told, after

LEMMA NoneToldTwice ==
    ASSUME NEW D, D \subseteq Decisions, Separate(D)
    PROVE  Told(resolveReviewDecisions(D), D, {})
<1> DEFINE state(d) == IF d \in Highest(D, d.candidate)
                       THEN Resolution(D, d.candidate) ELSE "superseded"
<1>1. ASSUME NEW o \in resolveReviewDecisions(D) PROVE \E d \in D : o = Outcome(d, state(d))
    BY DEF resolveReviewDecisions
<1>2. ASSUME NEW o \in resolveReviewDecisions(D), NEW p \in resolveReviewDecisions(D),
             o.decision = p.decision
      PROVE  o = p
    <2>1. PICK d \in D : o = Outcome(d, state(d))
        BY <1>1
    <2>2. PICK e \in D : p = Outcome(e, state(e))
        BY <1>1
    <2>3. Id(d) = Id(e)
        BY <1>2, <2>1, <2>2 DEF Outcome
    <2>4. d = e
        BY <2>3 DEF Separate
    <2> QED BY <2>1, <2>2, <2>4
<1> QED BY <1>2 DEF Told

(* The reviewed graph as a whole.                                          *)
LEMMA GraphIsSound ==
    ASSUME NEW set, FiniteSet(set), Separate(set.decisions)
    PROVE  LET g == materializeReviewedOperationGraph(set)
           IN  /\ Apart(g) /\ DrawnFrom(g, set.decisions)
               /\ Told(g.outcomes, set.decisions, Active(set.decisions))
<1> DEFINE D == set.decisions
           base == [keys |-> Declared, edges |-> {}, outcomes |-> resolveReviewDecisions(D)]
           Listed == {g \in Drawn : /\ Apart(g) /\ DrawnFrom(g, D)
                                    /\ g.outcomes = resolveReviewDecisions(D)}
           Good == {p \in (SUBSET Active(D)) \X Drawn :
                       Apart(p[2]) /\ DrawnFrom(p[2], D) /\ Told(p[2].outcomes, D, p[1])}
<1>1. D \subseteq Decisions /\ IsFiniteSet(D) /\ set.manualEdges \subseteq ManualEdges
    BY DEF FiniteSet
<1>2. WithManualEdges(set) \in Listed
    <2>1. base \in Listed
        <3>1. base \in Drawn
            BY <1>1, NoEdgesYet
        <3>2. Apart(base) /\ DrawnFrom(base, D)
            BY DEF Apart, DrawnFrom
        <3> QED BY <3>1, <3>2
    <2>2. ASSUME NEW e \in set.manualEdges, NEW g \in Listed PROVE AddManualEdge(e, g) \in Listed
        <3>1. e \in ManualEdges /\ g \in Drawn /\ Apart(g) /\ DrawnFrom(g, D)
              /\ g.outcomes = resolveReviewDecisions(D)
            BY <1>1
        <3>2. AddManualEdge(e, g) \in Drawn
            BY <3>1, ManualEdgeIsDrawn
        <3> QED BY <3>1, <3>2, ManualEdgeKeeps
    <2>3. Listed \subseteq Drawn
        OBVIOUS
    <2> HIDE DEF Listed
    <2> QED BY <2>1, <2>2, <2>3, ManualEdgesKeep
<1>3. <<{}, WithManualEdges(set)>> \in Good /\ WithManualEdges(set) \in Drawn
    <2>1. Told(resolveReviewDecisions(D), D, {})
        BY <1>1, NoneToldTwice
    <2> QED BY <1>2, <2>1
<1>4. ASSUME NEW T \in SUBSET Active(D), NEW d \in T, NEW g \in Drawn, <<T \ {d}, g>> \in Good
      PROVE  <<T, AddDecision(d, g)>> \in Good
    <2>1. Apart(g) /\ DrawnFrom(g, D) /\ Told(g.outcomes, D, T \ {d})
        BY <1>4
    <2>2. d \in Active(D) /\ d \in Decisions /\ d.candidate \in DOMAIN Candidates
        BY <1>1, ActiveIs
    <2>3. AddDecision(d, g) \in Drawn
        BY <2>2, DecisionIsDrawn
    <2>4. Apart(AddDecision(d, g)) /\ DrawnFrom(AddDecision(d, g), D)
        BY <2>1, <2>2, DecisionKeeps
    <2>5. Told(AddDecision(d, g).outcomes, D, T)
        BY <1>1, <2>1, DecisionIsTold
    <2> QED BY <2>3, <2>4, <2>5
<1>5. <<Active(D), materializeReviewedOperationGraph(set)>> \in Good
    <2> HIDE DEF Good
    <2> QED BY <1>3, <1>4, DecisionsKeep
<1> QED BY <1>5

(* Each decision of the set has its outcome and no second one.             *)
LEMMA EachHasOneOutcome ==
    ASSUME NEW D, D \subseteq Decisions, IsFiniteSet(D), Separate(D), NEW outcomes,
           Told(outcomes, D, Active(D)), NEW d \in D
    PROVE  Cardinality({o \in outcomes : o.decision = Id(d)}) = 1
<1>1. PICK o \in outcomes : o.decision = Id(d)
    <2>1. CASE d \in Highest(D, d.candidate) /\ Resolution(D, d.candidate) = "active"
        <3>1. decisionSemantics(d) \in Active(D)
            BY <2>1 DEF Active
        <3>2. Id(decisionSemantics(d)) = Id(d)
            BY IdsAreDecisions
        <3> QED BY <3>1, <3>2 DEF Told
    <2>2. CASE ~(d \in Highest(D, d.candidate) /\ Resolution(D, d.candidate) = "active")
        <3>1. Outcome(d, IF d \in Highest(D, d.candidate)
                         THEN Resolution(D, d.candidate) ELSE "superseded")
                  \in resolveReviewDecisions(D)
            BY <2>2 DEF resolveReviewDecisions
        <3> QED BY <3>1 DEF Told, Outcome
    <2> QED BY <2>1, <2>2
<1>2. {p \in outcomes : p.decision = Id(d)} = {o}
    BY <1>1 DEF Told
<1> QED BY <1>2, FS_Singleton

(* The set of a session is finite, and no two decisions in it have one id. *)
LEMMA SessionSetIsSound ==
    ASSUME SetsFit, FullInv
    PROVE  FiniteSet(decisionSet(session)) /\ Separate(decisionSet(session).decisions)
<1> DEFINE s == session
           D == decisionSet(session).decisions
<1>1. /\ SessionInv /\ Coherent(session) /\ session \in Sessions /\ Small(session)
      /\ baseline \in Baselines
    BY DEF FullInv, SessionInv
<1>2. D = Held(session) \cup draftDecisions(session)
      /\ decisionSet(session).manualEdges = HeldEdges(session)
    BY <1>1, SetIsUnion
<1>3. D \subseteq Decisions /\ HeldEdges(session) \subseteq ManualEdges
    BY <1>1, SetIsTyped, HeldIsTyped
<1>4. IsFiniteSet(Held(session)) /\ IsFiniteSet(HeldEdges(session))
    <2>1. Held(session) \subseteq AllDecisions /\ HeldEdges(session) \subseteq AllEdges
        BY <1>1 DEF Held, HeldEdges, Small, AllDecisions, AllEdges
    <2> QED BY <2>1, FS_Subset DEF SetsFit
<1>5. IsFiniteSet(D)
    BY <1>1, <1>2, <1>4, DraftsAreFew, FS_Union
<1>6. ASSUME NEW d \in D, NEW e \in D, Id(d) = Id(e) PROVE d = e
    <2>1. CASE d \in Held(session) /\ e \in Held(session)
        BY <1>1, <1>6, <2>1 DEF Coherent, Agree
    <2>2. CASE d \in draftDecisions(session) /\ e \in draftDecisions(session)
        BY <1>1, <1>6, <2>2, DraftIsItsId
    <2>3. CASE d \in draftDecisions(session) /\ e \in Held(session)
        BY <1>1, <1>6, <2>3 DEF Coherent
    <2>4. CASE d \in Held(session) /\ e \in draftDecisions(session)
        BY <1>1, <1>6, <2>4 DEF Coherent
    <2> QED BY <1>2, <2>1, <2>2, <2>3, <2>4
<1> QED BY <1>2, <1>3, <1>4, <1>5, <1>6 DEF FiniteSet, Separate

LEMMA GraphFollows == ASSUME SetsFit, FullInv PROVE GraphFollowsDecisions
<1> DEFINE D == decisionSet(session).decisions
           g == Reviewed(session)
<1>1. FiniteSet(decisionSet(session)) /\ Separate(D) /\ D \subseteq Decisions /\ IsFiniteSet(D)
    BY SessionSetIsSound DEF FiniteSet
<1>2. Apart(g) /\ DrawnFrom(g, D) /\ Told(g.outcomes, D, Active(D))
    BY <1>1, GraphIsSound DEF Reviewed
<1> HIDE DEF g
<1>3. ASSUME NEW e \in g.edges, NEW d \in e.by
      PROVE  /\ d.action # "reject" /\ d.print = "current"
             /\ \A x \in D : x.candidate = d.candidate =>
                   x.revision < d.revision \/ decisionSemantics(x) = d
    <2>1. d \in Active(D) /\ d.action # "reject"
        BY <1>2 DEF DrawnFrom
    <2> QED BY <1>1, <2>1, ActiveIs
<1>4. EdgesAreJustified
    BY <1>3 DEF EdgesAreJustified, g
<1>5. OneEdgePerMapping
    BY <1>2 DEF OneEdgePerMapping, Apart, Links, g
<1>6. EveryDecisionAccounted
    BY <1>1, <1>2, EachHasOneOutcome DEF EveryDecisionAccounted, g
<1>7. SessionTyped
    BY SessionAssumption DEF FullInv, SessionInv, Sessions, SessionTyped
<1> QED BY <1>4, <1>5, <1>6, <1>7 DEF GraphFollowsDecisions

(* What the reviewed graph and its outcomes show is what was decided: no   *)
(* edge is without a decision or there twice, and every decision is told   *)
(* of once, after any number of drafts, imports, undos and reloads.        *)
THEOREM GraphAlwaysFollows == ASSUME SetsFit PROVE SessionSpec => []GraphFollowsDecisions
<1>1. FullInv => GraphFollowsDecisions
    BY GraphFollows
<1> QED BY <1>1, FullInvariant, PTL
====
