---- MODULE ReviewPersistence ----
(***************************************************************************)
(* The browser tabs that share one saved review session: the hook          *)
(* useReviewPersistence with its load and autosave effects, its queue of   *)
(* writes, "Clear saved data", "Enable autosave", "Reload saved data" and  *)
(* "Reset saved data" (apps/web/src/review/use-review-persistence.ts,      *)
(* review-transfer-controls.tsx), over the record of ReviewStorage.        *)
(*                                                                         *)
(* JavaScript runs one piece of code at a time in a tab; the points where  *)
(* a step ends are the awaits, the timer and the effects that React runs   *)
(* after a render.  An IndexedDB transaction is one step, and the tab      *)
(* learns of its outcome in a later one.                                   *)
(*                                                                         *)
(* The hook compares epoch.current with the epoch a write captured.  The   *)
(* epoch only grows, so the model keeps the answer instead of the number:  *)
(* a timer or a job is stale once the epoch has moved past it.             *)
(***************************************************************************)
EXTENDS ReviewStorage, Sequences

CONSTANTS
    Tabs,
    InitialRecords,  \* the records an earlier run can have left behind
    MaxActions       \* bound on what the users do, over all tabs

ASSUME PersistenceAssumption ==
    /\ InitialRecords \subseteq {r \in Records : WellFormed(r)}
    /\ MaxActions \in Nat

VARIABLES
    record,      \* the stored record
    open,        \* the tab shows the workspace
    ready,       \* hook state of the same name
    error,       \* hook state of the same name
    enabled,     \* hook state of the same name
    status,      \* the message, by what it says
    payload,     \* the session's encoding, latest.current
    saved,       \* saved.current
    generation,  \* generation.current
    effect,      \* the autosave effect is due: a dependency changed
    timer,       \* the debounce timer
    queue,       \* jobs chained on queue.current and not yet begun
    inflight,    \* the job that is writing
    task,        \* the load, clear or reset in progress
    acts         \* user actions so far

control == <<ready, error, enabled, status>>
known == <<payload, saved, generation>>
writes == <<timer, queue, inflight>>
vars == <<record, open, control, known, effect, writes, task, acts>>

Unsaved == "unsaved"   \* saved.current = '', which no payload equals

ASSUME UnsavedAssumption == Unsaved \notin Payloads

NoTimer == [set |-> FALSE, payload |-> Initial, stale |-> FALSE]
Timers == [set : BOOLEAN, payload : Payloads, stale : BOOLEAN]
Jobs == [payload : Payloads, stale : BOOLEAN]

NoWrite == [phase |-> "none", payload |-> Initial, expected |-> 0, next |-> 0]
Writes == [phase : {"none", "sent", "committed", "refused"},
           payload : Payloads, expected : Int, next : Int]
Committed(w, next) == [phase |-> "committed", payload |-> w.payload,
                       expected |-> w.expected, next |-> next]

NoTask == [kind |-> "none", phase |-> "none", observed |-> Absent, next |-> 0]
Begin(kind) == [kind |-> kind, phase |-> "wait", observed |-> Absent, next |-> 0]
Tasks == [kind : {"none", "load", "clear", "reset"},
          phase : {"none", "wait", "read", "committed"},
          observed : Records, next : Int]
Advance(k, phase, observed, next) ==
    [kind |-> k.kind, phase |-> phase, observed |-> observed, next |-> next]

Statuses == {"loading", "saved", "none", "saving", "disabled", "error"}

TypeOK ==
    /\ record \in Records
    /\ open \in [Tabs -> BOOLEAN]
    /\ ready \in [Tabs -> BOOLEAN]
    /\ error \in [Tabs -> BOOLEAN]
    /\ enabled \in [Tabs -> BOOLEAN]
    /\ status \in [Tabs -> Statuses]
    /\ payload \in [Tabs -> Payloads]
    /\ saved \in [Tabs -> Payloads \cup {Unsaved}]
    /\ generation \in [Tabs -> Int]
    /\ effect \in [Tabs -> BOOLEAN]
    /\ timer \in [Tabs -> Timers]
    /\ queue \in [Tabs -> Seq(Jobs)]
    /\ inflight \in [Tabs -> Writes]
    /\ task \in [Tabs -> Tasks]
    /\ acts \in Nat
-----------------------------------------------------------------------------
(* A mounted hook starts its load at once.                                 *)
Init ==
    /\ record \in InitialRecords
    /\ open = [t \in Tabs |-> TRUE]
    /\ ready = [t \in Tabs |-> FALSE]
    /\ error = [t \in Tabs |-> FALSE]
    /\ enabled = [t \in Tabs |-> TRUE]
    /\ status = [t \in Tabs |-> "loading"]
    /\ payload = [t \in Tabs |-> Initial]
    /\ saved = [t \in Tabs |-> Unsaved]
    /\ generation = [t \in Tabs |-> 0]
    /\ effect = [t \in Tabs |-> FALSE]
    /\ timer = [t \in Tabs |-> NoTimer]
    /\ queue = [t \in Tabs |-> <<>>]
    /\ inflight = [t \in Tabs |-> NoWrite]
    /\ task = [t \in Tabs |-> Begin("load")]
    /\ acts = 0

UserActs == acts < MaxActions /\ acts' = acts + 1

(* The children are inert while the hook is not ready; busy disables the   *)
(* transfer buttons while a task runs.                                     *)
Usable(t) == open[t] /\ ready[t]
Idle(t) == Usable(t) /\ task[t].kind = "none"

AutosaveOn(t) == ready[t] /\ ~error[t] /\ enabled[t]

(* Mutant: pendingWrites is decremented when the write begins.             *)
PendingWritesUncounted(t) == Len(queue[t])

PendingWrites(t) ==
    Len(queue[t]) + (IF inflight[t].phase = "none" THEN 0 ELSE 1)

(* ++epoch.current: what has captured the old epoch will be skipped.       *)
Stale(jobs) == [i \in DOMAIN jobs |-> [jobs[i] EXCEPT !.stale = TRUE]]

(* Mutant: only the debounce timer is given up.                            *)
BumpEpochTimerOnly(t) ==
    /\ timer' = [timer EXCEPT ![t].stale = TRUE]
    /\ UNCHANGED queue

BumpEpoch(t) ==
    /\ timer' = [timer EXCEPT ![t].stale = TRUE]
    /\ queue' = [queue EXCEPT ![t] = Stale(queue[t])]
-----------------------------------------------------------------------------
(* Mutant: the end of a write does not run the autosave effect again.      *)
SettleQuietly(t) == UNCHANGED effect

(* finally: the write revision makes the autosave effect due.              *)
Settle(t) == effect' = [effect EXCEPT ![t] = TRUE]

(* The user changes the session: a decision, an undo, an import, a draft.  *)
Edit(t) ==
    /\ UserActs
    /\ Usable(t)
    /\ \E p \in Payloads \ {payload[t]} : payload' = [payload EXCEPT ![t] = p]
    /\ effect' = [effect EXCEPT ![t] = TRUE]
    /\ UNCHANGED <<record, open, control, saved, generation, writes, task>>

(* The autosave effect: its cleanup clears the timer of the last run.      *)
AutosaveEffect(t) ==
    /\ open[t] /\ effect[t]
    /\ effect' = [effect EXCEPT ![t] = FALSE]
    /\ \/ /\ ~AutosaveOn(t)
          /\ timer' = [timer EXCEPT ![t] = NoTimer]
          /\ UNCHANGED status
       \/ /\ AutosaveOn(t) /\ payload[t] = saved[t]
          /\ timer' = [timer EXCEPT ![t] = NoTimer]
          /\ IF PendingWrites(t) = 0
             THEN status' = [status EXCEPT ![t] =
                                IF generation[t] # 0 THEN "saved" ELSE "none"]
             ELSE UNCHANGED status
       \/ /\ AutosaveOn(t) /\ payload[t] # saved[t]
          /\ timer' = [timer EXCEPT ![t] =
                          [set |-> TRUE, payload |-> payload[t], stale |-> FALSE]]
          /\ status' = [status EXCEPT ![t] = "saving"]
    /\ UNCHANGED <<record, open, ready, error, enabled, known, queue, inflight,
                   task, acts>>

(* 100 ms later the write joins the queue; it reads the epoch when it runs.*)
TimerFires(t) ==
    /\ open[t] /\ timer[t].set
    /\ queue' = [queue EXCEPT ![t] =
                    Append(@, [payload |-> timer[t].payload,
                               stale |-> timer[t].stale])]
    /\ timer' = [timer EXCEPT ![t] = NoTimer]
    /\ UNCHANGED <<record, open, control, known, effect, inflight, task, acts>>

(* The next job of the chain runs: a stale one ends there and then.        *)
StartWrite(t) ==
    /\ open[t] /\ inflight[t].phase = "none" /\ queue[t] # <<>>
    /\ queue' = [queue EXCEPT ![t] = Tail(@)]
    /\ \/ /\ Head(queue[t]).stale
          /\ effect' = [effect EXCEPT ![t] = TRUE]
          /\ UNCHANGED inflight
       \/ /\ ~Head(queue[t]).stale
          /\ inflight' = [inflight EXCEPT ![t] =
                             [phase |-> "sent", payload |-> Head(queue[t]).payload,
                              expected |-> generation[t], next |-> 0]]
          /\ UNCHANGED effect
    /\ UNCHANGED <<record, open, control, known, timer, task, acts>>

(* writeStoredReview: the transaction compares the generations and puts    *)
(* the record, ...                                                         *)
CommitWrite(t) ==
    /\ open[t] /\ inflight[t].phase = "sent"
    /\ MayReplace(record, inflight[t].expected, FALSE)
    /\ LET next == NextGeneration(record.generation, FALSE, 0)
       IN  /\ record' = Stored(next, inflight[t].payload)
           /\ inflight' = [inflight EXCEPT ![t] = Committed(@, next)]
    /\ UNCHANGED <<open, control, known, effect, timer, queue, task, acts>>

(* ... or it aborts: another tab came first, or the storage failed.        *)
RefuseWrite(t) ==
    /\ open[t] /\ inflight[t].phase = "sent"
    /\ inflight' = [inflight EXCEPT ![t].phase = "refused"]
    /\ UNCHANGED <<record, open, control, known, effect, timer, queue, task, acts>>

(* The await returns.                                                      *)
WriteSucceeds(t) ==
    /\ open[t] /\ inflight[t].phase = "committed"
    /\ generation' = [generation EXCEPT ![t] = inflight[t].next]
    /\ saved' = [saved EXCEPT ![t] = inflight[t].payload]
    /\ inflight' = [inflight EXCEPT ![t] = NoWrite]
    /\ Settle(t)
    /\ UNCHANGED <<record, open, control, payload, timer, queue, task, acts>>

WriteFails(t) ==
    /\ open[t] /\ inflight[t].phase = "refused"
    /\ BumpEpoch(t)
    /\ error' = [error EXCEPT ![t] = TRUE]
    /\ status' = [status EXCEPT ![t] = "error"]
    /\ inflight' = [inflight EXCEPT ![t] = NoWrite]
    /\ Settle(t)
    /\ UNCHANGED <<record, open, ready, enabled, known, task, acts>>
-----------------------------------------------------------------------------
(* The load effect, on mount and after "Reload saved data".                *)
StartLoad(t) ==
    /\ BumpEpoch(t)
    /\ ready' = [ready EXCEPT ![t] = FALSE]
    /\ error' = [error EXCEPT ![t] = FALSE]
    /\ status' = [status EXCEPT ![t] = "loading"]
    /\ task' = [task EXCEPT ![t] = Begin("load")]
    /\ effect' = [effect EXCEPT ![t] = TRUE]

Reload(t) ==
    /\ UserActs
    /\ Idle(t) /\ error[t]
    /\ StartLoad(t)
    /\ UNCHANGED <<record, open, enabled, known, inflight>>

(* A task reads the record in a transaction of its own.  The load and the  *)
(* clear first wait for the writes that were under way; the jobs behind    *)
(* them are stale by then.                                                 *)
ReadRecord(t) ==
    /\ open[t] /\ task[t].phase = "wait"
    /\ task[t].kind \in {"load", "clear"} => inflight[t].phase = "none"
    /\ task' = [task EXCEPT ![t] = Advance(@, "read", record, 0)]
    /\ UNCHANGED <<record, open, control, known, effect, writes, acts>>

LoadSucceeds(t) ==
    /\ open[t] /\ task[t].kind = "load" /\ task[t].phase = "read"
    /\ LET r == task[t].observed
       IN  /\ Restorable(r)
           /\ enabled' = [enabled EXCEPT ![t] = ~isStoredReviewDisabled(r)]
           /\ generation' = [generation EXCEPT ![t] = r.generation]
           /\ saved' = [saved EXCEPT ![t] = r.payload]
           /\ payload' = [payload EXCEPT ![t] = r.payload]
           /\ status' = [status EXCEPT ![t] =
                            CASE isStoredReviewDisabled(r) -> "disabled"
                              [] r.kind = "absent" -> "none"
                              [] OTHER -> "saved"]
    /\ ready' = [ready EXCEPT ![t] = TRUE]
    /\ effect' = [effect EXCEPT ![t] = TRUE]
    /\ task' = [task EXCEPT ![t] = NoTask]
    /\ UNCHANGED <<record, open, error, writes, acts>>

(* The read fails, the generation is damaged, or the value does not decode.*)
LoadFails(t) ==
    /\ open[t] /\ task[t].kind = "load"
    /\ \/ task[t].phase = "wait" /\ UNCHANGED enabled
       \/ /\ task[t].phase = "read" /\ DamagedGeneration(task[t].observed)
          /\ UNCHANGED enabled
       \/ /\ task[t].phase = "read" /\ ~DamagedGeneration(task[t].observed)
          /\ task[t].observed.kind = "corrupt"
          /\ enabled' = [enabled EXCEPT ![t] = TRUE]
    /\ inflight[t].phase = "none"
    /\ error' = [error EXCEPT ![t] = TRUE]
    /\ status' = [status EXCEPT ![t] = "error"]
    /\ ready' = [ready EXCEPT ![t] = TRUE]
    /\ effect' = [effect EXCEPT ![t] = TRUE]
    /\ task' = [task EXCEPT ![t] = NoTask]
    /\ UNCHANGED <<record, open, known, writes, acts>>
-----------------------------------------------------------------------------
(* "Clear saved data", once the user has confirmed.                        *)
clearAndDisable(t) ==
    /\ UserActs
    /\ Idle(t)
    /\ BumpEpoch(t)
    /\ enabled' = [enabled EXCEPT ![t] = FALSE]
    /\ effect' = [effect EXCEPT ![t] = @ \/ enabled[t]]
    /\ task' = [task EXCEPT ![t] = Begin("clear")]
    /\ UNCHANGED <<record, open, ready, error, status, known, inflight>>

(* "Reset saved data", offered only after an error.                        *)
ResetSaved(t) ==
    /\ UserActs
    /\ Idle(t) /\ error[t]
    /\ task' = [task EXCEPT ![t] = Begin("reset")]
    /\ UNCHANGED <<record, open, control, known, effect, writes>>

(* resetStoredReview.  A generation at the limit is left alone: only 2^53  *)
(* saves or a foreign program can bring the record there.                  *)
CommitReset(t) ==
    /\ open[t] /\ task[t].kind \in {"clear", "reset"} /\ task[t].phase = "read"
    /\ record.generation # MaxSafeInteger
    /\ MayReplace(record, task[t].observed.generation, TRUE)
    /\ \E now \in Clock :
          LET next == NextGeneration(record.generation, TRUE, now)
          IN  /\ record' = IF task[t].kind = "clear"
                           THEN disabledStoredReview(next)
                           ELSE Stored(next, Initial)
              /\ task' = [task EXCEPT ![t] = Advance(@, "committed", @.observed, next)]
    /\ UNCHANGED <<open, control, known, effect, writes, acts>>

ClearSucceeds(t) ==
    /\ open[t] /\ task[t].kind = "clear" /\ task[t].phase = "committed"
    /\ generation' = [generation EXCEPT ![t] = task[t].next]
    /\ saved' = [saved EXCEPT ![t] = Initial]
    /\ error' = [error EXCEPT ![t] = FALSE]
    /\ effect' = [effect EXCEPT ![t] = @ \/ error[t]]
    /\ status' = [status EXCEPT ![t] = "disabled"]
    /\ task' = [task EXCEPT ![t] = NoTask]
    /\ UNCHANGED <<record, open, ready, enabled, payload, writes, acts>>

(* After a reset of the stored record the tab loads it again.              *)
ResetSucceeds(t) ==
    /\ open[t] /\ task[t].kind = "reset" /\ task[t].phase = "committed"
    /\ StartLoad(t)
    /\ UNCHANGED <<record, open, enabled, known, inflight, acts>>

(* The read or the reset aborts.  A failed clear is an error of the hook;  *)
(* a failed reset is shown by the controls, where the error stands already.*)
TaskFails(t) ==
    /\ open[t] /\ task[t].kind \in {"clear", "reset"}
    /\ task[t].phase \in {"wait", "read"}
    /\ task[t].kind = "clear" => inflight[t].phase = "none"
    /\ error' = [error EXCEPT ![t] = TRUE]
    /\ effect' = [effect EXCEPT ![t] = @ \/ ~error[t]]
    /\ status' = [status EXCEPT ![t] = IF task[t].kind = "clear" THEN "error" ELSE @]
    /\ task' = [task EXCEPT ![t] = NoTask]
    /\ UNCHANGED <<record, open, ready, enabled, known, writes, acts>>

enableAutosave(t) ==
    /\ UserActs
    /\ Idle(t) /\ ~enabled[t] /\ ~error[t]
    /\ saved' = [saved EXCEPT ![t] = Unsaved]
    /\ enabled' = [enabled EXCEPT ![t] = TRUE]
    /\ effect' = [effect EXCEPT ![t] = TRUE]
    /\ UNCHANGED <<record, open, ready, error, status, payload, generation,
                   writes, task>>
-----------------------------------------------------------------------------
(* beforeunload asks the user before the tab closes.                       *)
Warns(t) == ready[t] /\ (payload[t] # saved[t] \/ PendingWrites(t) > 0)

(* The tab closes or crashes.  A transaction that has not committed is     *)
(* lost with it; one that has, stays.                                      *)
Close(t) ==
    /\ UserActs
    /\ open[t]
    /\ open' = [open EXCEPT ![t] = FALSE]
    /\ ready' = [ready EXCEPT ![t] = FALSE]
    /\ error' = [error EXCEPT ![t] = FALSE]
    /\ enabled' = [enabled EXCEPT ![t] = TRUE]
    /\ status' = [status EXCEPT ![t] = "loading"]
    /\ payload' = [payload EXCEPT ![t] = Initial]
    /\ saved' = [saved EXCEPT ![t] = Unsaved]
    /\ generation' = [generation EXCEPT ![t] = 0]
    /\ effect' = [effect EXCEPT ![t] = FALSE]
    /\ timer' = [timer EXCEPT ![t] = NoTimer]
    /\ queue' = [queue EXCEPT ![t] = <<>>]
    /\ inflight' = [inflight EXCEPT ![t] = NoWrite]
    /\ task' = [task EXCEPT ![t] = NoTask]
    /\ UNCHANGED record

Reopen(t) ==
    /\ UserActs
    /\ ~open[t]
    /\ open' = [open EXCEPT ![t] = TRUE]
    /\ task' = [task EXCEPT ![t] = Begin("load")]
    /\ UNCHANGED <<record, control, known, effect, writes>>
-----------------------------------------------------------------------------
WriteStep(t) ==
    \/ AutosaveEffect(t) \/ TimerFires(t) \/ StartWrite(t)
    \/ CommitWrite(t) \/ RefuseWrite(t) \/ WriteSucceeds(t) \/ WriteFails(t)

TaskStep(t) ==
    \/ ReadRecord(t) \/ LoadSucceeds(t) \/ LoadFails(t)
    \/ CommitReset(t) \/ ClearSucceeds(t) \/ ResetSucceeds(t) \/ TaskFails(t)

UserStep(t) ==
    \/ Edit(t) \/ Reload(t) \/ clearAndDisable(t) \/ ResetSaved(t)
    \/ enableAutosave(t) \/ Close(t) \/ Reopen(t)

Next == \E t \in Tabs : WriteStep(t) \/ TaskStep(t) \/ UserStep(t)

Spec == Init /\ [][Next]_vars

(* Timers fire, effects and promise reactions run, and every IndexedDB     *)
(* transaction ends, in a tab that stays open.  Nobody must act.           *)
FairSpec ==
    Spec /\ \A t \in Tabs : WF_vars(WriteStep(t)) /\ WF_vars(TaskStep(t))
-----------------------------------------------------------------------------
(* What saved.current says is stored: '' is the blank session, on which    *)
(* "Enable autosave" starts over.                                          *)
Content(t) == IF saved[t] = Unsaved THEN Initial ELSE saved[t]

(* A tab whose generation is the stored one knows what is stored: the      *)
(* payload its hook last read or wrote is the payload of the record.  This *)
(* is what makes a comparison of generations, in replaceStoredReview, and  *)
(* of payloads, in the autosave effect, mean anything.                     *)
Current(t) == generation[t] = record.generation => record.payload = Content(t)
KnownIsCurrent == \A t \in Tabs : Current(t)

(* The tasks of a tab and its writes exclude each other: a write is under  *)
(* way only where autosave is on, or while a clear still waits for it, and *)
(* it expects the generation the tab still has.  Where autosave has been   *)
(* switched off the tab's knowledge is the blank session.                  *)
Orderly(t) ==
    /\ ~open[t] => ~ready[t] /\ task[t].kind = "none"
    /\ task[t].kind = "load" => ~ready[t]
    /\ task[t].kind = "clear" => ~enabled[t]
    /\ task[t].kind = "reset" => error[t]
    /\ inflight[t].phase # "none" =>
          /\ inflight[t].expected = generation[t]
          /\ \/ AutosaveOn(t)
             \/ task[t].kind = "clear" /\ task[t].phase = "wait"
    /\ ready[t] /\ ~error[t] /\ ~enabled[t] /\ task[t].kind = "none" =>
          Content(t) = Initial
OneThingAtATime == \A t \in Tabs : Orderly(t)

(* Whatever a tab has read or written lies at or before the record, and    *)
(* what lies at the record's generation is the record.                     *)
Past(t) ==
    /\ generation[t] = 0 \/ generation[t] \in 1 .. record.generation
    /\ inflight[t].phase = "committed" =>
          /\ inflight[t].next \in 1 .. record.generation
          /\ inflight[t].next = record.generation =>
                record.payload = inflight[t].payload
    /\ task[t].phase = "committed" =>
          /\ task[t].next \in 1 .. record.generation
          /\ task[t].next = record.generation => record.payload = Initial
    /\ task[t].phase = "read" =>
          /\ task[t].observed.generation <= record.generation
          /\ task[t].observed.generation = record.generation =>
                record.payload = task[t].observed.payload
PastIsPast == \A t \in Tabs : Past(t)

(* Once a tab may not autosave (it loads, it is in error, autosave is off) *)
(* nothing scheduled before will write: every timer and every job that is  *)
(* left was made stale by a later epoch.                                   *)
Quiet(t) ==
    ~AutosaveOn(t) =>
        /\ timer[t].set => timer[t].stale
        /\ \A i \in DOMAIN queue[t] : queue[t][i].stale
NothingLiveWhileOff == \A t \in Tabs : Quiet(t)

(* The inductive invariant.                                                *)
IInv ==
    /\ TypeOK
    /\ WellFormed(record)
    /\ \A t \in Tabs : WellFormed(task[t].observed)
    /\ KnownIsCurrent
    /\ NothingLiveWhileOff
    /\ OneThingAtATime
    /\ PastIsPast

(* A tab that the beforeunload handler lets close without a question has   *)
(* no write under way, and its session is the stored one unless another    *)
(* tab has replaced it.                                                    *)
SilentCloseIsSafe ==
    \A t \in Tabs : Usable(t) /\ ~Warns(t) =>
        /\ inflight[t].phase = "none"
        /\ generation[t] = record.generation => record.payload = payload[t]

(* "Saved locally", once the effect has run, is true: the session on the   *)
(* screen is the one last written, and no older write can still land.      *)
SavedIsTrue ==
    \A t \in Tabs :
        AutosaveOn(t) /\ ~effect[t] /\ status[t] = "saved" =>
            /\ payload[t] = saved[t]
            /\ inflight[t].phase = "none"

(* The generation of the record never falls and never repeats, resets of a *)
(* damaged record and a clock set back included.                           *)
GenerationGrows ==
    [][record' # record => record'.generation > record.generation]_vars

(* After "Clear saved data" no older tab writes its decisions back: the    *)
(* marker gives way only to another clear, to "Reset saved data", or to a  *)
(* tab that knows of it and whose user has enabled autosave again.         *)
ClearSticks ==
    [][record.kind = "disabled" /\ record'.kind # "disabled" =>
          \E t \in Tabs :
             \/ task[t].kind = "reset"
             \/ saved[t] = Unsaved /\ generation[t] = record.generation]_vars

(* An edit is saved in the end, or the tab says why not.                   *)
EditsSettle ==
    \A t \in Tabs :
        AutosaveOn(t) /\ payload[t] # saved[t]
            ~> ~AutosaveOn(t) \/ payload[t] = saved[t]

(* A load, a clear or a reset always ends, whatever the writes of its own  *)
(* tab and of others do: the workspace does not stay inert.                *)
TasksEnd == \A t \in Tabs : task[t].kind # "none" ~> task[t].kind = "none"
-----------------------------------------------------------------------------
(* The shared register the tabs see.  A tab knows of its own write, its    *)
(* clear and its load as soon as the transaction has ended, although it    *)
(* stores what it learned one step later.                                  *)
Knows(t) ==
    IF inflight[t].phase = "committed"
    THEN [generation |-> inflight[t].next, content |-> inflight[t].payload]
    ELSE IF task[t].kind = "clear" /\ task[t].phase = "committed"
    THEN [generation |-> task[t].next, content |-> Initial]
    ELSE IF /\ task[t].kind = "load" /\ task[t].phase = "read"
            /\ Restorable(task[t].observed)
    THEN [generation |-> task[t].observed.generation,
          content |-> task[t].observed.payload]
    ELSE [generation |-> generation[t], content |-> Content(t)]

Register == INSTANCE ReviewRegister WITH
    Contents <- Payloads,
    Blank <- Initial,
    register <- [generation |-> record.generation,
                 content |-> record.payload,
                 autosave |-> record.kind # "disabled"],
    known <- [t \in Tabs |-> Knows(t)]

(* The tabs implement the register: a save replaces only content that the  *)
(* saving tab has read or written itself, however the loads, clears,       *)
(* resets, crashes and late answers of all tabs interleave.                *)
ImplementsRegister == Register!Spec
====
