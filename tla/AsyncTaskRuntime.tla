-------------------------- MODULE AsyncTaskRuntime --------------------------
(***************************************************************************)
(* launcher/api/AsyncTaskRuntime: the runtime that admits the long-running *)
(* operations the Neo UI submits (neo.task), leases them the resources     *)
(* they write to, enforces their deadlines, cancels them and remembers     *)
(* them in a journal across restarts of the launcher.                      *)
(*                                                                         *)
(* Every handler runs to its end on the main thread.  What runs between    *)
(* handlers is the tasks' own work: `work' holds the tasks whose Task      *)
(* object is executing, which the runtime cannot see and may not be able   *)
(* to stop.  QTimer::singleShot(0) calls waiting in the event loop are     *)
(* `deferred'; armed deadline timers are `deadline'.                       *)
(*                                                                         *)
(* A record's `finished' flag is not a variable: the code sets it exactly  *)
(* when it sets a final state.  No operation asks for a read lease         *)
(* (addResourceKeys only fills `writes'), so reader counts are left out,   *)
(* as are progress, status texts and the interaction channel.              *)
(***************************************************************************)
EXTENDS Integers, FiniteSets, SequencesExt

CONSTANTS
    Ids,          \* the submissions clients may make, each a new task id
    Keys,         \* resource keys, such as "instances" or "instance:<id>"
    Writes,       \* the keys each submission's operation writes
    High,         \* the submissions with high priority
    Retry,        \* Retry[t]: the submission t repeats under the same
                  \* idempotencyKey; t itself if it repeats none
    Unchecked,    \* the submissions whose finished handler does not ask
                  \* whether the record has ended before it takes effect
    MaxActive,    \* maxActive
    MaxRecords,   \* records kept before pruneRecords() forgets old ones
    JournalSize,  \* records written to the journal
    MaxRestarts   \* bound: restarts of the launcher

ASSUME RuntimeAssumption ==
    /\ IsFiniteSet(Ids)
    /\ Writes \in [Ids -> SUBSET Keys]
    /\ \A t \in Ids : Writes[t] # {}
    /\ High \subseteq Ids
    /\ Retry \in [Ids -> Ids]
    /\ Unchecked \subseteq Ids
    /\ MaxActive \in Nat \ {0}
    /\ MaxRecords \in Nat
    /\ JournalSize \in Nat
    /\ MaxRestarts \in Nat

VARIABLES
    state,      \* the state of every record; "unknown" before it is submitted,
                \* "forgotten" when no record of it is left
    order,      \* m_order
    pending,    \* m_pending; the order of its tasks is that of m_order, to
                \* which each is appended together with m_pending
    writers,    \* m_writers
    active,     \* m_active
    deferred,   \* tasks whose deferred startRecord() waits in the event loop
    deadline,   \* tasks whose deadline timer is armed
    work,       \* tasks whose Task object is executing
    journal,    \* the journal on disk: a sequence of records
    effects,    \* history: tasks whose finished handler took effect
    restarts    \* how often the launcher was restarted

leaseVars == <<pending, writers, active, deferred, deadline>>
diskVars == <<order, journal>>
vars == <<state, leaseVars, diskVars, work, effects, restarts>>

EndStates == {"succeeded", "failed", "cancelled", "interrupted"}
LiveStates == {"queued", "running"}
States == EndStates \cup LiveStates \cup {"unknown", "forgotten"}

Finished(t) == state[t] \in EndStates
Running == {t \in Ids : state[t] = "running"}
KeysWrittenBy(S) == UNION {Writes[t] : t \in S}

Init ==
    /\ state = [t \in Ids |-> "unknown"]
    /\ order = <<>>
    /\ pending = {}
    /\ writers = {}
    /\ active = 0
    /\ deferred = {}
    /\ deadline = {}
    /\ work = {}
    /\ journal = <<>>
    /\ effects = {}
    /\ restarts = 0

-----------------------------------------------------------------------------
(* The journal: the newest records with the states they have now.          *)

LastRecords(o) == SubSeq(o, 1 + (IF Len(o) > JournalSize THEN Len(o) - JournalSize ELSE 0), Len(o))

Journal(o, s) ==
    LET last == LastRecords(o)
    IN  [i \in DOMAIN last |-> [id |-> last[i], state |-> s[last[i]]]]

SaveJournal == journal' = Journal(order', state')

-----------------------------------------------------------------------------
(* pump(): admit pending tasks while there is room.                        *)

Eligible(t, held) == Writes[t] \cap held = {}

SameOrEarlier(o, t, u) == \E i, j \in DOMAIN o : o[i] = t /\ o[j] = u /\ i <= j

\* t has the highest score: high priority first, then the one queued first,
\* that is, the one that comes first in m_order.
\* (The score of a normal task overtakes that of a high one only after it has
\* waited for eleven days, which is left out.)
IsBest(o, t, rivals) ==
    \A u \in rivals : \/ t \in High /\ u \notin High
                      \/ (t \in High <=> u \in High) /\ SameOrEarlier(o, t, u)

\* Faulty variant: held keys do not matter.
CandidatesUnguarded(q, w, taken) == q \ taken

\* The tasks of q not taken yet whose keys are free, when w was leased before.
Candidates(q, w, taken) ==
    {t \in q \ taken : Eligible(t, w \cup KeysWrittenBy(taken))}

\* Faulty variant: one task too many is admitted.
AdmissionOneTooMany(o, q, w, a, adm) ==
    /\ \A k \in DOMAIN adm :
          LET rivals == Candidates(q, w, {adm[l] : l \in 1..(k - 1)})
          IN  adm[k] \in rivals /\ IsBest(o, adm[k], rivals)
    /\ a + Len(adm) <= MaxActive + 1
    /\ a + Len(adm) = MaxActive + 1 \/ Candidates(q, w, ToSet(adm)) = {}

\* The tasks that pump() admits from q, in the order it admits them, when w is
\* leased and a tasks are active.  It stops when every slot is used or no task
\* that is left is eligible.
Admission(o, q, w, a, adm) ==
    /\ \A k \in DOMAIN adm :
          LET rivals == Candidates(q, w, {adm[l] : l \in 1..(k - 1)})
          IN  adm[k] \in rivals /\ IsBest(o, adm[k], rivals)
    /\ a + Len(adm) <= MaxActive
    /\ a + Len(adm) = MaxActive \/ Candidates(q, w, ToSet(adm)) = {}

\* pump() on the queue q, leases w, a active tasks and the states s.
Pump(q, w, a, s) ==
    \E adm \in SeqOf(q, MaxActive) :
        LET taken == ToSet(adm) IN
        /\ Admission(order', q, w, a, adm)
        /\ pending' = q \ taken
        /\ writers' = w \cup KeysWrittenBy(taken)
        /\ active' = a + Len(adm)
        /\ state' = [t \in Ids |-> IF t \in taken THEN "running" ELSE s[t]]

\* The tasks pump() admits in this step: their deadline is armed and their
\* startRecord() is deferred.
Admitted == Running' \ Running

-----------------------------------------------------------------------------
(* start(): a client submits a task.                                       *)

\* Faulty variant: the idempotency key is not looked up.
NeverKnown(t) == FALSE

\* A record with the same idempotency key is remembered, whatever its state:
\* the client gets that record's snapshot and nothing changes.
Known(t) == \E u \in ToSet(order) : Retry[u] = Retry[t]

\* pruneRecords(): the oldest finished records above MaxRecords are forgotten.
Pruned ==
    {t \in ToSet(order) : /\ Finished(t)
                          /\ Cardinality({i \in 1..Len(order) :
                                /\ Finished(order[i])
                                /\ \E j \in DOMAIN order : order[j] = t /\ i < j})
                               < Len(order) - MaxRecords}

\* kept is m_order without the records that are forgotten, as they stood.
Remaining(kept) ==
    /\ ToSet(kept) = ToSet(order) \ Pruned
    /\ \A i, j \in DOMAIN kept :
          i < j => kept[i] # kept[j] /\ SameOrEarlier(order, kept[i], kept[j])

Submit(t) ==
    /\ state[t] = "unknown"
    /\ ~Known(t)
    /\ \E kept \in SeqOf(ToSet(order) \ Pruned, Len(order)) :
          Remaining(kept) /\ order' = Append(kept, t)
    /\ Pump(pending \cup {t}, writers, active,
            [u \in Ids |-> IF u = t THEN "queued"
                           ELSE IF u \in Pruned THEN "forgotten" ELSE state[u]])
    /\ deadline' = deadline \cup Admitted
    /\ deferred' = deferred \cup Admitted
    /\ SaveJournal
    /\ UNCHANGED <<work, effects, restarts>>

-----------------------------------------------------------------------------
(* finish(), cancel() and the deadline: a task gives its lease back.       *)

OneLess(n) == IF n > 0 THEN n - 1 ELSE 0

\* What finish() and cancel() do to a running task: its lease and its slot are
\* free again, and pump() follows.
GiveBack(t, final) ==
    Pump(pending, writers \ Writes[t], OneLess(active), [state EXCEPT ![t] = final])

\* Faulty variant of Finish: nothing is saved.
FinishUnsaved(t, final) ==
    /\ UNCHANGED <<order, restarts, journal>>
    /\ GiveBack(t, final)
    /\ deadline' = (deadline \ {t}) \cup Admitted

\* finish() of a task that is running.
Finish(t, final) ==
    /\ UNCHANGED <<order, restarts>>
    /\ GiveBack(t, final)
    /\ deadline' = (deadline \ {t}) \cup Admitted
    /\ SaveJournal

\* cancel() takes a queued task off the queue.
Withdraw(t, final) ==
    Pump(pending \ {t}, writers, active, [state EXCEPT ![t] = final])

\* Faulty variant of EndEarly: nobody pumps.
EndEarlyWithoutPump(t, final) ==
    /\ state[t] \in LiveStates
    /\ UNCHANGED <<order, effects, restarts, deferred>>
    /\ state' = [state EXCEPT ![t] = final]
    /\ pending' = pending \ {t}
    /\ deadline' = deadline \ {t}
    /\ IF state[t] = "running"
       THEN writers' = writers \ Writes[t] /\ active' = OneLess(active)
       ELSE UNCHANGED <<writers, active>>
    /\ work' \in {work, work \ {t}}
    /\ SaveJournal

\* The body of cancel(): the record ends and its lease and slot are given back
\* at once; the Task object is asked to abort, which may end it before abort()
\* returns, end it later, or not at all.
EndEarly(t, final) ==
    /\ state[t] \in LiveStates
    /\ UNCHANGED <<order, effects, restarts>>
    /\ IF state[t] = "running" THEN GiveBack(t, final) ELSE Withdraw(t, final)
    /\ deadline' = (deadline \ {t}) \cup Admitted
    /\ deferred' = deferred \cup Admitted
    /\ \/ t \in work /\ work' = work \ {t}
       \/ UNCHANGED work
    /\ SaveJournal

Cancel(t) == EndEarly(t, "cancelled")

\* The deadline cancels the task and then turns it into a failure.
Timeout(t) ==
    /\ t \in deadline
    /\ EndEarly(t, "failed")

-----------------------------------------------------------------------------
(* Steps of the tasks themselves.                                          *)

Outcome(ok) == IF ok THEN "succeeded" ELSE "failed"

\* Whether the finished handler of t does what the operation was for (install
\* the resource, add the account, save the profile).
TakesEffect(t, ok) == ok /\ (state[t] = "running" \/ (t \in Unchecked /\ Finished(t)))

Effects(t, ok) == effects' = IF TakesEffect(t, ok) THEN effects \cup {t} ELSE effects

\* The record has ended before the deferred startRecord() was run.
SkipEnded(t) ==
    /\ state[t] # "running"
    /\ deferred' = deferred \ {t}
    /\ UNCHANGED <<state, pending, writers, active, deadline, diskVars, work,
                   effects, restarts>>

\* Faulty variant: the deferred call does not look at the record again.
BeginWorkUnasked(t) ==
    /\ deferred' = deferred \ {t}
    /\ work' = work \cup {t}
    /\ UNCHANGED <<state, pending, writers, active, deadline, diskVars,
                   effects, restarts>>

\* startRecord() creates a Task object and starts it.
BeginWork(t) ==
    /\ state[t] = "running"
    /\ deferred' = deferred \ {t}
    /\ work' = work \cup {t}
    /\ UNCHANGED <<state, pending, writers, active, deadline, diskVars,
                   effects, restarts>>

\* startRecord() rejects the request or does the operation on the spot.
FinishOnTheSpot(t, ok) ==
    /\ state[t] = "running"
    /\ Finish(t, Outcome(ok))
    /\ deferred' = (deferred \ {t}) \cup Admitted
    /\ Effects(t, ok)
    /\ UNCHANGED work

StartRecord(t) ==
    /\ t \in deferred
    /\ \/ SkipEnded(t)
       \/ BeginWork(t)
       \/ \E ok \in BOOLEAN : FinishOnTheSpot(t, ok)

\* The work of t ends and its finished signal reaches the runtime.
WorkEnd(t, ok) ==
    /\ t \in work
    /\ work' = work \ {t}
    /\ Effects(t, ok)
    /\ \/ /\ state[t] = "running"
          /\ Finish(t, Outcome(ok))
          /\ deferred' = deferred \cup Admitted
       \/ /\ state[t] # "running"
          /\ UNCHANGED <<state, leaseVars, diskVars, restarts>>

-----------------------------------------------------------------------------
(* The launcher ends, or dies, and is started again: loadJournal().        *)

\* What the new process knows of t: what the journal says, a task that had not
\* ended being interrupted, and nothing of a task that is not in the journal.
LoadedState(t) ==
    CASE state[t] = "unknown" -> "unknown"
      [] state[t] # "unknown" /\ \E r \in ToSet(journal) : r.id = t ->
            LET r == CHOOSE r \in ToSet(journal) : r.id = t
            IN  IF r.state \in EndStates THEN r.state ELSE "interrupted"
      [] OTHER -> "forgotten"

Restart ==
    /\ restarts < MaxRestarts
    /\ restarts' = restarts + 1
    /\ state' = [t \in Ids |-> LoadedState(t)]
    /\ order' = [i \in DOMAIN journal |-> journal[i].id]
    /\ pending' = {}
    /\ writers' = {}
    /\ active' = 0
    /\ deferred' = {}
    /\ deadline' = {}
    /\ work' = {}
    /\ UNCHANGED <<journal, effects>>

-----------------------------------------------------------------------------
Task(t) == \/ StartRecord(t)
           \/ \E ok \in BOOLEAN : WorkEnd(t, ok)
           \/ Timeout(t)

Next == \/ \E t \in Ids : Submit(t) \/ Cancel(t) \/ Task(t)
        \/ Restart

Spec == Init /\ [][Next]_vars

\* The event loop runs what is due; no task is obliged to end by itself.
Fairness == \A t \in Ids : WF_vars(StartRecord(t)) /\ WF_vars(Timeout(t))

FairSpec == Spec /\ Fairness
-----------------------------------------------------------------------------
(* Properties.                                                             *)

\* The variables that keys and slots live in have their types.
LeaseTypes ==
    /\ state \in [Ids -> States]
    /\ pending \subseteq Ids
    /\ writers \subseteq Keys
    /\ active \in 0..MaxActive
    /\ deferred \subseteq Ids
    /\ deadline \subseteq Ids
    /\ work \subseteq Ids

\* The lease table tells the truth however submissions, ends, cancellations,
\* deadlines and restarts interleave: no two running records write the same
\* key, the writers are exactly the keys of the running records, m_active
\* counts them, and what is queued is waiting and nothing else.
LeasesExclusive ==
    /\ \A t, u \in Running : t # u => Writes[t] \cap Writes[u] = {}
    /\ writers = KeysWrittenBy(Running)
    /\ active = Cardinality(Running)
    /\ pending = {t \in Ids : state[t] = "queued"}

\* Whenever a handler returns, no task waits that could run: every way of
\* giving a lease or a slot back (finish, cancel of a queued or a running
\* task, deadline) goes on to pump().
NoIdleSlot ==
    active < MaxActive => \A t \in pending : ~Eligible(t, writers)

\* A running task always has a deadline ahead of it, and an ended one none
\* that could strike later: the deadline is what bounds a task that hangs.
DeadlineArmed == deadline = Running

\* A task starts only while its record is running: cancelling it between its
\* admission and the deferred startRecord() keeps it from starting.
NeverStartsAfterEnd == [][work' \ work \subseteq Running]_vars

\* The end of a task is not lost in a crash, and no task comes back to life: a
\* finished record keeps its state, across restarts too, until it is forgotten.
EndSurvives ==
    [][\A t \in Ids : Finished(t) => state'[t] \in {state[t], "forgotten"}]_vars

\* A retry under the same idempotencyKey is one task as long as the first is
\* remembered, across restarts and whatever became of it.
OneTaskPerKey ==
    \A t, u \in ToSet(order) : Retry[t] = Retry[u] => t = u

\* Whoever holds keys and a slot has its deferred start ahead of it or its Task
\* at work: never both, it would be started twice, and never neither, only the
\* deadline would free its keys.
StartAhead ==
    /\ Running \subseteq deferred \cup work
    /\ deferred \cap work = {}

\* t ended between its admission and its deferred start.
EndedBeforeStart(t) == t \in deferred /\ Finished(t)

\* An admitted task is started once, or never if it is cancelled, times out or
\* dies with the launcher before its deferred startRecord() is run: then it is not
\* at work and takes no effect at any later time, whether its finished handler
\* asks or not, for there is no Task object whose signal could reach it.
StartedOnceOrNever ==
    /\ []StartAhead
    /\ \A t \in Ids : [](EndedBeforeStart(t) => [](t \notin work \cup effects))

\* The runtime implements the abstract table of leases.
Leases == INSTANCE LeaseTable WITH
              Items <- Ids, KeysOf <- Writes, Slots <- MaxActive,
              waiting <- pending, holders <- Running,
              over <- {t \in Ids : state[t] \in EndStates \cup {"forgotten"}}
LeaseSpec == Leases!Spec

\* Every submitted task comes to an end, even if its Task object hangs: queued
\* tasks are admitted in the end, running ones are ended by their deadline.
EveryTaskEnds ==
    \A t \in Ids : state[t] \in LiveStates ~> state[t] \notin LiveStates

-----------------------------------------------------------------------------
(* What the documentation says and the code does not keep.                 *)

\* NEO-UI-API.md: writes to the same instance, account, Java or instance set
\* queue up.  cancel() and the deadline give the lease back before the Task
\* object has stopped: two tasks may then write the same resource.
WritesQueueUp ==
    \A t, u \in work : t # u => Writes[t] \cap Writes[u] = {}

=============================================================================
