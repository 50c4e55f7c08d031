--------------------------- MODULE ConcurrentTask ---------------------------
(***************************************************************************)
(* The task engine every long-running operation of the launcher is built   *)
(* on: launcher/tasks/Task (the life cycle of one task), ConcurrentTask    *)
(* (a queue of child tasks run a few at a time), and its two policies      *)
(* SequentialTask and MultipleOptionsTask.  `kind' is the class of the job. *)
(*                                                                         *)
(* Everything runs on one thread, driven by the event loop.  The queued    *)
(* calls that the code posts to the loop are state: `wakeups' counts the   *)
(* pending executeNextSubTask() calls and `starts' holds the children      *)
(* whose start() is pending.  The order in which the loop delivers them    *)
(* is not fixed here.                                                      *)
(*                                                                         *)
(* Labels, progress figures and transfer rates are left out.               *)
(***************************************************************************)
EXTENDS Integers, FiniteSets, SequencesExt

CONSTANTS
    Tasks,       \* the child tasks that callers may add, each at most once
    Kinds,       \* the classes of jobs considered: "concurrent", "sequential"
                 \* or "options"
    Limits,      \* the values max_concurrent may be given
    MaxStarts,   \* bound: calls of start() on the job
    MaxAborts    \* bound: calls of abort() on the job

ASSUME JobAssumption ==
    /\ IsFiniteSet(Tasks)
    /\ Kinds \subseteq {"concurrent", "sequential", "options"}
    /\ Limits \subseteq Nat \ {0}
    /\ 1 \in Limits
    /\ MaxStarts \in Nat
    /\ MaxAborts \in Nat

VARIABLES
    kind,        \* the class of the job, which never changes
    state,       \* m_state of the job
    limit,       \* m_total_max_size
    queue,       \* m_queue
    doing,       \* m_doing
    done,        \* m_done
    failed,      \* m_failed
    succeeded,   \* m_succeeded
    wakeups,     \* executeNextSubTask() calls waiting in the event loop
    starts,      \* children whose queued start() has not run yet
    heard,       \* children whose aborted signal is connected to the job
    child,       \* m_state of every child
    signals,     \* history: the outcome signals (each followed by finished)
                 \* emitted since the last start
    owed,        \* history: the tasks added since the last abort or clear
    dropped,     \* history: the tasks that abort or clear took off the queue
    lateAdd,     \* history: a task was added while the job was running
    startCount,  \* how often the job was started
    abortCount   \* how often it was aborted

jobVars == <<kind, state, limit, queue, doing, done, failed, succeeded, wakeups>>
childVars == <<starts, heard, child>>
bookVars == <<owed, dropped, lateAdd, startCount, abortCount>>
vars == <<jobVars, childVars, signals, bookVars>>

EndStates == {"Succeeded", "Failed", "AbortedByUser"}
TaskStates == EndStates \cup {"Inactive", "Running"}

\* SequentialTask and MultipleOptionsTask are constructed with one slot.
LimitsOf(k) == IF k = "concurrent" THEN Limits ELSE {1}

Init ==
    /\ state = "Inactive"
    /\ kind \in Kinds
    /\ limit \in LimitsOf(kind)
    /\ queue = <<>>
    /\ doing = {}
    /\ done = {}
    /\ failed = {}
    /\ succeeded = {}
    /\ wakeups = 0
    /\ starts = {}
    /\ heard = {}
    /\ child = [t \in Tasks |-> "Inactive"]
    /\ signals = <<>>
    /\ owed = <<>>
    /\ dropped = {}
    /\ lateAdd = FALSE
    /\ startCount = 0
    /\ abortCount = 0

-----------------------------------------------------------------------------
(* Task: emitSucceeded(), emitFailed() and emitAborted() do nothing unless *)
(* the task is running.                                                    *)

\* For a faulty variant: the outcome is reported without asking isRunning().
EmitUnguarded(outcome) ==
    /\ state' = outcome
    /\ signals' = Append(signals, outcome)

Emit(outcome) ==
    \/ /\ state = "Running"
       /\ state' = outcome
       /\ signals' = Append(signals, outcome)
    \/ /\ state # "Running"
       /\ UNCHANGED <<state, signals>>

-----------------------------------------------------------------------------
(* Calls made by the owner of the job.                                     *)

\* A task object is handed to a job once, before it has ever run.
Fresh(t) == /\ child[t] = "Inactive"
            /\ t \notin dropped \cup doing \cup ToSet(queue)

AddTask(t) ==
    /\ Fresh(t)
    /\ queue' = Append(queue, t)
    /\ owed' = Append(owed, t)
    /\ lateAdd' = (lateAdd \/ state = "Running")
    /\ UNCHANGED <<kind, state, limit, doing, done, failed, succeeded, wakeups,
                   childVars, signals, dropped, startCount, abortCount>>

SetMaxConcurrent(n) ==
    /\ state = "Inactive"
    /\ n \in LimitsOf(kind)
    /\ limit' = n
    /\ UNCHANGED <<kind, state, queue, doing, done, failed, succeeded, wakeups,
                   childVars, signals, bookVars>>

\* start() of a running task returns at once; in every other state it starts
\* the task (again), and executeTask() posts one wakeup per slot.
Start ==
    /\ state # "Running"
    /\ startCount < MaxStarts
    /\ state' = "Running"
    /\ wakeups' = wakeups + limit
    /\ signals' = <<>>
    /\ lateAdd' = FALSE
    /\ startCount' = startCount + 1
    /\ UNCHANGED <<kind, limit, queue, doing, done, failed, succeeded,
                   childVars, owed, dropped, abortCount>>

Clear ==
    /\ state # "Running"
    /\ done' = {}
    /\ failed' = {}
    /\ queue' = <<>>
    /\ owed' = <<>>
    /\ dropped' = dropped \cup ToSet(queue)
    /\ UNCHANGED <<kind, state, limit, doing, succeeded, wakeups,
                   childVars, signals, lateAdd, startCount, abortCount>>

\* What abort() forgets, whichever way it ends.
DropQueue ==
    /\ abortCount < MaxAborts
    /\ abortCount' = abortCount + 1
    /\ queue' = <<>>
    /\ owed' = <<>>
    /\ dropped' = dropped \cup ToSet(queue)
    /\ UNCHANGED <<kind, limit, lateAdd, startCount, starts>>

\* With no child active the signals are emitted whatever the state is, and
\* the state does not change.
AbortIdle ==
    /\ doing = {}
    /\ DropQueue
    /\ signals' = Append(signals, "AbortedByUser")
    /\ UNCHANGED <<state, doing, done, failed, succeeded, wakeups, heard, child>>

\* How a child may answer abort(): it ends at once ("ends"), it returns true
\* and ends later or never started ("accepts"), it returns false and goes on
\* ("refuses"), or it is a nested job that emits failed and returns false
\* ("fails").  The last one takes the child out of m_doing while m_doing is
\* being iterated, so the loop may then miss other children ("missed").
Answers == {"ends", "accepts", "refuses", "fails", "missed"}

PossibleAnswers(a) ==
    /\ \A t \in doing : a[t] \in {"ends", "fails"} => child[t] = "Running"
    /\ (\E t \in doing : a[t] = "missed") => (\E t \in doing : a[t] = "fails")

ChildrenAnswer(a) ==
    LET Who(ans) == {t \in doing : a[t] = ans} IN
    /\ child' = [t \in Tasks |->
          IF t \in Who("ends") THEN "AbortedByUser"
          ELSE IF t \in Who("fails") THEN "Failed" ELSE child[t]]
    /\ heard' = heard \ (doing \ Who("missed"))
    /\ doing' = doing \ Who("fails")
    /\ done' = done \cup Who("fails")
    /\ failed' = failed \cup Who("fails")
    /\ wakeups' = wakeups + Cardinality(Who("fails"))
    /\ Emit(IF Who("refuses") \cup Who("fails") = {}
            THEN "AbortedByUser" ELSE "Failed")

AbortActive ==
    /\ doing # {}
    /\ DropQueue
    /\ \E a \in [doing -> Answers] : PossibleAnswers(a) /\ ChildrenAnswer(a)
    /\ UNCHANGED succeeded

Abort == AbortIdle \/ AbortActive

-----------------------------------------------------------------------------
(* A pending executeNextSubTask() is delivered.                            *)

BaseQuiet == UNCHANGED <<kind, limit, done, failed, succeeded, child, bookVars>>

\* ConcurrentTask::executeNextSubTask has nothing to do: the job is not
\* running, every slot is taken, or the last children are still active.
NothingToDo ==
    /\ \/ state # "Running"
       \/ Cardinality(doing) >= limit
       \/ queue = <<>> /\ doing # {}
    /\ UNCHANGED <<state, signals, queue, doing, starts, heard>>

\* Faulty variant: the job succeeds once all children ended, failed or not.
ConcludeAnyway ==
    /\ state = "Running"
    /\ Cardinality(doing) < limit
    /\ queue = <<>>
    /\ doing = {}
    /\ Emit("Succeeded")
    /\ UNCHANGED <<queue, doing, starts, heard>>

\* Faulty variant: every wakeup that finds nothing left reports the outcome.
ConcludeAgain ==
    /\ Cardinality(doing) < limit
    /\ queue = <<>>
    /\ doing = {}
    /\ EmitUnguarded(IF failed = {} THEN "Succeeded" ELSE "Failed")
    /\ UNCHANGED <<queue, doing, starts, heard>>

Conclude ==
    /\ state = "Running"
    /\ Cardinality(doing) < limit
    /\ queue = <<>>
    /\ doing = {}
    /\ Emit(IF failed = {} THEN "Succeeded" ELSE "Failed")
    /\ UNCHANGED <<queue, doing, starts, heard>>

\* Faulty variant: the head is read, not dequeued.
StartSubTaskPeeking ==
    /\ state = "Running"
    /\ Cardinality(doing) < limit
    /\ queue # <<>>
    /\ doing' = doing \cup {Head(queue)}
    /\ heard' = heard \cup {Head(queue)}
    /\ starts' = starts \cup {Head(queue)}
    /\ UNCHANGED <<state, signals, queue>>

StartSubTask ==
    /\ state = "Running"
    /\ Cardinality(doing) < limit
    /\ queue # <<>>
    /\ queue' = Tail(queue)
    /\ doing' = doing \cup {Head(queue)}
    /\ heard' = heard \cup {Head(queue)}
    /\ starts' = starts \cup {Head(queue)}
    /\ UNCHANGED <<state, signals>>

\* MultipleOptionsTask::executeNextSubTask decides before it looks at the
\* active children.
OptionsDecided ==
    /\ kind = "options"
    /\ \/ /\ Cardinality(done) # Cardinality(failed)
          /\ Emit("Succeeded")
       \/ /\ Cardinality(done) = Cardinality(failed)
          /\ queue = <<>>
          /\ Emit("Failed")
    /\ UNCHANGED <<queue, doing, starts, heard>>

\* Faulty variant: another option is tried even if one has succeeded.
OptionsOpenAlways == queue # <<>>

OptionsOpen == /\ Cardinality(done) = Cardinality(failed)
               /\ queue # <<>>

ExecuteNextSubTask ==
    /\ wakeups > 0
    /\ wakeups' = wakeups - 1
    /\ BaseQuiet
    /\ \/ OptionsDecided
       \/ /\ kind = "options" => OptionsOpen
          /\ NothingToDo \/ Conclude \/ StartSubTask

-----------------------------------------------------------------------------
(* Steps of the children.                                                  *)

ChildStart(t) ==
    /\ t \in starts
    /\ starts' = starts \ {t}
    /\ child' = [child EXCEPT ![t] = "Running"]
    /\ UNCHANGED <<jobVars, heard, signals, bookVars>>

\* Which of a child's outcome signals still reach the job.
Reaches(t, outcome) == /\ t \in doing
                       /\ outcome = "AbortedByUser" => t \in heard

\* Faulty variant: no wakeup is posted when a child ends.
SubTaskFinishedSilently(t, outcome) ==
    /\ done' = done \cup {t}
    /\ IF outcome = "Succeeded"
       THEN succeeded' = succeeded \cup {t} /\ failed' = failed
       ELSE failed' = failed \cup {t} /\ succeeded' = succeeded
    /\ doing' = doing \ {t}
    /\ heard' = heard \ {t}
    /\ UNCHANGED <<kind, limit, queue, wakeups>>

SubTaskFinished(t, outcome) ==
    /\ done' = done \cup {t}
    /\ IF outcome = "Succeeded"
       THEN succeeded' = succeeded \cup {t} /\ failed' = failed
       ELSE failed' = failed \cup {t} /\ succeeded' = succeeded
    /\ doing' = doing \ {t}
    /\ heard' = heard \ {t}
    /\ wakeups' = wakeups + 1
    /\ UNCHANGED <<kind, limit, queue>>

\* SequentialTask::subTaskFailed fails the job as soon as a child fails.
SubTaskPolicy(outcome) ==
    IF kind = "sequential" /\ outcome # "Succeeded"
    THEN Emit("Failed")
    ELSE UNCHANGED <<state, signals>>

ChildEnd(t, outcome) ==
    /\ child[t] = "Running"
    /\ child' = [child EXCEPT ![t] = outcome]
    /\ UNCHANGED <<starts, bookVars>>
    /\ IF Reaches(t, outcome)
       THEN SubTaskFinished(t, outcome) /\ SubTaskPolicy(outcome)
       ELSE UNCHANGED <<jobVars, heard, signals>>

-----------------------------------------------------------------------------
Owner == \/ \E t \in Tasks : AddTask(t)
         \/ \E n \in Limits : SetMaxConcurrent(n)
         \/ Start
         \/ Clear
         \/ Abort

Child(t) == ChildStart(t) \/ \E o \in EndStates : ChildEnd(t, o)

Next == Owner \/ ExecuteNextSubTask \/ \E t \in Tasks : Child(t)

Spec == Init /\ [][Next]_vars

\* The event loop delivers what was posted to it, and a child that runs ends.
\* The owner is under no obligation.
Fairness == /\ WF_vars(ExecuteNextSubTask)
            /\ \A t \in Tasks : WF_vars(Child(t))

FairSpec == Spec /\ Fairness
-----------------------------------------------------------------------------
(* Properties.                                                             *)

\* Every variable has its type; the only invariant that says no more.
TypeOK ==
    /\ kind \in Kinds
    /\ state \in TaskStates
    /\ limit \in Limits
    /\ queue \in Seq(Tasks)
    /\ doing \subseteq Tasks
    /\ done \subseteq Tasks
    /\ failed \subseteq Tasks
    /\ succeeded \subseteq Tasks
    /\ wakeups \in Nat
    /\ starts \subseteq Tasks
    /\ heard \subseteq Tasks
    /\ child \in [Tasks -> TaskStates]
    /\ signals \in Seq(EndStates)
    /\ owed \in Seq(Tasks)
    /\ dropped \subseteq Tasks
    /\ lateAdd \in BOOLEAN
    /\ startCount \in Nat
    /\ abortCount \in Nat

Active == {t \in Tasks : child[t] = "Running"} \cup starts

\* However aborts, restarts and late answers interleave, every child that runs
\* or is about to run is one the job still counts, so no more than `limit'
\* children are ever active: ConcurrentTask::executeNextSubTask never starts
\* one above m_total_max_size even when an abort left old children behind.
LimitRespected == /\ Active \subseteq doing
                  /\ Cardinality(doing) <= limit

\* A task that abort() or clear() took off the queue never runs, whatever
\* wakeups were still waiting in the event loop at that moment.
DroppedNeverRuns == \A t \in dropped : child[t] = "Inactive" /\ t \notin starts

\* Where a task can be: queued once and untouched, counted as active, given up,
\* or ended with its outcome recorded.  No task is in two of these places, and
\* none that is still owed is lost between them.  (Inductive.)
EachTaskHasItsPlace ==
    /\ IsInjective(queue)
    /\ \A t \in ToSet(queue) : child[t] = "Inactive" /\ t \notin doing \cup dropped
    /\ \A t \in starts : child[t] = "Inactive" /\ t \in doing
    /\ \A t \in Tasks : child[t] = "Running" => t \in doing
    /\ \A t \in dropped : child[t] = "Inactive" /\ t \notin doing
    /\ ToSet(owed) \subseteq ToSet(queue) \cup doing \cup succeeded \cup failed
    /\ Cardinality(doing) <= limit
    /\ state = "Inactive" => doing = {}

\* If nobody calls abort() the job emits its outcome exactly once per start:
\* neither the spare wakeups left in the event loop nor SequentialTask's early
\* failure make it finish again.
FinishesOnce ==
    abortCount = 0 =>
        signals = IF state \in EndStates THEN <<state>> ELSE <<>>

\* SequentialTask starts a child only when every task added before it has
\* ended, also across restarts and aborted runs.
SequentialOrder ==
    kind # "concurrent" =>
        \A i, j \in DOMAIN owed :
            i < j /\ (child[owed[j]] # "Inactive" \/ owed[j] \in starts)
                => child[owed[i]] \in EndStates

\* MultipleOptionsTask tries an option only when every option before it has
\* failed: once one has succeeded no other is tried until the list is cleared.
OptionsStopAtSuccess ==
    kind = "options" =>
        \A i, j \in DOMAIN owed :
            i < j /\ (child[owed[j]] # "Inactive" \/ owed[j] \in starts)
                => child[owed[i]] \in {"Failed", "AbortedByUser"}

\* Each policy keeps its order of starts (SequentialTask, MultipleOptionsTask).
PolicyKept == SequentialOrder /\ OptionsStopAtSuccess

\* A job becomes Succeeded only in a step in which every task it still owes
\* has succeeded and none is active; tasks that failed in an earlier run of
\* the same list keep the job from succeeding.
SuccessIsEarned ==
    [][state # "Succeeded" /\ state' = "Succeeded" /\ kind # "options"
          => /\ ToSet(owed) \subseteq succeeded
             /\ Active = {}]_vars

\* The queue as a pool of work: every task is taken at most once, by a slot,
\* and leaves its slot only after it has run.
Pool == INSTANCE WorkPool WITH
            Items <- Tasks, waiting <- ToSet(queue), held <- doing,
            over <- {t \in Tasks : child[t] \in EndStates}
PoolSpec == Pool!Spec

\* A started job ends, provided that it still hears all children it counts:
\* the wakeups and the children's signals suffice to bring it to an end.
EventuallyEnds ==
    (state = "Running" /\ doing \subseteq heard) ~> (state # "Running")
=============================================================================
