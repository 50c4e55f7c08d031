-------------------------------- MODULE NetJob --------------------------------
(***************************************************************************)
(* launcher/net/NetJob: a ConcurrentTask whose children are downloads.  It *)
(* puts failed downloads back into its queue and tries again, asks the     *)
(* user before it gives up, follows changes of the setting                 *)
(* NumberOfConcurrentDownloads, and hands a whole queue to aria2.          *)
(*                                                                         *)
(* State and operations that NetJob does not override are those of         *)
(* ConcurrentTask.  The dialog that asks the user is not modal: the event  *)
(* loop goes on while it is open.                                          *)
(***************************************************************************)
EXTENDS ConcurrentTask

CONSTANTS
    MaxManual,    \* NumberOfManualRetries
    MaxChanges    \* bound: changes of NumberOfConcurrentDownloads

ASSUME NetJobAssumption == MaxManual \in Nat /\ MaxChanges \in Nat

VARIABLES
    dynamic,      \* m_dynamicMaxConcurrent
    delegated,    \* m_aria2Delegated
    setting,      \* the setting NumberOfConcurrentDownloads
    try,          \* m_try
    manual,       \* m_manual_try
    dialogs,      \* dialogs that are open and ask whether to try again
    changes       \* how often the setting was changed

settingVars == <<dynamic, setting, changes>>
askVars == <<manual, dialogs>>
netVars == <<delegated, try, settingVars, askVars>>
netJobVars == <<vars, netVars>>

NetInit ==
    /\ Init
    /\ dynamic \in BOOLEAN
    /\ delegated = FALSE
    /\ setting = limit
    /\ try = 1
    /\ manual = 0
    /\ dialogs = 0
    /\ changes = 0

\* refreshConfiguredConcurrency(): the limit the next decision is taken with.
RefreshedLimit == IF dynamic /\ ~delegated THEN setting ELSE limit

-----------------------------------------------------------------------------
(* The owner and the settings.                                             *)

\* A download is handed to a job once.
AddNetAction(t) == t \notin ToSet(owed) /\ AddTask(t) /\ UNCHANGED netVars

\* canDelegateWholeQueueToAria2(); whether aria2 is enabled is left open.
CanDelegate == queue # <<>> /\ doing = {} /\ done = {}

\* NetJob::executeTask.
StartJob ==
    /\ state # "Running"
    /\ startCount < MaxStarts
    /\ state' = "Running"
    /\ \/ /\ CanDelegate
          /\ delegated' = TRUE
          /\ limit' = Len(queue)
       \/ /\ delegated' = FALSE
          /\ limit' = IF dynamic THEN setting ELSE limit
    /\ wakeups' = wakeups + limit'
    /\ signals' = <<>>
    /\ lateAdd' = FALSE
    /\ startCount' = startCount + 1
    /\ UNCHANGED <<kind, queue, doing, done, failed, succeeded, childVars,
                   owed, dropped, abortCount, try, settingVars, askVars>>

\* A job that does not follow the setting never reads it.
ChangeSetting(n) ==
    /\ dynamic
    /\ changes < MaxChanges
    /\ n # setting
    /\ setting' = n
    /\ changes' = changes + 1

\* neo settings: the setting is stored and NetJob::applyRuntimeSettings()
\* posts a wakeup for every slot it opens.
ApplySettings(n) ==
    /\ ChangeSetting(n)
    /\ IF ~delegated
       THEN /\ limit' = n
            /\ wakeups' = IF state = "Running" /\ Cardinality(doing) < n
                          THEN wakeups + n - Cardinality(doing) ELSE wakeups
       ELSE UNCHANGED <<limit, wakeups>>
    /\ UNCHANGED <<kind, state, queue, doing, done, failed, succeeded,
                   childVars, signals, bookVars, dynamic, delegated, try,
                   askVars>>

\* LauncherPage stores the setting and tells nobody.
EditOnPage(n) ==
    /\ ChangeSetting(n)
    /\ UNCHANGED <<vars, dynamic, delegated, try, askVars>>

-----------------------------------------------------------------------------
(* NetJob::abort: what is queued counts as failed; every active download   *)
(* accepts.  One with a reply in the air ends at once, one whose start is  *)
(* pending or that waits for a retry of its own goes on until later.       *)

AbortJob ==
    /\ abortCount < MaxAborts
    /\ abortCount' = abortCount + 1
    /\ queue' = <<>>
    /\ \E ended \in SUBSET {t \in doing : child[t] = "Running"} :
          /\ child' = [t \in Tasks |-> IF t \in ended THEN "AbortedByUser" ELSE child[t]]
          /\ doing' = doing \ ended
          /\ heard' = heard \ ended
          /\ done' = done \cup ended
          /\ failed' = failed \cup ToSet(queue) \cup ended
          /\ wakeups' = wakeups + Cardinality(ended)
    /\ Emit("AbortedByUser")
    /\ UNCHANGED <<kind, limit, succeeded, starts, owed, dropped, lateAdd,
                   startCount, netVars>>

-----------------------------------------------------------------------------
(* NetJob::executeNextSubTask.  It is delivered from the event loop, or    *)
(* called when the user asks for another try; d dialogs are open then, and *)
(* m_try is `tries'.                                                       *)

TakeFirst(q) ==
    /\ queue' = Tail(q)
    /\ doing' = doing \cup {Head(q)}
    /\ heard' = heard \cup {Head(q)}
    /\ starts' = starts \cup {Head(q)}

Take(q, d) ==
    /\ TakeFirst(q)
    /\ dialogs' = d
    /\ UNCHANGED <<state, signals, manual>>

CanRetry(tries) ==
    state = "Running" /\ queue = <<>> /\ doing = {} /\ failed # {} /\ tries < 3

\* Faulty variant: only one failed download is queued again.
RetryOne(tries, d) ==
    /\ CanRetry(tries)
    /\ try' = tries + 1
    /\ failed' = {}
    /\ done' = done \ failed
    /\ \E t \in failed : Take(<<t>>, d)

\* Every failed download is queued again, in the order of a hash table.
Retry(tries, d) ==
    /\ CanRetry(tries)
    /\ try' = tries + 1
    /\ failed' = {}
    /\ done' = done \ failed
    /\ \E q \in SetToSeqs(failed) : Take(q, d)

\* NetJob::emitFailed: ask the user (unless there is no one to ask, the network
\* is down, or the user was asked often enough), or fail.
EmitFailed(d) ==
    \/ /\ manual < MaxManual
       /\ manual' = manual + 1
       /\ dialogs' = d + 1
       /\ UNCHANGED <<state, signals>>
    \/ /\ Emit("Failed")
       /\ dialogs' = d
       /\ UNCHANGED manual

StartNext(d) ==
    /\ state = "Running"
    /\ queue # <<>>
    /\ Cardinality(doing) < RefreshedLimit
    /\ Take(queue, d)

\* Faulty variant: failed downloads do not keep the job from succeeding.
ConcludeJobAnyway(tries, d) ==
    /\ state = "Running" /\ queue = <<>> /\ doing = {}
    /\ ~CanRetry(tries)
    /\ Emit("Succeeded") /\ dialogs' = d
    /\ UNCHANGED <<queue, doing, heard, starts, manual>>

ConcludeJob(tries, d) ==
    /\ state = "Running" /\ queue = <<>> /\ doing = {}
    /\ ~CanRetry(tries)
    /\ IF failed = {} THEN Emit("Succeeded") /\ dialogs' = d /\ UNCHANGED manual
                      ELSE EmitFailed(d)
    /\ UNCHANGED <<queue, doing, heard, starts>>

Nothing(d) ==
    /\ \/ state # "Running"
       \/ queue # <<>> /\ Cardinality(doing) >= RefreshedLimit
       \/ queue = <<>> /\ doing # {}
    /\ dialogs' = d
    /\ UNCHANGED <<state, signals, manual, queue, doing, heard, starts>>

NextSubTask(tries, d) ==
    /\ limit' = RefreshedLimit
    /\ \/ Retry(tries, d)
       \/ /\ StartNext(d) \/ ConcludeJob(tries, d) \/ Nothing(d)
          /\ try' = tries
          /\ UNCHANGED <<failed, done>>
    /\ UNCHANGED <<kind, succeeded, child, bookVars, delegated, settingVars>>

\* A wakeup is delivered.
NetExecuteNextSubTask ==
    /\ wakeups > 0
    /\ wakeups' = wakeups - 1
    /\ NextSubTask(try, dialogs)

\* The user answers a dialog with "retry", or with anything else.
DialogAccepted ==
    /\ dialogs > 0
    /\ NextSubTask(0, dialogs - 1)
    /\ UNCHANGED wakeups

DialogRejected ==
    /\ dialogs > 0
    /\ dialogs' = dialogs - 1
    /\ Emit("Failed")
    /\ UNCHANGED <<kind, limit, queue, doing, done, failed, succeeded, wakeups,
                   childVars, bookVars, delegated, try, settingVars, manual>>

\* Steps of the downloads, as ConcurrentTask hears of them.
Download(t) == Child(t) /\ UNCHANGED netVars

-----------------------------------------------------------------------------
JobOwner == \/ \E t \in Tasks : AddNetAction(t)
            \/ StartJob
            \/ AbortJob

User == \/ \E n \in Limits : ApplySettings(n) \/ EditOnPage(n)
        \/ DialogAccepted
        \/ DialogRejected

NetNext == JobOwner \/ User \/ NetExecuteNextSubTask \/ \E t \in Tasks : Download(t)

NetSpec == NetInit /\ [][NetNext]_netJobVars

\* The event loop delivers wakeups, and a download that runs ends (it has a
\* transfer timeout).  No user is obliged to answer.
NetFairness == /\ WF_netJobVars(NetExecuteNextSubTask)
               /\ \A t \in Tasks : WF_netJobVars(Download(t))

NetFairSpec == NetSpec /\ NetFairness
-----------------------------------------------------------------------------
(* Properties.                                                             *)

\* Retries, aborts and restarts neither lose a download nor duplicate it: each
\* one handed to the job is queued once, active, failed or has succeeded, and
\* nothing is in two of these places.
NoDownloadLost ==
    /\ IsInjective(queue)
    /\ ToSet(owed) \subseteq ToSet(queue) \cup doing \cup failed \cup succeeded
    /\ ToSet(queue) \cap (doing \cup failed \cup succeeded) = {}
    /\ doing \cap (failed \cup succeeded) = {}
    /\ failed \cap succeeded = {}

\* A job succeeds only when every download it was given has succeeded, in the
\* first or in a later try, in this run or in an earlier one.
AllDownloaded ==
    [][state # "Succeeded" /\ state' = "Succeeded"
          => ToSet(owed) \subseteq succeeded /\ Active = {}]_netJobVars

\* A running job ends or asks the user, also after an abort and a new start.
EndsOrAsks == state = "Running" ~> (state # "Running" \/ dialogs > 0)
=============================================================================
