--------------------------------- MODULE Server ---------------------------------
(***************************************************************************)
(* A server instance (ServerInstance, ServerLaunchTask): users launch it   *)
(* through Application::launch and a LaunchController, clients of the API  *)
(* start and stop it directly, and both kinds of callers meet at the one   *)
(* launch task that the instance owns.  A task is made anew for each start *)
(* and the task before it is destroyed; its process runs in a pseudo-      *)
(* terminal and outlives whoever forgets to kill it.                       *)
(*                                                                         *)
(* Tasks are numbered; `task' is the last, the one m_launchProcess owns.   *)
(***************************************************************************)
EXTENDS Integers

CONSTANTS
    MaxTasks,    \* bound: launch tasks made
    MaxLaunches  \* bound: calls of Application::launch

ASSUME ServerAssumption == MaxTasks \in Nat /\ MaxLaunches \in Nat

VARIABLES
    app,       \* the launcher: "Runs", "Exiting", "Gone", "Crashed"
    windows,   \* m_openWindows
    count,     \* m_runningInstances
    ctl,       \* the instance's controller: "None", "Queued", "Launched"
    launcher,  \* its m_launcher, 0 for none; a task that has been destroyed dangles
    asking,    \* its question whether to kill: "No", "Open", "Orphaned" if it has been deleted
    running,   \* m_isRunning of the instance
    task,      \* the number of the last task, 0 if there was none
    state,     \* its state as a Task
    aborted,   \* its LaunchTask::state is Aborted
    finished,  \* its m_finished
    pty,       \* it has an m_ptyProcess
    procs,     \* the process of each task: "None", "Alive", "Dying", "Dead"
    launches   \* bound: how often a user launched

appVars == <<app, windows, count>>
ctlVars == <<ctl, launcher, asking>>
taskVars == <<running, task, state, aborted, finished, pty, procs>>
serverVars == <<appVars, ctlVars, taskVars, launches>>

Tasks == 1 .. MaxTasks
Up == app \in {"Runs", "Exiting"}
CanStop == pty /\ ~finished
Alive(t) == procs[t] = "Alive"

ServerInit ==
    /\ app = "Runs" /\ windows \in 0 .. 1 /\ count = 0
    /\ ctl = "None" /\ launcher = 0 /\ asking = "No"
    /\ running = FALSE /\ task = 0 /\ state = "Inactive"
    /\ aborted = FALSE /\ finished = FALSE /\ pty = FALSE
    /\ procs = [t \in Tasks |-> "None"]
    /\ launches = 0

-----------------------------------------------------------------------------
(* Pieces of handlers. *)

Killed(p) == [t \in Tasks |-> IF t = task /\ p[t] = "Alive" THEN "Dying" ELSE p[t]]

\* Faulty variant: the destructor trusts that the task was stopped before.
DestroyedOnly(p) == p

\* cleanup() in the destructor of the last task: only a task that has not finished is killed.
Destroyed(p) == IF CanStop THEN Killed(p) ELSE p

\* The controller is deleted; a question of its own may still be open.
Deleted == IF asking = "Open" THEN "Orphaned" ELSE asking

ControllerEnds ==
    /\ ctl' = "None" /\ launcher' = 0 /\ asking' = Deleted
    /\ count' = IF count = 0 THEN 0 ELSE count - 1
    /\ app' = IF count' = 0 /\ windows = 0 THEN "Exiting" ELSE app

\* createLaunchTask() and executeTask() of the new task, which destroys the last one.
Starts ==
    /\ task < MaxTasks
    /\ task' = task + 1
    /\ aborted' = FALSE /\ finished' = FALSE
    /\ running' = TRUE /\ state' = "Running" /\ pty' = TRUE
    /\ procs' = [Destroyed(procs) EXCEPT ![task + 1] = "Alive"]

\* The same if there is no terminal, or no process.
FailsToStart ==
    /\ task < MaxTasks
    /\ task' = task + 1
    /\ aborted' = FALSE /\ finished' = FALSE
    /\ running' = FALSE /\ state' = "Failed" /\ pty' \in BOOLEAN
    /\ procs' = Destroyed(procs)

\* stopServer() and ServerLaunchTask::stop(), of which nobody is told.
Stops ==
    IF CanStop
    THEN /\ finished' = TRUE /\ running' = FALSE /\ procs' = Killed(procs)
         /\ UNCHANGED <<task, state, aborted, pty>>
    ELSE UNCHANGED taskVars

-----------------------------------------------------------------------------
(* Users. *)

\* Application::launch: a controller that is still there is replaced and never counted off.
Launch ==
    /\ Up /\ launches < MaxLaunches
    /\ ~running
    /\ ctl' = "Queued" /\ launcher' = 0 /\ asking' = Deleted
    /\ count' = count + 1
    /\ launches' = launches + 1
    /\ UNCHANGED <<app, windows, taskVars>>

\* The queued start of the controller.  The settings may be wrong, or the server fails.
StartController ==
    /\ Up /\ ctl = "Queued"
    /\ \/ /\ Starts
          /\ ctl' = "Launched" /\ launcher' = task'
          /\ UNCHANGED <<asking, appVars>>
       \/ FailsToStart /\ ControllerEnds /\ UNCHANGED windows
       \/ ControllerEnds /\ UNCHANGED <<windows, taskVars>>
    /\ UNCHANGED launches

\* abort() of a launch task of which no step was ever started: the state changes, and the
\* task tells that it was aborted, which no controller listens to.  The server goes on.
AbortTask ==
    /\ aborted' = TRUE
    /\ state' = IF state = "Running" /\ ~aborted THEN "AbortedByUser" ELSE state
    /\ UNCHANGED <<running, task, finished, pty, procs>>

\* What an access to a deleted object may do: nothing, or reach the task that lies there
\* now, or end the launcher.
Undefined ==
    \/ UNCHANGED <<app, taskVars>>
    \/ AbortTask /\ UNCHANGED app
    \/ app' = "Crashed" /\ UNCHANGED taskVars

\* Application::kill: the controller asks first, if the task can be aborted.
Kill ==
    /\ Up /\ running /\ asking = "No"
    /\ \/ ctl = "None" /\ AbortTask /\ UNCHANGED <<app, asking>>
       \/ ctl = "Launched" /\ launcher = task /\ ~aborted /\ asking' = "Open"
            /\ UNCHANGED <<app, taskVars>>
       \/ ctl = "Launched" /\ launcher # task /\ asking' \in {"No", "Open"} /\ Undefined
    /\ UNCHANGED <<windows, count, ctl, launcher, launches>>

\* The user answers.  The server may have ended, or another started, in the meantime.
Answered ==
    /\ Up /\ asking # "No"
    /\ asking' = "No"
    /\ \/ UNCHANGED <<app, taskVars>>
       \/ asking = "Open" /\ launcher = task /\ AbortTask /\ UNCHANGED app
       \/ (asking = "Orphaned" \/ launcher # task) /\ Undefined
    /\ UNCHANGED <<windows, count, ctl, launcher, launches>>

OpenWindow ==
    /\ app = "Runs" /\ windows = 0
    /\ windows' = 1
    /\ UNCHANGED <<app, count, ctlVars, taskVars, launches>>

CloseWindow ==
    /\ Up /\ windows = 1
    /\ windows' = 0
    /\ app' = IF count = 0 THEN "Exiting" ELSE app
    /\ UNCHANGED <<count, ctlVars, taskVars, launches>>

-----------------------------------------------------------------------------
(* The API, and the end of the launcher. *)

\* startServer(), by server.start.
StartServer ==
    /\ Up /\ ~running
    /\ Starts \/ FailsToStart
    /\ UNCHANGED <<appVars, ctlVars, launches>>

\* stopServer(), by instance.stop and instance.kill.
StopServer ==
    /\ Up /\ running
    /\ Stops
    /\ UNCHANGED <<appVars, ctlVars, launches>>

\* The event loop has ended: running servers are stopped.
AboutToQuit ==
    /\ app = "Exiting"
    /\ app' = "Gone"
    /\ IF running THEN Stops ELSE UNCHANGED taskVars
    /\ UNCHANGED <<windows, count, ctlVars, launches>>

-----------------------------------------------------------------------------
(* The process. *)

ProcessEnds(t) ==
    /\ procs[t] \in {"Alive", "Dying"}
    /\ procs' = [procs EXCEPT ![t] = "Dead"]
    /\ UNCHANGED <<appVars, ctlVars, running, task, state, aborted, finished, pty, launches>>

\* Faulty variant: an end of a task that is over already is not passed on to the instance.
HeardIfRunning == CanStop /\ procs[task] = "Dead" /\ state = "Running"

\* The end of the process is there to be noticed.
Heard == CanStop /\ procs[task] = "Dead"

\* onPtyExit(), of the terminal or of the timer that looks every half second.  A task
\* that was aborted is over, and its end reaches no controller.
PtyExit ==
    /\ Up /\ task > 0 /\ Heard
    /\ finished' = TRUE /\ pty' = FALSE /\ running' = FALSE
    /\ state' = IF state = "Running" THEN "Succeeded" ELSE state
    /\ IF state = "Running" /\ ctl = "Launched" /\ launcher = task
       THEN ControllerEnds ELSE UNCHANGED <<app, count, ctlVars>>
    /\ UNCHANGED <<windows, task, aborted, procs, launches>>

ServerNext ==
    \/ Launch \/ StartController \/ Kill \/ Answered \/ OpenWindow \/ CloseWindow
    \/ StartServer \/ StopServer \/ AboutToQuit
    \/ \E t \in Tasks : ProcessEnds(t)
    \/ PtyExit

ServerSpec == ServerInit /\ [][ServerNext]_serverVars

\* The timer fires.
ServerFairSpec == ServerSpec /\ WF_serverVars(PtyExit)

-----------------------------------------------------------------------------
\* A server that lives is in hand: it belongs to the task the instance has, the instance
\* counts as running, and its task can be stopped, so that the next start, a stop and the
\* end of the launcher reach it; whoever started it, and whatever else was asked for
\* meanwhile (ServerLaunchTask::cleanup, stop; Application::aboutToQuit).
ServerInHand ==
    \A t \in Tasks : Alive(t) => t = task /\ running /\ CanStop /\ app # "Gone"

\* The launcher does not exit under a server that a user launched (Application::shouldExitNow).
LaunchedIsCounted ==
    task > 0 /\ Alive(task) /\ launcher = task => count > 0

\* Both: a server is kept, by its instance and by the launcher.
ServerIsKept == ServerInHand /\ LaunchedIsCounted

\* The end of a server is noticed, also of one that a user tried to kill: the instance does
\* not count as running for ever (ServerLaunchTask::checkProcessExit, emitSucceeded).
EndIsNoticed ==
    \A t \in Tasks :
        (running /\ task = t /\ procs[t] = "Dead") ~> (~running \/ task # t \/ app = "Crashed")
=============================================================================
