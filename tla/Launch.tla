-------------------------------- MODULE Launch --------------------------------
(***************************************************************************)
(* The launch of one Minecraft instance: Application::launch, the          *)
(* LaunchController it makes, the LaunchTask with its steps, the processes *)
(* the steps run, and what the launch holds while it lasts: the running    *)
(* flag and the play time of the instance, the use lock of the account,    *)
(* the extracted natives, and the launcher's count of running instances.   *)
(*                                                                         *)
(* A step that ends calls onStepFinished(), which starts the next step at  *)
(* once; a step may end inside its own start.  One action therefore passes *)
(* over every step that ends at once, up to the one that waits or the end. *)
(***************************************************************************)
EXTENDS Integers, Sequences, FiniteSets

CONSTANTS
    LaunchOptions, \* the combinations of settings and session launches are made with
    MaxLaunches,  \* bound: calls of Application::launch
    MaxAborts     \* bound: aborts by the user

\* The kinds of steps, by how they end and what abort() does to them.
Kinds ==
    {"quick",     \* ends inside executeTask: TextPrint, VerifyJavaInstall, ...
     "hold",      \* so too, with something finalize() gives back: ClaimAccount, ExtractNatives
     "check",     \* may wait and cannot be aborted: CheckJava, ScanModFolders, the memory
                  \* check's question
     "download",  \* Nide8AuthDownloadTask
     "lookup",    \* LookupServerAddress
     "task",      \* TaskStepWrapper around an update task
     "java",      \* AutoInstallJava
     "auth",      \* AuthlibInjectorDownloadTask
     "command",   \* PreLaunchCommand, PostLaunchCommand
     "game",      \* LauncherPartLaunch
     "quit"}      \* QuitAfterGameStop

\* What createLaunchTask() looks at.
Flags == {"join", "yggdrasil", "unifiedPass", "preLaunch", "appendPreLaunch", "offline",
          "postExit", "quitAfter"}

ASSUME LaunchAssumption ==
    /\ MaxLaunches \in Nat /\ MaxAborts \in Nat
    /\ LaunchOptions \subseteq SUBSET Flags

\* The steps of a launch.  A quick step next to one that may also end or fail at
\* once adds nothing and is left out.
CreateLaunchTask(o) ==
    LET If(flag, kinds) == IF flag \in o THEN kinds ELSE <<>> IN
    <<"quick">> \o If("join", <<"lookup">>) \o <<"task", "java", "check">>
    \o If("yggdrasil", <<"auth">>) \o If("unifiedPass", <<"download">>)
    \o If("preLaunch", <<"command">>) \o If("appendPreLaunch", <<"command">>)
    \o (IF "offline" \in o THEN <<"quick">> ELSE <<"hold", "task">>)
    \o <<"check", "hold", "game">>
    \o If("postExit", <<"command">>) \o If("quitAfter", <<"quit">>)

VARIABLES
    ctl,          \* the instance's controller: "None", "Queued", "Login", "Launched"
    count,        \* m_runningInstances
    windows,      \* m_openWindows
    quitting,     \* the application has been told to exit
    steps,        \* m_steps
    step,         \* currentStep + 1
    lstate,       \* LaunchTask::state
    task,         \* the launch as a Task
    isRunning,    \* m_isRunning of the instance
    crashed,      \* its crashed flag
    held,         \* the steps whose effect finalize() has still to undo
    retryable,    \* the authlib step asks a mirror and has the official source left
    proc,         \* the process of the current step: "None", "Starting", "Running"
    killed,       \* m_is_aborting of that process
    told,         \* what the game's Java was told: "nothing", "launch", "abort"
    profiler,     \* "None", "Attaching", "Asking", "Attached"
    timed,        \* the launch m_timeStarted is of, 0 if none
    launches,     \* history: the number of launches
    aborts,       \* bound: how often the user aborted
    played,       \* history: the launches whose game was told to start
    counted,      \* history: the launches whose end added play time
    cancelled,    \* history: this launch accepted an abort
    swallowed     \* history: the step that accepted it went on

appVars == <<ctl, count, windows, quitting>>
taskVars == <<steps, step, lstate, task, isRunning, crashed, held, retryable>>
procVars == <<proc, killed, told, profiler>>
timeVars == <<timed, played, counted>>
bookVars == <<launches, aborts, cancelled, swallowed>>
vars == <<appVars, taskVars, procVars, timeVars, bookVars>>

EndsAtOnce == {"quick", "hold", "check", "task", "java", "auth", "download"}
FailsAtOnce == {"quick", "hold", "check", "task", "java", "auth", "game"}
Waits == Kinds \ {"quick", "hold"}
Runs == {"command", "game"}
Answered == Waits \ (Runs \cup {"quit"})

Kind == steps[step]
Active == task = "Running"
InGame == Active /\ Kind = "game"

\* The game itself runs: Java has the word to start it and nobody killed it.
Playing == InGame /\ proc = "Running" /\ told = "launch" /\ ~killed

Init ==
    /\ ctl = "None"
    /\ count = 0
    /\ windows = 1
    /\ quitting = FALSE
    /\ steps = <<>>
    /\ step = 0
    /\ lstate = "NotStarted"
    /\ task = "Inactive"
    /\ isRunning = FALSE
    /\ crashed = FALSE
    /\ held = {}
    /\ retryable = FALSE
    /\ proc = "None" /\ killed = FALSE /\ told = "nothing" /\ profiler = "None"
    /\ timed = 0 /\ played = {} /\ counted = {}
    /\ launches = 0 /\ aborts = 0
    /\ cancelled = FALSE /\ swallowed = FALSE

-----------------------------------------------------------------------------
(* Ends.                                                                   *)

\* Application::controllerFinished: one less is running, and without windows
\* the application exits.
ControllerEnds ==
    /\ ctl' = "None"
    /\ count' = IF count = 0 THEN 0 ELSE count - 1
    /\ quitting' = (quitting \/ (count' = 0 /\ windows = 0))
    /\ profiler' = "None"

\* finalizeSteps() up to the end of the launch; the controller hears of it in
\* the same call.  LaunchTask::state stays what it was.
LaunchEnds(ok) ==
    /\ task' = IF ok THEN "Succeeded" ELSE "Failed"
    /\ isRunning' = FALSE
    /\ crashed' = (crashed \/ ~ok)
    /\ held' = {}
    /\ proc' = "None" /\ killed' = FALSE /\ told' = "nothing"
    /\ IF ctl = "Launched" THEN ControllerEnds
       ELSE UNCHANGED <<ctl, count, quitting, profiler>>

\* A wrapped task asks for progress when it starts, AutoInstallJava when it waits.
AsksForProgress(list, i, waits) == list[i] = "task" \/ (list[i] = "java" /\ waits)

\* Step j of the list waits: an answer is awaited, or its process is starting.
StepWaits(list, j) ==
    /\ task' = "Running"
    /\ held' = held \cup {i \in step + 1 .. j : list[i] = "hold"}
    /\ retryable' = (list[j] = "auth")
    /\ proc' = IF list[j] \in Runs THEN "Starting" ELSE "None"
    /\ killed' = FALSE /\ told' = "nothing"
    /\ quitting' = (quitting \/ list[j] = "quit")
    /\ UNCHANGED <<ctl, count, crashed, isRunning, profiler>>

\* onStepFinished() after step `step' of the list has succeeded: the steps up to
\* j - 1 succeed inside their start, and j waits, fails at once, or there is none.
Advance(list, aborting) ==
    \E j \in step + 1 .. Len(list) + 1 :
        /\ \A i \in step + 1 .. j - 1 : list[i] \in EndsAtOnce
        /\ \E waits \in BOOLEAN :
              /\ waits => j <= Len(list) /\ list[j] \in Waits
              /\ (~waits /\ j <= Len(list)) => list[j] \in FailsAtOnce
              /\ IF waits THEN StepWaits(list, j)
                 ELSE LaunchEnds(j > Len(list)) /\ retryable' = FALSE
              /\ step' = IF j > Len(list) THEN Len(list) ELSE j
              /\ lstate' = IF aborting THEN "Aborted"
                           ELSE IF \E i \in step + 1 .. step' :
                                      AsksForProgress(list, i, waits /\ i = j)
                                THEN "Waiting" ELSE lstate

-----------------------------------------------------------------------------
(* The application and the controller.                                     *)

\* Application::launch.  A controller that is still in its login is replaced,
\* and ends without a word.
LaunchInstance ==
    /\ ~isRunning
    /\ launches < MaxLaunches
    /\ launches' = launches + 1
    /\ ctl' = "Queued"
    /\ count' = count + 1
    /\ UNCHANGED <<windows, quitting, taskVars, procVars, timeVars, aborts,
                   cancelled, swallowed>>

\* LaunchController::executeTask: it fails at once or goes on to login().
StartController ==
    /\ ctl = "Queued"
    /\ \/ ctl' = "Login" /\ UNCHANGED <<count, quitting, profiler>>
       \/ ControllerEnds
    /\ UNCHANGED <<windows, taskVars, proc, killed, told, timeVars, bookVars>>

\* login() gives up, or launchInstance() cannot load the instance.
LoginFails ==
    /\ ctl = "Login"
    /\ ControllerEnds
    /\ UNCHANGED <<windows, taskVars, proc, killed, told, timeVars, bookVars>>

\* launchInstance(): the launch task is made, which marks the instance as running,
\* and started; its first steps end at once.
Start(list) ==
    /\ steps' = list
    /\ cancelled' = FALSE /\ swallowed' = FALSE
    /\ \E j \in 1 .. Len(list) :
          /\ \A i \in 1 .. j - 1 : list[i] \in EndsAtOnce
          /\ step' = j
          /\ \/ /\ list[j] \in Waits
                /\ task' = "Running"
                /\ ctl' = "Launched"
                /\ isRunning' = TRUE
                /\ crashed' = FALSE
                /\ held' = {i \in 1 .. j : list[i] = "hold"}
                /\ retryable' = (list[j] = "auth")
                /\ proc' = IF list[j] \in Runs THEN "Starting" ELSE "None"
                /\ lstate' = IF \E i \in 1 .. j : AsksForProgress(list, i, i = j)
                             THEN "Waiting" ELSE "Running"
                /\ UNCHANGED <<count, quitting, profiler>>
             \/ /\ list[j] \in FailsAtOnce
                /\ task' = "Failed"
                /\ isRunning' = FALSE
                /\ crashed' = TRUE
                /\ held' = {}
                /\ retryable' = FALSE
                /\ proc' = "None"
                /\ lstate' = IF \E i \in 1 .. j : AsksForProgress(list, i, FALSE)
                             THEN "Waiting" ELSE "Running"
                /\ ControllerEnds
    /\ killed' = FALSE /\ told' = "nothing"

LoginSucceeds ==
    /\ ctl = "Login"
    /\ \E o \in LaunchOptions : Start(CreateLaunchTask(o))
    /\ UNCHANGED <<windows, timeVars, launches, aborts>>

\* showMainWindow, on_windowClose.
OpenWindow ==
    /\ windows = 0
    /\ windows' = 1
    /\ UNCHANGED <<ctl, count, quitting, taskVars, procVars, timeVars, bookVars>>

CloseWindow ==
    /\ windows = 1
    /\ windows' = 0
    /\ quitting' = (count = 0)
    /\ UNCHANGED <<ctl, count, taskVars, procVars, timeVars, bookVars>>

-----------------------------------------------------------------------------
(* Steps that wait for an answer.                                          *)

StepSucceeds ==
    /\ Active /\ Kind \in Answered
    /\ Advance(steps, FALSE)
    /\ UNCHANGED <<windows, steps, timeVars, bookVars>>

StepFails ==
    /\ Active /\ Kind \in {"check", "task", "java", "auth", "download"}
    /\ LaunchEnds(FALSE)
    /\ retryable' = FALSE
    /\ UNCHANGED <<windows, steps, step, lstate, timeVars, bookVars>>

\* The authlib step asks the official source after the mirror, or has its answer
\* and fetches the jar.
AuthGoesOn ==
    /\ Active /\ retryable
    /\ retryable' = FALSE
    /\ UNCHANGED <<appVars, steps, step, lstate, task, isRunning, crashed, held,
                   procVars, timeVars, bookVars>>

-----------------------------------------------------------------------------
(* Steps that run a process.                                               *)

\* LaunchTask::proceed() and LauncherPartLaunch::proceed(): the game may start,
\* and its time runs from here.
Proceed ==
    /\ told' = "launch"
    /\ timed' = launches
    /\ played' = played \cup {launches}

ProcessFailsToStart ==
    /\ Active /\ proc = "Starting"
    /\ LaunchEnds(FALSE)
    /\ UNCHANGED <<windows, steps, step, lstate, retryable, timeVars, bookVars>>

CommandRuns ==
    /\ Active /\ Kind = "command" /\ proc = "Starting"
    /\ proc' = "Running"
    /\ UNCHANGED <<appVars, taskVars, killed, told, profiler, timeVars, bookVars>>

\* Java is up and has the launch script: LauncherPartLaunch::on_state(Running),
\* onReadyForLaunch() and LaunchController::readyForLaunch().
GameIsReady ==
    /\ InGame /\ proc = "Starting"
    /\ proc' = "Running"
    /\ \/ /\ lstate' = "Waiting"                 \* no profiler
          /\ Proceed
          /\ UNCHANGED <<ctl, count, quitting, profiler>>
       \/ /\ lstate' = "Waiting"                 \* the profiler is asked to attach
          /\ profiler' = "Attaching"
          /\ UNCHANGED <<ctl, count, quitting, told, timed, played>>
       \/ /\ lstate' = "Aborted"                 \* the profiler cannot be used
          /\ told' = "abort"
          /\ ControllerEnds
          /\ UNCHANGED <<timed, played>>
    /\ UNCHANGED <<windows, steps, step, task, isRunning, crashed, held, retryable,
                   killed, counted, bookVars>>

\* The profiler is ready and the user is asked.
ProfilerReady ==
    /\ profiler = "Attaching"
    /\ profiler' = "Asking"
    /\ UNCHANGED <<appVars, taskVars, proc, killed, told, timeVars, bookVars>>

\* Faulty variant: proceed() does not look at the state.
ProfilerAnsweredAnyway ==
    /\ profiler = "Asking"
    /\ profiler' = "Attached"
    /\ IF InGame THEN Proceed ELSE UNCHANGED <<told, timed, played>>
    /\ UNCHANGED <<appVars, taskVars, proc, killed, counted, bookVars>>

\* The user goes on.  proceed() does nothing unless the launch waits for it.
ProfilerAnswered ==
    /\ profiler = "Asking"
    /\ profiler' = "Attached"
    /\ IF lstate = "Waiting" /\ InGame /\ told = "nothing" THEN Proceed
       ELSE UNCHANGED <<told, timed, played>>
    /\ UNCHANGED <<appVars, taskVars, proc, killed, counted, bookVars>>

\* abort() of a step with a process: a Java that waits is told to give up, any
\* other process is killed.
AbortProcess ==
    IF Kind = "game" /\ proc = "Running" /\ told = "nothing"
    THEN told' = "abort" /\ UNCHANGED killed
    ELSE killed' = TRUE /\ UNCHANGED told

\* Faulty variant: the controller fails and leaves the launch alone.
ProfilerCrashesUnheard ==
    /\ profiler # "None"
    /\ Active
    /\ ControllerEnds
    /\ UNCHANGED <<windows, taskVars, proc, killed, told, timeVars, bookVars>>

\* The profiler dies: the launch is aborted and its controller fails.
ProfilerCrashes ==
    /\ profiler # "None"
    /\ Active
    /\ IF lstate \in {"Running", "Waiting"} /\ Kind \in Runs
       THEN AbortProcess /\ lstate' = "Aborted"
       ELSE UNCHANGED <<killed, told, lstate>>
    /\ ControllerEnds
    /\ UNCHANGED <<windows, steps, step, task, isRunning, crashed, held, retryable,
                   proc, timeVars, bookVars>>

CommandEnds(ok) ==
    /\ Active /\ Kind = "command"
    /\ IF ok THEN proc = "Running" /\ ~killed ELSE proc = "Running" \/ killed
    /\ IF ok THEN Advance(steps, FALSE)
       ELSE LaunchEnds(FALSE) /\ UNCHANGED <<step, lstate, retryable>>
    /\ UNCHANGED <<windows, steps, timeVars, bookVars>>

\* Faulty variant: a crash of the game does not stop the clock.
GameEndsUncounted(ok) ==
    /\ InGame
    /\ IF ok THEN Playing ELSE proc = "Running" \/ killed
    /\ counted' = IF ok THEN counted \cup {timed} ELSE counted
    /\ IF ok THEN Advance(steps, FALSE)
       ELSE LaunchEnds(FALSE) /\ UNCHANGED <<step, lstate, retryable>>
    /\ UNCHANGED <<windows, steps, timed, played, bookVars>>

\* The end of the game's process adds the time since m_timeStarted.  A Java that
\* was told to give up exits with an error.
GameEnds(ok) ==
    /\ InGame
    /\ IF ok THEN Playing ELSE proc = "Running" \/ killed
    /\ counted' = counted \cup {timed}
    /\ IF ok THEN Advance(steps, FALSE)
       ELSE LaunchEnds(FALSE) /\ UNCHANGED <<step, lstate, retryable>>
    /\ UNCHANGED <<windows, steps, timed, played, bookVars>>

-----------------------------------------------------------------------------
(* Application::kill, LaunchController::abort and LaunchTask::abort: the   *)
(* current step is aborted, then the launch is marked as aborted, whatever *)
(* the step has made of it.                                                *)

Abort(kinds) ==
    /\ isRunning
    /\ ctl = "Launched"
    /\ Active /\ Kind \in kinds
    /\ lstate \in {"Running", "Waiting"}
    /\ aborts < MaxAborts
    /\ aborts' = aborts + 1
    /\ cancelled' = TRUE
    /\ UNCHANGED <<windows, steps, timeVars, launches>>

\* These steps end with their abort.
AbortStep ==
    /\ Abort({"download", "task", "java", "auth"})
    /\ ~retryable
    /\ LaunchEnds(FALSE)
    /\ lstate' = "Aborted"
    /\ UNCHANGED <<step, retryable, swallowed>>

\* A process is told or killed; its end comes later.
AbortRun ==
    /\ Abort(Runs)
    /\ AbortProcess
    /\ lstate' = "Aborted"
    /\ UNCHANGED <<ctl, count, quitting, step, task, isRunning, crashed, held,
                   retryable, proc, profiler, swallowed>>

\* The lookup's abort makes it announce an end, which resolves the address and
\* ends the step well; the next one starts.
AbortLookup ==
    /\ Abort({"lookup"})
    /\ Advance(steps, TRUE)
    /\ swallowed' = TRUE

\* The aborted answer of the mirror makes the authlib step ask the official source.
AbortAuthRetry ==
    /\ Abort({"auth"})
    /\ retryable
    /\ retryable' = FALSE
    /\ lstate' = "Aborted"
    /\ swallowed' = TRUE
    /\ UNCHANGED <<ctl, count, quitting, step, task, isRunning, crashed, held,
                   procVars>>

-----------------------------------------------------------------------------
StepNext == StepSucceeds \/ StepFails \/ AuthGoesOn

ProcessNext ==
    \/ ProcessFailsToStart \/ CommandRuns \/ GameIsReady
    \/ ProfilerReady \/ ProfilerAnswered \/ ProfilerCrashes
    \/ \E ok \in BOOLEAN : CommandEnds(ok) \/ GameEnds(ok)

UserNext ==
    \/ LaunchInstance \/ OpenWindow \/ CloseWindow
    \/ AbortStep \/ AbortRun \/ AbortLookup \/ AbortAuthRetry

Next ==
    /\ ~quitting
    /\ \/ StartController \/ LoginFails \/ LoginSucceeds
       \/ StepNext \/ ProcessNext \/ UserNext

Spec == Init /\ [][Next]_vars

-----------------------------------------------------------------------------
TypeOK ==
    /\ ctl \in {"None", "Queued", "Login", "Launched"}
    /\ count \in 0 .. MaxLaunches
    /\ windows \in 0 .. 1
    /\ steps \in {CreateLaunchTask(o) : o \in LaunchOptions} \cup {<<>>}
    /\ step \in 0 .. Len(steps)
    /\ lstate \in {"NotStarted", "Running", "Waiting", "Aborted"}
    /\ task \in {"Inactive", "Running", "Succeeded", "Failed"}
    /\ quitting \in BOOLEAN /\ isRunning \in BOOLEAN /\ crashed \in BOOLEAN
    /\ retryable \in BOOLEAN /\ killed \in BOOLEAN
    /\ cancelled \in BOOLEAN /\ swallowed \in BOOLEAN
    /\ held \subseteq 1 .. Len(steps)
    /\ proc \in {"None", "Starting", "Running"}
    /\ told \in {"nothing", "launch", "abort"}
    /\ profiler \in {"None", "Attaching", "Asking", "Attached"}
    /\ timed \in 0 .. MaxLaunches
    /\ launches \in 0 .. MaxLaunches /\ aborts \in 0 .. MaxAborts
    /\ played \subseteq 1 .. MaxLaunches
    /\ counted \subseteq 0 .. MaxLaunches

\* A process lives only while its launch does, and the instance is marked as
\* running for exactly that long: isRunning() is all that keeps a second launch
\* from starting a second process (Application::launch).
ProcessHasLaunch ==
    /\ isRunning <=> Active
    /\ proc # "None" => Active /\ Kind \in Runs
    /\ told = "launch" => proc = "Running"

\* While the game plays, its launch is counted: no update is allowed and closing
\* the last window does not end the launcher (Application::shouldExitNow).
GameIsCounted == Playing => count > 0 /\ ~quitting

\* While the game plays it keeps all that the steps before it took, the use lock
\* of the account first; a launch that is over keeps nothing, however it ended.
ClaimsFollowGame ==
    /\ Playing => \A i \in 1 .. step : steps[i] = "hold" => i \in held
    /\ ~Active => held = {}

\* What a game needs stays with it until its end: the launcher, its account and files.
GameKeepsWhatItNeeds == GameIsCounted /\ ClaimsFollowGame

\* No game that was played goes uncounted in the play time, unless it still plays.
NoSessionLost == played \ counted \subseteq (IF InGame THEN {launches} ELSE {})

\* A launch that accepted an abort does not start the game, nor lets it play on:
\* as long as the step that took the abort did not ignore it.
AbortIsFinal == cancelled /\ ~swallowed => ~Playing
=============================================================================
