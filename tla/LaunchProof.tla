------------------------------- MODULE LaunchProof -------------------------------
(***************************************************************************)
(* What a launch guarantees for any settings it is made with, and any      *)
(* number of launches and aborts.                                          *)
(***************************************************************************)
EXTENDS Launch, TLAPS

Lists == {CreateLaunchTask(o) : o \in LaunchOptions}

-----------------------------------------------------------------------------
(* The list of steps has the game in it once.                              *)

NoGame(s) == s \in Seq(Kinds) /\ \A i \in 1 .. Len(s) : s[i] # "game"

OneGame(s) ==
    /\ s \in Seq(Kinds)
    /\ \A i, j \in 1 .. Len(s) : s[i] = "game" /\ s[j] = "game" => i = j

LEMMA NoGameShort ==
    /\ NoGame(<<>>)
    /\ \A x \in Kinds \ {"game"} : NoGame(<<x>>)
    /\ \A x, y \in Kinds \ {"game"} : NoGame(<<x, y>>)
    /\ \A x, y, z \in Kinds \ {"game"} : NoGame(<<x, y, z>>)
<1>1. NoGame(<<>>)
    BY DEF NoGame
<1>2. ASSUME NEW x \in Kinds \ {"game"} PROVE NoGame(<<x>>)
    BY DEF NoGame
<1>3. ASSUME NEW x \in Kinds \ {"game"}, NEW y \in Kinds \ {"game"} PROVE NoGame(<<x, y>>)
    BY DEF NoGame
<1>4. ASSUME NEW x \in Kinds \ {"game"}, NEW y \in Kinds \ {"game"},
             NEW z \in Kinds \ {"game"}
      PROVE  NoGame(<<x, y, z>>)
    <2>1. <<x, y, z>> \in Seq(Kinds) /\ Len(<<x, y, z>>) = 3
        OBVIOUS
    <2> QED BY <2>1 DEF NoGame
<1> QED BY <1>1, <1>2, <1>3, <1>4

LEMMA NoGameConcat ==
    ASSUME NEW s, NEW t, NoGame(s), NoGame(t)
    PROVE  NoGame(s \o t)
<1>1. s \o t \in Seq(Kinds) /\ Len(s \o t) = Len(s) + Len(t)
    BY DEF NoGame
<1>2. ASSUME NEW i \in 1 .. Len(s \o t) PROVE (s \o t)[i] # "game"
    <2>1. CASE i <= Len(s)
        BY <1>1, <2>1 DEF NoGame
    <2>2. CASE i > Len(s)
        <3>1. i - Len(s) \in 1 .. Len(t) /\ (s \o t)[i] = t[i - Len(s)]
            BY <1>1, <2>2 DEF NoGame
        <3> QED BY <3>1 DEF NoGame
    <2> QED BY <1>1, <2>1, <2>2 DEF NoGame
<1> QED BY <1>1, <1>2 DEF NoGame

LEMMA OneGameConcat ==
    ASSUME NEW s, NEW t, OneGame(s), NoGame(t)
    PROVE  OneGame(s \o t)
<1>1. s \o t \in Seq(Kinds) /\ Len(s \o t) = Len(s) + Len(t)
    BY DEF NoGame, OneGame
<1>2. ASSUME NEW i \in 1 .. Len(s \o t), (s \o t)[i] = "game"
      PROVE  i \in 1 .. Len(s) /\ s[i] = "game"
    <2>1. CASE i <= Len(s)
        BY <1>1, <1>2, <2>1 DEF NoGame, OneGame
    <2>2. CASE i > Len(s)
        <3>1. i - Len(s) \in 1 .. Len(t) /\ (s \o t)[i] = t[i - Len(s)]
            BY <1>1, <2>2 DEF NoGame, OneGame
        <3> QED BY <1>2, <3>1 DEF NoGame
    <2> QED BY <1>1, <2>1, <2>2 DEF NoGame, OneGame
<1> QED BY <1>1, <1>2 DEF OneGame

LEMMA ListHasOneGame == \A o : OneGame(CreateLaunchTask(o))
<1> TAKE o
<1> DEFINE If(flag, kinds) == IF flag \in o THEN kinds ELSE <<>>
           a1 == <<"quick">> \o If("join", <<"lookup">>)
           a2 == a1 \o <<"task", "java", "check">>
           a3 == a2 \o If("yggdrasil", <<"auth">>)
           a4 == a3 \o If("unifiedPass", <<"download">>)
           a5 == a4 \o If("preLaunch", <<"command">>)
           a6 == a5 \o If("appendPreLaunch", <<"command">>)
           a7 == a6 \o (IF "offline" \in o THEN <<"quick">> ELSE <<"hold", "task">>)
           a8 == a7 \o <<"check", "hold", "game">>
           a9 == a8 \o If("postExit", <<"command">>)
           a10 == a9 \o If("quitAfter", <<"quit">>)
<1>1. CreateLaunchTask(o) = a10
    BY DEF CreateLaunchTask
<1>2. /\ NoGame(<<"quick">>) /\ NoGame(If("join", <<"lookup">>))
      /\ NoGame(<<"task", "java", "check">>) /\ NoGame(If("yggdrasil", <<"auth">>))
      /\ NoGame(If("unifiedPass", <<"download">>)) /\ NoGame(If("preLaunch", <<"command">>))
      /\ NoGame(If("appendPreLaunch", <<"command">>))
      /\ NoGame(IF "offline" \in o THEN <<"quick">> ELSE <<"hold", "task">>)
      /\ NoGame(If("postExit", <<"command">>)) /\ NoGame(If("quitAfter", <<"quit">>))
    <2>1. {"quick", "lookup", "task", "java", "check", "auth", "download", "command", "hold",
           "quit"} \subseteq Kinds \ {"game"}
        BY DEF Kinds
    <2> QED BY <2>1, NoGameShort
<1>3. NoGame(a1)
    BY <1>2, NoGameConcat
<1> HIDE DEF a1
<1>4. NoGame(a2)
    BY <1>2, <1>3, NoGameConcat
<1> HIDE DEF a2
<1>5. NoGame(a3)
    BY <1>2, <1>4, NoGameConcat
<1> HIDE DEF a3
<1>6. NoGame(a4)
    BY <1>2, <1>5, NoGameConcat
<1> HIDE DEF a4
<1>7. NoGame(a5)
    BY <1>2, <1>6, NoGameConcat
<1> HIDE DEF a5
<1>8. NoGame(a6)
    BY <1>2, <1>7, NoGameConcat
<1> HIDE DEF a6
<1>9. NoGame(a7)
    BY <1>2, <1>8, NoGameConcat
<1> HIDE DEF a7
<1>10. OneGame(a8)
    <2>1. <<"check", "hold", "game">> \in Seq(Kinds)
        BY DEF Kinds
    <2>2. a8 \in Seq(Kinds) /\ Len(a8) = Len(a7) + 3
        BY <1>9, <2>1 DEF NoGame
    <2>3. ASSUME NEW i \in 1 .. Len(a8), a8[i] = "game" PROVE i = Len(a7) + 3
        <3>1. CASE i <= Len(a7)
            <4>1. i \in 1 .. Len(a7) /\ a8[i] = a7[i]
                BY <1>9, <2>1, <2>2, <3>1 DEF NoGame
            <4> QED BY <1>9, <2>3, <4>1 DEF NoGame
        <3>2. CASE i > Len(a7)
            <4>1. i - Len(a7) \in 1 .. 3 /\ a8[i] = <<"check", "hold", "game">>[i - Len(a7)]
                BY <1>9, <2>1, <2>2, <3>2 DEF NoGame
            <4> QED BY <1>9, <2>3, <4>1 DEF NoGame
        <3> QED BY <1>9, <2>2, <3>1, <3>2 DEF NoGame
    <2> QED BY <2>2, <2>3 DEF OneGame
<1> HIDE DEF a8
<1>11. OneGame(a9)
    BY <1>2, <1>10, OneGameConcat
<1> HIDE DEF a9
<1>12. OneGame(a10)
    BY <1>2, <1>11, OneGameConcat
<1> HIDE DEF a10
<1> QED BY <1>1, <1>12

-----------------------------------------------------------------------------
(* The inductive invariant.                                                *)

\* The game's step is behind the current one.
PastGame == \E i \in 1 .. step - 1 : steps[i] = "game"

\* Java waits or plays, and nothing has told it to stop.
Undisturbed == InGame /\ proc = "Running" /\ ~killed /\ told # "abort"

\* A launch is a controller's until the controller ends.
CtlInv ==
    /\ isRunning \in BOOLEAN /\ (isRunning <=> Active)
    /\ Active => steps \in Lists /\ step \in 1 .. Len(steps) /\ ctl \in {"Launched", "None"}
    /\ ctl = "Launched" => Active
    /\ ctl # "None" => count >= 1
    /\ count <= launches

\* A process is the current step's, and only the game's Java is told anything.
ProcInv ==
    /\ proc # "None" <=> Active /\ Kind \in Runs
    /\ told # "nothing" => proc = "Running" /\ InGame
    /\ killed => proc # "None"

\* A controller that ended before its launch has stopped the game, or comes late.
GameInv ==
    /\ Undisturbed => lstate = "Waiting" /\ ctl = "Launched"
    /\ Active /\ ctl # "Launched" =>
          PastGame \/ (InGame /\ proc = "Running" /\ (killed \/ told = "abort"))
    /\ profiler # "None" => ctl = "Launched" /\ (PastGame \/ (InGame /\ proc = "Running"))
    /\ Playing => ~quitting

HeldInv == held = IF Active THEN {i \in 1 .. step : steps[i] = "hold"} ELSE {}

\* Only the launch that plays may be uncounted, and the clock is its own.
TimeInv ==
    IF InGame /\ told = "launch" THEN timed = launches /\ played \ counted \subseteq {launches}
    ELSE played \subseteq counted

\* An abort that was not ignored waits for the end of a process.
AbortInv ==
    cancelled /\ ~swallowed /\ Active => Kind \in Runs /\ (killed \/ told = "abort")

Inv ==
    TypeOK /\ CtlInv /\ ProcInv /\ GameInv /\ HeldInv /\ TimeInv /\ AbortInv

LEMMA ListFacts ==
    ASSUME NEW list \in Lists
    PROVE  /\ list \in Seq(Kinds) /\ Len(list) \in Nat
           /\ \A i \in 1 .. Len(list) : list[i] \in Kinds
           /\ \A i, j \in 1 .. Len(list) : list[i] = "game" /\ list[j] = "game" => i = j
BY ListHasOneGame DEF Lists, OneGame

LEMMA InitInv == Init => Inv
<1> SUFFICES ASSUME Init PROVE Inv
    OBVIOUS
<1>1. Len(<<>>) = 0
    OBVIOUS
<1>2. TypeOK
    <2>1. steps \in {CreateLaunchTask(o) : o \in LaunchOptions} \cup {<<>>} /\ step \in 0 .. Len(steps)
        BY <1>1 DEF Init
    <2>2. /\ count \in 0 .. MaxLaunches /\ windows \in 0 .. 1 /\ timed \in 0 .. MaxLaunches
          /\ launches \in 0 .. MaxLaunches /\ aborts \in 0 .. MaxAborts
        BY LaunchAssumption DEF Init
    <2>3. held \subseteq 1 .. Len(steps) /\ played \subseteq 1 .. MaxLaunches
          /\ counted \subseteq 0 .. MaxLaunches
        BY DEF Init
    <2> QED BY <2>1, <2>2, <2>3 DEF Init, TypeOK
<1>3. ~Active /\ ~InGame /\ ~Playing /\ ~Undisturbed
    BY DEF Init, Active, InGame, Playing, Undisturbed
<1>4. CtlInv /\ ProcInv /\ GameInv
    <2>1. isRunning \in BOOLEAN /\ (isRunning <=> Active)
        BY <1>3 DEF Init
    <2>2. ctl = "None" /\ count = 0 /\ launches = 0
        BY DEF Init
    <2>3. CtlInv
        BY <1>3, <2>1, <2>2 DEF CtlInv
    <2> QED BY <1>3, <2>3 DEF Init, ProcInv, GameInv
<1>5. HeldInv /\ TimeInv /\ AbortInv
    BY <1>3 DEF Init, HeldInv, TimeInv, AbortInv
<1> QED BY <1>2, <1>4, <1>5 DEF Inv

-----------------------------------------------------------------------------
(* Ends and advances.                                                      *)

\* The count after a controller's end.
LEMMA ControllerEndsCount ==
    ASSUME count \in 0 .. MaxLaunches, quitting \in BOOLEAN, ControllerEnds
    PROVE  /\ ctl' = "None" /\ profiler' = "None"
           /\ count' \in 0 .. MaxLaunches /\ count' <= count
           /\ quitting' \in BOOLEAN
BY LaunchAssumption DEF ControllerEnds

\* The end of a launch keeps the invariant, whatever step it is at.
LEMMA LaunchEndsInv ==
    ASSUME Inv, Active, NEW ok \in BOOLEAN, LaunchEnds(ok),
           steps' = steps, step' \in 1 .. Len(steps),
           lstate' \in {"NotStarted", "Running", "Waiting", "Aborted"},
           retryable' \in BOOLEAN, windows' = windows, launches' = launches,
           aborts' \in 0 .. MaxAborts, cancelled' \in BOOLEAN, swallowed' \in BOOLEAN,
           timed' = timed, played' = played,
           counted' \subseteq 0 .. MaxLaunches, played \subseteq counted'
    PROVE  Inv'
<1> USE LaunchAssumption DEF Inv
<1>1. /\ task' \in {"Succeeded", "Failed"} /\ isRunning' = FALSE /\ held' = {}
      /\ crashed' \in BOOLEAN /\ proc' = "None" /\ killed' = FALSE /\ told' = "nothing"
    BY DEF LaunchEnds, TypeOK
<1>2. /\ count' \in 0 .. MaxLaunches /\ count' <= count /\ quitting' \in BOOLEAN
      /\ ctl' = "None" /\ profiler' = "None"
    <2>1. CASE ctl = "Launched"
        BY <2>1, ControllerEndsCount DEF LaunchEnds, TypeOK
    <2>2. CASE ctl # "Launched"
        BY <2>2 DEF LaunchEnds, TypeOK, CtlInv, GameInv
    <2> QED BY <2>1, <2>2
<1>3. ~Active' /\ ~InGame' /\ ~Playing'
    BY <1>1 DEF Active, InGame, Playing
<1>4. TypeOK'
    <2>1. steps' \in {CreateLaunchTask(o) : o \in LaunchOptions} \cup {<<>>}
          /\ step' \in 0 .. Len(steps')
        BY DEF TypeOK
    <2>2. /\ windows' \in 0 .. 1 /\ timed' \in 0 .. MaxLaunches
          /\ launches' \in 0 .. MaxLaunches
          /\ held' \subseteq 1 .. Len(steps') /\ played' \subseteq 1 .. MaxLaunches
        BY <1>1 DEF TypeOK
    <2> QED BY <1>1, <1>2, <2>1, <2>2 DEF TypeOK
<1>5. CtlInv'
    <2>1. count' \in Int /\ count \in Int /\ launches \in Int
        BY <1>2 DEF TypeOK
    <2>2. count' <= launches'
        BY <1>2, <2>1 DEF CtlInv
    <2> QED BY <1>1, <1>2, <1>3, <2>2 DEF CtlInv
<1>6. ProcInv' /\ GameInv' /\ HeldInv' /\ TimeInv' /\ AbortInv'
    BY <1>1, <1>2, <1>3 DEF ProcInv, GameInv, HeldInv, TimeInv, AbortInv, Undisturbed
<1> QED BY <1>4, <1>5, <1>6

\* The step a launch comes to wait at is behind the one it was at.
LEMMA StepWaitsInv ==
    ASSUME Inv, Active,
           NEW j \in step + 1 .. Len(steps), steps[j] \in Waits, StepWaits(steps, j),
           step' = j, steps' = steps,
           lstate' \in {"NotStarted", "Running", "Waiting", "Aborted"},
           windows' = windows, launches' = launches,
           aborts' \in 0 .. MaxAborts, cancelled' \in BOOLEAN, swallowed' \in BOOLEAN,
           cancelled' => swallowed',
           timed' = timed, played' = played,
           counted' \subseteq 0 .. MaxLaunches, played \subseteq counted',
           ctl = "Launched" \/ PastGame
    PROVE  Inv'
<1> USE LaunchAssumption DEF Inv
<1>1. /\ task' = "Running" /\ UNCHANGED <<ctl, count, crashed, isRunning, profiler>>
      /\ held' = held \cup {i \in step + 1 .. j : steps[i] = "hold"}
      /\ retryable' \in BOOLEAN /\ killed' = FALSE /\ told' = "nothing"
      /\ proc' = IF steps[j] \in Runs THEN "Starting" ELSE "None"
      /\ quitting' \in BOOLEAN
    BY DEF StepWaits, TypeOK
<1>2. steps \in Lists /\ step \in 1 .. Len(steps) /\ Len(steps) \in Nat /\ j \in 1 .. Len(steps)
    BY ListFacts DEF CtlInv
<1>3. Active' /\ Kind' = steps[j] /\ ~Undisturbed' /\ ~Playing'
    BY <1>1 DEF Active, Kind, Undisturbed, Playing
<1>4. held' = {i \in 1 .. j : steps[i] = "hold"}
    BY <1>1, <1>2 DEF HeldInv
<1>5. TypeOK'
    <2>1. steps' \in {CreateLaunchTask(o) : o \in LaunchOptions} \cup {<<>>}
          /\ step' \in 0 .. Len(steps')
        BY <1>2 DEF TypeOK
    <2>2. /\ windows' \in 0 .. 1 /\ timed' \in 0 .. MaxLaunches
          /\ launches' \in 0 .. MaxLaunches
          /\ held' \subseteq 1 .. Len(steps') /\ played' \subseteq 1 .. MaxLaunches
        BY <1>2, <1>4 DEF TypeOK
    <2>3. /\ ctl' \in {"None", "Queued", "Login", "Launched"} /\ count' \in 0 .. MaxLaunches
          /\ proc' \in {"None", "Starting", "Running"}
          /\ profiler' \in {"None", "Attaching", "Asking", "Attached"}
          /\ isRunning' \in BOOLEAN /\ crashed' \in BOOLEAN
        BY <1>1 DEF TypeOK
    <2> QED BY <1>1, <2>1, <2>2, <2>3 DEF TypeOK
<1>6. CtlInv'
    BY <1>1, <1>2, <1>3 DEF CtlInv, Active
<1>7. ProcInv' /\ HeldInv' /\ TimeInv' /\ AbortInv'
    BY <1>1, <1>3, <1>4 DEF ProcInv, HeldInv, TimeInv, AbortInv
<1>8. PastGame => PastGame'
    BY <1>2 DEF PastGame
<1>9. InGame => PastGame'
    BY <1>2 DEF InGame, Kind, PastGame
<1>10. GameInv'
    BY <1>1, <1>3, <1>8, <1>9 DEF GameInv
<1> QED BY <1>5, <1>6, <1>7, <1>10

LEMMA AdvanceInv ==
    ASSUME Inv, Active, NEW aborting \in BOOLEAN, Advance(steps, aborting),
           steps' = steps, windows' = windows, launches' = launches,
           aborts' \in 0 .. MaxAborts, cancelled' \in BOOLEAN, swallowed' \in BOOLEAN,
           cancelled' => swallowed',
           timed' = timed, played' = played,
           counted' \subseteq 0 .. MaxLaunches, played \subseteq counted',
           ctl = "Launched" \/ PastGame
    PROVE  Inv'
<1> USE DEF Inv
<1>1. steps \in Lists /\ step \in 1 .. Len(steps) /\ Len(steps) \in Nat
    BY ListFacts DEF CtlInv
<1>2. PICK j \in step + 1 .. Len(steps) + 1, waits \in BOOLEAN :
          /\ waits => j <= Len(steps) /\ steps[j] \in Waits
          /\ IF waits THEN StepWaits(steps, j)
             ELSE LaunchEnds(j > Len(steps)) /\ retryable' = FALSE
          /\ step' = IF j > Len(steps) THEN Len(steps) ELSE j
          /\ lstate' \in {"Aborted", "Waiting", lstate}
    BY DEF Advance
<1>3. lstate' \in {"NotStarted", "Running", "Waiting", "Aborted"}
    BY <1>2 DEF TypeOK
<1>4. CASE waits
    <2>1. j \in step + 1 .. Len(steps) /\ step' = j
        BY <1>1, <1>2, <1>4
    <2> QED BY <1>2, <1>3, <1>4, <2>1, StepWaitsInv
<1>5. CASE ~waits
    <2>1. step' \in 1 .. Len(steps) /\ (j > Len(steps)) \in BOOLEAN
        BY <1>1, <1>2
    <2> QED BY <1>2, <1>3, <1>5, <2>1, LaunchEndsInv
<1> QED BY <1>4, <1>5
-----------------------------------------------------------------------------
(* The actions.                                                            *)

\* What an action that leaves the launch task and its processes alone must keep.
LEMMA QuietInv ==
    ASSUME Inv, TypeOK', UNCHANGED <<steps, step, lstate, task, isRunning, held, proc, killed,
                                     told, timeVars, launches, cancelled, swallowed>>,
           ctl' = "Launched" <=> ctl = "Launched",
           ctl' # "None" => count' >= 1, count' <= launches',
           profiler' # "None" => profiler # "None",
           Playing => ~quitting',
           Active => ctl' \in {"Launched", "None"}
    PROVE  Inv'
<1>1. UNCHANGED <<Active, InGame, Playing, Undisturbed, PastGame, Kind>>
    BY DEF Active, InGame, Playing, Undisturbed, PastGame, Kind
<1>2. CtlInv'
    BY <1>1 DEF Inv, CtlInv
<1>3. ProcInv' /\ HeldInv' /\ AbortInv'
    BY <1>1 DEF Inv, ProcInv, HeldInv, AbortInv
<1>4. TimeInv'
    BY <1>1 DEF Inv, TimeInv, timeVars
<1>5. GameInv'
    BY <1>1 DEF Inv, GameInv
<1> QED BY <1>2, <1>3, <1>4, <1>5 DEF Inv

LEMMA ApplicationInv ==
    ASSUME Inv, ~quitting,
           LaunchInstance \/ StartController \/ LoginFails \/ OpenWindow \/ CloseWindow
    PROVE  Inv'
<1> USE LaunchAssumption
<1>1. TypeOK /\ CtlInv /\ GameInv /\ count \in Int /\ launches \in Int /\ launches <= MaxLaunches
    BY DEF Inv, TypeOK
<1>2. ASSUME Playing PROVE ctl = "Launched" /\ count >= 1
    BY <1>1, <1>2 DEF GameInv, CtlInv, Playing, Undisturbed
<1>3. CASE LaunchInstance
    <2>1. ~Active
        BY <1>1, <1>3 DEF LaunchInstance, CtlInv
    <2>2. /\ launches' = launches + 1 /\ count' = count + 1 /\ ctl' = "Queued"
          /\ launches < MaxLaunches
        BY <1>3 DEF LaunchInstance
    <2>3. UNCHANGED <<windows, quitting, taskVars, procVars, timeVars, aborts, cancelled,
                      swallowed>>
        BY <1>3 DEF LaunchInstance
    <2>4. count' \in 0 .. MaxLaunches /\ launches' \in 0 .. MaxLaunches /\ count' <= launches'
          /\ count' >= 1
        BY <1>1, <2>2 DEF TypeOK, CtlInv
    <2>5. TypeOK'
        BY <1>1, <2>2, <2>3, <2>4 DEF TypeOK, taskVars, procVars, timeVars
    <2>6. ~Active' /\ ~InGame' /\ ~InGame /\ ~Playing' /\ ~Undisturbed'
        BY <2>1, <2>3 DEF Active, InGame, Playing, Undisturbed, taskVars
    <2>7. ctl # "Launched" /\ profiler' = "None"
        BY <1>1, <2>1, <2>3 DEF CtlInv, GameInv, procVars
    <2>8. CtlInv' /\ GameInv'
        BY <1>1, <2>1, <2>2, <2>3, <2>4, <2>6, <2>7 DEF CtlInv, GameInv, taskVars
    <2>9. ProcInv' /\ HeldInv' /\ TimeInv' /\ AbortInv'
        BY <2>1, <2>3, <2>6 DEF Inv, ProcInv, HeldInv, TimeInv, AbortInv, taskVars, procVars, timeVars
    <2> QED BY <2>5, <2>8, <2>9 DEF Inv
<1>4. CASE StartController \/ LoginFails
    <2>1. ctl \in {"Queued", "Login"} /\ ~Active
        BY <1>1, <1>4 DEF StartController, LoginFails, CtlInv
    <2>2. UNCHANGED <<windows, taskVars, proc, killed, told, timeVars, bookVars>>
        BY <1>4 DEF StartController, LoginFails
    <2>3. \/ ctl' = "Login" /\ UNCHANGED <<count, quitting, profiler>>
          \/ ControllerEnds
        BY <1>4 DEF StartController, LoginFails
    <2>4. /\ ctl' \in {"Login", "None"} /\ count' \in 0 .. MaxLaunches /\ count' <= count
          /\ quitting' \in BOOLEAN /\ profiler' \in {"None", profiler}
          /\ ctl' # "None" => count' = count
        BY <1>1, <2>3, ControllerEndsCount DEF TypeOK
    <2>5. TypeOK'
        BY <1>1, <2>2, <2>4 DEF TypeOK, taskVars, timeVars, bookVars
    <2>6. ~Playing
        BY <2>1 DEF Playing, InGame
    <2> QED BY <1>1, <2>1, <2>2, <2>4, <2>5, <2>6, QuietInv DEF CtlInv, taskVars, bookVars
<1>5. CASE OpenWindow \/ CloseWindow
    <2>1. UNCHANGED <<ctl, count, taskVars, procVars, timeVars, bookVars>>
        BY <1>5 DEF OpenWindow, CloseWindow
    <2>2. windows' \in 0 .. 1 /\ (quitting' = quitting \/ quitting' = (count = 0))
        BY <1>5 DEF OpenWindow, CloseWindow
    <2>3. quitting' \in BOOLEAN /\ (Playing => ~quitting')
        <3>1. CASE quitting' = quitting
            BY <1>1, <3>1 DEF TypeOK
        <3>2. CASE quitting' = (count = 0)
            <4>1. Playing => count # 0
                BY <1>1, <1>2
            <4> QED BY <3>2, <4>1, Zenon
        <3> QED BY <2>2, <3>1, <3>2
    <2>4. TypeOK'
        BY <1>1, <2>1, <2>2, <2>3 DEF TypeOK, taskVars, procVars, timeVars, bookVars
    <2> QED BY <1>1, <2>1, <2>2, <2>3, <2>4, QuietInv DEF CtlInv, taskVars, procVars, bookVars
<1> QED BY <1>3, <1>4, <1>5

\* The first steps of a new launch.
LEMMA LoginSucceedsInv == ASSUME Inv, ~quitting, LoginSucceeds PROVE Inv'
<1> USE LaunchAssumption
<1>1. PICK o \in LaunchOptions : Start(CreateLaunchTask(o))
    BY DEF LoginSucceeds
<1> DEFINE list == CreateLaunchTask(o)
<1>2. list \in Lists /\ list \in Seq(Kinds) /\ Len(list) \in Nat
    BY ListFacts DEF Lists
<1> HIDE DEF list
<1>3. steps' = list /\ cancelled' = FALSE /\ swallowed' = FALSE /\ killed' = FALSE
      /\ told' = "nothing"
    BY <1>1 DEF Start, list
<1>4. UNCHANGED <<windows, timeVars, launches, aborts>> /\ ctl = "Login"
    BY DEF LoginSucceeds
<1>5. ~Active /\ ~InGame /\ played \subseteq counted /\ profiler = "None" /\ count >= 1
      /\ count \in 0 .. MaxLaunches /\ count <= launches
    BY <1>4 DEF Inv, CtlInv, GameInv, TimeInv, InGame, TypeOK
<1>6. PICK j \in 1 .. Len(list) :
          /\ step' = j
          /\ \/ /\ list[j] \in Waits
                /\ task' = "Running" /\ ctl' = "Launched" /\ isRunning' = TRUE /\ crashed' = FALSE
                /\ held' = {i \in 1 .. j : list[i] = "hold"}
                /\ retryable' = (list[j] = "auth")
                /\ proc' = IF list[j] \in Runs THEN "Starting" ELSE "None"
                /\ lstate' \in {"Waiting", "Running"}
                /\ UNCHANGED <<count, quitting, profiler>>
             \/ /\ task' = "Failed" /\ isRunning' = FALSE /\ crashed' = TRUE
                /\ held' = {} /\ retryable' = FALSE /\ proc' = "None"
                /\ lstate' \in {"Waiting", "Running"}
                /\ ControllerEnds
    BY <1>1 DEF Start, list
<1>7. CASE task' = "Running"
    <2>1. /\ task' = "Running" /\ ctl' = "Launched" /\ isRunning' = TRUE /\ crashed' = FALSE
          /\ held' = {i \in 1 .. j : list[i] = "hold"} /\ retryable' \in BOOLEAN
          /\ proc' = IF list[j] \in Runs THEN "Starting" ELSE "None"
          /\ lstate' \in {"Waiting", "Running"} /\ UNCHANGED <<count, quitting, profiler>>
        BY <1>6, <1>7
    <2>2. Active' /\ Kind' = list[j] /\ ~Playing' /\ ~Undisturbed'
        BY <1>3, <1>6, <2>1 DEF Active, Kind, Playing, Undisturbed
    <2>3. TypeOK'
        <3>1. steps' \in {CreateLaunchTask(p) : p \in LaunchOptions} \cup {<<>>}
              /\ step' \in 0 .. Len(steps') /\ held' \subseteq 1 .. Len(steps')
            BY <1>2, <1>3, <1>6, <2>1 DEF Lists
        <3> QED BY <1>3, <1>4, <2>1, <3>1 DEF Inv, TypeOK, timeVars
    <2>4. CtlInv'
        BY <1>2, <1>3, <1>4, <1>5, <1>6, <2>1, <2>2 DEF CtlInv
    <2>5. ProcInv' /\ GameInv' /\ AbortInv'
        BY <1>3, <1>5, <2>1, <2>2 DEF ProcInv, GameInv, AbortInv
    <2>6. HeldInv' /\ TimeInv'
        BY <1>3, <1>4, <1>5, <1>6, <2>1, <2>2 DEF HeldInv, TimeInv, timeVars
    <2> QED BY <2>3, <2>4, <2>5, <2>6 DEF Inv
<1>8. CASE task' # "Running"
    <2>1. /\ task' = "Failed" /\ isRunning' = FALSE /\ crashed' = TRUE
          /\ held' = {} /\ retryable' = FALSE /\ proc' = "None"
          /\ lstate' \in {"Waiting", "Running"} /\ ControllerEnds
        BY <1>6, <1>8
    <2>2. /\ ctl' = "None" /\ profiler' = "None" /\ count' \in 0 .. MaxLaunches
          /\ count' <= count /\ quitting' \in BOOLEAN
        BY <1>5, <2>1, ControllerEndsCount DEF Inv, TypeOK
    <2>3. ~Active' /\ ~InGame' /\ ~Playing' /\ ~Undisturbed'
        BY <2>1 DEF Active, InGame, Playing, Undisturbed
    <2>4. TypeOK'
        <3>1. steps' \in {CreateLaunchTask(p) : p \in LaunchOptions} \cup {<<>>}
              /\ step' \in 0 .. Len(steps')
            BY <1>2, <1>3, <1>6 DEF Lists
        <3> QED BY <1>3, <1>4, <2>1, <2>2, <3>1 DEF Inv, TypeOK, timeVars
    <2>5. CtlInv'
        <3>1. count' \in Int /\ count \in Int /\ launches \in Int /\ launches' = launches
            BY <1>4, <1>5, <2>2 DEF Inv, TypeOK
        <3>2. count' <= launches'
            BY <1>5, <2>2, <3>1
        <3> QED BY <2>1, <2>2, <2>3, <3>2 DEF CtlInv
    <2>6. ProcInv' /\ GameInv' /\ AbortInv' /\ HeldInv' /\ TimeInv'
        BY <1>3, <1>4, <1>5, <2>1, <2>2, <2>3
        DEF ProcInv, GameInv, AbortInv, HeldInv, TimeInv, timeVars
    <2> QED BY <2>4, <2>5, <2>6 DEF Inv
<1> QED BY <1>7, <1>8

\* Facts every step of a running launch starts from.
LEMMA ActiveFacts ==
    ASSUME Inv, Active
    PROVE  /\ steps \in Lists /\ step \in 1 .. Len(steps) /\ Len(steps) \in Nat
           /\ Kind \in Kinds
           /\ ctl # "Launched" => PastGame \/ (InGame /\ proc = "Running" /\ (killed \/ told = "abort"))
           /\ InGame => ~PastGame
<1>1. steps \in Lists /\ step \in 1 .. Len(steps)
    BY DEF Inv, CtlInv
<1>2. Len(steps) \in Nat /\ Kind \in Kinds
    BY <1>1, ListFacts DEF Kind
<1>3. ctl # "Launched" => PastGame \/ (InGame /\ proc = "Running" /\ (killed \/ told = "abort"))
    BY DEF Inv, GameInv
<1>4. InGame => ~PastGame
    BY <1>1, ListFacts DEF InGame, PastGame, Kind
<1> QED BY <1>1, <1>2, <1>3, <1>4

\* An action that keeps the launch at its step keeps the types, if what it changes
\* has the right ones.
LEMMA SameStepTypes ==
    ASSUME TypeOK, UNCHANGED <<windows, steps, step, task, isRunning, crashed, held>>,
           retryable' \in BOOLEAN,
           ctl' \in {"None", "Queued", "Login", "Launched"}, count' \in 0 .. MaxLaunches,
           quitting' \in BOOLEAN, lstate' \in {"NotStarted", "Running", "Waiting", "Aborted"},
           proc' \in {"None", "Starting", "Running"}, killed' \in BOOLEAN,
           told' \in {"nothing", "launch", "abort"},
           profiler' \in {"None", "Attaching", "Asking", "Attached"},
           timed' \in 0 .. MaxLaunches, played' \subseteq 1 .. MaxLaunches, counted' = counted,
           launches' = launches, aborts' \in 0 .. MaxAborts,
           cancelled' \in BOOLEAN, swallowed' \in BOOLEAN
    PROVE  TypeOK'
<1>1. steps' \in {CreateLaunchTask(o) : o \in LaunchOptions} \cup {<<>>}
      /\ step' \in 0 .. Len(steps') /\ held' \subseteq 1 .. Len(steps')
    BY DEF TypeOK
<1> QED BY <1>1 DEF TypeOK

\* A step that waits for an answer ends well, fails, or goes on.
LEMMA StepInv == ASSUME Inv, ~quitting, StepNext PROVE Inv'
<1>1. Active /\ (Kind \notin Runs \/ AuthGoesOn)
    BY DEF StepNext, StepSucceeds, StepFails, AuthGoesOn, Answered, Runs, GameInv
<1>2. TypeOK
    BY DEF Inv
<1>3. CASE StepSucceeds
    <2>1. /\ Advance(steps, FALSE) /\ Kind \notin Runs
          /\ UNCHANGED <<windows, steps, timeVars, bookVars>>
        BY <1>3 DEF StepSucceeds, Answered
    <2>2. ~InGame /\ ~(cancelled /\ ~swallowed)
        BY <1>1, <2>1 DEF Inv, AbortInv, InGame, Runs
    <2>3. played \subseteq counted /\ (ctl = "Launched" \/ PastGame)
        BY <1>1, <2>2, ActiveFacts DEF Inv, TimeInv
    <2> QED BY <1>1, <1>2, <2>1, <2>2, <2>3, AdvanceInv DEF TypeOK, timeVars, bookVars
<1>4. CASE StepFails
    <2>1. /\ LaunchEnds(FALSE) /\ retryable' = FALSE /\ Kind \notin Runs
          /\ UNCHANGED <<windows, steps, step, lstate, timeVars, bookVars>>
        BY <1>4 DEF StepFails, Runs
    <2>2. played \subseteq counted
        BY <1>1, <2>1 DEF Inv, TimeInv, InGame, Runs
    <2>3. step \in 1 .. Len(steps)
        BY <1>1, ActiveFacts
    <2> QED BY <1>1, <1>2, <2>1, <2>2, <2>3, LaunchEndsInv DEF TypeOK, timeVars, bookVars
<1>5. CASE AuthGoesOn
    <2>1. /\ retryable' = FALSE
          /\ UNCHANGED <<appVars, steps, step, lstate, task, isRunning, crashed, held,
                         procVars, timeVars, bookVars>>
        BY <1>5 DEF AuthGoesOn
    <2>2. TypeOK'
        <3>1. UNCHANGED <<ctl, count, windows, quitting, steps, step, lstate, task, isRunning,
                          crashed, held, proc, killed, told, profiler, timed, played, counted,
                          launches, aborts, cancelled, swallowed>>
            BY <2>1 DEF appVars, procVars, timeVars, bookVars
        <3>2. /\ ctl' \in {"None", "Queued", "Login", "Launched"} /\ count' \in 0 .. MaxLaunches
              /\ quitting' \in BOOLEAN /\ killed' \in BOOLEAN
              /\ lstate' \in {"NotStarted", "Running", "Waiting", "Aborted"}
              /\ proc' \in {"None", "Starting", "Running"} /\ told' \in {"nothing", "launch", "abort"}
              /\ profiler' \in {"None", "Attaching", "Asking", "Attached"}
            BY <1>2, <3>1 DEF TypeOK
        <3>3. /\ timed' \in 0 .. MaxLaunches /\ played' \subseteq 1 .. MaxLaunches
              /\ aborts' \in 0 .. MaxAborts /\ cancelled' \in BOOLEAN /\ swallowed' \in BOOLEAN
            BY <1>2, <3>1 DEF TypeOK
        <3> QED BY <1>2, <2>1, <3>1, <3>2, <3>3, SameStepTypes
    <2> QED BY <1>1, <2>1, <2>2, QuietInv DEF Inv, CtlInv, GameInv, appVars, procVars, bookVars
<1> QED BY <1>3, <1>4, <1>5 DEF StepNext

\* A process fails to start, or ends.
LEMMA ProcessEndsInv ==
    ASSUME Inv, ~quitting,
           \/ ProcessFailsToStart
           \/ \E ok \in BOOLEAN : CommandEnds(ok) \/ GameEnds(ok)
    PROVE  Inv'
<1>1. TypeOK /\ Active
    BY DEF Inv, ProcessFailsToStart, CommandEnds, GameEnds, InGame
<1>2. step \in 1 .. Len(steps) /\ Len(steps) \in Nat
    BY <1>1, ActiveFacts
<1>3. CASE ProcessFailsToStart
    <2>1. /\ LaunchEnds(FALSE) /\ proc = "Starting"
          /\ UNCHANGED <<windows, steps, step, lstate, retryable, timeVars, bookVars>>
        BY <1>3 DEF ProcessFailsToStart
    <2>2. played \subseteq counted
        BY <2>1 DEF Inv, TimeInv, ProcInv
    <2> QED BY <1>1, <1>2, <2>1, <2>2, LaunchEndsInv DEF TypeOK, timeVars, bookVars
<1>4. ASSUME NEW ok \in BOOLEAN, CommandEnds(ok) PROVE Inv'
    <2>1. /\ Kind = "command" /\ UNCHANGED <<windows, steps, timeVars, bookVars>>
          /\ IF ok THEN proc = "Running" /\ ~killed ELSE proc = "Running" \/ killed
          /\ IF ok THEN Advance(steps, FALSE)
             ELSE LaunchEnds(FALSE) /\ UNCHANGED <<step, lstate, retryable>>
        BY <1>4 DEF CommandEnds
    <2>2. ~InGame /\ told = "nothing" /\ played \subseteq counted
        BY <2>1 DEF InGame, Inv, ProcInv, TimeInv
    <2>3. CASE ok
        <3>1. ~(cancelled /\ ~swallowed) /\ (ctl = "Launched" \/ PastGame)
            BY <1>1, <2>1, <2>2, <2>3, ActiveFacts DEF Inv, AbortInv
        <3> QED BY <1>1, <2>1, <2>2, <2>3, <3>1, AdvanceInv DEF TypeOK, timeVars, bookVars
    <2>4. CASE ~ok
        BY <1>1, <1>2, <2>1, <2>2, <2>4, LaunchEndsInv DEF TypeOK, timeVars, bookVars
    <2> QED BY <2>3, <2>4
<1>5. ASSUME NEW ok \in BOOLEAN, GameEnds(ok) PROVE Inv'
    <2>1. /\ InGame /\ UNCHANGED <<windows, steps, timed, played, bookVars>>
          /\ counted' = counted \cup {timed}
          /\ ok => Playing
          /\ IF ok THEN Advance(steps, FALSE)
             ELSE LaunchEnds(FALSE) /\ UNCHANGED <<step, lstate, retryable>>
        BY <1>5 DEF GameEnds
    <2>2. played \subseteq counted' /\ counted' \subseteq 0 .. MaxLaunches
        BY <1>1, <2>1 DEF Inv, TimeInv, TypeOK
    <2>3. CASE ok
        <3>1. Playing /\ ~killed /\ told = "launch" /\ Undisturbed
            BY <2>1, <2>3 DEF Playing, Undisturbed
        <3>2. ~(cancelled /\ ~swallowed) /\ ctl = "Launched"
            BY <1>1, <3>1 DEF Inv, AbortInv, GameInv
        <3> QED BY <1>1, <2>1, <2>2, <2>3, <3>2, AdvanceInv DEF TypeOK, bookVars
    <2>4. CASE ~ok
        BY <1>1, <1>2, <2>1, <2>2, <2>4, LaunchEndsInv DEF TypeOK, bookVars
    <2> QED BY <2>3, <2>4
<1> QED BY <1>3, <1>4, <1>5

LEMMA GameIsReadyInv == ASSUME Inv, ~quitting, GameIsReady PROVE Inv'
<1> USE LaunchAssumption
<1>1. /\ TypeOK /\ InGame /\ Active /\ proc = "Starting" /\ told = "nothing" /\ proc' = "Running"
      /\ UNCHANGED <<windows, steps, step, task, isRunning, crashed, held, retryable,
                     killed, counted, bookVars>>
    BY DEF Inv, ProcInv, GameIsReady, InGame
<1>2. ctl = "Launched" /\ profiler = "None" /\ played \subseteq counted
    BY <1>1, ActiveFacts DEF Inv, GameInv, TimeInv
<1>3. UNCHANGED <<Active, InGame, Kind, PastGame>>
    BY <1>1 DEF Active, InGame, Kind, PastGame
<1>4. HeldInv'
    BY <1>1, <1>3 DEF Inv, HeldInv
<1>5. ProcInv'
    BY <1>1, <1>3 DEF Inv, ProcInv
<1>6. launches \in 1 .. MaxLaunches /\ launches' = launches /\ count >= 1 /\ count <= launches
    BY <1>1, <1>2 DEF Inv, CtlInv, TypeOK, bookVars
<1>7. AbortInv'
    BY <1>1, <1>3 DEF Inv, AbortInv, InGame, Runs, bookVars
<1>8. CASE lstate' = "Waiting" /\ Proceed /\ UNCHANGED <<ctl, count, quitting, profiler>>
    <2>1. TypeOK'
        BY <1>1, <1>6, <1>8, SameStepTypes DEF TypeOK, Proceed, bookVars
    <2>2. CtlInv' /\ GameInv' /\ TimeInv'
        BY <1>1, <1>2, <1>3, <1>6, <1>8 DEF Inv, CtlInv, GameInv, TimeInv, Proceed, Playing
    <2> QED BY <1>4, <1>5, <1>7, <2>1, <2>2 DEF Inv
<1>9. CASE /\ lstate' = "Waiting" /\ profiler' = "Attaching"
           /\ UNCHANGED <<ctl, count, quitting, told, timed, played>>
    <2>1. TypeOK'
        BY <1>1, <1>9, SameStepTypes DEF TypeOK, bookVars
    <2>2. CtlInv' /\ GameInv' /\ TimeInv'
        BY <1>1, <1>2, <1>3, <1>6, <1>9 DEF Inv, CtlInv, GameInv, TimeInv, Playing
    <2> QED BY <1>4, <1>5, <1>7, <2>1, <2>2 DEF Inv
<1>10. CASE /\ lstate' = "Aborted" /\ told' = "abort" /\ ControllerEnds
            /\ UNCHANGED <<timed, played>>
    <2>1. /\ ctl' = "None" /\ profiler' = "None" /\ count' \in 0 .. MaxLaunches
          /\ count' <= count /\ quitting' \in BOOLEAN
        BY <1>1, <1>10, ControllerEndsCount DEF TypeOK
    <2>2. TypeOK'
        BY <1>1, <1>10, <2>1, SameStepTypes DEF TypeOK, bookVars
    <2>3. count' <= launches'
        BY <1>1, <1>6, <2>1 DEF TypeOK
    <2>4. CtlInv'
        BY <1>1, <1>3, <1>6, <2>1, <2>3 DEF Inv, CtlInv
    <2>5. GameInv' /\ TimeInv'
        BY <1>1, <1>2, <1>3, <1>10, <2>1 DEF GameInv, TimeInv, Playing, Undisturbed
    <2> QED BY <1>4, <1>5, <1>7, <2>2, <2>4, <2>5 DEF Inv
<1> QED BY <1>8, <1>9, <1>10 DEF GameIsReady

\* abort() of a step with a process.
LEMMA AbortProcessFacts ==
    ASSUME Inv, Active, Kind \in Runs, proc # "None" \/ ~InGame, AbortProcess
    PROVE  /\ killed' \in BOOLEAN /\ told' \in {"nothing", "launch", "abort"}
           /\ killed' \/ told' = "abort"
           /\ told' = "launch" <=> told = "launch"
           /\ told' # "nothing" => proc = "Running" /\ InGame
BY DEF Inv, TypeOK, ProcInv, AbortProcess, InGame

\* A process that is told to stop, while its launch and what it holds stay.
LEMMA ProcessStopsInv ==
    ASSUME Inv, ~quitting, Active, Kind \in Runs, AbortProcess, lstate' = "Aborted",
           UNCHANGED <<windows, steps, step, task, isRunning, crashed, held, retryable, proc,
                       timeVars, launches, swallowed>>,
           aborts' \in 0 .. MaxAborts, cancelled' \in BOOLEAN,
           \/ ControllerEnds /\ (PastGame \/ (InGame /\ proc = "Running"))
           \/ UNCHANGED <<ctl, count, quitting, profiler>>
    PROVE  Inv'
<1>1. TypeOK /\ UNCHANGED <<Active, InGame, Kind, PastGame>>
    BY DEF Inv, Active, InGame, Kind, PastGame
<1>2. /\ killed' \in BOOLEAN /\ told' \in {"nothing", "launch", "abort"}
      /\ killed' \/ told' = "abort"
      /\ told' = "launch" <=> told = "launch"
      /\ told' # "nothing" => proc = "Running" /\ InGame
    BY AbortProcessFacts DEF Inv, ProcInv
<1>3. /\ ctl' \in {ctl, "None"} /\ profiler' \in {profiler, "None"}
      /\ count' \in 0 .. MaxLaunches /\ count' <= count
      /\ ctl' # "None" => count' = count /\ profiler' = profiler /\ ctl' = ctl
      /\ ctl' = "None" => \/ profiler' = "None" /\ (PastGame \/ (InGame /\ proc = "Running"))
                          \/ profiler' = profiler /\ ctl = "None"
      /\ quitting' \in BOOLEAN
    <2>1. CASE ControllerEnds /\ (PastGame \/ (InGame /\ proc = "Running"))
        BY <1>1, <2>1, ControllerEndsCount DEF TypeOK
    <2>2. CASE UNCHANGED <<ctl, count, quitting, profiler>>
        BY <1>1, <2>2 DEF TypeOK
    <2> QED BY <2>1, <2>2
<1>4. TypeOK'
    BY <1>1, <1>2, <1>3, SameStepTypes DEF TypeOK, timeVars
<1>5. CtlInv'
    <2>1. count' <= launches'
        BY <1>1, <1>3 DEF Inv, CtlInv, TypeOK
    <2> QED BY <1>1, <1>3, <2>1 DEF Inv, CtlInv
<1>6. ProcInv' /\ HeldInv' /\ AbortInv'
    BY <1>1, <1>2 DEF Inv, ProcInv, HeldInv, AbortInv
<1>7. TimeInv'
    BY <1>1, <1>2 DEF Inv, TimeInv, timeVars
<1>8. ~Undisturbed' /\ ~Playing'
    BY <1>2 DEF Undisturbed, Playing
<1>9. GameInv'
    BY <1>1, <1>2, <1>3, <1>8 DEF Inv, GameInv, Runs, InGame
<1> QED BY <1>4, <1>5, <1>6, <1>7, <1>9 DEF Inv

\* A command comes to run, or the profiler says something.
LEMMA ProfilerInv ==
    ASSUME Inv, ~quitting, CommandRuns \/ ProfilerReady \/ ProfilerAnswered \/ ProfilerCrashes
    PROVE  Inv'
<1> USE LaunchAssumption
<1>1. TypeOK
    BY DEF Inv
<1>2. CASE CommandRuns
    <2>1. /\ Active /\ Kind = "command" /\ proc = "Starting" /\ proc' = "Running"
          /\ UNCHANGED <<appVars, taskVars, killed, told, profiler, timeVars, bookVars>>
        BY <1>2 DEF CommandRuns
    <2>2. UNCHANGED <<Active, InGame, Kind, PastGame>> /\ ~InGame
        BY <2>1 DEF Active, InGame, Kind, PastGame, taskVars
    <2>3. TypeOK'
        BY <1>1, <2>1, SameStepTypes DEF TypeOK, appVars, taskVars, timeVars, bookVars
    <2>4. CtlInv'
        BY <2>1, <2>2 DEF Inv, CtlInv, appVars, taskVars, bookVars
    <2>5. ProcInv' /\ HeldInv' /\ AbortInv'
        BY <2>1, <2>2 DEF Inv, ProcInv, HeldInv, AbortInv, Runs, taskVars, bookVars
    <2>6. GameInv' /\ TimeInv'
        BY <2>1, <2>2 DEF Inv, GameInv, TimeInv, Undisturbed, Playing, appVars, timeVars
    <2> QED BY <2>3, <2>4, <2>5, <2>6 DEF Inv
<1>3. CASE ProfilerReady
    <2>1. /\ profiler = "Attaching" /\ profiler' = "Asking"
          /\ UNCHANGED <<appVars, taskVars, proc, killed, told, timeVars, bookVars>>
        BY <1>3 DEF ProfilerReady
    <2>2. TypeOK'
        BY <1>1, <2>1, SameStepTypes DEF TypeOK, appVars, taskVars, timeVars, bookVars
    <2> QED BY <2>1, <2>2, QuietInv DEF Inv, CtlInv, GameInv, appVars, taskVars, bookVars
<1>4. CASE ProfilerAnswered
    <2>1. /\ profiler = "Asking" /\ profiler' = "Attached"
          /\ UNCHANGED <<appVars, taskVars, proc, killed, counted, bookVars>>
        BY <1>4 DEF ProfilerAnswered
    <2>2. CASE lstate = "Waiting" /\ InGame /\ told = "nothing"
        <3>1. Proceed
            BY <1>4, <2>2 DEF ProfilerAnswered
        <3>2. /\ ctl = "Launched" /\ Active /\ ~PastGame /\ proc = "Running"
              /\ played \subseteq counted /\ launches \in 1 .. MaxLaunches
            BY <1>1, <2>1, <2>2, ActiveFacts DEF Inv, GameInv, TimeInv, CtlInv, TypeOK, InGame
        <3>3. UNCHANGED <<Active, InGame, Kind, PastGame>>
            BY <2>1 DEF Active, InGame, Kind, PastGame, taskVars
        <3>4. TypeOK'
            BY <1>1, <2>1, <3>1, <3>2, SameStepTypes
            DEF TypeOK, Proceed, appVars, taskVars, bookVars
        <3>5. CtlInv'
            BY <2>1, <3>3 DEF Inv, CtlInv, appVars, taskVars, bookVars
        <3>6. ProcInv' /\ HeldInv'
            BY <2>1, <2>2, <3>1, <3>2, <3>3 DEF Inv, ProcInv, HeldInv, Proceed, taskVars
        <3>7. AbortInv'
            BY <2>1, <2>2, <3>2, <3>3 DEF Inv, AbortInv, taskVars, bookVars
        <3>8. GameInv' /\ TimeInv'
            BY <2>1, <2>2, <3>1, <3>2, <3>3
            DEF Inv, GameInv, TimeInv, Proceed, Playing, Undisturbed, appVars, taskVars, bookVars
        <3> QED BY <3>4, <3>5, <3>6, <3>7, <3>8 DEF Inv
    <2>3. CASE ~(lstate = "Waiting" /\ InGame /\ told = "nothing")
        <3>1. UNCHANGED <<told, timed, played>>
            BY <1>4, <2>3 DEF ProfilerAnswered
        <3>2. TypeOK'
            BY <1>1, <2>1, <3>1, SameStepTypes DEF TypeOK, appVars, taskVars, bookVars
        <3> QED BY <2>1, <3>1, <3>2, QuietInv
                DEF Inv, CtlInv, GameInv, appVars, taskVars, timeVars, bookVars
    <2> QED BY <2>2, <2>3
<1>5. CASE ProfilerCrashes
    <2>1. /\ profiler # "None" /\ Active /\ ControllerEnds
          /\ UNCHANGED <<windows, steps, step, task, isRunning, crashed, held, retryable,
                         proc, timeVars, bookVars>>
        BY <1>5 DEF ProfilerCrashes
    <2>2. ctl = "Launched" /\ (PastGame \/ (InGame /\ proc = "Running"))
        BY <2>1 DEF Inv, GameInv
    <2>3. CASE lstate \in {"Running", "Waiting"} /\ Kind \in Runs
        <3>1. AbortProcess /\ lstate' = "Aborted"
            BY <1>5, <2>3 DEF ProfilerCrashes
        <3>2. aborts' \in 0 .. MaxAborts /\ cancelled' \in BOOLEAN
            BY <1>1, <2>1 DEF TypeOK, bookVars
        <3> QED BY <2>1, <2>2, <2>3, <3>1, <3>2, ProcessStopsInv DEF bookVars
    <2>4. CASE ~(lstate \in {"Running", "Waiting"} /\ Kind \in Runs)
        <3>1. UNCHANGED <<killed, told, lstate>>
            BY <1>5, <2>4 DEF ProfilerCrashes
        <3>2. /\ ctl' = "None" /\ profiler' = "None" /\ count' \in 0 .. MaxLaunches
              /\ count' <= count /\ quitting' \in BOOLEAN
            BY <1>1, <2>1, ControllerEndsCount DEF TypeOK
        <3>3. TypeOK'
            BY <1>1, <2>1, <3>1, <3>2, SameStepTypes DEF TypeOK, timeVars, bookVars
        <3>4. ~Undisturbed /\ ~Playing
            BY <2>4 DEF Inv, GameInv, InGame, Runs, Undisturbed, Playing
        <3>5. UNCHANGED <<Active, InGame, Kind, PastGame, Undisturbed, Playing>>
            BY <2>1, <3>1 DEF Active, InGame, Kind, PastGame, Undisturbed, Playing
        <3>6. CtlInv'
            <4>1. count' <= launches'
                BY <1>1, <2>1, <3>2 DEF Inv, CtlInv, TypeOK, bookVars
            <4> QED BY <2>1, <3>2, <3>5, <4>1 DEF Inv, CtlInv
        <3>7. ProcInv' /\ HeldInv' /\ AbortInv' /\ TimeInv'
            BY <2>1, <3>1, <3>5 DEF Inv, ProcInv, HeldInv, AbortInv, TimeInv, timeVars, bookVars
        <3>8. GameInv'
            BY <2>1, <2>2, <3>1, <3>2, <3>4, <3>5 DEF Inv, GameInv, Undisturbed
        <3> QED BY <3>3, <3>6, <3>7, <3>8 DEF Inv
    <2> QED BY <2>3, <2>4
<1> QED BY <1>2, <1>3, <1>4, <1>5

\* The four ways an abort of the user goes.
LEMMA UserAbortInv ==
    ASSUME Inv, ~quitting, AbortStep \/ AbortRun \/ AbortLookup \/ AbortAuthRetry
    PROVE  Inv'
<1> USE LaunchAssumption
<1>1. TypeOK
    BY DEF Inv
<1>2. /\ Active /\ ctl = "Launched" /\ aborts' \in 0 .. MaxAborts /\ cancelled' = TRUE
      /\ UNCHANGED <<windows, steps, timeVars, launches>>
    <2>1. \/ Abort({"download", "task", "java", "auth"}) \/ Abort(Runs)
          \/ Abort({"lookup"}) \/ Abort({"auth"})
        BY DEF AbortStep, AbortRun, AbortLookup, AbortAuthRetry
    <2>2. ASSUME NEW kinds, Abort(kinds)
          PROVE  /\ Active /\ ctl = "Launched" /\ aborts < MaxAborts /\ aborts' = aborts + 1
                 /\ cancelled' = TRUE /\ UNCHANGED <<windows, steps, timeVars, launches>>
        BY <2>2 DEF Abort
    <2>3. /\ Active /\ ctl = "Launched" /\ aborts < MaxAborts /\ aborts' = aborts + 1
          /\ cancelled' = TRUE /\ UNCHANGED <<windows, steps, timeVars, launches>>
        BY <2>1, <2>2
    <2>4. aborts' \in 0 .. MaxAborts
        BY <1>1, <2>3 DEF TypeOK
    <2> QED BY <2>3, <2>4
<1>3. step \in 1 .. Len(steps) /\ counted \subseteq 0 .. MaxLaunches
    BY <1>1, <1>2, ActiveFacts DEF TypeOK
<1>4. CASE AbortStep
    <2>1. /\ LaunchEnds(FALSE) /\ lstate' = "Aborted"
          /\ UNCHANGED <<step, retryable, swallowed>> /\ Kind \notin Runs
        BY <1>4 DEF AbortStep, Abort, Runs
    <2>2. played \subseteq counted
        BY <2>1 DEF Inv, TimeInv, InGame, Runs
    <2> QED BY <1>1, <1>2, <1>3, <2>1, <2>2, LaunchEndsInv DEF TypeOK, timeVars
<1>5. CASE AbortRun
    <2>1. /\ Kind \in Runs /\ AbortProcess /\ lstate' = "Aborted"
          /\ UNCHANGED <<ctl, count, quitting, step, task, isRunning, crashed, held,
                         retryable, proc, profiler, swallowed>>
        BY <1>5 DEF AbortRun, Abort
    <2> QED BY <1>2, <2>1, ProcessStopsInv
<1>6. CASE AbortLookup
    <2>1. Advance(steps, TRUE) /\ swallowed' = TRUE /\ Kind = "lookup"
        BY <1>6 DEF AbortLookup, Abort
    <2>2. played \subseteq counted
        BY <2>1 DEF Inv, TimeInv, InGame
    <2> QED BY <1>2, <1>3, <2>1, <2>2, AdvanceInv DEF timeVars
<1>7. CASE AbortAuthRetry
    <2>1. /\ retryable' = FALSE /\ lstate' = "Aborted" /\ swallowed' = TRUE /\ Kind = "auth"
          /\ UNCHANGED <<ctl, count, quitting, step, task, isRunning, crashed, held, procVars>>
        BY <1>7 DEF AbortAuthRetry, Abort
    <2>2. UNCHANGED <<Active, InGame, Kind, PastGame>> /\ ~InGame
        BY <1>2, <2>1 DEF Active, InGame, Kind, PastGame
    <2>3. TypeOK'
        BY <1>1, <1>2, <2>1, SameStepTypes DEF TypeOK, procVars, timeVars
    <2>4. CtlInv' /\ GameInv'
        BY <1>2, <2>1, <2>2 DEF Inv, CtlInv, GameInv, Undisturbed, Playing, procVars
    <2>5. ProcInv' /\ HeldInv' /\ AbortInv' /\ TimeInv'
        BY <1>2, <2>1, <2>2 DEF Inv, ProcInv, HeldInv, AbortInv, TimeInv, procVars, timeVars
    <2> QED BY <2>3, <2>4, <2>5 DEF Inv
<1> QED BY <1>4, <1>5, <1>6, <1>7

-----------------------------------------------------------------------------
(* The theorems.                                                           *)

LEMMA NextInv == Inv /\ [Next]_vars => Inv'
<1> SUFFICES ASSUME Inv, [Next]_vars PROVE Inv'
    OBVIOUS
<1>1. CASE Next
    <2>1. ~quitting
        BY <1>1 DEF Next
    <2>2. CASE LaunchInstance \/ StartController \/ LoginFails \/ OpenWindow \/ CloseWindow
        BY <2>1, <2>2, ApplicationInv
    <2>3. CASE LoginSucceeds
        BY <2>1, <2>3, LoginSucceedsInv
    <2>4. CASE StepNext
        BY <2>1, <2>4, StepInv
    <2>5. CASE ProcessFailsToStart \/ \E ok \in BOOLEAN : CommandEnds(ok) \/ GameEnds(ok)
        BY <2>1, <2>5, ProcessEndsInv
    <2>6. CASE GameIsReady
        BY <2>1, <2>6, GameIsReadyInv
    <2>7. CASE CommandRuns \/ ProfilerReady \/ ProfilerAnswered \/ ProfilerCrashes
        BY <2>1, <2>7, ProfilerInv
    <2>8. CASE AbortStep \/ AbortRun \/ AbortLookup \/ AbortAuthRetry
        BY <2>1, <2>8, UserAbortInv
    <2> QED BY <1>1, <2>2, <2>3, <2>4, <2>5, <2>6, <2>7, <2>8 DEF Next, ProcessNext, UserNext
<1>2. CASE UNCHANGED vars
    <2>1. UNCHANGED <<ctl, count, windows, quitting, steps, step, lstate, task, isRunning,
                      crashed, held, retryable, proc, killed, told, profiler, timed, played,
                      counted, launches, aborts, cancelled, swallowed>>
        BY <1>2 DEF vars, appVars, taskVars, procVars, timeVars, bookVars
    <2>2. TypeOK'
        BY <2>1 DEF Inv, TypeOK
    <2>3. UNCHANGED <<Active, InGame, Kind, PastGame, Undisturbed, Playing>>
        BY <2>1 DEF Active, InGame, Kind, PastGame, Undisturbed, Playing
    <2>4. CtlInv' /\ ProcInv' /\ GameInv'
        BY <2>1, <2>3 DEF Inv, CtlInv, ProcInv, GameInv
    <2>5. HeldInv' /\ TimeInv' /\ AbortInv'
        BY <2>1, <2>3 DEF Inv, HeldInv, TimeInv, AbortInv
    <2> QED BY <2>2, <2>4, <2>5 DEF Inv
<1> QED BY <1>1, <1>2

\* The inductive invariant holds of every launch (LaunchTask, LaunchController).
THEOREM InvHolds == Spec => []Inv
BY InitInv, NextInv, PTL DEF Spec

\* Every variable of a launch stays within its type, currentStep within the steps.
THEOREM LaunchTypeCorrect == Spec => []TypeOK
<1>1. Inv => TypeOK
    BY DEF Inv
<1> QED BY <1>1, InvHolds, PTL

\* A process lives only while its launch does, and the instance counts as running
\* for exactly that long.
THEOREM ProcessesHaveLaunches == Spec => []ProcessHasLaunch
<1>1. Inv => ProcessHasLaunch
    BY DEF Inv, CtlInv, ProcInv, ProcessHasLaunch
<1> QED BY <1>1, InvHolds, PTL

\* While a game plays, its launch is counted and the launcher does not exit.
THEOREM GamesAreCounted == Spec => []GameIsCounted
<1>1. Inv => GameIsCounted
    <2>1. ASSUME Inv, Playing PROVE ctl = "Launched" /\ ~quitting
        BY <2>1 DEF Inv, GameInv, Playing, Undisturbed
    <2> QED BY <2>1 DEF Inv, CtlInv, TypeOK, GameIsCounted
<1> QED BY <1>1, InvHolds, PTL

\* A game that plays keeps what its launch took, and a launch that is over keeps nothing.
THEOREM ClaimsFollowGames == Spec => []ClaimsFollowGame
<1>1. Inv => ClaimsFollowGame
    BY DEF Inv, HeldInv, ClaimsFollowGame, Playing, InGame
<1> QED BY <1>1, InvHolds, PTL

\* What a game needs stays with it until its end.
THEOREM GamesKeepWhatTheyNeed == Spec => []GameKeepsWhatItNeeds
<1>1. GameIsCounted /\ ClaimsFollowGame => GameKeepsWhatItNeeds
    BY DEF GameKeepsWhatItNeeds
<1> QED BY <1>1, GamesAreCounted, ClaimsFollowGames, PTL

\* Every game that was played is in the play time, or still plays.
THEOREM SessionsAreCounted == Spec => []NoSessionLost
<1>1. Inv => NoSessionLost
    BY DEF Inv, TimeInv, NoSessionLost
<1> QED BY <1>1, InvHolds, PTL

\* No game plays under a launch that took an abort, unless the step ignored it.
THEOREM AbortsAreFinal == Spec => []AbortIsFinal
<1>1. Inv => AbortIsFinal
    BY DEF Inv, AbortInv, AbortIsFinal, Playing, InGame
<1> QED BY <1>1, InvHolds, PTL
=============================================================================
