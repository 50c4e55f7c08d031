------------------------------- MODULE Accounts -------------------------------
(***************************************************************************)
(* launcher/minecraft/auth: the list of accounts, the flow that logs an    *)
(* account in or refreshes it, and the schedule that refreshes all of them *)
(* in the background.  launcher/LaunchController decides with them how a   *)
(* game is launched.                                                       *)
(*                                                                         *)
(* All of it runs in the GUI thread.  A handler is one action; the dialogs *)
(* in between run the event loop, so every other action may come while one *)
(* is open.  Of a flow the model keeps whether its AuthFlow exists, runs,  *)
(* and how it ended; the web acts of its steps are abstracted.  What the *)
(* list saves to accounts.json is left out.                                *)
(***************************************************************************)
EXTENDS Naturals, FiniteSets, SequencesExt

CONSTANTS
    Accounts,       \* account objects, those of a later login included
    Loaded,         \* the accounts read from accounts.json
    ProfileOf,      \* [Accounts -> profile ids]
    Owners,         \* accounts that own the game
    Outcomes,       \* how a flow may end
    Acts,           \* what users, the API and the CLI do
    MaxActs,        \* bound: how often they do it
    NoAccount, AbortedFlow

FlowOutcomes == {"Online", "Offline", "Disabled", "Errored", "Expired", "Gone"}

KindsOfActs == {"request", "prepare", "refresh", "login", "abort", "remove", "default", "launch"}

ASSUME AccountsAssumption ==
    /\ IsFiniteSet(Accounts)
    /\ Loaded \subseteq Accounts
    /\ \A a, b \in Loaded : ProfileOf[a] = ProfileOf[b] => a = b
    /\ Owners \subseteq Accounts
    /\ Outcomes \subseteq FlowOutcomes
    /\ Acts \subseteq KindsOfActs
    /\ MaxActs \in Nat
    /\ {NoAccount, AbortedFlow} \cap Accounts = {}
    /\ NoAccount # AbortedFlow

VARIABLES
    place,          \* where the object is: "new", "listed" or "gone"
    default,        \* m_defaultAccount
    validity,       \* validity_ and, when certain, whether the token is old
    state,          \* accountState
    flow,           \* MinecraftAccount::m_currentTask: "none", "created", "running"
    held,           \* an aborted AuthFlow that is still owned: its step may answer
    activity,       \* m_activityCount
    queue,          \* m_refreshQueue
    current,        \* AccountList::m_currentTask
    watched,        \* accounts whose flow reports its end to the schedule
    refreshTimer,   \* m_refreshTimer is armed
    nextTimer,      \* m_nextTimer is armed
    started,        \* Application has called fillQueue()
    acts,           \* bound: how often users, the API and the CLI did something
    launch          \* the launch in progress: its phase and its accounts

dataVars == <<place, default, validity, state, held>>
scheduleVars == <<queue, current, watched, refreshTimer, nextTimer>>
vars == <<dataVars, flow, activity, scheduleVars, started, acts, launch>>

Listed == {a \in Accounts : place[a] = "listed"}
Busy == {a \in Accounts : flow[a] # "none"}

Idle == [phase |-> "idle", use |-> NoAccount, check |-> NoAccount]

Init ==
    /\ place = [a \in Accounts |-> IF a \in Loaded THEN "listed" ELSE "new"]
    /\ default \in Loaded \cup {NoAccount}
    /\ validity \in {v \in [Accounts -> {"none", "assumed"}] :
                        \A a \in Accounts \ Loaded : v[a] = "none"}
    /\ state = [a \in Accounts |-> "Unchecked"]
    /\ flow = [a \in Accounts |-> "none"]
    /\ held = [a \in Accounts |-> "no"]
    /\ activity = 0
    /\ queue = <<>>
    /\ current = NoAccount
    /\ watched = {}
    /\ refreshTimer = FALSE
    /\ nextTimer = FALSE
    /\ started = FALSE
    /\ acts = 0
    /\ launch = Idle

\* Users act once the application runs.
Act(kind) == started /\ kind \in Acts /\ acts < MaxActs /\ acts' = acts + 1

-----------------------------------------------------------------------------
(* A flow comes into being and starts.                                     *)

InUse(a) == launch.phase = "playing" /\ launch.use = a

\* MinecraftAccount::shouldRefresh.
ShouldRefresh(a) == ~InUse(a) /\ validity[a] \in {"assumed", "expiring"}

\* MinecraftAccount::refresh: the flow of an account, made when it has none.
WithFlow(f, a) == [f EXCEPT ![a] = IF @ = "none" THEN "created" ELSE @]

\* Task::start of a flow, no effect on one that runs; AuthFlow::executeTask.
Running(f, a) == [f EXCEPT ![a] = "running"]
StateWhenRunning(f, a) == IF f[a] = "running" THEN state ELSE [state EXCEPT ![a] = "Working"]

\* accountActivityChanged(true), which the list hears of its own accounts.
ActivityBegins(f) == activity + Cardinality({a \in Listed : flow[a] = "none" /\ f[a] # "none"})

StartRefresh(a) ==
    /\ flow' = Running(flow, a)
    /\ state' = StateWhenRunning(flow, a)
    /\ activity' = ActivityBegins(flow')

-----------------------------------------------------------------------------
(* The schedule of background refreshes.                                   *)

\* AccountList::tryNext on queue q: ids that are not listed are dropped, the
\* first that is gets its refresh; with none left the hourly timer is armed.
TryNext(q, armed) ==
    LET found == {i \in DOMAIN q : q[i] \in Listed} IN
    \/ /\ found = {}
       /\ queue' = <<>>
       /\ refreshTimer' = TRUE
       /\ UNCHANGED <<flow, state, activity, current, watched>>
    \/ \E i \in found :
       /\ \A j \in found : i <= j
       /\ queue' = SubSeq(q, i + 1, Len(q))
       /\ StartRefresh(q[i])
       /\ current' = q[i]
       /\ watched' = watched \cup {q[i]}
       /\ refreshTimer' = armed

\* AccountList::fillQueue: the default account first, the others in the order
\* of the list, which the user may change.
FillQueue ==
    /\ ~started \/ refreshTimer
    /\ started' = TRUE
    /\ LET first == IF default # NoAccount /\ ShouldRefresh(default)
                    THEN Append(queue, default) ELSE queue
           others == {a \in Listed \ {default} : ShouldRefresh(a) /\ a \notin ToSet(queue)}
       IN \E order \in SetToSeqs(others) : TryNext(first \o order, FALSE)
    /\ UNCHANGED <<place, default, validity, held, nextTimer, acts, launch>>

NextTimer ==
    /\ nextTimer
    /\ nextTimer' = FALSE
    /\ TryNext(queue, refreshTimer)
    /\ UNCHANGED <<place, default, validity, held, started, acts, launch>>

\* AccountList::requestRefresh.  The button is off while the account is busy.
RequestRefresh(a) ==
    /\ Act("request")
    /\ a \in Listed \ Busy
    /\ LET q == <<a>> \o (IF a \in ToSet(queue) THEN Remove(queue, a) ELSE queue) IN
       \/ activity = 0 /\ TryNext(q, refreshTimer)
       \/ /\ activity # 0
          /\ queue' = q
          /\ UNCHANGED <<flow, state, activity, current, watched, refreshTimer>>
    /\ UNCHANGED <<place, default, validity, held, nextTimer, started, launch>>

-----------------------------------------------------------------------------
(* Flows that others start.                                                *)

\* The skin dialog queues the refresh behind its upload, which may fail or be
\* aborted before the refresh starts.
PrepareRefresh(a) ==
    /\ Act("prepare")
    /\ a \in Listed \ Busy
    /\ flow' = WithFlow(flow, a)
    /\ activity' = ActivityBegins(flow')
    /\ UNCHANGED <<dataVars, scheduleVars, started, launch>>

\* The API and the CLI refresh at once, the skin dialog after its upload.
DirectRefresh(a) ==
    /\ Act("refresh")
    /\ a \in Listed
    /\ flow[a] # "running"
    /\ StartRefresh(a)
    /\ UNCHANGED <<place, default, validity, held, scheduleVars, started, launch>>

\* A login dialog or the API makes a new account and runs its flow.
Login(a) ==
    /\ Act("login")
    /\ place[a] = "new" /\ flow[a] = "none" /\ state[a] # "Online"
    /\ StartRefresh(a)
    /\ UNCHANGED <<place, default, validity, held, scheduleVars, started, launch>>

-----------------------------------------------------------------------------
(* A flow ends.                                                            *)

\* (faulty variant for the checks) The account is not looked up.
ActivityEndsForAny(a) == IF activity > 0 THEN activity - 1 ELSE activity

\* accountActivityChanged(false): the list counts only its own accounts.
ActivityEnds(a) == IF a \in Listed /\ activity > 0 THEN activity - 1 ELSE activity

\* (faulty variant for the checks) The timer for the next refresh is forgotten.
ScheduleHearsSilently(a) ==
    /\ current' = IF a \in watched THEN NoAccount ELSE current
    /\ watched' = watched \ {a}
    /\ UNCHANGED nextTimer

\* AccountList::authSucceeded and authFailed.
ScheduleHears(a) ==
    /\ current' = IF a \in watched THEN NoAccount ELSE current
    /\ nextTimer' = (nextTimer \/ a \in watched)
    /\ watched' = watched \ {a}

LaunchHears(a, phase) ==
    launch' = IF launch.phase = "waiting" /\ launch.check = a
              THEN [launch EXCEPT !.phase = phase] ELSE launch

\* (faulty variant for the checks) A success does not make the data certain.
TokenAfterUnconfirmed(outcome, v) == IF outcome \in {"Expired", "Gone"} THEN "none" ELSE v

\* AuthFlow::succeed and MinecraftAccount::authFailed.
TokenAfter(outcome, v) ==
    CASE outcome = "Online" -> "certain"
      [] outcome \in {"Expired", "Gone"} -> "none"
      [] OTHER -> v

\* AuthFlow::changeState at the end, MinecraftAccount::authSucceeded, authFailed.
FlowEnds(a, outcome) ==
    /\ flow[a] = "running"
    /\ flow' = [flow EXCEPT ![a] = "none"]
    /\ state' = [state EXCEPT ![a] = outcome]
    /\ validity' = [validity EXCEPT ![a] = TokenAfter(outcome, @)]
    /\ activity' = ActivityEnds(a)
    /\ ScheduleHears(a)
    /\ LaunchHears(a, "checked")
    /\ UNCHANGED <<place, default, held, queue, refreshTimer, started, acts>>

\* MinecraftAccount::authFailed of an aborted flow, which was working.
StateAfterAbort(a) == [state EXCEPT ![a] = "Unchecked"]

\* AuthFlow::abort: the list listens for success and failure only.  Most steps
\* cannot be stopped; their answer still comes if somebody owns the flow.
Abort(a) ==
    /\ Act("abort")
    /\ flow[a] = "running"
    /\ flow' = [flow EXCEPT ![a] = "none"]
    /\ state' = StateAfterAbort(a)
    /\ activity' = ActivityEnds(a)
    /\ current' = IF current = a THEN AbortedFlow ELSE current
    /\ watched' = watched \ {a}
    /\ held' \in {held, [held EXCEPT ![a] = "pending"]}
    /\ LaunchHears(a, "aborted")
    /\ UNCHANGED <<place, default, validity, queue, refreshTimer, nextTimer, started>>

\* AuthFlow::stepFinished of an aborted flow: the state is set, the end is not
\* reported, no further step runs.
LateStep(a) ==
    /\ held[a] = "pending"
    /\ held' = [held EXCEPT ![a] = "answered"]
    /\ \E s \in {"Working"} \cup (Outcomes \ {"Online"}) : state' = [state EXCEPT ![a] = s]
    /\ UNCHANGED <<place, default, validity, flow, activity, scheduleVars, started, acts, launch>>

-----------------------------------------------------------------------------
(* The list.                                                               *)

\* (faulty variant for the checks) The profile is not looked up.
NothingReplaced(a) == {}

Replaced(a) == {b \in Listed : ProfileOf[b] = ProfileOf[a]}

\* AccountList::addAccount: a second account with a profile takes the place of
\* the first.  Its callers make it the default when there is none.
AddAccount(a) ==
    LET old == Replaced(a) IN
    /\ place[a] = "new" /\ flow[a] = "none" /\ state[a] = "Online"
    /\ place' = [b \in Accounts |-> IF b = a THEN "listed"
                                    ELSE IF b \in old THEN "gone" ELSE place[b]]
    /\ \/ default \in old /\ default' = a
       \/ default \notin old /\ default' = default
       \/ default = NoAccount /\ default' = a
    /\ UNCHANGED <<validity, state, held, flow, activity, scheduleVars, started, acts, launch>>

\* AccountList::removeAccount: busy or not, the list hears no more of it.
TakeOff(a) ==
    /\ place' = [place EXCEPT ![a] = "gone"]
    /\ default' = IF default = a THEN NoAccount ELSE default

RemoveAccount(a) ==
    /\ Act("remove")
    /\ a \in Listed
    /\ TakeOff(a)
    /\ UNCHANGED <<validity, state, held, flow, activity, scheduleVars, started, launch>>

\* AccountList::setDefaultAccount.
SetDefault(a) ==
    /\ Act("default")
    /\ a \in Listed \cup {NoAccount}
    /\ default' = a
    /\ UNCHANGED <<place, validity, state, held, flow, activity, scheduleVars, started, launch>>

\* A token comes within twelve hours of its end.
TokenAges(a) ==
    /\ validity[a] = "certain"
    /\ validity' = [validity EXCEPT ![a] = "expiring"]
    /\ UNCHANGED <<place, default, state, held, flow, activity, scheduleVars, started, acts, launch>>

-----------------------------------------------------------------------------
(* LaunchController, for a launch that is meant to be online.              *)

\* The account that must own the game: the one used, the default, or any.
AccountToCheck(a) ==
    IF a \in Owners THEN {a}
    ELSE IF default \in Owners THEN {default}
    ELSE Listed \cap Owners

\* The end of decideLaunchMode: online the session is claimed, offline the
\* game runs without it, a broken account is to be logged in again: what is
\* taken off the list first is whatever has its profile by now.
Decide(a, c) ==
    \/ /\ state[c] = "Online"
       /\ launch' = [phase |-> "claiming", use |-> a, check |-> c]
       /\ UNCHANGED <<place, default>>
    \/ /\ state[c] \in {"Unchecked", "Working", "Offline"}
       /\ launch' = Idle
       /\ UNCHANGED <<place, default>>
    \/ /\ state[c] \in {"Errored", "Expired", "Disabled", "Gone"}
       /\ launch' = Idle
       /\ \/ UNCHANGED <<place, default>>
          \/ "remove" \in Acts /\ \E b \in Replaced(c) : TakeOff(b)

\* decideLaunchMode asks for a refresh of the account to use, then for one of
\* the account to check; only the second is waited for, in a dialog that starts
\* it.  One launch at a time is modelled.
Forced(a) == IF ShouldRefresh(a) \/ state[a] = "Offline" THEN WithFlow(flow, a) ELSE flow

Launch(a) ==
    /\ Act("launch")
    /\ launch = Idle /\ a \in Listed
    /\ \/ /\ AccountToCheck(a) = {}    \* the demo
          /\ flow' = Forced(a)
          /\ UNCHANGED <<state, place, default, launch>>
       \/ \E c \in AccountToCheck(a) :
          LET unsure == state[c] \in {"Unchecked", "Errored"}
              asked == IF unsure THEN WithFlow(Forced(a), c) ELSE Forced(a)
              wait == unsure \/ state[c] = "Working"
          IN \/ /\ wait /\ asked[c] # "none"
                /\ flow' = Running(asked, c)
                /\ state' = StateWhenRunning(asked, c)
                /\ launch' = [phase |-> "waiting", use |-> a, check |-> c]
                /\ UNCHANGED <<place, default>>
             \/ \* "Account refresh task is unavailable."
                /\ wait /\ asked[c] = "none"
                /\ flow' = asked
                /\ UNCHANGED <<state, place, default, launch>>
             \/ /\ ~wait
                /\ flow' = asked
                /\ Decide(a, c)
                /\ UNCHANGED state
    /\ activity' = ActivityBegins(flow')
    /\ UNCHANGED <<validity, held, scheduleVars, started>>

\* The wait is over: a refresh that was aborted ends the launch.
LaunchGoesOn ==
    /\ \/ launch.phase = "checked" /\ Decide(launch.use, launch.check)
       \/ launch.phase = "aborted" /\ launch' = Idle /\ UNCHANGED <<place, default>>
    /\ UNCHANGED <<validity, state, held, flow, activity, scheduleVars, started, acts>>

\* ClaimAccount looks the account up in the list and takes a UseLock.
Claim ==
    /\ launch.phase = "claiming"
    /\ launch' = IF launch.use \in Listed THEN [launch EXCEPT !.phase = "playing"] ELSE Idle
    /\ UNCHANGED <<dataVars, flow, activity, scheduleVars, started, acts>>

\* ClaimAccount::finalize.
GameEnds ==
    /\ launch.phase = "playing"
    /\ launch' = Idle
    /\ UNCHANGED <<dataVars, flow, activity, scheduleVars, started, acts>>

-----------------------------------------------------------------------------
AccountStep(a) ==
    \/ RequestRefresh(a) \/ PrepareRefresh(a) \/ DirectRefresh(a) \/ Login(a)
    \/ Abort(a) \/ LateStep(a) \/ AddAccount(a) \/ RemoveAccount(a) \/ TokenAges(a) \/ Launch(a)
    \/ \E outcome \in Outcomes : FlowEnds(a, outcome)

Next ==
    \/ FillQueue \/ NextTimer \/ LaunchGoesOn \/ Claim \/ GameEnds
    \/ \E a \in Accounts : AccountStep(a)
    \/ \E a \in Accounts \cup {NoAccount} : SetDefault(a)

Spec == Init /\ [][Next]_vars

\* Armed timers fire, and a flow that runs ends: its acts have timeouts.
FairSpec ==
    /\ Spec
    /\ WF_vars(FillQueue)
    /\ WF_vars(NextTimer)
    /\ \A a \in Accounts : WF_vars(\E outcome \in Outcomes : FlowEnds(a, outcome))

-----------------------------------------------------------------------------
\* The list holds one account per profile and the default account is in it,
\* through replacing, removing and logging in again in any order.
ListConsistent ==
    /\ \A a, b \in Listed : ProfileOf[a] = ProfileOf[b] => a = b
    /\ default \in Listed \cup {NoAccount}

\* The list counts every busy account of its own: the end of a flow is never
\* counted for an account whose start was not, so requestRefresh() never finds
\* the list inactive while one of its accounts is busy.
ActivityCoversBusy == Cardinality(Listed \cap Busy) <= activity

\* An account is shown as working only while its flow runs, or after the late
\* answer of a flow that was aborted.
WorkingIsOwned == \A a \in Accounts : state[a] = "Working" => flow[a] = "running" \/ held[a] = "answered"

\* An account is shown as online only with a token that a refresh confirmed
\* and none has rejected since.
OnlineHasToken == \A a \in Accounts : state[a] = "Online" => validity[a] \in {"certain", "expiring"}

\* What the list shows of an account is what its flow and token say (AccountState).
StatesAreTrue == WorkingIsOwned /\ OnlineHasToken

\* A queued refresh starts or its account is taken off the list, unless the
\* schedule lost its flow to an abort.
QueueServed ==
    \A a \in Accounts : a \in ToSet(queue) ~> (a \notin ToSet(queue) \/ current = AbortedFlow)

=============================================================================
