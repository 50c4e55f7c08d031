-------------------------------- MODULE Engines --------------------------------
(***************************************************************************)
(* The downloads of the launcher with both engines.  The setting that      *)
(* chooses the engine is read by the factories of net/Download and again   *)
(* by each executeTask(), which leaves the work to Qt if it has changed.   *)
(* A NetJob starts a download, starts it again when it has failed, and     *)
(* aborts it while it waits for an announcement.                           *)
(***************************************************************************)
EXTENDS Aria2, PclDownload

vars == <<dl, attempts, upsets, aria2Vars, pclVars>>

\* The factories of net/Download have asked the setting, which names one engine.
Init ==
    /\ \E engine \in {"aria2", "PCL"} : dl = [d \in Downloads |-> NewDownload(engine)]
    /\ attempts = 0 /\ upsets = 0
    /\ Aria2Init /\ PclInit

\* executeTask(), which is virtual.
Execute(d, r) ==
    \/ r.engine = "aria2" /\ Aria2Execute(d, r) /\ UNCHANGED pclVars
    \/ r.engine = "PCL" /\ PclExecute(d, r) /\ UNCHANGED aria2Vars

\* Task::start(), by the job: the first time, and after a failure.
Start(d) ==
    /\ ~Pending(d) /\ dl[d].state \in {"Inactive", "Failed"}
    /\ Attempt /\ UNCHANGED upsets
    /\ Execute(d, [dl[d] EXCEPT !.state = "Running", !.starts = @ + 1])

\* The reply is a redirect: the new address is asked for at once.
Redirect(d) ==
    /\ dl[d].qt
    /\ Attempt /\ UNCHANGED upsets
    /\ Execute(d, [dl[d] EXCEPT !.qt = FALSE])

\* The timer after a 429.
AskAgain(d) ==
    /\ dl[d].again
    /\ Execute(d, [dl[d] EXCEPT !.again = FALSE])
    /\ UNCHANGED <<attempts, upsets>>

Abort(d) ==
    /\ Pending(d) /\ dl[d].state # "AbortedByUser"
    /\ Upset
    /\ \/ dl[d].engine = "aria2" /\ Aria2Abort(d) /\ UNCHANGED pclVars
       \/ dl[d].engine = "PCL" /\ PclAbort(d) /\ UNCHANGED aria2Vars
    /\ UNCHANGED attempts

Request(d) ==
    \/ Start(d) \/ Redirect(d) \/ AskAgain(d) \/ Abort(d)
    \/ ReplyEnds(d) /\ UNCHANGED <<attempts, upsets, aria2Vars, pclVars>>
    \/ ReplyLimited(d) /\ UNCHANGED <<upsets, aria2Vars, pclVars>>

Delivered(c) == AddAnswered(c) \/ ReaddAnswered(c) \/ TellAnswered(c) \/ RemoveAnswered(c)

OfAria2 ==
    \/ \E d \in Downloads : Aria2Stall(d)
    \/ \E g \in Gids : Refresh(g) \/ UserRemoves(g) \/ WorkEnds(g)
    \/ \E c \in calls : Delivered(c) \/ Serve(c)
    \/ ClearFinished \/ Shutdown \/ ProcessFinished \/ Crash

OfPcl ==
    \/ \E d \in Downloads : PclStall(d)
    \/ \E t \in Tasks : NativeEnds(t)
    \/ \E e \in events : TaskEvent(e)

Next ==
    \/ \E d \in Downloads : Request(d)
    \/ OfAria2 /\ UNCHANGED <<attempts, pclVars>>
    \/ OfPcl /\ UNCHANGED <<attempts, aria2Vars>>

Spec == Init /\ [][Next]_vars

\* What brings a download on without the engine: its reply ends, the timer after a
\* 429 fires, and the stall watch when aria2 does not have it any more, since no
\* bytes come then.
GoesOn(d) ==
    \/ ReplyEnds(d) /\ UNCHANGED <<attempts, upsets, aria2Vars, pclVars>>
    \/ AskAgain(d)
    \/ /\ dl[d].gid # 0 /\ work[dl[d].gid] = "lost"
       /\ Aria2Stall(d) /\ UNCHANGED <<attempts, pclVars>>

\* The calls for a download or a gid are served, and their answers delivered.
CallsGoOn(x) ==
    /\ \E c \in calls : c.of = x /\ (Serve(c) \/ Delivered(c))
    /\ UNCHANGED <<attempts, pclVars>>

\* A task of the native library ends, and the event is delivered.
TaskGoesOn(t) ==
    /\ NativeEnds(t) \/ \E e \in events : e.task = t /\ TaskEvent(e)
    /\ UNCHANGED <<attempts, aria2Vars>>

Fairness ==
    /\ \A d \in Downloads : WF_vars(GoesOn(d))
    /\ \A x \in Downloads \cup Gids : WF_vars(CallsGoOn(x))
    /\ \A g \in Gids :
          /\ WF_vars(WorkEnds(g) /\ UNCHANGED <<attempts, pclVars>>)
          /\ WF_vars(Refresh(g) /\ UNCHANGED <<attempts, pclVars>>)
    /\ WF_vars(ProcessFinished /\ UNCHANGED <<attempts, pclVars>>)
    /\ \A t \in Tasks : WF_vars(TaskGoesOn(t))

FairSpec == Spec /\ Fairness

-----------------------------------------------------------------------------

\* Each start is announced to have ended at most once: a second announcement would
\* make the NetJob count a download twice.  Ends come from the engine's events, from
\* answers to calls, from stalls and from replies, in any order.
EndsOnce == \A d \in Downloads : dl[d].ends <= dl[d].starts

\* Something is under way that can still bring a download to its end.
UnderWay(d) ==
    \/ dl[d].qt \/ dl[d].again
    \/ \E c \in calls : c.kind = "add" /\ c.of = d
    \/ ~dl[d].finished /\ (dl[d].gid # 0 \/ dl[d].usingPcl)

\* It has ended, and nobody was told.
Silent(d) == Pending(d) /\ ~UnderWay(d)

\* An aborted download of aria2: its abort() asks aria2 for the end it waits for.
AbortedAtAria2(d) == dl[d].engine = "aria2" /\ dl[d].state = "AbortedByUser"

\* A download comes to its end without a word in two cases only: it was aborted and
\* the engine is aria2, or a mirror had answered 429, after which the engine was
\* asked again in State::Inactive, where emitSucceeded() and emitFailed() are mute.
SilenceExplained ==
    \A d \in Downloads : Silent(d) => dl[d].limited \/ AbortedAtAria2(d)

\* Every download that was started ends: stalls, crashes of aria2, lost gids, aborts
\* at PCL and fallbacks lead to an announcement, or to one of the silences above.
EveryDownloadEnds ==
    \A d \in Downloads : Pending(d) ~> ~Pending(d) \/ Silent(d) \/ AbortedAtAria2(d)
=============================================================================
