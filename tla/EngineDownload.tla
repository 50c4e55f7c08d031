---------------------------- MODULE EngineDownload ----------------------------
(***************************************************************************)
(* A download that an engine other than Qt may carry out: what             *)
(* net/Aria2Download and net/PclDownloadTask have in common.  Both are     *)
(* Tasks (tasks/Task.cpp) and requests (net/NetRequest.cpp): they ask      *)
(* their engine first and fall back to the request they inherit.  The      *)
(* request calls executeTask() again when it is redirected or limited,     *)
(* and that call is virtual: it comes back to the engine.                  *)
(*                                                                         *)
(* An announcement is one of the signals succeeded(), failed(), aborted(), *)
(* each followed by finished(); a NetJob takes nothing else for an end.    *)
(***************************************************************************)
EXTENDS Integers, FiniteSets

CONSTANTS
    Downloads,   \* downloads, each of one target file
    Mirrors,     \* those that ask a mirror first (setFallbackUrl)
    MaxAttempts, \* bound: calls of executeTask(), for all downloads together
    MaxUpsets    \* bound: aborts, stalls, and what upsets aria2, together

ASSUME EngineAssumption ==
    /\ Mirrors \subseteq Downloads
    /\ MaxAttempts \in Nat /\ MaxUpsets \in Nat

VARIABLES
    dl,        \* the downloads
    attempts,  \* counts towards MaxAttempts
    upsets     \* counts towards MaxUpsets

Attempt == attempts < MaxAttempts /\ attempts' = attempts + 1
Upset == upsets < MaxUpsets /\ upsets' = upsets + 1

\* A download as its factory leaves it.
NewDownload(engine) ==
    [engine |-> engine,     \* the class: "aria2" or "PCL"
     state |-> "Inactive",  \* Task::m_state
     finished |-> FALSE,    \* m_finished: the engine's part is over
     gid |-> 0,             \* m_gid of aria2, 0 if empty
     task |-> 0,            \* m_taskId of PCL, 0 if none
     usingPcl |-> FALSE,    \* m_usingPcl
     watched |-> FALSE,     \* m_stallTimer runs
     qt |-> FALSE,          \* the reply of the inherited request is awaited
     again |-> FALSE,       \* the timer after a 429 runs
     starts |-> 0,          \* calls of Task::start()
     ends |-> 0,            \* announcements
     limited |-> FALSE]     \* history: a mirror has answered 429

\* Started, and nothing announced yet.
Pending(d) == dl[d].ends < dl[d].starts

-----------------------------------------------------------------------------
(* Task and NetRequest, as operations on a record.                         *)

Announce(r, state) == [r EXCEPT !.state = state, !.ends = @ + 1, !.limited = FALSE]

\* emitSucceeded() and emitFailed() say nothing unless the task is running.
Emit(r, state) == IF r.state = "Running" THEN Announce(r, state) ELSE r

\* The end of an aborted task is announced by hand.
AnnounceAbort(r) == Announce(r, "AbortedByUser")

\* What NetRequest::executeTask() may do: the sink may have the file, fail, or let
\* the request go on; the state is the sink's answer, whatever it was.
Requested(r) ==
    IF r.state = "AbortedByUser" THEN {AnnounceAbort(r)}
    ELSE {[r EXCEPT !.state = "Running", !.qt = TRUE],
          Announce(r, "Succeeded"), Announce(r, "Failed")}

UseQt(d, r) == \E q \in Requested(r) : dl' = [dl EXCEPT ![d] = q]

\* startQtFallback(); the user may have forbidden it.
FallBack(d, r) ==
    \/ dl' = [dl EXCEPT ![d] = Emit(r, "Failed")]
    \/ UseQt(d, r)

\* The file is there: looked at, put in its place and checked.  An abort is noticed
\* while the file is read, so not if it cannot be opened or is empty.
Examined(r, outcome) ==
    CASE outcome = "unreadable" -> Emit(r, "Failed")
      [] outcome # "unreadable" /\ r.state = "AbortedByUser" /\ outcome # "empty" ->
            AnnounceAbort(r)
      [] outcome = "broken" -> Emit(r, "Failed")
      [] OTHER -> Emit(r, "Succeeded")

Outcomes == {"unreadable", "broken", "empty", "good"}

\* The engine gives up: the end of an aborted download is what was asked for.
GivenUp(r) == IF r.state = "AbortedByUser" THEN AnnounceAbort(r) ELSE Emit(r, "Failed")

\* The engine's part of a download is over.
Over(r) == [r EXCEPT !.finished = TRUE, !.watched = FALSE]

\* The reply has ended: downloadFinished(), after downloadError() if it failed.  The
\* abort() of aria2's class lets a reply run, and an error then replaces
\* State::AbortedByUser.
Replied(r) ==
    {Announce(r, "Succeeded"), Announce(r, "Failed")}
    \cup (IF r.state = "AbortedByUser" THEN {AnnounceAbort(r)} ELSE {})

ReplyEnds(d) ==
    /\ dl[d].qt
    /\ \E q \in Replied([dl[d] EXCEPT !.qt = FALSE]) : dl' = [dl EXCEPT ![d] = q]

\* A mirror answers 429: the request is made again by a timer.
ReplyLimited(d) ==
    /\ dl[d].qt /\ d \in Mirrors /\ Attempt
    /\ dl' = [dl EXCEPT ![d].qt = FALSE, ![d].state = "Inactive", ![d].again = TRUE,
                        ![d].limited = TRUE]

=============================================================================
