------------------------------ MODULE PclDownload ------------------------------
(***************************************************************************)
(* Downloads that the native library PCL.Download carries out              *)
(* (net/PclDownloadTask, net/PclDownloadLibrary).  The library runs its    *)
(* tasks on threads of its own; the bridge hands their events over to the  *)
(* main thread, where the download takes those of its current task.        *)
(* Events of progress are left out.                                        *)
(***************************************************************************)
EXTENDS EngineDownload

CONSTANT MaxTasks  \* bound: tasks of the native library

ASSUME PclAssumption == MaxTasks \in Nat \ {0}

Tasks == 1 .. MaxTasks

VARIABLES
    native,  \* external: the library's tasks: "none", "going", "aborting", "ended"
    events   \* terminal events that the bridge has not delivered, a task with its event

pclVars == <<native, events>>

PclInit == native = [t \in Tasks |-> "none"] /\ events = {}

\* Every attempt starts from a clean slate.
CleanOfPcl(r) == [r EXCEPT !.finished = FALSE, !.usingPcl = FALSE, !.task = 0]

\* executeTask().  The library may not be the chosen one any more, the folder may be
\* missing, and the library may refuse.
PclExecute(d, r0) ==
    LET r == CleanOfPcl(r0) IN
    \/ UseQt(d, r) /\ UNCHANGED pclVars
    \/ /\ r.state = "AbortedByUser"
       /\ dl' = [dl EXCEPT ![d] = AnnounceAbort(r)]
       /\ UNCHANGED pclVars
    \/ /\ r.state # "AbortedByUser"
       /\ dl' = [dl EXCEPT ![d] = Emit(r, "Failed")] \/ FallBack(d, r)
       /\ UNCHANGED pclVars
    \/ /\ r.state # "AbortedByUser"
       /\ \E t \in Tasks :
             /\ native[t] = "none" /\ \A u \in 1 .. t - 1 : native[u] # "none"
             /\ native' = [native EXCEPT ![t] = "going"]
             /\ dl' = [dl EXCEPT ![d] = [r EXCEPT !.task = t, !.usingPcl = TRUE,
                                                  !.watched = TRUE]]
       /\ UNCHANGED events

\* finishDownload(): the library has put the file in its place.
Accepted(r, good) == Emit(r, IF good THEN "Succeeded" ELSE "Failed")

\* Faulty variant: Aborted is taken for no end.
HeardButAborted(r, t, event, good) ==
    IF r.engine # "PCL" \/ r.finished \/ r.task # t \/ event = "Aborted" THEN r
    ELSE IF event = "Finished" /\ r.state # "AbortedByUser" THEN Accepted(Over(r), good)
    ELSE GivenUp(Over(r))

\* onTaskEvent() of a terminal event.
Heard(r, t, event, good) ==
    IF r.engine # "PCL" \/ r.finished \/ r.task # t THEN r
    ELSE IF event = "Finished" /\ r.state # "AbortedByUser" THEN Accepted(Over(r), good)
    ELSE GivenUp(Over(r))

\* flushTaskEvents(): the events come one after the other.
TaskEvent(e) ==
    /\ e \in events
    /\ events' = events \ {e}
    /\ \E good \in BOOLEAN :
          dl' = [d \in Downloads |-> Heard(dl[d], e.task, e.event, good)]
    /\ UNCHANGED <<native, upsets>>

\* abort(): of the task, or of the request that has taken its place, whose reply ends
\* at once.  A timer after a 429 goes on.
PclAbort(d) ==
    LET r == [dl[d] EXCEPT !.watched = FALSE, !.state = "AbortedByUser"]
        stop == r.usingPcl /\ ~r.finished
    IN
    /\ dl' = [dl EXCEPT ![d] =
                IF ~r.usingPcl /\ r.qt THEN AnnounceAbort([r EXCEPT !.qt = FALSE]) ELSE r]
    /\ native' = [t \in Tasks |->
                    IF stop /\ t = r.task /\ native[t] = "going" THEN "aborting" ELSE native[t]]
    /\ UNCHANGED events

\* handleStall(): stop listening first, the task's end comes later.
PclStall(d) ==
    LET r == dl[d] IN
    /\ r.engine = "PCL" /\ r.watched /\ ~r.finished /\ r.usingPcl
    /\ Upset
    /\ FallBack(d, [Over(r) EXCEPT !.usingPcl = FALSE])
    /\ native' = [native EXCEPT ![r.task] = IF @ = "going" THEN "aborting" ELSE @]
    /\ UNCHANGED events

-----------------------------------------------------------------------------
(* The native library (external).                                          *)

\* A task ends, and says so once.
NativeEnds(t) ==
    /\ native[t] \in {"going", "aborting"}
    /\ native' = [native EXCEPT ![t] = "ended"]
    /\ \E event \in {"Finished", "Failed"} \cup IF native[t] = "aborting" THEN {"Aborted"} ELSE {} :
          events' = events \cup {[task |-> t, event |-> event]}
    /\ UNCHANGED <<dl, upsets>>
=============================================================================
