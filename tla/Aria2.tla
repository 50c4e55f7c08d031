--------------------------------- MODULE Aria2 ---------------------------------
(***************************************************************************)
(* net/Aria2Manager and the downloads it carries out (net/Aria2Download).  *)
(* The manager runs the external program aria2c and talks to it by calls   *)
(* (JSON-RPC over HTTP) whose answers come in any order.  aria2 knows a    *)
(* download by a gid; the manager asks for the status of the active ones   *)
(* at intervals and when aria2 says that something has happened.  If the   *)
(* process ends, the manager starts another and adds the active downloads  *)
(* again, under new gids.                                                  *)
(***************************************************************************)
EXTENDS EngineDownload

CONSTANTS
    MaxRestartAttempts,  \* MAX_RESTART_ATTEMPTS
    MaxGids              \* bound: downloads that aria2 accepts

ASSUME Aria2Assumption ==
    MaxRestartAttempts \in Nat /\ MaxGids \in Nat \ {0}

Gids == 1 .. MaxGids

VARIABLES
    proc,       \* m_process: "Stopped", "Running", or "Dead" until processFinished()
    work,       \* external: what aria2 does for a gid; "none" before, "lost" after its process
    calls,      \* calls not answered, and answers not delivered
    active,     \* m_activeGids
    requests,   \* the gids in m_requests
    restarts,   \* m_restartAttempts
    shutdownRequested

managerVars == <<active, requests, restarts, shutdownRequested>>
aria2Vars == <<proc, work, calls, managerVars>>

Aria2Init ==
    /\ proc = "Stopped"
    /\ work = [g \in Gids |-> "none"]
    /\ calls = {} /\ active = {} /\ requests = {}
    /\ restarts = 0 /\ shutdownRequested = FALSE

\* A call that waits for its answer.  `of' is a download ("add"), a gid, or 0; `new'
\* the gid that aria2 gives.
Call(kind, of) == [kind |-> kind, of |-> of, answer |-> "sent", new |-> 0]

Final == {"complete", "error", "removed"}

\* isRunning(): the process counts as running until its end is reported.
IsRunning == proc # "Stopped"

\* Calls that were on their way when the process ended fail; nobody looks at the
\* answer of shutdown.
Failing(cs) ==
    {IF c.answer = "sent" /\ c.kind # "remove" THEN [c EXCEPT !.answer = "failed"] ELSE c :
        c \in {b \in cs : b.kind # "shutdown"}}

\* With calls of this kind for these gids.  One for a gid stands for all: their
\* answers say the same or are out of date, and only the first final one counts.
With(cs, kind, gids) ==
    cs \cup {Call(kind, g) : g \in {h \in gids : \A c \in cs : c.kind = kind => c.of # h}}

-----------------------------------------------------------------------------
(* Aria2Download.                                                          *)

\* Faulty variant: an attempt inherits m_finished from the one before.
CleanOfGid(r) == [r EXCEPT !.gid = 0]

\* Every attempt starts from a clean slate.
Clean(r) == [r EXCEPT !.finished = FALSE, !.gid = 0]

\* executeTask(); ensureStarted() starts aria2, which may not be there.
Aria2Execute(d, r0) ==
    LET r == Clean(r0) IN
    \/ UseQt(d, r) /\ UNCHANGED aria2Vars
    \/ /\ r.state = "AbortedByUser"
       /\ dl' = [dl EXCEPT ![d] = AnnounceAbort(r)]
       /\ UNCHANGED aria2Vars
    \/ /\ r.state # "AbortedByUser" /\ proc = "Stopped"
       /\ FallBack(d, r)
       /\ UNCHANGED aria2Vars
    \/ /\ r.state # "AbortedByUser"
       /\ proc' = IF IsRunning THEN proc ELSE "Running"
       /\ \/ dl' = [dl EXCEPT ![d] = Emit(r, "Failed")] /\ UNCHANGED calls
          \/ dl' = [dl EXCEPT ![d] = r] /\ calls' = calls \cup {Call("add", d)}
       /\ UNCHANGED <<work, managerVars>>

\* Faulty variant: m_finished is not looked at.
ChangedAgain(r, g, status, outcome) ==
    IF r.engine # "aria2" \/ r.gid # g \/ status \notin Final THEN r
    ELSE IF status = "complete" THEN Examined(Over(r), outcome) ELSE GivenUp(Over(r))

\* aria2DownloadChanged(): what a download makes of the status of a gid.
Changed(r, g, status, outcome) ==
    IF r.engine # "aria2" \/ r.gid # g \/ r.finished \/ status \notin Final THEN r
    ELSE IF status = "complete" THEN Examined(Over(r), outcome) ELSE GivenUp(Over(r))

\* downloadChanged(), which every download hears.
Tells(gids, status) ==
    \E outcome \in Outcomes :
       /\ status # "complete" => outcome = "good"
       /\ dl' = [d \in Downloads |->
                   IF dl[d].gid \in gids THEN Changed(dl[d], dl[d].gid, status, outcome)
                   ELSE dl[d]]

\* Nothing is removed while addUri is under way, for want of a gid.
Aria2Abort(d) ==
    /\ dl' = [dl EXCEPT ![d].state = "AbortedByUser", ![d].watched = FALSE]
    /\ calls' = IF IsRunning THEN With(calls, "remove", {dl[d].gid} \ {0}) ELSE calls
    /\ UNCHANGED <<proc, work, managerVars>>

\* handleStall(): no bytes for too long.
Aria2Stall(d) ==
    LET r == dl[d] IN
    /\ r.engine = "aria2" /\ r.watched /\ ~r.finished /\ r.gid # 0
    /\ IF work[r.gid] = "lost" THEN UNCHANGED upsets ELSE Upset
    /\ FallBack(d, [Over(r) EXCEPT !.gid = 0])
    /\ calls' = IF IsRunning THEN With(calls, "remove", {r.gid}) ELSE calls
    /\ UNCHANGED <<proc, work, managerVars>>

-----------------------------------------------------------------------------
(* Aria2Manager: calls and their answers.                                  *)

\* refreshDownload(), for poll(), whose timer runs while the process does, and when a
\* message over the WebSocket says that something has happened.
Refresh(g) ==
    /\ IsRunning /\ g \in active
    /\ calls' = With(calls, "tell", {g})
    /\ UNCHANGED <<dl, proc, work, managerVars, upsets>>

AddAnswered(c) ==
    /\ c \in calls /\ c.kind = "add" /\ c.answer # "sent"
    /\ \/ /\ c.answer = "failed"
          /\ FallBack(c.of, dl[c.of])
          /\ calls' = calls \ {c}
          /\ UNCHANGED managerVars
       \/ /\ c.answer = "done"
          /\ dl' = [dl EXCEPT ![c.of].gid = c.new, ![c.of].watched = TRUE]
          /\ active' = active \cup {c.new}
          /\ requests' = requests \cup {c.new}
          /\ calls' = With(calls \ {c}, "tell", IF IsRunning THEN active' ELSE {})
          /\ UNCHANGED <<restarts, shutdownRequested>>
    /\ UNCHANGED <<proc, work, upsets>>

\* An error means that aria2 does not know the gid.
TellAnswered(c) ==
    /\ c \in calls /\ c.kind = "tell" /\ c.answer # "sent"
    /\ calls' = calls \ {c}
    /\ \/ /\ c.answer = "failed" /\ c.of \notin active
          /\ UNCHANGED <<dl, managerVars>>
       \/ /\ c.answer = "failed" /\ c.of \in active
          /\ active' = active \ {c.of}
          /\ Tells({c.of}, "error")
          /\ UNCHANGED <<requests, restarts, shutdownRequested>>
       \/ /\ c.answer \in Final
          /\ active' = active \ {c.of} /\ requests' = requests \ {c.of}
          /\ Tells({c.of}, c.answer)
          /\ UNCHANGED <<restarts, shutdownRequested>>
    /\ UNCHANGED <<proc, work, upsets>>

\* forceRemove is served, if there is anything to remove, and answered.  The answer
\* is not looked at: it may as well say that there is no process any more.
RemoveAnswered(c) ==
    /\ c \in calls /\ c.kind = "remove"
    /\ calls' = calls \ {c}
    /\ work' = [work EXCEPT ![c.of] = IF proc = "Running" /\ @ = "going" THEN "removed" ELSE @]
    /\ active' = active \ {c.of} /\ requests' = requests \ {c.of}
    /\ Tells({c.of}, "removed")
    /\ UNCHANGED <<proc, restarts, shutdownRequested, upsets>>

\* aria2.cancel of the launcher's API.  It may name a download that has ended too,
\* whose removal changes nothing here.
UserRemoves(g) ==
    /\ g \in active /\ IsRunning /\ Upset
    /\ calls' = With(calls, "remove", {g})
    /\ UNCHANGED <<dl, proc, work, managerVars>>

\* clearFinished()
ClearFinished ==
    /\ ~(requests \subseteq active) /\ Upset
    /\ requests' = requests \cap active
    /\ UNCHANGED <<dl, proc, work, calls, active, restarts, shutdownRequested>>

-----------------------------------------------------------------------------
(* Aria2Manager: the process.                                              *)

\* shutdown(), when the launcher or its monitor asks for it.
Shutdown ==
    /\ IsRunning /\ Upset
    /\ shutdownRequested' = TRUE
    /\ calls' = calls \cup {Call("shutdown", 0)}
    /\ UNCHANGED <<dl, proc, work, active, requests, restarts>>

\* Faulty variant: m_activeGids is cleared before the downloads are told.
FailNone ==
    /\ requests' = requests \ active
    /\ active' = {}
    /\ Tells({}, "error")

\* failActiveDownloads(), and m_activeGids is cleared.
FailActive ==
    /\ requests' = requests \ active
    /\ active' = {}
    /\ Tells(active, "error")

\* readdDownload() for every active download; without its request it fails.
ReaddActive ==
    /\ active' = active \cap requests
    /\ Tells(active \ requests, "error")
    /\ calls' = Failing(calls) \cup {Call("readd", g) : g \in active \cap requests}
    /\ UNCHANGED requests

ProcessFinished ==
    /\ proc = "Dead"
    /\ \/ /\ shutdownRequested \/ active = {}
          /\ proc' = "Stopped"
          /\ FailActive
          /\ calls' = Failing(calls)
          /\ shutdownRequested' = FALSE /\ restarts' = 0
       \/ /\ ~shutdownRequested /\ active # {} /\ restarts >= MaxRestartAttempts
          /\ proc' = "Stopped"
          /\ FailActive
          /\ calls' = Failing(calls)
          /\ UNCHANGED <<shutdownRequested, restarts>>
       \/ /\ ~shutdownRequested /\ active # {} /\ restarts < MaxRestartAttempts
          /\ restarts' = restarts + 1
          /\ \/ proc' = "Stopped" /\ FailActive /\ calls' = Failing(calls)
             \/ proc' = "Running" /\ ReaddActive
          /\ UNCHANGED shutdownRequested
    /\ UNCHANGED <<work, upsets>>

\* aria2DownloadGidChanged(): the download waits for the new gid.
Renamed(r, old, new) ==
    IF r.engine = "aria2" /\ r.gid = old /\ ~r.finished THEN [r EXCEPT !.gid = new] ELSE r

\* Nobody waits any more if the download has ended meanwhile.
ReaddAnswered(c) ==
    /\ c \in calls /\ c.kind = "readd" /\ c.answer # "sent"
    /\ \/ /\ c.of \notin active
          /\ calls' = calls \ {c}
          /\ UNCHANGED <<dl, managerVars>>
       \/ /\ c.of \in active /\ c.answer = "failed"
          /\ calls' = calls \ {c}
          /\ active' = active \ {c.of} /\ requests' = requests \ {c.of}
          /\ Tells({c.of}, "error")
          /\ UNCHANGED <<restarts, shutdownRequested>>
       \/ /\ c.of \in active /\ c.answer = "done"
          /\ active' = (active \ {c.of}) \cup {c.new}
          /\ requests' = (requests \ {c.of}) \cup {c.new}
          /\ dl' = [d \in Downloads |-> Renamed(dl[d], c.of, c.new)]
          /\ calls' = With(calls \ {c}, "tell", IF IsRunning THEN {c.new} ELSE {})
          /\ UNCHANGED <<restarts, shutdownRequested>>
    /\ UNCHANGED <<proc, work, upsets>>

-----------------------------------------------------------------------------
(* aria2 itself (external), as far as the manager depends on it.           *)

Unused == {g \in Gids : work[g] = "none"}

Answer(c, answer, new) == (calls \ {c}) \cup {[c EXCEPT !.answer = answer, !.new = new]}

\* The process ends, and with it all it knew.
Exit(cs) ==
    /\ proc' = "Dead"
    /\ calls' = Failing(cs)
    /\ work' = [g \in Gids |-> IF work[g] = "none" THEN "none" ELSE "lost"]

Crash == proc = "Running" /\ Upset /\ Exit(calls) /\ UNCHANGED <<dl, managerVars>>

\* aria2 may refuse a download, also because it does not listen yet.
ServeAdd(c) ==
    /\ c.kind \in {"add", "readd"}
    /\ \/ calls' = Answer(c, "failed", 0) /\ UNCHANGED work
       \/ \E g \in Unused : /\ \A h \in Unused : g <= h
                            /\ work' = [work EXCEPT ![g] = "going"]
                            /\ calls' = Answer(c, "done", g)
    /\ UNCHANGED <<proc, upsets>>

\* That a download is still going is no news.
ServeTell(c) ==
    /\ c.kind = "tell"
    /\ calls' = CASE work[c.of] = "lost" -> Answer(c, "failed", 0)
                  [] work[c.of] = "going" -> calls \ {c}
                  [] OTHER -> Answer(c, work[c.of], 0)
    /\ UNCHANGED <<proc, work, upsets>>

ServeShutdown(c) == c.kind = "shutdown" /\ Exit(calls \ {c}) /\ UNCHANGED upsets

\* A call to a process that has ended fails.
Serve(c) ==
    /\ c \in calls /\ c.answer = "sent" /\ c.kind # "remove"
    /\ \/ proc = "Running" /\ (ServeAdd(c) \/ ServeTell(c) \/ ServeShutdown(c))
       \/ /\ proc # "Running"
          /\ calls' = (calls \ {c}) \cup Failing({c})
          /\ UNCHANGED <<proc, work, upsets>>
    /\ UNCHANGED <<dl, managerVars>>

\* What aria2 has begun comes to an end.
WorkEnds(g) ==
    /\ proc = "Running" /\ work[g] = "going"
    /\ work' \in {[work EXCEPT ![g] = "complete"], [work EXCEPT ![g] = "error"]}
    /\ UNCHANGED <<dl, proc, calls, managerVars, upsets>>

-----------------------------------------------------------------------------
(* A download that waits for aria2 is one the manager asks about, and one  *)
(* that it can add again after a crash.                                    *)
WaitsAreWatched ==
    \A d \in Downloads :
       dl[d].engine = "aria2" /\ dl[d].gid # 0 /\ ~dl[d].finished =>
          dl[d].gid \in active \cap requests
=============================================================================
