------------------------------- MODULE Metadata -------------------------------
(***************************************************************************)
(* The launcher's metadata: an index that names the version lists, a list  *)
(* per component that names its versions, and the versions themselves.     *)
(* Each is an entity (meta/BaseEntity) with a file on disk, what was read  *)
(* of it in memory, and the checksum its parent gave for it.  A load job   *)
(* (Index::loadVersion) loads an index, a list and a version one after the *)
(* other; the load task of an entity is shared by the jobs that need it    *)
(* while it runs, and replaced when it does not.                           *)
(*                                                                         *)
(* A content is the number of the publication it comes from and stands for *)
(* its own checksum.  Signals and queued calls of a SequentialTask are     *)
(* steps of their own; what they call is part of them.                     *)
(***************************************************************************)
EXTENDS Integers, Sequences, FiniteSets

CONSTANTS
    Index,        \* the metadata index
    Versions,     \* versions of components
    ListOf,       \* the version list each version is on
    Jobs,         \* load jobs
    Offline,      \* the sets of jobs that may be asked for in offline mode
    None,         \* no job, no entity
    MaxRev,       \* bound: publications on the server
    MaxAborts,    \* bound: jobs aborted
    MaxDamaged    \* bound: files found damaged at a start

Lists == {ListOf[v] : v \in Versions}
Entities == {Index} \cup Lists \cup Versions
Tasks == Jobs \X Entities

ASSUME MetadataAssumption ==
    /\ Offline \subseteq SUBSET Jobs
    /\ None \notin Jobs \cup Entities
    /\ Index \notin Lists \cup Versions
    /\ Lists \cap Versions = {}
    /\ MaxRev \in Nat \ {0} /\ MaxAborts \in Nat /\ MaxDamaged \in Nat

\* The entities whose checksums the file of e gives.
Children(e) ==
    IF e = Index THEN Lists ELSE {v \in Versions : ListOf[v] = e}

VARIABLES
    rev,       \* the newest publication
    disk,      \* the file of an entity: a content, 0 if none, -1 if damaged
    sha,       \* m_sha256, 0 if empty
    status,    \* m_load_status
    fsha,      \* m_file_sha256, 0 if empty
    content,   \* what was last parsed into the entity, 0 if nothing
    cur,       \* the job that made the entity's m_task
    offline,   \* the jobs that are asked for in offline mode
    target,    \* the version a job loads
    plan,      \* the queue of a job
    doing,     \* the entity a job loads now
    uses,      \* whose task a job was given for an entity
    phase,     \* a job's place in the event loop
    outcome,   \* what a job has reported first
    life,      \* the state of a load task
    net,       \* its download
    want,      \* the checksum that download must have
    moved,     \* history: tasks whose entity was given another checksum since they asked
    doubtful,  \* history: entities read by such a task, or read and not written
    aborts

entityVars == <<disk, sha, status, fsha, content, moved, doubtful>>
jobVars == <<offline, target, plan, doing, uses, phase, outcome>>
taskVars == <<cur, life, net, want>>
vars == <<rev, entityVars, jobVars, taskVars, aborts>>

IsLoaded(e) ==
    IF sha[e] = 0 THEN status[e] = "Remote"
    ELSE status[e] # "NotLoaded" /\ sha[e] = fsha[e]

Zero == [e \in Entities |-> 0]
Idle(x) == [j \in Jobs |-> x]

\* A start of the launcher, with whatever files its last runs left or were damaged.
Init ==
    /\ rev = 1
    /\ disk \in [Entities -> -1 .. rev]
    /\ Cardinality({e \in Entities : disk[e] = -1}) <= MaxDamaged
    /\ sha = Zero /\ fsha = Zero /\ content = Zero
    /\ status = [e \in Entities |-> "NotLoaded"]
    /\ moved = {} /\ doubtful = {}
    /\ cur = [e \in Entities |-> None]
    /\ offline \in Offline /\ target = Idle(None) /\ doing = Idle(None) /\ plan = Idle(<<>>)
    /\ uses = Idle([e \in Entities |-> None])
    /\ phase = Idle("Idle") /\ outcome = Idle("None")
    /\ life = [t \in Tasks |-> "Inactive"]
    /\ net = [t \in Tasks |-> "None"]
    /\ want = [t \in Tasks |-> 0]
    /\ aborts = 0

-----------------------------------------------------------------------------
(* Parsing, and the ends of load tasks.                                    *)

\* The file of e as of publication r is parsed: e has that content, and its
\* children have the checksums it gives.
Parse(e, r) ==
    /\ content' = [content EXCEPT ![e] = r]
    /\ sha' = [c \in Entities |-> IF c \in Children(e) THEN r ELSE sha[c]]

\* A download is on its way: its checksum is given, its end is not heard.
InFlight == {"Posted", "Asking", "Stray", "Landed"}

\* What `moved' becomes in a step in which the tasks in `asked' ask (again).
Tracked(asked) ==
    {t \in Tasks \ asked :
        t \in moved \/ (net[t] \in InFlight /\ sha'[t[2]] # sha[t[2]])}

\* The jobs that listen to task t.
Listeners(t) ==
    {j \in Jobs : /\ phase[j] \in {"Start", "Wait"} /\ outcome[j] = "None"
                  /\ doing[j] = t[2] /\ uses[j][t[2]] = t[1]}

\* The jobs in js hear the end of the task they wait for, with the event loop at
\* `at': a success posts the next wakeup, anything else ends the job.  A job whose
\* call of the task's start() is still on its way makes that call all the same.
Notify(js, at, ok) ==
    /\ phase' = [j \in Jobs |->
          IF j \notin js THEN at[j]
          ELSE IF at[j] = "Start" THEN "Late"
          ELSE IF ok /\ j \notin offline THEN "Wake" ELSE "Over"]
    /\ outcome' = [j \in Jobs |->
          IF j \notin js THEN outcome[j]
          ELSE IF ~ok THEN "Failed"
          ELSE IF j \in offline THEN "Succeeded" ELSE outcome[j]]

\* Faulty variant: a job does not listen for failures.
EndsUnheard(t, ok) ==
    IF life[t] = "Running"
    THEN /\ life' = [life EXCEPT ![t] = IF ok THEN "Succeeded" ELSE "Failed"]
         /\ Notify(IF ok THEN Listeners(t) ELSE {}, phase, ok)
    ELSE UNCHANGED <<life, phase, outcome>>

\* The end of task t as of its download: only a running task announces one.
Ends(t, ok) ==
    IF life[t] = "Running"
    THEN /\ life' = [life EXCEPT ![t] = IF ok THEN "Succeeded" ELSE "Failed"]
         /\ Notify(Listeners(t), phase, ok)
    ELSE UNCHANGED <<life, phase, outcome>>

-----------------------------------------------------------------------------
(* BaseEntityLoadTask::executeTask: the local file, unless its checksum    *)
(* tells against it, then the network.                                     *)

Rehashed(e) == IF disk[e] # 0 /\ (status[e] = "NotLoaded" \/ fsha[e] = 0) THEN disk[e]
               ELSE fsha[e]

\* The file is there and is not what the parent says, or cannot be read.
Rejected(t) ==
    LET e == t[2] IN
    /\ disk[e] # 0
    /\ \/ t[1] \notin offline /\ sha[e] # 0 /\ sha[e] # Rehashed(e)
       \/ status[e] = "NotLoaded" /\ disk[e] = -1

ReadLocal(t) ==
    LET e == t[2] IN
    /\ fsha' = [fsha EXCEPT ![e] = Rehashed(e)]
    /\ IF Rejected(t)
       THEN /\ disk' = [disk EXCEPT ![e] = 0]
            /\ status' = [status EXCEPT ![e] = "NotLoaded"]
            /\ UNCHANGED <<content, sha>>
       ELSE /\ UNCHANGED disk
            /\ IF disk[e] # 0 /\ status[e] = "NotLoaded"
               THEN Parse(e, disk[e]) /\ status' = [status EXCEPT ![e] = "Local"]
               ELSE UNCHANGED <<content, sha, status>>

\* No download is needed: offline anything will do, online a file that matches, or,
\* where no checksum is known, one that was downloaded in this session.
LocalSuffices(t) ==
    LET e == t[2] IN
    \/ t[1] \in offline /\ status'[e] # "NotLoaded"
    \/ IF sha[e] = 0 THEN status'[e] = "Remote"
       ELSE disk[e] # 0 /\ sha[e] = Rehashed(e)

\* start() of task t, with the event loop left at `at' and listened to by js.
Execute(t, js, at) ==
    IF life[t] = "Running"
    THEN /\ phase' = at
         /\ UNCHANGED <<disk, sha, status, fsha, content, moved, outcome, life, net, want>>
    ELSE /\ ReadLocal(t)
         /\ IF LocalSuffices(t)
            THEN /\ life' = [life EXCEPT ![t] = "Succeeded"]
                 /\ Notify(js, at, TRUE)
                 /\ moved' = Tracked({})
                 /\ UNCHANGED <<net, want>>
            ELSE /\ life' = [life EXCEPT ![t] = "Running"]
                 /\ net' = [net EXCEPT ![t] = "Posted"]
                 /\ want' = [want EXCEPT ![t] = sha[t[2]]]
                 /\ moved' = Tracked({t})
                 /\ phase' = at
                 /\ UNCHANGED outcome

-----------------------------------------------------------------------------
(* Load jobs: Index::loadVersion and the SequentialTask it makes.          *)

\* BaseEntity::loadTask: the entity's task while it runs, else a new one.
TaskOwner(j, e) ==
    IF cur[e] # None /\ life[<<cur[e], e>>] = "Running" THEN cur[e] ELSE j

Given(j, es) ==
    /\ uses' = [uses EXCEPT ![j] = [e \in Entities |->
                                       IF e \in es THEN TaskOwner(j, e) ELSE None]]
    /\ cur' = [e \in Entities |-> IF e \in es THEN TaskOwner(j, e) ELSE cur[e]]

LoadVersion(j) ==
    /\ j \notin offline
    /\ phase[j] = "Idle"
    /\ \E v \in Versions :
          LET es == IF status[Index] # "Remote" THEN <<Index, ListOf[v], v>>
                    ELSE <<ListOf[v], v>> IN
          /\ target' = [target EXCEPT ![j] = v]
          /\ plan' = [plan EXCEPT ![j] = es]
          /\ Given(j, {es[i] : i \in DOMAIN es})
    /\ phase' = [phase EXCEPT ![j] = "Wake"]
    /\ UNCHANGED <<rev, entityVars, offline, doing, outcome, life, net, want, aborts>>

\* Offline the version's own task is the job, and it is started at once.
LoadOffline(j) ==
    /\ phase[j] = "Idle"
    /\ j \in offline
    /\ \E v \in Versions :
          /\ target' = [target EXCEPT ![j] = v]
          /\ doing' = [doing EXCEPT ![j] = v]
          /\ Given(j, {v})
          /\ Execute(<<TaskOwner(j, v), v>>, {j}, [phase EXCEPT ![j] = "Wait"])
    /\ UNCHANGED <<rev, doubtful, offline, plan, aborts>>

\* executeNextSubTask(): the job has ended, its queue is empty, or the next task is
\* taken and its start() posted.
Wake(j) ==
    /\ phase[j] = "Wake"
    /\ IF outcome[j] = "None" /\ plan[j] # <<>>
       THEN /\ doing' = [doing EXCEPT ![j] = Head(plan[j])]
            /\ plan' = [plan EXCEPT ![j] = Tail(plan[j])]
            /\ phase' = [phase EXCEPT ![j] = "Start"]
            /\ UNCHANGED outcome
       ELSE /\ outcome' = [outcome EXCEPT ![j] = IF @ = "None" THEN "Succeeded" ELSE @]
            /\ phase' = [phase EXCEPT ![j] = "Over"]
            /\ UNCHANGED <<doing, plan>>
    /\ UNCHANGED <<rev, entityVars, offline, target, uses, taskVars, aborts>>

\* The posted start() of a task is called, although the job may have heard of its
\* end, or have ended itself, in the meantime.
StartTask(j) ==
    LET t == <<uses[j][doing[j]], doing[j]>>
        next == IF phase[j] = "Start" THEN "Wait"
                ELSE IF outcome[j] = "None" THEN "Wake" ELSE "Over" IN
    /\ phase[j] \in {"Start", "Late"}
    /\ Execute(t, Listeners(t), [phase EXCEPT ![j] = next])
    /\ UNCHANGED <<rev, doubtful, offline, target, plan, doing, uses, cur, aborts>>

\* abort() of a job: its queue is dropped, and the task it waits for is aborted,
\* for every other job that waits for it too.  A task that has no download yet
\* cannot be aborted.
AbortTask(j, t) ==
    LET left == [phase EXCEPT ![j] = IF @ = "Start" THEN "Late" ELSE "Over"]
        others == IF life[t] = "Running" THEN Listeners(t) \ {j} ELSE {} IN
    /\ phase' = [k \in Jobs |->
          IF k \notin others THEN left[k]
          ELSE IF phase[k] = "Start" THEN "Late" ELSE "Over"]
    /\ outcome' = [k \in Jobs |->
          IF k = j THEN "Aborted" ELSE IF k \in others THEN "Failed" ELSE outcome[k]]
    /\ life' = [life EXCEPT ![t] = IF @ = "Running" THEN "Aborted" ELSE @]
    \* The download that has not begun is taken up again by the job's wakeup, one that
    \* was about to begin may begin after all, and one that has landed is finished.
    /\ \E n \in IF net[t] = "Asking" THEN {"Over", "Stray"} ELSE {net[t]} :
          net' = [net EXCEPT ![t] = n]

AbortJob(j) ==
    LET t == <<uses[j][doing[j]], doing[j]>> IN
    /\ j \notin offline
    /\ phase[j] \in {"Wake", "Start", "Wait", "Late"} /\ outcome[j] = "None"
    /\ aborts < MaxAborts
    /\ aborts' = aborts + 1
    /\ plan' = [plan EXCEPT ![j] = <<>>]
    /\ IF phase[j] \in {"Wake", "Late"}
       THEN /\ outcome' = [outcome EXCEPT ![j] = "Aborted"]
            /\ UNCHANGED <<phase, life, net>>
       ELSE IF net[t] = "None"
       THEN /\ outcome' = [outcome EXCEPT ![j] = "Failed"]
            /\ phase' = [phase EXCEPT ![j] = IF @ = "Start" THEN "Late" ELSE "Over"]
            /\ UNCHANGED <<life, net>>
       ELSE AbortTask(j, t)
    /\ UNCHANGED <<rev, entityVars, offline, target, doing, uses, cur, want>>

-----------------------------------------------------------------------------
(* The download of a load task.                                            *)

Ask(t) ==
    /\ net[t] = "Posted"
    /\ net' = [net EXCEPT ![t] = "Asking"]
    /\ UNCHANGED <<rev, entityVars, jobVars, cur, life, want, aborts>>

\* The checksum has changed since the answer was asked for.
Doubt(t) ==
    doubtful' = IF t \in moved THEN doubtful \cup {t[2]} ELSE doubtful

\* Faulty variant: the answer's checksum is not looked at.
LandUnchecked(t) ==
    /\ net[t] \in {"Asking", "Stray"}
    /\ \E r \in 1 .. rev :
          /\ Parse(t[2], r)
          /\ disk' = [disk EXCEPT ![t[2]] = r]
    /\ net' = [net EXCEPT ![t] = IF @ = "Asking" THEN "Landed" ELSE "Over"]
    /\ Doubt(t)
    /\ moved' = Tracked({})
    /\ UNCHANGED <<rev, status, fsha, jobVars, cur, life, want, aborts>>

\* The answer has the checksum asked for and is parsed, then written to disk.  The
\* server, or a cache on the way, may answer with an older publication.
Land(t) ==
    /\ net[t] \in {"Asking", "Stray"}
    /\ \E r \in 1 .. rev :
          /\ want[t] \in {0, r}
          /\ Parse(t[2], r)
          /\ disk' = [disk EXCEPT ![t[2]] = r]
    /\ net' = [net EXCEPT ![t] = IF @ = "Asking" THEN "Landed" ELSE "Over"]
    /\ Doubt(t)
    /\ moved' = Tracked({})
    /\ UNCHANGED <<rev, status, fsha, jobVars, cur, life, want, aborts>>

\* The answer is parsed and cannot be written to disk.
LandUnsaved(t) ==
    /\ net[t] \in {"Asking", "Stray"}
    /\ \E r \in 1 .. rev : want[t] \in {0, r} /\ Parse(t[2], r)
    /\ doubtful' = doubtful \cup {t[2]}
    /\ moved' = Tracked({})
    /\ net' = [net EXCEPT ![t] = "Over"]
    /\ Ends(t, FALSE)
    /\ UNCHANGED <<rev, disk, status, fsha, offline, target, plan, doing, uses, cur, want, aborts>>

\* No answer, or one with the wrong checksum.
Lose(t) ==
    /\ net[t] \in {"Asking", "Stray"}
    /\ net' = [net EXCEPT ![t] = "Over"]
    /\ Ends(t, FALSE)
    /\ UNCHANGED <<rev, entityVars, offline, target, plan, doing, uses, cur, want, aborts>>

\* The NetJob succeeds: the entity counts as loaded with the checksum it has by now.
Finish(t) ==
    LET e == t[2] IN
    /\ net[t] = "Landed"
    /\ net' = [net EXCEPT ![t] = "Over"]
    /\ status' = [status EXCEPT ![e] = "Remote"]
    /\ fsha' = [fsha EXCEPT ![e] = sha[e]]
    /\ Doubt(t)
    /\ Ends(t, TRUE)
    /\ UNCHANGED <<rev, disk, sha, content, moved, offline, target, plan, doing, uses, cur, want, aborts>>

-----------------------------------------------------------------------------
(* The world around.                                                       *)

Publish ==
    /\ rev < MaxRev
    /\ rev' = rev + 1
    /\ UNCHANGED <<entityVars, jobVars, taskVars, aborts>>

JobNext(j) == LoadVersion(j) \/ LoadOffline(j) \/ Wake(j) \/ StartTask(j) \/ AbortJob(j)
Answer(t) == Land(t) \/ LandUnsaved(t) \/ Lose(t)
NetNext(t) == Ask(t) \/ Answer(t) \/ Finish(t)

Next ==
    \/ \E j \in Jobs : JobNext(j)
    \/ \E t \in Tasks : NetNext(t)
    \/ Publish

Spec == Init /\ [][Next]_vars

\* The event loop delivers what is posted, and a request ends: it has a timeout.
FairSpec ==
    /\ Spec
    /\ \A j \in Jobs : WF_vars(Wake(j) \/ StartTask(j))
    /\ \A t \in Tasks : WF_vars(NetNext(t))

-----------------------------------------------------------------------------
\* What isLoaded() promises (BaseEntity::isLoaded): what counts as loaded has been
\* read, and what was read is what the parent names -- unless that has changed since it
\* was asked for, or it was read and could not be written.
LoadedIsCurrent ==
    \A e \in Entities : IsLoaded(e) =>
        /\ content[e] # 0
        /\ sha[e] # 0 /\ e \notin doubtful => content[e] = sha[e]

\* Every job ends.
EveryLoadEnds ==
    \A j \in Jobs : (phase[j] # "Idle") ~> (outcome[j] # "None" \/ phase[j] = "Idle")
=============================================================================
