------------------------------ MODULE InstanceList ------------------------------
(***************************************************************************)
(* The instances and their groups (InstanceList): the directories on disk, *)
(* the list of them in memory, the groups in memory and in instgroups.json,*)
(* the history of what was moved to the trash, and the staging tasks that  *)
(* make a new instance, or override one, in a directory of their own and   *)
(* commit it.  Others, an antivirus above all, change and lock directories *)
(* at any moment.                                                          *)
(*                                                                         *)
(* An instance is the name of its directory.  A directory counts if it has *)
(* an instance.cfg.  Rows count from 1.                                    *)
(***************************************************************************)
EXTENDS Integers, FiniteSets, SequencesExt

CONSTANTS
    Ids,        \* the ids there may be
    Groups,     \* the names of groups
    Stagings,   \* staging tasks
    FirstDirs,  \* the directories the launcher may find at its first start
    Files,      \* the group files it may find
    MaxBackoff, \* InstanceStaging::maxBackoff
    MaxActs,    \* bound: what users do
    MaxUpsets   \* bound: what others do, deaths, and what fails but saves, reads and commits

NoGroup == "no group"   \* the null QString
Absent == "absent"      \* no entry in m_instanceGroupIndex
NoFile == <<>>          \* no instgroups.json
New == "new"            \* the target of a task that overrides nothing

GroupFiles == [Ids -> Groups \cup {NoGroup}]

ASSUME ListAssumption ==
    /\ IsFiniteSet(Ids)
    /\ {NoGroup, Absent} \cap Groups = {} /\ New \notin Ids
    /\ FirstDirs \subseteq SUBSET Ids /\ Files \subseteq GroupFiles \cup {NoFile}
    /\ MaxBackoff \in Nat \ {0} /\ MaxActs \in Nat /\ MaxUpsets \in Nat

VARIABLES
    dirs,    \* the directories of instances
    file,    \* instgroups.json
    told,    \* a change of the directory that m_watcher has yet to announce
    rows,    \* m_instances
    known,   \* instanceSet
    index,   \* m_instanceGroupIndex
    counts,  \* m_groupNameCache, 0 for a name that is not in it
    loaded,  \* m_groupsLoaded
    trash,   \* m_trashHistory
    jobs,    \* the staging tasks
    tmp,     \* the staging directories that are there, by their task
    wanted,  \* history: the group a user last gave the instance
    doubt,   \* history: instances whose group was lost, or came with a directory of others
    unsaved, \* history: instances whose group was set and is not in the file yet
    uneven,  \* history: groups whose count has come to differ
    missed,  \* history: a change of the directory that nobody will announce
    acts, upsets

groupVars == <<index, counts, loaded>>
historyVars == <<wanted, doubt, unsaved, uneven>>
boundVars == <<acts, upsets>>
vars == <<dirs, file, told, rows, known, groupVars, trash, jobs, tmp, historyVars, missed,
          boundVars>>

Listed == ToSet(rows)

\* getInstanceGroup() of a listed instance.
GroupOf(i) == IF index[i] \in Groups THEN index[i] ELSE NoGroup

UserActs == acts < MaxActs /\ acts' = acts + 1 /\ UNCHANGED upsets
Upset == upsets < MaxUpsets /\ upsets' = upsets + 1 /\ UNCHANGED acts

-----------------------------------------------------------------------------
(* Groups in memory: a record of index and counts. *)

Memory == [index |-> index, counts |-> counts]

More(c, g) == IF g \in Groups THEN [c EXCEPT ![g] = @ + 1] ELSE c
Less(c, g) == IF g \in Groups THEN [c EXCEPT ![g] = IF @ > 1 THEN @ - 1 ELSE 0] ELSE c

\* setInstanceGroup() for an instance whose entry differs from `g'.
Regrouped(m, i, g) ==
    [index |-> [m.index EXCEPT ![i] = g], counts |-> More(Less(m.counts, m.index[i]), g)]

\* The entry of an instance that comes: nothing is taken off for one that was there.
Entered(m, i, g) == [index |-> [m.index EXCEPT ![i] = g], counts |-> More(m.counts, g)]

\* The entry of an instance that goes.
Forgotten(m, i) ==
    [index |-> [m.index EXCEPT ![i] = Absent], counts |-> Less(m.counts, m.index[i])]

\* What saveGroupList() writes: groups of instances that are known.
Written(idx, ids) == [i \in Ids |-> IF i \in ids /\ idx[i] \in Groups THEN idx[i] ELSE NoGroup]

\* The group that a file gives an instance; entries that are not well-formed give none.
InFile(f, i) == IF f = NoFile THEN NoGroup ELSE f[i]

\* What loadGroupList() makes of a file it can read; Reads and StartReads say when.
ReadFrom(f) ==
    [index  |-> [i \in Ids |-> IF f[i] = NoGroup THEN Absent ELSE f[i]],
     counts |-> [g \in Groups |-> Cardinality({i \in Ids : f[i] = g})]]

Empty ==
    [index |-> [i \in Ids |-> Absent], counts |-> [g \in Groups |-> 0]]

\* WatchLock: a change that was not announced before it may never be.
Relock ==
    /\ told' \in {told, FALSE}
    /\ missed' = (missed \/ told' # told)

-----------------------------------------------------------------------------
(* loadList(): rows are removed in contiguous ranges, last to first. *)

\* The rows without those from `front' to `back'.
Erased(s) == SubSeq(s.rows, 1, s.front - 1) \o SubSeq(s.rows, s.back + 1, Len(s.rows))

\* Faulty variant: the range that begins keeps the front of the one that was erased.
StretchedFromFront(s, p) ==
    IF s.back = 0 THEN [s EXCEPT !.front = p, !.back = p]
    ELSE IF p = s.front - 1 THEN [s EXCEPT !.front = p]
    ELSE [rows |-> Erased(s), front |-> s.front, back |-> p]

\* Row `p' is to go as well: it extends the range, or the range is erased and `p' begins one.
Stretched(s, p) ==
    IF s.back = 0 THEN [s EXCEPT !.front = p, !.back = p]
    ELSE IF p = s.front - 1 THEN [s EXCEPT !.front = p]
    ELSE [rows |-> Erased(s), front |-> p, back |-> p]

\* The rows are swept from last to first; what is left to do before each.
Swept(d) ==
    LET swept[p \in 1 .. Len(rows) + 1] ==
            IF p > Len(rows) THEN [rows |-> rows, front |-> 0, back |-> 0]
            ELSE IF rows[p] \in d THEN swept[p + 1]
            ELSE Stretched(swept[p + 1], p)
    IN  swept

\* The rows of instances that are still there.
Kept(d) ==
    LET last == Swept(d)[1]
    IN  IF last.back = 0 THEN rows ELSE Erased(last)

\* In the order in which the directory is iterated over, which nothing determines.
Found(d) == SetToSeq(d \ Listed)

\* loadInstance() reads the group file until that has succeeded once.  A file that cannot
\* be opened, is no JSON, or has another format or version is not read, and memory stays
\* as it is; the next instance that is loaded tries again.
Reads(d, f) == IF Found(d) # <<>> /\ ~loaded /\ f # NoFile THEN BOOLEAN ELSE {FALSE}

\* The groups after loadList(), with the group file `f'; `r' if it was read.
Loaded(r, f, m) == IF r THEN ReadFrom(f) ELSE m

\* What the first read of the file replaces: groups that were set and not written.
Lost(r, u) == IF r /\ ~loaded THEN u ELSE {}

LoadList(d, r) ==
    /\ rows' = Kept(d) \o Found(d)
    /\ known' = d
    /\ loaded' = (loaded \/ r)

Keep(m) == index' = m.index /\ counts' = m.counts

-----------------------------------------------------------------------------
(* The launcher starts, and is told of changes. *)

\* The first loadList(): the group file is read with the first instance, if it can be.
StartReads == IF dirs # {} /\ file # NoFile THEN BOOLEAN ELSE {FALSE}
StartRows == SetToSeq(dirs)
StartMemory(r) == IF r THEN ReadFrom(file) ELSE Empty

\* The groups of a file that was not read: the next save writes over them.
Unread(r) == IF r THEN {} ELSE {i \in dirs : InFile(file, i) \in Groups}

NoJob == [phase |-> "None", target |-> New, group |-> NoGroup, sleep |-> 0]

Init ==
    /\ dirs \in FirstDirs /\ file \in Files
    /\ told = FALSE
    /\ rows = StartRows /\ known = dirs
    /\ loaded \in StartReads
    /\ index = StartMemory(loaded).index /\ counts = StartMemory(loaded).counts
    /\ trash = <<>>
    /\ jobs = [t \in Stagings |-> NoJob] /\ tmp = {}
    /\ wanted = [i \in Ids |-> InFile(file, i)]
    /\ doubt = Unread(loaded) /\ unsaved = {} /\ uneven = {} /\ missed = FALSE
    /\ acts = 0 /\ upsets = 0

\* The user ends the launcher, or it dies, and it starts again; it deletes what was staged.
Restart ==
    /\ UserActs \/ Upset
    /\ rows' = StartRows /\ known' = dirs
    /\ \E r \in StartReads :
          /\ loaded' = r /\ Keep(StartMemory(r))
          /\ doubt' = doubt \cup unsaved \cup Unread(r)
    /\ told' = FALSE /\ missed' = FALSE
    /\ trash' = <<>>
    /\ jobs' = [t \in Stagings |-> NoJob] /\ tmp' = {}
    /\ unsaved' = {} /\ uneven' = {}
    /\ UNCHANGED <<dirs, file, wanted>>

\* loadList() and nothing else: a refresh, the end of the settings dialog.
Reload ==
    /\ \E r \in Reads(dirs, file) :
          /\ LoadList(dirs, r) /\ Keep(Loaded(r, file, Memory))
          /\ doubt' = doubt \cup Lost(r, unsaved)
          /\ uneven' = IF r THEN {} ELSE uneven
    /\ missed' = FALSE
    /\ UNCHANGED <<dirs, file, trash, jobs, tmp, wanted, unsaved, boundVars>>

Refresh == Reload /\ UNCHANGED told
Noticed == told /\ Reload /\ told' = FALSE

-----------------------------------------------------------------------------
(* Groups. *)

Disk == [file |-> file, unsaved |-> unsaved]

\* Faulty variant: the file is opened for writing where it is, and is empty if that fails.
SavesInPlace(d, idx, ids, given) ==
    {[file |-> Written(idx, ids), unsaved |-> (d.unsaved \cup given) \ ids],
     [file |-> Written(idx, {}), unsaved |-> d.unsaved \cup given]}

\* The outcomes of saveGroupList(), after the groups of `given' were set: all groups of
\* `ids' are in the file, or the write failed, which is logged and no more, and the file
\* is as it was.
Saves(d, idx, ids, given) ==
    {[file |-> Written(idx, ids), unsaved |-> (d.unsaved \cup given) \ ids],
     [file |-> d.file, unsaved |-> d.unsaved \cup given]}

SaveGroups(idx, ids, given) ==
    \E d \in Saves(Disk, idx, ids, given) : file' = d.file /\ unsaved' = d.unsaved

SetInstanceGroup(i, g) ==
    /\ UserActs
    /\ i \in Listed /\ index[i] # g
    /\ Keep(Regrouped(Memory, i, g))
    /\ SaveGroups(index', known, {i}) /\ Relock
    /\ wanted' = [wanted EXCEPT ![i] = g] /\ doubt' = doubt \ {i}
    /\ UNCHANGED <<dirs, rows, known, loaded, trash, jobs, tmp, uneven>>

Members(g) == {i \in Listed : index[i] = g}

\* Entries of instances that are not listed stay behind when their group goes.
LeftBehind(g) == IF \E i \in Ids \ Listed : index[i] = g THEN {g} ELSE {}

DeleteGroup(g) ==
    /\ UserActs
    /\ index' = [i \in Ids |-> IF i \in Members(g) THEN Absent ELSE index[i]]
    /\ counts' = [counts EXCEPT ![g] = 0]
    /\ \/ Members(g) # {} /\ SaveGroups(index', known, Members(g)) /\ Relock
       \/ Members(g) = {} /\ UNCHANGED <<file, unsaved, told, missed>>
    /\ wanted' = [i \in Ids |-> IF i \in Members(g) THEN NoGroup ELSE wanted[i]]
    /\ uneven' = (uneven \ {g}) \cup LeftBehind(g)
    /\ UNCHANGED <<dirs, rows, known, loaded, trash, jobs, tmp, doubt>>

\* The dialog refuses the name of a group there is.
RenameGroup(src, dst) ==
    /\ UserActs
    /\ src # dst /\ counts[dst] = 0
    /\ index' = [i \in Ids |-> IF i \in Members(src) THEN dst ELSE index[i]]
    /\ counts' = [counts EXCEPT ![src] = 0, ![dst] = Cardinality(Members(src))]
    /\ \/ Members(src) # {} /\ SaveGroups(index', known, Members(src)) /\ Relock
       \/ Members(src) = {} /\ UNCHANGED <<file, unsaved, told, missed>>
    /\ wanted' = [i \in Ids |-> IF i \in Members(src) THEN dst ELSE wanted[i]]
    /\ uneven' = (uneven \ {src}) \cup LeftBehind(src)
    /\ UNCHANGED <<dirs, rows, known, loaded, trash, jobs, tmp, doubt>>

-----------------------------------------------------------------------------
(* Directories. *)

\* A group that memory or the file has of an instance that had the name.
Stale(i, m, f) == m.index[i] \in Groups \/ InFile(f, i) \in Groups

\* A directory comes that no user gave a group: one that had the name may have left it.
\* `d' is in doubt already.
Appears(i, d) ==
    /\ wanted' = [wanted EXCEPT ![i] = NoGroup]
    /\ doubt' = IF Stale(i, Memory, file) THEN d \cup {i} ELSE d \ {i}

\* trashInstance(): the group is given up first.
TrashInstance(i) ==
    /\ UserActs
    /\ i \in Listed \cap dirs
    /\ Keep(Forgotten(Memory, i))
    /\ SaveGroups(index', known, {i})
    /\ dirs' = dirs \ {i} /\ told' = TRUE
    /\ trash' = Append(trash, [id |-> i, group |-> GroupOf(i)])
    /\ wanted' = [wanted EXCEPT ![i] = NoGroup]
    /\ UNCHANGED <<rows, known, loaded, jobs, tmp, doubt, uneven, missed>>

\* trashInstance() that fails, which gives the group up too, or deleteInstance(), which may
\* delete the directory, what makes it an instance, or nothing.
DeleteInstance(i) ==
    /\ i \in Listed
    /\ Keep(Forgotten(Memory, i))
    /\ SaveGroups(index', known, {i})
    /\ \/ /\ UserActs
          /\ dirs' = dirs \ {i}
       \/ /\ i \in dirs /\ Upset
          /\ UNCHANGED dirs
    /\ \/ dirs' # dirs /\ told' = TRUE /\ UNCHANGED missed
       \/ dirs' = dirs /\ Relock
    /\ wanted' = [wanted EXCEPT ![i] = IF i \in dirs' THEN @ ELSE NoGroup]
    /\ doubt' = IF i \in dirs' THEN doubt \cup {i} ELSE doubt
    /\ UNCHANGED <<rows, known, loaded, trash, jobs, tmp, uneven>>

\* undoTrashInstance(): saved before the list is loaded, so that an instance the list
\* has dropped meanwhile is not in the file.
UndoTrashInstance ==
    LET top == Last(trash)
    IN  /\ trash # <<>>
        /\ trash' = Front(trash)
        /\ \/ \E id \in IF top.id \notin dirs THEN {top.id} ELSE Ids \ dirs :
                /\ UserActs
                /\ dirs' = dirs \cup {id} /\ told' \in BOOLEAN /\ missed' = FALSE
                /\ SaveGroups(Entered(Memory, id, top.group).index, known, {id})
                /\ \E r \in Reads(dirs', file') :
                      /\ LoadList(dirs', r)
                      /\ Keep(Loaded(r, file', Entered(Memory, id, top.group)))
                      /\ doubt' = (doubt \ {id}) \cup Lost(r, unsaved')
                      /\ uneven' = IF r THEN {} ELSE uneven \cup ({index[id]} \cap Groups)
                /\ wanted' = [wanted EXCEPT ![id] = top.group]
           \/ /\ Upset   \* the trash was emptied
              /\ UNCHANGED <<dirs, file, told, missed, rows, known, groupVars, historyVars>>
        /\ UNCHANGED <<jobs, tmp>>

\* The directory `i' is called `j' now, and the list is loaded; then the new id gets the
\* group `g' of the old one, unless memory has that of an instance that had the name.
\* `m' and `d' are memory and disk as the first save left them.
DirMoved(i, j, g, m, d) ==
    \E r \in Reads(dirs', d.file) :
        LET m2 == Loaded(r, d.file, m)
        IN  /\ LoadList(dirs', r)
            /\ uneven' = IF r THEN {} ELSE uneven
            /\ \/ /\ g \in Groups /\ m2.index[j] # g
                  /\ Keep(Regrouped(m2, j, g))
                  /\ \E e \in Saves(d, index', dirs', {j}) :
                        file' = e.file /\ unsaved' = e.unsaved
               \/ /\ g \in Groups => m2.index[j] = g
                  /\ Keep(m2)
                  /\ file' = d.file
                  /\ unsaved' = IF g \in Groups THEN d.unsaved \cup {j} ELSE d.unsaved
            /\ doubt' = IF g = NoGroup /\ Stale(j, m2, file)
                        THEN doubt \cup Lost(r, d.unsaved) \cup {j}
                        ELSE (doubt \cup Lost(r, d.unsaved)) \ {j}

\* The main window gives a renamed instance a directory of the new name, and the list
\* its group: off the old id, loadList(), on to the new one.
RenameInstance(i, j) ==
    LET g == GroupOf(i)
    IN  /\ UserActs
        /\ i \in Listed \cap dirs /\ j \notin dirs
        /\ dirs' = (dirs \ {i}) \cup {j} /\ missed' = FALSE
        /\ \/ /\ g \in Groups /\ told' \in BOOLEAN
              /\ LET m == Regrouped(Memory, i, NoGroup)
                 IN  \E d \in Saves(Disk, m.index, known, {i}) : DirMoved(i, j, g, m, d)
           \/ /\ g = NoGroup /\ told' = TRUE
              /\ DirMoved(i, j, g, Memory, Disk)
        /\ wanted' = [wanted EXCEPT ![i] = NoGroup, ![j] = g]
        /\ UNCHANGED <<trash, jobs, tmp>>

-----------------------------------------------------------------------------
(* InstanceStaging. *)

Busy(t) == jobs[t].phase \in {"Working", "Waiting"}

\* getStagedInstancePath() may fail; the child is started in the directory it makes.
StartStaging(t, target, g) ==
    /\ jobs[t].phase = "None"
    /\ target = New \/ (target \in Listed /\ g = NoGroup)
    /\ \/ /\ UserActs
          /\ jobs' = [jobs EXCEPT ![t] = [phase |-> "Working", target |-> target, group |-> g,
                                          sleep |-> 1]]
          /\ tmp' = tmp \cup {t}
       \/ /\ Upset
          /\ jobs' = [jobs EXCEPT ![t].phase = "Failed"]
          /\ UNCHANGED tmp
    /\ UNCHANGED <<dirs, file, told, rows, known, groupVars, trash, historyVars, missed>>

\* childFailed(), childAborted()
ChildEnds(t, phase) ==
    /\ jobs[t].phase = "Working"
    /\ jobs' = [jobs EXCEPT ![t].phase = phase]
    /\ tmp' = tmp \ {t}
    /\ UNCHANGED <<dirs, file, told, rows, known, groupVars, trash, historyVars, missed, boundVars>>

\* A new instance gets a name that no directory has.  If it makes the launcher read the
\* group file, it loses its own group.
CommitNew(t, id) ==
    LET m == Entered(Memory, id, jobs[t].group)
    IN  /\ jobs[t].target = New /\ id \notin dirs
        /\ dirs' = dirs \cup {id} /\ told' \in {told, FALSE} /\ missed' = FALSE
        /\ tmp' = tmp \ {t}
        /\ \E r \in Reads(dirs', file) :
              /\ LoadList(dirs', r) /\ Keep(Loaded(r, file, m))
              /\ doubt' = (doubt \ {id}) \cup Lost(r, unsaved \cup {id})
              /\ uneven' = IF r THEN {} ELSE uneven \cup ({index[id]} \cap Groups)
        /\ SaveGroups(index', known', {id})
        /\ wanted' = [wanted EXCEPT ![id] = jobs[t].group]

\* An override copies; what was staged stays.
CommitOverride(t) ==
    LET id == jobs[t].target
    IN  /\ id # New
        /\ dirs' = dirs \cup {id} /\ told' \in {told, FALSE} /\ missed' = FALSE
        /\ \E r \in Reads(dirs', file) :
              /\ LoadList(dirs', r) /\ Keep(Loaded(r, file, Memory))
              /\ \/ id \in dirs /\ doubt' = doubt \cup Lost(r, unsaved) /\ UNCHANGED wanted
                 \/ id \notin dirs /\ Appears(id, doubt \cup Lost(r, unsaved))
              /\ uneven' = IF r THEN {} ELSE uneven
        /\ SaveGroups(index', known', {})
        /\ UNCHANGED tmp

\* Faulty variant: the series never exceeds its maximum.
RetriedForEver(t) == jobs[t].sleep <= MaxBackoff

Retried(t) == jobs[t].sleep # MaxBackoff

\* The commit fails: nothing was moved, or all was copied and the original is locked.
CommitFails(t) ==
    /\ \/ Relock /\ UNCHANGED <<dirs, wanted, doubt>>
       \/ \E id \in (IF jobs[t].target = New THEN Ids ELSE {jobs[t].target}) \ dirs :
            /\ dirs' = dirs \cup {id} /\ Appears(id, doubt)
            /\ told' \in {told, FALSE} /\ missed' = TRUE
    /\ jobs' = [jobs EXCEPT ![t].phase = IF Retried(t) THEN "Waiting" ELSE "Failed",
                            ![t].sleep = Min({2 * @, MaxBackoff})]
    /\ UNCHANGED <<file, rows, known, groupVars, unsaved, uneven, tmp>>

\* childSucceeded(), of the child or of the timer.  An abort during the wait for the
\* timer reaches a child that has ended, and changes nothing.
TryCommit(t) ==
    /\ Busy(t)
    /\ \/ /\ (\E id \in Ids : CommitNew(t, id)) \/ CommitOverride(t)
          /\ jobs' = [jobs EXCEPT ![t].phase = "Succeeded"]
       \/ CommitFails(t)
    /\ UNCHANGED <<trash, boundVars>>

-----------------------------------------------------------------------------
(* Others change the directory. *)

OthersAdd(i) ==
    /\ Upset
    /\ i \notin dirs
    /\ dirs' = dirs \cup {i} /\ told' = TRUE
    /\ Appears(i, doubt)
    /\ UNCHANGED <<file, rows, known, groupVars, trash, jobs, tmp, unsaved, uneven, missed>>

OthersRemove(gone) ==
    /\ Upset
    /\ gone # {}
    /\ dirs' = dirs \ gone /\ told' = TRUE
    /\ UNCHANGED <<file, rows, known, groupVars, trash, jobs, tmp, historyVars, missed>>

StagingNext(t) == TryCommit(t) \/ \E phase \in {"Failed", "Aborted"} : ChildEnds(t, phase)

Next ==
    \/ \E i \in Ids, g \in Groups \cup {NoGroup} : SetInstanceGroup(i, g)
    \/ \E g \in Groups : DeleteGroup(g) \/ \E h \in Groups : RenameGroup(g, h)
    \/ \E i \in Ids : TrashInstance(i) \/ DeleteInstance(i) \/ OthersAdd(i)
    \/ UndoTrashInstance
    \/ \E i, j \in Ids : RenameInstance(i, j)
    \/ \E t \in Stagings :
         \/ StagingNext(t)
         \/ \E target \in Ids \cup {New}, g \in Groups \cup {NoGroup} : StartStaging(t, target, g)
    \/ \E gone \in SUBSET dirs : OthersRemove(gone)
    \/ Restart \/ Refresh \/ Noticed

Spec == Init /\ [][Next]_vars

\* A child that was started ends, and the timer fires.
FairSpec ==
    /\ Spec
    /\ \A t \in Stagings : WF_vars(StagingNext(t))

-----------------------------------------------------------------------------
\* The list shows each instance on disk, and no other, once, whatever ranges of rows had to
\* go -- unless an announcement of a change is on its way, or was lost (InstanceList::loadList).
InstancesAreListed == ~told /\ ~missed => Listed = dirs /\ IsInjective(rows)

\* An instance is in the group a user last gave it, by setting or renaming, creating or
\* undoing, now and after a restart: as far as the code does not lose it (`doubt').
GroupIsShown == \A i \in (Listed \cap dirs) \ doubt : GroupOf(i) = wanted[i]

\* The groups that dialogs offer are those that instances have.
GroupIsCounted ==
    \A g \in Groups \ uneven : counts[g] = Cardinality({i \in Ids : index[i] = g})

\* Groups are kept, in memory and on disk, and counted (InstanceList).
GroupsAreKept == GroupIsShown /\ GroupIsCounted

\* A staging task ends, even if every commit fails: the series of delays reaches the value
\* that gives up (InstanceStaging::childSucceeded).
EveryStagingEnds == \A t \in Stagings : Busy(t) ~> ~Busy(t)
=============================================================================
