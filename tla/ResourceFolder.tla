----------------------------- MODULE ResourceFolder -----------------------------
(***************************************************************************)
(* The list of the mods in a folder (minecraft/mod/ResourceFolderModel     *)
(* with ModFolderModel): the folder is read on a pool thread, the list is  *)
(* brought up to date on the main thread, each new or changed mod is       *)
(* parsed by tasks of a ConcurrentTask, and results arrive as events of    *)
(* the main thread, in the order they were posted, while files come, go    *)
(* and are renamed.                                                        *)
(*                                                                         *)
(* A file is the stamp of its last change, None if it is not there; the    *)
(* stamp stands for its contents too, so that no two files share one.      *)
(* Rows count from 1.  No mod has metadata (the .index folder is not       *)
(* modelled).                                                              *)
(***************************************************************************)
EXTENDS Integers, FiniteSets, SequencesExt

CONSTANTS
    Order,         \* the file names, which are the ids of mods, as the folder is sorted
    Toggled,       \* the name a file gets when it is enabled or disabled; folders have none
    Spares,        \* for the name of a disabled file: what it is called instead, in turn,
                   \* when the enabled file is there too (getUniqueResourceName)
    Present,       \* the files there at first
    Given,         \* the names of files that people add
    MaxConcurrent, \* NumberOfConcurrentTasks
    MaxChanges,    \* bound: changes of the folder, of every kind
    MaxSwitches    \* bound: startWatching and stopWatching

Names == ToSet(Order)

ASSUME FolderAssumption ==
    /\ Order \in Seq(Names)
    /\ Present \subseteq Names /\ Given \subseteq Names /\ DOMAIN Toggled \subseteq Names
    /\ \A n \in DOMAIN Toggled : Toggled[n] \in Names \ {n}
    /\ DOMAIN Spares \subseteq DOMAIN Toggled
    \* There is always a name to spare, as there is on disk: when `n' and its twin are there,
    \* the files that there can be besides are fewer than the names.
    /\ \A n \in DOMAIN Spares :
         /\ ToSet(Spares[n]) \subseteq Names /\ IsInjective(Spares[n])
         /\ Len(Spares[n]) > Cardinality(Present) + MaxChanges - 2
    \* Toggling leaves the name without its suffix as it is, and a spare name is longer.
    /\ \E rank \in [Names -> 0 .. Len(Order)] :
         /\ \A n \in DOMAIN Toggled : rank[Toggled[n]] = rank[n]
         /\ \A n \in DOMAIN Spares : \A name \in ToSet(Spares[n]) : rank[name] > rank[n]
    /\ MaxConcurrent \in Nat \ {0} /\ MaxChanges \in Nat /\ MaxSwitches \in Nat

VARIABLES
    disk,      \* the files
    touched,   \* a change of the folder that the watcher has yet to announce
    watching,  \* m_is_watching
    mods,      \* m_resources
    places,    \* m_resources_index, 0 where it has no entry
    update,    \* m_current_update_task: "None", "Made", "Reading", "Posted"
    unread,    \* the files listed that this task has yet to look at
    snapshot,  \* its result
    again,     \* m_scheduled_update
    parses,    \* the parse tasks, by ticket
    active,    \* m_active_parse_tasks
    queue,     \* m_queue of m_resourceResolver
    doing,     \* m_doing of m_resourceResolver
    resolving, \* m_resourceResolver is running
    started,   \* m_resourceResolverRunning
    starting,  \* m_resourceResolver waits for a pool thread
    posted,    \* the events of the main thread
    astray,    \* history: two rows had one name, or a name without a row was indexed
    changes, switches

listVars == <<mods, places>>
updateVars == <<update, unread, snapshot, again>>
resolverVars == <<queue, doing, resolving, started, starting>>
parseVars == <<parses, active>>
diskVars == <<disk, touched, changes>>
folderVars == <<diskVars, watching, listVars, updateVars, parseVars, resolverVars, posted,
          astray, switches>>

None == 0
\* The date of a file that went away after it was listed: it makes a mod none the less.
Invalid == -1

There == {n \in Names : disk[n] # None}

\* The first of `names' that is free.
FirstFree(names) ==
    {names[k] : k \in {k \in DOMAIN names :
                         disk[names[k]] = None /\ \A j \in 1 .. k - 1 : disk[names[j]] # None}}

Event(kind, ticket) == [kind |-> kind, ticket |-> ticket]
Wake == Event("Wake", 0)

\* A mod as made from its file, about to be parsed under `ticket'.  `sure' (history)
\* unless it was renamed while a parse of the old or the new name was under way, or
\* after its file had changed.
Mod(n, stamp, ticket) ==
    [name |-> n, stamp |-> stamp, ticket |-> ticket, resolved |-> FALSE, details |-> 0,
     sure |-> TRUE]

\* `file' is the path the task was made with, `name' the id its mod has now.
Parse(n) == [file |-> n, name |-> n, aborted |-> FALSE, details |-> 0]

FolderInit ==
    /\ disk = [n \in Names |-> IF n \in Present THEN CHOOSE k \in DOMAIN Order : Order[k] = n
                               ELSE None]
    /\ touched = FALSE /\ watching = FALSE
    /\ mods = <<>> /\ places = [n \in Names |-> 0]
    /\ update = "None" /\ unread = {} /\ snapshot = disk /\ again = FALSE
    /\ parses = <<>> /\ active = {}
    /\ queue = <<>> /\ doing = {} /\ resolving = FALSE /\ started = FALSE /\ starting = FALSE
    /\ posted = <<>> /\ astray = FALSE /\ changes = 0 /\ switches = 0

-----------------------------------------------------------------------------
(* Updates: update() and ResourceFolderLoadTask. *)

Update ==
    \/ /\ update = "None"
       /\ update' = "Made"
       /\ UNCHANGED <<unread, snapshot, again>>
    \/ /\ update # "None"
       /\ again' = TRUE
       /\ UNCHANGED <<update, unread, snapshot>>

\* The pool thread lists the folder ...
List ==
    /\ update = "Made"
    /\ update' = "Reading" /\ unread' = There
    /\ snapshot' = [n \in Names |-> None]
    /\ UNCHANGED <<again, diskVars, watching, listVars, parseVars, resolverVars, posted, astray,
                   switches>>

\* ... and looks at one file after the other.  A disabled file whose enabled twin is
\* there is given another name first, which the watcher sees.
Read ==
    \E k \in DOMAIN Order :
    LET n    == Order[k]
        twin == n \in DOMAIN Spares /\ disk[Toggled[n]] # None
    IN  /\ update = "Reading" /\ n \in unread /\ \A j \in 1 .. k - 1 : Order[j] \notin unread
        /\ unread' = unread \ {n}
        /\ \E name \in IF twin THEN FirstFree(Spares[n]) ELSE {n} :
              /\ snapshot' = [snapshot EXCEPT ![name] = IF @ # None THEN @
                                                       ELSE IF disk[n] = None THEN Invalid
                                                       ELSE disk[n]]
              /\ disk' = [disk EXCEPT ![n] = IF twin THEN None ELSE @, ![name] = disk[n]]
        /\ touched' = (touched \/ (watching /\ disk' # disk))
        /\ UNCHANGED <<changes, update, again, watching, listVars, parseVars, resolverVars, posted,
                       astray, switches>>

ReadEnds ==
    /\ update = "Reading" /\ unread = {}
    /\ update' = "Posted"
    /\ posted' = posted \o <<Event("Updated", 0), Event("Over", 0)>>
    /\ UNCHANGED <<unread, snapshot, again, diskVars, watching, listVars, parseVars, resolverVars,
                   astray, switches>>

-----------------------------------------------------------------------------
(* onUpdateSucceeded: what applyUpdates does to the list `l', a record of  *)
(* mods, parse tasks, their tickets and the resolver's queue.              *)

\* A mod that is being resolved and will not stay has its task aborted.
Stopped(l, mod) ==
    IF mod.resolved \/ mod.ticket \notin l.active THEN l
    ELSE [l EXCEPT !.parses[mod.ticket].aborted = TRUE]

\* resolveResource, for the mod that becomes row `row'.
Placed(l, row, n) ==
    LET ticket == Len(l.parses) + 1 IN
    [mods   |-> [i \in 1..Len(l.mods) \cup {row} |->
                   IF i = row THEN Mod(n, snapshot[n], ticket) ELSE l.mods[i]],
     parses |-> Append(l.parses, Parse(n)),
     active |-> l.active \cup {ticket},
     queue  |-> Append(l.queue, ticket)]

\* Faulty: a mod that changed keeps the details it has.
RenewedInPlace(l, n) ==
    [l EXCEPT !.mods[places[n]].stamp = snapshot[n]]

Renewed(l, n) ==
    LET mod == l.mods[places[n]] IN
    IF mod.stamp = snapshot[n] THEN l ELSE Placed(Stopped(l, mod), places[n], n)

Dropped(l, n) ==
    [Stopped(l, l.mods[places[n]]) EXCEPT !.mods = RemoveAt(@, places[n])]

Appended(l, n) == Placed(l, Len(l.mods) + 1, n)

CurrentSet == {n \in Names : places[n] # 0}
NewSet == {n \in Names : snapshot[n] # None}

\* What a name does to the list, and what the names of `order' do, one after the other.
Treated(l, n) ==
    IF n \notin CurrentSet THEN Appended(l, n)
    ELSE IF n \in NewSet THEN Renewed(l, n) ELSE Dropped(l, n)

TreatedInTurn(order) ==
    LET treated[k \in 0 .. Len(order)] ==
            IF k = 0 THEN [mods |-> mods, parses |-> parses, active |-> active, queue |-> queue]
            ELSE Treated(treated[k - 1], order[k])
    IN  treated

\* The index made anew: of two rows with one name it has the last.
Indexed(s) ==
    [n \in Names |-> Max({0} \cup {i \in DOMAIN s : s[i].name = n})]

\* The sets are gone through in any order, the rows to remove from the last to the
\* first.  A name may be indexed that has no row, and then the row to remove or to
\* renew may be gone: what the program does there is undefined.
Apply ==
    \E kept \in SetToSeqs(CurrentSet \cap NewSet), doomed \in SetToSeqs(CurrentSet \ NewSet),
       added \in SetToSeqs(NewSet \ CurrentSet) :
    LET order  == kept \o doomed \o added
        listed == TreatedInTurn(order)[Len(order)]
    IN  /\ mods # <<>> \/ kept = <<>>
        /\ \A i \in DOMAIN doomed : /\ \A j \in 1 .. i : places[doomed[j]] >= places[doomed[i]]
                                   /\ places[doomed[i]] <= Len(mods) - i + 1
        /\ mods' = listed.mods /\ places' = Indexed(listed.mods)
        /\ parses' = listed.parses /\ active' = listed.active /\ queue' = listed.queue
        /\ IF listed.queue # queue /\ ~started
           THEN started' = TRUE /\ starting' = TRUE
           ELSE UNCHANGED <<started, starting>>
        /\ UNCHANGED <<doing, resolving>>

\* Faulty: an update asked for during one is forgotten.
OverForgets ==
    /\ update' = "None" /\ again' = FALSE
    /\ UNCHANGED <<unread, snapshot>>

\* The task's finished().
Over ==
    /\ update' = IF again THEN "Made" ELSE "None"
    /\ again' = FALSE
    /\ UNCHANGED <<unread, snapshot>>

-----------------------------------------------------------------------------
(* The resolver: a ConcurrentTask. *)

\* It is started by a pool thread, which posts its wakeups.
PoolStarts ==
    /\ starting
    /\ starting' = FALSE /\ resolving' = TRUE
    /\ posted' = posted \o [i \in 1..MaxConcurrent |-> Wake]
    /\ UNCHANGED <<queue, doing, started, diskVars, watching, listVars, updateVars, parseVars,
                   astray, switches>>

\* Faulty: m_resourceResolverRunning is not reset.
ResolverEndsStarted ==
    resolving' = FALSE /\ UNCHANGED started

\* The resolver ends, and the model's slot for that has it ready for the next start.
ResolverEnds ==
    resolving' = FALSE /\ started' = FALSE

\* executeNextSubTask.
NextSubTask ==
    \/ /\ ~resolving \/ Cardinality(doing) >= MaxConcurrent \/ (queue = <<>> /\ doing # {})
       /\ UNCHANGED resolverVars
       /\ posted' = Tail(posted)
    \/ /\ resolving /\ queue = <<>> /\ doing = {}
       /\ ResolverEnds
       /\ UNCHANGED <<queue, doing, starting>>
       /\ posted' = Tail(posted)
    \/ /\ resolving /\ Cardinality(doing) < MaxConcurrent /\ queue # <<>>
       /\ queue' = Tail(queue) /\ doing' = doing \cup {Head(queue)}
       /\ UNCHANGED <<resolving, started, starting>>
       /\ posted' = Append(Tail(posted), Event("Parse", Head(queue)))

\* The task reads the file at its path, there or not, and ends: the model's and the
\* resolver's slots for its signals post what follows.
ParseRuns(t) ==
    /\ parses' = [parses EXCEPT ![t].details = IF @ = 0 /\ ~parses[t].aborted
                                               THEN disk[parses[t].file] ELSE @]
    /\ doing' = doing \ {t}
    /\ posted' = Tail(posted) \o (IF parses[t].aborted THEN <<Wake, Event("Done", t)>>
                                  ELSE <<Event("Parsed", t), Wake, Event("Done", t)>>)
    /\ UNCHANGED <<active, queue, resolving, started, starting>>

\* ModFolderModel::onParseSucceeded: the row is looked up with operator[], which
\* indexes row 0 for a name that has none, and the details go to the mod found by name.
Parsed(t) ==
    LET name == parses[t].name
        row  == SelectInSeq(mods, LAMBDA mod : mod.name = name)
    IN  /\ places' = IF t \in active /\ places[name] = 0 THEN [places EXCEPT ![name] = 1] ELSE places
        /\ astray' = (astray \/ places' # places)
        /\ mods' = IF t \in active /\ row # 0
                   THEN [mods EXCEPT ![row].resolved = TRUE, ![row].details = parses[t].details]
                   ELSE mods

\* The main thread takes the next event.
Handle(e) ==
    /\ posted # <<>> /\ e = Head(posted)
    /\ \/ /\ e.kind = "Updated"
          /\ Apply
          /\ posted' = Tail(posted)
          /\ UNCHANGED <<updateVars, astray>>
       \/ /\ e.kind = "Over"
          /\ Over
          /\ posted' = Tail(posted)
          /\ UNCHANGED <<listVars, parseVars, resolverVars, astray>>
       \/ /\ e.kind = "Wake"
          /\ NextSubTask
          /\ UNCHANGED <<listVars, updateVars, parseVars, astray>>
       \/ /\ e.kind = "Parse"
          /\ ParseRuns(e.ticket)
          /\ UNCHANGED <<listVars, updateVars, astray>>
       \/ /\ e.kind = "Parsed"
          /\ Parsed(e.ticket)
          /\ posted' = Tail(posted)
          /\ UNCHANGED <<updateVars, parseVars, resolverVars>>
       \/ /\ e.kind = "Done"
          /\ active' = active \ {e.ticket}
          /\ posted' = Tail(posted)
          /\ UNCHANGED <<listVars, updateVars, parses, resolverVars, astray>>
    /\ UNCHANGED <<diskVars, watching, switches>>

-----------------------------------------------------------------------------
(* The folder's changes, and who hears of them. *)

\* A watched folder's change is announced later.
ChangedTo(d) ==
    /\ changes < MaxChanges
    /\ disk' = d /\ touched' = (touched \/ watching) /\ changes' = changes + 1

Fresh == Len(Order) + changes + 1

\* Somebody else puts a file in place, or takes one away.
OthersChange(n) ==
    /\ \/ n \in Given /\ ChangedTo([disk EXCEPT ![n] = Fresh])
       \/ disk[n] # None /\ ChangedTo([disk EXCEPT ![n] = None])
    /\ UNCHANGED <<watching, listVars, updateVars, parseVars, resolverVars, posted, astray, switches>>

\* directoryChanged.
ChangeNoticed ==
    /\ touched
    /\ touched' = FALSE
    /\ Update
    /\ UNCHANGED <<disk, changes, watching, listVars, parseVars, resolverVars, posted, astray, switches>>

\* installResource: a file that is there is replaced, a folder is not.
Install(n) ==
    /\ n \in DOMAIN Toggled \/ disk[n] = None
    /\ ChangedTo([disk EXCEPT ![n] = Fresh])
    /\ IF watching THEN UNCHANGED updateVars ELSE Update
    /\ UNCHANGED <<watching, listVars, parseVars, resolverVars, posted, astray, switches>>

\* uninstallResource, deleteResources.
Uninstall(row) ==
    /\ ChangedTo([disk EXCEPT ![mods[row].name] = None])
    /\ Update
    /\ UNCHANGED <<watching, listVars, parseVars, resolverVars, posted, astray, switches>>

\* setResourceEnabled: the file is renamed, unless it is gone or the name it had before
\* it was disabled is taken, and the row keeps its place.
Toggle(row) ==
    LET mod   == mods[row]
        other == Toggled[mod.name]
    IN  /\ mod.name \in DOMAIN Toggled /\ disk[mod.name] # None
        /\ disk[other] = None \/ other \in DOMAIN Spares
        /\ \E name \in IF disk[other] = None THEN {other} ELSE FirstFree(Spares[other]) :
              /\ ChangedTo([disk EXCEPT ![mod.name] = None, ![name] = disk[mod.name]])
              /\ mods' = [mods EXCEPT ![row].name = name, ![row].stamp = disk[mod.name],
                   ![row].sure = /\ @ /\ mod.stamp = disk[mod.name]
                                 /\ \A t \in active : parses[t].name \notin {mod.name, name}]
              /\ places' = [places EXCEPT ![mod.name] = 0, ![name] = row]
              /\ parses' = [parses EXCEPT ![mod.ticket].name = name]
              /\ astray' = (astray \/ \E i \in DOMAIN mods : mods[i].name = name)
        /\ UNCHANGED <<watching, updateVars, active, resolverVars, posted, switches>>

StartWatching ==
    /\ ~watching /\ switches < MaxSwitches
    /\ watching' = TRUE /\ switches' = switches + 1
    /\ Update
    /\ UNCHANGED <<diskVars, listVars, parseVars, resolverVars, posted, astray>>

StopWatching ==
    /\ watching /\ switches < MaxSwitches
    /\ watching' = FALSE /\ touched' = FALSE /\ switches' = switches + 1
    /\ UNCHANGED <<disk, changes, listVars, updateVars, parseVars, resolverVars, posted, astray>>

-----------------------------------------------------------------------------

UserNext ==
    \/ \E n \in Names : OthersChange(n)
    \/ \E n \in Given : Install(n)
    \/ \E row \in DOMAIN mods : Uninstall(row) \/ Toggle(row)
    \/ StartWatching \/ StopWatching

\* What goes on by itself.
ThreadNext ==
    \/ List \/ Read \/ ReadEnds \/ PoolStarts \/ ChangeNoticed
    \/ \E e \in {posted[i] : i \in DOMAIN posted} : Handle(e)

FolderNext == UserNext \/ ThreadNext

FolderSpec == FolderInit /\ [][FolderNext]_folderVars

\* Pool threads and the main thread go on; nobody has to change the folder.
FolderFairSpec == FolderSpec /\ WF_folderVars(ThreadNext)

-----------------------------------------------------------------------------
(* Properties. *)

\* The list has been brought up to date and knows of no change since.
Settled == watching /\ ~touched /\ update = "None" /\ ~astray

\* A list that is watched and has no update under way shows each file of the folder
\* in one row, with its stamp, and indexes that row: no change that arrives while the
\* folder is read, or the result waits, is forgotten (m_scheduled_update).
ListIsTrue ==
    Settled =>
      /\ \A n \in Names : IF disk[n] = None THEN places[n] = 0
                         ELSE /\ places[n] \in DOMAIN mods
                              /\ mods[places[n]].name = n /\ mods[places[n]].stamp = disk[n]
      /\ Len(mods) = Cardinality(There)

\* Once the parse of its own is over, a row of such a list shows the details of the
\* file it stands for, whatever older parses of the name have delivered.
DetailsAreTrue ==
    Settled => \A i \in DOMAIN mods :
      mods[i].ticket \notin active /\ mods[i].sure =>
        mods[i].resolved /\ mods[i].details = disk[mods[i].name]

\* The list becomes still again after the last change: it is not read over and over,
\* and no parse task is left in the resolver without a wakeup that takes it up.
FolderSettles ==
    []<>(astray \/ (update = "None" /\ posted = <<>> /\ ~starting /\ active = {}))
=============================================================================
