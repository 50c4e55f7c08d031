---------------------------- MODULE MetadataProof ----------------------------
(***************************************************************************)
(* Proofs about Metadata for any components, lists and versions, any       *)
(* number of load jobs, online or not, and any number of publications,     *)
(* aborts and damaged files: what counts as loaded has been read, and is   *)
(* what the parent names, and a load that reports success has read the     *)
(* version it loads.                                                       *)
(*                                                                         *)
(* Three things have to be known at once: what an entity's file, what was  *)
(* read of it and its checksum have to do with each other; what            *)
(* a download that is on its way may still bring, although other tasks of  *)
(* the same entity run beside it; and that no job asks for an entity       *)
(* before the checksum of it is known.                                     *)
(***************************************************************************)
EXTENDS Metadata, TLAPS

(* The inductive invariant. *)

Kids == Lists \cup Versions
Numbers == Nat \cup {-1}
Phases == {"Idle", "Wake", "Start", "Wait", "Late", "Over"}
Outcomes == {"None", "Succeeded", "Failed", "Aborted"}

\* The types of the entities and their tasks.
DataTypes ==
    /\ disk \in [Entities -> Numbers]
    /\ fsha \in [Entities -> Numbers]
    /\ sha \in [Entities -> Nat]
    /\ content \in [Entities -> Nat]
    /\ status \in [Entities -> {"NotLoaded", "Local", "Remote"}]
    /\ cur \in [Entities -> Jobs \cup {None}]
    /\ life \in [Tasks -> {"Inactive", "Running", "Succeeded", "Failed", "Aborted"}]
    /\ net \in [Tasks -> {"None", "Over"} \cup InFlight]
    /\ want \in [Tasks -> Nat]

\* Nothing counts as read before it was, and what was read has named its children.
ReadFirst ==
    /\ \A e \in Entities : status[e] # "NotLoaded" => content[e] # 0
    /\ \A t \in Tasks : net[t] = "Landed" => content[t[2]] # 0
    /\ \A e \in Entities : content[e] # 0 => \A k \in Children(e) : sha[k] # 0

\* What was read of an entity is its file, and its file's checksum if that is known.
EntityTrue(e) ==
    /\ content[e] # 0 /\ disk[e] # 0 => content[e] = disk[e]
    /\ status[e] # "NotLoaded" => /\ disk[e] # 0
                                  /\ fsha[e] # 0 => content[e] = fsha[e]

\* A task whose entity has kept its checksum wants it, and nothing else has been
\* read or stored in the meantime.
TaskTrue(t) ==
    LET e == t[2] IN
    /\ net[t] = "Landed" => disk[e] # 0 /\ want[t] \in {0, content[e]}
    /\ status[e] # "NotLoaded" /\ fsha[e] # 0 => want[t] = fsha[e]
    /\ want[t] # 0 => disk[e] \in {0, want[t]}

\* A task without a checksum to ask for is the entity's own, and runs.
TaskWants(t) ==
    /\ want[t] = sha[t[2]]
    /\ want[t] = 0 => life[t] = "Running" /\ cur[t[2]] = t[1]

Unmoved(t) == t[2] \in Kids /\ net[t] \in InFlight /\ t \notin moved

Data ==
    /\ DataTypes
    /\ ReadFirst
    /\ sha[Index] = 0
    /\ \A e \in Kids \ doubtful : EntityTrue(e)
    /\ \A t \in Tasks : Unmoved(t) => TaskWants(t)
    /\ \A t \in Tasks : Unmoved(t) /\ t[2] \notin doubtful => TaskTrue(t)

\* The types of the jobs.
JobTypes ==
    /\ offline \subseteq Jobs
    /\ target \in [Jobs -> Versions \cup {None}]
    /\ plan \in [Jobs -> Seq(Entities)]
    /\ doing \in [Jobs -> Entities \cup {None}]
    /\ uses \in [Jobs -> [Entities -> Jobs \cup {None}]]
    /\ phase \in [Jobs -> Phases]
    /\ outcome \in [Jobs -> Outcomes]

\* What an online job has left to do, by what it is doing: an entity is loaded
\* only when its checksum is known.
Course(j) ==
    LET v == target[j]
        l == ListOf[v] IN
    \/ /\ doing[j] = None
       /\ \/ plan[j] = <<Index, l, v>>
          \/ plan[j] = <<l, v>> /\ sha[l] # 0
          \/ plan[j] = <<>>
       /\ phase[j] \in {"Wake", "Over"}
    \/ doing[j] = Index /\ plan[j] \in {<<l, v>>, <<>>}
    \/ doing[j] = l /\ plan[j] \in {<<v>>, <<>>} /\ sha[l] # 0
    \/ doing[j] = v /\ plan[j] = <<>> /\ sha[v] # 0

\* The tasks a job still needs were given to it.
Supplied(j) ==
    /\ doing[j] # None => uses[j][doing[j]] \in Jobs
    /\ \A i \in DOMAIN plan[j] : uses[j][plan[j][i]] \in Jobs

\* A job goes on only after what it did was read.
GoesOn(j) ==
    doing[j] # None /\ phase[j] \in {"Wake", "Late"} /\ outcome[j] = "None"
        => content[doing[j]] # 0

JobTrue(j) ==
    /\ j \in offline => phase[j] \in {"Idle", "Wait", "Over"}
    /\ j \notin offline /\ phase[j] = "Idle" => doing[j] = None
    /\ j \notin offline /\ phase[j] # "Idle" =>
            /\ target[j] \in Versions
            /\ Course(j)
            /\ Supplied(j)
            /\ GoesOn(j)

Inv == rev \in Nat /\ Data /\ JobTypes /\ \A j \in Jobs : JobTrue(j)

-----------------------------------------------------------------------------
(* Entities and tasks. *)

\* Who is whose child; nothing is its own.
LEMMA Families ==
    /\ Index \notin Kids /\ None \notin Entities /\ None \notin Jobs
    /\ \A v \in Versions : /\ ListOf[v] \in Lists /\ ListOf[v] # Index /\ ListOf[v] # v
                           /\ v # Index /\ v \in Children(ListOf[v])
    /\ \A l \in Lists : l \in Children(Index)
    /\ \A e \in Entities : Children(e) \subseteq Kids /\ e \notin Children(e)
    /\ Kids \subseteq Entities /\ Index \in Entities
  BY MetadataAssumption DEF MetadataAssumption, Kids, Entities, Children, Lists

\* A task is a job and an entity.
LEMMA TaskShape ==
    /\ \A t \in Tasks : t[1] \in Jobs /\ t[2] \in Entities /\ t = <<t[1], t[2]>>
    /\ \A j \in Jobs, e \in Entities : /\ <<j, e>> \in Tasks
                                      /\ <<j, e>>[1] = j /\ <<j, e>>[2] = e
  BY DEF Tasks

\* What was named or read stays named or read, and nobody names the index.
Grows == /\ \A e \in Entities : sha[e] # 0 => sha'[e] # 0
         /\ \A e \in Entities : content[e] # 0 => content'[e] # 0
         /\ sha'[Index] = sha[Index]

\* Parsing a file changes what was read of the entity and the checksums of its
\* children, and nothing else.
LEMMA ParseFacts ==
    ASSUME Data, NEW e \in Entities, NEW r \in Nat \ {0}, Parse(e, r)
    PROVE  /\ content' \in [Entities -> Nat] /\ sha' \in [Entities -> Nat]
           /\ content'[e] = r /\ sha'[e] = sha[e]
           /\ \A x \in Entities : x # e => content'[x] = content[x]
           /\ Grows
           /\ \A x \in Entities : content'[x] # 0 => \A k \in Children(x) : sha'[k] # 0
<1>1. /\ content' = [content EXCEPT ![e] = r]
      /\ sha' = [k \in Entities |-> IF k \in Children(e) THEN r ELSE sha[k]]
      /\ content \in [Entities -> Nat] /\ sha \in [Entities -> Nat]
  BY DEF Parse, Data, DataTypes
<1>2. /\ content' \in [Entities -> Nat] /\ content'[e] = r
      /\ \A x \in Entities : x # e => content'[x] = content[x]
  BY <1>1
<1>3. /\ sha' \in [Entities -> Nat]
      /\ \A k \in Entities : sha'[k] = IF k \in Children(e) THEN r ELSE sha[k]
  BY <1>1
<1>4. sha'[e] = sha[e]
  BY <1>3, Families
<1>5. Grows
  BY <1>2, <1>3, Families DEF Grows
<1>6. ASSUME NEW x \in Entities, content'[x] # 0, NEW k \in Children(x)
      PROVE  sha'[k] # 0
  <2>1. k \in Entities
    BY Families
  <2>2. CASE x = e
    BY <1>3, <2>1, <2>2
  <2>3. CASE x # e
    <3>1. sha[k] # 0
      BY <1>2, <1>6, <2>3 DEF Data, ReadFirst
    <3> QED
      BY <1>5, <2>1, <3>1 DEF Grows
  <2> QED
    BY <2>2, <2>3
<1> QED
  BY <1>2, <1>3, <1>4, <1>5, <1>6

\* A task that is on its way and counts as unmoved was so before, unless it asks
\* just now, and its entity keeps its checksum.
LEMMA StaysUnmoved ==
    ASSUME NEW asked, moved' = Tracked(asked), NEW u \in Tasks, u \notin asked,
           net[u] \in InFlight, Unmoved(u)'
    PROVE  Unmoved(u) /\ sha'[u[2]] = sha[u[2]]
  BY DEF Tracked, Unmoved

-----------------------------------------------------------------------------
(* start() of a load task: the local file. *)

\* The three ways in which the local file is looked at.
FileRejected(t, e) ==
    /\ Rejected(t)
    /\ disk'[e] = 0 /\ status'[e] = "NotLoaded" /\ content'[e] = content[e]

FileParsed(t, e) ==
    /\ ~Rejected(t)
    /\ disk[e] \in Nat \ {0} /\ disk'[e] = disk[e]
    /\ status[e] = "NotLoaded" /\ status'[e] = "Local"
    /\ content'[e] = disk[e] /\ fsha'[e] = disk[e]

FileLeft(t, e) ==
    /\ ~Rejected(t)
    /\ disk[e] = 0 \/ status[e] # "NotLoaded"
    /\ disk'[e] = disk[e] /\ status'[e] = status[e] /\ content'[e] = content[e]

\* Only the entity of the task is touched, and the checksums of its children.
LEMMA LocalFacts ==
    ASSUME Data, NEW t \in Tasks, NEW e, e = t[2], ReadLocal(t)
    PROVE  /\ disk' \in [Entities -> Numbers] /\ fsha' \in [Entities -> Numbers]
           /\ sha' \in [Entities -> Nat] /\ content' \in [Entities -> Nat]
           /\ status' \in [Entities -> {"NotLoaded", "Local", "Remote"}]
           /\ \A x \in Entities : x # e => /\ disk'[x] = disk[x] /\ fsha'[x] = fsha[x]
                                           /\ status'[x] = status[x]
                                           /\ content'[x] = content[x]
           /\ sha'[e] = sha[e] /\ fsha'[e] = Rehashed(e)
           /\ Grows
           /\ \A x \in Entities : content'[x] # 0 => \A k \in Children(x) : sha'[k] # 0
           /\ FileRejected(t, e) \/ FileParsed(t, e) \/ FileLeft(t, e)
<1> USE DEF Numbers
<1>1. /\ e \in Entities
      /\ disk \in [Entities -> Numbers] /\ fsha \in [Entities -> Numbers]
      /\ sha \in [Entities -> Nat] /\ content \in [Entities -> Nat]
      /\ status \in [Entities -> {"NotLoaded", "Local", "Remote"}]
      /\ \A x \in Entities : content[x] # 0 => \A k \in Children(x) : sha[k] # 0
  BY TaskShape DEF Data, DataTypes, ReadFirst
<1>2. Rehashed(e) \in Numbers
  BY <1>1 DEF Rehashed
<1>3. fsha' = [fsha EXCEPT ![e] = Rehashed(e)]
  BY DEF ReadLocal
<1>4. CASE Rejected(t)
  <2>1. /\ disk' = [disk EXCEPT ![e] = 0] /\ status' = [status EXCEPT ![e] = "NotLoaded"]
        /\ content' = content /\ sha' = sha
    BY <1>4 DEF ReadLocal
  <2>2. FileRejected(t, e)
    BY <1>1, <1>4, <2>1 DEF FileRejected
  <2>3. Grows
    BY <2>1 DEF Grows
  <2> QED
    BY <1>1, <1>2, <1>3, <2>1, <2>2, <2>3
<1>5. CASE ~Rejected(t) /\ disk[e] # 0 /\ status[e] = "NotLoaded"
  <2>1. Parse(e, disk[e]) /\ status' = [status EXCEPT ![e] = "Local"] /\ disk' = disk
    BY <1>5 DEF ReadLocal
  <2>2. disk[e] \in Nat \ {0}
    BY <1>1, <1>5 DEF Rejected
  <2>3. Rehashed(e) = disk[e]
    BY <1>5 DEF Rehashed
  <2>4. /\ content' \in [Entities -> Nat] /\ sha' \in [Entities -> Nat]
        /\ content'[e] = disk[e] /\ sha'[e] = sha[e]
        /\ \A x \in Entities : x # e => content'[x] = content[x]
        /\ Grows
        /\ \A x \in Entities : content'[x] # 0 => \A k \in Children(x) : sha'[k] # 0
    BY <1>1, <2>1, <2>2, ParseFacts
  <2>5. FileParsed(t, e)
    BY <1>1, <1>3, <1>5, <2>1, <2>2, <2>3, <2>4 DEF FileParsed
  <2> QED
    BY <1>1, <1>2, <1>3, <2>1, <2>4, <2>5
<1>6. CASE ~Rejected(t) /\ (disk[e] = 0 \/ status[e] # "NotLoaded")
  <2>1. UNCHANGED <<disk, content, sha, status>>
    BY <1>6 DEF ReadLocal
  <2>2. FileLeft(t, e)
    BY <1>6, <2>1 DEF FileLeft
  <2>3. Grows
    BY <2>1 DEF Grows
  <2> QED
    BY <1>1, <1>2, <1>3, <2>1, <2>2, <2>3
<1> QED
  BY <1>4, <1>5, <1>6

\* If a task starts whose checksum is unknown, it is an offline job's, and no other
\* task is the entity's own and runs.
SoleIfUnknown(t) ==
    t[2] \in Kids /\ sha[t[2]] = 0 /\ life[t] # "Running" =>
        /\ t[1] \in offline
        /\ cur[t[2]] # None /\ life[<<cur[t[2]], t[2]>>] = "Running" => cur[t[2]] = t[1]

\* What a task of the same entity still wants is known, and is in the file if there
\* is one.
LEMMA OthersWant ==
    ASSUME Data, NEW t \in Tasks, life[t] # "Running", SoleIfUnknown(t),
           NEW u \in Tasks, u[2] = t[2], Unmoved(u)
    PROVE  want[u] = sha[t[2]] /\ want[u] \in Nat \ {0}
<1>1. TaskWants(u) /\ want[u] \in Nat /\ u[2] \in Kids
  BY DEF Data, DataTypes, Unmoved
<1>2. want[u] # 0
  <2> SUFFICES ASSUME want[u] = 0
               PROVE  FALSE
    OBVIOUS
  <2>1. /\ life[u] = "Running" /\ cur[u[2]] = u[1] /\ sha[t[2]] = 0
        /\ u = <<u[1], u[2]>> /\ t = <<t[1], t[2]>> /\ u[1] # None
    BY <1>1, TaskShape, Families DEF TaskWants
  <2>2. u[1] = t[1]
    BY <1>1, <2>1 DEF SoleIfUnknown
  <2> QED
    BY <2>1, <2>2
<1> QED
  BY <1>1, <1>2 DEF TaskWants

\* Looking at the local file keeps what is known of the entity.
LEMMA LocalEntity ==
    ASSUME Data, NEW t \in Tasks, NEW e, e = t[2], ReadLocal(t), e \in Kids \ doubtful
    PROVE  EntityTrue(e)'
<1>1. EntityTrue(e) /\ fsha'[e] = Rehashed(e)
  BY LocalFacts DEF Data
<1>2. CASE FileRejected(t, e)
  BY <1>2 DEF FileRejected, EntityTrue
<1>3. CASE FileParsed(t, e)
  BY <1>3 DEF FileParsed, EntityTrue
<1>4. CASE FileLeft(t, e)
  <2>1. status[e] # "NotLoaded" => content[e] # 0
    BY TaskShape DEF Data, ReadFirst
  <2> QED
    BY <1>1, <1>4, <2>1 DEF FileLeft, EntityTrue, Rehashed
<1> QED
  BY <1>2, <1>3, <1>4, LocalFacts

\* Looking at the local file keeps what is known of tasks on their way: the file
\* one of them brought is not thrown away.
LEMMA LocalTask ==
    ASSUME Data, NEW t \in Tasks, NEW e, e = t[2], ReadLocal(t), life[t] # "Running",
           SoleIfUnknown(t), e \notin doubtful,
           NEW u \in Tasks, u[2] = e, Unmoved(u)
    PROVE  /\ net[u] = "Landed" => disk'[e] # 0 /\ want[u] \in {0, content'[e]}
           /\ status'[e] # "NotLoaded" /\ fsha'[e] # 0 => want[u] = fsha'[e]
           /\ want[u] # 0 => disk'[e] \in {0, want[u]}
<1>1. /\ TaskTrue(u) /\ EntityTrue(e) /\ e \in Kids
      /\ want[u] = sha[e] /\ want[u] \in Nat \ {0}
      /\ net[u] = "Landed" => content[e] # 0
      /\ status[e] # "NotLoaded" => content[e] # 0
  BY OthersWant, TaskShape DEF Data, ReadFirst, Unmoved
<1>2. ~Rejected(t)
  <2>1. Rehashed(e) = want[u] \/ disk[e] = 0
    BY <1>1 DEF TaskTrue, EntityTrue, Rehashed
  <2>2. disk[e] # -1
    BY <1>1 DEF TaskTrue
  <2> QED
    BY <1>1, <2>1, <2>2 DEF Rejected
<1>3. CASE FileParsed(t, e)
  BY <1>1, <1>3 DEF FileParsed, TaskTrue, EntityTrue
<1>4. CASE FileLeft(t, e)
  <2>1. fsha'[e] = Rehashed(e)
    BY LocalFacts
  <2> QED
    BY <1>1, <1>4, <2>1 DEF FileLeft, TaskTrue, EntityTrue, Rehashed
<1> QED
  BY <1>2, <1>3, <1>4, LocalFacts DEF FileRejected

\* A download begins only when there is nothing left to be wrong about.
LEMMA AskedAfresh ==
    ASSUME Data, NEW t \in Tasks, NEW e, e = t[2], ReadLocal(t), life[t] # "Running",
           SoleIfUnknown(t), ~LocalSuffices(t), e \in Kids \ doubtful
    PROVE  status'[e] = "NotLoaded" /\ disk'[e] = 0
<1>1. EntityTrue(e) /\ fsha'[e] = Rehashed(e) /\ e \in Entities
  BY LocalFacts, TaskShape DEF Data
<1>2. CASE FileRejected(t, e)
  BY <1>2 DEF FileRejected
<1>3. CASE FileParsed(t, e)
  BY <1>1, <1>3 DEF FileParsed, LocalSuffices, Rejected, SoleIfUnknown
<1>4. CASE FileLeft(t, e)
  BY <1>1, <1>4 DEF FileLeft, LocalSuffices, Rejected, SoleIfUnknown, EntityTrue
<1> QED
  BY <1>2, <1>3, <1>4, LocalFacts

\* If the local file suffices, the entity has been read.
LEMMA SufficesIsRead ==
    ASSUME Data, NEW t \in Tasks, NEW e, e = t[2], ReadLocal(t), LocalSuffices(t)
    PROVE  status'[e] # "NotLoaded"
<1>1. /\ e \in Entities /\ sha[e] \in Nat
  BY TaskShape DEF Data, DataTypes
<1>2. CASE FileRejected(t, e)
  <2>1. Rehashed(e) = IF status[e] = "NotLoaded" \/ fsha[e] = 0 THEN disk[e] ELSE fsha[e]
    BY <1>2 DEF FileRejected, Rejected, Rehashed
  <2> QED
    BY <1>1, <1>2, <2>1 DEF FileRejected, Rejected, LocalSuffices
<1>3. CASE FileParsed(t, e)
  BY <1>3 DEF FileParsed
<1>4. CASE FileLeft(t, e)
  BY <1>4 DEF FileLeft, LocalSuffices
<1> QED
  BY <1>2, <1>3, <1>4, LocalFacts

\* What is read is read: the status follows the contents.
LEMMA LocalRead ==
    ASSUME Data, NEW t \in Tasks, NEW e, e = t[2], ReadLocal(t)
    PROVE  \A x \in Entities : status'[x] # "NotLoaded" => content'[x] # 0
<1>1. \A x \in Entities : status[x] # "NotLoaded" => content[x] # 0
  BY DEF Data, ReadFirst
<1> QED
  BY <1>1, LocalFacts DEF FileRejected, FileParsed, FileLeft

-----------------------------------------------------------------------------
(* What each step does to the entities and their tasks. *)

\* The owner of an entity's running task stays its owner.
RunnersStay ==
    \A e \in Entities :
        cur[e] # None /\ life[<<cur[e], e>>] = "Running" => cur'[e] = cur[e]

dataVars == <<disk, sha, status, fsha, content, moved, doubtful, life, net, want>>

\* Only the owners of entities change, and those of running tasks do not.
LEMMA OwnersChange ==
    ASSUME Data, UNCHANGED dataVars, cur' \in [Entities -> Jobs \cup {None}], RunnersStay
    PROVE  Data' /\ Grows
<1>1. DataTypes' /\ ReadFirst' /\ Grows
  BY DEF Data, DataTypes, ReadFirst, dataVars, Grows
<1>2. \A e \in Kids \ doubtful' : EntityTrue(e)'
  BY DEF Data, EntityTrue, dataVars
<1>3. ASSUME NEW u \in Tasks, Unmoved(u)'
      PROVE  TaskWants(u)'
  <2>1. Unmoved(u) /\ TaskWants(u)
    BY <1>3 DEF Unmoved, Data, dataVars
  <2>2. u[2] \in Entities /\ u[1] # None /\ u = <<u[1], u[2]>>
    BY TaskShape, Families
  <2>3. want[u] = 0 => cur'[u[2]] = u[1]
    BY <2>1, <2>2 DEF TaskWants, RunnersStay
  <2> QED
    BY <2>1, <2>3 DEF TaskWants, dataVars
<1>4. \A u \in Tasks : Unmoved(u)' /\ u[2] \notin doubtful' => TaskTrue(u)'
  BY DEF Data, Unmoved, TaskTrue, dataVars
<1> QED
  BY <1>1, <1>2, <1>3, <1>4 DEF Data, Grows

\* The life or the download of one task changes, and brings nothing.
LEMMA TaskChanges ==
    ASSUME Data, NEW t \in Tasks,
           UNCHANGED <<disk, sha, status, fsha, content, moved, doubtful, cur, want>>,
           DataTypes',
           \A u \in Tasks : u # t => net'[u] = net[u] /\ life'[u] = life[u],
           net'[t] = "Landed" => net[t] = "Landed",
           net'[t] \in InFlight => net[t] \in InFlight,
           Unmoved(t) /\ net'[t] \in InFlight => life'[t] = life[t] \/ want[t] # 0
    PROVE  Data' /\ Grows
<1>1. ReadFirst' /\ Grows
  <2>1. \A u \in Tasks : net'[u] = "Landed" => net[u] = "Landed"
    OBVIOUS
  <2> QED
    BY <2>1 DEF Data, ReadFirst, Grows
<1>2. \A e \in Kids \ doubtful' : EntityTrue(e)'
  BY DEF Data, EntityTrue
<1>3. ASSUME NEW u \in Tasks, Unmoved(u)'
      PROVE  Unmoved(u) /\ TaskWants(u)'
  <2>1. Unmoved(u)
    BY <1>3 DEF Unmoved
  <2> QED
    BY <1>3, <2>1 DEF Data, TaskWants, Unmoved
<1>4. ASSUME NEW u \in Tasks, Unmoved(u)', u[2] \notin doubtful'
      PROVE  TaskTrue(u)'
  <2>1. TaskTrue(u)
    BY <1>3, <1>4 DEF Data
  <2>2. net'[u] = "Landed" => net[u] = "Landed"
    OBVIOUS
  <2> QED
    BY <2>1, <2>2 DEF TaskTrue
<1> QED
  BY <1>1, <1>2, <1>3, <1>4 DEF Data, Grows

\* start() of a task, whoever calls it.
LEMMA ExecuteData ==
    ASSUME Data, NEW t \in Tasks, NEW js, NEW at, Execute(t, js, at), doubtful' = doubtful,
           cur' \in [Entities -> Jobs \cup {None}], RunnersStay, SoleIfUnknown(t),
           t[2] \in Kids /\ sha[t[2]] = 0 => cur'[t[2]] = t[1]
    PROVE  Data' /\ Grows
<1>1. CASE life[t] = "Running"
  BY <1>1, OwnersChange DEF Execute, dataVars
<1>2. CASE life[t] # "Running"
  <2> DEFINE e == t[2]
  <2>1. ReadLocal(t) /\ e \in Entities
    BY <1>2, TaskShape DEF Execute
  <2>2. /\ \A x \in Entities : x # e => /\ disk'[x] = disk[x] /\ fsha'[x] = fsha[x]
                                        /\ status'[x] = status[x] /\ content'[x] = content[x]
        /\ sha'[e] = sha[e] /\ Grows
    BY <2>1, LocalFacts
  <2>3. \/ /\ LocalSuffices(t) /\ moved' = Tracked({}) /\ UNCHANGED <<net, want>>
           /\ life' = [life EXCEPT ![t] = "Succeeded"]
        \/ /\ ~LocalSuffices(t) /\ moved' = Tracked({t})
           /\ life' = [life EXCEPT ![t] = "Running"]
           /\ net' = [net EXCEPT ![t] = "Posted"]
           /\ want' = [want EXCEPT ![t] = sha[e]]
    BY <1>2 DEF Execute
  <2>4. DataTypes'
    <3>1. life' \in [Tasks -> {"Inactive", "Running", "Succeeded", "Failed", "Aborted"}]
      BY <2>3 DEF Data, DataTypes
    <3>2. net' \in [Tasks -> {"None", "Over"} \cup InFlight]
      BY <2>3 DEF Data, DataTypes, InFlight
    <3>3. want' \in [Tasks -> Nat]
      BY <2>1, <2>3 DEF Data, DataTypes
    <3> QED
      BY <2>1, <3>1, <3>2, <3>3, LocalFacts DEF DataTypes
  <2>5. ReadFirst'
    <3>1. \A u \in Tasks : net'[u] = "Landed" => net[u] = "Landed"
      BY <2>3 DEF Data, DataTypes
    <3>2. \A u \in Tasks : net'[u] = "Landed" => content'[u[2]] # 0
      BY <2>2, <3>1, TaskShape DEF Data, ReadFirst, Grows
    <3>3. \A x \in Entities : content'[x] # 0 => \A k \in Children(x) : sha'[k] # 0
      BY <2>1, LocalFacts
    <3>4. \A x \in Entities : status'[x] # "NotLoaded" => content'[x] # 0
      BY <2>1, LocalRead
    <3> QED
      BY <3>2, <3>3, <3>4 DEF ReadFirst
  <2>6. \A x \in Kids \ doubtful' : EntityTrue(x)'
    <3> SUFFICES ASSUME NEW x \in Kids \ doubtful
                 PROVE  EntityTrue(x)'
      OBVIOUS
    <3>1. CASE x = e
      BY <2>1, <3>1, LocalEntity
    <3>2. CASE x # e
      BY <2>2, <3>2, Families DEF Data, EntityTrue
    <3> QED
      BY <3>1, <3>2
  <2>7. ASSUME NEW u \in Tasks, Unmoved(u)'
        PROVE  \/ u = t /\ ~LocalSuffices(t)
               \/ /\ Unmoved(u) /\ sha'[u[2]] = sha[u[2]]
                  /\ want'[u] = want[u] /\ net'[u] = net[u]
                  /\ u = t \/ life'[u] = life[u]
    <3>1. CASE u = t /\ ~LocalSuffices(t)
      BY <3>1
    <3>2. CASE ~(u = t /\ ~LocalSuffices(t))
      <4>1. want'[u] = want[u] /\ net'[u] = net[u] /\ (u = t \/ life'[u] = life[u])
        BY <2>3, <3>2 DEF Data, DataTypes
      <4>2. \E asked \in {{}, {t}} : moved' = Tracked(asked) /\ u \notin asked
        BY <2>3, <3>2
      <4>3. net[u] \in InFlight
        BY <2>7, <4>1 DEF Unmoved
      <4> QED
        BY <2>7, <4>1, <4>2, <4>3, StaysUnmoved
    <3> QED
      BY <3>1, <3>2
  <2>8. ASSUME NEW u \in Tasks, Unmoved(u)'
        PROVE  TaskWants(u)'
    <3>1. CASE u = t /\ ~LocalSuffices(t)
      <4>1. want'[t] = sha[e] /\ life'[t] = "Running" /\ e \in Kids
        BY <2>3, <2>8, <3>1 DEF Data, DataTypes, Unmoved
      <4> QED
        BY <2>2, <3>1, <4>1 DEF TaskWants
    <3>2. CASE /\ Unmoved(u) /\ sha'[u[2]] = sha[u[2]]
               /\ want'[u] = want[u] /\ net'[u] = net[u]
               /\ u = t \/ life'[u] = life[u]
      <4>1. TaskWants(u) /\ u[2] \in Entities /\ u[1] # None /\ u = <<u[1], u[2]>>
        BY <3>2, TaskShape, Families DEF Data
      <4>2. want[u] = 0 => u # t /\ cur'[u[2]] = u[1]
        BY <1>2, <4>1 DEF TaskWants, RunnersStay
      <4> QED
        BY <3>2, <4>1, <4>2 DEF TaskWants
    <3> QED
      BY <2>7, <2>8, <3>1, <3>2
  <2>9. ASSUME NEW u \in Tasks, Unmoved(u)', u[2] \notin doubtful'
        PROVE  TaskTrue(u)'
    <3>1. CASE u = t /\ ~LocalSuffices(t)
      <4>1. e \in Kids \ doubtful
        BY <2>9, <3>1 DEF Unmoved
      <4>2. status'[e] = "NotLoaded" /\ disk'[e] = 0
        BY <1>2, <2>1, <3>1, <4>1, AskedAfresh
      <4>3. net'[t] = "Posted"
        BY <2>3, <3>1 DEF Data, DataTypes
      <4> QED
        BY <3>1, <4>2, <4>3 DEF TaskTrue
    <3>2. CASE /\ Unmoved(u) /\ want'[u] = want[u] /\ net'[u] = net[u]
               /\ u[2] = e
      <4>1. /\ net[u] = "Landed" => disk'[e] # 0 /\ want[u] \in {0, content'[e]}
            /\ status'[e] # "NotLoaded" /\ fsha'[e] # 0 => want[u] = fsha'[e]
            /\ want[u] # 0 => disk'[e] \in {0, want[u]}
        BY <1>2, <2>1, <2>9, <3>2, LocalTask
      <4> QED
        BY <3>2, <4>1 DEF TaskTrue
    <3>3. CASE /\ Unmoved(u) /\ want'[u] = want[u] /\ net'[u] = net[u]
               /\ u[2] # e
      <4>1. TaskTrue(u) /\ u[2] \in Entities
        BY <2>9, <3>3, TaskShape DEF Data
      <4> QED
        BY <2>2, <3>3, <4>1 DEF TaskTrue
    <3> QED
      BY <2>7, <2>9, <3>1, <3>2, <3>3
  <2> QED
    BY <2>2, <2>4, <2>5, <2>6, <2>8, <2>9 DEF Data, Grows
<1> QED
  BY <1>1, <1>2
\* The end of a task is that of no other task.
LEMMA EndsLife ==
    ASSUME Data, NEW t \in Tasks, NEW ok \in BOOLEAN, Ends(t, ok)
    PROVE  /\ life' \in [Tasks -> {"Inactive", "Running", "Succeeded", "Failed", "Aborted"}]
           /\ \A u \in Tasks : u # t => life'[u] = life[u]
<1>1. life \in [Tasks -> {"Inactive", "Running", "Succeeded", "Failed", "Aborted"}]
  BY DEF Data, DataTypes
<1>2. life' = life \/ \E l \in {"Succeeded", "Failed"} : life' = [life EXCEPT ![t] = l]
  BY DEF Ends
<1> QED
  BY <1>1, <1>2

\* ParsingValidator: an answer is parsed and its file written.
LEMMA LandData ==
    ASSUME rev \in Nat, Data, NEW t \in Tasks, Land(t)
    PROVE  Data' /\ Grows
<1> DEFINE e == t[2]
<1>1. PICK r \in 1 .. rev : /\ want[t] \in {0, r} /\ Parse(e, r)
                            /\ disk' = [disk EXCEPT ![e] = r]
  BY DEF Land
<1>2. /\ net[t] \in {"Asking", "Stray"} /\ doubtful \subseteq doubtful'
      /\ t \in moved => e \in doubtful'
      /\ net' = [net EXCEPT ![t] = IF @ = "Asking" THEN "Landed" ELSE "Over"]
      /\ moved' = Tracked({})
      /\ UNCHANGED <<status, fsha, cur, life, want>>
  BY DEF Land, Doubt
<1>3. e \in Entities /\ r \in Nat \ {0}
  BY <1>1, TaskShape
<1>4. /\ content' \in [Entities -> Nat] /\ sha' \in [Entities -> Nat]
      /\ content'[e] = r /\ sha'[e] = sha[e]
      /\ \A x \in Entities : x # e => content'[x] = content[x]
      /\ Grows
      /\ \A x \in Entities : content'[x] # 0 => \A k \in Children(x) : sha'[k] # 0
  BY <1>1, <1>3, ParseFacts
<1>5. disk'[e] = r /\ \A x \in Entities : x # e => disk'[x] = disk[x]
  BY <1>1, <1>3 DEF Data, DataTypes
<1>6. /\ net'[t] \in {"Landed", "Over"}
      /\ \A u \in Tasks : u # t => net'[u] = net[u]
      /\ net' \in [Tasks -> {"None", "Over"} \cup InFlight]
  BY <1>2 DEF Data, DataTypes, InFlight
<1>7. DataTypes'
  <2>1. disk' \in [Entities -> Numbers]
    BY <1>1, <1>3 DEF Data, DataTypes, Numbers
  <2> QED
    BY <1>2, <1>4, <1>6, <2>1 DEF Data, DataTypes
<1>8. ReadFirst'
  <2>1. \A u \in Tasks : net'[u] = "Landed" => content'[u[2]] # 0
    BY <1>3, <1>4, <1>6, TaskShape DEF Data, ReadFirst, Grows
  <2>2. \A x \in Entities : status'[x] # "NotLoaded" => content'[x] # 0
    BY <1>2, <1>4 DEF Data, ReadFirst, Grows
  <2> QED
    BY <1>4, <2>1, <2>2 DEF ReadFirst
<1>9. ASSUME e \in Kids \ doubtful'
      PROVE  Unmoved(t) /\ TaskWants(t) /\ TaskTrue(t) /\ want[t] \in {0, r}
  <2>1. Unmoved(t) /\ e \notin doubtful
    BY <1>2, <1>9 DEF Unmoved, InFlight
  <2> QED
    BY <1>1, <2>1 DEF Data
<1>10. \A x \in Kids \ doubtful' : EntityTrue(x)'
  <2> SUFFICES ASSUME NEW x \in Kids \ doubtful'
               PROVE  EntityTrue(x)'
    OBVIOUS
  <2>1. CASE x = e
    <3>1. disk'[x] = r /\ content'[x] = r /\ r # 0
      BY <1>3, <1>4, <1>5, <2>1
    <3>2. status[e] # "NotLoaded" /\ fsha[e] # 0 => r = fsha[e]
      BY <1>9, <2>1 DEF TaskTrue
    <3> QED
      BY <1>2, <2>1, <3>1, <3>2 DEF EntityTrue
  <2>2. CASE x # e
    BY <1>2, <1>4, <1>5, <2>2, Families DEF Data, EntityTrue
  <2> QED
    BY <2>1, <2>2
<1>11. ASSUME NEW u \in Tasks, Unmoved(u)'
       PROVE  Unmoved(u) /\ TaskWants(u)'
  <2>1. net[u] \in InFlight
    BY <1>2, <1>6, <1>11 DEF Unmoved, InFlight
  <2>2. Unmoved(u) /\ sha'[u[2]] = sha[u[2]]
    BY <1>2, <1>11, <2>1, StaysUnmoved
  <2> QED
    BY <1>2, <2>2 DEF Data, TaskWants
<1>12. ASSUME NEW u \in Tasks, Unmoved(u)', u[2] \notin doubtful'
       PROVE  TaskTrue(u)'
  <2>1. Unmoved(u) /\ TaskWants(u) /\ TaskTrue(u) /\ u[2] \in Entities
    BY <1>2, <1>11, <1>12, TaskShape DEF Data
  <2>2. CASE u[2] = e
    <3>1. e \in Kids \ doubtful'
      BY <1>12, <2>2 DEF Unmoved
    <3>2. want[u] = want[t] /\ want[u] \in {0, r}
      BY <1>9, <2>1, <2>2, <3>1 DEF TaskWants
    <3> QED
      BY <1>2, <1>3, <1>4, <1>5, <2>1, <2>2, <3>2 DEF TaskTrue
  <2>3. CASE u[2] # e
    <3>1. u # t
      BY <2>3
    <3> QED
      BY <1>2, <1>4, <1>5, <1>6, <2>1, <2>3, <3>1 DEF TaskTrue
  <2> QED
    BY <2>2, <2>3
<1> QED
  BY <1>4, <1>7, <1>8, <1>10, <1>11, <1>12 DEF Data, Grows

\* FileSink::finalize: the answer is parsed, but its file cannot be written.
LEMMA LandUnsavedData ==
    ASSUME rev \in Nat, Data, NEW t \in Tasks, LandUnsaved(t)
    PROVE  Data' /\ Grows
<1> DEFINE e == t[2]
<1>1. PICK r \in 1 .. rev : Parse(e, r)
  BY DEF LandUnsaved
<1>2. /\ doubtful' = doubtful \cup {e} /\ moved' = Tracked({})
      /\ net' = [net EXCEPT ![t] = "Over"]
      /\ net[t] \in {"Asking", "Stray"}
      /\ Ends(t, FALSE)
      /\ UNCHANGED <<disk, status, fsha, cur, want>>
  BY DEF LandUnsaved
<1>3. e \in Entities /\ r \in Nat \ {0}
  BY <1>1, TaskShape
<1>4. /\ content' \in [Entities -> Nat] /\ sha' \in [Entities -> Nat]
      /\ content'[e] = r /\ sha'[e] = sha[e]
      /\ \A x \in Entities : x # e => content'[x] = content[x]
      /\ Grows
      /\ \A x \in Entities : content'[x] # 0 => \A k \in Children(x) : sha'[k] # 0
  BY <1>1, <1>3, ParseFacts
<1>5. /\ net'[t] = "Over" /\ \A u \in Tasks : u # t => net'[u] = net[u]
      /\ net' \in [Tasks -> {"None", "Over"} \cup InFlight]
  BY <1>2 DEF Data, DataTypes
<1>6. /\ life' \in [Tasks -> {"Inactive", "Running", "Succeeded", "Failed", "Aborted"}]
      /\ \A u \in Tasks : u # t => life'[u] = life[u]
  BY <1>2, EndsLife
<1>7. DataTypes'
  BY <1>2, <1>4, <1>5, <1>6 DEF Data, DataTypes
<1>8. ReadFirst'
  <2>1. \A u \in Tasks : net'[u] = "Landed" => content'[u[2]] # 0
    BY <1>4, <1>5, TaskShape DEF Data, ReadFirst, Grows
  <2>2. \A x \in Entities : status'[x] # "NotLoaded" => content'[x] # 0
    BY <1>2, <1>4 DEF Data, ReadFirst, Grows
  <2> QED
    BY <1>4, <2>1, <2>2 DEF ReadFirst
<1>9. \A x \in Kids \ doubtful' : EntityTrue(x)'
  BY <1>2, <1>4, Families DEF Data, EntityTrue
<1>10. ASSUME NEW u \in Tasks, Unmoved(u)'
       PROVE  u # t /\ Unmoved(u) /\ TaskWants(u)'
  <2>1. u # t
    BY <1>5, <1>10 DEF Unmoved, InFlight
  <2>2. net[u] \in InFlight
    BY <1>5, <1>10, <2>1 DEF Unmoved
  <2>3. Unmoved(u) /\ sha'[u[2]] = sha[u[2]]
    BY <1>2, <1>10, <2>2, StaysUnmoved
  <2> QED
    BY <1>2, <1>6, <2>1, <2>3 DEF Data, TaskWants
<1>11. ASSUME NEW u \in Tasks, Unmoved(u)', u[2] \notin doubtful'
       PROVE  TaskTrue(u)'
  <2>1. u # t /\ TaskTrue(u) /\ u[2] # e /\ u[2] \in Entities
    BY <1>2, <1>10, <1>11, TaskShape DEF Data
  <2> QED
    BY <1>2, <1>4, <1>5, <2>1 DEF TaskTrue
<1> QED
  BY <1>4, <1>7, <1>8, <1>9, <1>10, <1>11 DEF Data, Grows

\* The NetJob of a load task succeeds.
LEMMA FinishData ==
    ASSUME Data, NEW t \in Tasks, Finish(t)
    PROVE  Data' /\ Grows
<1> DEFINE e == t[2]
<1>1. /\ net[t] = "Landed" /\ net' = [net EXCEPT ![t] = "Over"]
      /\ status' = [status EXCEPT ![e] = "Remote"]
      /\ fsha' = [fsha EXCEPT ![e] = sha[e]]
      /\ doubtful \subseteq doubtful'
      /\ t \in moved => e \in doubtful'
      /\ Ends(t, TRUE)
      /\ UNCHANGED <<disk, sha, content, moved, cur, want>>
  BY DEF Finish, Doubt
<1>2. e \in Entities /\ content[e] # 0
  BY <1>1, TaskShape DEF Data, ReadFirst
<1>3. /\ net'[t] = "Over" /\ \A u \in Tasks : u # t => net'[u] = net[u]
      /\ net' \in [Tasks -> {"None", "Over"} \cup InFlight]
  BY <1>1 DEF Data, DataTypes
<1>4. /\ life' \in [Tasks -> {"Inactive", "Running", "Succeeded", "Failed", "Aborted"}]
      /\ \A u \in Tasks : u # t => life'[u] = life[u]
  BY <1>1, EndsLife
<1>5. /\ status' \in [Entities -> {"NotLoaded", "Local", "Remote"}]
      /\ fsha' \in [Entities -> Numbers]
      /\ fsha'[e] = sha[e]
      /\ \A x \in Entities : x # e => status'[x] = status[x] /\ fsha'[x] = fsha[x]
  BY <1>1, <1>2 DEF Data, DataTypes, Numbers
<1>6. DataTypes'
  BY <1>1, <1>3, <1>4, <1>5 DEF Data, DataTypes
<1>7. ReadFirst' /\ Grows
  <2>1. \A u \in Tasks : net'[u] = "Landed" => content'[u[2]] # 0
    BY <1>1, <1>3 DEF Data, ReadFirst
  <2>2. \A x \in Entities : status'[x] # "NotLoaded" => content'[x] # 0
    BY <1>1, <1>2, <1>5 DEF Data, ReadFirst
  <2> QED
    BY <1>1, <2>1, <2>2 DEF Data, ReadFirst, Grows
<1>8. ASSUME e \in Kids \ doubtful'
      PROVE  Unmoved(t) /\ TaskWants(t) /\ TaskTrue(t) /\ EntityTrue(e)
  <2>1. Unmoved(t) /\ e \notin doubtful
    BY <1>1, <1>8 DEF Unmoved, InFlight
  <2> QED
    BY <1>8, <2>1 DEF Data
<1>9. \A x \in Kids \ doubtful' : EntityTrue(x)'
  <2> SUFFICES ASSUME NEW x \in Kids \ doubtful'
               PROVE  EntityTrue(x)'
    OBVIOUS
  <2>1. CASE x = e
    BY <1>1, <1>5, <1>8, <2>1 DEF EntityTrue, TaskTrue, TaskWants
  <2>2. CASE x # e
    BY <1>1, <1>5, <2>2, Families DEF Data, EntityTrue
  <2> QED
    BY <2>1, <2>2
<1>10. ASSUME NEW u \in Tasks, Unmoved(u)'
       PROVE  u # t /\ Unmoved(u) /\ TaskWants(u)'
  <2>1. u # t
    BY <1>3, <1>10 DEF Unmoved, InFlight
  <2>2. Unmoved(u)
    BY <1>1, <1>3, <1>10, <2>1 DEF Unmoved
  <2> QED
    BY <1>1, <1>4, <2>1, <2>2 DEF Data, TaskWants
<1>11. ASSUME NEW u \in Tasks, Unmoved(u)', u[2] \notin doubtful'
       PROVE  TaskTrue(u)'
  <2>1. u # t /\ Unmoved(u) /\ TaskWants(u) /\ TaskTrue(u) /\ u[2] \in Entities
    BY <1>1, <1>10, <1>11, TaskShape DEF Data
  <2>2. CASE u[2] = e
    BY <1>1, <1>3, <1>5, <2>1, <2>2 DEF TaskTrue, TaskWants
  <2>3. CASE u[2] # e
    BY <1>1, <1>3, <1>5, <2>1, <2>3 DEF TaskTrue
  <2> QED
    BY <2>2, <2>3
<1> QED
  BY <1>6, <1>7, <1>9, <1>10, <1>11 DEF Data, Grows

\* The request is made, or it brings no answer.
LEMMA AskOrLoseData ==
    ASSUME Data, NEW t \in Tasks, Ask(t) \/ Lose(t)
    PROVE  Data' /\ Grows
<1>1. CASE Ask(t)
  <2>1. /\ net' \in [Tasks -> {"None", "Over"} \cup InFlight]
        /\ net[t] = "Posted" /\ net'[t] = "Asking" /\ \A u \in Tasks : u # t => net'[u] = net[u]
    BY <1>1 DEF Ask, Data, DataTypes, InFlight
  <2>2. UNCHANGED <<disk, sha, status, fsha, content, moved, doubtful, cur, want, life>>
    BY <1>1 DEF Ask, entityVars
  <2>3. DataTypes'
    BY <2>1, <2>2 DEF Data, DataTypes
  <2> QED
    BY <2>1, <2>2, <2>3, TaskChanges DEF InFlight
<1>2. CASE Lose(t)
  <2>1. /\ net' \in [Tasks -> {"None", "Over"} \cup InFlight]
        /\ net'[t] = "Over" /\ \A u \in Tasks : u # t => net'[u] = net[u]
    BY <1>2 DEF Lose, Data, DataTypes
  <2>2. UNCHANGED <<disk, sha, status, fsha, content, moved, doubtful, cur, want>>
    BY <1>2 DEF Lose, entityVars
  <2>3. /\ life' \in [Tasks -> {"Inactive", "Running", "Succeeded", "Failed", "Aborted"}]
        /\ \A u \in Tasks : u # t => life'[u] = life[u]
    BY <1>2, EndsLife DEF Lose
  <2>4. DataTypes'
    BY <2>1, <2>2, <2>3 DEF Data, DataTypes
  <2> QED
    BY <2>1, <2>2, <2>3, <2>4, TaskChanges DEF InFlight
<1> QED
  BY <1>1, <1>2

-----------------------------------------------------------------------------
(* What each step does to the jobs. *)

\* An entity of a job's course, and the next one when it has been read.
LEMMA CourseFacts ==
    ASSUME JobTypes, NEW j \in Jobs, JobTrue(j), j \notin offline, phase[j] # "Idle",
           doing[j] # None
    PROVE  /\ <<uses[j][doing[j]], doing[j]>> \in Tasks
           /\ doing[j] \in Kids => sha[doing[j]] # 0
<1>1. doing[j] \in Entities /\ uses[j][doing[j]] \in Jobs
  BY DEF JobTypes, JobTrue, Supplied
<1>2. Course(j)
  BY DEF JobTrue
<1>3. doing[j] \in Kids => sha[doing[j]] # 0
  BY <1>2, Families DEF Course
<1> QED
  BY <1>1, <1>3, TaskShape

\* Only between two tasks, or before the first, a job does nothing.
LEMMA InCourse ==
    ASSUME NEW j \in Jobs, JobTrue(j), j \notin offline, phase[j] \in {"Start", "Wait", "Late"}
    PROVE  doing[j] # None
<1>1. target[j] \in Versions /\ Course(j)
  BY DEF JobTrue
<1>2. None \notin {Index, ListOf[target[j]], target[j]}
  BY <1>1, Families DEF Kids
<1> QED
  BY <1>1, <1>2 DEF Course

\* A job that stays where it is, or that moves on in the event loop after what it
\* did was read, stays true.
LEMMA JobKeeps ==
    ASSUME JobTypes, NEW j \in Jobs, JobTrue(j), Grows,
           offline' = offline, target'[j] = target[j], plan'[j] = plan[j],
           doing'[j] = doing[j], uses'[j] = uses[j],
           j \in offline => phase'[j] \in {"Idle", "Wait", "Over"},
           phase'[j] = "Idle" <=> phase[j] = "Idle",
           doing[j] = None /\ phase[j] \in {"Wake", "Over"} => phase'[j] \in {"Wake", "Over"},
           j \notin offline /\ doing[j] # None /\ phase'[j] \in {"Wake", "Late"}
               /\ outcome'[j] = "None" => content'[doing[j]] # 0
    PROVE  JobTrue(j)'
<1>1. CASE j \in offline \/ phase[j] = "Idle"
  BY <1>1 DEF JobTrue
<1>2. CASE j \notin offline /\ phase[j] # "Idle"
  <2>1. target[j] \in Versions /\ Course(j) /\ Supplied(j)
    BY <1>2 DEF JobTrue
  <2>2. \A e \in {target[j], ListOf[target[j]]} : sha[e] # 0 => sha'[e] # 0
    BY <2>1, Families DEF Grows, Kids
  <2>3. Course(j)'
    BY <2>1, <2>2 DEF Course
  <2>4. Supplied(j)'
    BY <2>1 DEF Supplied
  <2>5. GoesOn(j)'
    BY <1>2 DEF GoesOn
  <2> QED
    BY <1>2, <2>1, <2>3, <2>4, <2>5 DEF JobTrue
<1> QED
  BY <1>1, <1>2

\* The event loop's places `at' before the jobs that listen hear something: a job
\* has at most gone on to wait, or to its next wakeup, for its task has started.
Moved(at) ==
    /\ at \in [Jobs -> Phases]
    /\ \A k \in Jobs : at[k] # phase[k] =>
          /\ k \notin offline /\ phase[k] \in {"Start", "Late"}
          /\ at[k] \in {"Wait", "Wake", "Over"}
          /\ at[k] = "Wake" => phase[k] = "Late" /\ outcome[k] = "None"

courseVars == <<offline, target, plan, doing, uses>>

\* The jobs hear that the task t has ended, or nothing.
LEMMA JobsHear ==
    ASSUME JobTypes, \A j \in Jobs : JobTrue(j), Grows, UNCHANGED courseVars,
           NEW t \in Tasks, NEW at, Moved(at),
           \/ phase' = at /\ outcome' = outcome
           \/ \E ok \in BOOLEAN : /\ Notify(Listeners(t), at, ok)
                                  /\ ok => content'[t[2]] # 0
    PROVE  JobTypes' /\ \A j \in Jobs : JobTrue(j)'
<1>1. JobTypes'
  <2>1. phase' \in [Jobs -> Phases] /\ outcome' \in [Jobs -> Outcomes]
    <3>1. CASE phase' = at /\ outcome' = outcome
      BY <3>1 DEF Moved, JobTypes
    <3>2. ASSUME NEW ok \in BOOLEAN, Notify(Listeners(t), at, ok)
          PROVE  phase' \in [Jobs -> Phases] /\ outcome' \in [Jobs -> Outcomes]
      BY <3>2 DEF Notify, Moved, JobTypes, Phases, Outcomes
    <3> QED
      BY <3>1, <3>2
  <2> QED
    BY <2>1 DEF JobTypes, courseVars
<1>2. ASSUME NEW j \in Jobs
      PROVE  JobTrue(j)'
  <2>1. /\ JobTrue(j) /\ at[j] \in Phases /\ phase[j] \in Phases
        /\ at[j] # phase[j] =>
              /\ j \notin offline /\ phase[j] \in {"Start", "Late"}
              /\ at[j] \in {"Wait", "Wake", "Over"}
              /\ at[j] = "Wake" => phase[j] = "Late" /\ outcome[j] = "None"
    BY DEF Moved, JobTypes
  <2>2. doing[j] = None => j \in offline \/ phase[j] \in {"Idle", "Wake", "Over"}
    BY <2>1, Families DEF JobTrue, Course
  <2>3. j \notin offline /\ doing[j] # None /\ outcome[j] = "None"
            /\ phase[j] \in {"Wake", "Late"} => content'[doing[j]] # 0
    BY <2>1 DEF JobTrue, GoesOn, Grows, JobTypes
  <2>4. CASE phase'[j] = at[j] /\ outcome'[j] = outcome[j]
    BY <2>1, <2>2, <2>3, <2>4, JobKeeps DEF JobTrue, courseVars, Phases
  <2>5. ASSUME NEW ok \in BOOLEAN, Notify(Listeners(t), at, ok), ok => content'[t[2]] # 0
        PROVE  JobTrue(j)'
    <3>1. CASE j \notin Listeners(t)
      <4>1. phase'[j] = at[j] /\ outcome'[j] = outcome[j]
        BY <2>5, <3>1 DEF Notify
      <4> QED
        BY <2>4, <4>1
    <3>2. CASE j \in Listeners(t)
      <4>1. /\ phase[j] \in {"Start", "Wait"} /\ outcome[j] = "None" /\ doing[j] = t[2]
            /\ t[2] \in Entities /\ doing[j] # None
        BY <3>2, TaskShape, Families DEF Listeners
      <4>2. /\ phase'[j] = IF at[j] = "Start" THEN "Late"
                           ELSE IF ok /\ j \notin offline THEN "Wake" ELSE "Over"
            /\ outcome'[j] = IF ~ok THEN "Failed"
                             ELSE IF j \in offline THEN "Succeeded" ELSE outcome[j]
        BY <2>5, <3>2 DEF Notify
      <4>3. j \in offline => phase'[j] = "Over"
        BY <2>1, <4>1, <4>2 DEF JobTrue
      <4>4. phase'[j] # "Idle" /\ phase[j] # "Idle"
        BY <4>1, <4>2
      <4>5. outcome'[j] = "None" => content'[doing[j]] # 0
        BY <2>5, <4>1, <4>2
      <4> QED
        BY <2>1, <4>1, <4>3, <4>4, <4>5, JobKeeps DEF courseVars
    <3> QED
      BY <3>1, <3>2
  <2> QED
    BY <2>4, <2>5
<1> QED
  BY <1>1, <1>2

\* The end of a task, heard by the jobs that listen.
LEMMA EndsJobs ==
    ASSUME JobTypes, \A j \in Jobs : JobTrue(j), Grows, UNCHANGED courseVars,
           NEW t \in Tasks, NEW ok \in BOOLEAN, Ends(t, ok), ok => content'[t[2]] # 0
    PROVE  JobTypes' /\ \A j \in Jobs : JobTrue(j)'
<1>1. Moved(phase)
  BY DEF Moved, JobTypes
<1> QED
  BY <1>1, JobsHear DEF Ends

-----------------------------------------------------------------------------
(* The steps. *)

\* A job asks for an entity's task: the one that runs, or one of its own.
LEMMA OwnerFacts ==
    ASSUME Data, NEW j \in Jobs, NEW e \in Entities
    PROVE  /\ TaskOwner(j, e) \in Jobs
           /\ cur[e] # None /\ life[<<cur[e], e>>] = "Running" => TaskOwner(j, e) = cur[e]
           /\ life[<<TaskOwner(j, e), e>>] # "Running" =>
                 /\ TaskOwner(j, e) = j
                 /\ ~(cur[e] # None /\ life[<<cur[e], e>>] = "Running")
  BY DEF Data, DataTypes, TaskOwner

LEMMA GivenFacts ==
    ASSUME Data, JobTypes, NEW j \in Jobs, NEW es \in SUBSET Entities, Given(j, es)
    PROVE  /\ cur' \in [Entities -> Jobs \cup {None}] /\ RunnersStay
           /\ \A e \in es : cur'[e] = TaskOwner(j, e)
           /\ uses' \in [Jobs -> [Entities -> Jobs \cup {None}]]
           /\ \A e \in es : uses'[j][e] \in Jobs
           /\ \A k \in Jobs : k # j => uses'[k] = uses[k]
<1> DEFINE given == [e \in Entities |-> IF e \in es THEN TaskOwner(j, e) ELSE None]
<1>1. /\ uses' = [uses EXCEPT ![j] = given]
      /\ cur' = [e \in Entities |-> IF e \in es THEN TaskOwner(j, e) ELSE cur[e]]
      /\ cur \in [Entities -> Jobs \cup {None}]
      /\ uses \in [Jobs -> [Entities -> Jobs \cup {None}]]
  BY DEF Given, Data, DataTypes, JobTypes
<1>2. given \in [Entities -> Jobs \cup {None}] /\ \A e \in es : given[e] \in Jobs
  BY OwnerFacts
<1>3. /\ cur' \in [Entities -> Jobs \cup {None}]
      /\ \A e \in es : cur'[e] = TaskOwner(j, e)
  BY <1>1, OwnerFacts
<1>4. RunnersStay
  BY <1>1, OwnerFacts DEF RunnersStay
<1> HIDE DEF given
<1>5. /\ uses' \in [Jobs -> [Entities -> Jobs \cup {None}]]
      /\ uses'[j] = given /\ \A k \in Jobs : k # j => uses'[k] = uses[k]
  BY <1>1, <1>2
<1> QED
  BY <1>2, <1>3, <1>4, <1>5

\* An online job is asked for: the index first, unless it was downloaded before.
LEMMA LoadVersionInv ==
    ASSUME Inv, NEW j \in Jobs, LoadVersion(j)
    PROVE  Inv'
<1> DEFINE Es(v) == IF status[Index] # "Remote" THEN <<Index, ListOf[v], v>>
                    ELSE <<ListOf[v], v>>
<1>1. PICK v \in Versions :
          /\ target' = [target EXCEPT ![j] = v]
          /\ plan' = [plan EXCEPT ![j] = Es(v)]
          /\ Given(j, {Es(v)[i] : i \in DOMAIN Es(v)})
  BY DEF LoadVersion
<1>2. /\ j \notin offline /\ phase[j] = "Idle" /\ phase' = [phase EXCEPT ![j] = "Wake"]
      /\ UNCHANGED <<rev, offline, doing, outcome>> /\ UNCHANGED dataVars
  BY DEF LoadVersion, entityVars, dataVars
<1> DEFINE l == ListOf[v]
           es == {Es(v)[i] : i \in DOMAIN Es(v)}
<1>4. l \in Entities /\ v \in Entities /\ Index \in Entities /\ l \in Lists
  BY Families DEF Kids
<1>3. \/ Es(v) = <<Index, l, v>>
      \/ Es(v) = <<l, v>> /\ status[Index] = "Remote"
  OBVIOUS
<1>5. Es(v) \in Seq(Entities) /\ es \in SUBSET Entities
  <2>1. CASE Es(v) = <<Index, l, v>>
    BY <1>4, <2>1
  <2>2. CASE Es(v) = <<l, v>>
    BY <1>4, <2>2
  <2> QED
    BY <1>3, <2>1, <2>2
<1>6. sha[l] # 0 \/ Es(v) = <<Index, l, v>>
  BY <1>3, <1>4, Families DEF Inv, Data, ReadFirst
<1>7. \A i \in DOMAIN Es(v) : Es(v)[i] \in es
  OBVIOUS
<1> HIDE DEF Es, es, l
<1>8. /\ cur' \in [Entities -> Jobs \cup {None}] /\ RunnersStay
      /\ uses' \in [Jobs -> [Entities -> Jobs \cup {None}]]
      /\ \A e \in es : uses'[j][e] \in Jobs
      /\ \A k \in Jobs : k # j => uses'[k] = uses[k]
  BY <1>1, <1>5, GivenFacts DEF Inv, es
<1>9. Data' /\ Grows
  BY <1>2, <1>8, OwnersChange DEF Inv
<1>10. JobTypes'
  BY <1>1, <1>2, <1>5, <1>8 DEF Inv, JobTypes, Phases
<1>11. ASSUME NEW k \in Jobs, k # j
       PROVE  JobTrue(k)'
  <2>1. /\ target'[k] = target[k] /\ plan'[k] = plan[k] /\ uses'[k] = uses[k]
        /\ phase'[k] = phase[k] /\ doing'[k] = doing[k] /\ outcome'[k] = outcome[k]
    BY <1>1, <1>2, <1>8, <1>11 DEF Inv, JobTypes
  <2>2. JobTypes /\ JobTrue(k) /\ (doing[k] # None => doing[k] \in Entities)
    BY DEF Inv, JobTypes
  <2>3. k \notin offline /\ doing[k] # None /\ phase'[k] \in {"Wake", "Late"}
             /\ outcome'[k] = "None" => content'[doing[k]] # 0
    BY <1>9, <2>1, <2>2 DEF JobTrue, GoesOn, Grows
  <2> QED
    BY <1>2, <1>9, <2>1, <2>2, <2>3, JobKeeps DEF JobTrue
<1>12. JobTrue(j)'
  <2>1. /\ target'[j] = v /\ plan'[j] = Es(v) /\ phase'[j] = "Wake" /\ doing'[j] = None
    BY <1>1, <1>2 DEF Inv, JobTypes, JobTrue
  <2>2. sha[l] # 0 => sha'[l] # 0
    BY <1>4, <1>9 DEF Grows
  <2>3. Course(j)'
    BY <1>3, <1>6, <2>1, <2>2 DEF Course, l
  <2>4. Supplied(j)'
    BY <1>7, <1>8, <2>1 DEF Supplied
  <2> QED
    BY <1>2, <2>1, <2>3, <2>4 DEF JobTrue, GoesOn
<1> QED
  BY <1>2, <1>9, <1>10, <1>11, <1>12 DEF Inv

LEMMA LoadOfflineInv ==
    ASSUME Inv, NEW j \in Jobs, LoadOffline(j)
    PROVE  Inv'
<1>1. PICK v \in Versions :
          /\ target' = [target EXCEPT ![j] = v]
          /\ doing' = [doing EXCEPT ![j] = v]
          /\ Given(j, {v})
          /\ Execute(<<TaskOwner(j, v), v>>, {j}, [phase EXCEPT ![j] = "Wait"])
  BY DEF LoadOffline
<1> DEFINE t == <<TaskOwner(j, v), v>>
<1>2. /\ phase[j] = "Idle" /\ j \in offline
      /\ UNCHANGED <<rev, doubtful, offline, plan>>
  BY DEF LoadOffline
<1>3. v \in Entities
  BY Families DEF Kids
<1>4. /\ TaskOwner(j, v) \in Jobs
      /\ cur[v] # None /\ life[<<cur[v], v>>] = "Running" => TaskOwner(j, v) = cur[v]
      /\ life[t] # "Running" => TaskOwner(j, v) = j
                                /\ ~(cur[v] # None /\ life[<<cur[v], v>>] = "Running")
  BY <1>3, OwnerFacts DEF Inv
<1>5. t \in Tasks /\ t[1] = TaskOwner(j, v) /\ t[2] = v
  BY <1>3, <1>4, TaskShape
<1>6. /\ cur' \in [Entities -> Jobs \cup {None}] /\ RunnersStay
      /\ cur'[v] = TaskOwner(j, v)
      /\ uses' \in [Jobs -> [Entities -> Jobs \cup {None}]]
      /\ \A k \in Jobs : k # j => uses'[k] = uses[k]
  BY <1>1, <1>3, GivenFacts DEF Inv
<1>7. SoleIfUnknown(t)
  BY <1>2, <1>4, <1>5 DEF SoleIfUnknown
<1>8. Data' /\ Grows
  BY <1>1, <1>2, <1>5, <1>6, <1>7, ExecuteData DEF Inv
<1>9. /\ phase' \in [Jobs -> Phases] /\ outcome' \in [Jobs -> Outcomes]
      /\ phase'[j] \in {"Wait", "Over"}
      /\ \A k \in Jobs : k # j => phase'[k] = phase[k] /\ outcome'[k] = outcome[k]
  <2>1. phase \in [Jobs -> Phases] /\ outcome \in [Jobs -> Outcomes]
    BY DEF Inv, JobTypes
  <2> DEFINE at == [phase EXCEPT ![j] = "Wait"]
  <2>2. at \in [Jobs -> Phases] /\ at[j] = "Wait" /\ \A k \in Jobs : k # j => at[k] = phase[k]
    BY <2>1 DEF Phases
  <2>3. (phase' = at /\ outcome' = outcome) \/ Notify({j}, at, TRUE)
    BY <1>1 DEF Execute
  <2> HIDE DEF at
  <2>4. CASE phase' = at /\ outcome' = outcome
    BY <2>1, <2>2, <2>4
  <2>5. CASE Notify({j}, at, TRUE)
    BY <1>2, <2>1, <2>2, <2>5 DEF Notify, Phases, Outcomes
  <2> QED
    BY <2>3, <2>4, <2>5
<1>10. JobTypes'
  BY <1>1, <1>2, <1>3, <1>6, <1>9 DEF Inv, JobTypes
<1>11. ASSUME NEW k \in Jobs, k # j
       PROVE  JobTrue(k)'
  <2>1. /\ target'[k] = target[k] /\ plan'[k] = plan[k] /\ uses'[k] = uses[k]
        /\ phase'[k] = phase[k] /\ doing'[k] = doing[k] /\ outcome'[k] = outcome[k]
    BY <1>1, <1>2, <1>6, <1>9, <1>11 DEF Inv, JobTypes
  <2>2. JobTypes /\ JobTrue(k) /\ (doing[k] # None => doing[k] \in Entities)
    BY DEF Inv, JobTypes
  <2>3. k \notin offline /\ doing[k] # None /\ phase'[k] \in {"Wake", "Late"}
             /\ outcome'[k] = "None" => content'[doing[k]] # 0
    BY <1>8, <2>1, <2>2 DEF JobTrue, GoesOn, Grows
  <2> QED
    BY <1>2, <1>8, <2>1, <2>2, <2>3, JobKeeps DEF JobTrue
<1>12. JobTrue(j)'
  BY <1>2, <1>9 DEF JobTrue
<1> QED
  BY <1>2, <1>8, <1>10, <1>11, <1>12 DEF Inv

LEMMA WakeInv ==
    ASSUME Inv, NEW j \in Jobs, Wake(j)
    PROVE  Inv'
<1>1. /\ phase[j] = "Wake" /\ UNCHANGED <<rev, offline, target, uses, cur>>
      /\ UNCHANGED dataVars
  BY DEF Wake, entityVars, taskVars, dataVars
<1>2. JobTrue(j) /\ j \notin offline /\ JobTypes
  BY <1>1 DEF Inv, JobTrue
<1>3. /\ target[j] \in Versions /\ Course(j) /\ Supplied(j) /\ GoesOn(j)
  BY <1>1, <1>2 DEF JobTrue
<1>4. Data' /\ Grows
  BY <1>1, OwnersChange DEF Inv, Data, DataTypes, RunnersStay
<1>5. CASE outcome[j] = "None" /\ plan[j] # <<>>
  <2>1. /\ doing' = [doing EXCEPT ![j] = Head(plan[j])]
        /\ plan' = [plan EXCEPT ![j] = Tail(plan[j])]
        /\ phase' = [phase EXCEPT ![j] = "Start"] /\ outcome' = outcome
    BY <1>5 DEF Wake
  <2> DEFINE v == target[j]
             l == ListOf[target[j]]
  <2>2. /\ l \in Lists /\ l \in Entities /\ v \in Entities /\ l # Index /\ Index \in Entities
        /\ v \in Children(l) /\ l \in Children(Index)
    BY <1>3, Families DEF Kids
  <2>3. doing[j] # None => content[doing[j]] # 0
    BY <1>1, <1>3, <1>5 DEF GoesOn
  <2>4. \/ Head(plan[j]) = Index /\ Tail(plan[j]) = <<l, v>>
        \/ Head(plan[j]) = l /\ Tail(plan[j]) = <<v>> /\ sha[l] # 0
        \/ Head(plan[j]) = v /\ Tail(plan[j]) = <<>> /\ sha[v] # 0
    <3>1. \A e \in Entities : content[e] # 0 => \A k \in Children(e) : sha[k] # 0
      BY DEF Inv, Data, ReadFirst
    <3>2. CASE plan[j] = <<Index, l, v>>
      BY <3>2
    <3>3. CASE plan[j] = <<l, v>>
      <4>1. plan[j] # <<Index, l, v>> /\ plan[j] # <<v>> /\ plan[j] # <<>>
        BY <3>3
      <4>2. sha[l] # 0 \/ doing[j] = Index
        BY <1>3, <4>1 DEF Course
      <4>3. doing[j] = Index => sha[l] # 0
        BY <2>2, <2>3, <3>1, Families
      <4> QED
        BY <3>3, <4>2, <4>3
    <3>4. CASE plan[j] = <<v>>
      <4>1. doing[j] = l
        BY <1>3, <3>4 DEF Course
      <4>2. sha[v] # 0
        BY <2>2, <2>3, <3>1, <4>1, Families
      <4> QED
        BY <3>4, <4>2
    <3> QED
      BY <1>3, <1>5, <3>2, <3>3, <3>4 DEF Course
  <2>5. /\ Head(plan[j]) \in Entities /\ Tail(plan[j]) \in Seq(Entities)
        /\ uses[j][Head(plan[j])] \in Jobs
        /\ \A i \in DOMAIN Tail(plan[j]) : uses[j][Tail(plan[j])[i]] \in Jobs
    <3>1. plan[j] \in Seq(Entities) /\ plan[j] # <<>>
      BY <1>2, <1>5 DEF JobTypes
    <3>2. 1 \in DOMAIN plan[j] /\ Head(plan[j]) = plan[j][1]
      BY <3>1
    <3>3. \A i \in DOMAIN Tail(plan[j]) : i + 1 \in DOMAIN plan[j]
                                          /\ Tail(plan[j])[i] = plan[j][i + 1]
      BY <3>1
    <3> QED
      BY <1>3, <3>1, <3>2, <3>3 DEF Supplied
  <2>6. JobTypes'
    BY <1>1, <1>2, <2>1, <2>5 DEF JobTypes, Phases
  <2>7. JobTrue(j)'
    <3>1. /\ doing'[j] = Head(plan[j]) /\ plan'[j] = Tail(plan[j]) /\ phase'[j] = "Start"
          /\ target'[j] = v /\ uses'[j] = uses[j] /\ sha' = sha
      BY <1>1, <1>2, <2>1 DEF JobTypes, dataVars
    <3>2. Course(j)'
      BY <2>4, <3>1 DEF Course
    <3>3. Supplied(j)'
      BY <2>5, <3>1 DEF Supplied
    <3> QED
      BY <1>1, <1>2, <1>3, <3>1, <3>2, <3>3 DEF JobTrue, GoesOn
  <2>8. ASSUME NEW k \in Jobs, k # j
        PROVE  JobTrue(k)'
    <3>1. /\ target'[k] = target[k] /\ plan'[k] = plan[k] /\ uses'[k] = uses[k]
          /\ phase'[k] = phase[k] /\ doing'[k] = doing[k] /\ outcome'[k] = outcome[k]
          /\ sha' = sha /\ content' = content /\ offline' = offline
      BY <1>1, <1>2, <2>1, <2>8 DEF JobTypes, dataVars
    <3> QED
      BY <3>1 DEF Inv, JobTrue, Course, Supplied, GoesOn
  <2> QED
    BY <1>1, <1>4, <2>6, <2>7, <2>8 DEF Inv
<1>6. CASE ~(outcome[j] = "None" /\ plan[j] # <<>>)
  <2>1. /\ outcome' = [outcome EXCEPT ![j] = IF @ = "None" THEN "Succeeded" ELSE @]
        /\ phase' = [phase EXCEPT ![j] = "Over"]
        /\ UNCHANGED <<doing, plan>>
    BY <1>6 DEF Wake
  <2>2. JobTypes'
    BY <1>1, <1>2, <2>1 DEF JobTypes, Phases, Outcomes
  <2>3. ASSUME NEW k \in Jobs
        PROVE  JobTrue(k)'
    <3>1. JobTrue(k) /\ (doing[k] # None => doing[k] \in Entities)
      BY <1>2 DEF Inv, JobTypes
    <3>2. IF k = j THEN phase'[k] = "Over"
                   ELSE phase'[k] = phase[k] /\ outcome'[k] = outcome[k]
      BY <1>2, <2>1 DEF JobTypes
    <3>3. k \notin offline /\ doing[k] # None /\ phase'[k] \in {"Wake", "Late"}
               /\ outcome'[k] = "None" => content'[doing[k]] # 0
      BY <1>4, <3>1, <3>2 DEF JobTrue, GoesOn, Grows
    <3> QED
      BY <1>1, <1>2, <1>4, <2>1, <3>1, <3>2, <3>3, JobKeeps DEF JobTrue
  <2> QED
    BY <1>1, <1>4, <2>2, <2>3 DEF Inv
<1> QED
  BY <1>5, <1>6

\* The posted start() of a task: what it finds on disk may end it at once.
LEMMA StartTaskInv ==
    ASSUME Inv, NEW j \in Jobs, StartTask(j)
    PROVE  Inv'
<1> DEFINE t == <<uses[j][doing[j]], doing[j]>>
           next == IF phase[j] = "Start" THEN "Wait"
                   ELSE IF outcome[j] = "None" THEN "Wake" ELSE "Over"
           at == [phase EXCEPT ![j] = next]
<1>1. /\ phase[j] \in {"Start", "Late"} /\ Execute(t, Listeners(t), at)
      /\ UNCHANGED <<rev, doubtful, cur>> /\ UNCHANGED courseVars
  BY DEF StartTask, courseVars
<1>2. Data /\ JobTypes /\ JobTrue(j) /\ j \notin offline /\ doing[j] # None
  <2>1. Data /\ JobTypes /\ JobTrue(j)
    BY DEF Inv
  <2>2. j \notin offline
    BY <1>1, <2>1 DEF JobTrue
  <2> QED
    BY <1>1, <2>1, <2>2, InCourse
<1>3. t \in Tasks /\ t[2] = doing[j] /\ (t[2] \in Kids => sha[t[2]] # 0)
  BY <1>1, <1>2, CourseFacts
<1>4. Moved(at)
  <2>1. phase \in [Jobs -> Phases] /\ next \in Phases /\ next \in {"Wait", "Wake", "Over"}
        /\ (next = "Wake" => phase[j] = "Late" /\ outcome[j] = "None")
    BY <1>1, <1>2 DEF JobTypes, Phases
  <2> HIDE DEF next
  <2>2. /\ at \in [Jobs -> Phases] /\ at[j] = next
        /\ \A k \in Jobs : k # j => at[k] = phase[k]
    BY <2>1
  <2> QED
    BY <1>1, <1>2, <2>1, <2>2 DEF Moved
<1> HIDE DEF t, at
<1>5. Data' /\ Grows
  <2>1. SoleIfUnknown(t)
    BY <1>3 DEF SoleIfUnknown
  <2>2. cur' \in [Entities -> Jobs \cup {None}] /\ RunnersStay
    BY <1>1, <1>2 DEF Data, DataTypes, RunnersStay
  <2> QED
    BY <1>1, <1>2, <1>3, <2>1, <2>2, ExecuteData
<1>6. \/ phase' = at /\ outcome' = outcome
      \/ ReadLocal(t) /\ LocalSuffices(t) /\ Notify(Listeners(t), at, TRUE)
  BY <1>1 DEF Execute
<1>7. CASE ReadLocal(t) /\ LocalSuffices(t) /\ Notify(Listeners(t), at, TRUE)
  <2>1. content'[t[2]] # 0
    BY <1>2, <1>3, <1>7, SufficesIsRead, LocalRead, TaskShape
  <2>2. \E ok \in BOOLEAN : Notify(Listeners(t), at, ok) /\ (ok => content'[t[2]] # 0)
    BY <1>7, <2>1
  <2> QED
    BY <1>1, <1>3, <1>4, <1>5, <2>2, JobsHear DEF Inv
<1>8. CASE phase' = at /\ outcome' = outcome
  BY <1>1, <1>3, <1>4, <1>5, <1>8, JobsHear DEF Inv
<1> QED
  BY <1>1, <1>5, <1>6, <1>7, <1>8 DEF Inv

\* Who hears of an abort: the job, and those that wait for the same task.
LEMMA AbortHeard ==
    ASSUME JobTypes, NEW j \in Jobs, AbortJob(j)
    PROVE  /\ phase' \in [Jobs -> Phases] /\ outcome' \in [Jobs -> Outcomes]
           /\ outcome'[j] \in {"Aborted", "Failed"} /\ phase'[j] # "Idle"
           /\ phase[j] = "Wake" => phase'[j] = "Wake"
           /\ \A k \in Jobs : k # j =>
                 \/ phase'[k] = phase[k] /\ outcome'[k] = outcome[k]
                 \/ /\ phase[k] \in {"Start", "Wait"} /\ outcome'[k] = "Failed"
                    /\ phase'[k] = IF phase[k] = "Start" THEN "Late" ELSE "Over"
<1> DEFINE t == <<uses[j][doing[j]], doing[j]>>
<1>0. /\ phase[j] \in {"Wake", "Start", "Wait", "Late"} /\ outcome[j] = "None"
      /\ JobTypes /\ AbortJob(j)
  BY DEF AbortJob
<1>1. phase \in [Jobs -> Phases] /\ outcome \in [Jobs -> Outcomes]
  BY <1>0 DEF JobTypes
<1>2. CASE /\ outcome' = [outcome EXCEPT ![j] = "Aborted"]
           /\ phase' = phase
  BY <1>0, <1>1, <1>2 DEF Outcomes
<1>3. CASE /\ outcome' = [outcome EXCEPT ![j] = "Failed"]
           /\ phase' = [phase EXCEPT ![j] = IF @ = "Start" THEN "Late" ELSE "Over"]
           /\ phase[j] # "Wake"
  BY <1>0, <1>1, <1>3 DEF Outcomes, Phases
<1>4. CASE phase[j] \in {"Start", "Wait"} /\ AbortTask(j, t)
  <2> DEFINE left == [phase EXCEPT ![j] = IF @ = "Start" THEN "Late" ELSE "Over"]
             others == IF life[t] = "Running" THEN Listeners(t) \ {j} ELSE {}
  <2>1. /\ phase' = [k \in Jobs |-> IF k \notin others THEN left[k]
                                   ELSE IF phase[k] = "Start" THEN "Late" ELSE "Over"]
        /\ outcome' = [k \in Jobs |-> IF k = j THEN "Aborted"
                                     ELSE IF k \in others THEN "Failed" ELSE outcome[k]]
    BY <1>4 DEF AbortTask
  <2>2. /\ left \in [Jobs -> Phases] /\ left[j] \in {"Late", "Over"}
        /\ \A k \in Jobs : k # j => left[k] = phase[k]
    BY <1>1 DEF Phases
  <2>3. /\ j \notin others
        /\ \A k \in others : k \in Jobs /\ phase[k] \in {"Start", "Wait"}
    BY DEF Listeners
  <2> HIDE DEF left, others
  <2>4. phase' \in [Jobs -> Phases] /\ outcome' \in [Jobs -> Outcomes]
    BY <1>1, <2>1, <2>2 DEF Phases, Outcomes
  <2>5. outcome'[j] = "Aborted" /\ phase'[j] # "Idle"
    BY <2>1, <2>2, <2>3
  <2>6. ASSUME NEW k \in Jobs, k # j
        PROVE  \/ phase'[k] = phase[k] /\ outcome'[k] = outcome[k]
               \/ /\ phase[k] \in {"Start", "Wait"} /\ outcome'[k] = "Failed"
                  /\ phase'[k] = IF phase[k] = "Start" THEN "Late" ELSE "Over"
    BY <2>1, <2>2, <2>3, <2>6
  <2> QED
    BY <1>4, <2>4, <2>5, <2>6
<1>5. \/ /\ outcome' = [outcome EXCEPT ![j] = "Aborted"]
         /\ UNCHANGED <<phase, life, net>>
      \/ /\ outcome' = [outcome EXCEPT ![j] = "Failed"]
         /\ phase' = [phase EXCEPT ![j] = IF @ = "Start" THEN "Late" ELSE "Over"]
         /\ phase[j] # "Wake"
         /\ UNCHANGED <<life, net>>
      \/ phase[j] \in {"Start", "Wait"} /\ AbortTask(j, t)
  BY <1>0 DEF AbortJob
<1> QED
  BY <1>5, <1>2, <1>3, <1>4

\* abort() of a job, and of the task it waits for.
LEMMA AbortJobInv ==
    ASSUME Inv, NEW j \in Jobs, AbortJob(j)
    PROVE  Inv'
<1> DEFINE t == <<uses[j][doing[j]], doing[j]>>
<1>1. /\ j \notin offline /\ phase[j] \in {"Wake", "Start", "Wait", "Late"}
      /\ outcome[j] = "None" /\ plan' = [plan EXCEPT ![j] = <<>>]
      /\ UNCHANGED <<rev, offline, target, doing, uses, cur, want>>
      /\ UNCHANGED <<disk, sha, status, fsha, content, moved, doubtful>>
  BY DEF AbortJob, entityVars
<1>2. Data /\ JobTypes /\ JobTrue(j)
  BY DEF Inv
<1>3. \/ /\ outcome' = [outcome EXCEPT ![j] = "Aborted"]
         /\ UNCHANGED <<phase, life, net>>
      \/ /\ outcome' = [outcome EXCEPT ![j] = "Failed"]
         /\ phase' = [phase EXCEPT ![j] = IF @ = "Start" THEN "Late" ELSE "Over"]
         /\ phase[j] # "Wake"
         /\ UNCHANGED <<life, net>>
      \/ phase[j] \in {"Start", "Wait"} /\ AbortTask(j, t)
  BY <1>1 DEF AbortJob
<1>4. Data' /\ Grows
  <2>1. CASE UNCHANGED <<life, net>>
    <3>1. UNCHANGED dataVars
      BY <1>1, <2>1 DEF dataVars
    <3>2. cur' \in [Entities -> Jobs \cup {None}] /\ RunnersStay
      BY <1>1, <1>2 DEF Data, DataTypes, RunnersStay
    <3> QED
      BY <1>2, <3>1, <3>2, OwnersChange
  <2>2. CASE phase[j] \in {"Start", "Wait"} /\ AbortTask(j, t)
    <3>1. doing[j] # None
      BY <1>1, <1>2, <2>2, InCourse
    <3>2. t \in Tasks /\ t[2] = doing[j] /\ (t[2] \in Kids => sha[t[2]] # 0)
      BY <1>1, <1>2, <2>2, <3>1, CourseFacts
    <3> HIDE DEF t
    <3>3. /\ life' = [life EXCEPT ![t] = IF @ = "Running" THEN "Aborted" ELSE @]
          /\ \E n \in IF net[t] = "Asking" THEN {"Over", "Stray"} ELSE {net[t]} :
                net' = [net EXCEPT ![t] = n]
      BY <2>2 DEF AbortTask, t
    <3>4. /\ life' \in [Tasks -> {"Inactive", "Running", "Succeeded", "Failed", "Aborted"}]
          /\ \A u \in Tasks : u # t => life'[u] = life[u]
      BY <1>2, <3>3 DEF Data, DataTypes
    <3>5. PICK n \in IF net[t] = "Asking" THEN {"Over", "Stray"} ELSE {net[t]} :
                net' = [net EXCEPT ![t] = n]
      BY <3>3
    <3>6. /\ net' \in [Tasks -> {"None", "Over"} \cup InFlight]
          /\ net'[t] = n /\ \A u \in Tasks : u # t => net'[u] = net[u]
      BY <1>2, <3>2, <3>5 DEF Data, DataTypes, InFlight
    <3>7. (n = "Landed" => net[t] = "Landed") /\ (n \in InFlight => net[t] \in InFlight)
      BY <3>5 DEF InFlight
    <3>8. Unmoved(t) => want[t] # 0
      BY <1>2, <3>2 DEF Data, TaskWants, Unmoved
    <3>9. DataTypes'
      BY <1>1, <1>2, <3>4, <3>6 DEF Data, DataTypes
    <3> QED
      BY <1>1, <1>2, <3>2, <3>4, <3>6, <3>7, <3>8, <3>9, TaskChanges
  <2> QED
    BY <1>3, <2>1, <2>2
<1>5. /\ phase' \in [Jobs -> Phases] /\ outcome' \in [Jobs -> Outcomes]
      /\ outcome'[j] # "None" /\ phase'[j] # "Idle"
      /\ phase[j] = "Wake" => phase'[j] = "Wake"
      /\ \A k \in Jobs : k # j =>
            \/ phase'[k] = phase[k] /\ outcome'[k] = outcome[k]
            \/ /\ phase[k] \in {"Start", "Wait"} /\ outcome'[k] = "Failed"
               /\ phase'[k] = IF phase[k] = "Start" THEN "Late" ELSE "Over"
  BY <1>2, AbortHeard
<1>6. plan' \in [Jobs -> Seq(Entities)] /\ plan'[j] = <<>>
      /\ \A k \in Jobs : k # j => plan'[k] = plan[k]
  BY <1>1, <1>2 DEF JobTypes
<1>7. JobTypes'
  BY <1>1, <1>2, <1>5, <1>6 DEF JobTypes
<1>8. ASSUME NEW k \in Jobs, k # j
      PROVE  JobTrue(k)'
  <2>1. JobTrue(k) /\ (doing[k] # None => doing[k] \in Entities) /\ phase[k] \in Phases
    BY <1>2 DEF Inv, JobTypes
  <2>2. \/ phase'[k] = phase[k] /\ outcome'[k] = outcome[k]
        \/ /\ phase[k] \in {"Start", "Wait"} /\ outcome'[k] = "Failed"
           /\ phase'[k] = IF phase[k] = "Start" THEN "Late" ELSE "Over"
    BY <1>5, <1>8
  <2>3. k \in offline => phase'[k] \in {"Idle", "Wait", "Over"}
    BY <2>1, <2>2 DEF JobTrue
  <2>4. k \notin offline /\ doing[k] # None /\ phase'[k] \in {"Wake", "Late"}
             /\ outcome'[k] = "None" => content'[doing[k]] # 0
    BY <1>4, <2>1, <2>2 DEF JobTrue, GoesOn, Grows
  <2>5. phase'[k] = "Idle" <=> phase[k] = "Idle"
    BY <2>2
  <2>6. phase[k] \in {"Wake", "Over"} => phase'[k] \in {"Wake", "Over"}
    BY <2>2
  <2> QED
    BY <1>1, <1>2, <1>4, <1>6, <1>8, <2>1, <2>3, <2>4, <2>5, <2>6, JobKeeps
<1>9. JobTrue(j)'
  <2>1. target[j] \in Versions /\ Course(j) /\ Supplied(j)
    BY <1>1, <1>2 DEF JobTrue
  <2>2. Course(j)'
    BY <1>1, <1>5, <1>6, <2>1 DEF Course
  <2>3. Supplied(j)'
    BY <1>1, <1>6, <2>1 DEF Supplied
  <2> QED
    BY <1>1, <1>5, <2>1, <2>2, <2>3 DEF JobTrue, GoesOn
<1> QED
  BY <1>1, <1>4, <1>7, <1>8, <1>9 DEF Inv

\* The steps of a download, and what the jobs hear of them.
LEMMA NetInv ==
    ASSUME Inv, NEW t \in Tasks, NetNext(t)
    PROVE  Inv'
<1>1. rev \in Nat /\ Data /\ JobTypes /\ \A j \in Jobs : JobTrue(j)
  BY DEF Inv
<1>2. Moved(phase)
  BY <1>1 DEF Moved, JobTypes
<1>3. CASE Ask(t) \/ Land(t)
  <2>1. Data' /\ Grows
    BY <1>1, <1>3, AskOrLoseData, LandData
  <2>2. rev' = rev /\ UNCHANGED courseVars /\ phase' = phase /\ outcome' = outcome
    BY <1>3 DEF Ask, Land, jobVars, courseVars
  <2>3. JobTypes' /\ \A j \in Jobs : JobTrue(j)'
    BY <1>1, <1>2, <2>1, <2>2, JobsHear
  <2> QED
    BY <1>1, <2>1, <2>2, <2>3 DEF Inv
<1>4. CASE Lose(t) \/ LandUnsaved(t)
  <2>1. Data' /\ Grows
    BY <1>1, <1>4, AskOrLoseData, LandUnsavedData
  <2>2. rev' = rev /\ UNCHANGED courseVars /\ Ends(t, FALSE)
    BY <1>4 DEF Lose, LandUnsaved, courseVars
  <2>3. JobTypes' /\ \A j \in Jobs : JobTrue(j)'
    BY <1>1, <2>1, <2>2, EndsJobs
  <2> QED
    BY <1>1, <2>1, <2>2, <2>3 DEF Inv
<1>5. CASE Finish(t)
  <2>1. Data' /\ Grows
    BY <1>1, <1>5, FinishData
  <2>2. rev' = rev /\ UNCHANGED courseVars /\ Ends(t, TRUE)
    BY <1>5 DEF Finish, courseVars
  <2>3. content'[t[2]] # 0
    BY <1>1, <1>5, <2>1, TaskShape DEF Finish, Data, ReadFirst, Grows
  <2>4. JobTypes' /\ \A j \in Jobs : JobTrue(j)'
    BY <1>1, <2>1, <2>2, <2>3, EndsJobs
  <2> QED
    BY <1>1, <2>1, <2>2, <2>4 DEF Inv
<1> QED
  BY <1>3, <1>4, <1>5 DEF NetNext, Answer

\* Nothing is loaded when the launcher starts.
LEMMA InitInv == Init => Inv
<1> SUFFICES ASSUME Init
             PROVE  Inv
  OBVIOUS
<1>1. /\ rev = 1 /\ disk \in [Entities -> -1 .. 1]
      /\ sha = Zero /\ fsha = Zero /\ content = Zero
      /\ status = [e \in Entities |-> "NotLoaded"]
      /\ cur = [e \in Entities |-> None]
      /\ life = [t \in Tasks |-> "Inactive"]
      /\ net = [t \in Tasks |-> "None"]
      /\ want = [t \in Tasks |-> 0]
  BY DEF Init
<1>2. DataTypes
  <2>1. -1 .. 1 \subseteq Numbers
    BY DEF Numbers
  <2>2. disk \in [Entities -> Numbers]
    BY <1>1, <2>1
  <2>3. 0 \in Numbers /\ 0 \in Nat
    BY DEF Numbers
  <2> QED
    BY <1>1, <2>2, <2>3 DEF DataTypes, Zero, InFlight
<1>3. \A e \in Entities : sha[e] = 0 /\ content[e] = 0 /\ status[e] = "NotLoaded"
  BY <1>1 DEF Zero
<1>4. \A t \in Tasks : net[t] = "None"
  BY <1>1
<1>5. ReadFirst
  BY <1>3, <1>4 DEF ReadFirst
<1>6. \A t \in Tasks : ~Unmoved(t)
  BY <1>4 DEF Unmoved, InFlight
<1>7. \A e \in Kids \ doubtful : EntityTrue(e)
  BY <1>3, Families DEF EntityTrue
<1>8. Data
  BY <1>2, <1>3, <1>5, <1>6, <1>7, Families DEF Data
<1>9. /\ offline \in Offline /\ target = Idle(None) /\ doing = Idle(None)
      /\ plan = Idle(<<>>) /\ uses = Idle([e \in Entities |-> None])
      /\ phase = Idle("Idle") /\ outcome = Idle("None")
  BY DEF Init
<1>10. JobTypes
  <2>1. offline \subseteq Jobs
    BY <1>9, MetadataAssumption DEF MetadataAssumption
  <2>2. <<>> \in Seq(Entities)
    OBVIOUS
  <2> QED
    BY <1>9, <2>1, <2>2 DEF JobTypes, Idle, Phases, Outcomes
<1>11. \A j \in Jobs : phase[j] = "Idle" /\ doing[j] = None
  BY <1>9 DEF Idle
<1>12. \A j \in Jobs : JobTrue(j)
  BY <1>11 DEF JobTrue
<1> QED
  BY <1>1, <1>8, <1>10, <1>12 DEF Inv

\* Every step keeps the invariant.
LEMMA NextInv == Inv /\ [Next]_vars => Inv'
<1> SUFFICES ASSUME Inv, [Next]_vars
             PROVE  Inv'
  OBVIOUS
<1>1. ASSUME NEW j \in Jobs, JobNext(j)
      PROVE  Inv'
  BY <1>1, LoadVersionInv, LoadOfflineInv, WakeInv, StartTaskInv, AbortJobInv DEF JobNext
<1>2. ASSUME NEW t \in Tasks, NetNext(t)
      PROVE  Inv'
  BY <1>2, NetInv
<1>3. CASE Publish \/ UNCHANGED vars
  <2>1. rev' \in Nat /\ UNCHANGED <<entityVars, jobVars, taskVars>>
    BY <1>3 DEF Inv, Publish, vars
  <2>2. UNCHANGED dataVars /\ UNCHANGED courseVars /\ phase' = phase /\ outcome' = outcome
        /\ cur' = cur
    BY <2>1 DEF dataVars, courseVars, entityVars, jobVars, taskVars
  <2>3. Data'
    BY <2>2, OwnersChange DEF Inv, Data, DataTypes, RunnersStay
  <2>4. JobTypes'
    BY <2>2 DEF Inv, JobTypes, courseVars
  <2>5. ASSUME NEW j \in Jobs
        PROVE  JobTrue(j)'
    <3>1. JobTrue(j)
      BY DEF Inv
    <3> QED
      BY <2>2, <3>1 DEF JobTrue, Course, Supplied, GoesOn, courseVars, dataVars
  <2> QED
    BY <2>1, <2>3, <2>4, <2>5 DEF Inv
<1> QED
  BY <1>1, <1>2, <1>3 DEF Next

-----------------------------------------------------------------------------
(* The theorems. *)

\* Whatever is loaded, in whatever order downloads end: files, contents and checksums
\* belong together, downloads on their way still bring what their task wants, and no
\* online job asks for an entity before its checksum is known.
THEOREM MetadataInvariant == Spec => []Inv
  BY InitInv, NextInv, PTL DEF Spec

\* What counts as loaded has been read.
LEMMA LoadedIsRead ==
    ASSUME Inv, NEW e \in Entities, IsLoaded(e)
    PROVE  content[e] # 0
<1>1. status[e] # "NotLoaded"
  BY DEF IsLoaded
<1> QED
  BY <1>1 DEF Inv, Data, ReadFirst

\* What isLoaded() promises, in every reachable state: what counts as loaded has been
\* read and is what the parent names, unless its checksum changed while it was asked
\* for or it was read and could not be written (BaseEntity::isLoaded).
THEOREM LoadedAlwaysCurrent == Spec => []LoadedIsCurrent
<1>1. Inv => LoadedIsCurrent
  <2> SUFFICES ASSUME Inv, NEW e \in Entities, IsLoaded(e)
               PROVE  /\ content[e] # 0
                      /\ sha[e] # 0 /\ e \notin doubtful => content[e] = sha[e]
    BY DEF LoadedIsCurrent
  <2>1. content[e] # 0
    BY LoadedIsRead
  <2>2. ASSUME sha[e] # 0, e \notin doubtful
        PROVE  content[e] = sha[e]
    <3>1. e \in Kids \ doubtful
      BY <2>2 DEF Inv, Data, Entities, Kids
    <3>2. EntityTrue(e) /\ status[e] # "NotLoaded" /\ fsha[e] = sha[e]
      BY <2>2, <3>1 DEF Inv, Data, IsLoaded
    <3> QED
      BY <2>2, <3>2 DEF EntityTrue
  <2> QED
    BY <2>1, <2>2
<1> QED
  BY <1>1, MetadataInvariant, PTL
-----------------------------------------------------------------------------
(* What a success means. *)

\* A load that reports success has read the version it loads.
SuccessIsRead == \A j \in Jobs : outcome[j] = "Succeeded" => content[target[j]] # 0

\* A job with nothing left to start is at its version, unless it has failed.
Earned(j) ==
    /\ outcome[j] = "Succeeded" => content[target[j]] # 0
    /\ phase[j] = "Idle" => outcome[j] = "None"
    /\ phase[j] # "Idle" => target[j] \in Versions
    /\ phase[j] # "Idle" /\ j \in offline => doing[j] = target[j]
    /\ phase[j] # "Idle" /\ j \notin offline /\ outcome[j] = "None" /\ plan[j] = <<>>
          => doing[j] = target[j]

StaysRead == \A e \in Entities : content[e] # 0 => content'[e] # 0

\* What a step does that leaves a job where it was, or makes it fail.
LEMMA EarnedKeeps ==
    ASSUME NEW j \in Jobs, Earned(j), StaysRead,
           offline' = offline, target'[j] = target[j], doing'[j] = doing[j],
           phase'[j] = "Idle" <=> phase[j] = "Idle",
           \/ outcome'[j] = outcome[j] /\ plan'[j] = plan[j]
           \/ outcome'[j] \in {"Failed", "Aborted"} /\ phase[j] # "Idle"
    PROVE  Earned(j)'
<1>1. target[j] \in Versions => (content[target[j]] # 0 => content'[target[j]] # 0)
  BY Families DEF StaysRead, Kids
<1> QED
  BY <1>1 DEF Earned

\* The jobs hear that a task has ended, or nothing.
LEMMA EarnedHears ==
    ASSUME JobTypes, \A j \in Jobs : JobTrue(j) /\ Earned(j), StaysRead, UNCHANGED courseVars,
           NEW t \in Tasks, NEW at, Moved(at),
           \/ phase' = at /\ outcome' = outcome
           \/ \E ok \in BOOLEAN : /\ Notify(Listeners(t), at, ok)
                                  /\ ok => content'[t[2]] # 0
    PROVE  \A j \in Jobs : Earned(j)'
<1> SUFFICES ASSUME NEW j \in Jobs
             PROVE  Earned(j)'
  OBVIOUS
<1>1. /\ Earned(j) /\ UNCHANGED courseVars /\ phase[j] \in Phases
      /\ at[j] # phase[j] => phase[j] \in {"Start", "Late"} /\ at[j] \in {"Wait", "Wake", "Over"}
  BY DEF Moved, JobTypes
<1>2. at[j] = "Idle" <=> phase[j] = "Idle"
  BY <1>1
<1>3. CASE phase'[j] = at[j] /\ outcome'[j] = outcome[j]
  BY <1>1, <1>2, <1>3, EarnedKeeps DEF courseVars
<1>4. ASSUME NEW ok \in BOOLEAN, Notify(Listeners(t), at, ok), ok => content'[t[2]] # 0
      PROVE  Earned(j)'
  <2>1. CASE j \notin Listeners(t)
    <3>1. phase'[j] = at[j] /\ outcome'[j] = outcome[j]
      BY <1>4, <2>1 DEF Notify
    <3> QED
      BY <1>3, <3>1
  <2>2. CASE j \in Listeners(t)
    <3>1. /\ phase[j] \in {"Start", "Wait"} /\ outcome[j] = "None" /\ doing[j] = t[2]
      BY <2>2 DEF Listeners
    <3>2. /\ phase'[j] # "Idle" /\ phase[j] # "Idle"
          /\ outcome'[j] = IF ~ok THEN "Failed"
                           ELSE IF j \in offline THEN "Succeeded" ELSE outcome[j]
      BY <1>4, <2>2, <3>1 DEF Notify
    <3>3. CASE ok /\ j \in offline
      <4>1. content'[target[j]] # 0
        BY <1>1, <1>4, <3>1, <3>2, <3>3 DEF Earned
      <4> QED
        BY <1>1, <3>2, <3>3, <4>1 DEF Earned, courseVars
    <3>4. CASE ~(ok /\ j \in offline)
      BY <1>1, <3>2, <3>4, EarnedKeeps DEF courseVars
    <3> QED
      BY <3>3, <3>4
  <2> QED
    BY <2>1, <2>2
<1> QED
  BY <1>3, <1>4

LEMMA EarnedEnds ==
    ASSUME JobTypes, \A j \in Jobs : JobTrue(j) /\ Earned(j), StaysRead, UNCHANGED courseVars,
           NEW t \in Tasks, NEW ok \in BOOLEAN, Ends(t, ok), ok => content'[t[2]] # 0
    PROVE  \A j \in Jobs : Earned(j)'
<1>1. Moved(phase)
  BY DEF Moved, JobTypes
<1> QED
  BY <1>1, EarnedHears DEF Ends
\* What was read of an entity is never forgotten.
LEMMA ExecuteKeepsRead ==
    ASSUME Data, NEW t \in Tasks, NEW js, NEW at, Execute(t, js, at)
    PROVE  StaysRead
<1>1. CASE life[t] = "Running"
  BY <1>1 DEF Execute, StaysRead
<1>2. CASE life[t] # "Running"
  <2>1. ReadLocal(t)
    BY <1>2 DEF Execute
  <2> QED
    BY <2>1, LocalFacts DEF Grows, StaysRead
<1> QED
  BY <1>1, <1>2

LEMMA NetKeepsRead ==
    ASSUME rev \in Nat, Data, NEW t \in Tasks, NetNext(t)
    PROVE  StaysRead
<1>1. CASE Ask(t) \/ Lose(t) \/ Finish(t)
  BY <1>1 DEF Ask, Lose, Finish, entityVars, StaysRead
<1>2. CASE Land(t) \/ LandUnsaved(t)
  <2>1. PICK r \in 1 .. rev : Parse(t[2], r)
    BY <1>2 DEF Land, LandUnsaved
  <2>2. r \in Nat \ {0} /\ t[2] \in Entities
    BY <2>1, TaskShape
  <2> QED
    BY <2>1, <2>2, ParseFacts DEF Grows, StaysRead
<1> QED
  BY <1>1, <1>2 DEF NetNext, Answer

\* The steps of a download, and what the jobs hear of them.
LEMMA NetEarned ==
    ASSUME Inv, \A j \in Jobs : Earned(j), NEW t \in Tasks, NetNext(t)
    PROVE  \A j \in Jobs : Earned(j)'
<1>1. /\ JobTypes /\ (\A j \in Jobs : JobTrue(j) /\ Earned(j)) /\ StaysRead
      /\ t[2] \in Entities
  BY NetKeepsRead, TaskShape DEF Inv
<1>2. CASE Ask(t) \/ Land(t)
  <2>1. UNCHANGED courseVars /\ phase' = phase /\ outcome' = outcome
    BY <1>2 DEF Ask, Land, jobVars, courseVars
  <2>2. Moved(phase)
    BY <1>1 DEF Moved, JobTypes
  <2> QED
    BY <1>1, <2>1, <2>2, EarnedHears
<1>3. CASE Lose(t) \/ LandUnsaved(t)
  <2>1. UNCHANGED courseVars /\ Ends(t, FALSE)
    BY <1>3 DEF Lose, LandUnsaved, courseVars
  <2> QED
    BY <1>1, <2>1, EarnedEnds
<1>4. CASE Finish(t)
  <2>1. UNCHANGED courseVars /\ Ends(t, TRUE)
    BY <1>4 DEF Finish, courseVars
  <2>2. content'[t[2]] # 0
    BY <1>1, <1>4 DEF Inv, Data, ReadFirst, Finish, StaysRead
  <2> QED
    BY <1>1, <2>1, <2>2, EarnedEnds
<1> QED
  BY <1>2, <1>3, <1>4 DEF NetNext, Answer

\* A job begins: it has reported nothing yet.
LEMMA LoadEarned ==
    ASSUME Inv, \A k \in Jobs : Earned(k), NEW j \in Jobs, LoadVersion(j) \/ LoadOffline(j)
    PROVE  \A k \in Jobs : Earned(k)'
<1>1. JobTypes /\ Data /\ phase[j] = "Idle" /\ outcome[j] = "None" /\ offline' = offline
  BY DEF Inv, LoadVersion, LoadOffline, Earned
<1>2. CASE LoadVersion(j)
  <2>1. PICK v \in Versions :
          /\ target' = [target EXCEPT ![j] = v]
          /\ plan' = [plan EXCEPT ![j] = IF status[Index] # "Remote"
                                         THEN <<Index, ListOf[v], v>> ELSE <<ListOf[v], v>>]
    BY <1>2 DEF LoadVersion
  <2>2. /\ j \notin offline /\ phase' = [phase EXCEPT ![j] = "Wake"]
        /\ UNCHANGED <<doing, outcome, content>>
    BY <1>2 DEF LoadVersion, entityVars
  <2>3. /\ target'[j] = v /\ phase'[j] = "Wake" /\ outcome'[j] = "None" /\ plan'[j] # <<>>
        /\ \A k \in Jobs : k # j => /\ target'[k] = target[k] /\ plan'[k] = plan[k]
                                    /\ phase'[k] = phase[k]
    BY <1>1, <2>1, <2>2 DEF JobTypes
  <2>4. Earned(j)'
    BY <1>1, <2>2, <2>3 DEF Earned
  <2>5. ASSUME NEW k \in Jobs, k # j
        PROVE  Earned(k)'
    BY <1>1, <2>2, <2>3, <2>5 DEF Earned
  <2> QED
    BY <2>4, <2>5
<1>3. CASE LoadOffline(j)
  <2>1. PICK v \in Versions :
          /\ target' = [target EXCEPT ![j] = v]
          /\ doing' = [doing EXCEPT ![j] = v]
          /\ Execute(<<TaskOwner(j, v), v>>, {j}, [phase EXCEPT ![j] = "Wait"])
    BY <1>3 DEF LoadOffline
  <2> DEFINE t == <<TaskOwner(j, v), v>>
             at == [phase EXCEPT ![j] = "Wait"]
  <2>2. j \in offline /\ plan' = plan
    BY <1>3 DEF LoadOffline
  <2>3. t \in Tasks /\ t[2] = v /\ v \in Entities
    BY <1>1, OwnerFacts, TaskShape, Families DEF Kids
  <2>4. at[j] = "Wait" /\ \A k \in Jobs : k # j => at[k] = phase[k]
    BY <1>1 DEF JobTypes
  <2> HIDE DEF t, at
  <2>5. Execute(t, {j}, at) /\ StaysRead
    BY <1>1, <2>1, <2>3, ExecuteKeepsRead DEF t, at
  <2>6. \/ phase' = at /\ outcome' = outcome
        \/ ReadLocal(t) /\ LocalSuffices(t) /\ Notify({j}, at, TRUE)
    BY <2>5 DEF Execute
  <2>7. /\ phase'[j] \in {"Wait", "Over"}
        /\ outcome'[j] = "None" \/ (outcome'[j] = "Succeeded" /\ content'[v] # 0)
        /\ \A k \in Jobs : k # j => phase'[k] = phase[k] /\ outcome'[k] = outcome[k]
    <3>1. CASE phase' = at /\ outcome' = outcome
      BY <1>1, <2>4, <3>1
    <3>2. CASE ReadLocal(t) /\ LocalSuffices(t) /\ Notify({j}, at, TRUE)
      <4>1. content'[v] # 0
        BY <1>1, <2>3, <3>2, SufficesIsRead, LocalRead
      <4> QED
        BY <1>1, <2>2, <2>4, <3>2, <4>1 DEF Notify
    <3> QED
      BY <2>6, <3>1, <3>2
  <2>8. /\ target'[j] = v /\ doing'[j] = v
        /\ \A k \in Jobs : k # j => target'[k] = target[k] /\ doing'[k] = doing[k]
    BY <1>1, <2>1 DEF JobTypes
  <2>9. Earned(j)'
    BY <1>1, <2>2, <2>7, <2>8 DEF Earned
  <2>10. ASSUME NEW k \in Jobs, k # j
         PROVE  Earned(k)'
    BY <1>1, <2>2, <2>5, <2>7, <2>8, <2>10, EarnedKeeps
  <2> QED
    BY <2>9, <2>10
<1> QED
  BY <1>2, <1>3

\* An online job succeeds when it wakes up with nothing left to start.
LEMMA WakeEarned ==
    ASSUME Inv, \A k \in Jobs : Earned(k), NEW j \in Jobs, Wake(j)
    PROVE  \A k \in Jobs : Earned(k)'
<1>1. /\ phase[j] = "Wake" /\ UNCHANGED <<content, offline, target>>
      /\ JobTypes /\ Earned(j) /\ j \notin offline /\ target[j] \in Versions
      /\ Course(j) /\ GoesOn(j)
  BY DEF Wake, entityVars, Inv, JobTrue
<1>2. StaysRead
  BY <1>1 DEF StaysRead
<1>3. CASE outcome[j] = "None" /\ plan[j] # <<>>
  <2>1. /\ doing' = [doing EXCEPT ![j] = Head(plan[j])]
        /\ plan' = [plan EXCEPT ![j] = Tail(plan[j])]
        /\ phase' = [phase EXCEPT ![j] = "Start"] /\ outcome' = outcome
    BY <1>3 DEF Wake
  <2>2. Tail(plan[j]) = <<>> => Head(plan[j]) = target[j]
    <3>1. \/ plan[j] = <<Index, ListOf[target[j]], target[j]>>
          \/ plan[j] = <<ListOf[target[j]], target[j]>>
          \/ plan[j] = <<target[j]>>
      BY <1>1, <1>3 DEF Course
    <3>2. CASE plan[j] = <<Index, ListOf[target[j]], target[j]>>
      BY <3>2
    <3>3. CASE plan[j] = <<ListOf[target[j]], target[j]>>
      BY <3>3
    <3>4. CASE plan[j] = <<target[j]>>
      BY <3>4
    <3> QED
      BY <3>1, <3>2, <3>3, <3>4
  <2>3. /\ doing'[j] = Head(plan[j]) /\ plan'[j] = Tail(plan[j]) /\ phase'[j] = "Start"
        /\ \A k \in Jobs : k # j => /\ doing'[k] = doing[k] /\ plan'[k] = plan[k]
                                    /\ phase'[k] = phase[k]
    BY <1>1, <2>1 DEF JobTypes
  <2>4. Earned(j)'
    BY <1>1, <1>3, <2>1, <2>2, <2>3 DEF Earned
  <2>5. ASSUME NEW k \in Jobs, k # j
        PROVE  Earned(k)'
    BY <1>1, <1>2, <2>1, <2>3, <2>5, EarnedKeeps
  <2> QED
    BY <2>4, <2>5
<1>4. CASE ~(outcome[j] = "None" /\ plan[j] # <<>>)
  <2>1. /\ outcome' = [outcome EXCEPT ![j] = IF @ = "None" THEN "Succeeded" ELSE @]
        /\ phase' = [phase EXCEPT ![j] = "Over"] /\ UNCHANGED <<doing, plan>>
    BY <1>4 DEF Wake
  <2>2. /\ outcome'[j] = (IF outcome[j] = "None" THEN "Succeeded" ELSE outcome[j])
        /\ phase'[j] = "Over"
        /\ \A k \in Jobs : k # j => outcome'[k] = outcome[k] /\ phase'[k] = phase[k]
    BY <1>1, <2>1 DEF JobTypes
  <2>3. outcome[j] = "None" => content[target[j]] # 0
    <3>1. target[j] # None
      BY <1>1, Families DEF Kids
    <3> QED
      BY <1>1, <1>4, <3>1 DEF Earned, GoesOn
  <2>4. Earned(j)'
    BY <1>1, <2>1, <2>2, <2>3 DEF Earned
  <2>5. ASSUME NEW k \in Jobs, k # j
        PROVE  Earned(k)'
    BY <1>1, <1>2, <2>1, <2>2, <2>5, EarnedKeeps
  <2> QED
    BY <2>4, <2>5
<1> QED
  BY <1>3, <1>4

LEMMA StartEarned ==
    ASSUME Inv, \A k \in Jobs : Earned(k), NEW j \in Jobs, StartTask(j)
    PROVE  \A k \in Jobs : Earned(k)'
<1> DEFINE t == <<uses[j][doing[j]], doing[j]>>
           next == IF phase[j] = "Start" THEN "Wait"
                   ELSE IF outcome[j] = "None" THEN "Wake" ELSE "Over"
           at == [phase EXCEPT ![j] = next]
<1>1. /\ phase[j] \in {"Start", "Late"} /\ Execute(t, Listeners(t), at)
      /\ UNCHANGED courseVars
  BY DEF StartTask, courseVars
<1>2. /\ Data /\ JobTypes /\ (\A k \in Jobs : JobTrue(k) /\ Earned(k))
      /\ j \notin offline /\ doing[j] # None
  <2>1. Data /\ JobTypes /\ \A k \in Jobs : JobTrue(k) /\ Earned(k)
    BY DEF Inv
  <2>2. j \notin offline
    BY <1>1, <2>1 DEF JobTrue
  <2> QED
    BY <1>1, <2>1, <2>2, InCourse
<1>3. t \in Tasks
  BY <1>1, <1>2, CourseFacts
<1>4. Moved(at)
  <2>1. phase \in [Jobs -> Phases] /\ next \in Phases /\ next \in {"Wait", "Wake", "Over"}
        /\ (next = "Wake" => phase[j] = "Late" /\ outcome[j] = "None")
    BY <1>1, <1>2 DEF JobTypes, Phases
  <2> HIDE DEF next
  <2>2. /\ at \in [Jobs -> Phases] /\ at[j] = next
        /\ \A k \in Jobs : k # j => at[k] = phase[k]
    BY <2>1
  <2> QED
    BY <1>1, <1>2, <2>1, <2>2 DEF Moved
<1> HIDE DEF t, at
<1>5. StaysRead
  BY <1>1, <1>2, <1>3, ExecuteKeepsRead
<1>6. \/ phase' = at /\ outcome' = outcome
      \/ \E ok \in BOOLEAN : Notify(Listeners(t), at, ok) /\ (ok => content'[t[2]] # 0)
  <2>1. \/ phase' = at /\ outcome' = outcome
        \/ ReadLocal(t) /\ LocalSuffices(t) /\ Notify(Listeners(t), at, TRUE)
    BY <1>1 DEF Execute
  <2>2. ReadLocal(t) /\ LocalSuffices(t) => content'[t[2]] # 0
    BY <1>2, <1>3, SufficesIsRead, LocalRead, TaskShape
  <2> QED
    BY <2>1, <2>2
<1> QED
  BY <1>1, <1>2, <1>3, <1>4, <1>5, <1>6, EarnedHears

LEMMA AbortEarned ==
    ASSUME Inv, \A k \in Jobs : Earned(k), NEW j \in Jobs, AbortJob(j)
    PROVE  \A k \in Jobs : Earned(k)'
<1>1. /\ JobTypes /\ phase[j] # "Idle" /\ plan' = [plan EXCEPT ![j] = <<>>]
      /\ UNCHANGED <<offline, target, doing, content>>
  BY DEF Inv, AbortJob, entityVars
<1>2. StaysRead /\ \A k \in Jobs : k # j => plan'[k] = plan[k]
  BY <1>1 DEF StaysRead, JobTypes
<1>3. ASSUME NEW k \in Jobs
      PROVE  Earned(k)'
  <2>1. CASE k = j
    BY <1>1, <1>2, <2>1, AbortHeard, EarnedKeeps
  <2>2. CASE k # j
    <3>1. \/ phase'[k] = phase[k] /\ outcome'[k] = outcome[k]
          \/ phase[k] # "Idle" /\ phase'[k] # "Idle" /\ outcome'[k] = "Failed"
      BY <1>1, <2>2, AbortHeard
    <3> QED
      BY <1>1, <1>2, <2>2, <3>1, EarnedKeeps
  <2> QED
    BY <2>1, <2>2
<1> QED
  BY <1>3

\* A load that reports success has read the version it loads, in whatever order the
\* tasks it shares with other loads end, fail or are aborted, online and offline
\* (Index::loadVersion, BaseEntityLoadTask::executeTask).
THEOREM SuccessAlwaysRead == Spec => []SuccessIsRead
<1> DEFINE AllEarned == \A j \in Jobs : Earned(j)
<1>1. Init => AllEarned
  BY DEF Init, Idle, Earned
<1>2. Inv /\ AllEarned /\ [Next]_vars => AllEarned'
  <2> SUFFICES ASSUME Inv, AllEarned, [Next]_vars
               PROVE  AllEarned'
    OBVIOUS
  <2>1. ASSUME NEW j \in Jobs, JobNext(j)
        PROVE  AllEarned'
    BY <2>1, LoadEarned, WakeEarned, StartEarned, AbortEarned DEF JobNext
  <2>2. ASSUME NEW t \in Tasks, NetNext(t)
        PROVE  AllEarned'
    BY <2>2, NetEarned
  <2>3. CASE Publish \/ UNCHANGED vars
    BY <2>3 DEF Publish, vars, entityVars, jobVars, Earned
  <2> QED
    BY <2>1, <2>2, <2>3 DEF Next
<1>3. AllEarned => SuccessIsRead
  BY DEF SuccessIsRead, Earned
<1> QED
  BY <1>1, <1>2, <1>3, MetadataInvariant, PTL DEF Spec
=============================================================================
