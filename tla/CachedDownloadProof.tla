-------------------------- MODULE CachedDownloadProof --------------------------
(***************************************************************************)
(* What the cache of downloads promises for any number of requests and any *)
(* history: hits are true, and aborts are kept.                            *)
(***************************************************************************)
EXTENDS CachedDownload, TLAPS

USE DEF Entry, StaleEntry, Objects

\* An entry that was never renewed for a replaced file names one publication by both
\* its ETag and its MD5 sum, and that is the file as long as the time stamps agree.
EntryTrue(e, f) == e.sure => e.md5 = e.etag /\ (e.fresh => f = e.etag)

HitInv ==
    /\ \A o \in Objects : EntryTrue(entry[o], file)
    /\ saved # None => EntryTrue(saved, file)

\* A request that was aborted waits for its timer or has said so.
AbortInv ==
    \A r \in cancelled :
        \/ phase[r] = "Waiting" /\ outcome[r] = "None"
        \/ phase[r] = "Over" /\ outcome[r] = "Aborted"

Live(r) == phase[r] \in {"Made", "Asking", "Waiting"}

\* Requests that have not ended have reported nothing, and hold an object.
LifeInv ==
    \A r \in Requests :
        /\ outcome[r] # "None" => phase[r] = "Over"
        /\ Live(r) => holds[r] \in Objects

Inv == TypeOK /\ HitInv /\ AbortInv /\ LifeInv

-----------------------------------------------------------------------------
LEMMA AgedEntry ==
    ASSUME NEW e \in Entries
    PROVE  Aged(e) \in Entries /\ ~Aged(e).fresh
           /\ Aged(e).md5 = e.md5 /\ Aged(e).etag = e.etag /\ Aged(e).sure = e.sure
BY DEF Aged, Entries

\* What an entry is after a mark has been set.
LEMMA StaleOnly ==
    ASSUME NEW e \in Entries, NEW st \in BOOLEAN
    PROVE  LET m == [e EXCEPT !.stale = st] IN
           /\ m \in Entries
           /\ m.fresh = e.fresh /\ m.etag = e.etag /\ m.md5 = e.md5 /\ m.sure = e.sure
BY DEF Entries

LEMMA FreshOnly ==
    ASSUME NEW e \in Entries
    PROVE  LET m == [e EXCEPT !.fresh = TRUE] IN
           /\ m \in Entries
           /\ m.etag = e.etag /\ m.md5 = e.md5 /\ m.sure = e.sure
BY DEF Entries

\* Ends() keeps the types, and touches one request only.
LEMMA EndsKeepsTypes ==
    ASSUME TypeOK, NEW r \in Requests, NEW result \in {"Succeeded", "Failed", "Aborted"},
           Ends(r, result)
    PROVE  /\ phase' \in [Requests -> {"Idle", "Made", "Asking", "Waiting", "Over"}]
           /\ holds' \in [Requests -> Objects \cup {None}]
           /\ url' \in [Requests -> {"first", "fallback", "elsewhere"}]
           /\ tries' \in [Requests -> 0 .. MaxRetries - 1]
           /\ sent' \in [Requests -> {0} \cup Contents]
           /\ outcome' \in [Requests -> {"None", "Succeeded", "Failed", "Aborted"}]
           /\ part' \subseteq Requests
BY CacheAssumption DEF TypeOK, Ends

LEMMA InitInv == Init => Inv
<1> SUFFICES ASSUME Init PROVE Inv
    OBVIOUS
<1> USE CacheAssumption
<1>1. PICK fresh \in {FALSE, file = 1} :
          entry = [o \in Objects |->
                      IF o = Loaded /\ mapped = Loaded THEN Entry(FALSE, 1, 1, fresh, TRUE)
                      ELSE StaleEntry]
    BY DEF Init
<1>2. 1 \in Contents /\ rev \in Contents /\ file \in {-1, 0} \cup Contents
    BY DEF Init, Contents
<1>3. fresh \in BOOLEAN /\ (fresh => file = 1)
    OBVIOUS
<1>4. entry \in [Objects -> Entries]
    BY <1>1, <1>2, <1>3 DEF Entries
<1>5. saved \in Entries \cup {None}
    BY <1>4 DEF Init
<1>6. TypeOK
    <2>1. /\ mapped \in Objects \cup {None}
          /\ phase \in [Requests -> {"Idle", "Made", "Asking", "Waiting", "Over"}]
          /\ holds \in [Requests -> Objects \cup {None}]
          /\ url \in [Requests -> {"first", "fallback", "elsewhere"}]
          /\ sent \in [Requests -> {0} \cup Contents]
          /\ outcome \in [Requests -> {"None", "Succeeded", "Failed", "Aborted"}]
          /\ part \subseteq Requests /\ cancelled \subseteq Requests
        BY DEF Init
    <2>2. 0 \in 0 .. MaxRetries - 1 /\ redirects \in 0 .. MaxRedirects
          /\ changes \in 0 .. MaxChanges /\ stops \in 0 .. MaxStops
        BY DEF Init
    <2>3. tries \in [Requests -> 0 .. MaxRetries - 1]
        BY <2>2 DEF Init
    <2> QED BY <1>2, <1>4, <1>5, <2>1, <2>2, <2>3 DEF TypeOK
<1>7. HitInv
    BY <1>1, <1>3 DEF Init, HitInv, EntryTrue
<1>8. AbortInv /\ LifeInv
    BY DEF Init, AbortInv, LifeInv, Live
<1> QED BY <1>6, <1>7, <1>8 DEF Inv

-----------------------------------------------------------------------------
(* The cache's own steps.                                                  *)

LEMMA CacheInv == ASSUME Inv, CacheNext PROVE Inv'
<1> USE CacheAssumption DEF Inv
<1> DEFINE Stays == UNCHANGED requestVars
<1>1. ASSUME UNCHANGED <<phase, holds, outcome, cancelled>> PROVE AbortInv' /\ LifeInv'
    BY <1>1 DEF AbortInv, LifeInv, Live
<1>2. CASE SaveNow
    <2>1. saved' \in Entries \cup {None} /\ (saved' # None => EntryTrue(saved', file'))
        BY <1>2 DEF SaveNow, Saved, TypeOK, HitInv, EntryTrue
    <2>2. TypeOK'
        BY <1>2, <2>1 DEF SaveNow, TypeOK, requestVars, boundVars
    <2>3. HitInv'
        BY <1>2, <2>1 DEF SaveNow, HitInv, EntryTrue
    <2> QED BY <1>1, <1>2, <2>2, <2>3 DEF SaveNow, requestVars
<1>3. CASE EvictEntry
    <2> DEFINE m == [entry[mapped] EXCEPT !.stale = TRUE]
    <2>0. entry' = entry \/ entry' = [entry EXCEPT ![mapped] = m]
        BY <1>3 DEF EvictEntry
    <2>m. mapped \in Objects /\ entry[mapped] \in Entries
        BY <1>3 DEF EvictEntry, TypeOK
    <2>n. /\ m \in Entries /\ m.fresh = entry[mapped].fresh /\ m.etag = entry[mapped].etag
          /\ m.md5 = entry[mapped].md5 /\ m.sure = entry[mapped].sure
        BY <2>m, StaleOnly
    <2> HIDE DEF m
    <2>1. entry' \in [Objects -> Entries]
        BY <2>0, <2>m, <2>n DEF TypeOK
    <2>2. \A o \in Objects : /\ entry'[o].etag = entry[o].etag /\ entry'[o].md5 = entry[o].md5
                             /\ entry'[o].fresh = entry[o].fresh /\ entry'[o].sure = entry[o].sure
        BY <2>0, <2>m, <2>n DEF TypeOK
    <2>3. TypeOK'
        BY <1>3, <2>1 DEF EvictEntry, TypeOK, requestVars, boundVars
    <2>4. HitInv'
        BY <1>3, <2>2 DEF EvictEntry, HitInv, EntryTrue
    <2> QED BY <1>1, <1>3, <2>3, <2>4 DEF EvictEntry, requestVars
<1>4. CASE EvictAll
    <2> DEFINE m(o) == Entry(entry[o].stale \/ o = mapped, entry[o].etag, entry[o].md5,
                             entry[o].fresh /\ file' # 0, entry[o].sure)
    <2>0. entry' = [o \in Objects |-> m(o)]
        BY <1>4 DEF EvictAll
    <2>n. \A o \in Objects :
              /\ m(o) \in Entries /\ m(o).etag = entry[o].etag /\ m(o).md5 = entry[o].md5
              /\ m(o).fresh = (entry[o].fresh /\ file' # 0) /\ m(o).sure = entry[o].sure
        BY DEF TypeOK, Entries
    <2> HIDE DEF m
    <2>1. entry' \in [Objects -> Entries]
        BY <2>0, <2>n
    <2>2. \A o \in Objects : /\ entry'[o].etag = entry[o].etag /\ entry'[o].md5 = entry[o].md5
                             /\ (entry'[o].fresh => entry[o].fresh /\ file' # 0)
                             /\ entry'[o].sure = entry[o].sure
        BY <2>0, <2>n
    <2>3. TypeOK'
        <3>1. file' \in {-1, 0} \cup Contents /\ mapped' \in Objects \cup {None}
              /\ saved' \in Entries \cup {None} /\ part' \subseteq Requests
            BY <1>4 DEF EvictAll, TypeOK
        <3>2. changes' \in 0 .. MaxChanges
            <4>1. changes < MaxChanges /\ changes' = changes + 1
                BY <1>4, Zenon DEF EvictAll
            <4> QED BY <4>1 DEF TypeOK
        <3> QED BY <1>4, <2>1, <3>1, <3>2 DEF EvictAll, TypeOK
    <2>4. HitInv'
        <3>1. file' \in {0, file} /\ saved' = None
            BY <1>4 DEF EvictAll
        <3> QED BY <2>2, <3>1 DEF HitInv, EntryTrue
    <2> QED BY <1>1, <1>4, <2>3, <2>4 DEF EvictAll
<1>5. CASE Touch
    <2>1. entry' \in [Objects -> Entries] /\ \A o \in Objects : EntryTrue(entry'[o], file')
        BY <1>5, AgedEntry DEF Touch, TypeOK, HitInv, EntryTrue
    <2>2. saved' \in Entries \cup {None} /\ (saved' # None => EntryTrue(saved', file'))
        BY <1>5, AgedEntry DEF Touch, TypeOK, HitInv, EntryTrue, AgedOrNone
    <2>3. TypeOK'
        BY <1>5, <2>1, <2>2 DEF Touch, TypeOK, requestVars, boundVars
    <2>4. HitInv'
        BY <2>1, <2>2 DEF HitInv
    <2> QED BY <1>1, <1>5, <2>3, <2>4 DEF Touch, requestVars
<1>6. ASSUME NEW crash \in BOOLEAN, Restart(crash) PROVE Inv'
    <2> DEFINE found == IF crash THEN saved ELSE Saved(mapped, entry)
    <2>1. found \in Entries \cup {None} /\ (found # None => EntryTrue(found, file))
        BY DEF Saved, TypeOK, HitInv
    <2>2. file' = file /\ saved' = found
        BY <1>6 DEF Restart
    <2>3. entry' = [o \in Objects |->
                       IF o = Loaded /\ found # None THEN found ELSE StaleEntry]
        BY <1>6 DEF Restart
    <2>4. StaleEntry \in Entries /\ EntryTrue(StaleEntry, file)
        BY DEF Entries, EntryTrue, Contents
    <2> HIDE DEF found
    <2>5. entry' \in [Objects -> Entries]
        BY <2>1, <2>3, <2>4
    <2>6. HitInv'
        BY <2>1, <2>2, <2>3, <2>4 DEF HitInv, EntryTrue
    <2>7. TypeOK'
        BY <1>6, <2>1, <2>2, <2>5 DEF Restart, TypeOK
    <2>8. AbortInv' /\ LifeInv'
        BY <1>6 DEF Restart, AbortInv, LifeInv, Live
    <2> QED BY <2>6, <2>7, <2>8
<1> QED BY <1>2, <1>3, <1>4, <1>5, <1>6, CacheNext DEF CacheNext

-----------------------------------------------------------------------------
(* The steps of requests.                                                  *)

\* A request that ends, and one that goes out, leave the invariants of lives intact.
LEMMA EndsKeepsLife ==
    ASSUME Inv, NEW r \in Requests, NEW result \in {"Succeeded", "Failed", "Aborted"},
           Ends(r, result), cancelled' = cancelled,
           r \in cancelled => result = "Aborted"
    PROVE  AbortInv' /\ LifeInv'
BY DEF Inv, TypeOK, AbortInv, LifeInv, Live, Ends

LEMMA AsksKeepsLife ==
    ASSUME Inv, NEW r \in Requests, Asks(r), Live(r), r \notin cancelled,
           cancelled' = cancelled
    PROVE  AbortInv' /\ LifeInv'
BY DEF Inv, TypeOK, AbortInv, LifeInv, Live, Asks

LEMMA ExecuteInv ==
    ASSUME Inv, NEW r \in Requests, Live(r),
           NEW at \in [Requests -> {"first", "fallback", "elsewhere"}],
           Execute(r, at), UNCHANGED <<rev, cacheVars, cancelled, changes, stops>>,
           redirects' \in 0 .. MaxRedirects
    PROVE  Inv'
<1> USE CacheAssumption DEF Inv
<1>1. HitInv'
    BY DEF HitInv, EntryTrue, cacheVars
<1>2. CASE r \in cancelled /\ Ends(r, "Aborted")
    BY <1>1, <1>2, EndsKeepsTypes, EndsKeepsLife DEF TypeOK, cacheVars
<1>3. CASE r \notin cancelled /\ \E res \in {"Succeeded", "Failed"} : Ends(r, res)
    BY <1>1, <1>3, EndsKeepsTypes, EndsKeepsLife DEF TypeOK, cacheVars
<1>4. CASE r \notin cancelled /\ Asks(r) /\ url' = at
    <2>1. holds[r] \in Objects
        BY DEF LifeInv
    <2>2. sent' \in [Requests -> {0} \cup Contents]
        BY <1>4, <2>1 DEF Asks, TypeOK, Entries
    <2>3. TypeOK'
        BY <1>4, <2>2 DEF Asks, TypeOK, cacheVars
    <2> QED BY <1>1, <1>4, <2>3, AsksKeepsLife
<1> QED BY <1>2, <1>3, <1>4 DEF Execute

LEMMA RequestInv == ASSUME Inv, NEW r \in Requests, RequestNext(r) PROVE Inv'
<1> USE CacheAssumption DEF Inv
<1>1. CASE Make(r)
    <2>1. PICK o \in {r, mapped} \ {None}, force \in BOOLEAN :
              Resolve(r, o, force) /\ holds' = [holds EXCEPT ![r] = o]
        BY <1>1 DEF Make
    <2>2. o \in Objects
        BY DEF TypeOK
    <2> DEFINE given == IF o = r THEN StaleEntry ELSE [entry[o] EXCEPT !.fresh = TRUE]
               e == [given EXCEPT !.stale = @ \/ force]
    <2>3. entry' = [entry EXCEPT ![o] = e]
        BY <2>1 DEF Resolve
    <2>4. o # r => Matches(entry[o])
        BY <2>1 DEF Resolve
    <2>5. given \in Entries /\ EntryTrue(given, file)
        <3>1. CASE o = r
            BY <3>1 DEF Entries, EntryTrue, Contents
        <3>2. CASE o # r
            <4>1. entry[o] \in Entries /\ EntryTrue(entry[o], file)
                BY <2>2 DEF TypeOK, HitInv
            <4>2. given \in Entries /\ given.etag = entry[o].etag
                  /\ given.md5 = entry[o].md5 /\ given.sure = entry[o].sure
                BY <3>2, <4>1, FreshOnly
            <4>3. entry[o].fresh \/ entry[o].md5 = file
                BY <2>4, <3>2 DEF Matches
            <4> HIDE DEF given
            <4> QED BY <4>1, <4>2, <4>3 DEF EntryTrue
        <3> QED BY <3>1, <3>2
    <2> HIDE DEF given
    <2>6. e \in Entries /\ EntryTrue(e, file)
        BY <2>5 DEF Entries, EntryTrue
    <2> HIDE DEF e
    <2>7. mapped' \in Objects \cup {None}
        BY <2>1 DEF Resolve, TypeOK
    <2>8. TypeOK'
        BY <1>1, <2>1, <2>2, <2>3, <2>6, <2>7 DEF Make, TypeOK, boundVars
    <2>9. HitInv'
        BY <1>1, <2>2, <2>3, <2>6 DEF Make, HitInv, EntryTrue, TypeOK
    <2>10. AbortInv' /\ LifeInv'
        BY <1>1, <2>1, <2>2 DEF Make, AbortInv, LifeInv, Live, TypeOK
    <2> QED BY <2>8, <2>9, <2>10
<1>2. CASE Start(r)
    BY <1>2, ExecuteInv DEF Start, Live, boundVars, TypeOK
<1>3. CASE Retry(r)
    BY <1>3, ExecuteInv DEF Retry, Live, boundVars, TypeOK
<1>4. CASE Redirected(r)
    <2>1. [url EXCEPT ![r] = "elsewhere"] \in [Requests -> {"first", "fallback", "elsewhere"}]
        BY DEF TypeOK
    <2>2. redirects' \in 0 .. MaxRedirects
        BY <1>4 DEF Redirected, TypeOK
    <2>3. Live(r) /\ Execute(r, [url EXCEPT ![r] = "elsewhere"])
          /\ UNCHANGED <<rev, cacheVars, cancelled, changes, stops>>
        BY <1>4 DEF Redirected, Live
    <2> QED BY <2>1, <2>2, <2>3, ExecuteInv
<1>5. CASE Abort(r)
    <2>1. HitInv'
        BY <1>5 DEF Abort, HitInv, EntryTrue, cacheVars
    <2>2. CASE phase[r] = "Asking"
        <3>1. Ends(r, "Aborted")
            BY <1>5, <2>2 DEF Abort
        <3>2. TypeOK'
            BY <1>5, <3>1, EndsKeepsTypes DEF Abort, TypeOK, cacheVars, boundVars
        <3>3. AbortInv' /\ LifeInv'
            BY <1>5, <3>1 DEF Abort, Ends, AbortInv, LifeInv, Live, TypeOK
        <3> QED BY <2>1, <3>2, <3>3
    <2>3. CASE phase[r] = "Waiting"
        BY <1>5, <2>1, <2>3 DEF Abort, AbortInv, LifeInv, Live, TypeOK, cacheVars, boundVars
    <2> QED BY <1>5, <2>2, <2>3 DEF Abort
<1>6. ASSUME phase[r] = "Asking" PROVE r \notin cancelled /\ holds[r] \in Objects /\ outcome[r] = "None"
    BY <1>6 DEF AbortInv, LifeInv, Live, TypeOK
<1>7. ASSUME phase[r] = "Asking", NEW res \in {"Succeeded", "Failed"}, Ends(r, res),
             UNCHANGED <<rev, cacheVars, cancelled, boundVars>>
      PROVE  Inv'
    <2>1. HitInv'
        BY <1>7 DEF HitInv, EntryTrue, cacheVars
    <2>2. TypeOK'
        BY <1>7, EndsKeepsTypes DEF TypeOK, cacheVars, boundVars
    <2> QED BY <1>6, <1>7, <2>1, <2>2, EndsKeepsLife
<1>8. CASE TooMany(r)
    <2>1. HitInv'
        BY <1>8 DEF TooMany, HitInv, EntryTrue, cacheVars
    <2>2. CASE phase' = [phase EXCEPT ![r] = "Waiting"] /\ UNCHANGED <<holds, sent, part, outcome>>
        <3>1. tries' \in [Requests -> 0 .. MaxRetries - 1]
            BY <1>8, <2>2 DEF TooMany, TypeOK, Ends
        <3>2. url' \in [Requests -> {"first", "fallback", "elsewhere"}]
            BY <1>8, <2>2 DEF TooMany, TypeOK, Ends
        <3>3. TypeOK'
            BY <1>8, <2>2, <3>1, <3>2 DEF TooMany, TypeOK, cacheVars, boundVars
        <3>4. AbortInv' /\ LifeInv'
            BY <1>6, <1>8, <2>2 DEF TooMany, AbortInv, LifeInv, Live, TypeOK
        <3> QED BY <2>1, <3>3, <3>4
    <2>3. CASE Ends(r, "Failed")
        BY <1>7, <1>8, <2>3 DEF TooMany
    <2> QED BY <1>8, <2>2, <2>3 DEF TooMany
<1>9. CASE Fails(r) \/ FailsSoftly(r)
    BY <1>7, <1>9 DEF Fails, FailsSoftly
<1>10. CASE Downloaded(r)
    <2>1. PICK c \in 1 .. rev :
              /\ file' = c
              /\ entry' = [o \in Objects |->
                    IF o = holds[r] THEN Stored(r, c) ELSE Aged(entry[o])]
        BY <1>10 DEF Downloaded
    <2>2. c \in Contents
        BY DEF TypeOK, Contents
    <2>3. entry' \in [Objects -> Entries] /\ \A o \in Objects : EntryTrue(entry'[o], file')
        <3>1. Stored(r, c) \in Entries
            BY <2>2 DEF Stored, Entries
        <3>2. \A o \in Objects : entry[o] \in Entries
            BY DEF TypeOK
        <3> QED BY <2>1, <3>1, <3>2, AgedEntry DEF Stored, HitInv, EntryTrue
    <2>4. saved' \in Entries \cup {None} /\ (saved' # None => EntryTrue(saved', file'))
        BY <1>10, AgedEntry DEF Downloaded, TypeOK, HitInv, EntryTrue, AgedOrNone
    <2>5. HitInv'
        BY <2>3, <2>4 DEF HitInv
    <2>6. Ends(r, "Succeeded") /\ UNCHANGED <<rev, cancelled, boundVars>> /\ mapped' = holds[r]
        BY <1>10 DEF Downloaded
    <2>7. TypeOK'
        BY <1>6, <1>10, <2>1, <2>2, <2>3, <2>4, <2>6, EndsKeepsTypes DEF Downloaded, TypeOK, boundVars
    <2> QED BY <1>6, <1>10, <2>5, <2>6, <2>7, EndsKeepsLife DEF Downloaded
<1>11. CASE NotModified(r)
    <2> DEFINE o == holds[r]
               e == Entry(FALSE, sent[r], entry[o].md5, file # 0,
                          entry[o].md5 = sent[r] /\ file \in {0, sent[r]})
    <2>1. o \in Objects /\ entry' = [entry EXCEPT ![o] = e] /\ UNCHANGED <<file, saved>>
        BY <1>6, <1>11 DEF NotModified
    <2>2. e \in Entries /\ EntryTrue(e, file)
        BY <2>1 DEF Entries, EntryTrue, TypeOK
    <2>3. Ends(r, "Succeeded") /\ UNCHANGED <<rev, cancelled, boundVars>> /\ mapped' = o
        BY <1>11 DEF NotModified
    <2> HIDE DEF e, o
    <2>4. HitInv'
        BY <2>1, <2>2 DEF HitInv, EntryTrue, TypeOK
    <2>5. TypeOK'
        BY <2>1, <2>2, <2>3, EndsKeepsTypes DEF TypeOK, boundVars
    <2> QED BY <1>6, <1>11, <2>3, <2>4, <2>5, EndsKeepsLife DEF NotModified
<1> QED BY <1>1, <1>2, <1>3, <1>4, <1>5, <1>8, <1>9, <1>10, <1>11 DEF RequestNext, Answer

LEMMA NextInv == Inv /\ [Next]_vars => Inv'
<1> SUFFICES ASSUME Inv, [Next]_vars PROVE Inv'
    OBVIOUS
<1>1. CASE Publish
    <2>1. TypeOK'
        BY <1>1, CacheAssumption DEF Publish, Inv, TypeOK, cacheVars, requestVars, boundVars, Contents
    <2>2. HitInv' /\ AbortInv' /\ LifeInv'
        BY <1>1 DEF Publish, Inv, HitInv, EntryTrue, AbortInv, LifeInv, Live, cacheVars, requestVars
    <2> QED BY <2>1, <2>2 DEF Inv
<1>2. CASE UNCHANGED vars
    BY <1>2 DEF vars, Inv, TypeOK, HitInv, EntryTrue, AbortInv, LifeInv, Live, cacheVars,
                requestVars, boundVars
<1> QED BY <1>1, <1>2, CacheInv, RequestInv DEF Next

LEMMA InvHolds == Spec => []Inv
<1>1. Init => Inv
    BY InitInv
<1>2. Inv /\ [Next]_vars => Inv'
    BY NextInv
<1> QED BY <1>1, <1>2, PTL DEF Spec

-----------------------------------------------------------------------------
\* The variables of the cache and of its requests have the values that the code's
\* types and MAX_RETRIES allow.
THEOREM CacheTypeCorrect == Spec => []TypeOK
<1>1. Inv => TypeOK
    BY DEF Inv
<1> QED BY <1>1, InvHolds, PTL

\* No caller of resolveEntry() is sent to a file that is not what the entry says.
THEOREM HitsAreTrue == Spec => []HitIsTrue
<1>1. Inv => HitIsTrue
    BY DEF Inv, HitInv, EntryTrue, HitIsTrue, Matches, TypeOK
<1> QED BY <1>1, InvHolds, PTL

\* An aborted request never asks again and never reports anything but its abort.
THEOREM AbortsStick == Spec => []AbortSticks
<1>1. Inv => AbortSticks
    BY DEF Inv, AbortInv, AbortSticks
<1> QED BY <1>1, InvHolds, PTL
=============================================================================
