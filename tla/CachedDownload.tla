----------------------------- MODULE CachedDownload -----------------------------
(***************************************************************************)
(* One cached file of the launcher, as net/HttpMetaCache and the requests  *)
(* for it (net/NetRequest with a MetaCacheSink) see it: the file, the      *)
(* entry the cache has for it, the index on disk, and requests that hold   *)
(* an entry from the moment they are made until they end, while others     *)
(* finish, the cache is cleared and files change.                          *)
(*                                                                         *)
(* A content is the number of the publication it comes from, -1 if it is   *)
(* none, and stands for its own ETag and MD5 sum; published files are not  *)
(* empty.  Of a time stamp only matters whether it is the file's.          *)
(***************************************************************************)
EXTENDS Integers, FiniteSets

CONSTANTS
    Requests,     \* downloads of the file
    Mirrors,      \* those that ask a mirror first (setFallbackUrl)
    AcceptLocal,  \* those made with Option::AcceptLocalFiles
    Loaded,       \* the entry object read from the index
    None,         \* no entry
    MaxRetries,   \* MAX_RETRIES
    MaxRev,       \* bound: publications on the server
    MaxRedirects, \* bound: redirects that servers answer with
    MaxChanges,   \* bound: changes of the file by others
    MaxStops      \* bound: exits and crashes of the launcher

\* A request that needs an entry object of its own makes one (staleEntry).
Objects == Requests \cup {Loaded}

ASSUME CacheAssumption ==
    /\ Loaded \notin Requests /\ None \notin Objects
    /\ Mirrors \subseteq Requests /\ AcceptLocal \subseteq Requests
    /\ MaxRetries \in Nat \ {0} /\ MaxRev \in Nat \ {0}
    /\ MaxRedirects \in Nat /\ MaxChanges \in Nat /\ MaxStops \in Nat

VARIABLES
    rev,        \* the newest publication
    file,       \* the content of the file, 0 if there is none
    mapped,     \* the entry in m_entries
    entry,      \* the entry objects
    saved,      \* the entry in the index on disk
    phase,      \* a request's place: "Idle", "Made", "Asking", "Waiting", "Over"
    holds,      \* m_entry of its sink
    url,        \* m_url: "first", "fallback", "elsewhere"
    tries,      \* m_retry_count
    sent,       \* the ETag in If-None-Match, 0 if none
    part,       \* the requests whose temporary file is in place
    cancelled,  \* the requests in State::AbortedByUser
    outcome,    \* what a request has reported
    redirects, changes, stops

cacheVars == <<file, mapped, entry, saved>>
requestVars == <<phase, holds, url, tries, sent, part, cancelled, outcome>>
boundVars == <<redirects, changes, stops>>
vars == <<rev, cacheVars, requestVars, boundVars>>

\* An entry: `fresh' if its local time stamp is that of the file, `sure' (history)
\* unless it was renewed for a file that had been replaced meanwhile.
Entry(stale, etag, md5, fresh, sure) ==
    [stale |-> stale, etag |-> etag, md5 |-> md5, fresh |-> fresh, sure |-> sure]

StaleEntry == Entry(TRUE, 0, 0, FALSE, TRUE)

\* The entry as it is after the file was written by somebody else.
Aged(e) == [e EXCEPT !.fresh = FALSE]
AgedOrNone(e) == IF e = None THEN None ELSE Aged(e)

\* A start of the launcher with what earlier runs have left.
Init ==
    /\ rev = 1
    /\ file \in -1 .. rev
    /\ mapped \in {Loaded, None}
    /\ \E fresh \in {FALSE, file = 1} :
          entry = [o \in Objects |->
                      IF o = Loaded /\ mapped = Loaded THEN Entry(FALSE, 1, 1, fresh, TRUE)
                      ELSE StaleEntry]
    /\ saved = IF mapped = Loaded THEN entry[Loaded] ELSE None
    /\ phase = [r \in Requests |-> "Idle"]
    /\ holds = [r \in Requests |-> None]
    /\ url = [r \in Requests |-> "first"]
    /\ tries = [r \in Requests |-> 0]
    /\ sent = [r \in Requests |-> 0]
    /\ outcome = [r \in Requests |-> "None"]
    /\ part = {} /\ cancelled = {}
    /\ redirects = 0 /\ changes = 0 /\ stops = 0

-----------------------------------------------------------------------------
(* HttpMetaCache.                                                          *)

\* The file is there and is the one the entry was made for: by its time stamp, or
\* by its MD5 sum if that differs.
Matches(e) == file # 0 /\ (e.fresh \/ e.md5 = file)

\* resolveEntry(): request r is given object o, marked as stale by most callers.
\* An entry whose file is gone, has changed or is too old is disowned and an empty
\* one given out; if the file cannot be opened the entry stays.
Resolve(r, o, force) ==
    LET given == IF o = r THEN StaleEntry ELSE [entry[o] EXCEPT !.fresh = TRUE] IN
    /\ \/ o = mapped /\ mapped # None /\ Matches(entry[mapped]) /\ UNCHANGED mapped
       \/ o = r /\ mapped' = None
       \/ /\ o = r /\ mapped # None /\ file # 0 /\ ~entry[mapped].fresh
          /\ UNCHANGED mapped
    /\ entry' = [entry EXCEPT ![o] = [given EXCEPT !.stale = @ \/ force]]

\* What SaveNow() writes: stale entries are not saved.
Saved(m, es) == IF m = None THEN None ELSE IF es[m].stale THEN None ELSE es[m]

\* The timer of SaveEventually(), which all entries share, fires.
SaveNow ==
    /\ saved # Saved(mapped, entry)
    /\ saved' = Saved(mapped, entry)
    /\ UNCHANGED <<rev, file, mapped, entry, requestVars, boundVars>>

\* AssetUpdateTask evicts the entry of an index that it cannot read.
EvictEntry ==
    /\ mapped # None
    /\ \/ Matches(entry[mapped]) /\ entry' = [entry EXCEPT ![mapped].stale = TRUE]
          /\ UNCHANGED mapped
       \/ mapped' = None /\ UNCHANGED entry
    /\ UNCHANGED <<rev, file, saved, requestVars, boundVars>>

\* The user clears the cache, which is then saved: the files go, those half written
\* too, unless they cannot be deleted.
EvictAll ==
    /\ file' \in {0, file}
    /\ part' \in {{}, part}
    /\ entry' = [o \in Objects |-> LET e == entry[o] IN
                    Entry(e.stale \/ o = mapped, e.etag, e.md5, e.fresh /\ file' # 0, e.sure)]
    /\ mapped' = None
    /\ saved' = None
    /\ changes < MaxChanges /\ changes' = changes + 1
    /\ UNCHANGED <<rev, phase, holds, url, tries, sent, cancelled, outcome,
                   redirects, stops>>

\* Something else damages or deletes the file.
Touch ==
    /\ changes < MaxChanges /\ changes' = changes + 1
    /\ file' \in {0, -1} \ {file}
    /\ entry' = [o \in Objects |-> Aged(entry[o])]
    /\ saved' = AgedOrNone(saved)
    /\ UNCHANGED <<rev, mapped, requestVars, redirects, stops>>

\* The launcher is left, which saves the index, or dies, and is started again
\* (Load): what is in the index is believed until it is looked at.
Restart(crash) ==
    LET found == IF crash THEN saved ELSE Saved(mapped, entry) IN
    /\ stops < MaxStops /\ stops' = stops + 1
    /\ saved' = found
    /\ mapped' = IF found = None THEN None ELSE Loaded
    /\ entry' = [o \in Objects |->
                    IF o = Loaded /\ found # None THEN found ELSE StaleEntry]
    /\ phase' = [r \in Requests |-> "Idle"]
    /\ holds' = [r \in Requests |-> None]
    /\ url' = [r \in Requests |-> "first"]
    /\ tries' = [r \in Requests |-> 0]
    /\ sent' = [r \in Requests |-> 0]
    /\ outcome' = [r \in Requests |-> "None"]
    /\ part' = {} /\ cancelled' = {}
    /\ UNCHANGED <<rev, file, redirects, changes>>

-----------------------------------------------------------------------------
(* NetRequest: making and (re)starting a request.                          *)

\* A caller asks the cache and makes the download (Download::makeCached).
Make(r) ==
    /\ phase[r] = "Idle"
    /\ \E o \in {r, mapped} \ {None}, force \in BOOLEAN :
          /\ Resolve(r, o, force)
          /\ holds' = [holds EXCEPT ![r] = o]
    /\ phase' = [phase EXCEPT ![r] = "Made"]
    /\ UNCHANGED <<rev, file, saved, url, tries, sent, part, cancelled, outcome,
                   boundVars>>

\* The request ends and holds nothing any more: its reply and its temporary file are
\* gone, and it is not started again.
Ends(r, result) ==
    /\ phase' = [phase EXCEPT ![r] = "Over"]
    /\ outcome' = [outcome EXCEPT ![r] = result]
    /\ holds' = [holds EXCEPT ![r] = None]
    /\ url' = [url EXCEPT ![r] = "first"]
    /\ tries' = [tries EXCEPT ![r] = 0]
    /\ sent' = [sent EXCEPT ![r] = 0]
    /\ part' = part \ {r}

\* The sink opens a temporary file, and the request goes out; the server is asked
\* about the file if there is one.
Asks(r) ==
    /\ phase' = [phase EXCEPT ![r] = "Asking"]
    /\ sent' = [sent EXCEPT ![r] = IF file = 0 THEN 0 ELSE entry[holds[r]].etag]
    /\ part' = part \cup {r}
    /\ UNCHANGED <<outcome, holds, tries>>

\* Faulty variant: executeTask() starts an aborted request again.
ExecuteAnyway(r, at) ==
    IF ~entry[holds[r]].stale THEN Ends(r, "Succeeded")
    ELSE (Asks(r) /\ url' = at) \/ Ends(r, "Failed")

\* executeTask(): an aborted request says so, an entry that is no longer stale is a
\* cache hit, and the sink may fail to open its file.
Execute(r, at) ==
    IF r \in cancelled THEN Ends(r, "Aborted")
    ELSE IF ~entry[holds[r]].stale THEN Ends(r, "Succeeded")
    ELSE (Asks(r) /\ url' = at) \/ Ends(r, "Failed")

Start(r) ==
    /\ phase[r] = "Made"
    /\ Execute(r, url)
    /\ UNCHANGED <<rev, cacheVars, cancelled, boundVars>>

\* The timer of a retry fires.
Retry(r) ==
    /\ phase[r] = "Waiting"
    /\ Execute(r, url)
    /\ UNCHANGED <<rev, cacheVars, cancelled, boundVars>>

\* abort() ends a request that has a reply; one that waits for its retry ends when
\* the timer fires.
Abort(r) ==
    /\ phase[r] \in {"Asking", "Waiting"}
    /\ r \notin cancelled
    /\ cancelled' = cancelled \cup {r}
    /\ IF phase[r] = "Asking" THEN Ends(r, "Aborted")
       ELSE UNCHANGED <<phase, holds, url, tries, sent, part, outcome>>
    /\ UNCHANGED <<rev, cacheVars, boundVars>>

-----------------------------------------------------------------------------
(* NetRequest::downloadFinished.                                           *)

\* Option::AcceptLocalFiles: the file there is will do.
WillDo(r) == r \in AcceptLocal /\ file # 0

\* A redirect: the reply is dropped and the new address asked.
Redirected(r) ==
    /\ phase[r] = "Asking"
    /\ redirects < MaxRedirects /\ redirects' = redirects + 1
    /\ Execute(r, [url EXCEPT ![r] = "elsewhere"])
    /\ UNCHANGED <<rev, cacheVars, cancelled, changes, stops>>

\* Faulty variant: the attempts are not counted.
TooManyForEver(r) ==
    /\ phase[r] = "Asking" /\ r \in Mirrors /\ ~WillDo(r)
    /\ phase' = [phase EXCEPT ![r] = "Waiting"]
    /\ UNCHANGED <<rev, cacheVars, holds, url, tries, sent, part, cancelled, outcome, boundVars>>

\* A mirror's answer 429 is retried after a while, and after MAX_RETRIES the official
\* address is asked, from which the count starts again.
TooMany(r) ==
    /\ phase[r] = "Asking" /\ r \in Mirrors /\ ~WillDo(r)
    /\ \/ /\ tries[r] + 1 < MaxRetries
          /\ tries' = [tries EXCEPT ![r] = @ + 1]
          /\ phase' = [phase EXCEPT ![r] = "Waiting"]
          /\ UNCHANGED <<url, holds, sent, part, outcome>>
       \/ /\ tries[r] + 1 >= MaxRetries /\ url[r] # "fallback"
          /\ tries' = [tries EXCEPT ![r] = 0]
          /\ url' = [url EXCEPT ![r] = "fallback"]
          /\ phase' = [phase EXCEPT ![r] = "Waiting"]
          /\ UNCHANGED <<holds, sent, part, outcome>>
       \/ /\ tries[r] + 1 >= MaxRetries /\ url[r] = "fallback"
          /\ Ends(r, "Failed")
    /\ UNCHANGED <<rev, cacheVars, cancelled, boundVars>>

\* An error or a timeout; also an answer that the sink cannot take: data left over
\* in the reply, a failing disk, a temporary file that is gone.
Fails(r) ==
    /\ phase[r] = "Asking"
    /\ Ends(r, "Failed")
    /\ UNCHANGED <<rev, cacheVars, cancelled, boundVars>>

\* An error other than a timeout, and the file there is will do.
FailsSoftly(r) ==
    /\ phase[r] = "Asking" /\ WillDo(r)
    /\ Ends(r, "Succeeded")
    /\ UNCHANGED <<rev, cacheVars, cancelled, boundVars>>

\* Faulty variant: the MD5 sum is that of the answer before.
StoredAs(r, c) == Entry(FALSE, c, entry[holds[r]].md5, TRUE, TRUE)

\* The entry of a request whose answer was content c.
Stored(r, c) == Entry(FALSE, c, c, TRUE, TRUE)

\* The answer is committed to the file, and the entry goes into the map
\* (FileSink::finalize, MetaCacheSink::finalizeCache).
Downloaded(r) ==
    /\ phase[r] = "Asking" /\ r \in part
    /\ \E c \in 1 .. rev :
          /\ c # sent[r]
          /\ file' = c
          /\ entry' = [o \in Objects |->
                IF o = holds[r] THEN Stored(r, c) ELSE Aged(entry[o])]
    /\ saved' = AgedOrNone(saved)
    /\ mapped' = holds[r]
    /\ Ends(r, "Succeeded")
    /\ UNCHANGED <<rev, cancelled, boundVars>>

\* 304: what was there when the request was made is still current, and the entry is
\* renewed for whatever file is there now.
NotModified(r) ==
    /\ phase[r] = "Asking" /\ sent[r] # 0
    /\ entry' = [entry EXCEPT ![holds[r]] =
                    Entry(FALSE, sent[r], @.md5, file # 0,
                          @.md5 = sent[r] /\ file \in {0, sent[r]})]
    /\ mapped' = holds[r]
    /\ Ends(r, "Succeeded")
    /\ UNCHANGED <<rev, file, saved, cancelled, boundVars>>

-----------------------------------------------------------------------------
Publish ==
    /\ rev < MaxRev
    /\ rev' = rev + 1
    /\ UNCHANGED <<cacheVars, requestVars, boundVars>>

Answer(r) ==
    \/ Redirected(r) \/ TooMany(r) \/ Fails(r) \/ FailsSoftly(r)
    \/ Downloaded(r) \/ NotModified(r)

RequestNext(r) == Make(r) \/ Start(r) \/ Abort(r) \/ Retry(r) \/ Answer(r)

CacheNext == SaveNow \/ EvictEntry \/ EvictAll \/ Touch \/ \E crash \in BOOLEAN : Restart(crash)

Next == Publish \/ CacheNext \/ \E r \in Requests : RequestNext(r)

Spec == Init /\ [][Next]_vars

\* Timers fire, and a request is answered or times out.
FairSpec == Spec /\ \A r \in Requests : WF_vars(Retry(r) \/ Answer(r))

-----------------------------------------------------------------------------
Contents == 1 .. MaxRev

Entries ==
    [stale : BOOLEAN, etag : {0} \cup Contents, md5 : {0} \cup Contents,
     fresh : BOOLEAN, sure : BOOLEAN]

TypeOK ==
    /\ rev \in Contents
    /\ file \in {-1, 0} \cup Contents
    /\ mapped \in Objects \cup {None}
    /\ entry \in [Objects -> Entries]
    /\ saved \in Entries \cup {None}
    /\ phase \in [Requests -> {"Idle", "Made", "Asking", "Waiting", "Over"}]
    /\ holds \in [Requests -> Objects \cup {None}]
    /\ url \in [Requests -> {"first", "fallback", "elsewhere"}]
    /\ tries \in [Requests -> 0 .. MaxRetries - 1]
    /\ sent \in [Requests -> {0} \cup Contents]
    /\ outcome \in [Requests -> {"None", "Succeeded", "Failed", "Aborted"}]
    /\ part \subseteq Requests /\ cancelled \subseteq Requests
    /\ redirects \in 0 .. MaxRedirects
    /\ changes \in 0 .. MaxChanges
    /\ stops \in 0 .. MaxStops

\* A cache hit is true (HttpMetaCache::resolveEntry): the file a caller is sent to
\* without a question to the server is the publication its entry names, whatever was
\* downloaded, damaged, evicted, saved or lost before -- unless a server confirmed an
\* entry whose file had been replaced since it was asked.
HitIsTrue ==
    mapped # None /\ ~entry[mapped].stale /\ Matches(entry[mapped]) /\ entry[mapped].sure
        => file = entry[mapped].etag

\* An abort is kept (NetRequest::abort): the request asks no more, also when the timer
\* of a retry fires after it, and reports nothing else.
AbortSticks ==
    \A r \in cancelled : phase[r] # "Asking" /\ outcome[r] \in {"None", "Aborted"}

\* A request that was started ends: retries, the fallback and aborts while it waits
\* do not keep it for ever.
EveryRequestEnds ==
    \A r \in Requests : phase[r] \in {"Asking", "Waiting"} ~> phase[r] \in {"Over", "Idle"}
=============================================================================
