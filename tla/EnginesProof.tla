----------------------------- MODULE EnginesProof -----------------------------
(***************************************************************************)
(* Proofs about Engines, for any number of downloads, attempts, aborts,    *)
(* stalls and crashes: each start is announced to have ended at most once, *)
(* a download that waits for aria2 is one the manager asks about, and an   *)
(* end that nobody is told of is one of an abort or of a 429.              *)
(*                                                                         *)
(* The first rests on an invariant: a download waits for at most one thing *)
(* at a time (a reply, the timer after a 429, the answer to addUri, or its *)
(* engine), and while it waits, or runs, its end has not been announced.   *)
(* The last adds to it why a download that is not running may be mute.     *)
(***************************************************************************)
EXTENDS Engines, TLAPS

Record == [engine : {"aria2", "PCL"},
           state : {"Inactive", "Running", "Succeeded", "Failed", "AbortedByUser"},
           finished : BOOLEAN, gid : Nat, task : Nat,
           usingPcl : BOOLEAN, watched : BOOLEAN, qt : BOOLEAN, again : BOOLEAN,
           starts : Nat, ends : Nat, limited : BOOLEAN]

\* It waits for its engine.
AtEngine(r) == ~r.finished /\ (r.gid # 0 \/ r.task # 0)

\* A download knows the numbers of its own engine only, and that of a task it uses.
OwnNumber(r) ==
    /\ r.engine = "aria2" => r.task = 0
    /\ r.engine = "PCL" => r.gid = 0
    /\ r.usingPcl => r.task # 0

\* Started, and nothing is under way: what an operation that announces starts from.
Ready(r) ==
    /\ r \in Record /\ OwnNumber(r)
    /\ r.ends < r.starts
    /\ ~r.qt /\ ~r.again /\ ~AtEngine(r)

\* The invariant of a download; `adding' says that an addUri for it is under way.
Sound(r, adding) ==
    /\ r \in Record /\ OwnNumber(r)
    /\ adding => r.engine = "aria2"
    /\ r.ends <= r.starts
    /\ r.state = "Running" \/ r.qt \/ r.again \/ adding \/ AtEngine(r) => r.ends < r.starts
    /\ r.qt => ~r.again /\ ~adding /\ ~AtEngine(r)
    /\ r.again => ~adding /\ ~AtEngine(r)
    /\ adding => ~AtEngine(r)

\* The downloads for which an addUri is among these calls.
AddsOf(cs) == {c.of : c \in {b \in cs : b.kind = "add"}}

Adding(d) == d \in AddsOf(calls)

IsCall(c) ==
    /\ c = [kind |-> c.kind, of |-> c.of, answer |-> c.answer, new |-> c.new]
    /\ c.new \in Nat
    /\ c.kind = "add" => c.of \in Downloads
    /\ c.kind \in {"tell", "remove", "readd"} => c.of # 0
    /\ c.kind \in {"add", "readd"} /\ c.answer = "done" => c.new # 0

\* One addUri at a time for a download.
CallsOK(cs) ==
    /\ \A c \in cs : IsCall(c)
    /\ \A b, c \in cs : b.kind = "add" /\ c.kind = "add" /\ b.of = c.of => b = c

EngineInv ==
    /\ dl \in [Downloads -> Record]
    /\ \A d \in Downloads : Sound(dl[d], Adding(d))
    /\ CallsOK(calls)
    /\ 0 \notin active

-----------------------------------------------------------------------------
(* The operations on a record.                                             *)

LEMMA AnnounceSound ==
    ASSUME NEW r, Ready(r), NEW s, s \in {"Succeeded", "Failed", "AbortedByUser"}
    PROVE  Sound(Announce(r, s), FALSE)
  <1>1. r \in Record /\ r.ends \in Nat /\ r.starts \in Nat
    BY DEF Ready, Record
  <1>2. PICK q : q = Announce(r, s)
    OBVIOUS
  <1>3. \A p \in Record : \A n \in Nat : [p EXCEPT !.ends = n] \in Record
    BY DEF Record
  <1>4. [r EXCEPT !.state = s] \in Record
    BY <1>1 DEF Record
  <1>5. [[r EXCEPT !.state = s] EXCEPT !.ends = r.ends + 1] \in Record
    <2>1. r.ends + 1 \in Nat
      BY <1>1
    <2> QED BY <1>3, <1>4, <2>1, Zenon
  <1>6. q \in Record
    <2>1. q = [[r EXCEPT !.state = s, !.ends = r.ends + 1] EXCEPT !.limited = FALSE]
      BY <1>1, <1>2 DEF Announce, Record
    <2> QED BY <1>5, <2>1 DEF Record
  <1>7. /\ q.engine = r.engine /\ q.usingPcl = r.usingPcl /\ q.finished = r.finished /\ q.gid = r.gid /\ q.task = r.task
        /\ q.qt = r.qt /\ q.again = r.again /\ q.starts = r.starts
        /\ q.ends = r.ends + 1 /\ q.state = s
    BY <1>1, <1>2 DEF Announce, Record
  <1>8. q.state # "Running"
    BY <1>7
  <1>9. q.ends <= q.starts
    BY <1>1, <1>7 DEF Ready
  <1>10. Sound(q, FALSE)
    BY <1>6, <1>7, <1>8, <1>9 DEF Ready, Sound, OwnNumber, AtEngine
  <1> QED BY <1>2, <1>10

LEMMA EmitSound ==
    ASSUME NEW r, Ready(r), NEW s, s \in {"Succeeded", "Failed"}
    PROVE  Sound(Emit(r, s), FALSE)
  <1>1. CASE r.state = "Running"
    BY <1>1, AnnounceSound DEF Emit
  <1>2. CASE r.state # "Running"
    BY <1>2 DEF Emit, Ready, Sound, Record
  <1> QED BY <1>1, <1>2

LEMMA AnnounceAbortSound ==
    ASSUME NEW r, Ready(r)
    PROVE  Sound(AnnounceAbort(r), FALSE)
  BY AnnounceSound DEF AnnounceAbort

LEMMA RequestedSound ==
    ASSUME NEW r, Ready(r), NEW q \in Requested(r)
    PROVE  Sound(q, FALSE)
  <1>1. CASE q = [r EXCEPT !.state = "Running", !.qt = TRUE]
    <2>1. r \in Record
      BY DEF Ready
    <2>2. q \in Record
      BY <1>1, <2>1 DEF Record
    <2>3. /\ q.engine = r.engine /\ q.usingPcl = r.usingPcl /\ q.finished = r.finished /\ q.gid = r.gid /\ q.task = r.task
          /\ q.again = r.again /\ q.starts = r.starts /\ q.ends = r.ends
      BY <1>1, <2>1 DEF Record
    <2>4. r.ends \in Nat /\ r.starts \in Nat
      BY <2>1 DEF Record
    <2> QED BY <2>2, <2>3, <2>4 DEF Ready, Sound, OwnNumber, AtEngine
  <1> QED BY <1>1, AnnounceSound, AnnounceAbortSound DEF Requested

LEMMA RepliedSound ==
    ASSUME NEW r, Ready(r), NEW q \in Replied(r)
    PROVE  Sound(q, FALSE)
  BY AnnounceSound, AnnounceAbortSound DEF Replied

LEMMA ExaminedSound ==
    ASSUME NEW r, Ready(r), NEW outcome
    PROVE  Sound(Examined(r, outcome), FALSE)
  BY EmitSound, AnnounceAbortSound DEF Examined

LEMMA GivenUpSound ==
    ASSUME NEW r, Ready(r)
    PROVE  Sound(GivenUp(r), FALSE)
  BY EmitSound, AnnounceAbortSound DEF GivenUp

\* A download that has not ended is ready again once its engine's part is over.
LEMMA OverReady ==
    ASSUME NEW r, Sound(r, FALSE), AtEngine(r)
    PROVE  Ready(Over(r))
  BY DEF Over, Sound, Ready, Record, OwnNumber, AtEngine

-----------------------------------------------------------------------------
(* The operations on calls.                                                *)

LEMMA WithKept ==
    ASSUME NEW cs, CallsOK(cs), NEW kind, kind # "add", NEW gids, 0 \notin gids
    PROVE  CallsOK(With(cs, kind, gids)) /\ AddsOf(With(cs, kind, gids)) = AddsOf(cs)
  <1>1. \A g \in gids : Call(kind, g).kind = kind /\ IsCall(Call(kind, g))
    BY DEF Call, IsCall
  <1>2. \A c \in With(cs, kind, gids) : c \in cs \/ (c.kind # "add" /\ IsCall(c))
    BY <1>1 DEF With
  <1>3. cs \subseteq With(cs, kind, gids)
    BY DEF With
  <1> QED BY <1>2, <1>3 DEF CallsOK, AddsOf

LEMMA AddedCalls ==
    ASSUME NEW cs, CallsOK(cs), NEW kind, kind # "add", NEW gids,
           0 \notin gids,
           NEW new, new = cs \cup {Call(kind, g) : g \in gids}
    PROVE  CallsOK(new) /\ AddsOf(new) = AddsOf(cs)
  <1>1. \A g \in gids : Call(kind, g).kind = kind /\ IsCall(Call(kind, g))
    BY DEF Call, IsCall
  <1> QED BY <1>1 DEF CallsOK, AddsOf

LEMMA AddCalled ==
    ASSUME NEW cs, CallsOK(cs), NEW d \in Downloads, d \notin AddsOf(cs)
    PROVE  LET new == cs \cup {Call("add", d)} IN
           CallsOK(new) /\ AddsOf(new) = AddsOf(cs) \cup {d}
  <1>1. /\ Call("add", d).kind = "add" /\ Call("add", d).of = d
        /\ IsCall(Call("add", d))
    BY DEF Call, IsCall
  <1> QED BY <1>1 DEF CallsOK, AddsOf

LEMMA CallRemoved ==
    ASSUME NEW cs, CallsOK(cs), NEW c \in cs
    PROVE  /\ CallsOK(cs \ {c})
           /\ c.kind # "add" => AddsOf(cs \ {c}) = AddsOf(cs)
           /\ c.kind = "add" => AddsOf(cs \ {c}) = AddsOf(cs) \ {c.of}
  BY DEF CallsOK, AddsOf

\* A call that is answered is still that call.
LEMMA AnswerIsCall ==
    ASSUME NEW c, IsCall(c), NEW a, NEW n \in Nat,
           c.kind \in {"add", "readd"} /\ a = "done" => n # 0
    PROVE  LET b == [c EXCEPT !.answer = a, !.new = n] IN
           IsCall(b) /\ b.kind = c.kind /\ b.of = c.of
  <1> DEFINE e == [kind |-> c.kind, of |-> c.of, answer |-> a, new |-> n]
  <1>1. [c EXCEPT !.answer = a, !.new = n] = e
    <2>1. c = [kind |-> c.kind, of |-> c.of, answer |-> c.answer, new |-> c.new]
      BY DEF IsCall
    <2>2. PICK b : b = [c EXCEPT !.answer = a]
      OBVIOUS
    <2>3. b = [kind |-> c.kind, of |-> c.of, answer |-> a, new |-> c.new]
      BY <2>1, <2>2
    <2>4. [b EXCEPT !.new = n] = e
      BY <2>3
    <2> QED BY <2>2, <2>4
  <1>2. IsCall(e) /\ e.kind = c.kind /\ e.of = c.of
    BY DEF IsCall
  <1> QED BY <1>1, <1>2

LEMMA FailingKept ==
    ASSUME NEW cs, CallsOK(cs)
    PROVE  CallsOK(Failing(cs)) /\ AddsOf(Failing(cs)) = AddsOf(cs)
  <1> DEFINE F(c) == IF c.answer = "sent" /\ c.kind # "remove"
                     THEN [c EXCEPT !.answer = "failed"] ELSE c
             rest == {b \in cs : b.kind # "shutdown"}
  <1>1. \A c \in cs : IsCall(F(c)) /\ F(c).kind = c.kind /\ F(c).of = c.of
    <2>1. TAKE c \in cs
    <2>2. IsCall(c)
      BY DEF CallsOK
    <2> QED BY <2>2 DEF IsCall
  <1>2. Failing(cs) = {F(c) : c \in rest}
    BY DEF Failing
  <1> HIDE DEF F
  <1> QED BY <1>1, <1>2 DEF CallsOK, AddsOf

LEMMA CallReplaced ==
    ASSUME NEW cs, CallsOK(cs), NEW c \in cs,
           NEW b, IsCall(b), b.kind = c.kind, b.of = c.of
    PROVE  /\ CallsOK((cs \ {c}) \cup {b})
           /\ AddsOf((cs \ {c}) \cup {b}) = AddsOf(cs)
  BY DEF CallsOK, AddsOf

-----------------------------------------------------------------------------
(* Steps of one download.                                                  *)

LEMMA OneChanged ==
    ASSUME EngineInv, NEW d \in Downloads, NEW q,
           dl' = [dl EXCEPT ![d] = q],
           Sound(q, Adding(d)'),
           CallsOK(calls'),
           \A e \in Downloads \ {d} : Adding(e)' = Adding(e),
           0 \notin active'
    PROVE  EngineInv'
  <1>1. q \in Record
    BY DEF Sound
  <1>2. dl' \in [Downloads -> Record]
    BY <1>1 DEF EngineInv
  <1>3. ASSUME NEW e \in Downloads
        PROVE  Sound(dl'[e], Adding(e)')
    BY DEF EngineInv
  <1> QED BY <1>2, <1>3 DEF EngineInv

\* No addUri is under way, before or after.
LEMMA OneReplaced ==
    ASSUME EngineInv, NEW d \in Downloads, ~Adding(d), UNCHANGED <<calls, active>>, NEW q,
           dl' = [dl EXCEPT ![d] = q], Sound(q, FALSE)
    PROVE  EngineInv'
  <1>1. \A e \in Downloads : Adding(e)' = Adding(e)
    BY DEF Adding
  <1>2. Adding(d)' = FALSE
    BY <1>1
  <1>3. CallsOK(calls') /\ 0 \notin active'
    BY DEF EngineInv
  <1> QED BY <1>1, <1>2, <1>3, OneChanged

\* The Qt request of a download that is ready, or the failure for want of it.
LEMMA FallBackSound ==
    ASSUME NEW d, NEW r, Ready(r), FallBack(d, r)
    PROVE  \E q : dl' = [dl EXCEPT ![d] = q] /\ Sound(q, FALSE)
  <1>1. CASE dl' = [dl EXCEPT ![d] = Emit(r, "Failed")]
    BY <1>1, EmitSound
  <1>2. CASE UseQt(d, r)
    BY <1>2, RequestedSound DEF UseQt
  <1> QED BY <1>1, <1>2 DEF FallBack

LEMMA Aria2Executes ==
    ASSUME EngineInv, NEW d \in Downloads, ~Adding(d),
           NEW r0 \in Record, OwnNumber(r0), r0.engine = "aria2",
           r0.ends < r0.starts, ~r0.qt, ~r0.again,
           Aria2Execute(d, r0)
    PROVE  EngineInv'
  <1>1. PICK r : r = Clean(r0)
    OBVIOUS
  <1>2. Ready(r) /\ r.engine = "aria2"
    BY <1>1 DEF Clean, Ready, Record, OwnNumber, AtEngine
  <1>3. CASE UseQt(d, r) /\ UNCHANGED aria2Vars
    <2>1. UNCHANGED <<calls, active>>
      BY <1>3 DEF aria2Vars, managerVars
    <2> QED BY <1>2, <1>3, <2>1, RequestedSound, OneReplaced DEF UseQt
  <1>4. CASE dl' = [dl EXCEPT ![d] = AnnounceAbort(r)] /\ UNCHANGED aria2Vars
    <2>1. UNCHANGED <<calls, active>>
      BY <1>4 DEF aria2Vars, managerVars
    <2> QED BY <1>2, <1>4, <2>1, AnnounceAbortSound, OneReplaced
  <1>5. CASE FallBack(d, r) /\ UNCHANGED aria2Vars
    <2>1. UNCHANGED <<calls, active>>
      BY <1>5 DEF aria2Vars, managerVars
    <2> QED BY <1>2, <1>5, <2>1, FallBackSound, OneReplaced
  <1>6. CASE dl' = [dl EXCEPT ![d] = Emit(r, "Failed")] /\ UNCHANGED <<calls, active>>
    BY <1>2, <1>6, EmitSound, OneReplaced
  <1>7. CASE dl' = [dl EXCEPT ![d] = r] /\ calls' = calls \cup {Call("add", d)}
             /\ UNCHANGED active
    <2>1. CallsOK(calls') /\ AddsOf(calls') = AddsOf(calls) \cup {d}
      BY <1>7, AddCalled DEF EngineInv, Adding
    <2>2. \A e \in Downloads \ {d} : Adding(e)' = Adding(e)
      BY <2>1 DEF Adding
    <2>3. Adding(d)' = TRUE
      BY <2>1 DEF Adding
    <2>4. Sound(r, TRUE)
      BY <1>2 DEF Ready, Sound, Record
    <2> QED BY <1>7, <2>1, <2>2, <2>3, <2>4, OneChanged DEF EngineInv
  <1> QED BY <1>1, <1>3, <1>4, <1>5, <1>6, <1>7 DEF Aria2Execute, managerVars

LEMMA PclExecutes ==
    ASSUME EngineInv, NEW d \in Downloads, ~Adding(d),
           NEW r0 \in Record, OwnNumber(r0), r0.engine = "PCL",
           r0.ends < r0.starts, ~r0.qt, ~r0.again,
           PclExecute(d, r0), UNCHANGED aria2Vars
    PROVE  EngineInv'
  <1>1. PICK r : r = CleanOfPcl(r0)
    OBVIOUS
  <1>2. Ready(r) /\ r.engine = "PCL"
    BY <1>1 DEF CleanOfPcl, Ready, Record, OwnNumber, AtEngine
  <1>3. UNCHANGED <<calls, active>>
    BY DEF aria2Vars, managerVars
  <1>4. CASE UseQt(d, r)
    BY <1>2, <1>3, <1>4, RequestedSound, OneReplaced DEF UseQt
  <1>5. CASE dl' = [dl EXCEPT ![d] = AnnounceAbort(r)]
    BY <1>2, <1>3, <1>5, AnnounceAbortSound, OneReplaced
  <1>6. CASE dl' = [dl EXCEPT ![d] = Emit(r, "Failed")]
    BY <1>2, <1>3, <1>6, EmitSound, OneReplaced
  <1>7. CASE FallBack(d, r)
    BY <1>2, <1>3, <1>7, FallBackSound, OneReplaced
  <1>8. ASSUME NEW t \in Tasks,
               dl' = [dl EXCEPT ![d] = [r EXCEPT !.task = t, !.usingPcl = TRUE,
                                                 !.watched = TRUE]]
        PROVE  EngineInv'
    <2>1. PICK q : q = [r EXCEPT !.task = t, !.usingPcl = TRUE, !.watched = TRUE]
      OBVIOUS
    <2>2. t \in Nat /\ t # 0
      BY PclAssumption DEF Tasks
    <2>3. q \in Record
      BY <1>2, <2>1, <2>2 DEF Ready, Record
    <2>4. /\ q.engine = r.engine /\ q.gid = r.gid /\ q.qt = r.qt /\ q.again = r.again
          /\ q.task = t /\ q.starts = r.starts /\ q.ends = r.ends
      BY <1>2, <2>1 DEF Ready, Record
    <2>5. r.starts \in Nat /\ r.ends \in Nat
      BY <1>2 DEF Ready, Record
    <2>6. Sound(q, FALSE)
      BY <1>2, <2>2, <2>3, <2>4, <2>5 DEF Ready, Sound, OwnNumber
    <2> QED BY <1>3, <1>8, <2>1, <2>6, OneReplaced
  <1> QED BY <1>1, <1>4, <1>5, <1>6, <1>7, <1>8 DEF PclExecute

-----------------------------------------------------------------------------
(* Steps of the job, and of the request a download has inherited.          *)

LEMMA Executes ==
    ASSUME EngineInv, NEW d \in Downloads, ~Adding(d),
           NEW r \in Record, OwnNumber(r), r.ends < r.starts, ~r.qt, ~r.again,
           Execute(d, r)
    PROVE  EngineInv'
  BY Aria2Executes, PclExecutes DEF Execute

\* Task::start() leaves a record.
LEMMA Started ==
    ASSUME EngineInv, NEW d \in Downloads,
           NEW r, r = [dl[d] EXCEPT !.state = "Running", !.starts = @ + 1]
    PROVE  /\ r \in Record
           /\ r.engine = dl[d].engine /\ r.usingPcl = dl[d].usingPcl /\ r.gid = dl[d].gid
           /\ r.task = dl[d].task /\ r.qt = dl[d].qt /\ r.again = dl[d].again
           /\ r.starts = dl[d].starts + 1 /\ r.ends = dl[d].ends
  <1>1. dl[d] \in Record
    BY DEF EngineInv
  <1>2. \A q \in Record : \A n \in Nat : [q EXCEPT !.starts = n] \in Record
    BY DEF Record
  <1>3. [dl[d] EXCEPT !.state = "Running"] \in Record /\ dl[d].starts + 1 \in Nat
    BY <1>1 DEF Record
  <1>4. [[dl[d] EXCEPT !.state = "Running"] EXCEPT !.starts = dl[d].starts + 1] \in Record
    BY <1>2, <1>3, Zenon
  <1> QED BY <1>1, <1>4 DEF Record

LEMMA StartStep ==
    ASSUME EngineInv, NEW d \in Downloads, Start(d)
    PROVE  EngineInv'
  <1>1. PICK r : r = [dl[d] EXCEPT !.state = "Running", !.starts = @ + 1]
    OBVIOUS
  <1>2. Sound(dl[d], Adding(d)) /\ dl[d].ends \in Nat /\ dl[d].starts \in Nat
    BY DEF EngineInv, Record
  <1>3. ~Adding(d) /\ ~dl[d].qt /\ ~dl[d].again
    BY <1>2 DEF Start, Pending, Sound
  <1>4. /\ r \in Record
        /\ r.engine = dl[d].engine /\ r.usingPcl = dl[d].usingPcl /\ r.gid = dl[d].gid
        /\ r.task = dl[d].task /\ ~r.qt /\ ~r.again
        /\ r.starts = dl[d].starts + 1 /\ r.ends = dl[d].ends
    BY <1>1, <1>3, Started
  <1>5. OwnNumber(r) /\ r.ends < r.starts
    BY <1>2, <1>4 DEF Sound, OwnNumber
  <1>6. Execute(d, r)
    BY <1>1 DEF Start
  <1> QED BY <1>3, <1>4, <1>5, <1>6, Executes

LEMMA RedirectStep ==
    ASSUME EngineInv, NEW d \in Downloads, Redirect(d)
    PROVE  EngineInv'
  <1>1. PICK r : r = [dl[d] EXCEPT !.qt = FALSE]
    OBVIOUS
  <1>2. Sound(dl[d], Adding(d)) /\ dl[d] \in Record /\ dl[d].qt
    BY DEF EngineInv, Redirect
  <1>3. /\ r \in Record /\ r.engine = dl[d].engine /\ r.usingPcl = dl[d].usingPcl /\ r.gid = dl[d].gid
        /\ r.task = dl[d].task /\ r.again = dl[d].again /\ ~r.qt
        /\ r.starts = dl[d].starts /\ r.ends = dl[d].ends
    BY <1>1, <1>2 DEF Record
  <1>4. ~Adding(d) /\ ~r.again /\ r.ends < r.starts /\ OwnNumber(r)
    BY <1>2, <1>3 DEF Sound, OwnNumber
  <1> QED BY <1>1, <1>3, <1>4, Executes DEF Redirect

LEMMA AskAgainStep ==
    ASSUME EngineInv, NEW d \in Downloads, AskAgain(d)
    PROVE  EngineInv'
  <1>1. PICK r : r = [dl[d] EXCEPT !.again = FALSE]
    OBVIOUS
  <1>2. Sound(dl[d], Adding(d)) /\ dl[d] \in Record /\ dl[d].again
    BY DEF EngineInv, AskAgain
  <1>3. /\ r \in Record /\ r.engine = dl[d].engine /\ r.usingPcl = dl[d].usingPcl /\ r.gid = dl[d].gid
        /\ r.task = dl[d].task /\ ~r.again /\ r.qt = dl[d].qt
        /\ r.starts = dl[d].starts /\ r.ends = dl[d].ends
    BY <1>1, <1>2 DEF Record
  <1>4. ~Adding(d) /\ ~r.qt /\ r.ends < r.starts /\ OwnNumber(r)
    BY <1>2, <1>3 DEF Sound, OwnNumber
  <1> QED BY <1>1, <1>3, <1>4, Executes DEF AskAgain

\* A reply is awaited: then nothing else is.
LEMMA ReplyReady ==
    ASSUME EngineInv, NEW d \in Downloads, dl[d].qt
    PROVE  ~Adding(d) /\ Ready([dl[d] EXCEPT !.qt = FALSE])
  BY DEF EngineInv, Sound, Ready, Record, OwnNumber, AtEngine

LEMMA ReplyEndsStep ==
    ASSUME EngineInv, NEW d \in Downloads, ReplyEnds(d), UNCHANGED <<calls, active>>
    PROVE  EngineInv'
  BY ReplyReady, RepliedSound, OneReplaced DEF ReplyEnds

LEMMA ReplyLimitedStep ==
    ASSUME EngineInv, NEW d \in Downloads, ReplyLimited(d), UNCHANGED <<calls, active>>
    PROVE  EngineInv'
  <1>1. PICK r : r = [dl[d] EXCEPT !.qt = FALSE]
    OBVIOUS
  <1>2. ~Adding(d) /\ Ready(r) /\ dl[d] \in Record
    BY <1>1, ReplyReady DEF ReplyLimited, EngineInv
  <1>3. PICK q : q = [dl[d] EXCEPT !.qt = FALSE, !.state = "Inactive", !.again = TRUE,
                                   !.limited = TRUE]
    OBVIOUS
  <1>4. q \in Record
    BY <1>2, <1>3 DEF Record
  <1>5. /\ q.engine = r.engine /\ q.usingPcl = r.usingPcl /\ q.finished = r.finished /\ q.gid = r.gid /\ q.task = r.task
        /\ q.qt = r.qt /\ q.starts = r.starts /\ q.ends = r.ends
    BY <1>1, <1>2, <1>3 DEF Record
  <1>6. r.starts \in Nat /\ r.ends \in Nat
    BY <1>2 DEF Ready, Record
  <1>7. Sound(q, FALSE)
    BY <1>2, <1>4, <1>5, <1>6 DEF Ready, Sound, OwnNumber, AtEngine
  <1>8. dl' = [dl EXCEPT ![d] = q]
    BY <1>3 DEF ReplyLimited, EngineInv
  <1> QED BY <1>2, <1>7, <1>8, OneReplaced

LEMMA Aria2AbortStep ==
    ASSUME EngineInv, NEW d \in Downloads, Pending(d), Aria2Abort(d)
    PROVE  EngineInv'
  <1>1. PICK q : q = [dl[d] EXCEPT !.state = "AbortedByUser", !.watched = FALSE]
    OBVIOUS
  <1>2. dl' = [dl EXCEPT ![d] = q]
    BY <1>1 DEF Aria2Abort, EngineInv
  <1>3. CallsOK(calls') /\ AddsOf(calls') = AddsOf(calls)
    BY WithKept DEF Aria2Abort, EngineInv
  <1>4. \A e \in Downloads : Adding(e)' = Adding(e)
    BY <1>3 DEF Adding
  <1>5. Sound(q, Adding(d))
    BY <1>1 DEF EngineInv, Sound, Record, OwnNumber, AtEngine, Pending
  <1>6. 0 \notin active'
    BY DEF Aria2Abort, managerVars, EngineInv
  <1> QED BY <1>2, <1>3, <1>4, <1>5, <1>6, OneChanged

LEMMA PclAbortStep ==
    ASSUME EngineInv, NEW d \in Downloads, Pending(d), dl[d].engine = "PCL",
           PclAbort(d), UNCHANGED aria2Vars
    PROVE  EngineInv'
  <1>1. PICK r : r = [dl[d] EXCEPT !.watched = FALSE, !.state = "AbortedByUser"]
    OBVIOUS
  <1>2. UNCHANGED <<calls, active>>
    BY DEF aria2Vars, managerVars
  <1>3. Sound(r, Adding(d)) /\ r.engine = "PCL" /\ r.ends < r.starts
    BY <1>1 DEF EngineInv, Sound, Record, OwnNumber, AtEngine, Pending
  <1>4. ~Adding(d)
    BY <1>3 DEF Sound
  <1>5. Sound(r, FALSE)
    BY <1>3, <1>4 DEF Sound
  <1>6. CASE ~r.usingPcl /\ r.qt
    <2>1. Ready([r EXCEPT !.qt = FALSE])
      BY <1>5, <1>6 DEF Sound, Ready, Record, OwnNumber, AtEngine
    <2> QED BY <1>1, <1>2, <1>4, <1>6, <2>1, AnnounceAbortSound, OneReplaced DEF PclAbort
  <1>7. CASE ~(~r.usingPcl /\ r.qt)
    BY <1>1, <1>2, <1>4, <1>5, <1>7, OneReplaced DEF PclAbort
  <1> QED BY <1>6, <1>7

LEMMA RequestStep ==
    ASSUME EngineInv, NEW d \in Downloads, Request(d)
    PROVE  EngineInv'
  <1>1. CASE Abort(d)
    BY <1>1, Aria2AbortStep, PclAbortStep DEF Abort
  <1>2. CASE ReplyEnds(d) /\ UNCHANGED <<attempts, upsets, aria2Vars, pclVars>>
    BY <1>2, ReplyEndsStep DEF aria2Vars, managerVars
  <1>3. CASE ReplyLimited(d) /\ UNCHANGED <<upsets, aria2Vars, pclVars>>
    BY <1>3, ReplyLimitedStep DEF aria2Vars, managerVars
  <1> QED BY <1>1, <1>2, <1>3, StartStep, RedirectStep, AskAgainStep DEF Request

-----------------------------------------------------------------------------
(* Steps of the engines.                                                   *)

\* What announces the end of a download that waits for its engine.
LEMMA EngineReady ==
    ASSUME EngineInv, NEW d \in Downloads, AtEngine(dl[d])
    PROVE  ~Adding(d) /\ Ready(Over(dl[d]))
  <1>1. Sound(dl[d], Adding(d)) /\ ~Adding(d)
    BY DEF EngineInv, Sound
  <1>2. Sound(dl[d], FALSE)
    BY <1>1 DEF Sound
  <1> QED BY <1>1, <1>2, OverReady

\* A step that changes any number of downloads and makes no addUri.
LEMMA ManyChanged ==
    ASSUME EngineInv,
           DOMAIN dl' = Downloads, dl' = [d \in DOMAIN dl' |-> dl'[d]],
           \A d \in Downloads : Sound(dl'[d], Adding(d)),
           CallsOK(calls'), AddsOf(calls') = AddsOf(calls), 0 \notin active'
    PROVE  EngineInv'
  <1>1. \A d \in Downloads : Adding(d)' = Adding(d) /\ dl'[d] \in Record
    BY DEF Adding, Sound
  <1>2. dl' \in [Downloads -> Record]
    BY <1>1
  <1> QED BY <1>1, <1>2 DEF EngineInv

LEMMA ChangedSound ==
    ASSUME EngineInv, NEW d \in Downloads, dl[d].gid # 0, NEW status, NEW outcome
    PROVE  Sound(Changed(dl[d], dl[d].gid, status, outcome), Adding(d))
  <1>1. CASE dl[d].engine # "aria2" \/ dl[d].finished \/ status \notin Final
    BY <1>1 DEF Changed, EngineInv
  <1>2. CASE ~(dl[d].engine # "aria2" \/ dl[d].finished \/ status \notin Final)
    <2>1. AtEngine(dl[d])
      BY <1>2 DEF AtEngine, EngineInv, Record
    <2>2. ~Adding(d) /\ Ready(Over(dl[d]))
      BY <2>1, EngineReady
    <2>3. Sound(Changed(dl[d], dl[d].gid, status, outcome), FALSE)
      BY <1>2, <2>2, ExaminedSound, GivenUpSound DEF Changed
    <2>4. Adding(d) = FALSE
      BY <2>2 DEF Adding
    <2> QED BY <2>3, <2>4
  <1> QED BY <1>1, <1>2

LEMMA TellsStep ==
    ASSUME EngineInv, NEW gids, 0 \notin gids, NEW status, Tells(gids, status),
           CallsOK(calls'), AddsOf(calls') = AddsOf(calls), 0 \notin active'
    PROVE  EngineInv'
  <1>1. PICK outcome :
          dl' = [d \in Downloads |->
                   IF dl[d].gid \in gids THEN Changed(dl[d], dl[d].gid, status, outcome)
                   ELSE dl[d]]
    BY DEF Tells
  <1>2. ASSUME NEW d \in Downloads
        PROVE  Sound(dl'[d], Adding(d))
    <2>1. CASE dl[d].gid \in gids
      BY <1>1, <2>1, ChangedSound
    <2>2. CASE dl[d].gid \notin gids
      BY <1>1, <2>2 DEF EngineInv
    <2> QED BY <2>1, <2>2
  <1>3. DOMAIN dl' = Downloads /\ dl' = [d \in DOMAIN dl' |-> dl'[d]]
    BY <1>1
  <1> QED BY <1>2, <1>3, ManyChanged

\* A step of calls, processes or tasks that tells no download anything.
LEMMA NothingTold ==
    ASSUME EngineInv, UNCHANGED dl, CallsOK(calls'), AddsOf(calls') = AddsOf(calls),
           0 \notin active'
    PROVE  EngineInv'
  <1>1. \A d \in Downloads : Adding(d)' = Adding(d)
    BY DEF Adding
  <1> QED BY <1>1 DEF EngineInv

LEMMA Aria2StallStep ==
    ASSUME EngineInv, NEW d \in Downloads, Aria2Stall(d)
    PROVE  EngineInv'
  <1>1. dl[d] \in Record /\ AtEngine(dl[d])
    BY DEF EngineInv, Aria2Stall, AtEngine
  <1>2. ~Adding(d) /\ Ready(Over(dl[d]))
    BY <1>1, EngineReady
  <1>3. Ready([Over(dl[d]) EXCEPT !.gid = 0])
    BY <1>2 DEF Ready, Record, OwnNumber, AtEngine
  <1>4. PICK q : dl' = [dl EXCEPT ![d] = q] /\ Sound(q, FALSE)
    BY <1>3, FallBackSound DEF Aria2Stall
  <1>5. CallsOK(calls') /\ AddsOf(calls') = AddsOf(calls)
    BY WithKept DEF Aria2Stall, EngineInv
  <1>6. \A e \in Downloads : Adding(e)' = Adding(e)
    BY <1>5 DEF Adding
  <1>7. Adding(d)' = FALSE
    BY <1>2, <1>6 DEF Adding
  <1>8. 0 \notin active'
    BY DEF Aria2Stall, managerVars, EngineInv
  <1> QED BY <1>4, <1>5, <1>6, <1>7, <1>8, OneChanged

LEMMA AddAnsweredStep ==
    ASSUME EngineInv, NEW c \in calls, AddAnswered(c)
    PROVE  EngineInv'
  <1> DEFINE d == c.of
  <1>1. IsCall(c) /\ c.kind = "add" /\ d \in Downloads
    BY DEF EngineInv, CallsOK, AddAnswered, IsCall
  <1>2. Adding(d)
    BY <1>1 DEF Adding, AddsOf
  <1>3. CallsOK(calls \ {c}) /\ AddsOf(calls \ {c}) = AddsOf(calls) \ {d}
    BY <1>1, CallRemoved DEF EngineInv
  <1>4. dl[d] \in Record /\ Sound(dl[d], Adding(d))
    BY <1>1 DEF EngineInv
  <1>5. CASE /\ c.answer = "failed"
             /\ FallBack(d, dl[d])
             /\ calls' = calls \ {c}
             /\ UNCHANGED managerVars
    <2>1. Ready(dl[d])
      BY <1>2, <1>4 DEF Sound, Ready
    <2>2. PICK q : dl' = [dl EXCEPT ![d] = q] /\ Sound(q, FALSE)
      BY <1>5, <2>1, FallBackSound
    <2>3. Adding(d)' = FALSE /\ \A e \in Downloads \ {d} : Adding(e)' = Adding(e)
      BY <1>3, <1>5 DEF Adding
    <2>4. 0 \notin active' /\ CallsOK(calls')
      BY <1>3, <1>5 DEF managerVars, EngineInv
    <2> QED BY <1>1, <2>2, <2>3, <2>4, OneChanged
  <1>6. CASE /\ c.answer = "done"
             /\ dl' = [dl EXCEPT ![d].gid = c.new, ![d].watched = TRUE]
             /\ active' = active \cup {c.new}
             /\ calls' = With(calls \ {c}, "tell", IF IsRunning THEN active' ELSE {})
    <2>1. c.new \in Nat /\ c.new # 0
      BY <1>1, <1>6 DEF IsCall
    <2>2. 0 \notin active'
      BY <1>6, <2>1 DEF EngineInv
    <2>3. CallsOK(calls') /\ AddsOf(calls') = AddsOf(calls) \ {d}
      BY <1>3, <1>6, <2>2, WithKept
    <2>4. Adding(d)' = FALSE /\ \A e \in Downloads \ {d} : Adding(e)' = Adding(e)
      BY <2>3 DEF Adding
    <2>5. PICK q : q = [dl[d] EXCEPT !.gid = c.new, !.watched = TRUE]
      OBVIOUS
    <2>6. dl' = [dl EXCEPT ![d] = q]
      BY <1>1, <1>6, <2>5 DEF EngineInv
    <2>7. Sound(q, FALSE)
      <3>1. q \in Record
        BY <1>4, <2>1, <2>5 DEF Record
      <3>2. /\ q.engine = dl[d].engine /\ q.usingPcl = dl[d].usingPcl /\ q.task = dl[d].task
            /\ q.qt = dl[d].qt /\ q.again = dl[d].again
            /\ q.starts = dl[d].starts /\ q.ends = dl[d].ends
        BY <1>4, <2>5 DEF Record
      <3> QED BY <1>2, <1>4, <3>1, <3>2 DEF Sound, OwnNumber
    <2> QED BY <1>1, <2>2, <2>3, <2>4, <2>6, <2>7, OneChanged
  <1> QED BY <1>5, <1>6 DEF AddAnswered

LEMMA TellAnsweredStep ==
    ASSUME EngineInv, NEW c \in calls, TellAnswered(c)
    PROVE  EngineInv'
  <1>1. IsCall(c) /\ c.kind = "tell" /\ c.of # 0
    BY DEF EngineInv, CallsOK, TellAnswered, IsCall
  <1>2. CallsOK(calls') /\ AddsOf(calls') = AddsOf(calls)
    BY <1>1, CallRemoved DEF EngineInv, TellAnswered
  <1>3. 0 \notin active'
    BY DEF EngineInv, TellAnswered, managerVars
  <1>4. CASE UNCHANGED dl
    BY <1>2, <1>3, <1>4, NothingTold
  <1>5. CASE Tells({c.of}, "error") \/ Tells({c.of}, c.answer)
    BY <1>1, <1>2, <1>3, <1>5, TellsStep
  <1> QED BY <1>4, <1>5 DEF TellAnswered

LEMMA RemoveAnsweredStep ==
    ASSUME EngineInv, NEW c \in calls, RemoveAnswered(c)
    PROVE  EngineInv'
  <1>1. IsCall(c) /\ c.kind = "remove" /\ c.of # 0
    BY DEF EngineInv, CallsOK, RemoveAnswered, IsCall
  <1>2. CallsOK(calls') /\ AddsOf(calls') = AddsOf(calls)
    BY <1>1, CallRemoved DEF EngineInv, RemoveAnswered
  <1>3. 0 \notin active'
    BY DEF EngineInv, RemoveAnswered
  <1> QED BY <1>1, <1>2, <1>3, TellsStep DEF RemoveAnswered

LEMMA ReaddAnsweredStep ==
    ASSUME EngineInv, NEW c \in calls, ReaddAnswered(c)
    PROVE  EngineInv'
  <1>1. IsCall(c) /\ c.kind = "readd" /\ c.of # 0
    BY DEF EngineInv, CallsOK, ReaddAnswered, IsCall
  <1>2. CallsOK(calls \ {c}) /\ AddsOf(calls \ {c}) = AddsOf(calls)
    BY <1>1, CallRemoved DEF EngineInv
  <1>3. CASE calls' = calls \ {c} /\ UNCHANGED <<dl, managerVars>>
    BY <1>2, <1>3, NothingTold DEF EngineInv, managerVars
  <1>4. CASE calls' = calls \ {c} /\ active' = active \ {c.of} /\ Tells({c.of}, "error")
    BY <1>1, <1>2, <1>4, TellsStep DEF EngineInv
  <1>5. CASE /\ c.answer = "done"
             /\ active' = (active \ {c.of}) \cup {c.new}
             /\ dl' = [d \in Downloads |-> Renamed(dl[d], c.of, c.new)]
             /\ calls' = With(calls \ {c}, "tell", IF IsRunning THEN {c.new} ELSE {})
    <2>1. c.new \in Nat /\ c.new # 0
      BY <1>1, <1>5 DEF IsCall
    <2>2. CallsOK(calls') /\ AddsOf(calls') = AddsOf(calls)
      BY <1>2, <1>5, <2>1, WithKept
    <2>3. ASSUME NEW d \in Downloads
          PROVE  Sound(dl'[d], Adding(d))
      <3>1. Sound(dl[d], Adding(d)) /\ dl[d] \in Record
        BY DEF EngineInv
      <3>2. PICK q : q = [dl[d] EXCEPT !.gid = c.new]
        OBVIOUS
      <3>3. /\ q \in Record /\ q.engine = dl[d].engine /\ q.usingPcl = dl[d].usingPcl /\ q.task = dl[d].task
            /\ q.state = dl[d].state /\ q.finished = dl[d].finished /\ q.gid = c.new
            /\ q.qt = dl[d].qt /\ q.again = dl[d].again
            /\ q.starts = dl[d].starts /\ q.ends = dl[d].ends
        BY <2>1, <3>1, <3>2 DEF Record
      <3>4. CASE dl[d].engine = "aria2" /\ dl[d].gid = c.of /\ ~dl[d].finished
        <4>1. Sound(q, Adding(d))
          BY <1>1, <2>1, <3>1, <3>3, <3>4 DEF Sound, OwnNumber, AtEngine
        <4> QED BY <1>5, <3>2, <3>4, <4>1 DEF Renamed
      <3>5. CASE ~(dl[d].engine = "aria2" /\ dl[d].gid = c.of /\ ~dl[d].finished)
        BY <1>5, <3>1, <3>5 DEF Renamed
      <3> QED BY <3>4, <3>5
    <2>4. 0 \notin active'
      BY <1>5, <2>1 DEF EngineInv
    <2>5. DOMAIN dl' = Downloads /\ dl' = [d \in DOMAIN dl' |-> dl'[d]]
      BY <1>5
    <2> QED BY <2>2, <2>3, <2>4, <2>5, ManyChanged
  <1> QED BY <1>3, <1>4, <1>5 DEF ReaddAnswered

LEMMA ProcessFinishedStep ==
    ASSUME EngineInv, ProcessFinished
    PROVE  EngineInv'
  <1>1. CallsOK(Failing(calls)) /\ AddsOf(Failing(calls)) = AddsOf(calls)
    BY FailingKept DEF EngineInv
  <1>2. CASE FailActive /\ calls' = Failing(calls)
    BY <1>1, <1>2, TellsStep DEF FailActive, EngineInv
  <1>3. CASE ReaddActive
    <2>1. 0 \notin active /\ 0 \notin active \ requests /\ 0 \notin active'
      BY <1>3 DEF ReaddActive, EngineInv
    <2>2. CallsOK(calls') /\ AddsOf(calls') = AddsOf(calls)
      BY <1>1, <1>3, <2>1, AddedCalls DEF ReaddActive
    <2> QED BY <1>3, <2>1, <2>2, TellsStep DEF ReaddActive
  <1> QED BY <1>2, <1>3 DEF ProcessFinished

LEMMA AnswerKept ==
    ASSUME EngineInv, NEW c, c \in calls, NEW a, NEW n, n \in Nat,
           c.kind \in {"add", "readd"} /\ a = "done" => n # 0
    PROVE  CallsOK(Answer(c, a, n)) /\ AddsOf(Answer(c, a, n)) = AddsOf(calls)
  <1>1. PICK b : b = [c EXCEPT !.answer = a, !.new = n]
    OBVIOUS
  <1>2. IsCall(c)
    BY DEF EngineInv, CallsOK
  <1>3. IsCall(b) /\ b.kind = c.kind /\ b.of = c.of
    BY <1>1, <1>2, AnswerIsCall
  <1>4. Answer(c, a, n) = (calls \ {c}) \cup {b}
    BY <1>1 DEF Answer
  <1> QED BY <1>3, <1>4, CallReplaced DEF EngineInv

\* What aria2 does with a call asks it for no download, and takes no request back.
LEMMA ServeKept ==
    ASSUME EngineInv, NEW c \in calls, Serve(c)
    PROVE  CallsOK(calls') /\ AddsOf(calls') = AddsOf(calls)
  <1> DEFINE Kept == CallsOK(calls') /\ AddsOf(calls') = AddsOf(calls)
  <1>1. CallsOK(calls) /\ IsCall(c)
    BY DEF EngineInv, CallsOK
  <1>2. CASE ServeAdd(c)
    <2>1. CASE calls' = Answer(c, "failed", 0)
      BY <2>1, AnswerKept
    <2>2. ASSUME NEW g \in Unused, calls' = Answer(c, "done", g)
          PROVE  Kept
      <3>1. g \in Nat /\ g # 0
        BY Aria2Assumption DEF Unused, Gids
      <3> QED BY <2>2, <3>1, AnswerKept
    <2> QED BY <1>2, <2>1, <2>2 DEF ServeAdd
  <1>3. CASE ServeTell(c)
    <2>1. c.kind = "tell"
      BY <1>3 DEF ServeTell
    <2>2. \A a : CallsOK(Answer(c, a, 0)) /\ AddsOf(Answer(c, a, 0)) = AddsOf(calls)
      BY <2>1, AnswerKept
    <2>3. CallsOK(calls \ {c}) /\ AddsOf(calls \ {c}) = AddsOf(calls)
      BY <1>1, <2>1, CallRemoved
    <2> QED BY <1>3, <2>2, <2>3 DEF ServeTell
  <1>4. CASE ServeShutdown(c)
    <2>1. CallsOK(calls \ {c}) /\ AddsOf(calls \ {c}) = AddsOf(calls)
      BY <1>1, <1>4, CallRemoved DEF ServeShutdown
    <2> QED BY <1>4, <2>1, FailingKept DEF ServeShutdown, Exit
  <1>5. CASE c.answer = "sent" /\ c.kind # "remove"
             /\ calls' = (calls \ {c}) \cup Failing({c})
    <2>1. CASE c.kind = "shutdown"
      <3>1. calls' = calls \ {c}
        BY <1>5, <2>1 DEF Failing
      <3> QED BY <1>1, <2>1, <3>1, CallRemoved
    <2>2. CASE c.kind # "shutdown"
      <3>1. calls' = (calls \ {c}) \cup {[c EXCEPT !.answer = "failed"]}
        BY <1>5, <2>2 DEF Failing
      <3>2. [c EXCEPT !.answer = "failed"] =
              [kind |-> c.kind, of |-> c.of, answer |-> "failed", new |-> c.new]
        BY <1>1 DEF IsCall
      <3>3. PICK b : b = [c EXCEPT !.answer = "failed"]
        OBVIOUS
      <3>4. IsCall(b) /\ b.kind = c.kind /\ b.of = c.of
        BY <1>1, <3>2, <3>3 DEF IsCall
      <3>5. calls' = (calls \ {c}) \cup {b}
        BY <3>1, <3>3
      <3> QED BY <1>1, <3>4, <3>5, CallReplaced
    <2> QED BY <2>1, <2>2
  <1> QED BY <1>2, <1>3, <1>4, <1>5 DEF Serve

LEMMA ServeStep ==
    ASSUME EngineInv, NEW c \in calls, Serve(c)
    PROVE  EngineInv'
  <1>1. UNCHANGED dl /\ 0 \notin active'
    BY DEF Serve, managerVars, EngineInv
  <1> QED BY <1>1, ServeKept, NothingTold

LEMMA ShutdownKept ==
    ASSUME EngineInv, Shutdown
    PROVE  CallsOK(calls') /\ AddsOf(calls') = AddsOf(calls)
  <1>1. PICK b : b = Call("shutdown", 0)
    OBVIOUS
  <1>2. IsCall(b) /\ b.kind = "shutdown"
    BY <1>1 DEF Call, IsCall
  <1>3. calls' = calls \cup {b}
    BY <1>1 DEF Shutdown
  <1> QED BY <1>2, <1>3 DEF EngineInv, CallsOK, AddsOf

LEMMA OfAria2Step ==
    ASSUME EngineInv, OfAria2
    PROVE  EngineInv'
  <1>1. ASSUME NEW g \in Gids, Refresh(g)
        PROVE  EngineInv'
    BY <1>1, WithKept, NothingTold DEF Refresh, managerVars, EngineInv
  <1>2. ASSUME NEW g \in Gids, UserRemoves(g)
        PROVE  EngineInv'
    BY <1>2, WithKept, NothingTold DEF UserRemoves, managerVars, EngineInv
  <1>3. ASSUME NEW g \in Gids, WorkEnds(g)
        PROVE  EngineInv'
    BY <1>3, NothingTold DEF WorkEnds, managerVars, EngineInv
  <1>4. CASE ClearFinished
    BY <1>4, NothingTold DEF ClearFinished, EngineInv
  <1>5. CASE Shutdown
    BY <1>5, ShutdownKept, NothingTold DEF Shutdown, EngineInv
  <1>6. CASE Crash
    BY <1>6, FailingKept, NothingTold DEF Crash, Exit, managerVars, EngineInv
  <1> QED BY <1>1, <1>2, <1>3, <1>4, <1>5, <1>6, Aria2StallStep, AddAnsweredStep,
             TellAnsweredStep, RemoveAnsweredStep, ReaddAnsweredStep, ServeStep,
             ProcessFinishedStep DEF OfAria2, Delivered

LEMMA PclStallStep ==
    ASSUME EngineInv, NEW d \in Downloads, PclStall(d), UNCHANGED aria2Vars
    PROVE  EngineInv'
  <1>1. AtEngine(dl[d])
    BY DEF EngineInv, PclStall, Sound, OwnNumber, AtEngine
  <1>2. ~Adding(d) /\ Ready(Over(dl[d]))
    BY <1>1, EngineReady
  <1>3. Ready([Over(dl[d]) EXCEPT !.usingPcl = FALSE])
    BY <1>2 DEF Ready, Record, OwnNumber, AtEngine
  <1>4. PICK q : dl' = [dl EXCEPT ![d] = q] /\ Sound(q, FALSE)
    BY <1>3, FallBackSound DEF PclStall
  <1>5. UNCHANGED <<calls, active>>
    BY DEF aria2Vars, managerVars
  <1> QED BY <1>2, <1>4, <1>5, OneReplaced

LEMMA TaskEventStep ==
    ASSUME EngineInv, NEW e, e.task # 0, TaskEvent(e), UNCHANGED aria2Vars
    PROVE  EngineInv'
  <1>1. PICK good \in BOOLEAN :
          dl' = [d \in Downloads |-> Heard(dl[d], e.task, e.event, good)]
    BY DEF TaskEvent
  <1>3. ASSUME NEW d \in Downloads
        PROVE  Sound(dl'[d], Adding(d))
    <2>1. CASE dl[d].engine # "PCL" \/ dl[d].finished \/ dl[d].task # e.task
      BY <1>1, <2>1 DEF Heard, EngineInv
    <2>2. CASE ~(dl[d].engine # "PCL" \/ dl[d].finished \/ dl[d].task # e.task)
      <3>1. AtEngine(dl[d])
        BY <2>2 DEF AtEngine, EngineInv, Record
      <3>2. ~Adding(d) /\ Ready(Over(dl[d]))
        BY <3>1, EngineReady
      <3>3. Sound(dl'[d], FALSE)
        BY <1>1, <2>2, <3>2, EmitSound, GivenUpSound DEF Heard, Accepted
      <3>4. Adding(d) = FALSE
        BY <3>2 DEF Adding
      <3> QED BY <3>3, <3>4
    <2> QED BY <2>1, <2>2
  <1>4. DOMAIN dl' = Downloads /\ dl' = [d \in DOMAIN dl' |-> dl'[d]]
    BY <1>1
  <1>5. CallsOK(calls') /\ AddsOf(calls') = AddsOf(calls) /\ 0 \notin active'
    BY DEF aria2Vars, managerVars, EngineInv
  <1> QED BY <1>3, <1>4, <1>5, ManyChanged

\* The tasks of the native library are numbered from 1.
EventsNumbered == \A e \in events : e.task # 0

LEMMA EventsStep ==
    ASSUME EventsNumbered, [Next]_vars
    PROVE  EventsNumbered'
  <1>1. CASE UNCHANGED events
    BY <1>1 DEF EventsNumbered
  <1>2. ASSUME NEW t \in Tasks, NativeEnds(t)
        PROVE  EventsNumbered'
    <2>1. t # 0
      BY PclAssumption DEF Tasks
    <2> QED BY <1>2, <2>1 DEF EventsNumbered, NativeEnds
  <1>3. ASSUME NEW e, TaskEvent(e)
        PROVE  EventsNumbered'
    BY <1>3 DEF EventsNumbered, TaskEvent
  <1>4. ASSUME NEW d \in Downloads, PclStall(d)
        PROVE  EventsNumbered'
    BY <1>1, <1>4 DEF PclStall
  <1>5. CASE OfPcl
    BY <1>2, <1>3, <1>4, <1>5 DEF OfPcl
  <1>6. ASSUME NEW d \in Downloads, NEW r, Execute(d, r)
        PROVE  UNCHANGED events
    BY <1>6 DEF Execute, PclExecute, pclVars
  <1>7. ASSUME NEW d \in Downloads, Request(d)
        PROVE  UNCHANGED events
    BY <1>6, <1>7 DEF Request, Start, Redirect, AskAgain, Abort, PclAbort, pclVars
  <1> QED BY <1>1, <1>5, <1>7 DEF Next, vars, pclVars

LEMMA InitSound ==
    ASSUME Init
    PROVE  EngineInv /\ EventsNumbered
  <1>1. PICK engine \in {"aria2", "PCL"} : dl = [d \in Downloads |-> NewDownload(engine)]
    BY DEF Init
  <1>2. Sound(NewDownload(engine), FALSE)
    <2>1. PICK r : r = NewDownload(engine)
      OBVIOUS
    <2>2. r \in Record
      BY <2>1 DEF NewDownload, Record
    <2> QED BY <2>1, <2>2 DEF NewDownload, Sound, OwnNumber, AtEngine
  <1>3. calls = {} /\ active = {} /\ events = {}
    BY DEF Init, Aria2Init, PclInit
  <1>4. CallsOK(calls) /\ \A d \in Downloads : Adding(d) = FALSE
    BY <1>3 DEF CallsOK, Adding, AddsOf
  <1>5. NewDownload(engine) \in Record
    BY <1>2 DEF Sound
  <1> QED BY <1>1, <1>2, <1>3, <1>4, <1>5 DEF EngineInv, EventsNumbered

LEMMA NextSound ==
    ASSUME EngineInv, EventsNumbered, [Next]_vars
    PROVE  EngineInv'
  <1>1. CASE UNCHANGED vars
    BY <1>1, NothingTold DEF vars, aria2Vars, managerVars, EngineInv
  <1>2. ASSUME NEW t \in Tasks, NativeEnds(t), UNCHANGED aria2Vars
        PROVE  EngineInv'
    BY <1>2, NothingTold DEF NativeEnds, aria2Vars, managerVars, EngineInv
  <1>3. CASE OfPcl /\ UNCHANGED aria2Vars
    BY <1>2, <1>3, PclStallStep, TaskEventStep DEF OfPcl, EventsNumbered
  <1> QED BY <1>1, <1>3, RequestStep, OfAria2Step DEF Next

LEMMA EngineSound == Spec => [](EngineInv /\ EventsNumbered)
  <1>1. Init => EngineInv /\ EventsNumbered
    BY InitSound
  <1>2. EngineInv /\ EventsNumbered /\ [Next]_vars => (EngineInv /\ EventsNumbered)'
    BY NextSound, EventsStep
  <1> QED BY <1>1, <1>2, PTL DEF Spec

\* Each start of a download is announced to have ended at most once, in whatever
\* order answers, events, stalls, aborts and crashes come (Aria2Download.cpp:161,
\* PclDownloadTask.cpp:167).
THEOREM EachStartEndsOnce == Spec => []EndsOnce
  <1>1. EngineInv => EndsOnce
    BY DEF EngineInv, Sound, EndsOnce
  <1> QED BY <1>1, EngineSound, PTL

-----------------------------------------------------------------------------
(* Waiting for aria2.                                                      *)

Waiting(r) == r.engine = "aria2" /\ r.gid # 0 /\ ~r.finished

\* What a download waits for is the same.
SameWait(q, r) == q.engine = r.engine /\ q.gid = r.gid /\ q.finished = r.finished

LEMMA AnnounceSame ==
    ASSUME NEW r \in Record, NEW s
    PROVE  SameWait(Announce(r, s), r) /\ SameWait(Emit(r, s), r)
           /\ SameWait(AnnounceAbort(r), r) /\ SameWait(GivenUp(r), r)
  <1>1. \A t : SameWait(Announce(r, t), r)
    BY DEF SameWait, Announce, Record
  <1>2. SameWait(r, r)
    BY DEF SameWait
  <1> QED BY <1>1, <1>2 DEF Emit, AnnounceAbort, GivenUp

LEMMA ExaminedSame ==
    ASSUME NEW r \in Record, NEW outcome
    PROVE  SameWait(Examined(r, outcome), r)
  BY AnnounceSame DEF Examined

LEMMA RequestedSame ==
    ASSUME NEW r \in Record, NEW q \in Requested(r)
    PROVE  SameWait(q, r)
  <1>1. CASE q = [r EXCEPT !.state = "Running", !.qt = TRUE]
    BY <1>1 DEF SameWait, Record
  <1> QED BY <1>1, AnnounceSame DEF Requested

LEMMA RepliedSame ==
    ASSUME NEW r \in Record, NEW q \in Replied(r)
    PROVE  SameWait(q, r)
  BY AnnounceSame DEF Replied

LEMMA FallBackSame ==
    ASSUME NEW d, NEW r \in Record, FallBack(d, r)
    PROVE  \E q : dl' = [dl EXCEPT ![d] = q] /\ SameWait(q, r)
  BY AnnounceSame, RequestedSame DEF FallBack, UseQt

\* A step after which no download waits that did not wait before.
LEMMA NoNewWait ==
    ASSUME WaitsAreWatched, UNCHANGED <<active, requests>>,
           \A d \in Downloads : Waiting(dl'[d]) => Waiting(dl[d]) /\ dl'[d].gid = dl[d].gid
    PROVE  WaitsAreWatched'
  BY DEF WaitsAreWatched, Waiting

LEMMA OneNotWaiting ==
    ASSUME EngineInv, WaitsAreWatched, UNCHANGED <<active, requests>>, NEW d \in Downloads,
           NEW q, dl' = [dl EXCEPT ![d] = q],
           Waiting(q) => Waiting(dl[d]) /\ q.gid = dl[d].gid
    PROVE  WaitsAreWatched'
  <1>1. \A e \in Downloads : dl'[e] = IF e = d THEN q ELSE dl[e]
    BY DEF EngineInv
  <1> QED BY <1>1, NoNewWait

\* An attempt begins with no gid.
LEMMA ExecuteWatched ==
    ASSUME EngineInv, WaitsAreWatched, NEW d \in Downloads, NEW r0 \in Record,
           Execute(d, r0)
    PROVE  WaitsAreWatched'
  <1>1. UNCHANGED <<active, requests>>
    BY DEF Execute, Aria2Execute, PclExecute, aria2Vars, managerVars
  <1>2. CASE r0.engine = "aria2" /\ Aria2Execute(d, r0)
    <2>1. PICK r : r = Clean(r0)
      OBVIOUS
    <2>2. r \in Record /\ r.gid = 0
      BY <2>1 DEF Clean, Record
    <2>3. PICK q : dl' = [dl EXCEPT ![d] = q] /\ (q = r \/ SameWait(q, r))
      BY <1>2, <2>1, <2>2, AnnounceSame, RequestedSame, FallBackSame DEF Aria2Execute, UseQt
    <2>4. ~Waiting(q)
      BY <2>2, <2>3 DEF SameWait, Waiting
    <2> QED BY <1>1, <2>3, <2>4, OneNotWaiting
  <1>3. CASE r0.engine = "PCL" /\ PclExecute(d, r0)
    <2>1. PICK r : r = CleanOfPcl(r0)
      OBVIOUS
    <2>2. r \in Record /\ r.engine = "PCL"
      BY <1>3, <2>1 DEF CleanOfPcl, Record
    <2>3. \A t : [r EXCEPT !.task = t, !.usingPcl = TRUE, !.watched = TRUE].engine = "PCL"
      BY <2>2 DEF Record
    <2>4. PICK q : dl' = [dl EXCEPT ![d] = q] /\ (q.engine = "PCL" \/ SameWait(q, r))
      BY <1>3, <2>1, <2>2, <2>3, AnnounceSame, RequestedSame, FallBackSame DEF PclExecute, UseQt
    <2>5. ~Waiting(q)
      BY <2>2, <2>4 DEF SameWait, Waiting
    <2> QED BY <1>1, <2>4, <2>5, OneNotWaiting
  <1> QED BY <1>2, <1>3 DEF Execute

LEMMA RequestWatched ==
    ASSUME EngineInv, WaitsAreWatched, NEW d \in Downloads, Request(d)
    PROVE  WaitsAreWatched'
  <1>1. dl[d] \in Record
    BY DEF EngineInv
  <1>2. CASE Start(d) \/ Redirect(d) \/ AskAgain(d)
    <2>1. \E r0 \in Record : Execute(d, r0)
      <3>1. CASE Start(d)
        BY <3>1, Started DEF Start
      <3>2. CASE Redirect(d)
        BY <1>1, <3>2 DEF Redirect, Record
      <3>3. CASE AskAgain(d)
        BY <1>1, <3>3 DEF AskAgain, Record
      <3> QED BY <1>2, <3>1, <3>2, <3>3
    <2> QED BY <2>1, ExecuteWatched
  <1>3. CASE dl[d].engine = "aria2" /\ Aria2Abort(d)
    <2>1. PICK q : q = [dl[d] EXCEPT !.state = "AbortedByUser", !.watched = FALSE]
      OBVIOUS
    <2>2. dl' = [dl EXCEPT ![d] = q] /\ UNCHANGED <<active, requests>>
      BY <1>3, <2>1 DEF Aria2Abort, managerVars, EngineInv
    <2>3. SameWait(q, dl[d])
      BY <1>1, <2>1 DEF SameWait, Record
    <2> QED BY <2>2, <2>3, OneNotWaiting DEF SameWait, Waiting
  <1>4. CASE dl[d].engine = "PCL" /\ PclAbort(d) /\ UNCHANGED aria2Vars
    <2>1. PICK r : r = [dl[d] EXCEPT !.watched = FALSE, !.state = "AbortedByUser"]
      OBVIOUS
    <2>2. r \in Record /\ r.engine = "PCL"
      BY <1>1, <1>4, <2>1 DEF Record
    <2>3. [r EXCEPT !.qt = FALSE] \in Record /\ [r EXCEPT !.qt = FALSE].engine = "PCL"
      BY <2>2 DEF Record
    <2>4. PICK q : dl' = [dl EXCEPT ![d] = q] /\ q.engine = "PCL"
      <3>1. CASE ~r.usingPcl /\ r.qt
        <4>1. AnnounceAbort([r EXCEPT !.qt = FALSE]).engine = "PCL"
          BY <2>3, AnnounceSame DEF SameWait
        <4> QED BY <1>4, <2>1, <3>1, <4>1 DEF PclAbort
      <3>2. CASE ~(~r.usingPcl /\ r.qt)
        BY <1>4, <2>1, <2>2, <3>2 DEF PclAbort
      <3> QED BY <3>1, <3>2
    <2>5. UNCHANGED <<active, requests>>
      BY <1>4 DEF aria2Vars, managerVars
    <2> QED BY <2>4, <2>5, OneNotWaiting DEF Waiting
  <1>5. CASE ReplyEnds(d) /\ UNCHANGED aria2Vars
    <2>1. PICK r : r = [dl[d] EXCEPT !.qt = FALSE]
      OBVIOUS
    <2>2. r \in Record /\ SameWait(r, dl[d])
      BY <1>1, <2>1 DEF Record, SameWait
    <2>3. PICK q \in Replied(r) : dl' = [dl EXCEPT ![d] = q]
      BY <1>5, <2>1 DEF ReplyEnds
    <2>4. SameWait(q, dl[d])
      BY <2>2, <2>3, RepliedSame DEF SameWait
    <2>5. UNCHANGED <<active, requests>>
      BY <1>5 DEF aria2Vars, managerVars
    <2> QED BY <2>3, <2>4, <2>5, OneNotWaiting DEF SameWait, Waiting
  <1>6. CASE ReplyLimited(d) /\ UNCHANGED aria2Vars
    <2>1. PICK q : q = [dl[d] EXCEPT !.qt = FALSE, !.state = "Inactive", !.again = TRUE,
                                     !.limited = TRUE]
      OBVIOUS
    <2>2. dl' = [dl EXCEPT ![d] = q] /\ SameWait(q, dl[d])
      BY <1>1, <1>6, <2>1 DEF ReplyLimited, SameWait, Record, EngineInv
    <2>3. UNCHANGED <<active, requests>>
      BY <1>6 DEF aria2Vars, managerVars
    <2> QED BY <2>2, <2>3, OneNotWaiting DEF SameWait, Waiting
  <1> QED BY <1>2, <1>3, <1>4, <1>5, <1>6 DEF Request, Abort

\* A download that has been told the end of its gid waits no more.
LEMMA Told ==
    ASSUME EngineInv, NEW gids, NEW status \in Final, Tells(gids, status),
           NEW d \in Downloads, Waiting(dl'[d])
    PROVE  dl'[d] = dl[d] /\ dl[d].gid \notin gids
  <1>1. PICK outcome :
          dl' = [e \in Downloads |->
                   IF dl[e].gid \in gids THEN Changed(dl[e], dl[e].gid, status, outcome)
                   ELSE dl[e]]
    BY DEF Tells
  <1>2. dl[d] \in Record
    BY DEF EngineInv
  <1>3. Over(dl[d]) \in Record /\ Over(dl[d]).finished
    BY <1>2 DEF Over, Record
  <1>4. Examined(Over(dl[d]), outcome).finished /\ GivenUp(Over(dl[d])).finished
    BY <1>3, ExaminedSame, AnnounceSame DEF SameWait
  <1>5. CASE dl[d].gid \in gids
    <2>1. CASE dl[d].engine # "aria2" \/ dl[d].finished
      BY <1>1, <1>5, <2>1 DEF Changed, Waiting
    <2>2. CASE ~(dl[d].engine # "aria2" \/ dl[d].finished)
      BY <1>1, <1>4, <1>5, <2>2 DEF Changed, Waiting
    <2> QED BY <2>1, <2>2
  <1>6. CASE dl[d].gid \notin gids
    BY <1>1, <1>6
  <1> QED BY <1>5, <1>6

\* A step that tells the end of some gids may forget these, and no others.
LEMMA TellsWatched ==
    ASSUME EngineInv, WaitsAreWatched, NEW gids, NEW status \in Final, Tells(gids, status),
           (active \cap requests) \ gids \subseteq active' \cap requests'
    PROVE  WaitsAreWatched'
  BY Told DEF WaitsAreWatched, Waiting

LEMMA OfAria2Watched ==
    ASSUME EngineInv, WaitsAreWatched, OfAria2
    PROVE  WaitsAreWatched'
  <1>1. ASSUME UNCHANGED <<dl, active, requests>>
        PROVE  WaitsAreWatched'
    BY <1>1 DEF WaitsAreWatched
  <1>2. ASSUME NEW d \in Downloads, Aria2Stall(d)
        PROVE  WaitsAreWatched'
    <2>1. PICK r : r = [Over(dl[d]) EXCEPT !.gid = 0]
      OBVIOUS
    <2>2. r \in Record /\ r.gid = 0
      BY <2>1 DEF EngineInv, Over, Record
    <2>3. PICK q : dl' = [dl EXCEPT ![d] = q] /\ SameWait(q, r)
      BY <1>2, <2>1, <2>2, FallBackSame DEF Aria2Stall
    <2>4. UNCHANGED <<active, requests>> /\ ~Waiting(q)
      BY <1>2, <2>2, <2>3 DEF Aria2Stall, managerVars, SameWait, Waiting
    <2> QED BY <2>3, <2>4, OneNotWaiting
  <1>3. ASSUME NEW c \in calls, AddAnswered(c)
        PROVE  WaitsAreWatched'
    <2>1. c.of \in Downloads /\ dl[c.of] \in Record
      BY <1>3 DEF EngineInv, CallsOK, IsCall, AddAnswered
    <2>2. CASE FallBack(c.of, dl[c.of]) /\ UNCHANGED managerVars
      <3>1. PICK q : dl' = [dl EXCEPT ![c.of] = q] /\ SameWait(q, dl[c.of])
        BY <2>1, <2>2, FallBackSame
      <3>2. UNCHANGED <<active, requests>>
        BY <2>2 DEF managerVars
      <3> QED BY <2>1, <3>1, <3>2, OneNotWaiting DEF SameWait, Waiting
    <2>3. CASE /\ dl' = [dl EXCEPT ![c.of].gid = c.new, ![c.of].watched = TRUE]
               /\ active' = active \cup {c.new}
               /\ requests' = requests \cup {c.new}
      <3>1. PICK q : q = [dl[c.of] EXCEPT !.gid = c.new, !.watched = TRUE]
        OBVIOUS
      <3>2. q.gid = c.new
        BY <2>1, <3>1 DEF Record
      <3>3. \A d \in Downloads : dl'[d] = IF d = c.of THEN q ELSE dl[d]
        BY <2>1, <2>3, <3>1 DEF EngineInv
      <3>4. /\ c.new \in active' \cap requests'
            /\ active \cap requests \subseteq active' \cap requests'
        BY <2>3
      <3>5. ASSUME NEW d \in Downloads, Waiting(dl'[d])
            PROVE  dl'[d].gid \in active' \cap requests'
        <4>1. CASE d = c.of
          <5>1. dl'[d] = q
            BY <3>3, <4>1
          <5> QED BY <3>2, <3>4, <5>1
        <4>2. CASE d # c.of
          <5>1. dl'[d] = dl[d]
            BY <3>3, <4>2
          <5> QED BY <3>4, <3>5, <5>1 DEF WaitsAreWatched, Waiting
        <4> QED BY <4>1, <4>2
      <3> QED BY <3>5 DEF WaitsAreWatched, Waiting
    <2> QED BY <1>3, <2>2, <2>3 DEF AddAnswered
  <1>4. ASSUME NEW c \in calls, TellAnswered(c)
        PROVE  WaitsAreWatched'
    BY <1>1, <1>4, TellsWatched DEF TellAnswered, managerVars, Final
  <1>5. ASSUME NEW c \in calls, RemoveAnswered(c)
        PROVE  WaitsAreWatched'
    BY <1>5, TellsWatched DEF RemoveAnswered, Final
  <1>6. ASSUME NEW c \in calls, ReaddAnswered(c)
        PROVE  WaitsAreWatched'
    <2>1. CASE /\ active' = active \ {c.of} /\ requests' = requests \ {c.of}
               /\ Tells({c.of}, "error")
      BY <2>1, TellsWatched DEF Final
    <2>2. CASE /\ active' = (active \ {c.of}) \cup {c.new}
               /\ requests' = (requests \ {c.of}) \cup {c.new}
               /\ dl' = [d \in Downloads |-> Renamed(dl[d], c.of, c.new)]
      <3>1. ASSUME NEW d \in Downloads, Waiting(dl'[d])
            PROVE  dl'[d].gid \in active' \cap requests'
        <4>1. dl[d] \in Record
          BY DEF EngineInv
        <4>2. CASE dl[d].engine = "aria2" /\ dl[d].gid = c.of /\ ~dl[d].finished
          <5>1. dl'[d] = [dl[d] EXCEPT !.gid = c.new]
            BY <2>2, <4>2 DEF Renamed
          <5> QED BY <2>2, <4>1, <5>1 DEF Record
        <4>3. CASE ~(dl[d].engine = "aria2" /\ dl[d].gid = c.of /\ ~dl[d].finished)
          BY <2>2, <3>1, <4>3 DEF Renamed, WaitsAreWatched, Waiting
        <4> QED BY <4>2, <4>3
      <3> QED BY <3>1 DEF WaitsAreWatched, Waiting
    <2> QED BY <1>1, <1>6, <2>1, <2>2 DEF ReaddAnswered, managerVars
  <1>7. CASE ProcessFinished
    <2>1. CASE FailActive
      BY <2>1, TellsWatched DEF FailActive, Final
    <2>2. CASE ReaddActive
      BY <2>2, TellsWatched DEF ReaddActive, Final
    <2> QED BY <1>7, <2>1, <2>2 DEF ProcessFinished
  <1>8. CASE ClearFinished
    BY <1>8 DEF ClearFinished, WaitsAreWatched
  <1>9. ASSUME NEW g \in Gids, Refresh(g) \/ UserRemoves(g) \/ WorkEnds(g)
        PROVE  WaitsAreWatched'
    BY <1>1, <1>9 DEF Refresh, UserRemoves, WorkEnds, managerVars
  <1>10. ASSUME NEW c \in calls, Serve(c)
         PROVE  WaitsAreWatched'
    BY <1>1, <1>10 DEF Serve, managerVars
  <1>11. CASE Shutdown \/ Crash
    BY <1>1, <1>11 DEF Shutdown, Crash, managerVars
  <1> QED BY <1>2, <1>3, <1>4, <1>5, <1>6, <1>7, <1>8, <1>9, <1>10, <1>11
          DEF OfAria2, Delivered

LEMMA OfPclWatched ==
    ASSUME EngineInv, WaitsAreWatched, OfPcl, UNCHANGED aria2Vars
    PROVE  WaitsAreWatched'
  <1>1. UNCHANGED <<active, requests>>
    BY DEF aria2Vars, managerVars
  <1>2. ASSUME NEW d \in Downloads, PclStall(d)
        PROVE  WaitsAreWatched'
    <2>1. PICK r : r = [Over(dl[d]) EXCEPT !.usingPcl = FALSE]
      OBVIOUS
    <2>2. r \in Record /\ r.engine = "PCL"
      BY <1>2, <2>1 DEF PclStall, EngineInv, Over, Record
    <2>3. PICK q : dl' = [dl EXCEPT ![d] = q] /\ SameWait(q, r)
      BY <1>2, <2>1, <2>2, FallBackSame DEF PclStall
    <2>4. ~Waiting(q)
      BY <2>2, <2>3 DEF SameWait, Waiting
    <2> QED BY <1>1, <2>3, <2>4, OneNotWaiting
  <1>3. ASSUME NEW t \in Tasks, NativeEnds(t)
        PROVE  WaitsAreWatched'
    BY <1>1, <1>3 DEF NativeEnds, WaitsAreWatched
  <1>4. ASSUME NEW e, TaskEvent(e)
        PROVE  WaitsAreWatched'
    <2>1. PICK good :
            dl' = [d \in Downloads |-> Heard(dl[d], e.task, e.event, good)]
      BY <1>4 DEF TaskEvent
    <2>2. ASSUME NEW d \in Downloads, Waiting(dl'[d])
          PROVE  dl'[d] = dl[d]
      <3>1. dl[d] \in Record
        BY DEF EngineInv
      <3>2. Over(dl[d]) \in Record /\ Over(dl[d]).finished
        BY <3>1 DEF Over, Record
      <3>3. Accepted(Over(dl[d]), good).finished /\ GivenUp(Over(dl[d])).finished
        BY <3>2, AnnounceSame DEF Accepted, SameWait
      <3> QED BY <2>1, <2>2, <3>3 DEF Heard, Waiting
    <2> QED BY <1>1, <2>2, NoNewWait
  <1> QED BY <1>2, <1>3, <1>4 DEF OfPcl

\* A download that waits for aria2 is one the manager asks about, and one it can add
\* again after a crash, however its calls and their answers interleave with the
\* ends and restarts of the process (Aria2Manager.cpp:548-681, 781-944).
THEOREM WaitsAlwaysWatched == Spec => []WaitsAreWatched
  <1>1. Init => WaitsAreWatched
    <2> SUFFICES ASSUME Init, NEW d \in Downloads
                 PROVE  dl[d].gid = 0
      BY DEF WaitsAreWatched
    <2> QED BY DEF Init, NewDownload
  <1>2. EngineInv /\ WaitsAreWatched /\ [Next]_vars => WaitsAreWatched'
    <2>1. CASE UNCHANGED vars
      BY <2>1 DEF vars, aria2Vars, managerVars, WaitsAreWatched
    <2> QED BY <2>1, RequestWatched, OfAria2Watched, OfPclWatched DEF Next
  <1> QED BY <1>1, <1>2, EngineSound, PTL DEF Spec
-----------------------------------------------------------------------------
(* Silences.  The invariant of a download says what each of its states     *)
(* knows of its past: what made the end of a download that is not running  *)
(* go by without a word is a 429, or its abort.                            *)

\* Something that can still bring it to its end is under way.
Under(r, adding) ==
    \/ r.qt \/ r.again \/ adding
    \/ ~r.finished /\ (r.gid # 0 \/ r.usingPcl)

\* A download of PCL that was aborted is not watched, so that it never stalls.
Calm(r) == r.engine = "PCL" /\ r.state = "AbortedByUser" => ~r.watched

\* Why a download whose end is due may be mute.
Muted(r) == r.limited \/ (r.engine = "aria2" /\ r.state = "AbortedByUser")

Explained(r, adding) ==
    /\ adding => ~r.finished
    /\ Calm(r)
    /\ r.starts <= r.ends + 1
    /\ r.ends < r.starts =>
          /\ r.limited \/ r.state \in {"Running", "AbortedByUser"}
          /\ Under(r, adding) \/ Muted(r)

\* What an operation that announces starts from.
Due(r) ==
    /\ Ready(r) /\ Calm(r)
    /\ r.starts <= r.ends + 1
    /\ r.limited \/ r.state \in {"Running", "AbortedByUser"}

\* Where emitSucceeded() and emitFailed() are called: never for an abort of PCL's.
NoAbortOfPcl(r) == ~(r.engine = "PCL" /\ r.state = "AbortedByUser")

SilenceInv == \A d \in Downloads : Explained(dl[d], Adding(d))

\* An end that is announced leaves nothing to explain.
LEMMA AnnounceExplained ==
    ASSUME NEW r, Due(r), NEW s, s \in {"Succeeded", "Failed"} \/ Calm([r EXCEPT !.state = s])
    PROVE  Explained(Announce(r, s), FALSE)
  <1>1. r \in Record /\ r.ends \in Nat /\ r.starts \in Nat
    BY DEF Due, Ready, Record
  <1>2. PICK q : q = Announce(r, s)
    OBVIOUS
  <1>3. /\ q.engine = r.engine /\ q.watched = r.watched /\ q.starts = r.starts
        /\ q.ends = r.ends + 1 /\ q.state = s
    BY <1>1, <1>2 DEF Announce, Record
  <1>4. [r EXCEPT !.state = s].engine = r.engine /\ [r EXCEPT !.state = s].watched = r.watched
        /\ [r EXCEPT !.state = s].state = s
    BY <1>1 DEF Record
  <1>5. Calm(q)
    BY <1>3, <1>4 DEF Calm
  <1>6. q.starts <= q.ends /\ q.starts <= q.ends + 1 /\ ~(q.ends < q.starts)
    BY <1>1, <1>3 DEF Due
  <1>7. Explained(q, FALSE)
    BY <1>5, <1>6 DEF Explained
  <1> QED BY <1>2, <1>7

\* The end of an abort is announced of a download that is aborted already.
LEMMA AnnounceAbortExplained ==
    ASSUME NEW r, Due(r), r.state = "AbortedByUser"
    PROVE  Explained(AnnounceAbort(r), FALSE)
  <1>1. r \in Record
    BY DEF Due, Ready
  <1>2. [r EXCEPT !.state = "AbortedByUser"] = r
    BY <1>1 DEF Record
  <1>3. Calm([r EXCEPT !.state = "AbortedByUser"])
    BY <1>2 DEF Due
  <1> QED BY <1>3, AnnounceExplained DEF AnnounceAbort

LEMMA EmitExplained ==
    ASSUME NEW r, Due(r), NoAbortOfPcl(r), NEW s, s \in {"Succeeded", "Failed"}
    PROVE  Explained(Emit(r, s), FALSE)
  <1>1. CASE r.state = "Running"
    BY <1>1, AnnounceExplained DEF Emit
  <1>2. CASE r.state # "Running"
    <2>1. r \in Record /\ r.engine \in {"aria2", "PCL"}
      BY DEF Due, Ready, Record
    <2>2. Muted(r)
      BY <1>2, <2>1 DEF Due, Muted, NoAbortOfPcl
    <2>3. Explained(r, FALSE)
      BY <2>2 DEF Due, Explained
    <2> QED BY <1>2, <2>3 DEF Emit
  <1> QED BY <1>1, <1>2

LEMMA RequestedExplained ==
    ASSUME NEW r, Due(r), NEW q \in Requested(r)
    PROVE  Explained(q, FALSE)
  <1>1. CASE q = [r EXCEPT !.state = "Running", !.qt = TRUE]
    <2>1. r \in Record
      BY DEF Due, Ready
    <2>2. q.state = "Running" /\ q.qt /\ q.starts = r.starts /\ q.ends = r.ends
      BY <1>1, <2>1 DEF Record
    <2> QED BY <2>2 DEF Due, Explained, Calm, Under
  <1>2. CASE r.state = "AbortedByUser" /\ q = AnnounceAbort(r)
    BY <1>2, AnnounceAbortExplained
  <1>3. CASE q = Announce(r, "Succeeded") \/ q = Announce(r, "Failed")
    BY <1>3, AnnounceExplained
  <1> QED BY <1>1, <1>2, <1>3 DEF Requested

LEMMA RepliedExplained ==
    ASSUME NEW r, Due(r), NEW q \in Replied(r)
    PROVE  Explained(q, FALSE)
  BY AnnounceExplained, AnnounceAbortExplained DEF Replied

LEMMA ExaminedExplained ==
    ASSUME NEW r, Due(r), r.engine = "aria2", NEW outcome
    PROVE  Explained(Examined(r, outcome), FALSE)
  BY EmitExplained, AnnounceAbortExplained DEF Examined, NoAbortOfPcl

LEMMA GivenUpExplained ==
    ASSUME NEW r, Due(r)
    PROVE  Explained(GivenUp(r), FALSE)
  BY EmitExplained, AnnounceAbortExplained DEF GivenUp, NoAbortOfPcl

LEMMA FallBackExplained ==
    ASSUME NEW d, NEW r, Due(r), NoAbortOfPcl(r), FallBack(d, r)
    PROVE  \E q : dl' = [dl EXCEPT ![d] = q] /\ Explained(q, FALSE)
  BY EmitExplained, RequestedExplained DEF FallBack, UseQt

\* The engine's part of a download is over: its end is due.
LEMMA OverDue ==
    ASSUME EngineInv, SilenceInv, NEW d \in Downloads, AtEngine(dl[d])
    PROVE  /\ ~Adding(d) /\ Due(Over(dl[d]))
           /\ Over(dl[d]).engine = dl[d].engine /\ Over(dl[d]).state = dl[d].state
  <1>1. dl[d] \in Record /\ Explained(dl[d], Adding(d)) /\ Sound(dl[d], Adding(d))
    BY DEF EngineInv, SilenceInv
  <1>2. ~Adding(d) /\ Ready(Over(dl[d]))
    BY EngineReady
  <1>3. PICK r : r = Over(dl[d])
    OBVIOUS
  <1>4. /\ r.engine = dl[d].engine /\ r.state = dl[d].state /\ r.limited = dl[d].limited
        /\ r.starts = dl[d].starts /\ r.ends = dl[d].ends /\ ~r.watched
    BY <1>1, <1>3 DEF Over, Record
  <1>5. dl[d].ends < dl[d].starts
    BY <1>1 DEF Sound
  <1>6. Due(r)
    BY <1>1, <1>2, <1>3, <1>4, <1>5 DEF Explained, Due, Calm
  <1> QED BY <1>2, <1>3, <1>4, <1>6

-----------------------------------------------------------------------------

LEMMA OneExplained ==
    ASSUME EngineInv, SilenceInv, NEW d \in Downloads, NEW q,
           dl' = [dl EXCEPT ![d] = q],
           Explained(q, Adding(d)'),
           \A e \in Downloads \ {d} : Adding(e)' = Adding(e)
    PROVE  SilenceInv'
  <1>1. ASSUME NEW e \in Downloads
        PROVE  Explained(dl'[e], Adding(e)')
    <2>1. CASE e = d
      BY <2>1 DEF EngineInv
    <2>2. CASE e # d
      BY <2>2 DEF EngineInv, SilenceInv
    <2> QED BY <2>1, <2>2
  <1> QED BY <1>1 DEF SilenceInv

\* No addUri is under way, before or after.
LEMMA OneSettled ==
    ASSUME EngineInv, SilenceInv, NEW d \in Downloads, ~Adding(d), UNCHANGED calls, NEW q,
           dl' = [dl EXCEPT ![d] = q], Explained(q, FALSE)
    PROVE  SilenceInv'
  <1>1. \A e \in Downloads : Adding(e)' = Adding(e)
    BY DEF Adding
  <1>2. Adding(d)' = FALSE
    BY <1>1
  <1> QED BY <1>1, <1>2, OneExplained

LEMMA ManyExplained ==
    ASSUME AddsOf(calls') = AddsOf(calls),
           \A d \in Downloads : Explained(dl'[d], Adding(d))
    PROVE  SilenceInv'
  <1>1. \A d \in Downloads : Adding(d)' = Adding(d)
    BY DEF Adding
  <1> QED BY <1>1 DEF SilenceInv
\* What an attempt begins from: it forgets the engine's part of the one before.
Begins(r) ==
    /\ r \in Record /\ OwnNumber(r) /\ Calm(r)
    /\ r.ends < r.starts /\ r.starts <= r.ends + 1
    /\ ~r.qt /\ ~r.again
    /\ r.limited \/ r.state \in {"Running", "AbortedByUser"}

LEMMA DueBegins ==
    ASSUME NEW r, Due(r)
    PROVE  Begins(r)
  BY DEF Due, Ready, Begins

LEMMA ExecutesExplained ==
    ASSUME EngineInv, SilenceInv, NEW d \in Downloads, ~Adding(d),
           NEW r0, Begins(r0), Execute(d, r0)
    PROVE  SilenceInv'
  <1>0. /\ r0 \in Record /\ OwnNumber(r0) /\ r0.ends < r0.starts
        /\ ~r0.qt /\ ~r0.again /\ Calm(r0) /\ r0.starts <= r0.ends + 1
        /\ r0.limited \/ r0.state \in {"Running", "AbortedByUser"}
    BY DEF Begins
  <1>1. CASE r0.engine = "aria2" /\ Aria2Execute(d, r0)
    <2>1. PICK r : r = Clean(r0)
      OBVIOUS
    <2>2. /\ r \in Record /\ r.engine = "aria2" /\ ~r.finished /\ r.gid = 0
          /\ r.state = r0.state /\ r.watched = r0.watched /\ r.limited = r0.limited
          /\ r.starts = r0.starts /\ r.ends = r0.ends
      BY <1>0, <1>1, <2>1 DEF Clean, Record
    <2>3. Ready(r)
      BY <1>0, <1>1, <2>1 DEF Clean, Ready, Record, OwnNumber, AtEngine
    <2>4. Due(r) /\ NoAbortOfPcl(r)
      BY <1>0, <2>2, <2>3 DEF Due, Calm, NoAbortOfPcl
    <2>5. CASE UseQt(d, r) /\ UNCHANGED calls
      BY <2>4, <2>5, RequestedExplained, OneSettled DEF UseQt
    <2>6. CASE r.state = "AbortedByUser" /\ dl' = [dl EXCEPT ![d] = AnnounceAbort(r)]
               /\ UNCHANGED calls
      BY <2>4, <2>6, AnnounceAbortExplained, OneSettled
    <2>7. CASE FallBack(d, r) /\ UNCHANGED calls
      BY <2>4, <2>7, FallBackExplained, OneSettled
    <2>8. CASE dl' = [dl EXCEPT ![d] = Emit(r, "Failed")] /\ UNCHANGED calls
      BY <2>4, <2>8, EmitExplained, OneSettled
    <2>9. CASE dl' = [dl EXCEPT ![d] = r] /\ calls' = calls \cup {Call("add", d)}
      <3>1. AddsOf(calls') = AddsOf(calls) \cup {d}
        BY <2>9, AddCalled DEF EngineInv, Adding
      <3>2. \A e \in Downloads \ {d} : Adding(e)' = Adding(e)
        BY <3>1 DEF Adding
      <3>3. Adding(d)' = TRUE
        BY <3>1 DEF Adding
      <3>4. Explained(r, TRUE)
        BY <2>2, <2>4 DEF Due, Explained, Under
      <3> QED BY <2>9, <3>2, <3>3, <3>4, OneExplained
    <2>10. UNCHANGED aria2Vars => UNCHANGED calls
      BY DEF aria2Vars
    <2> QED BY <1>1, <2>1, <2>5, <2>6, <2>7, <2>8, <2>9, <2>10 DEF Aria2Execute
  <1>2. CASE r0.engine = "PCL" /\ PclExecute(d, r0) /\ UNCHANGED calls
    <2>1. PICK r : r = CleanOfPcl(r0)
      OBVIOUS
    <2>2. /\ r \in Record /\ r.engine = "PCL" /\ ~r.finished
          /\ r.state = r0.state /\ r.watched = r0.watched /\ r.limited = r0.limited
          /\ r.starts = r0.starts /\ r.ends = r0.ends
      BY <1>0, <1>2, <2>1 DEF CleanOfPcl, Record
    <2>3. Ready(r)
      BY <1>0, <1>2, <2>1 DEF CleanOfPcl, Ready, Record, OwnNumber, AtEngine
    <2>4. Due(r)
      BY <1>0, <1>2, <2>2, <2>3 DEF Due, Calm
    <2>5. CASE UseQt(d, r)
      BY <1>2, <2>4, <2>5, RequestedExplained, OneSettled DEF UseQt
    <2>6. CASE r.state = "AbortedByUser" /\ dl' = [dl EXCEPT ![d] = AnnounceAbort(r)]
      BY <1>2, <2>4, <2>6, AnnounceAbortExplained, OneSettled
    <2>7. CASE r.state # "AbortedByUser" /\ dl' = [dl EXCEPT ![d] = Emit(r, "Failed")]
      <3>1. NoAbortOfPcl(r)
        BY <2>7 DEF NoAbortOfPcl
      <3> QED BY <1>2, <2>4, <2>7, <3>1, EmitExplained, OneSettled
    <2>8. CASE r.state # "AbortedByUser" /\ FallBack(d, r)
      <3>1. NoAbortOfPcl(r)
        BY <2>8 DEF NoAbortOfPcl
      <3> QED BY <1>2, <2>4, <2>8, <3>1, FallBackExplained, OneSettled
    <2>9. ASSUME r.state # "AbortedByUser", NEW t \in Tasks,
                 dl' = [dl EXCEPT ![d] = [r EXCEPT !.task = t, !.usingPcl = TRUE,
                                                   !.watched = TRUE]]
          PROVE  SilenceInv'
      <3>1. PICK q : q = [r EXCEPT !.task = t, !.usingPcl = TRUE, !.watched = TRUE]
        OBVIOUS
      <3>2. /\ q.state = r.state /\ q.limited = r.limited /\ q.usingPcl /\ ~q.finished
            /\ q.starts = r.starts /\ q.ends = r.ends
        BY <2>2, <3>1 DEF Record
      <3>3. Explained(q, FALSE)
        BY <2>4, <2>9, <3>2 DEF Due, Explained, Calm, Under
      <3> QED BY <1>2, <2>9, <3>1, <3>3, OneSettled
    <2> QED BY <1>2, <2>1, <2>5, <2>6, <2>7, <2>8, <2>9 DEF PclExecute
  <1>3. UNCHANGED aria2Vars => UNCHANGED calls
    BY DEF aria2Vars
  <1> QED BY <1>1, <1>2, <1>3 DEF Execute

\* What a download that is waited for has behind it.
LEMMA PendingDue ==
    ASSUME EngineInv, SilenceInv, NEW d \in Downloads, Pending(d)
    PROVE  /\ dl[d] \in Record /\ Sound(dl[d], Adding(d)) /\ Calm(dl[d])
           /\ dl[d].starts <= dl[d].ends + 1
           /\ dl[d].limited \/ dl[d].state \in {"Running", "AbortedByUser"}
  BY DEF EngineInv, SilenceInv, Explained, Pending

\* A reply is awaited: the end is due when it comes.
LEMMA ReplyDue ==
    ASSUME EngineInv, SilenceInv, NEW d \in Downloads, dl[d].qt
    PROVE  ~Adding(d) /\ Due([dl[d] EXCEPT !.qt = FALSE]) /\ Pending(d)
  <1>1. ~Adding(d) /\ Ready([dl[d] EXCEPT !.qt = FALSE]) /\ Pending(d)
    BY ReplyReady DEF EngineInv, Sound, Pending
  <1>2. PICK r : r = [dl[d] EXCEPT !.qt = FALSE]
    OBVIOUS
  <1>3. /\ r.engine = dl[d].engine /\ r.state = dl[d].state /\ r.limited = dl[d].limited
        /\ r.starts = dl[d].starts /\ r.ends = dl[d].ends /\ r.watched = dl[d].watched
    BY <1>1, <1>2, PendingDue DEF Record
  <1>4. Due(r)
    BY <1>1, <1>2, <1>3, PendingDue DEF Due, Calm
  <1> QED BY <1>1, <1>2, <1>4

LEMMA RequestExplained ==
    ASSUME EngineInv, SilenceInv, NEW d \in Downloads, Request(d)
    PROVE  SilenceInv'
  <1>1. dl[d] \in Record /\ Sound(dl[d], Adding(d)) /\ Explained(dl[d], Adding(d))
    BY DEF EngineInv, SilenceInv
  <1>2. CASE Start(d)
    <2>1. PICK r : r = [dl[d] EXCEPT !.state = "Running", !.starts = @ + 1]
      OBVIOUS
    <2>2. /\ r \in Record
          /\ r.engine = dl[d].engine /\ r.usingPcl = dl[d].usingPcl /\ r.gid = dl[d].gid
          /\ r.task = dl[d].task /\ r.qt = dl[d].qt /\ r.again = dl[d].again
          /\ r.starts = dl[d].starts + 1 /\ r.ends = dl[d].ends
      BY <2>1, Started
    <2>3. r.state = "Running"
      <3>1. [dl[d] EXCEPT !.state = "Running"].state = "Running"
        BY <1>1 DEF Record
      <3> QED BY <1>1, <2>1 DEF Record
    <2>4. dl[d].ends \in Nat /\ dl[d].starts \in Nat
      BY <1>1 DEF Record
    <2>5. ~Adding(d) /\ ~r.qt /\ ~r.again /\ OwnNumber(r)
      BY <1>1, <1>2, <2>2 DEF Start, Pending, Sound, OwnNumber
    <2>6. r.ends < r.starts /\ r.starts <= r.ends + 1
      BY <1>1, <1>2, <2>2, <2>4 DEF Start, Pending, Sound
    <2>7. Execute(d, r)
      BY <1>2, <2>1 DEF Start
    <2> QED BY <2>2, <2>3, <2>5, <2>6, <2>7, ExecutesExplained DEF Begins, Calm
  <1>3. CASE Redirect(d)
    <2>1. ~Adding(d) /\ Due([dl[d] EXCEPT !.qt = FALSE])
      BY <1>3, ReplyDue DEF Redirect
    <2> QED BY <1>3, <2>1, DueBegins, ExecutesExplained DEF Redirect
  <1>4. CASE AskAgain(d)
    <2>1. PICK r : r = [dl[d] EXCEPT !.again = FALSE]
      OBVIOUS
    <2>2. ~Adding(d) /\ ~dl[d].qt /\ Pending(d) /\ ~AtEngine(dl[d])
      BY <1>1, <1>4 DEF AskAgain, Sound, Pending
    <2>3. /\ r \in Record /\ r.engine = dl[d].engine /\ r.state = dl[d].state
          /\ r.usingPcl = dl[d].usingPcl /\ r.gid = dl[d].gid /\ r.task = dl[d].task
          /\ r.watched = dl[d].watched /\ r.limited = dl[d].limited
          /\ r.qt = dl[d].qt /\ ~r.again /\ r.finished = dl[d].finished
          /\ r.starts = dl[d].starts /\ r.ends = dl[d].ends
      BY <1>1, <2>1 DEF Record
    <2>4. Due(r)
      BY <1>1, <2>2, <2>3, PendingDue DEF Due, Ready, Calm, Pending, Sound, OwnNumber, AtEngine
    <2> QED BY <1>4, <2>1, <2>2, <2>4, DueBegins, ExecutesExplained DEF AskAgain
  <1>5. CASE Pending(d) /\ dl[d].engine = "aria2" /\ Aria2Abort(d)
    <2>1. PICK q : q = [dl[d] EXCEPT !.state = "AbortedByUser", !.watched = FALSE]
      OBVIOUS
    <2>2. dl' = [dl EXCEPT ![d] = q]
      BY <1>5, <2>1 DEF Aria2Abort, EngineInv
    <2>3. AddsOf(calls') = AddsOf(calls)
      BY <1>5, WithKept DEF Aria2Abort, EngineInv
    <2>4. \A e \in Downloads : Adding(e)' = Adding(e)
      BY <2>3 DEF Adding
    <2>5. /\ q.engine = "aria2" /\ q.state = "AbortedByUser" /\ ~q.watched
          /\ q.finished = dl[d].finished /\ q.starts = dl[d].starts /\ q.ends = dl[d].ends
      BY <1>1, <1>5, <2>1 DEF Record
    <2>6. Explained(q, Adding(d))
      BY <1>1, <2>5 DEF Explained, Calm, Muted
    <2> QED BY <2>2, <2>4, <2>6, OneExplained
  <1>6. CASE Pending(d) /\ dl[d].engine = "PCL" /\ PclAbort(d) /\ UNCHANGED aria2Vars
    <2>1. PICK r : r = [dl[d] EXCEPT !.watched = FALSE, !.state = "AbortedByUser"]
      OBVIOUS
    <2>2. /\ r \in Record /\ r.engine = "PCL" /\ r.state = "AbortedByUser" /\ ~r.watched
          /\ r.usingPcl = dl[d].usingPcl /\ r.gid = dl[d].gid /\ r.task = dl[d].task
          /\ r.limited = dl[d].limited
          /\ r.qt = dl[d].qt /\ r.again = dl[d].again /\ r.finished = dl[d].finished
          /\ r.starts = dl[d].starts /\ r.ends = dl[d].ends
      BY <1>1, <1>6, <2>1 DEF Record
    <2>3. ~Adding(d) /\ UNCHANGED calls
      BY <1>1, <1>6 DEF Sound, aria2Vars
    <2>4. CASE ~r.usingPcl /\ r.qt
      <3>1. PICK q : q = [r EXCEPT !.qt = FALSE]
        OBVIOUS
      <3>2. /\ q \in Record /\ q.engine = "PCL" /\ q.state = "AbortedByUser" /\ ~q.watched
            /\ q.usingPcl = r.usingPcl /\ q.gid = r.gid /\ q.task = r.task
            /\ ~q.qt /\ q.again = r.again /\ q.finished = r.finished
            /\ q.starts = r.starts /\ q.ends = r.ends
        BY <2>2, <3>1 DEF Record
      <3>3. Ready(q)
        BY <1>1, <1>6, <2>2, <2>4, <3>2 DEF Ready, Sound, OwnNumber, AtEngine, Pending
      <3>4. Due(q)
        BY <1>1, <2>2, <3>2, <3>3 DEF Due, Calm, Explained
      <3>5. dl' = [dl EXCEPT ![d] = AnnounceAbort(q)]
        BY <1>6, <2>1, <2>4, <3>1 DEF PclAbort
      <3> QED BY <2>3, <3>2, <3>4, <3>5, AnnounceAbortExplained, OneSettled
    <2>5. CASE ~(~r.usingPcl /\ r.qt)
      <3>1. dl[d].limited \/ Under(dl[d], FALSE)
        BY <1>1, <1>6, <2>3 DEF Explained, Pending, Muted, Under
      <3>2. r.limited \/ Under(r, FALSE)
        BY <2>2, <3>1 DEF Under
      <3>3. Explained(r, FALSE)
        BY <1>1, <2>2, <3>2 DEF Explained, Calm, Muted
      <3> QED BY <1>6, <2>1, <2>3, <2>5, <3>3, OneSettled DEF PclAbort
    <2> QED BY <2>4, <2>5
  <1>7. CASE ReplyEnds(d) /\ UNCHANGED calls
    BY <1>7, ReplyDue, RepliedExplained, OneSettled DEF ReplyEnds
  <1>8. CASE ReplyLimited(d) /\ UNCHANGED calls
    <2>1. PICK q : q = [dl[d] EXCEPT !.qt = FALSE, !.state = "Inactive", !.again = TRUE,
                                     !.limited = TRUE]
      OBVIOUS
    <2>2. dl' = [dl EXCEPT ![d] = q]
      BY <1>8, <2>1 DEF ReplyLimited, EngineInv
    <2>3. /\ q.state = "Inactive" /\ q.limited /\ q.again
          /\ q.starts = dl[d].starts /\ q.ends = dl[d].ends
      BY <1>1, <2>1 DEF Record
    <2>4. ~Adding(d)
      BY <1>8, ReplyDue DEF ReplyLimited
    <2>5. Explained(q, FALSE)
      BY <1>1, <2>3 DEF Explained, Calm, Under
    <2> QED BY <1>8, <2>2, <2>4, <2>5, OneSettled
  <1>9. UNCHANGED aria2Vars => UNCHANGED calls
    BY DEF aria2Vars
  <1> QED BY <1>2, <1>3, <1>4, <1>5, <1>6, <1>7, <1>8, <1>9 DEF Request, Abort
\* What a download makes of the status of its gid.
LEMMA ChangedExplained ==
    ASSUME EngineInv, SilenceInv, NEW d \in Downloads, dl[d].gid # 0, NEW status, NEW outcome
    PROVE  Explained(Changed(dl[d], dl[d].gid, status, outcome), Adding(d))
  <1>1. CASE dl[d].engine # "aria2" \/ dl[d].finished \/ status \notin Final
    BY <1>1 DEF Changed, SilenceInv
  <1>2. CASE ~(dl[d].engine # "aria2" \/ dl[d].finished \/ status \notin Final)
    <2>1. AtEngine(dl[d])
      BY <1>2 DEF AtEngine, EngineInv, Record
    <2>2. ~Adding(d) /\ Due(Over(dl[d])) /\ Over(dl[d]).engine = "aria2"
      BY <1>2, <2>1, OverDue
    <2>3. Explained(Changed(dl[d], dl[d].gid, status, outcome), FALSE)
      BY <1>2, <2>2, ExaminedExplained, GivenUpExplained DEF Changed
    <2>4. Adding(d) = FALSE
      BY <2>2 DEF Adding
    <2> QED BY <2>3, <2>4
  <1> QED BY <1>1, <1>2

LEMMA TellsExplained ==
    ASSUME EngineInv, SilenceInv, NEW gids, 0 \notin gids, NEW status, Tells(gids, status),
           AddsOf(calls') = AddsOf(calls)
    PROVE  SilenceInv'
  <1>1. PICK outcome :
          dl' = [d \in Downloads |->
                   IF dl[d].gid \in gids THEN Changed(dl[d], dl[d].gid, status, outcome)
                   ELSE dl[d]]
    BY DEF Tells
  <1>2. ASSUME NEW d \in Downloads
        PROVE  Explained(dl'[d], Adding(d))
    <2>1. CASE dl[d].gid \in gids
      BY <1>1, <2>1, ChangedExplained
    <2>2. CASE dl[d].gid \notin gids
      BY <1>1, <2>2 DEF SilenceInv
    <2> QED BY <2>1, <2>2
  <1> QED BY <1>2, ManyExplained

\* A step that tells no download anything, and asks aria2 for none.
LEMMA NothingExplained ==
    ASSUME SilenceInv, UNCHANGED dl, AddsOf(calls') = AddsOf(calls)
    PROVE  SilenceInv'
  BY ManyExplained DEF SilenceInv

LEMMA Aria2StallExplained ==
    ASSUME EngineInv, SilenceInv, NEW d \in Downloads, Aria2Stall(d)
    PROVE  SilenceInv'
  <1>1. dl[d] \in Record /\ AtEngine(dl[d]) /\ dl[d].engine = "aria2"
    BY DEF EngineInv, Aria2Stall, AtEngine
  <1>2. ~Adding(d) /\ Due(Over(dl[d])) /\ Over(dl[d]).engine = "aria2"
    BY <1>1, OverDue
  <1>3. PICK r : r = [Over(dl[d]) EXCEPT !.gid = 0]
    OBVIOUS
  <1>4. Due(r) /\ r.engine = "aria2"
    BY <1>2, <1>3 DEF Due, Ready, Calm, Record, OwnNumber, AtEngine
  <1>5. PICK q : dl' = [dl EXCEPT ![d] = q] /\ Explained(q, FALSE)
    BY <1>3, <1>4, FallBackExplained DEF Aria2Stall, NoAbortOfPcl
  <1>6. AddsOf(calls') = AddsOf(calls)
    BY WithKept DEF Aria2Stall, EngineInv
  <1>7. \A e \in Downloads : Adding(e)' = Adding(e)
    BY <1>6 DEF Adding
  <1>8. Adding(d)' = FALSE
    BY <1>2, <1>7 DEF Adding
  <1> QED BY <1>5, <1>7, <1>8, OneExplained

LEMMA AddAnsweredExplained ==
    ASSUME EngineInv, SilenceInv, NEW c \in calls, AddAnswered(c)
    PROVE  SilenceInv'
  <1> DEFINE d == c.of
  <1>1. IsCall(c) /\ c.kind = "add" /\ d \in Downloads
    BY DEF EngineInv, CallsOK, AddAnswered, IsCall
  <1>2. Adding(d)
    BY <1>1 DEF Adding, AddsOf
  <1>3. CallsOK(calls \ {c}) /\ AddsOf(calls \ {c}) = AddsOf(calls) \ {d}
    BY <1>1, CallRemoved DEF EngineInv
  <1>4. /\ dl[d] \in Record /\ Sound(dl[d], TRUE) /\ Explained(dl[d], TRUE)
        /\ dl[d].engine = "aria2"
    <2>1. Adding(d) = TRUE
      BY <1>2 DEF Adding
    <2> QED BY <1>1, <2>1 DEF EngineInv, SilenceInv, Sound
  <1>5. CASE c.answer = "failed" /\ FallBack(d, dl[d]) /\ calls' = calls \ {c}
    <2>1. Ready(dl[d])
      BY <1>4 DEF Sound, Ready
    <2>2. Due(dl[d])
      BY <1>4, <2>1 DEF Sound, Explained, Due
    <2>3. PICK q : dl' = [dl EXCEPT ![d] = q] /\ Explained(q, FALSE)
      BY <1>4, <1>5, <2>2, FallBackExplained DEF NoAbortOfPcl
    <2>4. Adding(d)' = FALSE /\ \A e \in Downloads \ {d} : Adding(e)' = Adding(e)
      BY <1>3, <1>5 DEF Adding
    <2> QED BY <1>1, <2>3, <2>4, OneExplained
  <1>6. CASE /\ c.answer = "done"
             /\ dl' = [dl EXCEPT ![d].gid = c.new, ![d].watched = TRUE]
             /\ active' = active \cup {c.new}
             /\ calls' = With(calls \ {c}, "tell", IF IsRunning THEN active' ELSE {})
    <2>1. c.new \in Nat /\ c.new # 0
      BY <1>1, <1>6 DEF IsCall
    <2>2. 0 \notin active'
      BY <1>6, <2>1 DEF EngineInv
    <2>3. AddsOf(calls') = AddsOf(calls) \ {d}
      BY <1>3, <1>6, <2>2, WithKept
    <2>4. Adding(d)' = FALSE /\ \A e \in Downloads \ {d} : Adding(e)' = Adding(e)
      BY <2>3 DEF Adding
    <2>5. PICK q : q = [dl[d] EXCEPT !.gid = c.new, !.watched = TRUE]
      OBVIOUS
    <2>6. dl' = [dl EXCEPT ![d] = q]
      BY <1>1, <1>6, <2>5 DEF EngineInv
    <2>7. /\ q.engine = dl[d].engine /\ q.state = dl[d].state /\ q.limited = dl[d].limited
          /\ q.finished = dl[d].finished /\ q.gid = c.new
          /\ q.starts = dl[d].starts /\ q.ends = dl[d].ends
      BY <1>4, <2>5 DEF Record
    <2>8. Explained(q, FALSE)
      BY <1>4, <2>1, <2>7 DEF Explained, Calm, Under
    <2> QED BY <1>1, <2>4, <2>6, <2>8, OneExplained
  <1> QED BY <1>5, <1>6 DEF AddAnswered

\* Under its new gid a download waits as it did under the old one.
LEMMA ReaddAnsweredExplained ==
    ASSUME EngineInv, SilenceInv, NEW c \in calls, ReaddAnswered(c)
    PROVE  SilenceInv'
  <1>1. IsCall(c) /\ c.kind = "readd" /\ c.of # 0
    BY DEF EngineInv, CallsOK, ReaddAnswered, IsCall
  <1>2. CallsOK(calls \ {c}) /\ AddsOf(calls \ {c}) = AddsOf(calls)
    BY <1>1, CallRemoved DEF EngineInv
  <1>3. CASE calls' = calls \ {c} /\ UNCHANGED dl
    BY <1>2, <1>3, NothingExplained
  <1>4. CASE calls' = calls \ {c} /\ Tells({c.of}, "error")
    BY <1>1, <1>2, <1>4, TellsExplained
  <1>5. CASE /\ c.answer = "done"
             /\ dl' = [d \in Downloads |-> Renamed(dl[d], c.of, c.new)]
             /\ calls' = With(calls \ {c}, "tell", IF IsRunning THEN {c.new} ELSE {})
    <2>1. c.new \in Nat /\ c.new # 0
      BY <1>1, <1>5 DEF IsCall
    <2>2. AddsOf(calls') = AddsOf(calls)
      BY <1>2, <1>5, <2>1, WithKept
    <2>3. ASSUME NEW d \in Downloads
          PROVE  Explained(dl'[d], Adding(d))
      <3>1. Explained(dl[d], Adding(d)) /\ dl[d] \in Record
        BY DEF EngineInv, SilenceInv
      <3>2. PICK q : q = [dl[d] EXCEPT !.gid = c.new]
        OBVIOUS
      <3>3. /\ q.engine = dl[d].engine /\ q.usingPcl = dl[d].usingPcl
            /\ q.watched = dl[d].watched /\ q.limited = dl[d].limited
            /\ q.state = dl[d].state /\ q.finished = dl[d].finished /\ q.gid = c.new
            /\ q.qt = dl[d].qt /\ q.again = dl[d].again
            /\ q.starts = dl[d].starts /\ q.ends = dl[d].ends
        BY <3>1, <3>2 DEF Record
      <3>4. CASE dl[d].engine = "aria2" /\ dl[d].gid = c.of /\ ~dl[d].finished
        <4>1. Explained(q, Adding(d))
          BY <2>1, <3>1, <3>3, <3>4 DEF Explained, Calm, Under
        <4> QED BY <1>5, <3>2, <3>4, <4>1 DEF Renamed
      <3>5. CASE ~(dl[d].engine = "aria2" /\ dl[d].gid = c.of /\ ~dl[d].finished)
        BY <1>5, <3>1, <3>5 DEF Renamed
      <3> QED BY <3>4, <3>5
    <2> QED BY <2>2, <2>3, ManyExplained
  <1> QED BY <1>3, <1>4, <1>5 DEF ReaddAnswered, managerVars

LEMMA OfAria2Explained ==
    ASSUME EngineInv, SilenceInv, OfAria2
    PROVE  SilenceInv'
  <1>1. ASSUME NEW c \in calls, TellAnswered(c)
        PROVE  SilenceInv'
    <2>1. c.kind = "tell" /\ c.of # 0
      BY <1>1 DEF EngineInv, CallsOK, TellAnswered, IsCall
    <2>2. AddsOf(calls') = AddsOf(calls)
      BY <1>1, <2>1, CallRemoved DEF EngineInv, TellAnswered
    <2>3. CASE UNCHANGED dl
      BY <2>2, <2>3, NothingExplained
    <2>4. CASE Tells({c.of}, "error") \/ Tells({c.of}, c.answer)
      BY <2>1, <2>2, <2>4, TellsExplained
    <2> QED BY <1>1, <2>3, <2>4 DEF TellAnswered
  <1>2. ASSUME NEW c \in calls, RemoveAnswered(c)
        PROVE  SilenceInv'
    <2>1. c.kind = "remove" /\ c.of # 0
      BY <1>2 DEF EngineInv, CallsOK, RemoveAnswered, IsCall
    <2>2. AddsOf(calls') = AddsOf(calls)
      BY <1>2, <2>1, CallRemoved DEF EngineInv, RemoveAnswered
    <2> QED BY <1>2, <2>1, <2>2, TellsExplained DEF RemoveAnswered
  <1>3. CASE ProcessFinished
    <2>1. CallsOK(Failing(calls)) /\ AddsOf(Failing(calls)) = AddsOf(calls)
      BY FailingKept DEF EngineInv
    <2>2. 0 \notin active /\ 0 \notin active \ requests
      BY DEF EngineInv
    <2>3. CASE FailActive /\ calls' = Failing(calls)
      BY <2>1, <2>2, <2>3, TellsExplained DEF FailActive
    <2>4. CASE ReaddActive
      <3>1. AddsOf(calls') = AddsOf(calls)
        BY <2>1, <2>2, <2>4, AddedCalls DEF ReaddActive
      <3> QED BY <2>2, <2>4, <3>1, TellsExplained DEF ReaddActive
    <2> QED BY <1>3, <2>3, <2>4 DEF ProcessFinished
  <1>4. ASSUME NEW g \in Gids, Refresh(g) \/ UserRemoves(g)
        PROVE  SilenceInv'
    BY <1>4, WithKept, NothingExplained DEF Refresh, UserRemoves, EngineInv
  <1>5. ASSUME UNCHANGED <<dl, calls>>
        PROVE  SilenceInv'
    BY <1>5, NothingExplained
  <1>6. CASE Shutdown
    BY <1>6, ShutdownKept, NothingExplained DEF Shutdown
  <1>7. CASE Crash
    BY <1>7, FailingKept, NothingExplained DEF Crash, Exit, EngineInv
  <1>8. ASSUME NEW c \in calls, Serve(c)
        PROVE  SilenceInv'
    BY <1>8, ServeKept, NothingExplained DEF Serve
  <1>9. ASSUME NEW g \in Gids, WorkEnds(g)
        PROVE  SilenceInv'
    BY <1>5, <1>9 DEF WorkEnds
  <1>10. CASE ClearFinished
    BY <1>5, <1>10 DEF ClearFinished
  <1> QED BY <1>1, <1>2, <1>3, <1>4, <1>6, <1>7, <1>8, <1>9, <1>10, Aria2StallExplained,
             AddAnsweredExplained, ReaddAnsweredExplained DEF OfAria2, Delivered

LEMMA OfPclExplained ==
    ASSUME EngineInv, EventsNumbered, SilenceInv, OfPcl, UNCHANGED aria2Vars
    PROVE  SilenceInv'
  <1>1. UNCHANGED calls
    BY DEF aria2Vars
  <1>2. ASSUME NEW d \in Downloads, PclStall(d)
        PROVE  SilenceInv'
    <2>1. AtEngine(dl[d]) /\ dl[d].engine = "PCL" /\ dl[d].watched
      BY <1>2 DEF EngineInv, PclStall, Sound, OwnNumber, AtEngine
    <2>2. /\ ~Adding(d) /\ Due(Over(dl[d]))
          /\ Over(dl[d]).engine = dl[d].engine /\ Over(dl[d]).state = dl[d].state
      BY <2>1, OverDue
    <2>3. dl[d].state # "AbortedByUser"
      BY <2>1 DEF SilenceInv, Explained, Calm
    <2>4. PICK r : r = [Over(dl[d]) EXCEPT !.usingPcl = FALSE]
      OBVIOUS
    <2>5. Due(r) /\ NoAbortOfPcl(r)
      BY <2>2, <2>3, <2>4 DEF Due, Ready, Calm, Record, OwnNumber, AtEngine, NoAbortOfPcl
    <2>6. PICK q : dl' = [dl EXCEPT ![d] = q] /\ Explained(q, FALSE)
      BY <1>2, <2>4, <2>5, FallBackExplained DEF PclStall
    <2> QED BY <1>1, <2>2, <2>6, OneSettled
  <1>3. ASSUME NEW t \in Tasks, NativeEnds(t)
        PROVE  SilenceInv'
    BY <1>1, <1>3, NothingExplained DEF NativeEnds
  <1>4. ASSUME NEW e, e.task # 0, TaskEvent(e)
        PROVE  SilenceInv'
    <2>1. PICK good \in BOOLEAN :
            dl' = [d \in Downloads |-> Heard(dl[d], e.task, e.event, good)]
      BY <1>4 DEF TaskEvent
    <2>2. ASSUME NEW d \in Downloads
          PROVE  Explained(dl'[d], Adding(d))
      <3>1. CASE dl[d].engine # "PCL" \/ dl[d].finished \/ dl[d].task # e.task
        BY <2>1, <3>1 DEF Heard, SilenceInv
      <3>2. CASE ~(dl[d].engine # "PCL" \/ dl[d].finished \/ dl[d].task # e.task)
        <4>1. AtEngine(dl[d])
          BY <1>4, <3>2 DEF AtEngine, EngineInv, Record
        <4>2. ~Adding(d) /\ Due(Over(dl[d])) /\ Over(dl[d]).state = dl[d].state
          BY <4>1, OverDue
        <4>3. CASE e.event = "Finished" /\ dl[d].state # "AbortedByUser"
          <5>1. NoAbortOfPcl(Over(dl[d]))
            BY <4>2, <4>3 DEF NoAbortOfPcl
          <5>2. Explained(Accepted(Over(dl[d]), good), FALSE)
            BY <4>2, <5>1, EmitExplained DEF Accepted
          <5>3. dl'[d] = Accepted(Over(dl[d]), good)
            BY <2>1, <3>2, <4>3 DEF Heard
          <5>4. Adding(d) = FALSE
            BY <4>2 DEF Adding
          <5> QED BY <5>2, <5>3, <5>4
        <4>4. CASE ~(e.event = "Finished" /\ dl[d].state # "AbortedByUser")
          <5>1. Explained(GivenUp(Over(dl[d])), FALSE)
            BY <4>2, GivenUpExplained
          <5>2. dl'[d] = GivenUp(Over(dl[d]))
            BY <2>1, <3>2, <4>4 DEF Heard
          <5>3. Adding(d) = FALSE
            BY <4>2 DEF Adding
          <5> QED BY <5>1, <5>2, <5>3
        <4> QED BY <4>3, <4>4
      <3> QED BY <3>1, <3>2
    <2> QED BY <1>1, <2>2, ManyExplained
  <1> QED BY <1>2, <1>3, <1>4 DEF OfPcl, EventsNumbered

LEMMA InitExplained ==
    ASSUME Init
    PROVE  SilenceInv
  <1>1. PICK engine \in {"aria2", "PCL"} : dl = [d \in Downloads |-> NewDownload(engine)]
    BY DEF Init
  <1>2. calls = {} /\ \A d \in Downloads : Adding(d) = FALSE
    BY DEF Init, Aria2Init, Adding, AddsOf
  <1>3. Explained(NewDownload(engine), FALSE)
    BY DEF NewDownload, Explained, Calm
  <1> QED BY <1>1, <1>2, <1>3 DEF SilenceInv

\* A download comes to its end without a word in two cases only: it was aborted at
\* aria2, or a mirror had answered 429 and left it in State::Inactive, in which
\* emitSucceeded() and emitFailed() are mute (Aria2Download.cpp:161,
\* PclDownloadTask.cpp:167, NetRequest.cpp, Task.cpp).
THEOREM SilenceAlwaysExplained == Spec => []SilenceExplained
  <1>1. Init => SilenceInv
    BY InitExplained
  <1>2. EngineInv /\ EventsNumbered /\ SilenceInv /\ [Next]_vars => SilenceInv'
    <2> SUFFICES ASSUME EngineInv, EventsNumbered, SilenceInv, [Next]_vars
                 PROVE  SilenceInv'
      OBVIOUS
    <2>1. CASE UNCHANGED vars
      BY <2>1, NothingExplained DEF vars, aria2Vars
    <2>2. CASE OfPcl /\ UNCHANGED aria2Vars
      BY <2>2, OfPclExplained
    <2> QED BY <2>1, <2>2, RequestExplained, OfAria2Explained DEF Next
  <1>3. EngineInv /\ SilenceInv => SilenceExplained
    <2> SUFFICES ASSUME EngineInv, SilenceInv, NEW d \in Downloads, Silent(d)
                 PROVE  dl[d].limited \/ AbortedAtAria2(d)
      BY DEF SilenceExplained
    <2>1. Explained(dl[d], Adding(d)) /\ dl[d].ends < dl[d].starts
      BY DEF SilenceInv, Silent, Pending
    <2>2. ~Adding(d)
      BY DEF Silent, UnderWay, Adding, AddsOf
    <2>3. ~Under(dl[d], Adding(d))
      BY <2>2 DEF Silent, UnderWay, Under
    <2> QED BY <2>1, <2>3 DEF Explained, Muted, AbortedAtAria2
  <1> QED BY <1>1, <1>2, <1>3, EngineSound, PTL DEF Spec
=============================================================================
