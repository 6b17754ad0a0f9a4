--------------------------- MODULE DavWriteProofs ---------------------------
(***************************************************************************)
(* Writes of one file: types, the stripe as a lock of its process, no lost *)
(* update of a conditional write, acknowledged bytes are kept, and the row *)
(* describes the stored bytes, for any number of requests, server          *)
(* processes, deletions and faults.                                        *)
(***************************************************************************)
EXTENDS DavWrite, FiniteSetTheorems, WellFoundedInduction, SequenceTheorems, TLAPS

-----------------------------------------------------------------------------
(* The inductive invariant, in parts.                                      *)

Core == {"snapshot", "store", "meta"}

\* The write core runs under the stripe of its process, and nothing else does.
Held == \A r \in Requests : req[r].pc \in Core <=> stripe[Home[r]] = r

\* Only an assembly with a wrong checksum is undone, only an undoing write takes
\* no snapshot, and a write that names an etag goes on only for a row with it.
Named(c) == c.ifMatch \cup c.ifETags
Progress(q) ==
  /\ q.pc # "done" => q.result = "none"
  /\ q.pc \in {"verify", "dropVersion"} \/ q.undo => q.kind = "assembleBad"
  /\ q.pc = "dropVersion" => q.undo
  /\ ~q.undo => q.snap
  /\ q.pc = "new" => q.kind = "put"
  /\ q.pc = "snapshot" => q.seen # NoFile
Tagged(q) ==
  q.kind \in {"match", "ifList"} =>
    /\ q.cond.set /\ Star \notin Named(q.cond)
    /\ q.kind = "match" => q.cond.ifMatch # {}
    /\ q.kind = "ifList" => q.cond.ifETags # {}
    /\ q.pc \in Core => q.seen # NoFile /\ ETag(q.seen) \in Named(q.cond)
Progresses == \A r \in Requests : Progress(req[r]) /\ Tagged(req[r])

-----------------------------------------------------------------------------
(* Types.                                                                  *)

\* The deployment never changes, nor what depends on it.
LEMMA Deployment ==
  ASSUME UNCHANGED setup
  PROVE  /\ Row' = Row /\ Home' = Home /\ Processes' = Processes /\ Kinds' = Kinds /\ Stamps' = Stamps
         /\ MaxTrash' = MaxTrash /\ WriteRequest' = WriteRequest
BY DEF Row, Home, Processes, Kinds, Stamps, MaxTrash, WriteRequest, Cond, ETags

\* Replacing one request leaves the others alone.
LEMMA OneRequest ==
  ASSUME NEW f \in [Requests -> WriteRequest], NEW r \in Requests, NEW v \in WriteRequest
  PROVE  /\ [f EXCEPT ![r] = v] \in [Requests -> WriteRequest]
         /\ [f EXCEPT ![r] = v][r] = v
         /\ \A q \in Requests \ {r} : [f EXCEPT ![r] = v][q] = f[q]
OBVIOUS

\* Taking or freeing a stripe leaves the other stripes alone.
LEMMA OneStripe ==
  ASSUME NEW f \in [Processes -> Requests \cup {NoFile}], NEW r \in Requests, NEW v \in Requests \cup {NoFile}
  PROVE  /\ [f EXCEPT ![Home[r]] = v] \in [Processes -> Requests \cup {NoFile}]
         /\ \A q \in Requests : [f EXCEPT ![Home[r]] = v][Home[q]] = IF Home[q] = Home[r] THEN v ELSE f[Home[q]]
BY DEF Processes

\* What a request still asks for.
Same(v, q) == v.kind = q.kind /\ v.cond = q.cond /\ v.body = q.body /\ v.snap = q.snap /\ v.undo = q.undo

\* A request goes on to another step.
LEMMA GoesOn ==
  ASSUME NEW q \in WriteRequest, NEW pc \in PC,
         NEW v, v = [q EXCEPT !.pc = pc]
  PROVE
         v \in WriteRequest /\ v.pc = pc /\ v.result = q.result /\ v.seen = q.seen /\ Same(v, q)
BY DEF WriteRequest, Same

\* The preconditions a client sends.
LEMMA CondType ==
  /\ NoCond \in Cond
  /\ \A kind \in AllKinds : /\ ~NeedsTag(kind) => \A t : CondOf(kind, t) \in Cond
                            /\ \A t \in ETags : CondOf(kind, t) \in Cond
BY DEF NoCond, Cond, CondOf, NeedsTag, AllKinds, Star

\* What a sequence holds is of its type, and so is its last element.
LEMMA ElementsType ==
  ASSUME NEW S, NEW o \in Seq(S)
  PROVE  ToSet(o) \subseteq S
<1> SUFFICES ASSUME NEW i \in DOMAIN o PROVE o[i] \in S
  BY DEF ToSet
<1>1. o \in [1 .. Len(o) -> S]
  BY LenProperties
<1> QED
  BY <1>1

LEMMA LastOfSeq ==
  ASSUME NEW S, NEW o \in Seq(S), o # <<>>
  PROVE  Last(o) \in S
<1>1. Len(o) \in Nat \ {0} /\ o \in [1 .. Len(o) -> S]
  BY EmptySeq, LenProperties
<1> QED
  BY <1>1 DEF Last

-----------------------------------------------------------------------------
(* What a step does to its request and to the stripe.                      *)

Arrived(r, v) ==
  /\ req[r].pc = "new" /\ v.pc = "enter" /\ stripe' = stripe
  /\ v.result = req[r].result /\ v.snap = req[r].snap /\ v.undo = req[r].undo
  /\ IF NeedsTag(v.kind) THEN row # NoFile /\ v.cond = CondOf(v.kind, ETag(row)) ELSE v.cond = CondOf(v.kind, NoFile)
Entered(r, v) ==
  /\ req[r].pc = "enter" /\ stripe[Home[r]] = NoFile /\ stripe' = [stripe EXCEPT ![Home[r]] = r]
  /\ Evaluate(req[r].cond, row # NoFile, IF row # NoFile THEN ETag(row) ELSE NoFile)
  /\ v.pc = (IF row # NoFile /\ req[r].snap THEN "snapshot" ELSE "store") /\ v.seen = row
  /\ v.result = req[r].result /\ Same(v, req[r])
Went(r, v) ==
  /\ req[r].pc \in Core /\ v.pc \in Core /\ stripe' = stripe
  /\ v.pc # "snapshot" /\ v.seen = req[r].seen /\ v.result = req[r].result /\ Same(v, req[r])
Left(r, v) ==
  /\ req[r].pc \in Core /\ stripe' = [stripe EXCEPT ![Home[r]] = NoFile]
  /\ \/ v.pc = "done"
     \/ v.pc = "verify" /\ req[r].kind = "assembleBad" /\ v.result = req[r].result
     \/ v.pc = "dropVersion" /\ req[r].undo /\ v.result = req[r].result
  /\ v.seen = req[r].seen /\ Same(v, req[r])
Ended(r, v) ==
  /\ req[r].pc \in {"enter", "verify", "dropVersion"} /\ v.pc = "done" /\ stripe' = stripe
  /\ v.seen = req[r].seen /\ Same(v, req[r])
Undone(r, v) ==
  /\ req[r].pc = "verify" /\ v.pc = "enter" /\ stripe' = stripe
  /\ v.result = req[r].result /\ v.kind = req[r].kind /\ v.cond = NoCond /\ ~v.snap /\ v.undo

Moves(r, v) ==
  /\ req' = [req EXCEPT ![r] = v]
  /\ Arrived(r, v) \/ Entered(r, v) \/ Went(r, v) \/ Left(r, v) \/ Ended(r, v) \/ Undone(r, v)

\* A write that went through is answered, verified or cleaned up after.
LEMMA WrittenType ==
  ASSUME NEW r \in Requests, req[r] \in WriteRequest
  PROVE  /\ Written(r) \in WriteRequest /\ Written(r).seen = req[r].seen /\ Same(Written(r), req[r])
         /\ \/ Written(r).pc = "done" /\ Written(r).result = "ok" /\ (req[r].kind = "assembleBad" => req[r].undo)
            \/ Written(r).pc = "verify" /\ req[r].kind = "assembleBad" /\ Written(r).result = req[r].result
            \/ Written(r).pc = "dropVersion" /\ req[r].undo /\ Written(r).result = req[r].result
<1>1. CASE req[r].undo
  <2>1. Written(r) = [req[r] EXCEPT !.pc = "dropVersion"]
    BY <1>1 DEF Written
  <2>2. "dropVersion" \in PC
    BY DEF PC
  <2> QED
    BY <1>1, <2>1, <2>2, GoesOn
<1>2. CASE ~req[r].undo /\ req[r].kind = "assembleBad"
  <2>1. Written(r) = [req[r] EXCEPT !.pc = "verify"]
    BY <1>2 DEF Written
  <2>2. "verify" \in PC
    BY DEF PC
  <2> QED
    BY <1>2, <2>1, <2>2, GoesOn
<1>3. CASE ~req[r].undo /\ req[r].kind # "assembleBad"
  <2>1. Written(r) = [req[r] EXCEPT !.pc = "done", !.result = "ok"]
    BY <1>3 DEF Written
  <2>2. "ok" \in Result
    BY DEF Result
  <2> QED
    BY <1>3, <2>1 DEF WriteRequest, Same, PC, Result
<1> QED
  BY <1>1, <1>2, <1>3

\* Every step of a request is one of these moves.
LEMMA StepMoves ==
  ASSUME TypeOK, NEW r \in Requests, Step(r)
  PROVE  \E v \in WriteRequest : Moves(r, v)
<1>0. req[r] \in WriteRequest
  BY DEF TypeOK
<1>1. ASSUME NEW kind \in Kinds, Arrive(r, kind) PROVE \E v \in WriteRequest : Moves(r, v)
  <2>1. kind \in AllKinds
    BY DavWriteAssumption DEF Kinds, TypeOK
  <2>2. PICK b \in IF kind = "restore" THEN ToSet(versions) ELSE {r} :
          req' = [req EXCEPT ![r] = [@ EXCEPT !.pc = "enter", !.kind = kind, !.body = b,
                          !.cond = IF NeedsTag(kind) THEN CondOf(kind, ETag(row)) ELSE CondOf(kind, NoFile)]]
    BY <1>1 DEF Arrive
  <2>3. b \in Bytes
    <3>1. ToSet(versions) \subseteq Bytes /\ r \in Bytes
      <4>1. versions \in Seq(Bytes)
        BY DEF TypeOK
      <4>2. r \in Bytes
        BY DEF Bytes
      <4> QED
        BY <4>1, <4>2, ElementsType
    <3> QED
      BY <2>2, <3>1
  <2>4. PICK c : c = IF NeedsTag(kind) THEN CondOf(kind, ETag(row)) ELSE CondOf(kind, NoFile)
    OBVIOUS
  <2>5. NeedsTag(kind) => row # NoFile
    BY <1>1 DEF Arrive
  <2>6. c \in Cond
    <3>1. CASE NeedsTag(kind)
      <4>1. ETag(row) \in ETags
        BY <2>5, <3>1 DEF TypeOK, Row, ETag, ETags
      <4> QED
        BY <2>1, <2>4, <3>1, <4>1, CondType
    <3>2. CASE ~NeedsTag(kind)
      BY <2>1, <2>4, <3>2, CondType
    <3> QED
      BY <3>1, <3>2
  <2>7. PICK v : v = [req[r] EXCEPT !.pc = "enter", !.kind = kind, !.body = b, !.cond = c]
    OBVIOUS
  <2>8. /\ v \in WriteRequest /\ v.pc = "enter" /\ v.result = req[r].result
        /\ v.kind = kind /\ v.cond = c /\ v.snap = req[r].snap /\ v.undo = req[r].undo
    BY <1>0, <2>1, <2>3, <2>6, <2>7 DEF WriteRequest, PC
  <2>9. req' = [req EXCEPT ![r] = v]
    BY <2>2, <2>4, <2>7
  <2>10. Arrived(r, v)
    BY <1>1, <2>4, <2>5, <2>8 DEF Arrive, Arrived
  <2> QED
    BY <2>8, <2>9, <2>10 DEF Moves
<1>2. CASE Enter(r)
  <2> DEFINE pass == Evaluate(req[r].cond, row # NoFile, IF row # NoFile THEN ETag(row) ELSE NoFile)
  <2>0. row \in Row \cup {NoFile}
    BY DEF TypeOK
  <2>1. CASE pass
    <3>1. PICK pc : pc = IF row # NoFile /\ req[r].snap THEN "snapshot" ELSE "store"
      OBVIOUS
    <3>2. pc \in PC
      BY <3>1 DEF PC
    <3>3. PICK v : v = [req[r] EXCEPT !.seen = row, !.pc = pc]
      OBVIOUS
    <3>4. v \in WriteRequest /\ v.pc = pc /\ v.result = req[r].result /\ v.seen = row /\ Same(v, req[r])
      BY <1>0, <3>2, <3>3, <2>0 DEF WriteRequest, Same
    <3>5. req' = [req EXCEPT ![r] = v]
      BY <1>2, <2>1, <3>1, <3>3 DEF Enter
    <3>6. Entered(r, v)
      BY <1>2, <2>1, <3>1, <3>4 DEF Enter, Entered
    <3> QED
      BY <3>4, <3>5, <3>6 DEF Moves
  <2>2. CASE ~pass
    <3>1. PICK v : v = [req[r] EXCEPT !.pc = "done", !.result = "refused"]
      OBVIOUS
    <3>2. v \in WriteRequest /\ v.pc = "done" /\ v.seen = req[r].seen /\ Same(v, req[r])
      BY <1>0, <3>1 DEF WriteRequest, Same, PC, Result
    <3>3. req' = [req EXCEPT ![r] = v] /\ stripe' = stripe /\ req[r].pc = "enter"
      BY <1>2, <2>2, <3>1 DEF Enter
    <3> QED
      BY <3>2, <3>3 DEF Moves, Ended
  <2> QED
    BY <2>1, <2>2
<1>3. ASSUME NEW pc \in {"store", "meta"}, req[r].pc \in Core, req' = [req EXCEPT ![r].pc = pc], stripe' = stripe
      PROVE  \E v \in WriteRequest : Moves(r, v)
  <2>1. PICK v : v = [req[r] EXCEPT !.pc = pc]
    OBVIOUS
  <2>2. v \in WriteRequest /\ v.pc = pc /\ v.result = req[r].result /\ v.seen = req[r].seen /\ Same(v, req[r])
    BY <1>0, <2>1, GoesOn DEF PC
  <2> QED
    BY <1>3, <2>1, <2>2 DEF Moves, Went, Core
<1>4. ASSUME NEW x \in Result, req[r].pc \in Core, Leave(r, [req[r] EXCEPT !.pc = "done", !.result = x])
      PROVE  \E v \in WriteRequest : Moves(r, v)
  <2>1. PICK v : v = [req[r] EXCEPT !.pc = "done", !.result = x]
    OBVIOUS
  <2>2. v \in WriteRequest /\ v.pc = "done" /\ v.seen = req[r].seen /\ Same(v, req[r])
    BY <1>0, <2>1 DEF WriteRequest, Same, PC, Result
  <2> QED
    BY <1>4, <2>1, <2>2 DEF Moves, Left, Leave
<1>5. ASSUME req[r].pc \in Core, Leave(r, Written(r)) PROVE \E v \in WriteRequest : Moves(r, v)
  BY <1>0, <1>5, WrittenType DEF Moves, Left, Leave
<1>6. CASE Snapshot(r)
  BY <1>3, <1>4, <1>6 DEF Snapshot, Core, Result
<1>7. CASE Store(r) \/ StoreBreaks(r)
  BY <1>3, <1>4, <1>7 DEF Store, StoreBreaks, Core, Result
<1>8. CASE MetaInsert(r) \/ MetaUpdate(r) \/ MetaBreaks(r)
  BY <1>4, <1>5, <1>8 DEF MetaInsert, MetaUpdate, MetaBreaks, Core, Result
<1>9. CASE UndoPurge(r) \/ UndoGone(r) \/ UndoDrop(r)
  <2>1. PICK v : v = [req[r] EXCEPT !.pc = "done", !.result = "failed"]
    OBVIOUS
  <2>2. v \in WriteRequest /\ v.pc = "done" /\ v.seen = req[r].seen /\ Same(v, req[r])
    BY <1>0, <2>1 DEF WriteRequest, Same, PC, Result
  <2>3. req' = [req EXCEPT ![r] = v] /\ stripe' = stripe /\ req[r].pc \in {"verify", "dropVersion"}
    BY <1>9, <2>1 DEF UndoPurge, UndoGone, UndoDrop
  <2> QED
    BY <2>2, <2>3 DEF Moves, Ended
<1>10. CASE UndoOpen(r)
  <2>1. Last(versions) \in Bytes
    BY <1>10, LastOfSeq DEF UndoOpen, TypeOK
  <2>2. PICK v : v = [req[r] EXCEPT !.pc = "enter", !.cond = NoCond, !.snap = FALSE, !.undo = TRUE, !.body = Last(versions)]
    OBVIOUS
  <2>3. /\ v \in WriteRequest /\ v.pc = "enter" /\ v.result = req[r].result
        /\ v.kind = req[r].kind /\ v.cond = NoCond /\ v.snap = FALSE /\ v.undo = TRUE
    BY <1>0, <2>1, <2>2, CondType DEF WriteRequest, PC
  <2> QED
    BY <1>10, <2>2, <2>3 DEF UndoOpen, Moves, Undone
<1> QED
  BY <1>1, <1>2, <1>6, <1>7, <1>8, <1>9, <1>10 DEF Step

\* A crash ends the requests of its process and leaves the others alone.
Crashed(p, r) == Home[r] = p /\ req[r].pc \notin {"new", "done"}
LEMMA CrashMoves ==
  ASSUME TypeOK, NEW p \in Processes, Crash(p)
  PROVE  /\ req' \in [Requests -> WriteRequest]
         /\ \A r \in Requests : ~Crashed(p, r) => req'[r] = req[r]
         /\ \A r \in Requests : Crashed(p, r) => req'[r].pc = "done" /\ req'[r].result = "failed" /\ Same(req'[r], req[r])
         /\ stripe' = [stripe EXCEPT ![p] = NoFile]
<1>1. ASSUME NEW r \in Requests, NEW v, v = [req[r] EXCEPT !.pc = "done", !.result = "failed"]
      PROVE  v \in WriteRequest /\ v.pc = "done" /\ v.result = "failed" /\ Same(v, req[r])
  <2>1. req[r] \in WriteRequest
    BY DEF TypeOK
  <2> QED
    BY <1>1, <2>1 DEF WriteRequest, Same, PC, Result
<1>2. \A r \in Requests : req'[r] = IF Crashed(p, r) THEN [req[r] EXCEPT !.pc = "done", !.result = "failed"] ELSE req[r]
  BY DEF Crash, Crashed
<1>3. ASSUME NEW r \in Requests
      PROVE  /\ req'[r] \in WriteRequest
             /\ ~Crashed(p, r) => req'[r] = req[r]
             /\ Crashed(p, r) => req'[r].pc = "done" /\ req'[r].result = "failed" /\ Same(req'[r], req[r])
  <2>1. PICK v : v = [req[r] EXCEPT !.pc = "done", !.result = "failed"]
    OBVIOUS
  <2>2. v \in WriteRequest /\ v.pc = "done" /\ v.result = "failed" /\ Same(v, req[r])
    BY <1>1, <2>1
  <2>3. req'[r] = IF Crashed(p, r) THEN v ELSE req[r]
    BY <1>2, <2>1
  <2> QED
    BY <2>2, <2>3 DEF TypeOK
<1>4. \E f : req' = [r \in Requests |-> f[r]]
  <2>1. req' = [r \in Requests |-> req'[r]]
    BY DEF Crash
  <2> QED
    BY <2>1
<1>5. stripe' = [stripe EXCEPT ![p] = NoFile]
  BY DEF Crash
<1> QED
  BY <1>3, <1>4, <1>5

\* A step that is neither a request's nor a crash leaves the requests alone.
LEMMA Others ==
  ASSUME [Next /\ UNCHANGED setup]_vars
  PROVE  \/ \E r \in Requests : Step(r)
         \/ \E p \in Processes : Crash(p)
         \/ req' = req /\ stripe' = stripe /\ (RemoveObject \/ RemoveRow \/ Expire \/ UNCHANGED vars)
BY DEF Next, RemoveObject, RemoveRow, Expire, vars

\* Requests and stripes keep their types.
LEMMA RequestTypes ==
  ASSUME TypeOK, [Next /\ UNCHANGED setup]_vars
  PROVE  req' \in [Requests -> WriteRequest] /\ stripe' \in [Processes -> Requests \cup {NoFile}]
<1>0. req \in [Requests -> WriteRequest] /\ stripe \in [Processes -> Requests \cup {NoFile}]
  BY DEF TypeOK
<1>1. ASSUME NEW r \in Requests, Step(r)
      PROVE  req' \in [Requests -> WriteRequest] /\ stripe' \in [Processes -> Requests \cup {NoFile}]
  <2>1. PICK v \in WriteRequest : Moves(r, v)
    BY <1>1, StepMoves
  <2>2. req' \in [Requests -> WriteRequest]
    BY <1>0, <2>1, OneRequest DEF Moves
  <2>3. stripe' = stripe \/ stripe' = [stripe EXCEPT ![Home[r]] = r] \/ stripe' = [stripe EXCEPT ![Home[r]] = NoFile]
    BY <2>1 DEF Moves, Arrived, Entered, Went, Left, Ended, Undone
  <2> QED
    BY <1>0, <2>2, <2>3, OneStripe
<1>2. ASSUME NEW p \in Processes, Crash(p)
      PROVE  req' \in [Requests -> WriteRequest] /\ stripe' \in [Processes -> Requests \cup {NoFile}]
  BY <1>0, <1>2, CrashMoves
<1> QED
  BY <1>0, <1>1, <1>2, Others

\* The write core runs under the stripe.
LEMMA HeldStep == TypeOK /\ Held /\ [Next /\ UNCHANGED setup]_vars => Held'
<1> SUFFICES ASSUME TypeOK, Held, [Next /\ UNCHANGED setup]_vars PROVE Held'
  OBVIOUS
<1>0. /\ req \in [Requests -> WriteRequest] /\ stripe \in [Processes -> Requests \cup {NoFile}]
      /\ NoFile \notin Requests /\ Home' = Home
  BY DavWriteAssumption DEF TypeOK, Home, vars
<1>1. ASSUME NEW r \in Requests, Step(r) PROVE Held'
  <2>1. PICK v \in WriteRequest : Moves(r, v)
    BY <1>1, StepMoves
  <2>2. req'[r] = v /\ \A q \in Requests \ {r} : req'[q] = req[q]
    BY <1>0, <2>1, OneRequest DEF Moves
  <2>3. CASE stripe' = stripe /\ (v.pc \in Core <=> req[r].pc \in Core)
    BY <1>0, <2>2, <2>3 DEF Held
  <2>4. CASE Entered(r, v)
    <3>1. \A q \in Requests : stripe'[Home[q]] = IF Home[q] = Home[r] THEN r ELSE stripe[Home[q]]
      BY <1>0, <2>4, OneStripe DEF Entered
    <3>2. v.pc \in Core /\ stripe[Home[r]] = NoFile
      BY <2>4 DEF Entered, Core
    <3> QED
      BY <1>0, <2>2, <3>1, <3>2 DEF Held
  <2>5. CASE Left(r, v)
    <3>1. \A q \in Requests : stripe'[Home[q]] = IF Home[q] = Home[r] THEN NoFile ELSE stripe[Home[q]]
      BY <1>0, <2>5, OneStripe DEF Left
    <3>2. v.pc \notin Core /\ stripe[Home[r]] = r
      BY <2>5 DEF Left, Core, Held
    <3> QED
      BY <1>0, <2>2, <3>1, <3>2 DEF Held
  <2>6. Arrived(r, v) \/ Went(r, v) \/ Ended(r, v) \/ Undone(r, v) => stripe' = stripe /\ (v.pc \in Core <=> req[r].pc \in Core)
    BY DEF Arrived, Went, Ended, Undone, Core
  <2> QED
    BY <2>1, <2>3, <2>4, <2>5, <2>6 DEF Moves
<1>2. ASSUME NEW p \in Processes, Crash(p) PROVE Held'
  <2>1. \A q \in Requests : Home[q] \in Processes
    BY DEF Processes
  <2>2. \A q \in Requests : stripe'[Home[q]] = IF Home[q] = p THEN NoFile ELSE stripe[Home[q]]
    BY <1>0, <1>2, <2>1, CrashMoves
  <2>3. ASSUME NEW q \in Requests PROVE req'[q].pc \in Core <=> stripe'[Home[q]] = q
    <3>1. CASE Crashed(p, q)
      BY <1>0, <1>2, <2>2, <3>1, CrashMoves DEF Crashed, Core
    <3>2. CASE ~Crashed(p, q)
      BY <1>0, <1>2, <2>2, <3>2, CrashMoves DEF Crashed, Core, Held
    <3> QED
      BY <3>1, <3>2
  <2> QED
    BY <1>0, <2>3 DEF Held
<1>3. CASE req' = req /\ stripe' = stripe
  BY <1>0, <1>3 DEF Held
<1> QED
  BY <1>1, <1>2, <1>3, Others

\* The headers of a write that names an etag hold it, and no wildcard.
LEMMA TagNamed ==
  ASSUME NEW t \in ETags
  PROVE  /\ CondOf("match", t).set /\ CondOf("match", t).ifMatch = {t} /\ CondOf("match", t).ifETags = {}
         /\ CondOf("ifList", t).set /\ CondOf("ifList", t).ifETags = {t} /\ CondOf("ifList", t).ifMatch = {}
         /\ t # Star
<1>1. t # Star
  BY DEF ETags, Star
<1> QED
  BY <1>1 DEF CondOf, NoCond

\* Requests keep to their course.
LEMMA ProgressStep == TypeOK /\ Progresses /\ [Next /\ UNCHANGED setup]_vars => Progresses'
<1> SUFFICES ASSUME TypeOK, Progresses, [Next /\ UNCHANGED setup]_vars PROVE Progresses'
  OBVIOUS
<1>1. ASSUME NEW r \in Requests, Step(r) PROVE Progresses'
  <2>1. PICK v \in WriteRequest : Moves(r, v)
    BY <1>1, StepMoves
  <2>2. req'[r] = v /\ \A q \in Requests \ {r} : req'[q] = req[q]
    BY <2>1, OneRequest DEF Moves, TypeOK
  <2>3. Progress(req[r]) /\ Tagged(req[r])
    BY DEF Progresses
  <2>4. Progress(v)
    BY <2>1, <2>3 DEF Moves, Arrived, Entered, Went, Left, Ended, Undone, Progress, Same, Core
  <2>5. Tagged(v)
    <3>1. CASE Arrived(r, v)
      <4>1. CASE v.kind \in {"match", "ifList"}
        <5>1. row # NoFile /\ v.cond = CondOf(v.kind, ETag(row))
          BY <3>1, <4>1 DEF Arrived, NeedsTag
        <5>2. ETag(row) \in ETags
          BY <5>1 DEF TypeOK, Row, ETag, ETags
        <5>3. PICK t \in ETags : t = ETag(row)
          BY <5>2
        <5>4. v.pc = "enter" /\ v.cond = CondOf(v.kind, t)
          BY <3>1, <5>1, <5>3 DEF Arrived
        <5> QED
          BY <4>1, <5>4, TagNamed DEF Tagged, Named, Core
      <4>2. CASE v.kind \notin {"match", "ifList"}
        BY <4>2 DEF Tagged
      <4> QED
        BY <4>1, <4>2
    <3>2. CASE Entered(r, v)
      BY <2>3, <3>2 DEF Entered, Tagged, Named, Same, Evaluate
    <3>3. CASE Undone(r, v)
      BY <2>3, <3>3 DEF Undone, Tagged, Progress
    <3>4. CASE Went(r, v) \/ Left(r, v) \/ Ended(r, v)
      BY <2>3, <3>4 DEF Went, Left, Ended, Tagged, Same, Core
    <3> QED
      BY <2>1, <3>1, <3>2, <3>3, <3>4 DEF Moves
  <2> QED
    BY <2>2, <2>4, <2>5 DEF Progresses
<1>2. ASSUME NEW p \in Processes, Crash(p) PROVE Progresses'
  <2> SUFFICES ASSUME NEW r \in Requests PROVE Progress(req'[r]) /\ Tagged(req'[r])
    BY DEF Progresses
  <2>1. Progress(req[r]) /\ Tagged(req[r])
    BY DEF Progresses
  <2>2. CASE Crashed(p, r)
    BY <1>2, <2>1, <2>2, CrashMoves DEF Progress, Tagged, Same, Core
  <2>3. CASE ~Crashed(p, r)
    BY <1>2, <2>1, <2>3, CrashMoves
  <2> QED
    BY <2>2, <2>3
<1>3. CASE req' = req
  BY <1>3 DEF Progresses
<1> QED
  BY <1>1, <1>2, <1>3, Others

-----------------------------------------------------------------------------
(* Types.                                                                  *)

\* A non-empty set of positions has a last.
LEMMA GreatestPosition ==
  ASSUME NEW n \in Nat, NEW S \in SUBSET (1 .. n), S # {}
  PROVE  Max(S) \in S
<1> DEFINE R == {ss \in Nat \X Nat : ss[1] < ss[2]}
           T == {n - i : i \in S}
<1>1. IsWellFoundedOn(R, Nat)
  BY NatLessThanWellFounded DEF OpToRel
<1>2. \A a, b \in Nat : a < b => <<a, b>> \in R
  OBVIOUS
<1>3. T \subseteq Nat /\ T # {}
  <2>1. \A i \in S : n - i \in Nat
    OBVIOUS
  <2>2. PICK i : i \in S
    OBVIOUS
  <2>3. n - i \in T
    BY <2>2
  <2> QED
    BY <2>1, <2>3
<1> HIDE DEF R
<1>4. PICK k \in T : \A j \in T : <<j, k>> \notin R
  <2> HIDE DEF T
  <2> QED
    BY <1>1, <1>3, WFMin
<1>5. PICK i \in S : k = n - i
  BY <1>4
<1>6. \A j \in S : i >= j
  <2> SUFFICES ASSUME NEW j \in S PROVE i >= j
    OBVIOUS
  <2>1. n - j \in T /\ n - j \in Nat /\ n - i \in Nat
    OBVIOUS
  <2>2. ~(n - j < n - i)
    BY <1>2, <1>4, <1>5, <2>1
  <2> QED
    BY <2>2
<1> QED
  BY <1>6 DEF Max

\* Taking one element out leaves a sequence of the type.
LEMMA RemoveType ==
  ASSUME NEW S, NEW o \in Seq(S), NEW i \in 1 .. Len(o)
  PROVE  RemoveAt(o, i) \in Seq(S)
<1>1. Len(o) \in Nat
  BY LenProperties
<1>2. SubSeq(o, 1, i - 1) \in Seq(S) /\ SubSeq(o, i + 1, Len(o)) \in Seq(S)
  BY <1>1, SubSeqProperties
<1> QED
  BY <1>2, ConcatProperties DEF RemoveAt

\* Dropping the oldest leaves the others.
LEMMA ExpireOldest ==
  ASSUME NEW S, NEW o \in Seq(S), o # <<>>
  PROVE  /\ Head(o) \in S /\ Tail(o) \in Seq(S)
         /\ ToSet(o) = {Head(o)} \cup ToSet(Tail(o))
<1>1. Len(o) \in Nat \ {0} /\ o \in [1 .. Len(o) -> S]
  BY EmptySeq, LenProperties
<1>2. /\ Head(o) = o[1] /\ Tail(o) \in Seq(S) /\ Len(Tail(o)) = Len(o) - 1
      /\ \A i \in 1 .. Len(Tail(o)) : Tail(o)[i] = o[i + 1]
  BY HeadTailProperties
<1>3. PICK t : t = Tail(o)
  OBVIOUS
<1>4. DOMAIN t = 1 .. (Len(o) - 1) /\ \A i \in 1 .. (Len(o) - 1) : t[i] = o[i + 1]
  BY <1>1, <1>2, <1>3, LenProperties
<1>5. ToSet(o) = {o[1]} \cup ToSet(t)
  <2>1. \A x \in ToSet(o) : x = o[1] \/ x \in ToSet(t)
    <3> SUFFICES ASSUME NEW i \in 1 .. Len(o), i # 1 PROVE o[i] \in ToSet(t)
      BY <1>1 DEF ToSet
    <3>1. i - 1 \in 1 .. (Len(o) - 1) /\ t[i - 1] = o[i]
      BY <1>1, <1>4
    <3> QED
      BY <1>4, <3>1 DEF ToSet
  <2>2. \A x \in ToSet(t) : x \in ToSet(o)
    <3> SUFFICES ASSUME NEW i \in 1 .. (Len(o) - 1) PROVE t[i] \in ToSet(o)
      BY <1>4 DEF ToSet
    <3>1. i + 1 \in 1 .. Len(o) /\ t[i] = o[i + 1]
      BY <1>1, <1>4
    <3> QED
      BY <1>1, <3>1 DEF ToSet
  <2>3. o[1] \in ToSet(o)
    BY <1>1 DEF ToSet
  <2> QED
    BY <2>1, <2>2, <2>3
<1> QED
  BY <1>1, <1>2, <1>3, <1>5

\* Adding one at the end adds it.
LEMMA AppendNewest ==
  ASSUME NEW S, NEW o \in Seq(S), NEW x \in S
  PROVE  Append(o, x) \in Seq(S) /\ ToSet(Append(o, x)) = ToSet(o) \cup {x}
<1>1. /\ Append(o, x) \in Seq(S) /\ Len(Append(o, x)) = Len(o) + 1 /\ Len(o) \in Nat
      /\ \A i \in 1 .. Len(o) : Append(o, x)[i] = o[i]
      /\ Append(o, x)[Len(o) + 1] = x
  BY AppendProperties, LenProperties
<1>2. PICK a : a = Append(o, x)
  OBVIOUS
<1> QED
  BY <1>1, <1>2 DEF ToSet

\* Types are kept.
LEMMA TypeStep == TypeOK /\ [Next /\ UNCHANGED setup]_vars => TypeOK'
<1> SUFFICES ASSUME TypeOK, [Next /\ UNCHANGED setup]_vars PROVE TypeOK'
  OBVIOUS
<1>s. UNCHANGED setup
  BY DEF vars
<1>d. Row' = Row /\ Processes' = Processes /\ WriteRequest' = WriteRequest /\ Stamps' = Stamps
  BY <1>s, Deployment
<1>q. req' \in [Requests -> WriteRequest] /\ stripe' \in [Processes -> Requests \cup {NoFile}]
  BY RequestTypes
<1>b. \A r \in Requests : r \in Bytes
  BY DEF Bytes
<1> DEFINE Data == /\ row' \in Row \cup {NoFile}
                   /\ nextId' \in 1 .. (MaxIds + 1)
                   /\ object' \in Bytes \cup {NoFile}
                   /\ versions' \in Seq(Bytes) /\ trash' \in Seq(Bytes)
                   /\ removing' \in BOOLEAN
                   /\ acked' \subseteq Bytes /\ discarded' \subseteq Bytes
                   /\ faults' \in Nat
<1> SUFFICES Data
  BY <1>s, <1>d, <1>q DEF TypeOK
<1>t. /\ row \in Row \cup {NoFile} /\ nextId \in 1 .. (MaxIds + 1) /\ object \in Bytes \cup {NoFile}
      /\ versions \in Seq(Bytes) /\ trash \in Seq(Bytes) /\ removing \in BOOLEAN
      /\ acked \subseteq Bytes /\ discarded \subseteq Bytes /\ faults \in Nat /\ MaxIds \in Nat
  BY DavWriteAssumption DEF TypeOK
<1>1. ASSUME NEW r \in Requests, Step(r) PROVE Data
  <2>0. req[r] \in WriteRequest /\ req[r].body \in Bytes /\ req[r].seen \in Row \cup {NoFile}
    <3>1. req[r] \in WriteRequest
      BY DEF TypeOK
    <3> QED
      BY <3>1 DEF WriteRequest
  <2>a. Answered(r) \subseteq Bytes
    BY <1>t, <2>0 DEF Answered
  <2>r. \A i \in 1 .. MaxIds, s \in Stamps : [id |-> i, stamp |-> s, body |-> req[r].body] \in Row
    BY <2>0 DEF Row
  <2>1. ASSUME NEW kind \in Kinds, Arrive(r, kind) PROVE Data
    BY <1>t, <2>1 DEF Arrive
  <2>2. CASE Enter(r) \/ UndoGone(r) \/ UndoOpen(r)
    BY <1>t, <2>2 DEF Enter, UndoGone, UndoOpen
  <2>3. CASE Snapshot(r)
    <3>1. object # NoFile => Append(versions, object) \in Seq(Bytes)
      BY <1>t, AppendNewest
    <3> QED
      BY <1>t, <2>3, <3>1 DEF Snapshot
  <2>4. CASE Store(r) \/ StoreBreaks(r)
    BY <1>t, <2>0, <2>4 DEF Store, StoreBreaks
  <2>5. CASE MetaInsert(r)
    BY <1>t, <2>a, <2>r, <2>5 DEF MetaInsert
  <2>6. CASE MetaUpdate(r)
    <3>1. req[r].seen # NoFile => req[r].seen.id \in 1 .. MaxIds
      BY <2>0 DEF Row
    <3> QED
      BY <1>t, <2>a, <2>r, <2>6, <3>1 DEF MetaUpdate
  <2>7. CASE MetaBreaks(r)
    BY <1>t, <2>7 DEF MetaBreaks
  <2>8. CASE UndoPurge(r)
    BY <1>t, <1>b, <2>8 DEF UndoPurge
  <2>9. CASE UndoDrop(r)
    <3> DEFINE same == {i \in DOMAIN versions : versions[i] = req[r].body}
    <3>1. Len(versions) \in Nat /\ DOMAIN versions = 1 .. Len(versions)
      BY <1>t, LenProperties
    <3>2. same # {} => Max(same) \in same
      BY <3>1, GreatestPosition
    <3>3. same # {} => RemoveAt(versions, Max(same)) \in Seq(Bytes)
      BY <1>t, <3>1, <3>2, RemoveType
    <3>4. versions' = IF same = {} THEN versions ELSE RemoveAt(versions, Max(same))
      BY <2>9 DEF UndoDrop
    <3> HIDE DEF same
    <3> QED
      BY <1>t, <2>9, <3>3, <3>4 DEF UndoDrop
  <2> HIDE DEF Data
  <2> QED
    BY <1>1, <2>1, <2>2, <2>3, <2>4, <2>5, <2>6, <2>7, <2>8, <2>9 DEF Step
<1>2. ASSUME NEW p \in Processes, Crash(p) PROVE Data
  <2>1. faults' = faults + 1 /\ UNCHANGED <<row, nextId, object, versions, trash, removing, acked, discarded>>
    BY <1>2 DEF Crash
  <2> QED
    BY <1>t, <2>1
<1>3. CASE RemoveObject
  <2>1. object # NoFile => Append(trash, object) \in Seq(Bytes)
    BY <1>t, AppendNewest
  <2> QED
    BY <1>t, <1>3, <2>1 DEF RemoveObject
<1>4. CASE RemoveRow
  BY <1>t, <1>4 DEF RemoveRow
<1>5. CASE Expire
  <2>1. Head(versions) \in Bytes /\ Tail(versions) \in Seq(Bytes)
    BY <1>t, <1>5, ExpireOldest DEF Expire
  <2> QED
    BY <1>t, <1>5, <2>1 DEF Expire
<1>6. CASE UNCHANGED vars
  BY <1>t, <1>6 DEF vars
<1> HIDE DEF Data
<1> QED
  BY <1>1, <1>2, <1>3, <1>4, <1>5, <1>6, Others

-----------------------------------------------------------------------------
(* Conditional writes.                                                     *)

Inv == TypeOK /\ Held /\ Progresses

\* Nothing is under way initially.
LEMMA InvInit == Init => Inv
<1> SUFFICES ASSUME Init PROVE Inv
  OBVIOUS
<1>1. ASSUME NEW r \in Requests, NEW v, v = [Fresh EXCEPT !.body = r]
      PROVE  v \in WriteRequest /\ v.pc = "new" /\ Progress(v) /\ Tagged(v)
  <2>1. NoCond \in Cond /\ r \in Bytes /\ Original \in Bytes
    BY CondType DEF Bytes
  <2>2. v = [pc |-> "new", kind |-> "put", cond |-> NoCond, body |-> r, snap |-> TRUE,
             seen |-> NoFile, undo |-> FALSE, result |-> "none"]
    BY <1>1 DEF Fresh
  <2> QED
    BY <2>1, <2>2 DEF WriteRequest, PC, AllKinds, Result, Progress, Tagged
<1>2. ASSUME NEW r \in Requests
      PROVE  req[r] \in WriteRequest /\ req[r].pc = "new" /\ Progress(req[r]) /\ Tagged(req[r])
  <2>1. req[r] = [Fresh EXCEPT !.body = r]
    BY DEF Init
  <2> QED
    BY <1>1, <2>1
<1>3. req \in [Requests -> WriteRequest]
  <2>1. req = [r \in Requests |-> req[r]]
    BY DEF Init
  <2> QED
    BY <1>2, <2>1
<1>4. stripe = [p \in Processes |-> NoFile]
  BY DEF Init
<1>5. /\ row \in Row \cup {NoFile} /\ nextId \in 1 .. (MaxIds + 1) /\ object \in Bytes \cup {NoFile}
      /\ acked \subseteq Bytes
  <2>1. CASE \E s \in Stamps : row = [id |-> 1, stamp |-> s, body |-> Original] /\ object = Original /\ acked = {Original} /\ nextId = 2
    <3>1. 1 \in 1 .. MaxIds /\ 2 \in 1 .. (MaxIds + 1) /\ Original \in Bytes
      BY DavWriteAssumption DEF Bytes
    <3> QED
      BY <2>1, <3>1 DEF Row
  <2>2. CASE row = NoFile /\ object = NoFile /\ acked = {} /\ nextId = 1
    BY <2>2, DavWriteAssumption
  <2> QED
    BY <2>1, <2>2 DEF Init
<1>6. versions \in Seq(Bytes) /\ trash \in Seq(Bytes)
  BY DEF Init
<1>7. TypeOK
  BY <1>3, <1>4, <1>5, <1>6 DEF Init, TypeOK
<1>8. Held
  BY <1>2, <1>4, DavWriteAssumption DEF Held, Core, Processes
<1> QED
  BY <1>2, <1>7, <1>8 DEF Inv, Progresses

\* Every step keeps the invariant.
LEMMA InvStep == Inv /\ [Next /\ UNCHANGED setup]_vars => Inv'
BY TypeStep, HeldStep, ProgressStep DEF Inv

\* A conditional write that goes through finds the row it was checked against.
LEMMA UpdateStep ==
  ASSUME Inv, [Next /\ UNCHANGED setup]_vars, NEW r \in Requests,
         req[r].pc = "meta", req'[r].result = "ok", NeedsTag(req[r].kind), req[r].kind # "noneMatch"
  PROVE  ETag(row) \in req[r].cond.ifMatch \cup req[r].cond.ifETags
<1>0. req[r] \in WriteRequest /\ Progress(req[r]) /\ Tagged(req[r])
  BY DEF Inv, TypeOK, Progresses
<1>1. /\ req[r].seen # NoFile /\ req[r].cond.set /\ req[r].result = "none"
      /\ ETag(req[r].seen) \in req[r].cond.ifMatch \cup req[r].cond.ifETags
  BY <1>0 DEF Progress, Tagged, Named, NeedsTag, Core
<1>2. ASSUME NEW p \in Processes, Crash(p) PROVE FALSE
  BY <1>1, <1>2, CrashMoves DEF Inv
<1>3. ASSUME NEW q \in Requests, Step(q), q # r PROVE FALSE
  <2>1. PICK v \in WriteRequest : req' = [req EXCEPT ![q] = v]
    BY <1>3, StepMoves DEF Inv, Moves
  <2> QED
    BY <1>1, <1>3, <2>1, OneRequest DEF Inv, TypeOK
<1>4. CASE Step(r)
  <2>1. ASSUME NEW x \in Result \ {"ok"}, Leave(r, [req[r] EXCEPT !.pc = "done", !.result = x]) PROVE FALSE
    <3>1. PICK v : v = [req[r] EXCEPT !.pc = "done", !.result = x]
      OBVIOUS
    <3>2. v \in WriteRequest /\ v.result = x
      BY <1>0, <3>1 DEF WriteRequest, PC
    <3>3. req'[r] = v
      BY <2>1, <3>1, <3>2, OneRequest DEF Leave, Inv, TypeOK
    <3> QED
      BY <3>2, <3>3
  <2>2. CASE MetaUpdate(r)
    BY <1>1, <2>1, <2>2 DEF MetaUpdate, Result
  <2>3. CASE MetaInsert(r) \/ MetaBreaks(r)
    BY <1>1, <2>1, <2>3 DEF MetaInsert, MetaBreaks, Result
  <2> QED
    BY <1>4, <2>2, <2>3 DEF Step, Arrive, Enter, Snapshot, Store, StoreBreaks, UndoPurge, UndoGone, UndoOpen, UndoDrop
<1> QED
  BY <1>1, <1>2, <1>3, <1>4, Others

\* Types (rows, versions and requests of internal/files/dav.go).
THEOREM WritesTypeCorrect == Spec => []TypeOK
<1>1. Inv => TypeOK
  BY DEF Inv
<1> QED
  BY <1>1, InvInit, InvStep, PTL DEF Spec

\* A write with If-Match or an If: etag list replaces the file only in the state
\* the client named, whatever other processes write or delete between its check
\* and its UPDATE (writeConditional and UpdateMetaIfETag).
THEOREM NoUpdateLost == Spec => NoLostUpdate
<1>1. Inv /\ [Next /\ UNCHANGED setup]_vars =>
        [\A r \in Requests :
           (req[r].pc = "meta" /\ req'[r].result = "ok" /\ NeedsTag(req[r].kind) /\ req[r].kind # "noneMatch")
             => ETag(row) \in req[r].cond.ifMatch \cup req[r].cond.ifETags]_vars
  BY UpdateStep
<1> QED
  BY <1>1, InvInit, InvStep, PTL DEF Spec, NoLostUpdate

-----------------------------------------------------------------------------
(* Acknowledged bytes.                                                     *)

\* One process, no deletions, and no rejected assembly so far.
Calm ==
  /\ SingleServer /\ MaxTrash = 0
  /\ \A r \in Requests : req[r].kind = "assembleBad" => req[r].pc \notin {"verify", "done"} /\ ~req[r].undo

\* As long as that is so: the write core works on the row it read, nothing is
\* acknowledged without a row, and what a write is about to replace is a version
\* before the write touches the object.
Kept(b) == b \in ToSet(versions) \/ b \in discarded
Safe ==
  /\ ~removing
  /\ row = NoFile => acked = {}
  /\ \A b \in acked : b = object \/ Kept(b)
  /\ \A r \in Requests : req[r].pc \in Core => row = req[r].seen
  /\ \A r \in Requests : req[r].pc \in {"store", "meta"} => \A b \in acked : Kept(b)
  /\ \A r \in Requests : req[r].pc = "meta" => object = req[r].body

\* A rejected assembly is never forgotten.
LEMMA CalmBefore ==
  ASSUME Inv, [Next /\ UNCHANGED setup]_vars, Calm'
  PROVE  Calm
<1>0. UNCHANGED setup
  BY DEF vars
<1>1. SingleServer /\ MaxTrash = 0
  BY <1>0, Deployment DEF Calm, SingleServer
<1> SUFFICES ASSUME NEW r \in Requests, req[r].kind = "assembleBad", req[r].pc \in {"verify", "done"} \/ req[r].undo
             PROVE  FALSE
  BY <1>1 DEF Calm
<1>2. Progress(req[r]) /\ TypeOK
  BY DEF Inv, Progresses
<1>3. req'[r].kind = "assembleBad" => req'[r].pc \notin {"verify", "done"} /\ ~req'[r].undo
  BY DEF Calm
<1>4. ASSUME NEW q \in Requests, Step(q) PROVE FALSE
  <2>1. PICK v \in WriteRequest : Moves(q, v)
    BY <1>2, <1>4, StepMoves
  <2>2. req'[q] = v /\ \A x \in Requests \ {q} : req'[x] = req[x]
    BY <2>1, <1>2, OneRequest DEF Moves, TypeOK
  <2>3. q = r
    BY <1>3, <2>2
  <2> QED
    BY <1>2, <1>3, <2>1, <2>2, <2>3 DEF Moves, Arrived, Entered, Went, Left, Ended, Undone, Progress, Same, Core
<1>5. ASSUME NEW p \in Processes, Crash(p) PROVE FALSE
  BY <1>2, <1>3, <1>5, CrashMoves DEF Same
<1> QED
  BY <1>3, <1>4, <1>5, Others

\* One request at a time is in the write core of a single process.
LEMMA OneInCore ==
  ASSUME Inv, SingleServer, NEW r \in Requests, NEW q \in Requests, req[r].pc \in Core, req[q].pc \in Core
  PROVE  r = q
BY DEF Inv, Held, SingleServer

\* While all is calm, a step keeps what is acknowledged safe.
LEMMA SafeStep ==
  ASSUME Inv, Calm, Safe, [Next /\ UNCHANGED setup]_vars
  PROVE  Safe'
<1>t. /\ TypeOK /\ versions \in Seq(Bytes) /\ object \in Bytes \cup {NoFile}
      /\ \A r \in Requests : Progress(req[r]) /\ req[r] \in WriteRequest
  BY DEF Inv, TypeOK, Progresses
<1>c. \A r \in Requests : ~req[r].undo /\ req[r].pc \notin {"verify", "dropVersion"}
  BY <1>t DEF Progress, Calm
<1>k. \A b : b \in ToSet(versions) \/ b \in discarded <=> Kept(b)
  BY DEF Kept
<1>1. ASSUME NEW r \in Requests, Step(r) PROVE Safe'
  <2>1. PICK v \in WriteRequest : Moves(r, v)
    BY <1>1, <1>t, StepMoves
  <2>2. req'[r] = v /\ \A x \in Requests \ {r} : req'[x] = req[x]
    BY <1>t, <2>1, OneRequest DEF Moves, TypeOK
  <2>3. req[r].pc \in Core => \A x \in Requests \ {r} : req[x].pc \notin Core
    BY OneInCore DEF Calm
  <2>l. ASSUME NEW x \in Result, Leave(r, [req[r] EXCEPT !.pc = "done", !.result = x]) PROVE req'[r].pc = "done"
    <3>1. PICK y : y = [req[r] EXCEPT !.pc = "done", !.result = x]
      OBVIOUS
    <3>2. y \in WriteRequest /\ y.pc = "done"
      BY <1>t, <3>1 DEF WriteRequest, PC
    <3> QED
      BY <1>t, <2>l, <3>1, <3>2, OneRequest DEF Leave, TypeOK
  <2>4. ASSUME NEW kind \in Kinds, Arrive(r, kind) PROVE Safe'
    <3>1. req'[r].pc = "enter"
      BY <2>1, <2>2, <2>4 DEF Arrive, Moves, Arrived, Entered, Went, Left, Ended, Undone, Core
    <3>2. UNCHANGED <<row, object, versions, removing, acked, discarded>>
      BY <2>4 DEF Arrive
    <3> QED
      BY <2>2, <3>1, <3>2 DEF Safe, Kept, Core
  <2>5. CASE Enter(r)
    <3>1. UNCHANGED <<row, object, versions, removing, acked, discarded>>
      BY <2>5 DEF Enter
    <3>2. req[r].pc = "enter" /\ req[r].snap
      BY <1>c, <1>t, <2>5 DEF Enter, Progress
    <3>3. req'[r].pc \in Core => req'[r].seen = row /\ req'[r].pc # "meta" /\ (req'[r].pc = "store" => row = NoFile)
      BY <2>1, <2>2, <3>2 DEF Moves, Arrived, Entered, Went, Left, Ended, Undone, Core
    <3> QED
      BY <2>2, <3>1, <3>3 DEF Safe, Kept, Core
  <2>6. CASE Snapshot(r)
    <3>1. UNCHANGED <<row, object, removing, acked, discarded>> /\ req[r].pc = "snapshot"
      BY <2>6 DEF Snapshot
    <3>2. CASE object = NoFile
      <4>1. versions' = versions /\ req'[r].pc = "done"
        BY <2>l, <2>6, <3>2 DEF Snapshot, Result
      <4> QED
        BY <2>2, <3>1, <4>1 DEF Safe, Kept, Core
    <3>3. CASE object # NoFile
      <4>1. versions' = Append(versions, object) /\ req' = [req EXCEPT ![r].pc = "store"]
        BY <2>6, <3>3 DEF Snapshot
      <4>2. ToSet(versions') = ToSet(versions) \cup {object}
        BY <1>t, <3>3, <4>1, AppendNewest
      <4>4. req'[r].pc = "store" /\ req'[r].seen = req[r].seen
        BY <1>t, <4>1 DEF TypeOK, WriteRequest
      <4>3. \A b \in acked' : Kept(b)'
        BY <3>1, <4>2 DEF Safe, Kept
      <4> QED
        BY <2>2, <2>3, <3>1, <4>3, <4>4 DEF Safe, Core
    <3> QED
      BY <3>2, <3>3
  <2>7. CASE Store(r)
    <3>1. UNCHANGED <<row, versions, removing, acked, discarded>> /\ req[r].pc = "store" /\ object' = req[r].body
      BY <2>7 DEF Store
    <3>2. req'[r].pc = "meta" /\ req'[r].seen = req[r].seen /\ req'[r].body = req[r].body
      BY <1>t, <2>2, <2>7 DEF Store, TypeOK, WriteRequest
    <3> QED
      BY <2>2, <2>3, <3>1, <3>2 DEF Safe, Kept, Core
  <2>8. ASSUME req[r].pc \in {"store", "meta"}, req'[r].pc \notin Core,
               \A b \in acked' : b \in acked \/ b = object',
               row' = row \/ row' # NoFile, row' = NoFile => acked' = acked,
               UNCHANGED <<versions, removing, discarded>>
        PROVE  Safe'
    <3>1. req[r].pc \in Core
      BY <2>8 DEF Core
    <3>2. \A x \in Requests : req'[x].pc \notin Core
      BY <2>2, <2>3, <2>8, <3>1
    <3> QED
      BY <2>8, <3>2 DEF Safe, Kept, Core
  <2>9. ASSUME NEW x \in Result, Leave(r, [req[r] EXCEPT !.pc = "done", !.result = x]) PROVE req'[r].pc \notin Core
    BY <2>l, <2>9 DEF Core
  <2>10. Leave(r, Written(r)) => req'[r].pc \notin Core
    BY <1>t, WrittenType DEF Leave, TypeOK, Core
  <2>11. \A b \in Answered(r) : b \in acked \/ b = req[r].body
    BY DEF Answered
  <2>12. req[r].pc = "meta" => object = req[r].body /\ row = req[r].seen
    BY DEF Safe, Core
  <2>b. NoFile \notin Row /\ req[r].body \in Bytes
    BY <1>t, DavWriteAssumption DEF TypeOK, Row, Stamps, Bytes, WriteRequest
  <2>13. CASE StoreBreaks(r) \/ MetaBreaks(r)
    BY <2>8, <2>9, <2>13 DEF StoreBreaks, MetaBreaks, Result
  <2>14. CASE MetaInsert(r)
    <3>1. row = NoFile /\ req[r].pc = "meta"
      BY <2>12, <2>14 DEF MetaInsert
    <3>2. row' # NoFile
      <4>1. nextId \in 1 .. MaxIds
        BY <1>t, <2>14, <3>1, DavWriteAssumption DEF MetaInsert, TypeOK
      <4> QED
        BY <2>b, <2>14, <3>1, <4>1 DEF MetaInsert, Row
    <3> QED
      BY <2>8, <2>10, <2>11, <2>12, <2>14, <3>1, <3>2 DEF MetaInsert
  <2>15. CASE MetaUpdate(r)
    <3>1. row # NoFile /\ row = req[r].seen /\ req[r].pc = "meta"
      BY <2>12, <2>15 DEF MetaUpdate
    <3>2. /\ \E s \in Stamps : row' = [id |-> row.id, stamp |-> s, body |-> req[r].body]
          /\ Leave(r, Written(r)) /\ acked' = Answered(r) /\ object' = object
          /\ UNCHANGED <<versions, removing, discarded>>
      BY <2>15, <3>1 DEF MetaUpdate
    <3>3. row' # NoFile
      BY <1>t, <2>b, <3>1, <3>2 DEF TypeOK, Row
    <3> QED
      BY <2>8, <2>10, <2>11, <2>12, <3>1, <3>2, <3>3
  <2>16. CASE UndoPurge(r) \/ UndoGone(r) \/ UndoOpen(r) \/ UndoDrop(r)
    BY <1>c, <2>16 DEF UndoPurge, UndoGone, UndoOpen, UndoDrop
  <2> QED
    BY <1>1, <2>4, <2>5, <2>6, <2>7, <2>13, <2>14, <2>15, <2>16 DEF Step
<1>2. ASSUME NEW p \in Processes, Crash(p) PROVE Safe'
  <2>1. UNCHANGED <<row, object, versions, removing, acked, discarded>>
    BY <1>2 DEF Crash
  <2>2. \A r \in Requests : req'[r] = req[r] \/ req'[r].pc = "done"
    BY <1>2, <1>t, CrashMoves
  <2> QED
    BY <2>1, <2>2 DEF Safe, Kept, Core
<1>3. CASE RemoveObject
  <2>1. Len(trash) \in Nat
    BY <1>t, LenProperties DEF TypeOK
  <2> QED
    BY <1>3, <2>1 DEF RemoveObject, Calm
<1>4. CASE RemoveRow
  BY <1>4 DEF RemoveRow, Safe
<1>5. CASE Expire
  <2>1. ToSet(versions) = {Head(versions)} \cup ToSet(versions')
    BY <1>t, <1>5, ExpireOldest DEF Expire
  <2>2. \A b : Kept(b) => Kept(b)'
    BY <1>5, <2>1 DEF Expire, Kept
  <2> QED
    BY <1>5, <2>2 DEF Expire, Safe
<1>6. CASE UNCHANGED vars
  BY <1>6 DEF vars, Safe, Kept
<1> QED
  BY <1>1, <1>2, <1>3, <1>4, <1>5, <1>6, Others

\* Acknowledged bytes are never lost (DAV.write snapshots before it replaces, and
\* the stripe of a path makes that enough within one process): for any number of
\* requests, in any order, with uploads that break off, database errors, expiring
\* versions and crashes, until a rejected assembly is rolled back.
THEOREM AcknowledgedKept == Spec => []AckedKept
<1>1. Init => (Calm => Safe)
  <2> SUFFICES ASSUME Init PROVE Safe
    OBVIOUS
  <2>1. \A r \in Requests : req[r].pc = "new"
    BY DEF Init, Fresh
  <2>2. row = NoFile => acked = {}
    <3>1. NoFile \notin Row /\ 1 \in 1 .. MaxIds /\ Original \in Bytes
      BY DavWriteAssumption DEF Init, Row, Stamps, Bytes
    <3> QED
      BY <3>1 DEF Init, Row
  <2> QED
    BY <2>1, <2>2 DEF Init, Safe, Core
<1>2. Inv /\ (Calm => Safe) /\ [Next /\ UNCHANGED setup]_vars => (Calm => Safe)'
  BY CalmBefore, SafeStep
<1>3. (Calm => Safe) => AckedKept
  BY DEF Calm, Safe, Kept, AckedKept
<1> QED
  BY <1>1, <1>2, <1>3, InvInit, InvStep, PTL DEF Spec

-----------------------------------------------------------------------------
(* The row and the stored bytes.                                           *)

\* One process in which nothing failed and nothing was deleted.
Undisturbed == SingleServer /\ faults = 0 /\ trash = <<>>

\* What a request owes a version: a rejected assembly goes back to one, a write that
\* replaces a file has just taken one.
Owes(q) ==
  /\ q.pc # "done"
  /\ q.undo \/ q.pc = "verify" \/ (q.pc \in {"store", "meta"} /\ q.seen # NoFile)
Owed == {r \in Requests : Owes(req[r])}

\* There are versions for all of them but the assembly that made the file; so when a
\* rejected assembly finds no version and purges the file, nobody else is writing.
Matched ==
  /\ ~removing
  /\ IsFiniteSet(Owed) /\ Cardinality(Owed) <= Len(versions) + (IF row = NoFile THEN 0 ELSE 1)
  /\ \A r \in Requests : req[r].pc = "snapshot" => row = NoFile \/ row = req[r].seen
  /\ \A r \in Requests : req[r].pc \in {"store", "meta"} => row = req[r].seen
  /\ \A r \in Requests : req[r].pc = "meta" => object = req[r].body
  /\ (\A r \in Requests : req[r].pc # "meta") =>
       (row = NoFile <=> object = NoFile) /\ (row # NoFile => row.body = object)

\* Faults and deletions are not forgotten.
LEMMA UndisturbedBefore ==
  ASSUME Inv, [Next /\ UNCHANGED setup]_vars, Undisturbed'
  PROVE  Undisturbed /\ UNCHANGED <<faults, trash>>
<1>0. faults \in Nat /\ trash \in Seq(Bytes) /\ object \in Bytes \cup {NoFile}
  BY DEF Inv, TypeOK
<1>1. SingleServer
  BY DEF Undisturbed, SingleServer, Home, vars
<1>2. UNCHANGED <<faults, trash>>
  <2>a. ASSUME NEW r \in Requests, Step(r) PROVE (faults' = faults \/ faults' = faults + 1) /\ trash' = trash
    <3>1. \A kind \in Kinds : Arrive(r, kind) => UNCHANGED <<faults, trash>>
      BY DEF Arrive
    <3>2. Enter(r) \/ Snapshot(r) \/ Store(r) \/ MetaInsert(r) => UNCHANGED <<faults, trash>>
      BY DEF Enter, Snapshot, Store, MetaInsert
    <3>3. MetaUpdate(r) => UNCHANGED <<faults, trash>>
      BY DEF MetaUpdate
    <3>4. UndoPurge(r) \/ UndoGone(r) \/ UndoOpen(r) \/ UndoDrop(r) => UNCHANGED <<faults, trash>>
      BY DEF UndoPurge, UndoGone, UndoOpen, UndoDrop
    <3>5. StoreBreaks(r) \/ MetaBreaks(r) => faults' = faults + 1 /\ trash' = trash
      BY DEF StoreBreaks, MetaBreaks
    <3> QED
      BY <2>a, <3>1, <3>2, <3>3, <3>4, <3>5 DEF Step
  <2>b. ASSUME NEW p \in Processes, Crash(p) PROVE faults' = faults + 1 /\ trash' = trash
    <3>1. faults' = faults + 1 /\ UNCHANGED <<row, nextId, object, versions, trash, removing, acked, discarded>>
      BY <2>b DEF Crash
    <3> QED
      BY <3>1
  <2>1. faults' = faults \/ faults' = faults + 1
    BY <2>a, <2>b, Others DEF RemoveObject, RemoveRow, Expire, vars
  <2>2. trash' = trash \/ (object # NoFile /\ trash' = Append(trash, object))
    BY <2>a, <2>b, Others DEF RemoveObject, RemoveRow, Expire, vars
  <2>3. object # NoFile => Len(Append(trash, object)) = Len(trash) + 1 /\ Len(trash) \in Nat
    BY <1>0, AppendProperties, LenProperties
  <2>4. trash' = <<>> /\ faults' = 0 /\ Len(<<>>) = 0
    BY EmptySeq DEF Undisturbed
  <2> QED
    BY <1>0, <2>1, <2>2, <2>3, <2>4
<1> QED
  BY <1>1, <1>2 DEF Undisturbed

\* One request changes what is owed by one at most.
LEMMA OwedChange ==
  ASSUME IsFiniteSet(Owed), NEW r \in Requests, NEW v, req'[r] = v, \A x \in Requests \ {r} : req'[x] = req[x]
  PROVE  /\ IsFiniteSet(Owed') /\ Cardinality(Owed) \in Nat
         /\ Cardinality(Owed') = Cardinality(Owed) + (IF Owes(v) THEN 1 ELSE 0) - (IF Owes(req[r]) THEN 1 ELSE 0)
<1>1. Owed' = IF Owes(v) THEN Owed \cup {r} ELSE Owed \ {r}
  BY DEF Owed, Owes
<1>2. r \in Owed <=> Owes(req[r])
  BY DEF Owed
<1>3. Cardinality(Owed) \in Nat
  BY FS_CardinalityType
<1>4. /\ IsFiniteSet(Owed \cup {r})
      /\ Cardinality(Owed \cup {r}) = IF r \in Owed THEN Cardinality(Owed) ELSE Cardinality(Owed) + 1
  BY FS_AddElement
<1>5. /\ IsFiniteSet(Owed \ {r})
      /\ Cardinality(Owed \ {r}) = IF r \in Owed THEN Cardinality(Owed) - 1 ELSE Cardinality(Owed)
  BY FS_RemoveElement
<1> QED
  BY <1>1, <1>2, <1>3, <1>4, <1>5

\* Who owes alone is the only one.
LEMMA OwedAlone ==
  ASSUME IsFiniteSet(Owed), Cardinality(Owed) <= 1, NEW r \in Owed, NEW q \in Owed
  PROVE  r = q
<1> SUFFICES ASSUME r # q PROVE FALSE
  OBVIOUS
<1>1. IsFiniteSet(Owed \ {r}) /\ Cardinality(Owed \ {r}) = Cardinality(Owed) - 1 /\ Cardinality(Owed) \in Nat
  BY FS_RemoveElement, FS_CardinalityType
<1>2. Cardinality(Owed \ {r}) \in Nat
  BY <1>1, FS_CardinalityType
<1>3. Cardinality(Owed \ {r}) # 0
  BY <1>1, FS_EmptySet
<1> QED
  BY <1>1, <1>2, <1>3

\* Taking one element out shortens a sequence by one.
LEMMA RemoveLength ==
  ASSUME NEW S, NEW o \in Seq(S), NEW i \in 1 .. Len(o)
  PROVE  Len(RemoveAt(o, i)) = Len(o) - 1
<1>1. Len(o) \in Nat
  BY LenProperties
<1>2. /\ SubSeq(o, 1, i - 1) \in Seq(S) /\ SubSeq(o, i + 1, Len(o)) \in Seq(S)
      /\ Len(SubSeq(o, 1, i - 1)) = i - 1 /\ Len(SubSeq(o, i + 1, Len(o))) = Len(o) - i
  BY <1>1, SubSeqProperties
<1>3. Len(SubSeq(o, 1, i - 1) \o SubSeq(o, i + 1, Len(o))) = (i - 1) + (Len(o) - i)
  <2>1. \A a, b \in Seq(S) : Len(a \o b) = Len(a) + Len(b)
    BY ConcatProperties
  <2> QED
    BY <1>2, <2>1, Zenon
<1>4. (i - 1) + (Len(o) - i) = Len(o) - 1
  BY <1>1
<1> QED
  BY <1>3, <1>4, Zenon DEF RemoveAt

\* A step of a request keeps row and bytes matched.
LEMMA MatchedRequest ==
  ASSUME Inv, Matched, Undisturbed, UNCHANGED <<faults, trash>>, NEW r \in Requests, Step(r)
  PROVE  Matched'
<1>t. /\ TypeOK /\ versions \in Seq(Bytes) /\ object \in Bytes \cup {NoFile} /\ row \in Row \cup {NoFile}
      /\ \A x \in Requests : Progress(req[x]) /\ req[x] \in WriteRequest
      /\ Len(versions) \in Nat /\ faults \in Nat
  BY LenProperties DEF Inv, TypeOK, Progresses
<1>b. /\ NoFile \notin Row /\ req[r].body \in Bytes /\ NoFile \notin Bytes
  BY <1>t, DavWriteAssumption DEF TypeOK, Row, Stamps, Bytes, WriteRequest
<1>v. PICK v \in WriteRequest : Moves(r, v)
  BY <1>t, StepMoves
<1>q. req'[r] = v /\ \A x \in Requests \ {r} : req'[x] = req[x]
  BY <1>t, <1>v, OneRequest DEF Moves, TypeOK
<1>a. req[r].pc \in Core => \A x \in Requests \ {r} : req[x].pc \notin Core
  BY OneInCore DEF Undisturbed
<1>o. /\ IsFiniteSet(Owed') /\ Cardinality(Owed) \in Nat
      /\ Cardinality(Owed') = Cardinality(Owed) + (IF Owes(v) THEN 1 ELSE 0) - (IF Owes(req[r]) THEN 1 ELSE 0)
  BY <1>q, OwedChange DEF Matched
<1>m. /\ ~removing /\ Cardinality(Owed) <= Len(versions) + (IF row = NoFile THEN 0 ELSE 1)
      /\ Cardinality(Owed') \in Nat
  BY <1>o, FS_CardinalityType DEF Matched
\* Only the request moves, and it owes no more than before.
<1>s. ASSUME UNCHANGED <<row, object, versions, removing>>, Owes(v) => Owes(req[r]),
             v.pc = "snapshot" => row = NoFile \/ row = v.seen,
             v.pc \in {"store", "meta"} => row = v.seen,
             v.pc = "meta" => object = v.body,
             req[r].pc # "meta"
      PROVE  Matched'
  <2>1. Cardinality(Owed') <= Len(versions') + (IF row' = NoFile THEN 0 ELSE 1)
    BY <1>t, <1>o, <1>m, <1>s
  <2> QED
    BY <1>o, <1>q, <1>s, <2>1 DEF Matched
\* The request leaves the core after its write.
<1>w. ASSUME req[r].pc = "meta", Leave(r, Written(r)), row' \in Row, row'.body = object', object' = req[r].body,
             UNCHANGED <<versions, removing>>, row = NoFile \/ Owes(req[r])
      PROVE  Matched'
  <2>1. v = Written(r)
    BY <1>t, <1>q, <1>w, WrittenType DEF Leave, TypeOK
  <2>2. v.pc \notin Core
    BY <1>t, <2>1, WrittenType DEF Core
  <2>3. Cardinality(Owed') <= Len(versions') + (IF row' = NoFile THEN 0 ELSE 1)
    BY <1>t, <1>b, <1>o, <1>m, <1>w
  <2>4. \A x \in Requests : req'[x].pc \notin Core
    BY <1>a, <1>q, <1>w, <2>2 DEF Core
  <2>5. row' # NoFile /\ object' # NoFile
    BY <1>b, <1>w
  <2> QED
    BY <1>o, <1>m, <1>w, <2>3, <2>4, <2>5 DEF Matched, Core
<1>1. ASSUME NEW kind \in Kinds, Arrive(r, kind) PROVE Matched'
  <2>1. UNCHANGED <<row, object, versions, removing>> /\ req[r].pc = "new"
    BY <1>1 DEF Arrive
  <2>2. Arrived(r, v)
    BY <1>v, <2>1 DEF Moves, Entered, Went, Left, Ended, Undone, Core
  <2>3. v.pc = "enter" /\ v.undo = req[r].undo
    BY <2>2 DEF Arrived
  <2> QED
    BY <1>s, <2>1, <2>3 DEF Owes
<1>2. CASE Enter(r)
  <2>1. UNCHANGED <<row, object, versions, removing>> /\ req[r].pc = "enter"
    BY <1>2 DEF Enter
  <2>2. Entered(r, v) \/ Ended(r, v)
    BY <1>v, <2>1 DEF Moves, Arrived, Went, Left, Undone, Core
  <2>3. CASE Ended(r, v)
    <3>1. v.pc = "done" /\ v.undo = req[r].undo
      BY <2>3 DEF Ended, Same
    <3> QED
      BY <1>s, <2>1, <3>1 DEF Owes
  <2>4. CASE Entered(r, v)
    <3>1. /\ v.pc = (IF row # NoFile /\ req[r].snap THEN "snapshot" ELSE "store") /\ v.seen = row /\ v.undo = req[r].undo
      BY <2>4 DEF Entered, Same
    <3>2. ~req[r].undo => req[r].snap
      BY <1>t DEF Progress
    <3> QED
      BY <1>s, <2>1, <3>1, <3>2 DEF Owes
  <2> QED
    BY <2>2, <2>3, <2>4
<1>l. ASSUME NEW x \in Result, Leave(r, [req[r] EXCEPT !.pc = "done", !.result = x]) PROVE v.pc = "done" /\ ~Owes(v)
  <2>1. PICK y : y = [req[r] EXCEPT !.pc = "done", !.result = x]
    OBVIOUS
  <2>2. y \in WriteRequest /\ y.pc = "done"
    BY <1>t, <2>1 DEF WriteRequest, PC
  <2> QED
    BY <1>t, <1>q, <1>l, <2>1, <2>2, OneRequest DEF Leave, TypeOK, Owes
<1>3. CASE Snapshot(r)
  <2>1. UNCHANGED <<row, object, removing>> /\ req[r].pc = "snapshot"
    BY <1>3 DEF Snapshot
  <2>2. CASE object = NoFile
    <3>1. versions' = versions /\ v.pc = "done" /\ ~Owes(v)
      BY <1>l, <1>3, <2>2 DEF Snapshot, Result
    <3> QED
      BY <1>s, <2>1, <3>1
  <2>3. CASE object # NoFile
    <3>1. versions' = Append(versions, object) /\ req' = [req EXCEPT ![r].pc = "store"]
      BY <1>3, <2>3 DEF Snapshot
    <3>2. Len(versions') = Len(versions) + 1
      BY <1>t, <2>3, <3>1, AppendProperties
    <3>3. v.pc = "store" /\ v.seen = req[r].seen
      BY <1>t, <1>q, <3>1 DEF TypeOK, WriteRequest
    <3>4. \A x \in Requests : req[x].pc # "meta"
      BY <1>a, <2>1 DEF Core
    <3>5. row # NoFile /\ row = v.seen
      BY <2>1, <2>3, <3>3, <3>4 DEF Matched
    <3>6. Cardinality(Owed') <= Len(versions') + (IF row' = NoFile THEN 0 ELSE 1)
      BY <1>t, <1>o, <1>m, <2>1, <3>2
    <3> QED
      BY <1>o, <1>q, <2>1, <3>3, <3>5, <3>6 DEF Matched
  <2> QED
    BY <2>2, <2>3
<1>4. CASE Store(r)
  <2>1. UNCHANGED <<row, versions, removing>> /\ req[r].pc = "store" /\ object' = req[r].body
    BY <1>4 DEF Store
  <2>2. v.pc = "meta" /\ v.seen = req[r].seen /\ v.body = req[r].body /\ v.undo = req[r].undo
    BY <1>t, <1>q, <1>4 DEF Store, TypeOK, WriteRequest
  <2>3. Owes(v) <=> Owes(req[r])
    BY <2>1, <2>2 DEF Owes
  <2>4. Cardinality(Owed') <= Len(versions') + (IF row' = NoFile THEN 0 ELSE 1)
    BY <1>t, <1>o, <1>m, <2>1, <2>3
  <2>5. \A x \in Requests \ {r} : req[x].pc \notin Core
    BY <1>a, <2>1 DEF Core
  <2> QED
    BY <1>o, <1>q, <2>1, <2>2, <2>4, <2>5 DEF Matched, Core
<1>5. CASE MetaInsert(r)
  <2>1. req[r].pc = "meta" /\ req[r].seen = NoFile /\ UNCHANGED <<versions, removing>>
    BY <1>5 DEF MetaInsert
  <2>2. row = NoFile /\ object = req[r].body
    BY <2>1 DEF Matched
  <2>3. /\ nextId <= MaxIds /\ Leave(r, Written(r)) /\ object' = object
        /\ \E s \in Stamps : row' = [id |-> nextId, stamp |-> s, body |-> req[r].body]
    BY <1>5, <2>2 DEF MetaInsert
  <2>4. nextId \in 1 .. MaxIds
    BY <1>t, <2>3, DavWriteAssumption DEF TypeOK
  <2>5. row' \in Row /\ row'.body = req[r].body
    BY <1>b, <2>3, <2>4 DEF Row
  <2> QED
    BY <1>w, <2>1, <2>2, <2>3, <2>5
<1>6. CASE MetaUpdate(r)
  <2>1. req[r].pc = "meta" /\ req[r].seen # NoFile /\ UNCHANGED <<versions, removing>>
    BY <1>6 DEF MetaUpdate
  <2>2. row = req[r].seen /\ object = req[r].body /\ row \in Row
    BY <1>t, <2>1 DEF Matched
  <2>3. /\ Leave(r, Written(r)) /\ object' = object
        /\ \E s \in Stamps : row' = [id |-> row.id, stamp |-> s, body |-> req[r].body]
    BY <1>6, <2>1, <2>2 DEF MetaUpdate
  <2>5. row' \in Row /\ row'.body = req[r].body
    BY <1>b, <2>2, <2>3 DEF Row
  <2>6. Owes(req[r])
    BY <2>1 DEF Owes
  <2> QED
    BY <1>w, <2>1, <2>2, <2>3, <2>5, <2>6
<1>7. CASE StoreBreaks(r) \/ MetaBreaks(r)
  <2>1. faults' = faults + 1
    BY <1>7 DEF StoreBreaks, MetaBreaks
  <2> QED
    BY <1>t, <2>1
<1>u. ASSUME req[r].pc \in {"verify", "dropVersion"} PROVE Owes(req[r])
  BY <1>t, <1>u DEF Owes, Progress
<1>e. ASSUME req' = [req EXCEPT ![r] = [@ EXCEPT !.pc = "done", !.result = "failed"]] PROVE v.pc = "done" /\ ~Owes(v)
  <2>1. PICK y : y = [req[r] EXCEPT !.pc = "done", !.result = "failed"]
    OBVIOUS
  <2>2. y \in WriteRequest /\ y.pc = "done"
    BY <1>t, <2>1 DEF WriteRequest, PC, Result
  <2>3. req' = [req EXCEPT ![r] = y]
    BY <1>e, <2>1
  <2> QED
    BY <1>t, <1>q, <2>2, <2>3, OneRequest DEF TypeOK, Owes
<1>8. CASE UndoPurge(r)
  <2>1. /\ req[r].pc = "verify" /\ versions = <<>> /\ row # NoFile /\ row' = NoFile /\ object' = NoFile
        /\ UNCHANGED <<versions, removing>> /\ v.pc = "done" /\ ~Owes(v)
    BY <1>e, <1>8 DEF UndoPurge
  <2>2. Len(versions) = 0
    BY <2>1, EmptySeq
  <2>3. r \in Owed /\ Cardinality(Owed) <= 1
    BY <1>u, <1>m, <2>1, <2>2 DEF Owed
  <2>4. ASSUME NEW x \in Requests, req[x].pc \in {"store", "meta"} PROVE FALSE
    <3>1. req[x].seen # NoFile
      BY <2>1, <2>4 DEF Matched
    <3>2. x \in Owed
      BY <2>4, <3>1 DEF Owed, Owes
    <3> QED
      BY <2>1, <2>3, <2>4, <3>2, OwedAlone DEF Matched
  <2>5. Cardinality(Owed') <= Len(versions') + (IF row' = NoFile THEN 0 ELSE 1)
    <3>1. Cardinality(Owed') = Cardinality(Owed) - 1
      BY <1>o, <1>u, <2>1
    <3>2. Len(versions') = 0 /\ row' = NoFile
      BY <2>1, <2>2
    <3> QED
      BY <1>o, <2>3, <3>1, <3>2
  <2> QED
    BY <1>o, <1>m, <1>q, <2>1, <2>4, <2>5 DEF Matched
<1>9. CASE UndoGone(r)
  <2>1. req[r].pc = "verify" /\ UNCHANGED <<row, object, versions, removing>> /\ v.pc = "done" /\ ~Owes(v)
    BY <1>e, <1>9 DEF UndoGone
  <2> QED
    BY <1>s, <2>1
<1>10. CASE UndoOpen(r)
  <2>1. req[r].pc = "verify" /\ UNCHANGED <<row, object, versions, removing>>
    BY <1>10 DEF UndoOpen
  <2>2. v.pc = "enter" \/ v.pc = "done"
    BY <1>v, <2>1 DEF Moves, Arrived, Entered, Went, Left, Ended, Undone, Core
  <2> QED
    BY <1>s, <1>u, <2>1, <2>2
<1>11. CASE UndoDrop(r)
  <2> DEFINE same == {i \in DOMAIN versions : versions[i] = req[r].body}
  <2>1. /\ req[r].pc = "dropVersion" /\ UNCHANGED <<row, object, removing>> /\ v.pc = "done" /\ ~Owes(v)
        /\ versions' = IF same = {} THEN versions ELSE RemoveAt(versions, Max(same))
    BY <1>e, <1>11 DEF UndoDrop
  <2>2. DOMAIN versions = 1 .. Len(versions)
    BY <1>t, LenProperties
  <2>3. same # {} => Max(same) \in 1 .. Len(versions)
    BY <1>t, <2>2, GreatestPosition
  <2>4. same # {} => Len(RemoveAt(versions, Max(same))) = Len(versions) - 1
    BY <1>t, <2>3, RemoveLength
  <2> HIDE DEF same
  <2>5. Len(versions') = Len(versions) \/ Len(versions') = Len(versions) - 1
    BY <2>1, <2>4
  <2>6. Cardinality(Owed') <= Len(versions') + (IF row' = NoFile THEN 0 ELSE 1)
    <3>1. Cardinality(Owed') = Cardinality(Owed) - 1 /\ row' = row
      BY <1>o, <1>u, <2>1
    <3>2. Cardinality(Owed) <= Len(versions) + (IF row = NoFile THEN 0 ELSE 1) /\ Len(versions) \in Nat
      BY <1>t, <1>m
    <3> QED
      BY <1>o, <2>5, <3>1, <3>2
  <2> QED
    BY <1>o, <1>q, <2>1, <2>6 DEF Matched
<1> QED
  BY <1>1, <1>2, <1>3, <1>4, <1>5, <1>6, <1>7, <1>8, <1>9, <1>10, <1>11 DEF Step

\* With nothing disturbed, every step does.
LEMMA MatchedStep ==
  ASSUME Inv, Matched, Undisturbed, [Next /\ UNCHANGED setup]_vars, UNCHANGED <<faults, trash>>
  PROVE  Matched'
<1>0. faults \in Nat /\ trash \in Seq(Bytes) /\ object \in Bytes \cup {NoFile}
  BY DEF Inv, TypeOK
<1>1. ASSUME NEW p \in Processes, Crash(p) PROVE FALSE
  <2>1. faults' = faults + 1 /\ UNCHANGED <<row, nextId, object, versions, trash, removing, acked, discarded>>
    BY <1>1 DEF Crash
  <2> QED
    BY <1>0, <2>1
<1>2. CASE RemoveObject
  <2>1. object # NoFile /\ trash' = Append(trash, object)
    BY <1>2 DEF RemoveObject
  <2>2. Len(Append(trash, object)) = Len(trash) + 1 /\ Len(trash) \in Nat
    BY <1>0, <2>1, AppendProperties, LenProperties
  <2> QED
    BY <2>1, <2>2
<1>3. CASE RemoveRow \/ Expire
  BY <1>0, <1>3 DEF RemoveRow, Expire, Matched
<1>4. CASE UNCHANGED vars
  <2>1. UNCHANGED <<row, object, versions, removing, req>>
    BY <1>4 DEF vars
  <2>2. Owed' = Owed
    BY <2>1 DEF Owed
  <2> QED
    BY <2>1, <2>2 DEF Matched
<1> QED
  BY <1>1, <1>2, <1>3, <1>4, MatchedRequest, Others

\* Row and stored bytes agree (DAV.write, Uploads.Assemble and RollbackLatest): in one
\* process, without faults and deletions, whenever no write is in its core there is a
\* row exactly if there is an object, and it describes that object, for any number of
\* writes, restores and rejected assemblies that are being undone at the same time.
THEOREM RowDescribesObject == Spec => []RowMatchesObject
<1>1. Init => (Undisturbed => Matched)
  <2> SUFFICES ASSUME Init PROVE Matched
    OBVIOUS
  <2>1. \A r \in Requests : req[r].pc = "new" /\ ~req[r].undo
    BY DEF Init, Fresh
  <2>2. Owed = {}
    BY <2>1 DEF Owed, Owes
  <2>3. IsFiniteSet(Owed) /\ Cardinality(Owed) = 0
    BY <2>2, FS_EmptySet
  <2>4. Len(versions) = 0 /\ ~removing
    BY EmptySeq DEF Init
  <2>5. (row = NoFile <=> object = NoFile) /\ (row # NoFile => row.body = object)
    <3>1. NoFile \notin Row /\ 1 \in 1 .. MaxIds /\ Original \in Bytes /\ Original # NoFile
      BY DavWriteAssumption DEF Init, Row, Stamps, Bytes
    <3> QED
      BY <3>1 DEF Init, Row
  <2> QED
    BY <2>1, <2>3, <2>4, <2>5 DEF Matched
<1>2. Inv /\ (Undisturbed => Matched) /\ [Next /\ UNCHANGED setup]_vars => (Undisturbed => Matched)'
  BY UndisturbedBefore, MatchedStep
<1>3. Inv /\ (Undisturbed => Matched) => RowMatchesObject
  <2> SUFFICES ASSUME Inv, Matched, Quiet
               PROVE  (row = NoFile <=> object = NoFile) /\ (row # NoFile => row.body = object)
    BY DEF RowMatchesObject, Undisturbed
  <2>1. \A r \in Requests : stripe[Home[r]] = NoFile /\ r # NoFile
    BY DavWriteAssumption DEF Quiet, Processes
  <2>2. \A r \in Requests : req[r].pc # "meta"
    BY <2>1 DEF Inv, Held, Core
  <2> QED
    BY <2>2 DEF Matched
<1> QED
  BY <1>1, <1>2, <1>3, InvInit, InvStep, PTL DEF Spec
=============================================================================
