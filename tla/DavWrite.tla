------------------------------ MODULE DavWrite ------------------------------
(***************************************************************************)
(* Writing one file through internal/files: DAV.Write and DAV.WriteIf      *)
(* (ADR-0094), the version snapshots they take, version restore, chunked   *)
(* assembly with its checksum rollback, and deletion to the trashbin, all  *)
(* acting on one (user, path).                                             *)
(*                                                                         *)
(* A write holds the stripe of its path in the process it runs in; between *)
(* its steps other processes and deletions (which take no stripe) may run. *)
(* Every request uploads bytes of its own, so a request names its content. *)
(* An etag is what ComputeFileETag hashes: the row id, the modification    *)
(* time and the size; the latter two are one `stamp`, which the client     *)
(* chooses (X-OC-Mtime) or the clock does.                                 *)
(***************************************************************************)
EXTENDS Integers, Sequences, FiniteSets, SequencesExt

CONSTANTS
  Requests,    \* write requests; also the bytes each one uploads
  Setups,      \* deployments to look at, with the requests they get
  Original,    \* bytes of the file that exists initially
  NoFile,      \* no row / no object
  MaxIds       \* bound: row ids

AllKinds == {"put", "match", "matchStar", "noneStar", "noneMatch", "ifList",
             "assemble", "assembleBad", "restore"}

ASSUME DavWriteAssumption ==
  /\ \A s \in Setups : s.requests \subseteq Requests /\ s.kinds \subseteq AllKinds /\ s.stamps # {}
  /\ Original \notin Requests /\ NoFile \notin Requests \cup {Original}
  /\ \A s \in Setups : NoFile \notin [id : 1 .. MaxIds, stamp : s.stamps, body : Requests \cup {Original}]
  /\ MaxIds \in Nat \ {0}

VARIABLES
  row,        \* the filecache row of the path
  nextId,     \* ids handed out so far
  object,     \* the bytes stored under the path's key
  versions,   \* file_versions of the path, oldest first, with their bytes
  trash,      \* bytes in the trashbin, oldest first
  stripe,     \* holder of the path's stripe in each process
  req,        \* the requests' progress
  removing,   \* a deletion has moved the object and not yet deleted the row
  acked,      \* bytes whose upload was answered with success
  discarded,  \* bytes given up on purpose: rejected uploads, expired versions
  faults,
  setup       \* the deployment of this behaviour; it never changes

vars == <<row, nextId, object, versions, trash, stripe, req, removing, acked, discarded, faults, setup>>

Home == setup.home            \* Home[r]: the server process that serves request r
Kinds == setup.kinds          \* operations the clients use
Stamps == setup.stamps        \* (mtime, size) pairs
MaxTrash == setup.maxTrash    \* bound: deletions
MaxFaults == setup.maxFaults  \* bound: interrupted uploads, database errors and crashes

Processes == {Home[r] : r \in Requests}
Bytes == Requests \cup {Original}
Row == [id : 1 .. MaxIds, stamp : Stamps, body : Bytes]
ETag(f) == [id |-> f.id, stamp |-> f.stamp]
ETags == [id : 1 .. MaxIds, stamp : Stamps]

\* WriteCond: the If: state list, If-Match and If-None-Match.
NoCond == [set |-> FALSE, ifETags |-> {}, ifMatch |-> {}, ifNoneMatch |-> {}]
\* The wildcard entry is no etag.
Star == [id |-> 0, stamp |-> "*"]

PC == {"new", "enter", "snapshot", "store", "meta", "verify", "rollback", "dropVersion", "done"}
Result == {"none", "ok", "refused", "failed"}

\* A request: where it is, what it asks for and what it has read.
Cond == [set : BOOLEAN, ifETags : SUBSET (ETags \cup {Star}), ifMatch : SUBSET (ETags \cup {Star}),
         ifNoneMatch : SUBSET (ETags \cup {Star})]
WriteRequest == [pc : PC, kind : AllKinds, cond : Cond, body : Bytes, snap : BOOLEAN, seen : Row \cup {NoFile},
                 undo : BOOLEAN, result : Result]

TypeOK ==
  /\ row \in Row \cup {NoFile}
  /\ nextId \in 1 .. (MaxIds + 1)
  /\ object \in Bytes \cup {NoFile}
  /\ versions \in Seq(Bytes) /\ trash \in Seq(Bytes)
  /\ stripe \in [Processes -> Requests \cup {NoFile}]
  /\ req \in [Requests -> WriteRequest]
  /\ removing \in BOOLEAN
  /\ acked \subseteq Bytes /\ discarded \subseteq Bytes
  /\ faults \in Nat
  /\ setup \in Setups

Fresh == [pc |-> "new", kind |-> "put", cond |-> NoCond, body |-> Original, snap |-> TRUE,
          seen |-> NoFile, undo |-> FALSE, result |-> "none"]

\* The path holds a file already, or nothing does.
Init ==
  /\ setup \in Setups
  /\ \/ \E s \in Stamps : /\ row = [id |-> 1, stamp |-> s, body |-> Original]
                          /\ object = Original /\ acked = {Original} /\ nextId = 2
     \/ row = NoFile /\ object = NoFile /\ acked = {} /\ nextId = 1
  /\ versions = <<>> /\ trash = <<>>
  /\ stripe = [p \in Processes |-> NoFile]
  /\ req = [r \in Requests |-> [Fresh EXCEPT !.body = r]]
  /\ removing = FALSE
  /\ discarded = {}
  /\ faults = 0

-----------------------------------------------------------------------------
(* Preconditions.                                                          *)

\* WriteCond.Evaluate: TRUE when every rule passes.
Evaluate(c, exists, etag) ==
  c.set =>
    /\ c.ifETags # {} => exists /\ etag \in c.ifETags
    /\ Star \in c.ifMatch => exists
    /\ (c.ifMatch # {} /\ Star \notin c.ifMatch) => exists /\ etag \in c.ifMatch
    /\ Star \in c.ifNoneMatch => ~exists
    /\ (c.ifNoneMatch # {} /\ exists) => etag \notin c.ifNoneMatch

\* The headers a client sends: the etag is one it got from the server earlier.
CondOf(kind, t) ==
  CASE kind = "match"       -> [NoCond EXCEPT !.set = TRUE, !.ifMatch = {t}]
    [] kind = "matchStar"   -> [NoCond EXCEPT !.set = TRUE, !.ifMatch = {Star}]
    [] kind = "noneStar"    -> [NoCond EXCEPT !.set = TRUE, !.ifNoneMatch = {Star}]
    [] kind = "noneMatch"   -> [NoCond EXCEPT !.set = TRUE, !.ifNoneMatch = {t}]
    [] kind = "ifList"      -> [NoCond EXCEPT !.set = TRUE, !.ifETags = {t}]
    [] kind \in {"assemble", "assembleBad"} -> [NoCond EXCEPT !.set = TRUE]
    [] OTHER -> NoCond

NeedsTag(kind) == kind \in {"match", "noneMatch", "ifList"}

-----------------------------------------------------------------------------
(* A request: writeConditional and write.                                  *)

\* The request arrives.  A client that sends an etag has just seen the file.
\* RestoreVersion opens the version it is about to write back.
Arrive(r, kind) ==
  /\ req[r].pc = "new" /\ r \in setup.requests
  /\ NeedsTag(kind) => row # NoFile
  /\ \E body \in IF kind = "restore" THEN ToSet(versions) ELSE {r} :
       req' = [req EXCEPT ![r] =
                [@ EXCEPT !.pc = "enter", !.kind = kind, !.body = body,
                          !.cond = IF NeedsTag(kind) THEN CondOf(kind, ETag(row))
                                   ELSE CondOf(kind, NoFile)]]
  /\ UNCHANGED <<row, nextId, object, versions, trash, stripe, removing, acked, discarded, faults>>

Leave(r, q) ==
  /\ req' = [req EXCEPT ![r] = q]
  /\ stripe' = [stripe EXCEPT ![Home[r]] = NoFile]

\* Take the stripe, read the row, evaluate the preconditions on it.
Enter(r) ==
  /\ req[r].pc = "enter"
  /\ stripe[Home[r]] = NoFile
  /\ LET exists == row # NoFile
         pass == Evaluate(req[r].cond, exists, IF exists THEN ETag(row) ELSE NoFile) IN
       IF pass
       THEN /\ stripe' = [stripe EXCEPT ![Home[r]] = r]
            /\ req' = [req EXCEPT ![r] = [@ EXCEPT !.seen = row, !.pc =
                         IF exists /\ req[r].snap THEN "snapshot" ELSE "store"]]
       ELSE /\ req' = [req EXCEPT ![r] = [@ EXCEPT !.pc = "done", !.result = "refused"]]
            /\ UNCHANGED stripe
  /\ UNCHANGED <<row, nextId, object, versions, trash, removing, acked, discarded, faults>>

\* Mutant: a conditional write takes no snapshot.
SnapshotUnlessConditional(r) ==
  /\ req[r].pc = "snapshot"
  /\ versions' = IF req[r].cond.set \/ object = NoFile THEN versions ELSE Append(versions, object)
  /\ req' = [req EXCEPT ![r].pc = "store"]
  /\ UNCHANGED <<row, nextId, object, trash, stripe, removing, acked, discarded, faults>>

\* Versions.Snapshot: the old bytes are copied, or there are none to copy and
\* the write fails.
Snapshot(r) ==
  /\ req[r].pc = "snapshot"
  /\ IF object = NoFile
     THEN /\ Leave(r, [req[r] EXCEPT !.pc = "done", !.result = "failed"])
          /\ UNCHANGED versions
     ELSE /\ versions' = Append(versions, object)
          /\ req' = [req EXCEPT ![r].pc = "store"]
          /\ UNCHANGED stripe
  /\ UNCHANGED <<row, nextId, object, trash, removing, acked, discarded, faults>>

\* Storage.Create, io.Copy, Close: the new bytes replace the object.
Store(r) ==
  /\ req[r].pc = "store"
  /\ object' = req[r].body
  /\ req' = [req EXCEPT ![r].pc = "meta"]
  /\ UNCHANGED <<row, nextId, versions, trash, stripe, removing, acked, discarded, faults>>

\* The upload breaks off, or Close fails: Close has already renamed what
\* arrived over the object, and compensateDelete deletes it.
StoreBreaks(r) ==
  /\ req[r].pc = "store"
  /\ faults < MaxFaults /\ faults' = faults + 1
  /\ object' = NoFile
  /\ Leave(r, [req[r] EXCEPT !.pc = "done", !.result = "failed"])
  /\ UNCHANGED <<row, nextId, versions, trash, removing, acked, discarded>>

\* What follows a write that went through: a chunked upload compares the
\* checksum, a rollback deletes the version it put back, the others answer.
Written(r) ==
  LET q == req[r] IN
  CASE q.undo -> [q EXCEPT !.pc = "dropVersion"]
    [] ~q.undo /\ q.kind = "assembleBad" -> [q EXCEPT !.pc = "verify"]
    [] OTHER -> [q EXCEPT !.pc = "done", !.result = "ok"]

Answered(r) == IF Written(r).pc = "done" THEN acked \cup {req[r].body} ELSE acked

\* Meta.Insert for a new file; a row that appeared meanwhile is a conflict,
\* and compensateDelete deletes the object.
MetaInsert(r) ==
  /\ req[r].pc = "meta" /\ req[r].seen = NoFile
  /\ IF row = NoFile
     THEN /\ nextId <= MaxIds
          /\ \E s \in Stamps : row' = [id |-> nextId, stamp |-> s, body |-> req[r].body]
          /\ nextId' = nextId + 1
          /\ Leave(r, Written(r))
          /\ acked' = Answered(r)
          /\ UNCHANGED object
     ELSE /\ object' = NoFile
          /\ Leave(r, [req[r] EXCEPT !.pc = "done", !.result = "failed"])
          /\ UNCHANGED <<row, nextId, acked>>
  /\ UNCHANGED <<versions, trash, removing, discarded, faults>>

\* Mutant: UpdateMetaIfETag compares the id only.
MetaUpdateNoCAS(r) ==
  LET old == req[r].seen
      there == row # NoFile /\ row.id = old.id IN
  /\ req[r].pc = "meta" /\ old # NoFile
  /\ IF there
     THEN /\ \E s \in Stamps : row' = [id |-> old.id, stamp |-> s, body |-> req[r].body]
          /\ Leave(r, Written(r))
          /\ acked' = Answered(r)
          /\ UNCHANGED object
     ELSE /\ object' = NoFile
          /\ Leave(r, [req[r] EXCEPT !.pc = "done", !.result = "failed"])
          /\ UNCHANGED <<row, acked>>
  /\ UNCHANGED <<nextId, versions, trash, removing, discarded, faults>>

\* UpdateMeta, or UpdateMetaIfETag when the request was conditional: the
\* latter fails on a row that changed or went, and compensateDelete deletes
\* the object; the former updates no row and the write fails afterwards.
MetaUpdate(r) ==
  LET old == req[r].seen
      there == row # NoFile /\ row.id = old.id
      hit == there /\ (req[r].cond.set => ETag(row) = ETag(old)) IN
  /\ req[r].pc = "meta" /\ old # NoFile
  /\ \/ /\ hit
        /\ \E s \in Stamps : row' = [id |-> old.id, stamp |-> s, body |-> req[r].body]
        /\ Leave(r, Written(r))
        /\ acked' = Answered(r)
        /\ UNCHANGED object
     \/ /\ ~hit /\ req[r].cond.set
        /\ object' = NoFile
        /\ Leave(r, [req[r] EXCEPT !.pc = "done", !.result = "refused"])
        /\ UNCHANGED <<row, acked>>
     \/ /\ ~hit /\ ~req[r].cond.set
        /\ \/ row = NoFile /\ Leave(r, [req[r] EXCEPT !.pc = "done", !.result = "failed"]) /\ UNCHANGED acked
           \/ row # NoFile /\ Leave(r, Written(r)) /\ acked' = Answered(r)
        /\ UNCHANGED <<row, object>>
  /\ UNCHANGED <<nextId, versions, trash, removing, discarded, faults>>

\* A database error at the metadata step: compensateDelete.
MetaBreaks(r) ==
  /\ req[r].pc = "meta"
  /\ faults < MaxFaults /\ faults' = faults + 1
  /\ object' = NoFile
  /\ Leave(r, [req[r] EXCEPT !.pc = "done", !.result = "failed"])
  /\ UNCHANGED <<row, nextId, versions, trash, removing, acked, discarded>>

-----------------------------------------------------------------------------
(* Chunked assembly whose checksum does not match (Uploads.Assemble): the   *)
(* stripe is free again while the upload is being undone.                   *)

\* No version to go back to: Purge.
UndoPurge(r) ==
  /\ req[r].pc = "verify" /\ versions = <<>>
  /\ row # NoFile
  /\ row' = NoFile /\ object' = NoFile
  /\ discarded' = discarded \cup {r}
  /\ req' = [req EXCEPT ![r] = [@ EXCEPT !.pc = "done", !.result = "failed"]]
  /\ UNCHANGED <<nextId, versions, trash, stripe, removing, acked, faults>>

\* Purge of a path that is gone already.
UndoGone(r) ==
  /\ req[r].pc = "verify" /\ versions = <<>>
  /\ row = NoFile
  /\ req' = [req EXCEPT ![r] = [@ EXCEPT !.pc = "done", !.result = "failed"]]
  /\ UNCHANGED <<row, nextId, object, versions, trash, stripe, removing, acked, discarded, faults>>

\* Mutant: the version's bytes are copied over the object, past the write core.
UndoOpenInPlace(r) ==
  /\ req[r].pc = "verify" /\ versions # <<>>
  /\ object' = Last(versions)
  /\ req' = [req EXCEPT ![r] = [@ EXCEPT !.pc = "dropVersion", !.undo = TRUE, !.body = Last(versions)]]
  /\ UNCHANGED <<row, nextId, versions, trash, stripe, removing, acked, discarded, faults>>

\* RollbackLatest: open the newest version, then write it without snapshot.
UndoOpen(r) ==
  /\ req[r].pc = "verify" /\ versions # <<>>
  /\ req' = [req EXCEPT ![r] = [@ EXCEPT !.pc = "enter", !.cond = NoCond, !.snap = FALSE,
                                         !.undo = TRUE, !.body = Last(versions)]]
  /\ UNCHANGED <<row, nextId, object, versions, trash, stripe, removing, acked, discarded, faults>>

\* ... and delete that version (versions with equal bytes are interchangeable),
\* unless it expired in the meantime.
UndoDrop(r) ==
  LET same == {i \in DOMAIN versions : versions[i] = req[r].body} IN
  /\ req[r].pc = "dropVersion"
  /\ versions' = IF same = {} THEN versions ELSE RemoveAt(versions, Max(same))
  /\ req' = [req EXCEPT ![r] = [@ EXCEPT !.pc = "done", !.result = "failed"]]
  /\ UNCHANGED <<row, nextId, object, trash, stripe, removing, acked, discarded, faults>>

-----------------------------------------------------------------------------
(* Operations that take no stripe.                                         *)

\* Trash.MoveToTrash: rename the object away ...
RemoveObject ==
  /\ ~removing /\ row # NoFile /\ object # NoFile
  /\ Len(trash) < MaxTrash
  /\ trash' = Append(trash, object)
  /\ object' = NoFile
  /\ removing' = TRUE
  /\ UNCHANGED <<row, nextId, versions, stripe, req, acked, discarded, faults>>

\* ... then delete whatever row the path has.
RemoveRow ==
  /\ removing
  /\ row' = NoFile
  /\ removing' = FALSE
  /\ UNCHANGED <<nextId, object, versions, trash, stripe, req, acked, discarded, faults>>

\* Versions.expire drops the oldest version.
Expire ==
  /\ versions # <<>>
  /\ faults < MaxFaults /\ faults' = faults + 1
  /\ versions' = Tail(versions)
  /\ discarded' = discarded \cup {Head(versions)}
  /\ UNCHANGED <<row, nextId, object, trash, stripe, req, removing, acked>>

\* A server process dies; the requests it served get no answer.
Crash(p) ==
  /\ faults < MaxFaults /\ faults' = faults + 1
  /\ \E r \in Requests : Home[r] = p /\ req[r].pc \notin {"new", "done"}
  /\ stripe' = [stripe EXCEPT ![p] = NoFile]
  /\ req' = [r \in Requests |->
       IF Home[r] = p /\ req[r].pc \notin {"new", "done"}
       THEN [req[r] EXCEPT !.pc = "done", !.result = "failed"] ELSE req[r]]
  /\ UNCHANGED <<row, nextId, object, versions, trash, removing, acked, discarded>>

Step(r) ==
  \/ \E kind \in Kinds : Arrive(r, kind)
  \/ Enter(r) \/ Snapshot(r) \/ Store(r) \/ StoreBreaks(r)
  \/ MetaInsert(r) \/ MetaUpdate(r) \/ MetaBreaks(r)
  \/ UndoPurge(r) \/ UndoGone(r) \/ UndoOpen(r) \/ UndoDrop(r)

Next ==
  \/ \E r \in Requests : Step(r)
  \/ RemoveObject \/ RemoveRow \/ Expire
  \/ \E p \in Processes : Crash(p)

Spec == Init /\ [][Next /\ UNCHANGED setup]_vars

-----------------------------------------------------------------------------
(* Properties.                                                             *)

SingleServer == \A r, q \in Requests : Home[r] = Home[q]

\* Bytes whose upload was acknowledged are never lost: they are the current
\* object, a version or a trash item, until expiry drops the version (DAV.write
\* snapshots before it replaces, and only the stripe makes that enough).  It
\* holds within one process, without deletions that overlap a write, and until
\* a rejected chunked upload is rolled back, which replaces without snapshot.
AckedKept ==
  (SingleServer /\ MaxTrash = 0
   /\ \A r \in Requests : req[r].kind = "assembleBad" => req[r].pc \notin {"verify", "done"} /\ ~req[r].undo) =>
  \A b \in acked :
    b = object \/ b \in ToSet(versions) \/ b \in ToSet(trash) \/ b \in discarded

Quiet == ~removing /\ \A p \in Processes : stripe[p] = NoFile

\* Once no write is in its critical section, the filecache row and the stored
\* bytes agree: there is a row exactly when there is an object, and the row's
\* size and checksum are those of the object.  Writes, version restores and
\* checksum rollbacks of one process keep this; faults and deletions racing
\* a write do not, and are excluded here.
RowMatchesObject ==
  (SingleServer /\ Quiet /\ faults = 0 /\ trash = <<>>) =>
    /\ row = NoFile <=> object = NoFile
    /\ row # NoFile => row.body = object

\* A write with If-Match or an If: etag list replaces a file only in the state
\* the client named: from the check to the UPDATE no other process' write slips
\* in unnoticed (UpdateMetaIfETag).
NoLostUpdate ==
  [][\A r \in Requests :
       (req[r].pc = "meta" /\ req'[r].result = "ok" /\ NeedsTag(req[r].kind)
          /\ req[r].kind # "noneMatch")
         => ETag(row) \in req[r].cond.ifMatch \cup req[r].cond.ifETags]_vars
=============================================================================
