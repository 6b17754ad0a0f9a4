------------------------------ MODULE Sealing ------------------------------
(***************************************************************************)
(* The sealed container of stored files (internal/storage/encrypt) and the *)
(* operator's commands over it: encrypt-all, decrypt-all, rotate-keys and  *)
(* rekey-v3 rewrite a live tree file by file while the server keeps        *)
(* writing it, the operator adds a master key or turns per-user keys on,   *)
(* restarts the server, and resets the password of an enrolled user.       *)
(*                                                                         *)
(* A path stands for a folder with one file in it, so that a folder can be *)
(* absent when the walk lists it.  A master key, a file key and a content  *)
(* are numbers; a sealed object remembers the key it was really sealed     *)
(* with next to the key its header names.                                  *)
(***************************************************************************)
EXTENDS Integers, Sequences, FiniteSets, SequencesExt

CONSTANTS SealScenes,  \* the situations to explore
          StorageKeys,       \* storage keys, in the order a listing returns them
          OwnerUID,    \* the first segment of each storage key
          Accounts,    \* uids with a row in users
          KeyPaths,    \* key files the operator may name
          MaxKeys,     \* bound on the ring (256 in the code)
          ChunkSize, TagSize, HeaderSize

Files == Range(StorageKeys)
Owned(p) == OwnerUID[p] # "appdata_"
NoObject == [form |-> "none"]
NoContent == [ver |-> 0, len |-> 0]
NoUK == [id |-> 0, key |-> 0]
Garbled == -1

ASSUME SealingAssumption ==
  /\ ChunkSize \in Nat \ {0} /\ TagSize \in Nat \ {0} /\ MaxKeys \in Nat \ {0}
  /\ \A v \in {"v1", "v2", "v3"} : HeaderSize[v] \in Nat \ {0}

VARIABLES
  stage,      \* the situation being explored, "off" when another part is
  keyFile,    \* key file -> master key in it, 0 when absent
  conf,       \* the configuration file: ring of key files, per-user keys
  server,     \* what the running server loaded from it
  raw,        \* storage key -> object on the backend
  row,        \* storage key -> content the file table stands for
  fileKeys,   \* wrap rows: [uuid, user, box]
  userKey,    \* uid -> sealed user key
  enrolled,   \* uids whose keys are wrapped with their password
  sweep,      \* the command under way
  mint,       \* next content, master key and key uuid; steps left
  past        \* what happened that excuses a file from a promise

sealVars == <<stage, keyFile, conf, server, raw, row, fileKeys, userKey, enrolled, sweep, mint, past>>

Idle == [stage |-> "off", dir |-> "none", dry |-> FALSE, cli |-> [ring |-> <<>>, perUser |-> FALSE],
         dirs |-> <<>>, cur |-> "none", data |-> NoContent, changed |-> 0, failed |-> 0, locked |-> 0,
         still |-> FALSE, abreast |-> FALSE, due |-> -1]
----------------------------------------------------------------------------
(* The container *)

CurrentKeyID(e) == Len(e.ring) - 1
SingleKey(e) == Len(e.ring) = 1

(* The ring a process gets from a configuration, and whether it gets one.  *)
LoadKeyring(c) == [ring |-> [i \in 1..Len(c.ring) |-> keyFile[c.ring[i]]], perUser |-> c.perUser]
Loads(c) ==
  LET ring == LoadKeyring(c).ring
  IN  /\ 0 \notin Range(ring)
      /\ Len(ring) \in 1..MaxKeys
      /\ IsInjective(ring)

(* The chunk writer: full chunks leave the buffer at once, the tail at     *)
(* Close.  Only the lengths of the chunks matter.                          *)
WriteEach(w, n) == [buf |-> 0, cuts |-> Append(w.cuts, n)]
WriterWrite(w, n) ==
  LET have == w.buf + n
  IN  [buf |-> have % ChunkSize, cuts |-> w.cuts \o [i \in 1..(have \div ChunkSize) |-> ChunkSize]]
WriterClose(w) == IF w.buf > 0 THEN Append(w.cuts, w.buf) ELSE w.cuts
Sealed(pieces) == WriterClose(FoldLeft(WriterWrite, [buf |-> 0, cuts |-> <<>>], pieces))

Sum(s) == FoldLeft(LAMBDA a, b : a + b, 0, s)
StoredSize(o) == IF o.form = "plain" THEN Sum(o.cuts)
                 ELSE HeaderSize[o.form] + Sum(o.cuts) + TagSize * Len(o.cuts)
Chunks(payload) == (payload + ChunkSize + TagSize - 1) \div (ChunkSize + TagSize)
PlainSize(o) ==
  LET payload == StoredSize(o) - HeaderSize[o.form] IN payload - Chunks(payload) * TagSize

(* What Stat answers: plaintext keeps its size, and a header of the ring   *)
(* the server does not hold is an error (-1).                              *)
PlainInfo(o, e) ==
  CASE o.form = "plain" -> StoredSize(o)
    [] o.form \in {"v1", "v2"} /\ o.id > CurrentKeyID(e) -> -1
    [] OTHER -> PlainSize(o)

(* Chunk idx is found at a fixed offset; it opens when a chunk was sealed  *)
(* there with that length and that index.                                  *)
ChunkOpens(o, idx) ==
  LET off == idx * (ChunkSize + TagSize)
      end == StoredSize(o) - HeaderSize[o.form] - off
      want == IF end < ChunkSize + TagSize THEN end ELSE ChunkSize + TagSize
  IN  /\ want > TagSize /\ idx < Len(o.cuts)
      /\ Sum(SubSeq(o.cuts, 1, idx)) + TagSize * idx = off
      /\ o.cuts[idx + 1] + TagSize = want
ReadsThrough(o) == \A pos \in 0..(PlainSize(o) - 1) : ChunkOpens(o, pos \div ChunkSize)

RingKeyHeld(id, e) == id \in 0..CurrentKeyID(e)

(* Unwrapping a file key.  An owner without a user key is enrolled: only a *)
(* signed-in reader opens those.                                           *)
LoadUK(u, e) ==
  IF RingKeyHeld(userKey[u].id, e) /\ e.ring[userKey[u].id + 1] = userKey[u].key THEN "ok" ELSE "unresolvable"
Resolve(uuid, e, reader) ==
  LET w == {k \in fileKeys : k.uuid = uuid}
  IN  IF w = {} THEN "unresolvable"
      ELSE LET k == CHOOSE k \in w : TRUE
           IN  IF userKey[k.user] # NoUK
               THEN (IF k.box THEN "unresolvable" ELSE LoadUK(k.user, e))
               ELSE IF reader = k.user /\ k.user \in enrolled /\ k.box THEN "ok" ELSE "locked"

(* What a reader gets of an object: an error, or the content.              *)
OpenRing(o, e) ==
  IF ~RingKeyHeld(o.id, e) THEN "unknown" ELSE IF e.ring[o.id + 1] # o.key THEN "integrity" ELSE "ok"
Open(o, e, reader) ==
  CASE o.form = "plain" -> "ok"
    [] o.form = "v3" -> IF e.perUser THEN Resolve(o.id, e, reader) ELSE "unresolvable"
    [] OTHER -> OpenRing(o, e)
----------------------------------------------------------------------------
(* Sealing a new object.  The header and its key come from the ring, or    *)
(* from a fresh key wrapped for the owner the storage key names.           *)

OwnableStorageKey(p) == Owned(p)
MakesV3(p, e) == e.perUser /\ OwnableStorageKey(p)
Allocates(p) == OwnerUID[p] \in Accounts
Minted(p, e) == IF MakesV3(p, e) THEN mint.uuid + 1 ELSE mint.uuid

(* A v3 writer is refused when its owner is unknown or the key row cannot  *)
(* be written; Create then closes the backend's writer it had opened, and  *)
(* an empty object replaces the file.                                      *)
Emptied == [form |-> "plain", id |-> 0, key |-> 0, ver |-> Garbled, cuts |-> <<>>]

Create(p, e, ver, cuts) ==
  IF MakesV3(p, e) THEN [form |-> "v3", id |-> mint.uuid, key |-> mint.uuid, ver |-> ver, cuts |-> cuts]
  ELSE IF SingleKey(e) THEN [form |-> "v1", id |-> 0, key |-> e.ring[1], ver |-> ver, cuts |-> cuts]
  ELSE [form |-> "v2", id |-> CurrentKeyID(e), key |-> e.ring[Len(e.ring)], ver |-> ver, cuts |-> cuts]

(* The wrap of the fresh key: boxed for an enrolled owner, else under the  *)
(* owner's user key, which is made first when there is none.               *)
AllocateForUser(p, e) ==
  IF ~MakesV3(p, e) THEN UNCHANGED <<fileKeys, userKey>>
  ELSE LET u == OwnerUID[p]
       IN  /\ fileKeys' = fileKeys \cup {[uuid |-> mint.uuid, user |-> u, box |-> u \in enrolled]}
           /\ userKey' = IF u \in enrolled \/ userKey[u] # NoUK THEN userKey
                         ELSE [userKey EXCEPT ![u] = [id |-> CurrentKeyID(e), key |-> e.ring[Len(e.ring)]]]
CanAllocate(p, e) ==
  MakesV3(p, e) => /\ Allocates(p)
                   /\ (OwnerUID[p] \in enrolled \/ userKey[OwnerUID[p]] = NoUK \/ LoadUK(OwnerUID[p], e) = "ok")
----------------------------------------------------------------------------
(* The server and the operator *)

(* The situation in which nothing of this part happens.                   *)
SealOff == [kinds |-> {}, ops |-> 0, runs |-> 0, dirs |-> {}, lens |-> {}, perUser |-> FALSE, enrolled |-> {},
            forms |-> [p \in Files |-> "none"]]

FirstObject(form) ==
  CASE form = "none" -> NoObject
    [] form = "plain" -> [form |-> "plain", id |-> 0, key |-> 0, ver |-> 1, cuts |-> <<3>>]
    [] form = "v1" -> [form |-> "v1", id |-> 0, key |-> 1, ver |-> 1, cuts |-> Sealed(<<3>>)]
    [] form = "v3" -> [form |-> "v3", id |-> 1, key |-> 1, ver |-> 1, cuts |-> Sealed(<<3>>)]

SealInit ==
  /\ stage \in SealScenes
  /\ conf = [ring |-> <<1>>, perUser |-> stage.perUser]
  /\ keyFile = [k \in KeyPaths |-> IF k = 1 THEN 1 ELSE 0]
  /\ server = [ring |-> <<1>>, perUser |-> stage.perUser]
  /\ enrolled = stage.enrolled
  /\ raw = [p \in Files |-> FirstObject(stage.forms[p])]
  /\ row = [p \in Files |-> IF raw[p] = NoObject THEN NoContent ELSE [ver |-> 1, len |-> 3]]
  /\ fileKeys = {[uuid |-> 1, user |-> OwnerUID[p], box |-> OwnerUID[p] \in enrolled] :
                    p \in {q \in Files : raw[q].form = "v3"}}
  /\ userKey = [u \in Accounts |-> IF \E k \in fileKeys : k.user = u /\ ~k.box THEN [id |-> 0, key |-> 1] ELSE NoUK]
  /\ sweep = Idle
  /\ mint = [ver |-> 2, key |-> 2, uuid |-> 2, ops |-> 0, runs |-> 0]
  /\ past = [crossed |-> {}, voided |-> {}, destroyed |-> {}, slipped |-> {}, forced |-> FALSE, rotated |-> 0]

May(kind) == kind \in stage.kinds /\ mint.ops < stage.ops
Stirred == [sweep EXCEPT !.still = FALSE]
CurFile == IF sweep.stage \in {"read", "write"} THEN {sweep.cur} ELSE {}

(* A PUT, or a server's own file: the content is sealed in pieces as it    *)
(* arrives and the row follows.                                            *)
PutFile(p, len, first) ==
  /\ May("put") /\ (Owned(p) => OwnerUID[p] \in Accounts) /\ first \in 1..(IF len = 0 THEN 1 ELSE len)
  /\ CanAllocate(p, server)
  /\ raw' = [raw EXCEPT ![p] = Create(p, server, mint.ver,
                                      Sealed(IF len = 0 THEN <<>> ELSE <<first, len - first>>))]
  /\ AllocateForUser(p, server)
  /\ row' = [row EXCEPT ![p] = [ver |-> mint.ver, len |-> len]]
  /\ mint' = [mint EXCEPT !.ver = @ + 1, !.uuid = Minted(p, server), !.ops = @ + 1]
  /\ past' = [past EXCEPT !.crossed = (@ \ {p}) \cup ({p} \cap CurFile), !.voided = @ \ {p}, !.destroyed = @ \ {p}]
  /\ sweep' = Stirred
  /\ UNCHANGED <<stage, keyFile, conf, server, enrolled>>

(* A PUT whose key row cannot be written fails and leaves an empty object. *)
PutFails(p) ==
  /\ May("dbfault") /\ OwnerUID[p] \in Accounts /\ MakesV3(p, server)
  /\ raw' = [raw EXCEPT ![p] = Emptied]
  /\ past' = [past EXCEPT !.voided = @ \cup {p}]
  /\ mint' = [mint EXCEPT !.ops = @ + 1]
  /\ sweep' = Stirred
  /\ UNCHANGED <<stage, keyFile, conf, server, row, fileKeys, userKey, enrolled>>

(* Removing a file, and moving its folder: names pass through the layer.   *)
DeleteFile(p) ==
  /\ May("delete") /\ row[p] # NoContent /\ OwnerUID[p] \in Accounts
  /\ raw' = [raw EXCEPT ![p] = NoObject]
  /\ row' = [row EXCEPT ![p] = NoContent]
  /\ mint' = [mint EXCEPT !.ops = @ + 1]
  /\ past' = [past EXCEPT !.crossed = (@ \ {p}) \cup ({p} \cap CurFile), !.voided = @ \ {p}, !.destroyed = @ \ {p}]
  /\ sweep' = Stirred
  /\ UNCHANGED <<stage, keyFile, conf, server, fileKeys, userKey, enrolled>>

Carried(s, p, q) == (s \ {p, q}) \cup (IF p \in s THEN {q} ELSE {})

RenameFile(p, q) ==
  /\ May("rename") /\ OwnerUID[p] = OwnerUID[q] /\ OwnerUID[p] \in Accounts
  /\ row[p] # NoContent /\ row[q] = NoContent /\ raw[p] # NoObject
  /\ raw' = [raw EXCEPT ![p] = NoObject, ![q] = raw[p]]
  /\ row' = [row EXCEPT ![p] = NoContent, ![q] = row[p]]
  /\ mint' = [mint EXCEPT !.ops = @ + 1]
  /\ past' = [past EXCEPT !.crossed = Carried(@, p, q) \cup ({p, q} \cap CurFile), !.voided = Carried(@, p, q),
                               !.destroyed = Carried(@, p, q),
                               !.slipped = IF sweep.stage # "off" /\ q \notin Range(sweep.dirs)
                                           THEN (@ \ {p}) \cup {q} ELSE Carried(@, p, q)]
  /\ sweep' = Stirred
  /\ UNCHANGED <<stage, keyFile, conf, server, fileKeys, userKey, enrolled>>

(* encryption init: a new key file, over an existing one only with force.  *)
EncryptionInit(k, force) ==
  /\ May("key") /\ (force => "force" \in stage.kinds)
  /\ keyFile[k] = 0 \/ force
  /\ keyFile' = [keyFile EXCEPT ![k] = mint.key]
  /\ mint' = [mint EXCEPT !.key = @ + 1, !.ops = @ + 1]
  /\ past' = [past EXCEPT !.forced = @ \/ keyFile[k] # 0]
  /\ sweep' = Stirred
  /\ UNCHANGED <<stage, conf, server, raw, row, fileKeys, userKey, enrolled>>

(* The operator appends the key to the ring, or turns per-user keys on;    *)
(* the server learns of it when it is restarted.                           *)
AppendKey(k) ==
  /\ k \notin Range(conf.ring) /\ keyFile[k] # 0
  /\ conf' = [conf EXCEPT !.ring = Append(@, k)]
  /\ sweep' = Stirred
  /\ UNCHANGED <<stage, keyFile, server, raw, row, fileKeys, userKey, enrolled, mint, past>>

EnablePerUserKeys ==
  /\ "user" \in stage.kinds /\ ~conf.perUser
  /\ conf' = [conf EXCEPT !.perUser = TRUE]
  /\ sweep' = Stirred
  /\ UNCHANGED <<stage, keyFile, server, raw, row, fileKeys, userKey, enrolled, mint, past>>

RestartServer ==
  /\ Loads(conf) /\ server # LoadKeyring(conf)
  /\ server' = LoadKeyring(conf)
  /\ sweep' = Stirred
  /\ UNCHANGED <<stage, keyFile, conf, raw, row, fileKeys, userKey, enrolled, mint, past>>

(* reset-password --force: the enrolment and the wraps it sealed go.       *)
NeedsForce(u) == u \in enrolled
DestroyEnrollment(u) ==
  /\ enrolled' = enrolled \ {u}
  /\ fileKeys' = {k \in fileKeys : k.user # u}
ResetPassword(u, force) ==
  /\ May("reset") /\ u \in Accounts /\ Loads(conf)
  /\ conf.perUser /\ NeedsForce(u) /\ force
  /\ DestroyEnrollment(u)
  /\ mint' = [mint EXCEPT !.ops = @ + 1]
  /\ past' = [past EXCEPT !.destroyed = @ \cup {p \in Files : OwnerUID[p] = u /\ raw[p].form = "v3"}]
  /\ sweep' = Stirred
  /\ UNCHANGED <<stage, keyFile, conf, server, raw, row, userKey>>
----------------------------------------------------------------------------
(* The commands *)

Direction(dir, c) ==
  /\ dir = "rotate" => Len(c.ring) > 1
  /\ dir = "rekey" => c.perUser

(* What the run before says a run of the same command will touch, -1 when  *)
(* it says nothing.                                                        *)
LeftToDo(dir) ==
  CASE sweep.stage # "done" \/ sweep.dir # dir \/ ~sweep.still -> -1
    [] sweep.dry -> sweep.changed + sweep.failed
    [] sweep.failed = 0 -> sweep.locked
    [] OTHER -> -1

EncryptionSweep(dir, dry) ==
  /\ sweep.stage \in {"off", "done"} /\ mint.runs < stage.runs
  /\ dir \in stage.dirs /\ (dry => "dry" \in stage.kinds)
  /\ Direction(dir, conf) /\ Loads(conf)
  /\ sweep' = [Idle EXCEPT !.stage = "walk", !.dir = dir, !.dry = dry, !.cli = LoadKeyring(conf), !.still = TRUE,
                           !.abreast = server = LoadKeyring(conf), !.due = LeftToDo(dir),
                           !.dirs = SelectSeq(StorageKeys, LAMBDA p : raw[p] # NoObject)]
  /\ mint' = [mint EXCEPT !.runs = @ + 1]
  /\ UNCHANGED <<stage, keyFile, conf, server, raw, row, fileKeys, userKey, enrolled, past>>

(* One folder of the listing: gone is skipped without a word.              *)
SweepWalk ==
  /\ sweep.stage = "walk" /\ sweep.dirs # <<>>
  /\ LET p == Head(sweep.dirs)
     IN  sweep' = [sweep EXCEPT !.dirs = Tail(@), !.cur = p, !.stage = IF raw[p] = NoObject THEN "walk" ELSE "sniff"]
  /\ UNCHANGED <<stage, keyFile, conf, server, raw, row, fileKeys, userKey, enrolled, mint, past>>

HeaderLayout(o) == IF o.form = "plain" THEN [sealed |-> FALSE, v3 |-> FALSE, id |-> 0]
                   ELSE [sealed |-> TRUE, v3 |-> o.form = "v3", id |-> IF o.form = "v2" THEN o.id ELSE 0]

SkipsOnlyV3(dir, l, e) ==
  CASE dir = "seal" -> l.v3
    [] dir = "open" -> ~l.sealed
    [] dir = "rotate" -> ~l.sealed \/ l.v3 \/ l.id = CurrentKeyID(e)
    [] dir = "rekey" -> ~l.sealed \/ l.v3
SkipsV3(dir, l, e) ==
  CASE dir = "seal" -> l.sealed
    [] dir \in {"open", "rekey"} -> ~l.sealed \/ l.v3
    [] dir = "rotate" -> ~l.sealed \/ l.v3 \/ l.id = CurrentKeyID(e)
SkipsNoCurrent(dir, l, e) ==
  CASE dir = "seal" -> l.sealed
    [] dir = "open" -> ~l.sealed
    [] dir \in {"rotate", "rekey"} -> ~l.sealed \/ l.v3
Skips(dir, l, e) ==
  CASE dir = "seal" -> l.sealed
    [] dir = "open" -> ~l.sealed
    [] dir = "rotate" -> ~l.sealed \/ l.v3 \/ l.id = CurrentKeyID(e)
    [] dir = "rekey" -> ~l.sealed \/ l.v3

(* The header decides whether the file is due; a dry run counts it, or     *)
(* counts a failure when its size cannot be told.                          *)
ProcessSniff ==
  /\ sweep.stage = "sniff"
  /\ LET o == raw[sweep.cur]
     IN  sweep' = IF o = NoObject THEN [sweep EXCEPT !.stage = "walk", !.failed = @ + 1]
                  ELSE IF Skips(sweep.dir, HeaderLayout(o), sweep.cli) THEN [sweep EXCEPT !.stage = "walk"]
                  ELSE IF ~sweep.dry THEN [sweep EXCEPT !.stage = "read"]
                  ELSE IF sweep.dir # "seal" /\ PlainInfo(o, sweep.cli) = -1 THEN [sweep EXCEPT !.stage = "walk", !.failed = @ + 1]
                  ELSE [sweep EXCEPT !.stage = "walk", !.changed = @ + 1]
  /\ UNCHANGED <<stage, keyFile, conf, server, raw, row, fileKeys, userKey, enrolled, mint, past>>

Aborts(dir, res) ==
  \/ dir = "open" /\ res = "integrity"
  \/ dir = "rotate" /\ res \in {"integrity", "unknown"}
  \/ dir = "rekey" /\ res \in {"integrity", "unknown", "unresolvable"}

(* The content: seal reads the stored bytes, the others read through the   *)
(* container.  A wrong key ends the command, a locked file is passed by.   *)
SweepRead ==
  /\ sweep.stage = "read"
  /\ LET o == raw[sweep.cur]
         res == IF o = NoObject THEN "missing" ELSE IF sweep.dir = "seal" THEN "ok" ELSE Open(o, sweep.cli, "cli")
     IN  sweep' = CASE res = "ok" -> [sweep EXCEPT !.stage = "write",
                         !.data = IF sweep.dir = "seal" /\ o.form # "plain"
                                  THEN [ver |-> Garbled, len |-> StoredSize(o)] ELSE [ver |-> o.ver, len |-> Sum(o.cuts)]]
                    [] res = "locked" -> [sweep EXCEPT !.stage = "walk", !.locked = @ + 1]
                    [] Aborts(sweep.dir, res) -> Idle
                    [] OTHER -> [sweep EXCEPT !.stage = "walk", !.failed = @ + 1]
  /\ UNCHANGED <<stage, keyFile, conf, server, raw, row, fileKeys, userKey, enrolled, mint, past>>

(* The rewrite, installed at once.  A key that cannot be allocated fails   *)
(* the file after an empty object has taken its place.                     *)
SweepWrite ==
  /\ sweep.stage = "write"
  /\ LET p == sweep.cur
         e == sweep.cli
         d == sweep.data
     IN  /\ IF sweep.dir = "open"
            THEN /\ raw' = [raw EXCEPT ![p] = [form |-> "plain", id |-> 0, key |-> 0, ver |-> d.ver, cuts |-> <<d.len>>]]
                 /\ UNCHANGED <<fileKeys, userKey, past>>
                 /\ sweep' = [sweep EXCEPT !.stage = "walk", !.changed = @ + 1]
            ELSE IF CanAllocate(p, e)
            THEN /\ raw' = [raw EXCEPT ![p] = Create(p, e, d.ver, Sealed(<<d.len>>))]
                 /\ AllocateForUser(p, e)
                 /\ sweep' = [sweep EXCEPT !.stage = "walk", !.changed = @ + 1]
                 /\ UNCHANGED past
            ELSE /\ raw' = [raw EXCEPT ![p] = Emptied]
                 /\ past' = [past EXCEPT !.voided = @ \cup {p}]
                 /\ sweep' = [sweep EXCEPT !.stage = "walk", !.failed = @ + 1]
                 /\ UNCHANGED <<fileKeys, userKey>>
         /\ mint' = [mint EXCEPT !.uuid = IF sweep.dir # "open" THEN Minted(p, e) ELSE @]
  /\ UNCHANGED <<stage, keyFile, conf, server, row, enrolled>>

(* After the walk: a rotation without failures goes on to the user keys.   *)
Rotated(s) == s.dir = "rotate" /\ ~s.dry /\ s.failed = 0 /\ s.abreast
SweepEnds ==
  /\ sweep.stage = "walk" /\ sweep.dirs = <<>>
  /\ IF ~sweep.dry /\ sweep.failed = 0 /\ sweep.dir = "rotate" /\ sweep.cli.perUser
     THEN sweep' = [sweep EXCEPT !.stage = "reseal"] /\ UNCHANGED past
     ELSE /\ sweep' = [sweep EXCEPT !.stage = "done"]
          /\ past' = [past EXCEPT !.rotated = IF Rotated(sweep) THEN Len(sweep.cli.ring) ELSE @]
  /\ UNCHANGED <<stage, keyFile, conf, server, raw, row, fileKeys, userKey, enrolled, mint>>

ResealedNot(u, e) == userKey[u]
ResealedByName(u, e) == IF userKey[u] = NoUK THEN NoUK ELSE [id |-> CurrentKeyID(e), key |-> userKey[u].key]
Resealed(u, e) == IF userKey[u] = NoUK \/ userKey[u].id = CurrentKeyID(e) THEN userKey[u]
                  ELSE [id |-> CurrentKeyID(e), key |-> e.ring[Len(e.ring)]]
ResealUserKeys ==
  /\ sweep.stage = "reseal"
  /\ IF \E u \in Accounts : userKey[u] # NoUK /\ LoadUK(u, sweep.cli) # "ok"
     THEN sweep' = Idle /\ UNCHANGED <<userKey, past>>
     ELSE /\ userKey' = [u \in Accounts |-> Resealed(u, sweep.cli)]
          /\ sweep' = [sweep EXCEPT !.stage = "done"]
          /\ past' = [past EXCEPT !.rotated = IF Rotated(sweep) THEN Len(sweep.cli.ring) ELSE @]
  /\ UNCHANGED <<stage, keyFile, conf, server, raw, row, fileKeys, enrolled, mint>>

(* The command dies between two steps; it can be run again.                *)
SweepDies ==
  /\ "die" \in stage.kinds /\ sweep.stage \notin {"off", "done"}
  /\ sweep' = Idle
  /\ UNCHANGED <<stage, keyFile, conf, server, raw, row, fileKeys, userKey, enrolled, mint, past>>

SealOperator ==
  \/ \E k \in KeyPaths, force \in BOOLEAN : EncryptionInit(k, force)
  \/ \E k \in KeyPaths : AppendKey(k)
  \/ EnablePerUserKeys
  \/ RestartServer
  \/ \E u \in Accounts, force \in BOOLEAN : ResetPassword(u, force)

SealServer ==
  \/ \E p \in Files : PutFails(p) \/ DeleteFile(p)
  \/ \E p \in Files, len \in stage.lens, first \in 1..3 : PutFile(p, len, first)
  \/ \E p \in Files, q \in Files : RenameFile(p, q)

SealNext ==
  \/ SealOperator
  \/ SealServer
  \/ \E dir \in {"seal", "open", "rotate", "rekey"}, dry \in BOOLEAN : EncryptionSweep(dir, dry)
  \/ SweepWalk \/ ProcessSniff \/ SweepRead \/ SweepWrite \/ SweepEnds \/ ResealUserKeys \/ SweepDies
----------------------------------------------------------------------------
(* Properties *)

(* Every variable keeps its shape, and a sealed object its chunk lengths.  *)
SealTypeOK ==
  /\ server.ring \in Seq(Nat) /\ Len(conf.ring) <= Cardinality(KeyPaths) /\ enrolled \subseteq Accounts
  /\ \A p \in Files : raw[p] # NoObject =>
        /\ raw[p].form \in {"plain", "v1", "v2", "v3"}
        /\ raw[p].form # "plain" => \A i \in 1..Len(raw[p].cuts) : raw[p].cuts[i] \in 1..ChunkSize
  /\ \A u \in Accounts : u \in enrolled => userKey[u] = NoUK
  /\ sweep.stage \in {"off", "walk", "sniff", "read", "write", "reseal", "done"}

Excused(p) == p \in past.crossed \cup past.voided

(* Whatever the commands rewrite, the object of a file holds the content   *)
(* its row stands for, and no object outlives its row.  Excused: a file    *)
(* the server rewrote, moved or removed between the command's look at it   *)
(* and its write, and a file emptied by a key that could not be allocated. *)
SealKept ==
  \A p \in Files : ~Excused(p) =>
    IF row[p] = NoContent THEN raw[p] = NoObject
    ELSE raw[p] # NoObject /\ raw[p].ver = row[p].ver /\ Sum(raw[p].cuts) = row[p].len

(* A server that runs on the configuration in the file reads every such    *)
(* file for its owner, at every offset, and Stat tells its size: no        *)
(* rotation, rekeying, interrupted or repeated command takes a file away   *)
(* from it.  Excused besides: key files overwritten by force and files of  *)
(* an enrolment destroyed by a forced reset.                               *)
SealReads ==
  (conf.ring # <<>> /\ ~past.forced /\ Loads(conf) /\ server = LoadKeyring(conf)) =>
    \A p \in Files : (row[p] # NoContent /\ ~Excused(p) /\ p \notin past.destroyed) =>
      /\ Open(raw[p], server, OwnerUID[p]) = "ok"
      /\ PlainInfo(raw[p], server) = row[p].len
      /\ raw[p].form # "plain" => ReadsThrough(raw[p])

InTarget(p) ==
  CASE sweep.dir = "seal" -> raw[p].form # "plain"
    [] sweep.dir = "open" -> raw[p].form = "plain" \/ Open(raw[p], sweep.cli, "cli") = "locked"
    [] sweep.dir = "rotate" -> raw[p].form \in {"plain", "v3"} \/ raw[p].id = CurrentKeyID(sweep.cli)
    [] sweep.dir = "rekey" -> raw[p].form \in {"plain", "v3"} \/ ~Owned(p)

(* A command that reports no failure, on a tree nobody touched meanwhile,  *)
(* has brought every file to its target encoding; only files locked to it  *)
(* stay sealed, and those it counts.                                       *)
SweepComplete ==
  (sweep.stage = "done" /\ ~sweep.dry /\ sweep.failed = 0 /\ sweep.still) =>
    /\ \A p \in Files : raw[p] # NoObject => InTarget(p)
    /\ sweep.dir = "open" =>
         sweep.locked = Cardinality({p \in Files : raw[p] # NoObject /\ raw[p].form # "plain"})

(* Once a rotation succeeded against a server on the same ring, no stored  *)
(* file and no user key needs a retired master key again, whatever the     *)
(* server wrote meanwhile.  Excused: a folder moved, while the command     *)
(* walked, from a place it had not reached to one it had passed.           *)
RetiredKeysFree ==
  (past.rotated > 0 /\ ~past.forced) =>
    /\ \A p \in Files : (raw[p] # NoObject /\ raw[p].form \in {"v1", "v2"} /\ p \notin past.slipped /\ ~Excused(p)) =>
          raw[p].id >= past.rotated - 1
    /\ \A u \in Accounts : userKey[u] # NoUK => userKey[u].id >= past.rotated - 1

(* Run again at once, a command has nothing left to do; run after a dry    *)
(* run, it touches the files the dry run counted.  Excused: rekey-v3 on    *)
(* files without an owner, which it seals anew each time.                  *)
SweepSettles ==
  (sweep.stage = "done" /\ sweep.still /\ sweep.due # -1 /\ (sweep.dir = "rekey" => \A p \in Files : Owned(p) \/ row[p] = NoContent))
    => sweep.changed + sweep.failed + sweep.locked = sweep.due

(* The sealed store is sound: the variables have their types, files keep   *)
(* their content and stay readable, and sweeps finish what they report.    *)
SealSound == SealTypeOK /\ SealKept /\ SealReads /\ SweepComplete /\ RetiredKeysFree /\ SweepSettles
=============================================================================
