--------------------------- MODULE DavLocksProofs ---------------------------
(***************************************************************************)
(* A granted lock stays in the table until its deadline, and a check lets  *)
(* nobody else through to its path, for any number of clients and any      *)
(* scenes, as long as a request ends within a tick.                        *)
(***************************************************************************)
EXTENDS DavLocks, SequenceTheorems, TLAPS

-----------------------------------------------------------------------------
(* Paths.                                                                  *)

\* Equality and prefixes, segment by segment.
LEMMA SegmentsDecide ==
  ASSUME NEW s \in Names, NEW t \in Names, Len(s) = Len(t), \A i \in 1..Len(s) : s[i] = t[i]
  PROVE  s = t
  BY DEF Names

LEMMA UnderSegments ==
  ASSUME NEW x \in Names, NEW p \in Names
  PROVE  Under(x, p) <=> Len(p) <= Len(x) /\ \A i \in 1..Len(p) : p[i] = x[i]
  <1>1. ASSUME Len(p) <= Len(x)
        PROVE  /\ SubSeq(p, 1, Len(p)) \in Names /\ SubSeq(x, 1, Len(p)) \in Names
               /\ Len(SubSeq(p, 1, Len(p))) = Len(p) /\ Len(SubSeq(x, 1, Len(p))) = Len(p)
               /\ \A i \in 1..Len(p) : SubSeq(p, 1, Len(p))[i] = p[i] /\ SubSeq(x, 1, Len(p))[i] = x[i]
    BY <1>1 DEF Names
  <1>2. Under(x, p) <=> Len(p) <= Len(x) /\ SubSeq(p, 1, Len(p)) = SubSeq(x, 1, Len(p))
    BY DEF Under, IsPrefix
  <1>3. ASSUME Len(p) <= Len(x), \A i \in 1..Len(p) : p[i] = x[i]
        PROVE  SubSeq(p, 1, Len(p)) = SubSeq(x, 1, Len(p))
    BY <1>1, <1>3, SegmentsDecide
  <1>4. ASSUME Len(p) <= Len(x), SubSeq(p, 1, Len(p)) = SubSeq(x, 1, Len(p))
        PROVE  \A i \in 1..Len(p) : p[i] = x[i]
    BY <1>1, <1>4
  <1> QED BY <1>2, <1>3, <1>4

\* Two directories over one path: one is under the other.
LEMMA DirsCompare ==
  ASSUME NEW x \in Names, NEW p \in Names, NEW q \in Names, Under(x, p), Under(x, q)
  PROVE  Under(p, q) \/ Under(q, p)
  <1>1. Len(p) \in Nat /\ Len(q) \in Nat BY DEF Names
  <1>2. /\ \A i \in 1..Len(p) : p[i] = x[i]
        /\ \A i \in 1..Len(q) : q[i] = x[i]
    BY UnderSegments
  <1>3. CASE Len(p) <= Len(q) BY <1>1, <1>2, <1>3, UnderSegments
  <1>4. CASE Len(q) <= Len(p) BY <1>1, <1>2, <1>4, UnderSegments
  <1> QED BY <1>1, <1>3, <1>4

\* A rebased path is under the new directory, with the old one's remainder.
LEMMA Rebased ==
  ASSUME NEW x \in Names, NEW p \in Names, NEW q \in Names, Under(x, p)
  PROVE  /\ Rebase(x, p, q) \in Names /\ Under(Rebase(x, p, q), q)
         /\ Len(Rebase(x, p, q)) = Len(q) + Len(x) - Len(p)
         /\ \A i \in 1..(Len(x) - Len(p)) : Rebase(x, p, q)[Len(q) + i] = x[Len(p) + i]
  <1>1. Len(p) \in Nat /\ Len(q) \in Nat /\ Len(x) \in Nat /\ Len(p) <= Len(x) BY UnderSegments DEF Names
  <1> DEFINE rest == SubSeq(x, Len(p) + 1, Len(x))
  <1>2. rest \in Names /\ Len(rest) = Len(x) - Len(p) /\ \A i \in 1..(Len(x) - Len(p)) : rest[i] = x[Len(p) + i]
    BY <1>1 DEF Names
  <1> HIDE DEF rest
  <1>3. /\ q \o rest \in Names /\ Len(q \o rest) = Len(q) + Len(rest)
        /\ \A i \in 1..Len(q) : (q \o rest)[i] = q[i]
        /\ \A i \in 1..Len(rest) : (q \o rest)[Len(q) + i] = rest[i]
    <2>1. /\ q \o rest \in Names /\ Len(q \o rest) = Len(q) + Len(rest)
          /\ \A i \in 1..(Len(q) + Len(rest)) : (q \o rest)[i] = IF i <= Len(q) THEN q[i] ELSE rest[i - Len(q)]
      BY <1>2, ConcatProperties DEF Names
    <2>2. Len(rest) \in Nat BY <1>2 DEF Names
    <2>3. ASSUME NEW i \in 1..Len(rest) PROVE (q \o rest)[Len(q) + i] = rest[i]
      <3>1. Len(q) + i \in 1..(Len(q) + Len(rest)) /\ ~(Len(q) + i <= Len(q)) /\ (Len(q) + i) - Len(q) = i
        BY <1>1, <2>2
      <3> QED BY <2>1, <3>1
    <2> QED BY <1>1, <2>1, <2>2, <2>3
  <1>4. Rebase(x, p, q) = q \o rest BY DEF Rebase, rest
  <1>5. Under(q \o rest, q)
    <2>1. Len(q) <= Len(q \o rest) /\ \A i \in 1..Len(q) : q[i] = (q \o rest)[i] BY <1>1, <1>2, <1>3
    <2> QED BY <1>3, <2>1, UnderSegments
  <1> QED BY <1>1, <1>2, <1>3, <1>4, <1>5

\* Different paths are rebased to different paths.
LEMMA RebaseApart ==
  ASSUME NEW x \in Names, NEW y \in Names, NEW p \in Names, NEW q \in Names, Under(x, p), Under(y, p),
         Rebase(x, p, q) = Rebase(y, p, q)
  PROVE  x = y
  <1>1. /\ Len(p) \in Nat /\ Len(q) \in Nat /\ Len(x) \in Nat /\ Len(y) \in Nat /\ Len(p) <= Len(x) /\ Len(p) <= Len(y)
        /\ \A i \in 1..Len(p) : p[i] = x[i] /\ p[i] = y[i]
    BY UnderSegments DEF Names
  <1>2. Len(x) = Len(y) BY <1>1, Rebased
  <1>3. \A i \in 1..(Len(x) - Len(p)) : x[Len(p) + i] = y[Len(p) + i]
    <2>1. \A i \in 1..(Len(x) - Len(p)) : Rebase(x, p, q)[Len(q) + i] = x[Len(p) + i] BY Rebased
    <2>2. \A i \in 1..(Len(y) - Len(p)) : Rebase(y, p, q)[Len(q) + i] = y[Len(p) + i] BY Rebased
    <2> QED BY <1>2, <2>1, <2>2
  <1>4. ASSUME NEW i \in 1..Len(x) PROVE x[i] = y[i]
    <2>1. CASE i <= Len(p) BY <1>1, <2>1
    <2>2. CASE i > Len(p)
      <3>1. i - Len(p) \in 1..(Len(x) - Len(p)) /\ Len(p) + (i - Len(p)) = i BY <1>1, <2>2
      <3> QED BY <1>3, <3>1
    <2> QED BY <1>1, <2>1, <2>2
  <1> QED BY <1>2, <1>4, SegmentsDecide

\* On the way up from a path the path itself comes first.
LEMMA ChainTop ==
  ASSUME NEW p \in Names
  PROVE  p \in Chain(p) /\ \A q \in Chain(p) : q \in Names /\ Len(q) <= Len(p) /\ (Len(q) = Len(p) => q = p)
  <1>1. Len(p) \in Nat BY DEF Names
  <1>2. ASSUME NEW n \in 0..Len(p)
        PROVE  SubSeq(p, 1, n) \in Names /\ Len(SubSeq(p, 1, n)) = n
    BY <1>1, <1>2 DEF Names
  <1>3. SubSeq(p, 1, Len(p)) = p
    <2>1. \A i \in 1..Len(p) : SubSeq(p, 1, Len(p))[i] = p[i] BY <1>1 DEF Names
    <2>2. SubSeq(p, 1, Len(p)) \in Names /\ Len(SubSeq(p, 1, Len(p))) = Len(p) BY <1>1, <1>2
    <2> QED BY <2>1, <2>2, SegmentsDecide
  <1>4. p \in Chain(p)
    <2>1. Len(p) \in 0..Len(p) BY <1>1
    <2>2. SubSeq(p, 1, Len(p)) \in Chain(p) BY <2>1 DEF Chain
    <2> QED BY <1>3, <2>2
  <1>5. ASSUME NEW q \in Chain(p) PROVE q \in Names /\ Len(q) <= Len(p) /\ (Len(q) = Len(p) => q = p)
    <2>1. PICK n \in 0..Len(p) : q = SubSeq(p, 1, n) BY DEF Chain
    <2>2. q \in Names /\ Len(q) = n BY <1>2, <2>1
    <2>3. Len(q) <= Len(p) BY <1>1, <2>2
    <2>4. ASSUME Len(q) = Len(p) PROVE q = p
      <3>1. n = Len(p) BY <2>2, <2>4
      <3> QED BY <1>3, <2>1, <3>1
    <2> QED BY <2>2, <2>3, <2>4
  <1> QED BY <1>4, <1>5

-----------------------------------------------------------------------------
(* The table, the requests and what clients know.                          *)

Unique(rows) == \A k, l \in rows : (k.id = l.id \/ k.path = l.path \/ k.token = l.token) => k = l

Ops == [pc : {"idle", "expire", "refresh", "insert", "readback", "unlock", "act", "sideTables"},
        verb : AllVerbs \cup {"none"}, path : Names, dst : Names, row : LockRow \cup {NoLock}]

\* What request o of client c may rely on: the row it has in its hands is expired, or not,
\* as it was when it was read, and a row with that id has its token.
Stage(c, o) ==
  /\ o.pc \in {"expire", "refresh", "readback", "unlock"} => o.row \in LockRow /\ o.row.id < nextId
  /\ o.pc \in {"act", "sideTables"} /\ o.verb \in {"move", "copy", "wopiRename"} =>
       ~Under(o.path, o.dst) /\ ~Under(o.dst, o.path)
  /\ o.pc = "sideTables" => o.verb \in {"delete", "move", "wopiRename"}
  /\ \A l \in locks : o.pc \in {"expire", "refresh", "unlock"} /\ l.id = o.row.id =>
       /\ o.pc = "expire" => l.expiry <= clock
       /\ o.pc = "refresh" => l.expiry > clock
       /\ l.token = o.row.token
  /\ o.pc = "unlock" => \A h \in hold[c] : h.token # o.row.token

Base ==
  /\ scene \in Scenes /\ TypeOK
  /\ \A l \in locks : l.id < nextId /\ l.expiry <= clock + TTL /\ (l.token \in Nat => l.token < nextId)
  /\ \A c \in Clients : Stage(c, op[c])

\* The token a request has in its hands.
InHand(o) == IF o.pc \in {"readback", "refresh", "unlock"} THEN {o.row.token} ELSE {}

\* What a client may present: the lock id it chooses itself, what it was told, what it has
\* in its hands.
Claims(c) == {c} \cup Presented(c) \cup InHand(op[c])

\* Two clients that know one token: it was told to one of them by mistake.
ClaimInv ==
  /\ \A c \in Clients : \A t \in Claims(c) : t \in Nat => t < nextId
  /\ \A c, d \in Clients : c # d => Claims(c) \cap Claims(d) \subseteq spoilt

LocksInv == Base /\ ClaimInv /\ HoldBacked

LEMMA Constants ==
  /\ NoLock \notin LockRow /\ Clients \cap Nat = {} /\ TTL \in Nat \ {0} /\ MaxIds \in Nat
  /\ \A s \in Scenes : s.maxTime \in Nat /\ s.paths \subseteq Names
  /\ <<>> \in Names /\ Idle \in Ops /\ Idle.pc = "idle" /\ InHand(Idle) = {}
  /\ (1..MaxIds) \subseteq Nat
  <1>1. LockRow \subseteq [id : Nat, path : Seq(STRING), token : Nat \cup Clients, expiry : Nat]
    BY DavLocksAssumption DEF LockRow, Tokens, Names
  <1>2. <<>> \in Names BY DEF Names
  <1>3. Idle \in Ops BY <1>2 DEF Idle, Ops
  <1>4. Idle.pc = "idle" /\ InHand(Idle) = {} BY DEF Idle, InHand
  <1> QED BY <1>1, <1>2, <1>3, <1>4, DavLocksAssumption DEF Names

LEMMA IdleStage == \A c : Stage(c, Idle)
  BY DEF Stage, Idle

LEMMA LocksInvInit == Init => LocksInv
  <1> SUFFICES ASSUME Init PROVE LocksInv
    OBVIOUS
  <1>1. /\ scene \in Scenes /\ exists = scene.initially /\ locks = {} /\ nextId = 1 /\ clock = 0
        /\ op = [c \in Clients |-> Idle] /\ hold = [c \in Clients |-> {}] /\ spoilt = {}
    BY DEF Init, Initially
  <1>2. exists \subseteq Names BY <1>1, DavLocksAssumption DEF Names
  <1>3. op \in [Clients -> Ops] BY <1>1, Constants
  <1>4. TypeOK
    <2>1. nextId \in 1..(MaxIds + 1) /\ clock \in 0..MaxTime BY <1>1, Constants DEF MaxTime
    <2> QED BY <1>1, <1>2, <1>3, <2>1 DEF TypeOK, Ops
  <1>5. Base BY <1>1, <1>4, IdleStage DEF Base
  <1>6. \A c \in Clients : Claims(c) = {c} BY <1>1, Constants DEF Claims, Presented
  <1>7. ClaimInv BY <1>6, Constants DEF ClaimInv
  <1>8. HoldBacked BY <1>1 DEF HoldBacked
  <1> QED BY <1>5, <1>7, <1>8 DEF LocksInv

\* Most steps move one request and take rows and knowledge away, if anything.
LEMMA Shrinks ==
  ASSUME Base, ClaimInv, NEW c \in Clients, NEW o \in Ops, op' = [op EXCEPT ![c] = o],
         locks' \subseteq locks, exists' \subseteq Names,
         hold' \in [Clients -> SUBSET Hold], \A d \in Clients : hold'[d] \subseteq hold[d],
         UNCHANGED <<nextId, clock, spoilt, scene>>,
         Stage(c, o)', InHand(o) \subseteq Claims(c)
  PROVE  Base' /\ ClaimInv'
  <1>1. op \in [Clients -> Ops] /\ \A d \in Clients : op'[d] = IF d = c THEN o ELSE op[d]
    BY DEF Base, TypeOK, Ops
  <1>2. op' \in [Clients -> Ops] BY <1>1
  <1>3. TypeOK'
    <2>1. /\ exists' \subseteq Names /\ locks' \subseteq LockRow
          /\ \A k, l \in locks' : (k.id = l.id \/ k.path = l.path \/ k.token = l.token) => k = l
          /\ nextId' \in 1 .. (MaxIds + 1) /\ clock' \in 0 .. MaxTime' /\ spoilt' \subseteq Tokens
      BY DEF Base, TypeOK, MaxTime
    <2> QED BY <1>2, <2>1 DEF TypeOK, Ops
  <1>4. ASSUME NEW d \in Clients, d # c PROVE Stage(d, op[d])'
    <2>1. op'[d] = op[d] /\ Stage(d, op[d]) BY <1>1, <1>4 DEF Base
    <2> QED BY <2>1 DEF Stage
  <1>5. Base'
    <2>1. Stage(c, op[c])'
      <3>1. op'[c] = o BY <1>1
      <3> QED BY <3>1 DEF Stage
    <2>2. \A d \in Clients : Stage(d, op[d])' BY <1>4, <2>1
    <2> QED BY <1>3, <2>2 DEF Base
  <1>6. \A d \in Clients : Claims(d)' \subseteq Claims(d)
    <2> SUFFICES ASSUME NEW d \in Clients PROVE Claims(d)' \subseteq Claims(d)
      OBVIOUS
    <2>1. Presented(d)' \subseteq Presented(d) BY DEF Presented
    <2>2. InHand(op'[d]) \subseteq Claims(d) BY <1>1 DEF Claims
    <2> QED BY <2>1, <2>2 DEF Claims
  <1> QED BY <1>5, <1>6 DEF ClaimInv

-----------------------------------------------------------------------------
(* Steps that take away rows that expired.                                 *)

\* A granted lock is not among them.
LEMMA ExpiredGo ==
  ASSUME Base, HoldBacked, locks' \subseteq locks, \A d \in Clients : hold'[d] \subseteq hold[d],
         \A l \in locks : l \notin locks' => l.expiry <= clock,
         UNCHANGED <<clock, spoilt>>
  PROVE  HoldBacked'
  <1> SUFFICES ASSUME NEW d \in Clients, NEW h \in hold'[d], Sure(h)'
               PROVE  \E l \in locks' : l.path = h.path /\ l.token = h.token /\ l.expiry >= h.until
    BY DEF HoldBacked
  <1>1. h \in hold[d] /\ Sure(h) /\ h.until > clock BY DEF Sure, Live
  <1>2. PICK l \in locks : l.path = h.path /\ l.token = h.token /\ l.expiry >= h.until BY <1>1 DEF HoldBacked
  <1>3. h \in Hold /\ l \in LockRow /\ clock \in Nat BY <1>1, Constants DEF Base, TypeOK, MaxTime
  <1>4. ~(l.expiry <= clock) BY <1>1, <1>2, <1>3 DEF Hold, LockRow
  <1> QED BY <1>2, <1>4

LEMMA Found ==
  ASSUME Base, NEW p
  PROVE  /\ GetByPath(p) # NoLock => GetByPath(p) \in locks /\ GetByPath(p).path = p
         /\ \A l \in locks : l.path = p => GetByPath(p) = l
  <1>1. ASSUME NEW l \in locks, l.path = p PROVE GetByPath(p) = l
    <2>1. GetByPath(p) = CHOOSE k \in locks : k.path = p BY <1>1 DEF GetByPath
    <2>2. GetByPath(p) \in locks /\ GetByPath(p).path = p BY <1>1, <2>1
    <2> QED BY <1>1, <2>2 DEF Base, TypeOK
  <1>2. ASSUME GetByPath(p) # NoLock PROVE \E l \in locks : l.path = p BY <1>2 DEF GetByPath
  <1> QED BY <1>1, <1>2

LEMMA KnownToken ==
  ASSUME Base, NEW c \in Clients, NEW h \in hold[c]
  PROVE  h.token \in Claims(c) /\ h \in Hold
  BY DEF Claims, Presented, Base, TypeOK

\* A step of this kind keeps the invariant.
LEMMA Sweeps ==
  ASSUME LocksInv, NEW c \in Clients, NEW o \in Ops, op' = [op EXCEPT ![c] = o],
         locks' \subseteq locks, \A l \in locks : l \notin locks' => l.expiry <= clock,
         exists' \subseteq Names,
         hold' \in [Clients -> SUBSET Hold], \A d \in Clients : hold'[d] \subseteq hold[d],
         UNCHANGED <<nextId, clock, spoilt, scene>>,
         Stage(c, o)', InHand(o) \subseteq Claims(c)
  PROVE  LocksInv'
  <1>1. Base /\ ClaimInv /\ HoldBacked BY DEF LocksInv
  <1>2. Base' /\ ClaimInv' BY <1>1, Shrinks
  <1>3. HoldBacked' BY <1>1, ExpiredGo
  <1> QED BY <1>2, <1>3 DEF LocksInv

LEMMA LockReadKeeps ==
  ASSUME LocksInv, NEW c \in Clients, NEW verb \in Verbs, NEW p \in Paths, LockRead(c, verb, p), UNCHANGED scene
  PROVE  LocksInv'
  <1>0. Base /\ ClaimInv /\ HoldBacked BY DEF LocksInv
  <1>1. UNCHANGED <<exists, locks, nextId, clock, hold, spoilt>> /\ verb \in {"lock", "refresh", "wopiLock"}
    BY DEF LockRead
  <1>l. PICK l : l = GetByPath(p) OBVIOUS
  <1>2. PICK pc \in {"insert", "expire", "refresh"} :
          /\ op' = [op EXCEPT ![c] = [pc |-> pc, verb |-> verb, path |-> p, dst |-> p, row |-> l]]
          /\ pc = "expire" => l # NoLock /\ Expired(l, clock)
          /\ pc = "refresh" => l # NoLock /\ ~Expired(l, clock) /\ Matches(c, verb, l)
    BY <1>l DEF LockRead, Start
  <1> DEFINE o == [pc |-> pc, verb |-> verb, path |-> p, dst |-> p, row |-> l]
  <1>3. l # NoLock => l \in locks /\ l \in LockRow /\ l.id < nextId BY <1>0, <1>l, Found DEF Base, TypeOK
  <1>4. \A k \in locks : k.id = l.id /\ l # NoLock => k = l BY <1>0, <1>3 DEF Base, TypeOK
  <1>5. p \in Names BY <1>0, Constants DEF Base, Paths
  <1>6. l \in LockRow \cup {NoLock} BY <1>3
  <1>7. o \in Ops BY <1>1, <1>5, <1>6 DEF Ops, AllVerbs
  <1>8. ASSUME pc = "refresh" PROVE l.token \in Claims(c) BY <1>2, <1>8 DEF Matches, Claims
  <1>9. InHand(o) \subseteq Claims(c) BY <1>8 DEF InHand
  <1>10. clock \in Nat /\ (l # NoLock => l.expiry \in Nat) BY <1>0, <1>3, Constants DEF Base, TypeOK, MaxTime, LockRow
  <1>11. Stage(c, o)'
    <2>1. CASE pc = "insert" BY <1>1, <2>1 DEF Stage
    <2>2. CASE pc = "expire" BY <1>1, <1>2, <1>3, <1>4, <2>2 DEF Stage, Expired
    <2>3. CASE pc = "refresh" BY <1>1, <1>2, <1>3, <1>4, <1>10, <2>3 DEF Stage, Expired
    <2> QED BY <2>1, <2>2, <2>3
  <1>12. /\ exists' \subseteq Names /\ hold' \in [Clients -> SUBSET Hold]
    BY <1>0, <1>1 DEF Base, TypeOK
  <1> QED BY <1>1, <1>2, <1>7, <1>9, <1>11, <1>12, Sweeps

\* The request ends.
LEMMA LockExpireKeeps ==
  ASSUME LocksInv, NEW c \in Clients, LockExpire(c), UNCHANGED scene
  PROVE  LocksInv'
  <1>0. Base /\ Stage(c, op[c]) /\ op[c] \in Ops BY DEF LocksInv, Base, TypeOK, Ops
  <1>1. op[c].pc = "expire" /\ locks' = {l \in locks : l.id # op[c].row.id}
        /\ UNCHANGED <<exists, nextId, clock, hold, spoilt>>
    BY DEF LockExpire, Delete
  <1>2. \A l \in locks : l \notin locks' => l.expiry <= clock BY <1>0, <1>1 DEF Stage
  <1>3. PICK o \in Ops : op' = [op EXCEPT ![c] = o] /\ o.pc \in {"idle", "insert"}
    <2>1. CASE op' = [op EXCEPT ![c] = Idle] BY <2>1, Constants
    <2>2. CASE op' = [op EXCEPT ![c].pc = "insert"]
      <3>1. [op[c] EXCEPT !.pc = "insert"] \in Ops BY <1>0 DEF Ops
      <3>2. op' = [op EXCEPT ![c] = [op[c] EXCEPT !.pc = "insert"]] BY <2>2
      <3>3. [op[c] EXCEPT !.pc = "insert"].pc = "insert" BY <1>0 DEF Ops
      <3> QED BY <3>1, <3>2, <3>3
    <2> QED BY <2>1, <2>2 DEF LockExpire, Finish
  <1>4. Stage(c, o)' /\ InHand(o) = {} BY <1>3 DEF Stage, InHand
  <1>5. /\ exists' \subseteq Names /\ hold' \in [Clients -> SUBSET Hold]
    BY <1>0, <1>1 DEF Base, TypeOK
  <1> QED BY <1>1, <1>2, <1>3, <1>4, <1>5, Sweeps

LEMMA UnlockReadKeeps ==
  ASSUME LocksInv, NEW c \in Clients, NEW verb \in Verbs, NEW h \in hold[c], UnlockRead(c, verb, h), UNCHANGED scene
  PROVE  LocksInv'
  <1>0. Base /\ op[c] \in Ops BY DEF LocksInv, Base, TypeOK, Ops
  <1>1. PICK l : l = GetByPath(h.path) OBVIOUS
  <1>2. /\ op[c] = Idle /\ verb \in {"unlock", "wopiUnlock"}
        /\ hold' = [hold EXCEPT ![c] = {k \in @ : k.token # h.token}]
        /\ UNCHANGED <<exists, nextId, clock, spoilt>>
        /\ \/ l # NoLock /\ Expired(l, clock) /\ locks' = {k \in locks : k.id # l.id} /\ op' = op
           \/ /\ l # NoLock /\ ~Expired(l, clock) /\ l.token = h.token /\ locks' = locks
              /\ op' = [op EXCEPT ![c] = [pc |-> "unlock", verb |-> verb, path |-> h.path, dst |-> h.path, row |-> l]]
           \/ UNCHANGED <<op, locks>>
    BY <1>1 DEF UnlockRead, Delete, Start
  <1>3. /\ hold' \in [Clients -> SUBSET Hold] /\ \A d \in Clients : hold'[d] \subseteq hold[d]
        /\ hold'[c] = {k \in hold[c] : k.token # h.token}
    BY <1>0, <1>2 DEF Base, TypeOK
  <1>4. exists' \subseteq Names BY <1>0, <1>2 DEF Base, TypeOK
  <1>5. h.token \in Claims(c) /\ h.path \in Names BY <1>0, KnownToken DEF Hold
  <1>6. CASE op' = op
    <2>1. op' = [op EXCEPT ![c] = Idle]
      <3>1. op \in [Clients -> Ops] BY <1>0 DEF Base, TypeOK, Ops
      <3> QED BY <1>2, <1>6, <3>1
    <2>2. locks' \subseteq locks /\ \A k \in locks : k \notin locks' => k.expiry <= clock
      <3>1. CASE l # NoLock /\ Expired(l, clock) /\ locks' = {k \in locks : k.id # l.id}
        <4>1. l \in locks BY <1>0, <1>1, <3>1, Found
        <4>2. \A k \in locks : k.id = l.id => k = l BY <1>0, <4>1 DEF Base, TypeOK
        <4> QED BY <3>1, <4>2 DEF Expired
      <3>2. CASE locks' = locks BY <3>2
      <3> QED BY <1>2, <3>1, <3>2
    <2>3. Stage(c, Idle)' /\ InHand(Idle) = {} /\ Idle \in Ops BY IdleStage, Constants DEF Stage, Idle
    <2> QED BY <1>2, <1>3, <1>4, <2>1, <2>2, <2>3, Sweeps
  <1>7. CASE /\ l # NoLock /\ l.token = h.token /\ locks' = locks
             /\ op' = [op EXCEPT ![c] = [pc |-> "unlock", verb |-> verb, path |-> h.path, dst |-> h.path, row |-> l]]
    <2> DEFINE o == [pc |-> "unlock", verb |-> verb, path |-> h.path, dst |-> h.path, row |-> l]
    <2>1. l \in locks /\ l \in LockRow /\ l.id < nextId BY <1>0, <1>1, <1>7, Found DEF Base, TypeOK
    <2>2. \A k \in locks : k.id = l.id => k = l BY <1>0, <2>1 DEF Base, TypeOK
    <2>3. o \in Ops BY <1>2, <1>5, <2>1 DEF Ops, AllVerbs
    <2>4. InHand(o) \subseteq Claims(c) BY <1>5, <1>7 DEF InHand
    <2>5. Stage(c, o)' BY <1>2, <1>3, <1>7, <2>1, <2>2 DEF Stage
    <2> QED BY <1>2, <1>3, <1>4, <1>7, <2>3, <2>4, <2>5, Sweeps
  <1> QED BY <1>2, <1>6, <1>7

LEMMA UnlockDeleteKeeps ==
  ASSUME LocksInv, NEW c \in Clients, UnlockDelete(c), UNCHANGED scene
  PROVE  LocksInv'
  <1>0. Base /\ ClaimInv /\ HoldBacked /\ Stage(c, op[c]) BY DEF LocksInv, Base
  <1>1. op[c].pc = "unlock" /\ locks' = {l \in locks : l.id # op[c].row.id} /\ op' = [op EXCEPT ![c] = Idle]
        /\ UNCHANGED <<exists, nextId, clock, hold, spoilt>>
    BY DEF UnlockDelete, Delete, Finish
  <1>2. Stage(c, Idle)' /\ InHand(Idle) = {} /\ Idle \in Ops BY IdleStage, Constants DEF Stage, Idle
  <1>3. /\ exists' \subseteq Names /\ hold' \in [Clients -> SUBSET Hold]
    BY <1>0, <1>1 DEF Base, TypeOK
  <1>4. Base' /\ ClaimInv' BY <1>0, <1>1, <1>2, <1>3, Shrinks
  <1>5. HoldBacked'
    <2> SUFFICES ASSUME NEW d \in Clients, NEW h \in hold[d], Sure(h)
                 PROVE  \E l \in locks' : l.path = h.path /\ l.token = h.token /\ l.expiry >= h.until
      BY <1>1 DEF HoldBacked, Sure, Live
    <2>1. PICK l \in locks : l.path = h.path /\ l.token = h.token /\ l.expiry >= h.until BY <1>0 DEF HoldBacked
    <2>2. l.id # op[c].row.id
      <3> SUFFICES ASSUME l.id = op[c].row.id PROVE FALSE
        OBVIOUS
      <3>1. h.token = op[c].row.token BY <1>0, <1>1, <2>1 DEF Stage
      <3>2. d # c BY <1>0, <1>1, <3>1 DEF Stage
      <3>3. h.token \in Claims(d) BY <1>0, KnownToken
      <3>4. h.token \in Claims(c) BY <1>1, <3>1 DEF Claims, InHand
      <3> QED BY <1>0, <3>2, <3>3, <3>4 DEF ClaimInv, Sure
    <2> QED BY <1>1, <2>1, <2>2
  <1> QED BY <1>4, <1>5 DEF LocksInv

-----------------------------------------------------------------------------
(* Checks and acts of writes.                                              *)

\* A check sweeps expired rows only; the request that follows has no row in its hands.
LEMMA CheckKeeps ==
  ASSUME LocksInv, NEW c \in Clients, NEW verb \in AllVerbs, NEW p \in Paths, NEW q \in Paths,
         Start(c, verb, "act", p, q, NoLock),
         locks' \subseteq locks, \A l \in locks : l \notin locks' => Expired(l, clock),
         verb \in {"move", "copy", "wopiRename"} => ~Under(p, q) /\ ~Under(q, p),
         UNCHANGED <<exists, nextId, clock, hold, spoilt, scene>>
  PROVE  LocksInv'
  <1> DEFINE o == [pc |-> "act", verb |-> verb, path |-> p, dst |-> q, row |-> NoLock]
  <1>0. Base BY DEF LocksInv
  <1>1. op' = [op EXCEPT ![c] = o] BY DEF Start
  <1>2. p \in Names /\ q \in Names BY <1>0, Constants DEF Base, Paths
  <1>3. o \in Ops BY <1>2 DEF Ops
  <1>4. Stage(c, o)' /\ InHand(o) = {} BY DEF Stage, InHand
  <1>5. /\ exists' \subseteq Names /\ hold' \in [Clients -> SUBSET Hold] /\ \A l \in locks : l \notin locks' => l.expiry <= clock
    BY <1>0 DEF Base, TypeOK, Expired
  <1> QED BY <1>1, <1>3, <1>4, <1>5, Sweeps

LEMMA CheckWriteKeeps ==
  ASSUME LocksInv, NEW c \in Clients, NEW verb \in Verbs, NEW p \in Paths, CheckWrite(c, verb, p), UNCHANGED scene
  PROVE  LocksInv'
  <1>1. /\ verb \in {"put", "delete"} /\ locks' = locks \ Swept(p) /\ Start(c, verb, "act", p, p, NoLock)
        /\ UNCHANGED <<exists, nextId, clock, hold, spoilt>>
    BY DEF CheckWrite
  <1>2. \A l \in locks : l \notin locks' => Expired(l, clock) BY <1>1 DEF Swept
  <1> QED BY <1>1, <1>2, CheckKeeps DEF AllVerbs

LEMMA CheckMoveKeeps ==
  ASSUME LocksInv, NEW c \in Clients, NEW verb \in Verbs, NEW p \in Paths, NEW q \in Paths, CheckMove(c, verb, p, q),
         UNCHANGED scene
  PROVE  LocksInv'
  <1>1. /\ verb \in {"move", "copy"} /\ Start(c, verb, "act", p, q, NoLock)
        /\ locks' = locks \ ((IF verb = "move" THEN Swept(p) ELSE {}) \cup (IF Exists(q) THEN Swept(q) ELSE {}))
        /\ ~Under(q, p) /\ ~Under(p, q)
        /\ UNCHANGED <<exists, nextId, clock, hold, spoilt>>
    BY DEF CheckMove
  <1>2. \A l \in locks : l \notin locks' => Expired(l, clock) BY <1>1 DEF Swept
  <1> QED BY <1>1, <1>2, CheckKeeps DEF AllVerbs

\* Files are not under one another.
LEMMA FilesApart ==
  ASSUME scene \in Scenes, NEW p \in Paths, NEW q \in Paths, p \notin Dirs, q \notin Dirs, p # q
  PROVE  ~Under(p, q) /\ ~Under(q, p)
  BY DavLocksAssumption DEF Paths, Dirs, Under, IsStrictPrefix

LEMMA CheckWopiKeeps ==
  ASSUME LocksInv, NEW c \in Clients, NEW verb \in Verbs, NEW p \in Paths, NEW q \in Paths, CheckWopi(c, verb, p, q),
         UNCHANGED scene
  PROVE  LocksInv'
  <1>1. /\ verb \in {"wopiPut", "wopiRename", "wopiRelative"} /\ Start(c, verb, "act", p, q, NoLock)
        /\ locks' = locks \/ locks' = locks \ SweptAt(p)
        /\ verb = "wopiRename" => p # q
        /\ p \notin Dirs /\ q \notin Dirs
        /\ UNCHANGED <<exists, nextId, clock, hold, spoilt>>
    BY DEF CheckWopi
  <1>2. \A l \in locks : l \notin locks' => Expired(l, clock) BY <1>1 DEF SweptAt
  <1>3. verb \in {"move", "copy", "wopiRename"} => ~Under(p, q) /\ ~Under(q, p)
    BY <1>1, FilesApart DEF LocksInv, Base
  <1> QED BY <1>1, <1>2, <1>3, CheckKeeps DEF AllVerbs

\* Locks on what is deleted.
LEMMA Voided ==
  ASSUME Base, NEW p
  PROVE  /\ Void(hold, p) \in [Clients -> SUBSET Hold]
         /\ \A d \in Clients : Void(hold, p)[d] \subseteq hold[d] /\ \A h \in Void(hold, p)[d] : ~Under(h.path, p)
  BY DEF Void, Base, TypeOK

LEMMA ActWriteKeeps ==
  ASSUME LocksInv, NEW c \in Clients, ActWrite(c) \/ Abort(c), UNCHANGED scene
  PROVE  LocksInv'
  <1>0. Base /\ op[c].dst \in Names BY DEF LocksInv, Base, TypeOK
  <1>1. /\ op' = [op EXCEPT ![c] = Idle] /\ exists' \subseteq exists \cup {op[c].dst}
        /\ UNCHANGED <<locks, nextId, clock, hold, spoilt>>
    BY DEF ActWrite, Abort, Finish
  <1>2. Stage(c, Idle)' /\ InHand(Idle) = {} /\ Idle \in Ops BY IdleStage, Constants DEF Stage, Idle
  <1>3. /\ exists' \subseteq Names /\ hold' \in [Clients -> SUBSET Hold]
    BY <1>0, <1>1 DEF Base, TypeOK
  <1> QED BY <1>1, <1>2, <1>3, Sweeps

LEMMA ActDeleteKeeps ==
  ASSUME LocksInv, NEW c \in Clients, ActDelete(c), UNCHANGED scene
  PROVE  LocksInv'
  <1>0. Base /\ op[c] \in Ops BY DEF LocksInv, Base, TypeOK, Ops
  <1>1. /\ op[c].verb = "delete" /\ exists' \subseteq exists
        /\ hold' = hold \/ hold' = Void(hold, op[c].path)
        /\ op' = [op EXCEPT ![c] = Idle] \/ op' = [op EXCEPT ![c] = [op[c] EXCEPT !.pc = "sideTables"]]
        /\ UNCHANGED <<locks, nextId, clock, spoilt>>
    BY DEF ActDelete, Finish
  <1>2. PICK o \in Ops : /\ op' = [op EXCEPT ![c] = o] /\ o.pc \in {"idle", "sideTables"}
                         /\ o.pc = "sideTables" => o.verb = "delete"
    <2>1. [op[c] EXCEPT !.pc = "sideTables"] \in Ops /\ [op[c] EXCEPT !.pc = "sideTables"].verb = "delete"
          /\ [op[c] EXCEPT !.pc = "sideTables"].pc = "sideTables"
      BY <1>0, <1>1 DEF Ops
    <2> QED BY <1>1, <2>1, Constants
  <1>3. Stage(c, o)' /\ InHand(o) = {} BY <1>2 DEF Stage, InHand
  <1>4. exists' \subseteq Names /\ hold' \in [Clients -> SUBSET Hold] /\ \A d \in Clients : hold'[d] \subseteq hold[d]
    BY <1>0, <1>1, Voided DEF Base, TypeOK
  <1> QED BY <1>1, <1>2, <1>3, <1>4, Sweeps

\* Rows under a path go, and so do the locks clients were told of there.
LEMMA VoidedBacked ==
  ASSUME Base, HoldBacked, NEW p, locks' = DeleteByPath(p), hold' = Void(hold, p), UNCHANGED <<clock, spoilt>>
  PROVE  HoldBacked'
  <1> SUFFICES ASSUME NEW d \in Clients, NEW h \in hold'[d], Sure(h)'
               PROVE  \E l \in locks' : l.path = h.path /\ l.token = h.token /\ l.expiry >= h.until
    BY DEF HoldBacked
  <1>1. h \in hold[d] /\ ~Under(h.path, p) /\ Sure(h) BY Voided DEF Sure, Live
  <1>2. PICK l \in locks : l.path = h.path /\ l.token = h.token /\ l.expiry >= h.until BY <1>1 DEF HoldBacked
  <1> QED BY <1>1, <1>2 DEF DeleteByPath

LEMMA ActMoveKeeps ==
  ASSUME LocksInv, NEW c \in Clients, ActMove(c), UNCHANGED scene
  PROVE  LocksInv'
  <1>0. Base /\ ClaimInv /\ HoldBacked /\ Stage(c, op[c]) /\ op[c] \in Ops /\ op \in [Clients -> Ops]
    BY DEF LocksInv, Base, TypeOK, Ops
  <1> DEFINE p == op[c].path
             q == op[c].dst
  <1>1. /\ op[c].pc = "act" /\ op[c].verb \in {"move", "copy", "wopiRename"}
        /\ UNCHANGED <<nextId, clock, spoilt>>
        /\ \/ /\ exists' = {x \in exists : ~Under(x, q) /\ (Under(x, p) => op[c].verb = "copy")}
                             \cup {Rebase(x, p, q) : x \in {y \in exists : Under(y, p)}}
              /\ \/ locks' = DeleteByPath(q) /\ hold' = Void(hold, q)
                 \/ UNCHANGED <<locks, hold>>
              /\ \/ op[c].verb = "copy" /\ op' = [op EXCEPT ![c] = Idle]
                 \/ op[c].verb # "copy" /\ op' = [op EXCEPT ![c] = [op[c] EXCEPT !.pc = "sideTables"]]
           \/ op' = [op EXCEPT ![c] = Idle] /\ UNCHANGED <<exists, locks, hold>>
    BY DEF ActMove, Finish
  <1>2. PICK o \in Ops : /\ op' = [op EXCEPT ![c] = o] /\ o.pc \in {"idle", "sideTables"}
                         /\ o.pc = "sideTables" =>
                              o.verb \in {"move", "wopiRename"} /\ ~Under(o.path, o.dst) /\ ~Under(o.dst, o.path)
    <2> DEFINE s == [op[c] EXCEPT !.pc = "sideTables"]
    <2>1. s \in Ops /\ s.verb = op[c].verb /\ s.pc = "sideTables" /\ s.path = p /\ s.dst = q
      BY <1>0, <1>1 DEF Ops
    <2>2. ~Under(p, q) /\ ~Under(q, p) BY <1>0, <1>1 DEF Stage
    <2> QED BY <1>1, <2>1, <2>2, Constants
  <1>3. p \in Names /\ q \in Names /\ exists \subseteq Names BY <1>0 DEF Ops, Base, TypeOK
  <1>4. exists' \subseteq Names
    <2>1. \A x \in exists : Under(x, p) => Rebase(x, p, q) \in Names BY <1>3, Rebased
    <2> QED BY <1>1, <1>3, <2>1
  <1>5. locks' \subseteq locks /\ hold' \in [Clients -> SUBSET Hold] /\ \A d \in Clients : hold'[d] \subseteq hold[d]
    BY <1>0, <1>1, Voided DEF DeleteByPath, Base, TypeOK
  <1>6. Stage(c, o)' /\ InHand(o) = {} BY <1>2 DEF Stage, InHand
  <1>7. Base' /\ ClaimInv' BY <1>0, <1>1, <1>2, <1>4, <1>5, <1>6, Shrinks
  <1>8. HoldBacked'
    <2>1. CASE locks' = DeleteByPath(q) /\ hold' = Void(hold, q) BY <1>0, <1>1, <2>1, VoidedBacked
    <2>2. CASE UNCHANGED <<locks, hold>> BY <1>0, <1>1, <2>2 DEF HoldBacked, Sure, Live
    <2> QED BY <1>1, <2>1, <2>2
  <1> QED BY <1>7, <1>8 DEF LocksInv

\* RenamePath moves some of the rows under a path, each to a path nobody has.
LEMMA RenamedTable ==
  ASSUME locks \subseteq LockRow, Unique(locks), NEW src \in Names, NEW dst \in Names,
         ~Under(src, dst), ~Under(dst, src)
  PROVE  /\ RenamePath(src, dst) \subseteq LockRow /\ Unique(RenamePath(src, dst))
         /\ \A n \in RenamePath(src, dst) : \E l \in locks :
              n.id = l.id /\ n.token = l.token /\ n.expiry = l.expiry
         /\ \A l \in locks : \E n \in RenamePath(src, dst) :
              /\ n.id = l.id /\ n.token = l.token /\ n.expiry = l.expiry
              /\ n.path = l.path \/ (Under(l.path, src) /\ n.path = Rebase(l.path, src, dst))
  <1> DEFINE moved == {l \in locks : Under(l.path, src)}
             taken(l) == \E k \in locks \ moved : k.path = Rebase(l.path, src, dst)
             done == {l \in moved : \A k \in moved : taken(k) => Len(k.path) > Len(l.path)}
             new(l) == [l EXCEPT !.path = Rebase(@, src, dst)]
             N == (locks \ done) \cup {new(l) : l \in done}
  <1>1. RenamePath(src, dst) = N BY DEF RenamePath
  <1>2. ASSUME NEW l \in done
        PROVE  /\ l \in locks /\ Under(l.path, src) /\ l \in LockRow /\ l.path \in Names
               /\ ~taken(l)
               /\ new(l) \in LockRow /\ new(l).id = l.id /\ new(l).token = l.token /\ new(l).expiry = l.expiry
               /\ new(l).path = Rebase(l.path, src, dst) /\ Under(new(l).path, dst)
    <2>1. l \in moved /\ l \in locks /\ Under(l.path, src) /\ l \in LockRow /\ l.path \in Names BY DEF LockRow
    <2>2. ~taken(l)
      <3>1. taken(l) => Len(l.path) > Len(l.path) BY <2>1
      <3>2. Len(l.path) \in Nat BY <2>1 DEF Names
      <3> QED BY <3>1, <3>2
    <2>3. Rebase(l.path, src, dst) \in Names /\ Under(Rebase(l.path, src, dst), dst) BY <2>1, Rebased
    <2>4. /\ new(l) \in LockRow /\ new(l).id = l.id /\ new(l).token = l.token /\ new(l).expiry = l.expiry
          /\ new(l).path = Rebase(l.path, src, dst)
      BY <2>1, <2>3 DEF LockRow
    <2> QED BY <2>1, <2>2, <2>3, <2>4
  <1>3. ASSUME NEW l \in done, NEW k \in locks \ done PROVE new(l).path # k.path
    <2>1. CASE k \in moved
      <3>1. Under(k.path, src) /\ k.path \in Names BY <2>1 DEF LockRow
      <3>2. ~Under(k.path, dst) BY <3>1, DirsCompare
      <3> QED BY <1>2, <3>2
    <2>2. CASE k \notin moved BY <1>2, <2>2
    <2> QED BY <2>1, <2>2
  <1>4. ASSUME NEW l \in done, NEW k \in done, new(l).path = new(k).path PROVE l = k
    <2>1. l.path = k.path
      <3>1. Rebase(l.path, src, dst) = Rebase(k.path, src, dst) BY <1>2, <1>4
      <3> QED BY <1>2, <3>1, RebaseApart
    <2> QED BY <1>2, <2>1 DEF Unique
  <1> HIDE DEF new, done, moved, taken
  <1>5. done \subseteq locks BY <1>2
  <1>6. N \subseteq LockRow BY <1>2
  <1>7. Unique(N)
    <2> SUFFICES ASSUME NEW k \in N, NEW l \in N, k.id = l.id \/ k.path = l.path \/ k.token = l.token PROVE k = l
      BY DEF Unique
    <2>1. CASE k \in locks \ done /\ l \in locks \ done BY <2>1 DEF Unique
    <2>2. ASSUME NEW a \in done, NEW b \in locks \ done
          PROVE  new(a).id # b.id /\ new(a).path # b.path /\ new(a).token # b.token
      <3>1. a # b /\ a \in locks BY <1>5
      <3>2. a.id # b.id /\ a.token # b.token BY <3>1 DEF Unique
      <3> QED BY <1>2, <1>3, <3>2
    <2>3. ASSUME NEW a \in done, NEW b \in done,
                 new(a).id = new(b).id \/ new(a).path = new(b).path \/ new(a).token = new(b).token
          PROVE  a = b
      <3>1. a \in locks /\ b \in locks BY <1>5
      <3>2. a.id = b.id \/ a.token = b.token \/ a = b BY <1>2, <1>4, <2>3
      <3> QED BY <3>1, <3>2 DEF Unique
    <2> QED BY <2>1, <2>2, <2>3
  <1>8. ASSUME NEW n \in N PROVE \E l \in locks : n.id = l.id /\ n.token = l.token /\ n.expiry = l.expiry
    <2>1. CASE n \in locks BY <2>1
    <2>2. ASSUME NEW l \in done, n = new(l)
          PROVE  \E k \in locks : n.id = k.id /\ n.token = k.token /\ n.expiry = k.expiry
      BY <1>2, <1>5, <2>2
    <2> QED BY <2>1, <2>2
  <1>9. ASSUME NEW l \in locks
        PROVE  \E n \in N : /\ n.id = l.id /\ n.token = l.token /\ n.expiry = l.expiry
                            /\ n.path = l.path \/ (Under(l.path, src) /\ n.path = Rebase(l.path, src, dst))
    <2>1. CASE l \in done
      <3>1. new(l) \in N BY <2>1
      <3> QED BY <1>2, <2>1, <3>1
    <2>2. CASE l \notin done BY <2>2
    <2> QED BY <2>1, <2>2
  <1> QED BY <1>1, <1>6, <1>7, <1>8, <1>9

LEMMA ActLocksKeeps ==
  ASSUME LocksInv, NEW c \in Clients, ActLocks(c), UNCHANGED scene
  PROVE  LocksInv'
  <1>0. Base /\ ClaimInv /\ HoldBacked /\ Stage(c, op[c]) /\ op[c] \in Ops /\ op \in [Clients -> Ops]
    BY DEF LocksInv, Base, TypeOK, Ops
  <1> DEFINE p == op[c].path
             q == op[c].dst
  <1>1. op[c].pc = "sideTables" /\ op' = [op EXCEPT ![c] = Idle] /\ UNCHANGED <<exists, nextId, clock, spoilt>>
    BY DEF ActLocks, Finish
  <1>2. Stage(c, Idle)' /\ InHand(Idle) = {} /\ Idle \in Ops BY IdleStage, Constants DEF Stage, Idle
  <1>3. p \in Names /\ q \in Names /\ exists' \subseteq Names BY <1>0, <1>1 DEF Ops, Base, TypeOK
  <1>4. CASE op[c].verb = "delete"
    <2>1. locks' = DeleteByPath(p) /\ hold' = Void(hold, p) BY <1>4 DEF ActLocks
    <2>2. locks' \subseteq locks /\ hold' \in [Clients -> SUBSET Hold] /\ \A d \in Clients : hold'[d] \subseteq hold[d]
      BY <1>0, <2>1, Voided DEF DeleteByPath
    <2>3. Base' /\ ClaimInv' BY <1>0, <1>1, <1>2, <1>3, <2>2, Shrinks
    <2>4. HoldBacked' BY <1>0, <1>1, <2>1, VoidedBacked
    <2> QED BY <2>3, <2>4 DEF LocksInv
  <1>5. CASE op[c].verb # "delete"
    <2>1. ~Under(p, q) /\ ~Under(q, p) BY <1>0, <1>1, <1>5 DEF Stage
    <2>2. /\ locks' = RenamePath(p, q)
          /\ hold' = [d \in Clients |->
               {IF Under(h.path, p) /\ \E l \in locks' : l.token = h.token /\ l.path = Rebase(h.path, p, q)
                THEN [h EXCEPT !.path = Rebase(@, p, q)] ELSE h : h \in hold[d]}]
      BY <1>5 DEF ActLocks
    <2>3. /\ locks' \subseteq LockRow /\ Unique(locks')
          /\ \A n \in locks' : \E l \in locks : n.id = l.id /\ n.token = l.token /\ n.expiry = l.expiry
          /\ \A l \in locks : \E n \in locks' :
               /\ n.id = l.id /\ n.token = l.token /\ n.expiry = l.expiry
               /\ n.path = l.path \/ (Under(l.path, p) /\ n.path = Rebase(l.path, p, q))
      <3>1. locks \subseteq LockRow /\ Unique(locks) BY <1>0 DEF Base, TypeOK, Unique
      <3> QED BY <1>3, <2>1, <2>2, <3>1, RenamedTable
    <2>4. ASSUME NEW d \in Clients, NEW h \in hold[d]
          PROVE  /\ h \in Hold /\ h.path \in Names
                 /\ Under(h.path, p) => /\ [h EXCEPT !.path = Rebase(@, p, q)] \in Hold
                                        /\ [h EXCEPT !.path = Rebase(@, p, q)].path = Rebase(h.path, p, q)
                                        /\ [h EXCEPT !.path = Rebase(@, p, q)].token = h.token
                                        /\ [h EXCEPT !.path = Rebase(@, p, q)].until = h.until
                                        /\ [h EXCEPT !.path = Rebase(@, p, q)].own = h.own
      <3>1. h \in Hold /\ h.path \in Names BY <1>0 DEF Base, TypeOK, Hold
      <3>2. Under(h.path, p) => Rebase(h.path, p, q) \in Names BY <1>3, <3>1, Rebased
      <3> QED BY <3>1, <3>2 DEF Hold
    <2>5. hold' \in [Clients -> SUBSET Hold]
      <3>1. ASSUME NEW d \in Clients, NEW g \in hold'[d] PROVE g \in Hold
        <4>1. PICK h \in hold[d] :
                g = IF Under(h.path, p) /\ \E l \in locks' : l.token = h.token /\ l.path = Rebase(h.path, p, q)
                    THEN [h EXCEPT !.path = Rebase(@, p, q)] ELSE h
          BY <2>2
        <4> QED BY <2>4, <4>1
      <3> QED BY <2>2, <3>1
    \* Each lock a client is said to have was one before.
    <2>6. ASSUME NEW d \in Clients, NEW g \in hold'[d]
          PROVE  \E h \in hold[d] :
                   /\ g.token = h.token /\ g.until = h.until /\ g.own = h.own
                   /\ g.path = IF Under(h.path, p) /\ \E l \in locks' : l.token = h.token /\ l.path = Rebase(h.path, p, q)
                               THEN Rebase(h.path, p, q) ELSE h.path
      <3>1. PICK h \in hold[d] :
              g = IF Under(h.path, p) /\ \E l \in locks' : l.token = h.token /\ l.path = Rebase(h.path, p, q)
                  THEN [h EXCEPT !.path = Rebase(@, p, q)] ELSE h
        BY <2>2
      <3> QED BY <2>4, <3>1
    <2>7. \A d \in Clients : op'[d] = IF d = c THEN Idle ELSE op[d] BY <1>0, <1>1
    <2>8. TypeOK'
      <3>1. op' \in [Clients -> Ops] BY <1>0, <1>1, <1>2
      <3>2. /\ nextId' \in 1 .. (MaxIds + 1) /\ clock' \in 0 .. MaxTime' /\ spoilt' \subseteq Tokens
        BY <1>0, <1>1 DEF Base, TypeOK, MaxTime
      <3> QED BY <1>3, <2>3, <2>5, <3>1, <3>2 DEF TypeOK, Ops, Unique
    <2>9. ASSUME NEW d \in Clients PROVE Stage(d, op[d])'
      <3>1. CASE d = c BY <1>2, <2>7, <3>1 DEF Stage
      <3>2. CASE d # c
        <4>1. op'[d] = op[d] /\ Stage(d, op[d]) BY <1>0, <2>7, <3>2 DEF Base
        <4>2. \A l \in locks' : op[d].pc \in {"expire", "refresh", "unlock"} /\ l.id = op[d].row.id =>
                /\ op[d].pc = "expire" => l.expiry <= clock
                /\ op[d].pc = "refresh" => l.expiry > clock
                /\ l.token = op[d].row.token
          BY <2>3, <4>1 DEF Stage
        <4>3. op[d].pc = "unlock" => \A h \in hold'[d] : h.token # op[d].row.token BY <2>6, <4>1 DEF Stage
        <4> QED BY <1>1, <4>1, <4>2, <4>3 DEF Stage
      <3> QED BY <3>1, <3>2
    <2>10. Base'
      <3>1. \A n \in locks' : n.id < nextId /\ n.expiry <= clock + TTL /\ (n.token \in Nat => n.token < nextId)
        BY <1>0, <2>3 DEF Base
      <3> QED BY <1>0, <1>1, <2>8, <2>9, <3>1 DEF Base
    <2>11. ClaimInv'
      <3>1. ASSUME NEW d \in Clients PROVE Claims(d)' \subseteq Claims(d)
        <4>1. Presented(d)' \subseteq Presented(d) BY <2>6 DEF Presented
        <4>2. InHand(op'[d]) \subseteq Claims(d) BY <1>2, <2>7 DEF Claims
        <4> QED BY <4>1, <4>2 DEF Claims
      <3> QED BY <1>0, <1>1, <3>1 DEF ClaimInv
    <2>12. HoldBacked'
      <3> SUFFICES ASSUME NEW d \in Clients, NEW g \in hold'[d], Sure(g)'
                   PROVE  \E l \in locks' : l.path = g.path /\ l.token = g.token /\ l.expiry >= g.until
        BY DEF HoldBacked
      <3>1. PICK h \in hold[d] :
              /\ g.token = h.token /\ g.until = h.until /\ g.own = h.own
              /\ g.path = IF Under(h.path, p) /\ \E l \in locks' : l.token = h.token /\ l.path = Rebase(h.path, p, q)
                          THEN Rebase(h.path, p, q) ELSE h.path
        BY <2>6
      <3>2. Sure(h) BY <1>1, <3>1 DEF Sure, Live
      <3>3. PICK l \in locks : l.path = h.path /\ l.token = h.token /\ l.expiry >= h.until BY <1>0, <3>2 DEF HoldBacked
      <3>4. PICK n \in locks' :
              /\ n.id = l.id /\ n.token = l.token /\ n.expiry = l.expiry
              /\ n.path = l.path \/ (Under(l.path, p) /\ n.path = Rebase(l.path, p, q))
        BY <2>3
      <3>5. \A m \in locks' : m.token = h.token => m = n BY <2>3, <3>3, <3>4 DEF Unique
      <3>6. n.path = g.path BY <3>1, <3>3, <3>4, <3>5
      <3> QED BY <3>1, <3>3, <3>4, <3>6
    <2> QED BY <2>10, <2>11, <2>12 DEF LocksInv
  <1> QED BY <1>4, <1>5

-----------------------------------------------------------------------------
(* Locking, and time.                                                      *)

LEMMA LockRefreshKeeps ==
  ASSUME LocksInv, NEW c \in Clients, LockRefresh(c), UNCHANGED scene
  PROVE  LocksInv'
  <1>0. Base /\ ClaimInv /\ HoldBacked /\ Stage(c, op[c]) /\ op[c] \in Ops /\ op \in [Clients -> Ops]
    BY DEF LocksInv, Base, TypeOK, Ops
  <1>t. clock \in Nat /\ TTL \in Nat /\ clock + TTL \in Nat /\ clock < clock + TTL
    BY <1>0, Constants DEF Base, TypeOK, MaxTime
  <1>1. PICK r \in LockRow : r = op[c].row /\ op[c].pc = "refresh" /\ r.id < nextId
    BY <1>0 DEF LockRefresh, Stage
  <1>2. PICK kept \in BOOLEAN : kept = \E k \in locks : k.id = r.id /\ k.path = r.path OBVIOUS
  <1> DEFINE mine == [path |-> r.path, token |-> r.token, until |-> clock + TTL, own |-> kept]
             up(l) == IF l.id = r.id THEN [l EXCEPT !.expiry = clock + TTL] ELSE l
  <1>3. /\ locks' = {up(l) : l \in locks}
        /\ hold' = [hold EXCEPT ![c] = {h \in @ : h.token # r.token} \cup {mine}]
        /\ op' = [op EXCEPT ![c] = Idle] /\ UNCHANGED <<exists, nextId, clock, spoilt>>
    BY <1>1, <1>2 DEF LockRefresh, UpdateTimeout, Finish
  <1>4. mine \in Hold /\ mine.token = r.token /\ mine.path = r.path /\ mine.until = clock + TTL /\ mine.own = kept
    BY <1>1, <1>2, <1>t DEF Hold, LockRow
  <1>5. ASSUME NEW l \in locks
        PROVE  /\ up(l) \in LockRow /\ up(l).id = l.id /\ up(l).path = l.path /\ up(l).token = l.token
               /\ up(l).expiry = IF l.id = r.id THEN clock + TTL ELSE l.expiry
    BY <1>0, <1>t DEF Base, TypeOK, LockRow
  <1> HIDE DEF up, mine
  <1>6. /\ hold' \in [Clients -> SUBSET Hold]
        /\ \A d \in Clients : hold'[d] = IF d = c THEN {h \in hold[c] : h.token # r.token} \cup {mine} ELSE hold[d]
    BY <1>0, <1>3, <1>4 DEF Base, TypeOK
  <1>7. \A d \in Clients : op'[d] = IF d = c THEN Idle ELSE op[d] BY <1>0, <1>3
  <1>8. locks' \subseteq LockRow /\ Unique(locks')
    <2>1. locks' \subseteq LockRow BY <1>3, <1>5
    <2>2. ASSUME NEW a \in locks, NEW b \in locks,
                 up(a).id = up(b).id \/ up(a).path = up(b).path \/ up(a).token = up(b).token
          PROVE  up(a) = up(b)
      <3>1. a.id = b.id \/ a.path = b.path \/ a.token = b.token BY <1>5, <2>2
      <3>2. a = b BY <1>0, <3>1 DEF Base, TypeOK
      <3> QED BY <3>2
    <2> QED BY <1>3, <2>1, <2>2 DEF Unique
  <1>9. TypeOK'
    <2>1. op' \in [Clients -> Ops] BY <1>0, <1>3, Constants
    <2>2. /\ exists' \subseteq Names /\ nextId' \in 1 .. (MaxIds + 1) /\ clock' \in 0 .. MaxTime' /\ spoilt' \subseteq Tokens
      BY <1>0, <1>3 DEF Base, TypeOK, MaxTime
    <2> QED BY <1>6, <1>8, <2>1, <2>2 DEF TypeOK, Ops, Unique
  <1>10. ASSUME NEW d \in Clients PROVE Stage(d, op[d])'
    <2>1. CASE d = c
      <3>1. op'[d] = Idle BY <1>7, <2>1
      <3> QED BY <3>1 DEF Stage, Idle
    <2>2. CASE d # c
      <3>1. op'[d] = op[d] /\ Stage(d, op[d]) /\ hold'[d] = hold[d] BY <1>0, <1>6, <1>7, <2>2 DEF Base
      <3>2. ASSUME NEW l \in locks, op[d].pc \in {"expire", "refresh", "unlock"}, l.id = op[d].row.id
            PROVE  /\ op[d].pc = "expire" => up(l).expiry <= clock
                   /\ op[d].pc = "refresh" => up(l).expiry > clock
                   /\ up(l).token = op[d].row.token
        \* What this request found unexpired another cannot have found expired.
        <4>1. l.id = r.id => l.expiry > clock BY <1>0, <1>1 DEF Stage
        <4>2. /\ op[d].pc = "expire" => l.expiry <= clock
              /\ op[d].pc = "refresh" => l.expiry > clock
              /\ l.token = op[d].row.token
          BY <3>1, <3>2 DEF Stage
        <4>3. l.expiry \in Nat BY <1>0 DEF Base, TypeOK, LockRow
        <4> QED BY <1>5, <1>t, <4>1, <4>2, <4>3
      <3>3. \A n \in locks' : op[d].pc \in {"expire", "refresh", "unlock"} /\ n.id = op[d].row.id =>
              /\ op[d].pc = "expire" => n.expiry <= clock
              /\ op[d].pc = "refresh" => n.expiry > clock
              /\ n.token = op[d].row.token
        BY <1>3, <1>5, <3>2
      <3> QED BY <1>3, <3>1, <3>3 DEF Stage
    <2> QED BY <2>1, <2>2
  <1>11. Base'
    <2>1. ASSUME NEW l \in locks
          PROVE  up(l).id < nextId /\ up(l).expiry <= clock + TTL /\ (up(l).token \in Nat => up(l).token < nextId)
      BY <1>0, <1>t, <1>5 DEF Base
    <2>2. \A n \in locks' : n.id < nextId /\ n.expiry <= clock + TTL /\ (n.token \in Nat => n.token < nextId)
      BY <1>3, <2>1
    <2> QED BY <1>0, <1>3, <1>9, <1>10, <2>2 DEF Base
  <1>12. ClaimInv'
    <2>1. r.token \in Claims(c) BY <1>1 DEF Claims, InHand
    <2>2. ASSUME NEW d \in Clients PROVE Claims(d)' \subseteq Claims(d)
      <3>1. Presented(d)' \subseteq Claims(d) BY <1>4, <1>6, <2>1 DEF Presented, Claims
      <3>2. InHand(op'[d]) \subseteq Claims(d) BY <1>7, Constants DEF Claims
      <3> QED BY <3>1, <3>2 DEF Claims
    <2> QED BY <1>0, <1>3, <2>2 DEF ClaimInv
  <1>13. HoldBacked'
    <2> SUFFICES ASSUME NEW d \in Clients, NEW h \in hold'[d], Sure(h)'
                 PROVE  \E l \in locks' : l.path = h.path /\ l.token = h.token /\ l.expiry >= h.until
      BY DEF HoldBacked
    <2>1. CASE d = c /\ h = mine
      <3>1. PICK l \in locks : l.id = r.id /\ l.path = r.path BY <1>2, <1>4, <2>1 DEF Sure
      <3>2. l.token = r.token BY <1>0, <1>1, <3>1 DEF Stage
      <3>3. up(l) \in locks' /\ up(l).path = r.path /\ up(l).token = r.token /\ up(l).expiry = clock + TTL
        BY <1>3, <1>5, <3>1, <3>2
      <3> QED BY <1>4, <1>t, <2>1, <3>3
    <2>2. CASE h \in hold[d]
      <3>1. Sure(h) /\ h \in Hold BY <1>0, <1>3, <2>2, KnownToken DEF Sure, Live
      <3>2. PICK l \in locks : l.path = h.path /\ l.token = h.token /\ l.expiry >= h.until
        BY <1>0, <2>2, <3>1 DEF HoldBacked
      <3>3. l.expiry \in Nat /\ l.expiry <= clock + TTL /\ h.until \in Nat BY <1>0, <3>1 DEF Base, TypeOK, LockRow, Hold
      <3>4. up(l) \in locks' /\ up(l).path = h.path /\ up(l).token = h.token /\ up(l).expiry >= h.until
        BY <1>3, <1>5, <1>t, <3>2, <3>3
      <3> QED BY <3>4
    <2> QED BY <1>6, <2>1, <2>2
  <1> QED BY <1>11, <1>12, <1>13 DEF LocksInv

LEMMA LockInsertKeeps ==
  ASSUME LocksInv, NEW c \in Clients, LockInsert(c), UNCHANGED scene
  PROVE  LocksInv'
  <1>0. Base /\ ClaimInv /\ HoldBacked /\ op[c] \in Ops /\ op \in [Clients -> Ops]
    BY DEF LocksInv, Base, TypeOK, Ops
  <1>t. clock \in Nat /\ TTL \in Nat /\ clock + TTL \in Nat /\ nextId \in Nat /\ nextId >= 1 /\ MaxIds \in Nat
    BY <1>0, Constants DEF Base, TypeOK, MaxTime
  <1>1. CASE op' = [op EXCEPT ![c] = Idle] /\ UNCHANGED <<locks, nextId, exists, clock, hold, spoilt>>
    <2>1. Stage(c, Idle)' /\ InHand(Idle) = {} /\ Idle \in Ops BY IdleStage, Constants DEF Stage, Idle
    <2>2. exists' \subseteq Names /\ hold' \in [Clients -> SUBSET Hold] BY <1>0, <1>1 DEF Base, TypeOK
    <2> QED BY <1>1, <2>1, <2>2, Sweeps
  <1>2. ASSUME NEW r, NEW t,
               t \in {c, nextId}, \A l \in locks : l.path # op[c].path /\ l.token # t, nextId <= MaxIds,
               r = [id |-> nextId, path |-> op[c].path, token |-> t, expiry |-> clock + TTL],
               locks' = locks \cup {r}, op' = [op EXCEPT ![c] = [op[c] EXCEPT !.pc = "readback", !.row = r]],
               nextId' = nextId + 1, UNCHANGED <<exists, clock, hold, spoilt>>
        PROVE  LocksInv'
    <2>1. r \in LockRow /\ r.id = nextId /\ r.path = op[c].path /\ r.token = t /\ r.expiry = clock + TTL
      <3>1. t \in Tokens BY <1>2, <1>t DEF Tokens
      <3>2. op[c].path \in Names BY <1>0 DEF Ops
      <3> QED BY <1>2, <1>t, <3>1, <3>2 DEF LockRow
    <2> DEFINE o == [op[c] EXCEPT !.pc = "readback", !.row = r]
    <2>2. o \in Ops /\ o.pc = "readback" /\ o.row = r BY <1>0, <2>1 DEF Ops
    <2>3. \A d \in Clients : op'[d] = IF d = c THEN o ELSE op[d] BY <1>0, <1>2
    <2>4. locks' \subseteq LockRow /\ Unique(locks')
      <3>1. \A l \in locks : l.id # nextId /\ l \in LockRow BY <1>0, <1>t DEF Base, TypeOK, LockRow
      <3> QED BY <1>0, <1>2, <2>1, <3>1 DEF Unique, Base, TypeOK
    <2>5. TypeOK'
      <3>1. op' \in [Clients -> Ops] BY <1>0, <1>2, <2>2
      <3>2. /\ exists' \subseteq Names /\ nextId' \in 1 .. (MaxIds + 1) /\ clock' \in 0 .. MaxTime' /\ spoilt' \subseteq Tokens
            /\ hold' \in [Clients -> SUBSET Hold]
        BY <1>0, <1>2, <1>t DEF Base, TypeOK, MaxTime
      <3> QED BY <2>4, <3>1, <3>2 DEF TypeOK, Ops, Unique
    <2>6. ASSUME NEW d \in Clients PROVE Stage(d, op[d])'
      <3>1. CASE d = c
        <4>1. op'[d] = o BY <2>3, <3>1
        <4>2. r.id < nextId' BY <1>2, <1>t, <2>1
        <4> QED BY <2>1, <2>2, <4>1, <4>2 DEF Stage
      <3>2. CASE d # c
        <4>1. op'[d] = op[d] /\ Stage(d, op[d]) BY <1>0, <2>3, <3>2 DEF Base
        <4>2. op[d].pc \in {"expire", "refresh", "readback", "unlock"} =>
                op[d].row \in LockRow /\ op[d].row.id < nextId' /\ r.id # op[d].row.id
          BY <1>2, <1>t, <2>1, <4>1 DEF Stage, LockRow
        <4> QED BY <1>2, <4>1, <4>2 DEF Stage
      <3> QED BY <3>1, <3>2
    <2>7. Base'
      <3>1. ASSUME NEW l \in locks
            PROVE  l.id < nextId' /\ l.expiry <= clock + TTL /\ (l.token \in Nat => l.token < nextId')
        <4>1. l.id < nextId /\ l.expiry <= clock + TTL /\ (l.token \in Nat => l.token < nextId) /\ l.id \in Nat
          BY <1>0, Constants DEF Base, TypeOK, LockRow
        <4> QED BY <1>2, <1>t, <4>1
      <3>2. r.id < nextId' /\ r.expiry <= clock + TTL /\ (r.token \in Nat => r.token < nextId')
        BY <1>2, <1>t, <2>1, Constants
      <3> QED BY <1>0, <1>2, <2>5, <2>6, <3>1, <3>2 DEF Base
    <2>8. ASSUME NEW d \in Clients PROVE Claims(d)' \subseteq Claims(d) \cup (IF d = c THEN {t} ELSE {})
      <3>1. Presented(d)' = Presented(d) BY <1>2 DEF Presented
      <3>2. InHand(op'[d]) \subseteq Claims(d) \cup (IF d = c THEN {t} ELSE {})
        BY <2>1, <2>2, <2>3 DEF InHand, Claims
      <3> QED BY <3>1, <3>2 DEF Claims
    <2>9. ClaimInv'
      <3>1. ASSUME NEW d \in Clients, NEW u \in Claims(d)', u \in Nat PROVE u < nextId'
        <4>1. u \in Claims(d) \/ u = t BY <2>8
        <4>2. u \in Claims(d) => u < nextId BY <1>0, <3>1 DEF ClaimInv
        <4> QED BY <1>2, <1>t, <3>1, <4>1, <4>2, Constants
      \* A fresh number is nobody's yet.
      <3>2. ASSUME NEW d \in Clients, d # c, t \in Claims(d), t \notin Claims(c) PROVE FALSE
        <4>1. t = nextId BY <1>2, <3>2 DEF Claims
        <4> QED BY <1>0, <1>t, <3>2, <4>1 DEF ClaimInv
      <3>3. \A d, e \in Clients : d # e => Claims(d)' \cap Claims(e)' \subseteq spoilt
        <4> SUFFICES ASSUME NEW d \in Clients, NEW e \in Clients, d # e, NEW u \in Claims(d)' \cap Claims(e)'
                     PROVE  u \in spoilt
          OBVIOUS
        <4>1. u \in Claims(d) /\ u \in Claims(e) BY <2>8, <3>2
        <4> QED BY <1>0, <4>1 DEF ClaimInv
      <3> QED BY <1>2, <3>1, <3>3 DEF ClaimInv
    <2>10. HoldBacked' BY <1>0, <1>2 DEF HoldBacked, Sure, Live
    <2> QED BY <2>7, <2>9, <2>10 DEF LocksInv
  <1>3. NewToken(c) \in {c, nextId} BY DEF NewToken
  <1> QED BY <1>1, <1>2, <1>3 DEF LockInsert, Finish

LEMMA LockReadbackKeeps ==
  ASSUME LocksInv, NEW c \in Clients, LockReadback(c), UNCHANGED scene
  PROVE  LocksInv'
  <1>0. Base /\ ClaimInv /\ HoldBacked /\ op[c] \in Ops /\ op \in [Clients -> Ops] /\ Stage(c, op[c])
    BY DEF LocksInv, Base, TypeOK, Ops
  <1>1. PICK l : l = GetByPath(op[c].path) OBVIOUS
  <1>2. /\ op[c].pc = "readback" /\ op' = [op EXCEPT ![c] = Idle] /\ UNCHANGED <<exists, locks, nextId, clock>>
        /\ hold' = IF l = NoLock THEN hold
                   ELSE [hold EXCEPT ![c] = @ \cup {[path |-> l.path, token |-> l.token, until |-> l.expiry,
                                                     own |-> l.token = op[c].row.token]}]
        /\ spoilt' = spoilt \cup {t \in {l.token : k \in {l} \ {NoLock}} : t # op[c].row.token}
    BY <1>1 DEF LockReadback, Finish
  <1>3. Stage(c, Idle)' /\ InHand(Idle) = {} /\ Idle \in Ops BY IdleStage, Constants DEF Stage, Idle
  <1>4. CASE l = NoLock
    <2>1. spoilt' = spoilt /\ hold' = hold BY <1>2, <1>4
    <2>2. exists' \subseteq Names /\ hold' \in [Clients -> SUBSET Hold] BY <1>0, <1>2, <2>1 DEF Base, TypeOK
    <2> QED BY <1>2, <1>3, <2>1, <2>2, Sweeps
  <1>5. CASE l # NoLock
    <2>1. l \in locks /\ l \in LockRow /\ (l.token < nextId \/ l.token \notin Nat)
      BY <1>0, <1>1, <1>5, Found DEF Base, TypeOK
    <2>2. l \in locks /\ l \in LockRow BY <1>0, <1>1, <1>5, Found DEF Base, TypeOK
    <2> DEFINE told == [path |-> l.path, token |-> l.token, until |-> l.expiry, own |-> l.token = op[c].row.token]
    <2>3. told \in Hold /\ told.token = l.token /\ told.path = l.path /\ told.until = l.expiry
          /\ told.own = (l.token = op[c].row.token)
      BY <2>2 DEF Hold, LockRow
    <2> HIDE DEF told
    <2>4. /\ hold' \in [Clients -> SUBSET Hold]
          /\ \A d \in Clients : hold'[d] = IF d = c THEN hold[c] \cup {told} ELSE hold[d]
      <3>1. hold' = [hold EXCEPT ![c] = @ \cup {told}] BY <1>2, <1>5 DEF told
      <3> QED BY <1>0, <2>3, <3>1 DEF Base, TypeOK
    <2>5. spoilt \subseteq spoilt' /\ spoilt' \subseteq Tokens /\ (l.token # op[c].row.token => l.token \in spoilt')
      BY <1>0, <1>2, <1>5, <2>2 DEF Base, TypeOK, LockRow
    <2>6. \A d \in Clients : op'[d] = IF d = c THEN Idle ELSE op[d] BY <1>0, <1>2
    <2>7. TypeOK'
      <3>1. op' \in [Clients -> Ops] BY <1>0, <1>2, <1>3
      <3>2. /\ exists' \subseteq Names /\ nextId' \in 1 .. (MaxIds + 1) /\ clock' \in 0 .. MaxTime'
            /\ locks' \subseteq LockRow /\ Unique(locks')
        BY <1>0, <1>2 DEF Base, TypeOK, MaxTime, Unique
      <3> QED BY <2>4, <2>5, <3>1, <3>2 DEF TypeOK, Ops, Unique
    <2>8. ASSUME NEW d \in Clients PROVE Stage(d, op[d])'
      <3>1. CASE d = c
        <4>1. op'[d] = Idle BY <2>6, <3>1
        <4> QED BY <4>1 DEF Stage, Idle
      <3>2. CASE d # c
        <4>1. op'[d] = op[d] /\ Stage(d, op[d]) /\ hold'[d] = hold[d] BY <1>0, <2>4, <2>6, <3>2 DEF Base
        <4> QED BY <1>2, <4>1 DEF Stage
      <3> QED BY <3>1, <3>2
    <2>9. Base' BY <1>0, <1>2, <2>7, <2>8 DEF Base
    <2>10. ASSUME NEW d \in Clients PROVE Claims(d)' \subseteq Claims(d) \cup (IF d = c THEN {l.token} ELSE {})
      <3>1. Presented(d)' \subseteq Presented(d) \cup (IF d = c THEN {l.token} ELSE {}) BY <2>3, <2>4 DEF Presented
      <3>2. InHand(op'[d]) \subseteq Claims(d) BY <1>3, <2>6 DEF Claims
      <3> QED BY <3>1, <3>2 DEF Claims
    <2>11. l.token \in Claims(c) \/ l.token \in spoilt'
      <3>1. op[c].row.token \in Claims(c) BY <1>2 DEF Claims, InHand
      <3> QED BY <2>5, <3>1
    <2>12. ClaimInv'
      <3>1. ASSUME NEW d \in Clients, NEW u \in Claims(d)', u \in Nat PROVE u < nextId'
        <4>1. u \in Claims(d) \/ u = l.token BY <2>10
        <4> QED BY <1>0, <1>2, <2>1, <2>2, <3>1, <4>1 DEF ClaimInv, Base
      <3>2. ASSUME NEW d \in Clients, NEW e \in Clients, d # e, NEW u \in Claims(d)' \cap Claims(e)'
            PROVE  u \in spoilt'
        <4>1. CASE u \in Claims(d) /\ u \in Claims(e) BY <1>0, <2>5, <3>2, <4>1 DEF ClaimInv
        <4>2. CASE u = l.token
          <5>1. u \in spoilt' \/ u \in Claims(c) BY <2>11, <4>2
          <5>2. d # c => u \in Claims(d) BY <2>10
          <5>3. e # c => u \in Claims(e) BY <2>10
          <5> QED BY <1>0, <2>5, <3>2, <5>1, <5>2, <5>3 DEF ClaimInv
        <4> QED BY <2>10, <4>1, <4>2
      <3> QED BY <3>1, <3>2 DEF ClaimInv
    <2>13. HoldBacked'
      <3> SUFFICES ASSUME NEW d \in Clients, NEW h \in hold'[d], Sure(h)'
                   PROVE  \E k \in locks' : k.path = h.path /\ k.token = h.token /\ k.expiry >= h.until
        BY DEF HoldBacked
      <3>1. CASE h = told
        <4>1. l.expiry >= l.expiry BY <2>2 DEF LockRow
        <4> QED BY <1>2, <2>2, <2>3, <3>1, <4>1
      <3>2. CASE h \in hold[d]
        <4>1. Sure(h) BY <1>2, <2>5 DEF Sure, Live
        <4> QED BY <1>0, <1>2, <3>2, <4>1 DEF HoldBacked
      <3> QED BY <2>4, <3>1, <3>2
    <2> QED BY <2>9, <2>12, <2>13 DEF LocksInv
  <1> QED BY <1>4, <1>5

LEMMA TickKeeps ==
  ASSUME Prompt, LocksInv, Tick, UNCHANGED scene
  PROVE  LocksInv'
  <1>0. Base /\ ClaimInv /\ HoldBacked BY DEF LocksInv
  <1>1. /\ clock < MaxTime /\ clock' = clock + 1 /\ \A c \in Clients : op[c] = Idle
        /\ hold' = [c \in Clients |-> {h \in hold[c] : h.until > clock + 1}]
        /\ UNCHANGED <<exists, locks, nextId, op, spoilt>>
    BY DEF Tick
  <1>2. clock \in Nat /\ MaxTime \in Nat /\ TTL \in Nat BY <1>0, Constants DEF Base, TypeOK, MaxTime
  <1>3. TypeOK'
    <2>1. clock' \in 0 .. MaxTime' BY <1>1, <1>2 DEF MaxTime
    <2>2. hold' \in [Clients -> SUBSET Hold] BY <1>0, <1>1 DEF Base, TypeOK
    <2>3. /\ exists' \subseteq Names /\ nextId' \in 1 .. (MaxIds + 1) /\ spoilt' \subseteq Tokens
          /\ locks' \subseteq LockRow /\ Unique(locks') /\ op' \in [Clients -> Ops]
      BY <1>0, <1>1 DEF Base, TypeOK, Unique, Ops
    <2> QED BY <2>1, <2>2, <2>3 DEF TypeOK, Unique, Ops
  <1>4. \A c \in Clients : Stage(c, op[c])' BY <1>1 DEF Stage, Idle
  <1>5. \A l \in locks : l.expiry \in Nat BY <1>0 DEF Base, TypeOK, LockRow
  <1>6. Base' BY <1>0, <1>1, <1>2, <1>3, <1>4, <1>5 DEF Base
  <1>7. \A c \in Clients : Claims(c)' \subseteq Claims(c)
    <2> SUFFICES ASSUME NEW c \in Clients PROVE Claims(c)' \subseteq Claims(c)
      OBVIOUS
    <2>1. Presented(c)' \subseteq Presented(c) BY <1>1 DEF Presented
    <2>2. InHand(op'[c]) = InHand(op[c]) BY <1>1
    <2> QED BY <2>1, <2>2 DEF Claims
  <1>8. ClaimInv' BY <1>0, <1>1, <1>7 DEF ClaimInv
  <1>9. HoldBacked'
    <2> SUFFICES ASSUME NEW c \in Clients, NEW h \in hold[c], h.own, h.until > clock + 1, h.token \notin spoilt
                 PROVE  \E l \in locks : l.path = h.path /\ l.token = h.token /\ l.expiry >= h.until
      BY <1>1 DEF HoldBacked, Sure, Live
    <2>1. h \in Hold BY <1>0, KnownToken
    <2>2. Sure(h) BY <1>2, <2>1 DEF Sure, Live, Hold
    <2> QED BY <1>0, <2>2 DEF HoldBacked
  <1> QED BY <1>6, <1>8, <1>9 DEF LocksInv

-----------------------------------------------------------------------------
(* Every step.                                                             *)

LEMMA LocksStep ==
  ASSUME Prompt, LocksInv, [Next /\ UNCHANGED scene]_vars
  PROVE  LocksInv'
  <1>1. CASE UNCHANGED vars
    <2>1. UNCHANGED <<exists, locks, nextId, clock, op, hold, spoilt, scene>> BY <1>1 DEF vars
    <2>2. TypeOK' BY <2>1 DEF LocksInv, Base, TypeOK, MaxTime
    <2>3. \A c \in Clients : Stage(c, op[c])' BY <2>1 DEF LocksInv, Base, Stage
    <2>4. Base' BY <2>1, <2>2, <2>3 DEF LocksInv, Base
    <2>5. ClaimInv' BY <2>1 DEF LocksInv, ClaimInv, Claims, Presented
    <2>6. HoldBacked' BY <2>1 DEF LocksInv, HoldBacked, Sure, Live
    <2> QED BY <2>4, <2>5, <2>6 DEF LocksInv
  <1>2. CASE Tick /\ UNCHANGED scene BY <1>2, TickKeeps
  <1>3. ASSUME NEW c \in Clients, Request(c), UNCHANGED scene PROVE LocksInv'
    <2>1. CASE \E verb \in Verbs, p \in Paths : LockRead(c, verb, p) \/ CheckWrite(c, verb, p)
      BY <1>3, <2>1, LockReadKeeps, CheckWriteKeeps
    <2>2. CASE \E verb \in Verbs, h \in hold[c] : UnlockRead(c, verb, h)
      BY <1>3, <2>2, UnlockReadKeeps
    <2>3. CASE \E verb \in Verbs, p, q \in Paths : CheckMove(c, verb, p, q) \/ CheckWopi(c, verb, p, q)
      BY <1>3, <2>3, CheckMoveKeeps, CheckWopiKeeps
    <2> QED BY <1>3, <2>1, <2>2, <2>3 DEF Request
  <1>4. ASSUME NEW c \in Clients, Proceed(c), UNCHANGED scene PROVE LocksInv'
    BY <1>4, LockExpireKeeps, LockRefreshKeeps, LockInsertKeeps, LockReadbackKeeps, UnlockDeleteKeeps,
       ActWriteKeeps, ActDeleteKeeps, ActMoveKeeps, ActLocksKeeps DEF Proceed
  <1> QED BY <1>1, <1>2, <1>3, <1>4 DEF Next

\* A lock means something (files/lock.go, lockstore.go, wopilock.go): while no request
\* outlasts a tick of the clock, who was told that it has the lock it asked for, with a
\* token nobody else was told, has its row in the table up to the deadline it was given,
\* whatever other clients lock, refresh, unlock, expire, delete, move and rename in
\* between; and the table keeps its unique ids, paths and tokens.
THEOREM GrantedLocksHold ==
  ASSUME Prompt
  PROVE  Spec => []LocksSound
  <1>1. Init => LocksInv BY LocksInvInit
  <1>2. LocksInv /\ [Next /\ UNCHANGED scene]_vars => LocksInv' BY LocksStep
  <1>3. LocksInv => LocksSound BY DEF LocksInv, Base, LocksSound
  <1> QED BY <1>1, <1>2, <1>3, PTL DEF Spec

-----------------------------------------------------------------------------
(* The checks before a write.                                              *)

\* The row behind a granted lock is the one a check finds at its path.
LEMMA LockFound ==
  ASSUME LocksInv, NEW d \in Clients, NEW h \in hold[d], Sure(h)
  PROVE  /\ GetByPath(h.path) # NoLock /\ GetByPath(h.path).token = h.token
         /\ ~Expired(GetByPath(h.path), clock)
  <1>0. Base /\ HoldBacked BY DEF LocksInv
  <1>1. PICK l \in locks : l.path = h.path /\ l.token = h.token /\ l.expiry >= h.until BY <1>0 DEF HoldBacked
  <1>2. l \in LockRow /\ h \in Hold /\ clock \in Nat BY <1>0, Constants DEF Base, TypeOK, MaxTime
  <1>3. GetByPath(h.path) = l BY <1>0, <1>1, Found
  <1>4. l # NoLock BY <1>2, Constants
  <1>5. ~(l.expiry <= clock) BY <1>1, <1>2 DEF LockRow, Hold, Sure, Live
  <1> QED BY <1>1, <1>3, <1>4, <1>5 DEF Expired

\* The walk up from a path stops at the path itself if it is locked.
LEMMA OwnLockDecides ==
  ASSUME LocksInv, NEW c \in Clients, NEW d \in Clients, NEW h \in hold[d], Sure(h), CheckLockOwned(c, h.path)
  PROVE  h.token \in Presented(c)
  <1>1. h.path \in Names BY DEF LocksInv, Base, TypeOK, Hold
  <1>2. h.path \in Valid(h.path) BY <1>1, LockFound, ChainTop DEF Valid
  <1>3. \A q \in Valid(h.path) : q \in Names /\ Len(q) <= Len(h.path) /\ (Len(q) = Len(h.path) => q = h.path)
    BY <1>1, ChainTop DEF Valid
  <1>4. \A q \in Names : Len(q) \in Nat BY DEF Names
  <1>5. Nearest(h.path) = h.path
    <2>1. \E q \in Valid(h.path) : \A r \in Valid(h.path) : Len(r) <= Len(q) BY <1>2, <1>3
    <2>2. Nearest(h.path) \in Valid(h.path) /\ Len(h.path) <= Len(Nearest(h.path)) BY <1>2, <2>1 DEF Nearest
    <2>3. Len(Nearest(h.path)) = Len(h.path) BY <1>1, <1>3, <1>4, <2>2
    <2> QED BY <1>3, <2>2, <2>3
  <1> QED BY <1>2, <1>5, LockFound DEF CheckLockOwned

\* A request that starts has been checked.
LEMMA Checked ==
  ASSUME LocksInv, NEW c \in Clients, Next,
         op[c].pc = "idle", op'[c].pc = "act", op'[c].verb \notin {"copy", "wopiRelative"}
  PROVE  CheckLockOwned(c, op'[c].path) \/ LockTokenAt(c, op'[c].path)
  <1>0. op \in [Clients -> Ops] BY DEF LocksInv, Base, TypeOK, Ops
  <1>1. \A e \in Clients : \A o : op' = [op EXCEPT ![e] = o] => op'[c] = IF c = e THEN o ELSE op[c] BY <1>0
  <1>2. ~Tick BY DEF Tick
  <1>3. PICK e \in Clients : Request(e) \/ Proceed(e) BY <1>2 DEF Next
  <1>4. CASE Proceed(e)
    <2>1. Idle.pc # "act" BY DEF Idle
    <2>2. op[e].pc # "idle"
      BY <1>4 DEF Proceed, LockExpire, LockRefresh, LockInsert, LockReadback, UnlockDelete, ActWrite, ActDelete, ActMove,
         ActLocks, Abort
    <2>3. PICK o : op' = [op EXCEPT ![e] = o]
      BY <1>4 DEF Proceed, LockExpire, LockRefresh, LockInsert, LockReadback, UnlockDelete, ActWrite, ActDelete, ActMove,
         ActLocks, Abort, Finish
    <2>4. op'[c] = op[c] BY <1>1, <2>2, <2>3
    <2> QED BY <2>4
  <1>5. CASE Request(e)
    <2>1. CASE \E verb \in Verbs, p \in Paths : LockRead(e, verb, p)
      BY <1>1, <2>1 DEF LockRead, Start
    <2>2. CASE \E verb \in Verbs, h \in hold[e] : UnlockRead(e, verb, h)
      BY <1>1, <2>2 DEF UnlockRead, Start
    <2>3. CASE \E verb \in Verbs, p \in Paths : CheckWrite(e, verb, p)
      BY <1>1, <2>3 DEF CheckWrite, Start
    <2>4. CASE \E verb \in Verbs, p, q \in Paths : CheckMove(e, verb, p, q)
      BY <1>1, <2>4 DEF CheckMove, Start
    <2>5. CASE \E verb \in Verbs, p, q \in Paths : CheckWopi(e, verb, p, q)
      BY <1>1, <2>5 DEF CheckWopi, Start
    <2> QED BY <1>5, <2>1, <2>2, <2>3, <2>4, <2>5 DEF Request
  <1> QED BY <1>3, <1>4, <1>5

\* Locks are respected (webdav/handler.go checkLock, wopi/handler.go): no PUT, DELETE,
\* MOVE, PutFile or RenameFile is let through to a path that another client has locked,
\* unless the client has that lock's token, whoever locks, renames or deletes meanwhile.
THEOREM ChecksRespectLocks ==
  ASSUME Prompt
  PROVE  Spec => LockRespected
  <1> DEFINE Respects ==
        \A c \in Clients :
          (op[c].pc = "idle" /\ op'[c].pc = "act" /\ op'[c].verb \notin {"copy", "wopiRelative"}) =>
            \A d \in Clients \ {c} : \A h \in hold[d] :
              (Sure(h) /\ h.path = op'[c].path) => h.token \in Presented(c) \cup {c}
  <1>1. Init => LocksInv BY LocksInvInit
  <1>2. LocksInv /\ [Next /\ UNCHANGED scene]_vars => LocksInv' BY LocksStep
  <1>3. LocksInv /\ [Next /\ UNCHANGED scene]_vars => [Respects]_vars
    <2> SUFFICES ASSUME LocksInv, Next, NEW c \in Clients,
                        op[c].pc = "idle", op'[c].pc = "act", op'[c].verb \notin {"copy", "wopiRelative"},
                        NEW d \in Clients, NEW h \in hold[d], Sure(h), h.path = op'[c].path
                 PROVE  h.token \in Presented(c) \cup {c}
      OBVIOUS
    <2>1. CheckLockOwned(c, h.path) \/ LockTokenAt(c, h.path) BY Checked
    <2>2. CASE CheckLockOwned(c, h.path) BY <2>2, OwnLockDecides
    <2>3. CASE LockTokenAt(c, h.path) BY <2>3, LockFound DEF LockTokenAt
    <2> QED BY <2>1, <2>2, <2>3
  <1>4. Init /\ [][Next /\ UNCHANGED scene]_vars => [][Respects]_vars BY <1>1, <1>2, <1>3, PTL
  <1> QED BY <1>4 DEF Spec, LockRespected
=============================================================================
