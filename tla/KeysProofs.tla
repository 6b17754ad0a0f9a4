----------------------------- MODULE KeysProofs -----------------------------
(***************************************************************************)
(* No file key is lost, for any number of accounts, files, requests,       *)
(* restarts and generated keys.                                            *)
(***************************************************************************)
EXTENDS Keys, TLAPS

-----------------------------------------------------------------------------
(* Types.                                                                  *)

\* Which statements belong to which operation, and what the request names.
Enrolling == {"insertPw", "loadUK", "listSym", "toBoxes", "dropUK"}
Unenrolling == {"listBox", "toSym", "dropPw", "dropTokens"}
Obtaining == {"ukLoad", "ukInsert", "ukReload"}
Writing == {"pubKey", "insertBox", "insertSym"}
Reading == {"ownerUK", "ownerLoad", "ownerRow", "readerRow", "readerUK", "readerLoad"}

Fits(r) ==
  /\ r.op = "idle" <=> r.pc = "idle"
  /\ r.op = "login" => r.pc \in {"enrollment", "hasUK"} \cup Enrolling \cup Obtaining \cup Unenrolling
  /\ r.op \in {"alloc", "wrap"} => r.pc \in Obtaining \cup Writing
  /\ r.op = "mint" => r.pc \in Obtaining
  /\ r.op = "read" => r.pc \in Reading
  /\ r.op # "idle" => r.user \in Users
  /\ r.op \in {"alloc", "wrap", "read"} => r.fk \in FileKeys

\* The keys that the next statements use are there.
Holds(r) ==
  /\ r.pc \in {"loadUK", "listSym", "toBoxes", "dropUK", "insertBox"} => r.pub # None
  /\ r.pc \in {"listBox", "toSym", "insertSym"} => r.uk # None

\* A file that is read has an owner.
OwnedReads == \A t \in Tasks : task[t].op = "read" => owner[task[t].fk] \in Users

Base == mix \in Mixes /\ TypeOK /\ OwnedReads /\ \A t \in Tasks : Fits(task[t]) /\ Holds(task[t])

-----------------------------------------------------------------------------
(* Keys.                                                                   *)

\* A wrap that counts.
Firm(f, u) == wrapped[f][u] # NoRow /\ ~wrapped[f][u].late

\* The flag decides which way accounts move, and stays until a restart: while it
\* is set a pair stays, while it is not a symmetric key stays.
Mode(r) ==
  /\ r.pc \in Enrolling => passwordWrapped
  /\ r.pc \in Unenrolling \/ (r.op = "login" /\ r.pc \in Obtaining) => ~passwordWrapped

\* The keys a login has in hand are the account's.
InHand(r) ==
  /\ r.pc = "hasUK" /\ passwordWrapped /\ r.pub # None => r.pub = keyPw[r.user]
  /\ r.pc \in Enrolling \ {"insertPw"} => r.pub # None /\ r.pub = keyPw[r.user]
  /\ r.pc \in {"listBox", "toSym", "dropPw"} => r.uk # None /\ r.uk = userKey[r.user]

\* So are those of a writer that was not overtaken.
Current(r) ==
  ~r.over =>
    /\ r.op \in {"alloc", "wrap"} /\ r.pc \in Obtaining \cup {"insertSym"} => keyPw[r.user] = None
    /\ r.pc = "insertSym" => r.uk # None /\ r.uk = userKey[r.user]
    /\ r.pc = "insertBox" => r.pub # None /\ r.pub = keyPw[r.user]

\* A login has listed every wrap it must convert.
Listed(r) ==
  /\ r.pc = "toBoxes" => \A f \in FileKeys : Firm(f, r.user) /\ wrapped[f][r.user].scheme = 0 => f \in DOMAIN r.rows
  /\ r.pc = "dropUK" => \A f \in FileKeys : Firm(f, r.user) => wrapped[f][r.user].scheme = 1
  /\ r.pc = "toSym" => \A f \in FileKeys : Firm(f, r.user) /\ wrapped[f][r.user].scheme = 1 => f \in DOMAIN r.rows
  /\ r.pc = "dropPw" => \A f \in FileKeys : Firm(f, r.user) => wrapped[f][r.user].scheme = 0

KeyInv ==
  /\ NoKeyLost
  /\ \A t \in Tasks : Mode(task[t]) /\ InHand(task[t]) /\ Current(task[t]) /\ Listed(task[t])

OwnerInv == \A f \in FileKeys : owner[f] # None => owner[f] \in Users /\ wrapped[f][owner[f]] # NoRow

\* Keys are generated once; a file is made once and keeps its owner.
Generated ==
  /\ \A u \in Users : sessions[u] \subseteq 1 .. minted /\ userKey[u] <= minted /\ keyPw[u] <= minted
  /\ \A t \in Tasks : task[t].pub <= minted
OneOwner ==
  \A t \in Tasks : task[t].op = "alloc" =>
    owner[task[t].fk] = None /\ \A q \in Tasks \ {t} : task[q].op = "alloc" => task[q].fk # task[t].fk

\* What a read with the account's own private key has found so far.
Found(r) ==
  r.op = "read" /\ r.user = owner[r.fk] /\ r.pub # None /\ r.pub = keyPw[r.user] =>
    /\ r.pc = "readerRow" /\ passwordWrapped =>
         \A f \in FileKeys : Firm(f, r.user) => wrapped[f][r.user].scheme = 1
    /\ r.pc = "readerUK" /\ ~r.rows.late => OpensBox(r.rows, r.pub) \/ (~passwordWrapped /\ userKey[r.user] # None)
ReadInv == Generated /\ OneOwner /\ \A t \in Tasks : Found(task[t])

-----------------------------------------------------------------------------
(* Every step keeps the types.                                             *)

\* What the program counter promises of the rows in hand.
Fine(r) ==
  /\ Fits(r) /\ Holds(r)
  /\ r.pc \in {"toBoxes", "toSym"} => r.rows \in Lists
  /\ r.pc \in {"readerUK", "readerLoad"} => r.rows \in Rows \ {NoRow}

Same(r, s) ==
  /\ r.op = s.op /\ r.user = s.user /\ r.fk = s.fk /\ r.pc = s.pc /\ r.pub = s.pub /\ r.uk = s.uk
  /\ r.had = s.had /\ r.rows = s.rows

\* One request moves; the others may learn that they were overtaken.
Others(t) == \A q \in Tasks \ {t} : Same(task'[q], task[q]) /\ (task[q].over => task'[q].over)
Took(t, w) == task' \in [Tasks -> TaskRecord] /\ task'[t] = w /\ Fine(w) /\ Others(t)

LEMMA Frame ==
  ASSUME mix' = mix
  PROVE  Users' = Users /\ FileKeys' = FileKeys /\ Lists' = Lists /\ TaskRecord' = TaskRecord /\ Ops' = Ops
  BY DEF Users, FileKeys, Lists, TaskRecord, Ops

LEMMA IdleTask == Idle \in TaskRecord /\ Fine(Idle) /\ Idle.pc = "idle" /\ Idle.op = "idle" /\ Idle.pub = None
  <1>1. <<>> \in Lists
    <2>1. <<>> \in [{} -> 1 .. MaxMint] OBVIOUS
    <2> QED BY <2>1 DEF Lists
  <1>2. None \in Key BY KeysAssumption DEF None, Key
  <1>3. Idle.op = "idle" /\ Idle.pc = "idle" /\ Idle.pub = None BY DEF Idle
  <1>4. Idle \in TaskRecord BY <1>1, <1>2 DEF Idle, TaskRecord, PC
  <1>5. Fine(Idle) BY <1>3 DEF Fine, Holds, Fits, Enrolling, Unenrolling, Obtaining, Writing, Reading
  <1> QED BY <1>3, <1>4, <1>5

LEMMA Plain ==
  ASSUME Base, NEW t \in Tasks, NEW w \in TaskRecord, Fine(w), task' = [task EXCEPT ![t] = w]
  PROVE  Took(t, w)
  BY DEF Took, Others, Same, Base, TypeOK

LEMMA Overtaking ==
  ASSUME Base, NEW t \in Tasks, NEW w \in TaskRecord, Fine(w), NEW u, task' = [Overtake(u) EXCEPT ![t] = w]
  PROVE  Took(t, w)
  <1>1. \A q \in Tasks : task[q] \in TaskRecord BY DEF Base, TypeOK
  <1>2. \A q \in Tasks : Overtake(u)[q] = [task[q] EXCEPT !.over = @ \/ task[q].user = u] BY DEF Overtake
  <1>3. ASSUME NEW q \in Tasks
        PROVE  Overtake(u)[q] \in TaskRecord /\ Same(Overtake(u)[q], task[q]) /\ (task[q].over => Overtake(u)[q].over)
    <2>1. task[q] \in TaskRecord /\ Overtake(u)[q] = [task[q] EXCEPT !.over = task[q].over \/ task[q].user = u] BY <1>1, <1>2
    <2>2. PICK b \in BOOLEAN : Overtake(u)[q] = [task[q] EXCEPT !.over = b] /\ (task[q].over => b)
      <3>1. CASE task[q].user = u
        <4>1. (task[q].over \/ task[q].user = u) = TRUE BY <3>1
        <4> QED BY <2>1, <4>1
      <3>2. CASE task[q].user # u
        <4>1. task[q].over \in BOOLEAN BY <2>1 DEF TaskRecord
        <4>2. (task[q].over \/ task[q].user = u) = task[q].over BY <3>2, <4>1
        <4> QED BY <2>1, <4>1, <4>2
      <3> QED BY <3>1, <3>2
    <2> QED BY <2>1, <2>2 DEF TaskRecord, Same
  <1>4. DOMAIN Overtake(u) = Tasks BY DEF Overtake
  <1>5. task' \in [Tasks -> TaskRecord]
    <2>1. Overtake(u) = [q \in Tasks |-> Overtake(u)[q]] BY DEF Overtake
    <2>2. Overtake(u) \in [Tasks -> TaskRecord] BY <1>3, <2>1
    <2> QED BY <2>2
  <1>6. task'[t] = w /\ \A q \in Tasks \ {t} : task'[q] = Overtake(u)[q] BY <1>4
  <1> QED BY <1>3, <1>5, <1>6 DEF Took, Others

\* The steps a request takes.
Begins(t) ==
  \/ \E u \in Users : LoginStart(t, u) \/ MintStart(t, u)
  \/ \E u \in Users, f \in FileKeys :
       AllocStart(t, u, f) \/ WrapStart(t, u, f) \/ \E key \in sessions[u] \cup {None} : ReadStart(t, u, f, key)
Proceeds(t) ==
  \/ LoadEnrollment(t) \/ HasUserKey(t) \/ InsertPw(t) \/ LoadUK(t)
  \/ ListRows(t) \/ ConvertRow(t) \/ DropUK(t) \/ DropPw(t) \/ DropTokens(t)
  \/ UKLoad(t) \/ UKInsert(t) \/ UKReload(t)
  \/ PublicKeyFor(t) \/ InsertWrap(t)
  \/ ReadAsOwner(t) \/ ResolveIdentity(t)

LEMMA Splits ==
  Next => \/ \E t \in Tasks : Begins(t) \/ Proceeds(t)
          \/ \E u \in Users : IssueToken(u)
          \/ \E f \in FileKeys, u \in Users : Unwrap(f, u)
          \/ Restart
  BY DEF Next, Begins, Proceeds

LEMMA Counters ==
  "enrollment" \in PC /\ "ukLoad" \in PC /\ "pubKey" \in PC /\ "ownerUK" \in PC /\ None \in Key /\ \A k \in 1 .. MaxMint : k \in Key /\ k # None
  BY KeysAssumption DEF PC, None, Key

\* A request that comes in.
LEMMA StartOne ==
  ASSUME Base, NEW t \in Tasks, NEW w \in TaskRecord, task' = [task EXCEPT ![t] = w], w.user \in Users,
         \/ w.op = "login" /\ w.pc = "enrollment"
         \/ w.op = "mint" /\ w.pc = "ukLoad"
         \/ w.op \in {"alloc", "wrap"} /\ w.pc = "pubKey" /\ w.fk \in FileKeys
         \/ w.op = "read" /\ w.pc = "ownerUK" /\ w.fk \in FileKeys
  PROVE  Took(t, w)
  <1>1. Fine(w) BY DEF Fine, Holds, Fits, Enrolling, Unenrolling, Obtaining, Writing, Reading
  <1> QED BY <1>1, Plain

LEMMA BeginsOne ==
  ASSUME Base, mix' = mix, NEW t \in Tasks, Begins(t)
  PROVE  /\ task[t].pc = "idle" /\ result' = "none" /\ UNCHANGED <<Rest, Tables>>
         /\ \E w \in TaskRecord :
              /\ Took(t, w) /\ w.over = FALSE /\ w.user \in Users /\ w.op \in Ops
              /\ \/ w.op = "login" /\ w.pc = "enrollment" /\ w.pub = None
                 \/ w.op = "mint" /\ w.pc = "ukLoad" /\ w.pub = None
                 \/ w.op = "alloc" /\ w.pc = "pubKey" /\ w.fk \in FileKeys /\ Unused(w.fk) /\ w.pub = None
                 \/ w.op = "wrap" /\ w.pc = "pubKey" /\ w.fk \in FileKeys /\ w.pub = None
                 \/ w.op = "read" /\ w.pc = "ownerUK" /\ w.fk \in FileKeys /\ owner[w.fk] # None /\ w.pub \in sessions[w.user] \cup {None}
  <1>1. /\ \A u \in Users : sessions[u] \subseteq 1 .. MaxMint
        /\ "login" \in AllOps /\ "mint" \in AllOps /\ "alloc" \in AllOps /\ "wrap" \in AllOps /\ "read" \in AllOps
    BY DEF Base, TypeOK, AllOps
  <1>2. CASE \E u \in Users : LoginStart(t, u)
    <2>1. PICK u \in Users : LoginStart(t, u) BY <1>2
    <2> DEFINE w == [Idle EXCEPT !.op = "login", !.user = u, !.fk = None, !.pc = "enrollment"]
    <2>2. /\ task' = [task EXCEPT ![t] = w]
          /\ task[t].pc = "idle" /\ result' = "none" /\ UNCHANGED <<Rest, Tables>> /\ "login" \in Ops
      BY <2>1 DEF LoginStart, Start, Step, At
    <2> HIDE DEF w
    <2>3. w.op = "login" /\ w.user = u /\ w.pub = None /\ w.pc = "enrollment" /\ w.over = FALSE BY DEF w, Idle
    <2>4. w \in TaskRecord BY <1>1, Counters, IdleTask DEF w, TaskRecord
    <2>5. Took(t, w) BY <2>2, <2>3, <2>4, StartOne
    <2> QED BY <2>2, <2>3, <2>4, <2>5
  <1>3. CASE \E u \in Users : MintStart(t, u)
    <2>1. PICK u \in Users : MintStart(t, u) BY <1>3
    <2> DEFINE w == [Idle EXCEPT !.op = "mint", !.user = u, !.fk = None, !.pc = "ukLoad"]
    <2>2. /\ task' = [task EXCEPT ![t] = w]
          /\ task[t].pc = "idle" /\ result' = "none" /\ UNCHANGED <<Rest, Tables>> /\ "mint" \in Ops
      BY <2>1 DEF MintStart, Start, Step, At
    <2> HIDE DEF w
    <2>3. w.op = "mint" /\ w.user = u /\ w.pub = None /\ w.pc = "ukLoad" /\ w.over = FALSE BY DEF w, Idle
    <2>4. w \in TaskRecord BY <1>1, Counters, IdleTask DEF w, TaskRecord
    <2>5. Took(t, w) BY <2>2, <2>3, <2>4, StartOne
    <2> QED BY <2>2, <2>3, <2>4, <2>5
  <1>4. CASE \E u \in Users, f \in FileKeys : AllocStart(t, u, f)
    <2>1. PICK u \in Users, f \in FileKeys : AllocStart(t, u, f) BY <1>4
    <2> DEFINE w == [Idle EXCEPT !.op = "alloc", !.user = u, !.fk = f, !.pc = "pubKey"]
    <2>2. /\ task' = [task EXCEPT ![t] = w]
          /\ task[t].pc = "idle" /\ result' = "none" /\ UNCHANGED <<Rest, Tables>> /\ "alloc" \in Ops /\ Unused(f)
      BY <2>1 DEF AllocStart, Start, Step, At
    <2> HIDE DEF w
    <2>3. w.op = "alloc" /\ w.user = u /\ w.pub = None /\ w.pc = "pubKey" /\ w.over = FALSE /\ w.fk = f BY DEF w, Idle
    <2>4. w \in TaskRecord BY <1>1, Counters, IdleTask DEF w, TaskRecord
    <2>5. Took(t, w) BY <2>2, <2>3, <2>4, StartOne
    <2> QED BY <2>2, <2>3, <2>4, <2>5
  <1>5. CASE \E u \in Users, f \in FileKeys : WrapStart(t, u, f)
    <2>1. PICK u \in Users, f \in FileKeys : WrapStart(t, u, f) BY <1>5
    <2> DEFINE w == [Idle EXCEPT !.op = "wrap", !.user = u, !.fk = f, !.pc = "pubKey"]
    <2>2. /\ task' = [task EXCEPT ![t] = w]
          /\ task[t].pc = "idle" /\ result' = "none" /\ UNCHANGED <<Rest, Tables>> /\ "wrap" \in Ops
      BY <2>1 DEF WrapStart, Start, Step, At
    <2> HIDE DEF w
    <2>3. w.op = "wrap" /\ w.user = u /\ w.pub = None /\ w.pc = "pubKey" /\ w.over = FALSE /\ w.fk = f BY DEF w, Idle
    <2>4. w \in TaskRecord BY <1>1, Counters, IdleTask DEF w, TaskRecord
    <2>5. Took(t, w) BY <2>2, <2>3, <2>4, StartOne
    <2> QED BY <2>2, <2>3, <2>4, <2>5
  <1>6. CASE \E u \in Users, f \in FileKeys : \E key \in sessions[u] \cup {None} : ReadStart(t, u, f, key)
    <2>1. PICK u \in Users, f \in FileKeys : \E key \in sessions[u] \cup {None} : ReadStart(t, u, f, key) BY <1>6
    <2>2. PICK key \in sessions[u] \cup {None} : ReadStart(t, u, f, key) BY <2>1
    <2> DEFINE w == [Idle EXCEPT !.op = "read", !.user = u, !.fk = f, !.pub = key, !.pc = "ownerUK"]
    <2>3. /\ task' = [task EXCEPT ![t] = w]
          /\ task[t].pc = "idle" /\ result' = "none" /\ UNCHANGED <<Rest, Tables>> /\ "read" \in Ops /\ owner[f] # None
      BY <2>2 DEF ReadStart, Step, At
    <2>4. key \in Key BY <1>1, Counters
    <2> HIDE DEF w
    <2>5. w.op = "read" /\ w.user = u /\ w.pub = key /\ w.pc = "ownerUK" /\ w.over = FALSE /\ w.fk = f BY DEF w, Idle
    <2>6. w \in TaskRecord BY <1>1, <2>4, Counters, IdleTask DEF w, TaskRecord
    <2>7. Took(t, w) BY <2>3, <2>5, <2>6, StartOne
    <2> QED BY <2>3, <2>5, <2>6, <2>7
  <1> QED BY <1>2, <1>3, <1>4, <1>5, <1>6 DEF Begins

\* A request that goes on.
Follows(r, w) == w.op = r.op /\ w.user = r.user /\ w.fk = r.fk /\ w.over = r.over
Path(op, pc) ==
  \/ op = "login" /\ pc \in {"enrollment", "hasUK"} \cup Enrolling \cup Obtaining \cup Unenrolling
  \/ op \in {"alloc", "wrap"} /\ pc \in Obtaining \cup Writing
  \/ op = "mint" /\ pc \in Obtaining
  \/ op = "read" /\ pc \in Reading
To(t, w) == w \in TaskRecord /\ Took(t, w) /\ Follows(task[t], w)

LEMMA OpOf ==
  ASSUME Base, NEW t \in Tasks
  PROVE  /\ task[t] \in TaskRecord
         /\ task[t].pc \in {"enrollment", "hasUK"} \cup Enrolling \cup Unenrolling => task[t].op = "login"
         /\ task[t].pc \in Writing => task[t].op \in {"alloc", "wrap"} /\ task[t].fk \in FileKeys
         /\ task[t].pc \in Reading => task[t].op = "read" /\ task[t].fk \in FileKeys
         /\ task[t].pc \in Obtaining => task[t].op \in {"login", "alloc", "wrap", "mint"}
         /\ task[t].op \in {"alloc", "wrap"} => task[t].fk \in FileKeys
         /\ task[t].pc # "idle" => task[t].op # "idle" /\ task[t].user \in Users
         /\ Holds(task[t])
  <1>1. task[t] \in TaskRecord /\ Fits(task[t]) /\ Holds(task[t]) BY DEF Base, TypeOK
  <1>2. task[t].op \in AllOps \cup {"idle"} /\ task[t].pc \in PC BY <1>1 DEF TaskRecord
  <1> HIDE DEF TaskRecord
  <1> QED BY <1>1, <1>2 DEF Fits, AllOps, Enrolling, Unenrolling, Obtaining, Writing, Reading

LEMMA GoOn ==
  ASSUME Base, NEW t \in Tasks, NEW w \in TaskRecord, Follows(task[t], w), Holds(w), task[t].pc # "idle", Path(task[t].op, w.pc),
         w.pc \in {"toBoxes", "toSym"} => w.rows \in Lists, w.pc \in {"readerUK", "readerLoad"} => w.rows \in Rows \ {NoRow},
         task' = [task EXCEPT ![t] = w] \/ \E u : task' = [Overtake(u) EXCEPT ![t] = w]
  PROVE  To(t, w)
  <1>1. w.user \in Users /\ (w.op \in {"alloc", "wrap", "read"} => w.fk \in FileKeys)
    <2>1. Fits(task[t]) BY DEF Base
    <2> QED BY <2>1 DEF Fits, Follows
  <1>2. Path(w.op, w.pc) BY DEF Follows
  <1>3. Fine(w) BY <1>1, <1>2 DEF Fine, Fits, Path, Enrolling, Unenrolling, Obtaining, Writing, Reading
  <1> QED BY <1>3, Plain, Overtaking DEF To

LEMMA Ends ==
  ASSUME Base, NEW t \in Tasks, task' = [task EXCEPT ![t] = Idle] \/ \E u : task' = [Overtake(u) EXCEPT ![t] = Idle]
  PROVE  Took(t, Idle)
  BY IdleTask, Plain, Overtaking

LEMMA KeysTyped ==
  ASSUME Base
  PROVE  /\ \A u \in Users : userKey[u] \in Key /\ keyPw[u] \in Key
         /\ \A f \in FileKeys, u \in Users : wrapped[f][u] \in Rows
         /\ minted \in Key /\ minted \in Nat /\ mix.maxMint \in Nat /\ (minted < mix.maxMint => minted + 1 \in 1 .. MaxMint)
         /\ None = 0 /\ Key = 0 .. MaxMint /\ MaxMint \in Nat
  BY KeysAssumption DEF Base, TypeOK, Key, None

LEMMA LoadEnrollmentOne ==
  ASSUME Base, NEW t \in Tasks, LoadEnrollment(t)
  PROVE  \E w : To(t, w) /\ task[t].pc = "enrollment" /\ w.pc = "hasUK" /\ w.pub = keyPw[w.user]
  <1> DEFINE w == [task[t] EXCEPT !.pub = keyPw[task[t].user], !.pc = "hasUK"]
  <1>1. task' = [task EXCEPT ![t] = w] /\ task[t].pc = "enrollment" BY DEF LoadEnrollment, Step, At
  <1>2. w \in TaskRecord /\ Follows(task[t], w) /\ w.pc = "hasUK" /\ w.pub = keyPw[task[t].user]
    BY <1>1, OpOf, KeysTyped DEF TaskRecord, Follows, PC
  <1> HIDE DEF w
  <1>3. Path(task[t].op, w.pc) BY <1>1, <1>2, OpOf DEF Path
  <1>4. To(t, w) BY <1>1, <1>2, <1>3, OpOf, GoOn DEF Holds
  <1> QED BY <1>1, <1>2, <1>4 DEF Follows

\* A login returns its key, or goes on with it.
LEMMA HasUserKeyOne ==
  ASSUME Base, NEW t \in Tasks, HasUserKey(t)
  PROVE  /\ task[t].pc = "hasUK"
         /\ \/ /\ Took(t, Idle) /\ LoginReturns(t, task[t].pub)
               /\ task[t].pub # None => passwordWrapped /\ userKey[task[t].user] = None
            \/ /\ UNCHANGED Rest /\ result' = "none"
               /\ \E w : /\ To(t, w) /\ w.pub = task[t].pub /\ w.had = (userKey[w.user] # None)
                         /\ \/ w.pub # None /\ passwordWrapped /\ w.pc = "loadUK"
                            \/ w.pub # None /\ ~passwordWrapped /\ w.pc = "ukLoad"
                            \/ w.pub = None /\ passwordWrapped /\ w.pc = "insertPw"
  <1>0. task[t].pc = "hasUK" /\ UNCHANGED Tables BY DEF HasUserKey, At
  <1> DEFINE pc == IF task[t].pub # None THEN IF passwordWrapped THEN "loadUK" ELSE "ukLoad" ELSE "insertPw"
             w == [task[t] EXCEPT !.had = userKey[task[t].user] # None, !.pc = pc]
  <1>1. CASE \/ task[t].pub # None /\ passwordWrapped /\ ~(userKey[task[t].user] # None)
             \/ ~(task[t].pub # None) /\ ~passwordWrapped
    <2>1. LoginReturns(t, task[t].pub) BY <1>1 DEF HasUserKey
    <2>2. Took(t, Idle) BY <2>1, Ends DEF LoginReturns, Return
    <2> QED BY <1>0, <1>1, <2>1, <2>2
  <1>2. CASE ~(\/ task[t].pub # None /\ passwordWrapped /\ ~(userKey[task[t].user] # None)
               \/ ~(task[t].pub # None) /\ ~passwordWrapped)
    <2>1. task' = [task EXCEPT ![t] = w] /\ UNCHANGED Rest /\ result' = "none" BY <1>2 DEF HasUserKey, Step
    <2>2. PICK b \in BOOLEAN : b = (userKey[task[t].user] # None) OBVIOUS
    <2>3. w = [task[t] EXCEPT !.had = b, !.pc = pc] BY <2>2
    <2>4. pc \in {"loadUK", "ukLoad", "insertPw"} OBVIOUS
    <2> HIDE DEF pc, w
    <2>5. w \in TaskRecord /\ Follows(task[t], w) /\ w.pc = pc /\ w.pub = task[t].pub /\ w.had = b
      <3>1. pc \in PC /\ task[t] \in TaskRecord BY <2>4, OpOf DEF PC
      <3> QED BY <2>3, <3>1 DEF TaskRecord, Follows
    <2>6. Path(task[t].op, w.pc) BY <1>0, <2>4, <2>5, OpOf DEF Path, Enrolling, Obtaining
    <2>7. Holds(w) BY <2>5 DEF Holds, pc
    <2>8. To(t, w) BY <1>0, <2>1, <2>4, <2>5, <2>6, <2>7, GoOn
    <2>9. w.user = task[t].user BY <2>5 DEF Follows
    <2> QED BY <1>0, <1>2, <2>1, <2>2, <2>5, <2>8, <2>9 DEF pc
  <1> QED BY <1>1, <1>2

Overtaken(t, u) == \A q \in Tasks \ {t} : task[q].user = u => task'[q].over = TRUE

LEMMA OthersOver ==
  ASSUME Base, NEW t \in Tasks, NEW w, NEW u, task' = [Overtake(u) EXCEPT ![t] = w]
  PROVE  Overtaken(t, u)
  <1> SUFFICES ASSUME NEW q \in Tasks \ {t}, task[q].user = u PROVE task'[q].over = TRUE BY DEF Overtaken
  <1>1. task[q] \in TaskRecord BY OpOf
  <1>2. task'[q] = [task[q] EXCEPT !.over = @ \/ task[q].user = u] BY DEF Overtake
  <1>3. (task[q].over \/ task[q].user = u) = TRUE OBVIOUS
  <1>4. task'[q] = [task[q] EXCEPT !.over = TRUE] BY <1>2, <1>3
  <1> QED BY <1>1, <1>4 DEF TaskRecord

LEMMA InsertPwOne ==
  ASSUME Base, NEW t \in Tasks, InsertPw(t)
  PROVE  /\ task[t].pc = "insertPw" /\ UNCHANGED <<userKey, wrapped>>
         /\ \/ /\ UNCHANGED <<Rest, Tables>> /\ result' = "none"
               /\ \E w : To(t, w) /\ w.pc = "enrollment" /\ w.pub = task[t].pub
            \/ /\ keyPw[task[t].user] = None /\ minted' = minted + 1 /\ minted + 1 \in 1 .. MaxMint
               /\ keyPw' = [keyPw EXCEPT ![task[t].user] = minted + 1]
               /\ Overtaken(t, task[t].user)
               /\ \/ /\ task[t].had /\ UNCHANGED Rest /\ result' = "none"
                     /\ \E w : To(t, w) /\ w.pc = "loadUK" /\ w.pub = minted + 1
                  \/ /\ ~task[t].had /\ Took(t, Idle)
                     /\ sessions' = [sessions EXCEPT ![task[t].user] = @ \cup {minted + 1}]
                     /\ UNCHANGED <<passwordWrapped, owner, tokens>>
  <1> DEFINE u == task[t].user
  <1>0. task[t].pc = "insertPw" /\ UNCHANGED <<userKey, wrapped>> BY DEF InsertPw, At, Tables
  <1>1. CASE keyPw[u] # None
    <2> DEFINE w == [task[t] EXCEPT !.pc = "enrollment"]
    <2>1. task' = [task EXCEPT ![t] = w] /\ UNCHANGED <<Rest, Tables>> /\ result' = "none" BY <1>1 DEF InsertPw, Goto, Step
    <2>2. w \in TaskRecord /\ Follows(task[t], w) /\ w.pc = "enrollment" /\ w.pub = task[t].pub BY OpOf, Counters DEF TaskRecord, Follows
    <2> HIDE DEF w
    <2>3. Path(task[t].op, w.pc) BY <1>0, <2>2, OpOf DEF Path, Enrolling
    <2>4. To(t, w) BY <1>0, <2>1, <2>2, <2>3, OpOf, GoOn DEF Holds
    <2> QED BY <1>0, <2>1, <2>2, <2>4
  <1>2. CASE keyPw[u] = None
    <2>1. /\ minted' = minted + 1 /\ minted + 1 \in 1 .. MaxMint /\ keyPw' = [keyPw EXCEPT ![u] = minted + 1]
      BY <1>2, KeysTyped DEF InsertPw
    <2>2. CASE task[t].had
      <3> DEFINE w == [task[t] EXCEPT !.pub = minted + 1, !.pc = "loadUK"]
      <3>1. task' = [Overtake(u) EXCEPT ![t] = w] /\ UNCHANGED Rest /\ result' = "none" BY <1>2, <2>2 DEF InsertPw
      <3>2. w \in TaskRecord /\ Follows(task[t], w) /\ w.pc = "loadUK" /\ w.pub = minted + 1
        <4>1. "loadUK" \in PC /\ minted + 1 \in Key BY <2>1, Counters DEF PC
        <4> QED BY <4>1, OpOf DEF TaskRecord, Follows
      <3> HIDE DEF w
      <3>3. Path(task[t].op, w.pc) BY <1>0, <3>2, OpOf DEF Path, Enrolling
      <3>4. Holds(w) BY <2>1, <3>2, Counters DEF Holds
      <3>5. To(t, w) BY <1>0, <3>1, <3>2, <3>3, <3>4, GoOn
      <3>6. Overtaken(t, u) BY <3>1, OthersOver
      <3> QED BY <1>0, <1>2, <2>1, <2>2, <3>1, <3>2, <3>5, <3>6
    <2>3. CASE ~task[t].had
      <3>1. /\ task' = [Overtake(u) EXCEPT ![t] = Idle]
            /\ sessions' = [sessions EXCEPT ![u] = @ \cup {minted + 1}] /\ UNCHANGED <<passwordWrapped, owner, tokens>>
        BY <1>2, <2>3 DEF InsertPw
      <3>2. Took(t, Idle) BY <3>1, Ends
      <3>3. Overtaken(t, u) BY <3>1, OthersOver
      <3> QED BY <1>0, <1>2, <2>1, <2>3, <3>1, <3>2, <3>3
    <2> QED BY <2>2, <2>3
  <1> QED BY <1>1, <1>2

LEMMA LoadUKOne ==
  ASSUME Base, NEW t \in Tasks, LoadUK(t)
  PROVE  /\ task[t].pc = "loadUK"
         /\ \/ Took(t, Idle) /\ LoginReturns(t, task[t].pub) /\ userKey[task[t].user] = None
            \/ /\ UNCHANGED Rest /\ result' = "none"
               /\ \E w : To(t, w) /\ w.pc = "listSym" /\ w.pub = task[t].pub
  <1>0. task[t].pc = "loadUK" BY DEF LoadUK, At
  <1> DEFINE uk == userKey[task[t].user]
             w == [task[t] EXCEPT !.uk = uk, !.pc = "listSym"]
  <1>1. CASE uk = None
    <2>1. LoginReturns(t, task[t].pub) BY <1>1 DEF LoadUK
    <2>2. Took(t, Idle) BY <2>1, Ends DEF LoginReturns, Return
    <2> QED BY <1>0, <1>1, <2>1, <2>2
  <1>2. CASE uk # None
    <2>1. task' = [task EXCEPT ![t] = w] /\ UNCHANGED Rest /\ result' = "none" BY <1>2 DEF LoadUK, Step
    <2>2. w \in TaskRecord /\ Follows(task[t], w) /\ w.pc = "listSym" /\ w.pub = task[t].pub
      <3>1. "listSym" \in PC /\ task[t].user \in Users /\ uk \in Key BY <1>0, OpOf, KeysTyped DEF PC
      <3> HIDE DEF uk
      <3> QED BY <3>1, OpOf DEF TaskRecord, Follows
    <2> HIDE DEF w
    <2>3. Path(task[t].op, w.pc) BY <1>0, <2>2, OpOf DEF Path, Enrolling
    <2>4. To(t, w) BY <1>0, <2>1, <2>2, <2>3, OpOf, GoOn DEF Holds
    <2> QED BY <1>0, <2>1, <2>2, <2>4
  <1> QED BY <1>1, <1>2

LEMMA ListRowsOne ==
  ASSUME Base, NEW t \in Tasks, ListRows(t)
  PROVE  /\ UNCHANGED <<Rest, Tables>> /\ result' = "none"
         /\ \E w : /\ To(t, w) /\ w.pub = task[t].pub /\ w.uk = task[t].uk
                   /\ \/ /\ task[t].pc = "listSym" /\ w.pc = "toBoxes"
                         /\ \A f \in FileKeys : wrapped[f][w.user].scheme = 0 => f \in DOMAIN w.rows
                      \/ /\ task[t].pc = "listBox" /\ w.pc = "toSym"
                         /\ \A f \in FileKeys : wrapped[f][w.user].scheme = 1 => f \in DOMAIN w.rows
  <1> DEFINE u == task[t].user
             s == IF task[t].pc = "listSym" THEN 0 ELSE 1
             D == {f \in FileKeys : wrapped[f][u].scheme = s}
             pc == IF task[t].pc = "listSym" THEN "toBoxes" ELSE "toSym"
             rows == [f \in D |-> wrapped[f][u].key]
             w == [task[t] EXCEPT !.rows = rows, !.pc = pc]
  <1>1. task[t].pc \in {"listSym", "listBox"} /\ UNCHANGED <<Rest, Tables>> /\ result' = "none" BY DEF ListRows, Step
  <1>2. task' = [task EXCEPT ![t] = w] BY DEF ListRows, Step, At, RowsByScheme
  <1>3. u \in Users BY <1>1, OpOf
  <1>4. \A f \in D : wrapped[f][u].key \in 1 .. MaxMint
    <2>1. s \in {0, 1} OBVIOUS
    <2> HIDE DEF s
    <2> QED BY <1>3, <2>1, KeysTyped DEF Rows, NoRow
  <1>5. rows \in [D -> 1 .. MaxMint] /\ DOMAIN rows = D /\ D \in SUBSET FileKeys
    <2> HIDE DEF s, u
    <2> QED BY <1>4
  <1>6. rows \in Lists /\ pc \in PC /\ pc \in {"toBoxes", "toSym"} BY <1>5 DEF Lists, PC
  <1>7. w \in TaskRecord /\ Follows(task[t], w) /\ w.pc = pc /\ w.rows = rows /\ w.pub = task[t].pub /\ w.uk = task[t].uk /\ w.user = u
    <2> HIDE DEF rows, pc
    <2> QED BY <1>6, OpOf DEF TaskRecord, Follows
  <1>8. Path(task[t].op, w.pc)
    <2>1. task[t].op = "login" BY <1>1, OpOf DEF Enrolling, Unenrolling
    <2> QED BY <1>6, <1>7, <2>1 DEF Path, Enrolling, Unenrolling
  <1> HIDE DEF w, rows
  <1>9. To(t, w) BY <1>1, <1>2, <1>6, <1>7, <1>8, OpOf, GoOn DEF Holds
  <1> QED BY <1>1, <1>5, <1>7, <1>9

LEMMA ConvertRowOne ==
  ASSUME Base, NEW t \in Tasks, ConvertRow(t)
  PROVE  /\ task[t].pc \in {"toBoxes", "toSym"} /\ UNCHANGED <<Rest, userKey, keyPw, minted>>
         /\ \/ /\ DOMAIN task[t].rows = {} /\ UNCHANGED wrapped
               /\ \E w : /\ To(t, w) /\ w.pub = task[t].pub /\ w.uk = task[t].uk
                         /\ w.pc = IF task[t].pc = "toBoxes" THEN "dropUK" ELSE "dropPw"
            \/ Took(t, Idle) /\ UNCHANGED wrapped /\ result' = "failed"
            \/ \E f \in FileKeys : \E w :
                 /\ wrapped' = Updated(f, task[t].user, IF task[t].pc = "toBoxes" THEN Box(task[t].pub) ELSE Sym(task[t].uk))
                 /\ To(t, w) /\ w.pc = task[t].pc /\ w.pub = task[t].pub /\ w.uk = task[t].uk
                 /\ DOMAIN w.rows = DOMAIN task[t].rows \ {f}
  <1> DEFINE r == task[t]
             boxing == r.pc = "toBoxes"
  <1>0. r.pc \in {"toBoxes", "toSym"} /\ UNCHANGED Rest BY DEF ConvertRow
  <1>1. r.rows \in Lists /\ r.op = "login" /\ r \in TaskRecord
    <2>1. r.rows \in Lists BY <1>0 DEF Base, TypeOK
    <2> QED BY <1>0, <2>1, OpOf DEF Enrolling, Unenrolling
  <1>2. PICK D \in SUBSET FileKeys : r.rows \in [D -> 1 .. MaxMint] BY <1>1 DEF Lists
  <1>3. CASE DOMAIN r.rows = {}
    <2> DEFINE pc == IF boxing THEN "dropUK" ELSE "dropPw"
               w == [r EXCEPT !.pc = pc]
    <2>1. task' = [task EXCEPT ![t] = w] /\ UNCHANGED Tables BY <1>3 DEF ConvertRow, Goto, Step
    <2>2. pc \in {"dropUK", "dropPw"} OBVIOUS
    <2> HIDE DEF pc
    <2>3. pc \in PC BY <2>2 DEF PC
    <2>4. w \in TaskRecord /\ Follows(r, w) /\ w.pc = pc /\ w.pub = r.pub /\ w.uk = r.uk BY <1>1, <2>3 DEF TaskRecord, Follows
    <2> HIDE DEF w
    <2>5. Path(r.op, w.pc) BY <1>1, <2>2, <2>4 DEF Path, Enrolling, Unenrolling
    <2>6. Holds(w) BY <1>0, <2>4, OpOf DEF Holds, pc
    <2>7. To(t, w) BY <1>0, <2>1, <2>2, <2>4, <2>5, <2>6, GoOn
    <2> QED BY <1>0, <1>3, <2>1, <2>4, <2>7 DEF Tables, pc
  <1>4. CASE DOMAIN r.rows # {}
    <2>1. PICK f \in DOMAIN r.rows :
            IF r.rows[f] # (IF boxing THEN r.uk ELSE r.pub)
            THEN Return(t, "failed") /\ UNCHANGED Tables
            ELSE /\ wrapped' = Updated(f, r.user, IF boxing THEN Box(r.pub) ELSE Sym(r.uk))
                 /\ Step(t, [r EXCEPT !.rows = Drop(@, f)])
                 /\ UNCHANGED <<userKey, keyPw, minted>>
      BY <1>4 DEF ConvertRow
    <2>2. CASE r.rows[f] # (IF boxing THEN r.uk ELSE r.pub)
      <3>1. Return(t, "failed") /\ UNCHANGED Tables BY <2>1, <2>2
      <3>2. Took(t, Idle) BY <3>1, Ends DEF Return
      <3> QED BY <1>0, <3>1, <3>2 DEF Return, Tables
    <2>3. CASE ~(r.rows[f] # (IF boxing THEN r.uk ELSE r.pub))
      <3> DEFINE rows == Drop(r.rows, f)
                 w == [r EXCEPT !.rows = rows]
      <3>1. /\ wrapped' = Updated(f, r.user, IF boxing THEN Box(r.pub) ELSE Sym(r.uk))
            /\ task' = [task EXCEPT ![t] = w] /\ UNCHANGED <<userKey, keyPw, minted>>
        BY <2>1, <2>3 DEF Step
      <3>2. rows \in [D \ {f} -> 1 .. MaxMint] /\ DOMAIN rows = D \ {f} /\ f \in FileKeys /\ DOMAIN r.rows = D BY <1>2 DEF Drop
      <3>3. rows \in Lists BY <3>2 DEF Lists
      <3> HIDE DEF rows
      <3>4. w \in TaskRecord /\ Follows(r, w) /\ w.pc = r.pc /\ w.pub = r.pub /\ w.uk = r.uk /\ w.rows = rows
        BY <1>1, <3>3 DEF TaskRecord, Follows
      <3> HIDE DEF w
      <3>5. Path(r.op, w.pc) BY <1>0, <1>1, <3>4 DEF Path, Enrolling, Unenrolling
      <3>6. To(t, w) BY <1>0, <3>1, <3>3, <3>4, <3>5, OpOf, GoOn DEF Holds
      <3> QED BY <1>0, <3>1, <3>2, <3>4, <3>6
    <2> QED BY <2>2, <2>3
  <1> QED BY <1>3, <1>4

LEMMA DropUKOne ==
  ASSUME Base, NEW t \in Tasks, DropUK(t)
  PROVE  /\ task[t].pc = "dropUK" /\ Took(t, Idle) /\ LoginReturns(t, task[t].pub)
         /\ userKey' = [userKey EXCEPT ![task[t].user] = None] /\ UNCHANGED <<keyPw, wrapped, minted>>
  <1>1. task[t].pc = "dropUK" /\ LoginReturns(t, task[t].pub) /\ userKey' = [userKey EXCEPT ![task[t].user] = None] /\ UNCHANGED <<keyPw, wrapped, minted>>
    BY DEF DropUK, At
  <1>2. Took(t, Idle) BY <1>1, Ends DEF LoginReturns, Return
  <1> QED BY <1>1, <1>2

LEMMA DropPwOne ==
  ASSUME Base, NEW t \in Tasks, DropPw(t)
  PROVE  /\ task[t].pc = "dropPw" /\ result' = "none"
         /\ keyPw' = [keyPw EXCEPT ![task[t].user] = None] /\ UNCHANGED <<Rest, userKey, wrapped, minted>>
         /\ Overtaken(t, task[t].user) /\ \E w : To(t, w) /\ w.pc = "dropTokens" /\ w.pub = task[t].pub
  <1> DEFINE w == [task[t] EXCEPT !.pc = "dropTokens"]
             u == task[t].user
  <1>1. /\ task[t].pc = "dropPw" /\ result' = "none" /\ keyPw' = [keyPw EXCEPT ![u] = None] /\ UNCHANGED <<Rest, userKey, wrapped, minted>>
        /\ task' = [Overtake(u) EXCEPT ![t] = w]
    BY DEF DropPw, At
  <1>2. w \in TaskRecord /\ Follows(task[t], w) /\ w.pc = "dropTokens" /\ w.pub = task[t].pub
    <2>1. "dropTokens" \in PC BY DEF PC
    <2> QED BY <2>1, OpOf DEF TaskRecord, Follows
  <1> HIDE DEF w
  <1>3. Path(task[t].op, w.pc) BY <1>1, <1>2, OpOf DEF Path, Unenrolling
  <1>4. To(t, w) BY <1>1, <1>2, <1>3, OpOf, GoOn DEF Holds
  <1>5. Overtaken(t, u) BY <1>1, OthersOver
  <1> QED BY <1>1, <1>2, <1>4, <1>5

LEMMA DropTokensOne ==
  ASSUME Base, NEW t \in Tasks, DropTokens(t)
  PROVE  Took(t, Idle) /\ result' = "ok" /\ tokens' = [tokens EXCEPT ![task[t].user] = {}] /\ UNCHANGED <<passwordWrapped, owner, sessions, Tables>>
  <1>1. Took(t, Idle) BY Ends DEF DropTokens, Return
  <1> QED BY <1>1 DEF DropTokens, Return

\* Whoever needs the symmetric key goes on with the one it got.
LEMMA WithUKOne ==
  ASSUME Base, NEW t \in Tasks, NEW uk \in Key \ {None}, WithUK(t, uk), task[t].pc \in Obtaining
  PROVE  /\ result' \in {"none", "ok"}
         /\ \/ Took(t, Idle)
            \/ \E w : /\ To(t, w) /\ w.pub = task[t].pub /\ w.uk = uk
                      /\ w.pc = IF task[t].op = "login" THEN "listBox" ELSE "insertSym"
                      /\ task[t].op \in {"login", "alloc", "wrap"}
  <1>1. CASE task[t].op = "mint"
    <2>1. Return(t, "ok") BY <1>1 DEF WithUK
    <2>2. Took(t, Idle) BY <2>1, Ends DEF Return
    <2> QED BY <2>1, <2>2 DEF Return
  <1>2. CASE task[t].op # "mint"
    <2> DEFINE pc == IF task[t].op = "login" THEN "listBox" ELSE "insertSym"
               w == [task[t] EXCEPT !.uk = uk, !.pc = pc]
    <2>1. task' = [task EXCEPT ![t] = w] /\ result' = "none" BY <1>2 DEF WithUK, Step
    <2>2. task[t].op \in {"login", "alloc", "wrap"} /\ task[t].pc # "idle" BY <1>2, OpOf DEF Obtaining
    <2>3. pc \in {"listBox", "insertSym"} /\ Path(task[t].op, pc) BY <2>2 DEF Path, Unenrolling, Writing
    <2> HIDE DEF pc
    <2>4. pc \in PC BY <2>3 DEF PC
    <2>5. w \in TaskRecord /\ Follows(task[t], w) /\ w.pc = pc /\ w.pub = task[t].pub /\ w.uk = uk BY <2>4, OpOf DEF TaskRecord, Follows
    <2> HIDE DEF w
    <2>6. To(t, w) BY <2>1, <2>2, <2>3, <2>5, OpOf, GoOn DEF Holds
    <2> QED BY <2>1, <2>2, <2>5, <2>6 DEF pc
  <1> QED BY <1>1, <1>2

\* A step of loadOrCreateUK that only moves the program counter.
LEMMA StaysObtaining ==
  ASSUME Base, NEW t \in Tasks, NEW pc \in Obtaining, Goto(t, pc), task[t].pc \in Obtaining
  PROVE  result' = "none" /\ \E w : To(t, w) /\ w.pc = pc /\ w.pub = task[t].pub
  <1> DEFINE w == [task[t] EXCEPT !.pc = pc]
  <1>1. task' = [task EXCEPT ![t] = w] /\ result' = "none" BY DEF Goto, Step
  <1>2. task[t].pc # "idle" /\ Path(task[t].op, pc) /\ pc \in PC /\ pc \notin {"toBoxes", "toSym", "readerUK", "readerLoad"}
    BY OpOf DEF Path, Obtaining, PC
  <1>3. w \in TaskRecord /\ Follows(task[t], w) /\ w.pc = pc /\ w.pub = task[t].pub BY <1>2, OpOf DEF TaskRecord, Follows
  <1> HIDE DEF w
  <1>4. Holds(w) BY <1>3 DEF Holds, Obtaining
  <1>5. To(t, w) BY <1>1, <1>2, <1>3, <1>4, GoOn
  <1> QED BY <1>1, <1>3, <1>5

\* What the three of them do: the key of whoever goes on is the account's.
LEMMA ObtainOne ==
  ASSUME Base, NEW t \in Tasks, UKLoad(t) \/ UKInsert(t) \/ UKReload(t)
  PROVE  /\ task[t].pc \in Obtaining /\ UNCHANGED <<Rest, keyPw, wrapped>> /\ result' \in {"none", "ok", "failed"}
         /\ \/ UNCHANGED <<userKey, minted>>
            \/ /\ userKey[task[t].user] = None /\ userKey' = [userKey EXCEPT ![task[t].user] = minted + 1]
               /\ minted' = minted + 1 /\ minted + 1 \in 1 .. MaxMint
         /\ \/ Took(t, Idle)
            \/ \E w : To(t, w) /\ w.pc \in Obtaining /\ w.pub = task[t].pub
            \/ \E w : /\ To(t, w) /\ w.pub = task[t].pub /\ w.uk # None /\ w.uk = userKey'[w.user]
                      /\ w.pc = IF task[t].op = "login" THEN "listBox" ELSE "insertSym"
                      /\ task[t].op \in {"login", "alloc", "wrap"}
  <1>0. \A pc \in {"ukLoad", "ukInsert", "ukReload"} : pc \in Obtaining BY DEF Obtaining
  <1> DEFINE u == task[t].user
  <1>1. task[t].pc \in Obtaining /\ UNCHANGED <<Rest, keyPw, wrapped>> BY DEF UKLoad, UKInsert, UKReload, At, Obtaining, Tables
  <1>2. u \in Users /\ userKey[u] \in Key BY <1>1, OpOf, KeysTyped DEF Obtaining
  <1>3. ASSUME NEW w, Follows(task[t], w) PROVE w.user = u BY <1>3 DEF Follows
  <1>4. CASE UKLoad(t) \/ UKReload(t)
    <2>1. UNCHANGED <<userKey, minted>> BY <1>4 DEF UKLoad, UKReload, Tables
    <2>2. \/ Goto(t, "ukInsert") \/ Return(t, "failed")
          \/ WithUK(t, userKey[u]) /\ userKey[u] # None
      BY <1>4 DEF UKLoad, UKReload
    <2>3. CASE Goto(t, "ukInsert") BY <1>0, <1>1, <2>1, <2>3, StaysObtaining
    <2>4. CASE Return(t, "failed") BY <1>1, <2>1, <2>4, Ends DEF Return
    <2>5. CASE WithUK(t, userKey[u]) /\ userKey[u] # None
      <3>1. Took(t, Idle) \/ \E w : /\ To(t, w) /\ w.pub = task[t].pub /\ w.uk = userKey[u]
                                    /\ w.pc = IF task[t].op = "login" THEN "listBox" ELSE "insertSym"
                                    /\ task[t].op \in {"login", "alloc", "wrap"}
        BY <1>1, <1>2, <2>5, WithUKOne
      <3>2. result' \in {"none", "ok"} BY <1>1, <1>2, <2>5, WithUKOne
      <3> QED BY <1>1, <1>3, <2>1, <2>5, <3>1, <3>2 DEF To
    <2> QED BY <2>2, <2>3, <2>4, <2>5
  <1>5. CASE UKInsert(t) /\ userKey[u] # None
    <2>1. Goto(t, "ukReload") /\ UNCHANGED <<userKey, minted>> BY <1>5 DEF UKInsert, Tables
    <2> QED BY <1>0, <1>1, <2>1, StaysObtaining
  <1>6. CASE UKInsert(t) /\ userKey[u] = None
    <2>1. /\ minted' = minted + 1 /\ minted + 1 \in 1 .. MaxMint /\ userKey' = [userKey EXCEPT ![u] = minted + 1]
          /\ WithUK(t, minted + 1)
      BY <1>6, KeysTyped DEF UKInsert
    <2>2. minted + 1 \in Key /\ minted + 1 # None /\ userKey'[u] = minted + 1
      <3>1. userKey \in [Users -> Key] BY DEF Base, TypeOK
      <3> QED BY <1>2, <2>1, <3>1, Counters
    <2>3. Took(t, Idle) \/ \E w : /\ To(t, w) /\ w.pub = task[t].pub /\ w.uk = minted + 1
                                  /\ w.pc = IF task[t].op = "login" THEN "listBox" ELSE "insertSym"
                                  /\ task[t].op \in {"login", "alloc", "wrap"}
      BY <1>1, <2>1, <2>2, WithUKOne
    <2>4. result' \in {"none", "ok"} BY <1>1, <2>1, <2>2, WithUKOne
    <2> QED BY <1>1, <1>3, <1>6, <2>1, <2>2, <2>3, <2>4 DEF To
  <1> QED BY <1>4, <1>5, <1>6

LEMMA PublicKeyForOne ==
  ASSUME Base, NEW t \in Tasks, PublicKeyFor(t)
  PROVE  /\ task[t].pc = "pubKey" /\ UNCHANGED <<Rest, Tables>> /\ result' = "none"
         /\ \E w : /\ To(t, w) /\ w.pub = keyPw[w.user]
                   /\ w.pc = IF w.pub = None THEN "ukLoad" ELSE "insertBox"
  <1> DEFINE pub == keyPw[task[t].user]
             pc == IF pub = None THEN "ukLoad" ELSE "insertBox"
             w == [task[t] EXCEPT !.pub = pub, !.pc = pc]
  <1>1. task[t].pc = "pubKey" /\ UNCHANGED <<Rest, Tables>> /\ result' = "none" /\ task' = [task EXCEPT ![t] = w]
    BY DEF PublicKeyFor, At, Step
  <1>2. pc \in {"ukLoad", "insertBox"} /\ task[t].op \in {"alloc", "wrap"} BY <1>1, OpOf DEF Writing
  <1>3. pub \in Key BY <1>1, OpOf, KeysTyped
  <1> HIDE DEF pc, pub
  <1>4. pc \in PC BY <1>2 DEF PC
  <1>5. w \in TaskRecord /\ Follows(task[t], w) /\ w.pc = pc /\ w.pub = pub BY <1>3, <1>4, OpOf DEF TaskRecord, Follows
  <1> HIDE DEF w
  <1>6. Path(task[t].op, w.pc) BY <1>2, <1>5 DEF Path, Obtaining, Writing
  <1>7. Holds(w) BY <1>5 DEF Holds, pc
  <1>8. To(t, w) BY <1>1, <1>2, <1>5, <1>6, <1>7, GoOn
  <1> QED BY <1>1, <1>5, <1>8 DEF pc, pub, Follows

\* The wrap a writer inserts, if there is none.
Insert(t) == [(IF task[t].pc = "insertBox" THEN Box(task[t].pub) ELSE Sym(task[t].uk)) EXCEPT !.late = Late(t)]

LEMMA InsertWrapOne ==
  ASSUME Base, NEW t \in Tasks, InsertWrap(t)
  PROVE  /\ task[t].pc \in {"insertBox", "insertSym"} /\ task[t].fk \in FileKeys /\ task[t].user \in Users
         /\ Took(t, Idle) /\ result' = "ok"
         /\ UNCHANGED <<passwordWrapped, tokens, sessions, userKey, keyPw, minted>>
         /\ wrapped' = [wrapped EXCEPT ![task[t].fk][task[t].user] = IF @ # NoRow THEN @ ELSE Insert(t)]
         /\ owner' = IF task[t].op = "alloc" THEN [owner EXCEPT ![task[t].fk] = task[t].user] ELSE owner
  <1>1. task[t].pc \in {"insertBox", "insertSym"} /\ Return(t, "ok") BY DEF InsertWrap
  <1>2. task[t].fk \in FileKeys /\ task[t].user \in Users BY <1>1, OpOf DEF Writing
  <1>3. Took(t, Idle) BY <1>1, Ends DEF Return
  <1> QED BY <1>1, <1>2, <1>3 DEF InsertWrap, Return, Insert

LEMMA ReadAsOwnerOne ==
  ASSUME Base, NEW t \in Tasks, ReadAsOwner(t)
  PROVE  /\ task[t].pc \in {"ownerUK", "ownerLoad", "ownerRow"} /\ UNCHANGED <<Rest, Tables>> /\ result' \in {"none", "ok", "unresolvable"}
         /\ \/ Took(t, Idle)
            \/ \E w : /\ To(t, w) /\ w.pub = task[t].pub /\ w.pc \in {"ownerLoad", "ownerRow", "readerRow"}
                      /\ w.pc = "readerRow" => userKey[owner[w.fk]] = None
  <1> DEFINE r == task[t]
             o == owner[r.fk]
  <1>1. r.pc \in {"ownerUK", "ownerLoad", "ownerRow"} /\ UNCHANGED <<Rest, Tables>> BY DEF ReadAsOwner
  <1>2. r.op = "read" /\ r \in TaskRecord /\ r.fk \in FileKeys BY <1>1, OpOf DEF Reading
  <1>3. CASE r.pc = "ownerUK"
    <2> DEFINE pc == IF userKey[o] # None THEN "ownerLoad" ELSE "readerRow"
               w == [r EXCEPT !.pc = pc]
    <2>1. task' = [task EXCEPT ![t] = w] /\ result' = "none" BY <1>3 DEF ReadAsOwner, Goto, Step
    <2>2. pc \in {"ownerLoad", "readerRow"} OBVIOUS
    <2> HIDE DEF pc
    <2>3. pc \in PC /\ Path(r.op, pc) BY <1>2, <2>2 DEF PC, Path, Reading
    <2>4. w \in TaskRecord /\ Follows(r, w) /\ w.pc = pc /\ w.pub = r.pub /\ w.fk = r.fk BY <1>2, <2>3 DEF TaskRecord, Follows
    <2> HIDE DEF w
    <2>5. To(t, w) BY <1>1, <2>1, <2>2, <2>3, <2>4, OpOf, GoOn DEF Holds
    <2> QED BY <1>1, <2>1, <2>2, <2>4, <2>5 DEF pc
  <1>4. CASE r.pc = "ownerLoad" /\ userKey[o] # None
    <2> DEFINE w == [r EXCEPT !.uk = userKey[o], !.pc = "ownerRow"]
    <2>1. task' = [task EXCEPT ![t] = w] /\ result' = "none" BY <1>4 DEF ReadAsOwner, Step
    <2>2. userKey[o] \in Key /\ "ownerRow" \in PC BY <1>2, KeysTyped DEF PC, Base, OwnedReads
    <2>3. w \in TaskRecord /\ Follows(r, w) /\ w.pc = "ownerRow" /\ w.pub = r.pub BY <1>2, <2>2 DEF TaskRecord, Follows
    <2> HIDE DEF w
    <2>4. Path(r.op, w.pc) BY <1>2, <2>3 DEF Path, Reading
    <2>5. To(t, w) BY <1>1, <2>1, <2>3, <2>4, OpOf, GoOn DEF Holds
    <2> QED BY <1>1, <2>1, <2>3, <2>5
  <1>5. CASE (r.pc = "ownerLoad" /\ userKey[o] = None) \/ r.pc = "ownerRow"
    <2>1. PICK out \in {"ok", "unresolvable"} : Return(t, out) BY <1>5 DEF ReadAsOwner
    <2>2. Took(t, Idle) BY <2>1, Ends DEF Return
    <2> QED BY <1>1, <2>1, <2>2 DEF Return
  <1> QED BY <1>1, <1>3, <1>4, <1>5

LEMMA ResolveIdentityOne ==
  ASSUME Base, NEW t \in Tasks, ResolveIdentity(t)
  PROVE  /\ task[t].pc \in {"readerRow", "readerUK", "readerLoad"} /\ UNCHANGED <<Rest, Tables>>
         /\ result' = "integrity" =>
              /\ task[t].pc = "readerUK" /\ userKey[task[t].user] = None
              /\ task[t].pub # None /\ ~OpensBox(task[t].rows, task[t].pub)
         /\ result' \in {"none", "ok", "locked", "integrity", "unresolvable"}
         /\ \/ Took(t, Idle)
            \/ \E w : /\ To(t, w) /\ w.pub = task[t].pub
                      /\ \/ task[t].pc = "readerRow" /\ w.pc = "readerUK" /\ w.rows = wrapped[w.fk][w.user] /\ w.rows # NoRow
                         \/ task[t].pc = "readerUK" /\ w.pc = "readerLoad"
  <1> DEFINE r == task[t]
             row == wrapped[r.fk][r.user]
             uk == userKey[r.user]
  <1>1. r.pc \in {"readerRow", "readerUK", "readerLoad"} /\ UNCHANGED <<Rest, Tables>> BY DEF ResolveIdentity
  <1>2. r.op = "read" /\ r \in TaskRecord /\ r.fk \in FileKeys /\ r.user \in Users BY <1>1, OpOf DEF Reading
  <1>3. row \in Rows BY <1>2, KeysTyped
  <1>4. CASE r.pc = "readerRow" /\ row # NoRow
    <2> DEFINE w == [r EXCEPT !.rows = row, !.pc = "readerUK"]
    <2>1. task' = [task EXCEPT ![t] = w] /\ result' = "none" BY <1>4 DEF ResolveIdentity, Step
    <2> HIDE DEF row
    <2>2. "readerUK" \in PC BY DEF PC
    <2>3. w \in TaskRecord /\ Follows(r, w) /\ w.pc = "readerUK" /\ w.pub = r.pub /\ w.rows = row BY <1>2, <1>3, <2>2 DEF TaskRecord, Follows
    <2> HIDE DEF w
    <2>4. Path(r.op, w.pc) BY <1>2, <2>3 DEF Path, Reading
    <2>5. To(t, w) BY <1>1, <1>3, <1>4, <2>1, <2>3, <2>4, OpOf, GoOn DEF Holds
    <2> QED BY <1>1, <1>4, <2>1, <2>3, <2>5 DEF row, Follows
  <1>5. CASE r.pc = "readerUK" /\ uk # None
    <2> DEFINE w == [r EXCEPT !.pc = "readerLoad"]
    <2>1. task' = [task EXCEPT ![t] = w] /\ result' = "none" BY <1>5 DEF ResolveIdentity, Goto, Step
    <2>2. "readerLoad" \in PC BY DEF PC
    <2>3. w \in TaskRecord /\ Follows(r, w) /\ w.pc = "readerLoad" /\ w.pub = r.pub /\ w.rows = r.rows BY <1>2, <2>2 DEF TaskRecord, Follows
    <2> HIDE DEF w
    <2>4. Path(r.op, w.pc) BY <1>2, <2>3 DEF Path, Reading
    <2>5. r.rows \in Rows \ {NoRow} BY <1>5 DEF Base, TypeOK
    <2>6. To(t, w) BY <1>1, <2>1, <2>3, <2>4, <2>5, OpOf, GoOn DEF Holds
    <2> QED BY <1>1, <1>5, <2>1, <2>3, <2>6
  <1>6. CASE r.pc = "readerUK" /\ uk = None
    <2>1. Return(t, IF r.pub = None THEN "locked" ELSE IF OpensBox(r.rows, r.pub) THEN "ok" ELSE "integrity")
      BY <1>6 DEF ResolveIdentity
    <2>2. Took(t, Idle) BY <2>1, Ends DEF Return
    <2> QED BY <1>1, <1>6, <2>1, <2>2 DEF Return
  <1>7. CASE (r.pc = "readerRow" /\ row = NoRow) \/ r.pc = "readerLoad"
    <2>1. PICK out \in {"locked", "ok", "unresolvable"} : Return(t, out) BY <1>7 DEF ResolveIdentity
    <2>2. Took(t, Idle) BY <2>1, Ends DEF Return
    <2> QED BY <1>1, <2>1, <2>2 DEF Return
  <1> QED BY <1>1, <1>4, <1>5, <1>6, <1>7

\* Every step of a request takes it on or ends it.
LEMMA ProceedsOne ==
  ASSUME Base, NEW t \in Tasks, Proceeds(t)
  PROVE  task[t].pc # "idle" /\ (Took(t, Idle) \/ \E w : To(t, w))
  <1>1. CASE LoadEnrollment(t) \/ HasUserKey(t) \/ InsertPw(t) \/ LoadUK(t) \/ ListRows(t) \/ ConvertRow(t)
    BY <1>1, LoadEnrollmentOne, HasUserKeyOne, InsertPwOne, LoadUKOne, ListRowsOne, ConvertRowOne
  <1>2. CASE DropUK(t) \/ DropPw(t) \/ DropTokens(t)
    <2>1. DropTokens(t) => task[t].pc = "dropTokens" BY DEF DropTokens, At
    <2> QED BY <1>2, <2>1, DropUKOne, DropPwOne, DropTokensOne
  <1>3. CASE UKLoad(t) \/ UKInsert(t) \/ UKReload(t)
    <2>1. task[t].pc # "idle" BY <1>3, ObtainOne DEF Obtaining
    <2> QED BY <1>3, <2>1, ObtainOne
  <1>4. CASE PublicKeyFor(t) \/ InsertWrap(t) \/ ReadAsOwner(t) \/ ResolveIdentity(t)
    BY <1>4, PublicKeyForOne, InsertWrapOne, ReadAsOwnerOne, ResolveIdentityOne
  <1> QED BY <1>1, <1>2, <1>3, <1>4 DEF Proceeds

LEMMA LoginReturnsTypes ==
  ASSUME Base, NEW t \in Tasks, NEW key \in Key, LoginReturns(t, key), task[t].user \in Users
  PROVE  /\ sessions' \in [Users -> SUBSET (1 .. MaxMint)] /\ result' \in {"ok", "key"}
         /\ UNCHANGED <<passwordWrapped, owner, tokens>>
  <1>1. key # None => key \in 1 .. MaxMint BY KeysTyped
  <1> QED BY <1>1 DEF LoginReturns, Return, Base, TypeOK

LEMMA RowTypes == \A k \in 1 .. MaxMint, b \in BOOLEAN : /\ Sym(k) \in Rows /\ Box(k) \in Rows
                                                        /\ [Sym(k) EXCEPT !.late = b] \in Rows /\ [Box(k) EXCEPT !.late = b] \in Rows
  BY DEF Sym, Box, Rows

\* What a conversion or a writer puts into a row is a wrap.
LEMMA Wraps ==
  ASSUME Base, NEW t \in Tasks
  PROVE  /\ task[t].pc \in {"toBoxes", "insertBox"} => task[t].pub \in 1 .. MaxMint
         /\ task[t].pc \in {"toSym", "insertSym"} => task[t].uk \in 1 .. MaxMint
  <1>1. task[t].pub \in Key /\ task[t].uk \in Key BY OpOf DEF TaskRecord
  <1> QED BY <1>1, OpOf, KeysTyped DEF Holds

LEMMA InsertTyped ==
  ASSUME Base, NEW t \in Tasks, task[t].pc \in {"insertBox", "insertSym"}
  PROVE  /\ Insert(t) \in Rows /\ Insert(t) # NoRow /\ Insert(t).late = Late(t)
         /\ task[t].pc = "insertBox" => OpensBox(Insert(t), task[t].pub)
         /\ task[t].pc = "insertSym" => OpensSym(Insert(t), task[t].uk)
  <1>1. PICK b \in BOOLEAN : b = Late(t)
    <2>1. CASE Late(t)
      <3>1. TRUE \in BOOLEAN /\ TRUE = Late(t) BY <2>1
      <3> QED BY <3>1
    <2>2. CASE ~Late(t)
      <3>1. FALSE \in BOOLEAN /\ FALSE = Late(t) BY <2>2
      <3> QED BY <3>1
    <2> QED BY <2>1, <2>2
  <1>2. CASE task[t].pc = "insertBox"
    <2> DEFINE k == task[t].pub
    <2>1. Insert(t) = [Box(k) EXCEPT !.late = b] BY <1>1, <1>2 DEF Insert
    <2>2. k \in 1 .. MaxMint BY <1>2, Wraps
    <2> HIDE DEF k
    <2>3. [Box(k) EXCEPT !.late = b] = [scheme |-> 1, key |-> k, late |-> b] BY DEF Box
    <2>4. Insert(t) \in Rows /\ Insert(t) # NoRow /\ Insert(t).late = b /\ OpensBox(Insert(t), k)
      BY <2>1, <2>2, <2>3 DEF Rows, NoRow, OpensBox
    <2> QED BY <1>1, <1>2, <2>4 DEF k
  <1>3. CASE task[t].pc = "insertSym"
    <2> DEFINE k == task[t].uk
    <2>1. Insert(t) = [Sym(k) EXCEPT !.late = b] BY <1>1, <1>3 DEF Insert
    <2>2. k \in 1 .. MaxMint BY <1>3, Wraps
    <2> HIDE DEF k
    <2>3. [Sym(k) EXCEPT !.late = b] = [scheme |-> 0, key |-> k, late |-> b] BY DEF Sym
    <2>4. Insert(t) \in Rows /\ Insert(t) # NoRow /\ Insert(t).late = b /\ OpensSym(Insert(t), k)
      BY <2>1, <2>2, <2>3 DEF Rows, NoRow, OpensSym
    <2> QED BY <1>1, <1>3, <2>4 DEF k
  <1> QED BY <1>2, <1>3

LEMMA TablesStep ==
  ASSUME Base, Next, mix' = mix
  PROVE  /\ passwordWrapped' \in BOOLEAN
         /\ userKey' \in [Users -> Key] /\ keyPw' \in [Users -> Key]
         /\ wrapped' \in [FileKeys -> [Users -> Rows]]
         /\ owner' \in [FileKeys -> Users \cup {None}]
         /\ tokens' \in [Users -> SUBSET [key : 1 .. MaxMint, live : BOOLEAN]]
         /\ sessions' \in [Users -> SUBSET (1 .. MaxMint)]
         /\ minted' \in Key
         /\ result' \in Outcome
  <1>0. /\ passwordWrapped \in BOOLEAN /\ userKey \in [Users -> Key] /\ keyPw \in [Users -> Key]
        /\ wrapped \in [FileKeys -> [Users -> Rows]] /\ owner \in [FileKeys -> Users \cup {None}]
        /\ tokens \in [Users -> SUBSET [key : 1 .. MaxMint, live : BOOLEAN]]
        /\ sessions \in [Users -> SUBSET (1 .. MaxMint)] /\ minted \in Key
        /\ None \in Key /\ \A k \in 1 .. MaxMint : k \in Key
    BY Counters DEF Base, TypeOK
  <1>1. {"none", "ok", "key", "failed", "locked", "integrity", "unresolvable"} \subseteq Outcome BY DEF Outcome
  <1>2. ASSUME NEW t \in Tasks, Begins(t) PROVE UNCHANGED <<Rest, Tables>> /\ result' = "none"
    BY <1>2, BeginsOne
  <1>3. ASSUME NEW t \in Tasks, Proceeds(t), ~InsertWrap(t), ~ConvertRow(t), task[t].user \in Users
        PROVE  /\ passwordWrapped' = passwordWrapped /\ owner' = owner /\ wrapped' = wrapped
               /\ userKey' \in [Users -> Key] /\ keyPw' \in [Users -> Key] /\ minted' \in Key
               /\ tokens' \in [Users -> SUBSET [key : 1 .. MaxMint, live : BOOLEAN]]
               /\ sessions' \in [Users -> SUBSET (1 .. MaxMint)]
               /\ result' \in Outcome
    <2>0. task[t].pub \in Key BY OpOf DEF TaskRecord
    <2>1. CASE LoadEnrollment(t) \/ ListRows(t) \/ PublicKeyFor(t) \/ ReadAsOwner(t) \/ ResolveIdentity(t)
      <3>1. UNCHANGED <<Rest, Tables>> /\ result' \in {"none", "ok", "locked", "integrity", "unresolvable"}
        BY <2>1, ListRowsOne, PublicKeyForOne, ReadAsOwnerOne, ResolveIdentityOne DEF LoadEnrollment, Step
      <3> QED BY <1>0, <1>1, <3>1 DEF Rest, Tables
    <2>2. CASE HasUserKey(t) \/ LoadUK(t) \/ DropUK(t)
      <3>1. (LoginReturns(t, task[t].pub) \/ (UNCHANGED Rest /\ result' = "none")) /\ UNCHANGED <<keyPw, wrapped, minted>>
            /\ (userKey' = userKey \/ userKey' = [userKey EXCEPT ![task[t].user] = None])
        BY <2>2, HasUserKeyOne, LoadUKOne, DropUKOne DEF HasUserKey, LoadUK, Tables
      <3>2. /\ sessions' \in [Users -> SUBSET (1 .. MaxMint)] /\ result' \in {"none", "ok", "key"}
            /\ UNCHANGED <<passwordWrapped, owner, tokens>>
        BY <1>0, <1>3, <2>0, <3>1, LoginReturnsTypes DEF Rest
      <3> QED BY <1>0, <1>1, <3>1, <3>2
    <2>3. CASE InsertPw(t)
      <3>1. /\ passwordWrapped' = passwordWrapped /\ owner' = owner /\ wrapped' = wrapped /\ userKey' = userKey /\ tokens' = tokens
            /\ keyPw' \in [Users -> Key] /\ minted' \in Key
            /\ sessions' \in [Users -> SUBSET (1 .. MaxMint)]
        BY <1>0, <2>3, InsertPwOne DEF Rest, Tables
      <3>2. result' \in {"none", "key"} BY <2>3 DEF InsertPw, Goto, Step
      <3> QED BY <1>0, <1>1, <3>1, <3>2
    <2>4. CASE DropPw(t) \/ DropTokens(t)
      BY <1>0, <1>1, <2>4, DropPwOne, DropTokensOne DEF Rest, Tables
    <2>5. CASE UKLoad(t) \/ UKInsert(t) \/ UKReload(t)
      BY <1>0, <1>1, <2>5, ObtainOne DEF Rest
    <2> QED BY <1>3, <2>1, <2>2, <2>3, <2>4, <2>5 DEF Proceeds
  <1>4. ASSUME NEW t \in Tasks, ConvertRow(t)
        PROVE  wrapped' \in [FileKeys -> [Users -> Rows]] /\ UNCHANGED <<Rest, userKey, keyPw, minted>> /\ result' \in {"none", "failed"}
    <2>1. task[t].pc \in {"toBoxes", "toSym"} /\ UNCHANGED <<Rest, userKey, keyPw, minted>> BY <1>4, ConvertRowOne
    <2>2. result' \in {"none", "failed"} BY <1>4 DEF ConvertRow, Goto, Step, Return
    <2>3. (IF task[t].pc = "toBoxes" THEN Box(task[t].pub) ELSE Sym(task[t].uk)) \in Rows /\ task[t].user \in Users
      BY <2>1, OpOf, Wraps, RowTypes
    <2>4. wrapped' = wrapped \/ \E f \in FileKeys : wrapped' = Updated(f, task[t].user, IF task[t].pc = "toBoxes" THEN Box(task[t].pub) ELSE Sym(task[t].uk))
      BY <1>4, ConvertRowOne
    <2>5. wrapped' \in [FileKeys -> [Users -> Rows]] BY <1>0, <2>3, <2>4 DEF Updated
    <2> QED BY <2>1, <2>2, <2>5
  <1>5. ASSUME NEW t \in Tasks, InsertWrap(t)
        PROVE  /\ wrapped' \in [FileKeys -> [Users -> Rows]] /\ owner' \in [FileKeys -> Users \cup {None}]
               /\ UNCHANGED <<passwordWrapped, tokens, sessions, userKey, keyPw, minted>> /\ result' = "ok"
    <2> DEFINE r == task[t]
               row == Insert(t)
    <2>1. r.fk \in FileKeys /\ r.user \in Users /\ row \in Rows BY <1>5, InsertWrapOne, InsertTyped
    <2>2. /\ wrapped' = [wrapped EXCEPT ![r.fk][r.user] = IF @ # NoRow THEN @ ELSE row]
          /\ owner' = IF r.op = "alloc" THEN [owner EXCEPT ![r.fk] = r.user] ELSE owner
          /\ UNCHANGED <<passwordWrapped, tokens, sessions, userKey, keyPw, minted>> /\ result' = "ok"
      BY <1>5, InsertWrapOne
    <2> HIDE DEF row, r
    <2>3. wrapped' \in [FileKeys -> [Users -> Rows]] BY <1>0, <2>1, <2>2
    <2>4. owner' \in [FileKeys -> Users \cup {None}]
      <3>1. CASE r.op = "alloc" BY <1>0, <2>1, <2>2, <3>1
      <3>2. CASE r.op # "alloc" BY <1>0, <2>2, <3>2
      <3> QED BY <3>1, <3>2
    <2> QED BY <2>2, <2>3, <2>4
  <1>6. ASSUME NEW u \in Users, IssueToken(u)
        PROVE  /\ tokens' \in [Users -> SUBSET [key : 1 .. MaxMint, live : BOOLEAN]]
               /\ UNCHANGED <<passwordWrapped, owner, sessions, Tables>> /\ result' = "none"
    <2>1. PICK k \in sessions[u] : tokens' = [tokens EXCEPT ![u] = @ \cup {[key |-> k, live |-> keyPw[u] = k]}] BY <1>6 DEF IssueToken
    <2>2. PICK b \in BOOLEAN : b = (keyPw[u] = k) OBVIOUS
    <2>3. [key |-> k, live |-> keyPw[u] = k] = [key |-> k, live |-> b] BY <2>2
    <2>4. tokens' = [tokens EXCEPT ![u] = @ \cup {[key |-> k, live |-> b]}] BY <2>1, <2>3
    <2>5. tokens' \in [Users -> SUBSET [key : 1 .. MaxMint, live : BOOLEAN]] BY <1>0, <2>4
    <2> QED BY <1>6, <2>5 DEF IssueToken
  <1>7. CASE \E t \in Tasks : Begins(t) BY <1>0, <1>1, <1>2, <1>7 DEF Rest, Tables
  <1>8. CASE \E t \in Tasks : Proceeds(t)
    <2>1. PICK t \in Tasks : Proceeds(t) BY <1>8
    <2>2. task[t].user \in Users BY <2>1, ProceedsOne, OpOf
    <2> QED BY <1>0, <1>1, <1>3, <1>4, <1>5, <2>1, <2>2 DEF Rest
  <1>9. CASE \E u \in Users : IssueToken(u) BY <1>0, <1>1, <1>6, <1>9 DEF Tables
  <1>10. CASE \E f \in FileKeys, u \in Users : Unwrap(f, u)
    <2>1. PICK f \in FileKeys, u \in Users : Unwrap(f, u) BY <1>10
    <2>2. NoRow \in Rows BY DEF Rows
    <2> QED BY <1>0, <1>1, <2>1, <2>2 DEF Unwrap
  <1>11. CASE Restart BY <1>0, <1>1, <1>11 DEF Restart
  <1> QED BY <1>7, <1>8, <1>9, <1>10, <1>11, Splits

LEMMA TookFine ==
  ASSUME Base, NEW t \in Tasks, NEW w, Took(t, w)
  PROVE  task' \in [Tasks -> TaskRecord] /\ \A q \in Tasks : Fine(task'[q])
  <1>1. ASSUME NEW q \in Tasks \ {t} PROVE Fine(task'[q])
    <2>1. Same(task'[q], task[q]) BY DEF Took, Others
    <2>2. Fine(task[q]) BY DEF Base, TypeOK, Fine
    <2> QED BY <2>1, <2>2 DEF Same, Fine, Fits, Holds
  <1> QED BY <1>1 DEF Took

\* What a step does to the requests.
Began(w) ==
  /\ w.over = FALSE /\ w.user \in Users /\ w.op # "idle"
  /\ w.op = "read" => w.fk \in FileKeys /\ owner[w.fk] # None
  /\ w.op = "alloc" => w.fk \in FileKeys /\ Unused(w.fk)

LEMMA Moves ==
  ASSUME Base, Next, mix' = mix
  PROVE  \/ task' = task
         \/ task' = [t \in Tasks |-> Idle]
         \/ \E t \in Tasks : \E w : Took(t, w) /\ (w = Idle \/ To(t, w) \/ (Began(w) /\ UNCHANGED owner))
  <1>1. ASSUME NEW t \in Tasks, Begins(t) PROVE \E w : Took(t, w) /\ Began(w) /\ UNCHANGED owner
    <2>1. UNCHANGED owner BY <1>1, BeginsOne DEF Rest
    <2>2. PICK w \in TaskRecord :
              /\ Took(t, w) /\ w.over = FALSE /\ w.user \in Users /\ w.op \in Ops
              /\ \/ w.op = "login" /\ w.pc = "enrollment" /\ w.pub = None
                 \/ w.op = "mint" /\ w.pc = "ukLoad" /\ w.pub = None
                 \/ w.op = "alloc" /\ w.pc = "pubKey" /\ w.fk \in FileKeys /\ Unused(w.fk) /\ w.pub = None
                 \/ w.op = "wrap" /\ w.pc = "pubKey" /\ w.fk \in FileKeys /\ w.pub = None
                 \/ w.op = "read" /\ w.pc = "ownerUK" /\ w.fk \in FileKeys /\ owner[w.fk] # None /\ w.pub \in sessions[w.user] \cup {None}
      BY <1>1, BeginsOne
    <2>3. Began(w) BY <2>2 DEF Began
    <2> QED BY <2>1, <2>2, <2>3
  <1>2. ASSUME NEW t \in Tasks, Proceeds(t) PROVE Took(t, Idle) \/ \E w : To(t, w)
    BY <1>2, ProceedsOne
  <1>3. (\E u \in Users : IssueToken(u)) => task' = task BY DEF IssueToken
  <1>4. (\E f \in FileKeys, u \in Users : Unwrap(f, u)) => task' = task BY DEF Unwrap
  <1>5. Restart => task' = [t \in Tasks |-> Idle] BY DEF Restart
  <1> QED BY <1>1, <1>2, <1>3, <1>4, <1>5, Splits DEF To

\* Only a writer sets the owner of a file, and a file keeps an owner.
LEMMA Owners ==
  ASSUME Base, Next, mix' = mix
  PROVE  \/ UNCHANGED owner
         \/ \E t \in Tasks : /\ InsertWrap(t) /\ task[t].op = "alloc" /\ task[t].fk \in FileKeys /\ task[t].user \in Users
                             /\ Took(t, Idle) /\ owner' = [owner EXCEPT ![task[t].fk] = task[t].user]
  <1>1. ASSUME NEW t \in Tasks, Begins(t) PROVE UNCHANGED owner BY <1>1, BeginsOne DEF Rest
  <1>2. ASSUME NEW t \in Tasks, Proceeds(t), ~InsertWrap(t) PROVE UNCHANGED owner
    BY <1>2 DEF Proceeds, LoadEnrollment, HasUserKey, InsertPw, LoadUK, ListRows, ConvertRow, DropUK, DropPw, DropTokens,
                UKLoad, UKInsert, UKReload, PublicKeyFor, ReadAsOwner, ResolveIdentity, LoginReturns, Rest
  <1>3. (\E u \in Users : IssueToken(u)) => UNCHANGED owner BY DEF IssueToken
  <1>4. (\E f \in FileKeys, u \in Users : Unwrap(f, u)) => UNCHANGED owner BY DEF Unwrap
  <1>5. Restart => UNCHANGED owner BY DEF Restart
  <1> QED BY <1>1, <1>2, <1>3, <1>4, <1>5, Splits, InsertWrapOne

LEMMA BaseInit == Init => Base
  <1> SUFFICES ASSUME Init PROVE Base OBVIOUS
  <1>1. task = [t \in Tasks |-> Idle] /\ Idle \in TaskRecord /\ Fine(Idle) BY IdleTask DEF Init
  <1>2. task \in [Tasks -> TaskRecord] /\ \A t \in Tasks : task[t] = Idle
    <2> HIDE DEF TaskRecord, Idle
    <2> QED BY <1>1
  <1>3. NoRow \in Rows /\ None \in Key /\ 0 \in Key /\ "none" \in Outcome BY KeysAssumption DEF Rows, None, Key, Outcome
  <1>4. TypeOK BY <1>1, <1>2, <1>3 DEF TypeOK, Init, Fine
  <1>5. OwnedReads BY <1>2, IdleTask DEF OwnedReads
  <1> QED BY <1>1, <1>2, <1>4, <1>5 DEF Base, Init, Fine

LEMMA BaseStep ==
  ASSUME Base, Next, mix' = mix
  PROVE  Base'
  <1>1. task' \in [Tasks -> TaskRecord] /\ \A q \in Tasks : Fine(task'[q])
    <2>1. CASE task' = task BY <2>1 DEF Base, TypeOK, Fine
    <2>2. CASE task' = [t \in Tasks |-> Idle] BY <2>2, IdleTask
    <2> QED BY <2>1, <2>2, Moves, TookFine
  <1>2. ASSUME NEW q \in Tasks PROVE (Fits(task[q]) /\ Holds(task[q]))'
    BY <1>1, Frame DEF Fine, Fits, Holds
  <1>3. TypeOK'
    BY <1>1, Frame, TablesStep DEF TypeOK, Fine
  <1>4. OwnedReads'
    <2> SUFFICES ASSUME NEW q \in Tasks, task'[q].op = "read" PROVE owner'[task'[q].fk] \in Users
      BY Frame DEF OwnedReads
    <2>1. /\ task'[q].fk \in FileKeys /\ owner[task'[q].fk] \in Users
          \* the request was a read of the file, or has just found an owner
      <3>0. /\ task[q].op = "read" => task[q].fk \in FileKeys /\ owner[task[q].fk] \in Users
            /\ Idle.op # "read" /\ owner \in [FileKeys -> Users \cup {None}]
        BY IdleTask DEF Base, TypeOK, OwnedReads, Fits
      <3>1. CASE task' = task BY <3>0, <3>1
      <3>2. CASE task' = [t \in Tasks |-> Idle] BY <3>0, <3>2
      <3>3. ASSUME NEW t \in Tasks, NEW w, Took(t, w), w = Idle \/ To(t, w) \/ (Began(w) /\ UNCHANGED owner)
            PROVE  task'[q].fk \in FileKeys /\ owner[task'[q].fk] \in Users
        <4>1. CASE q # t
          <5>1. Same(task'[q], task[q]) BY <3>3, <4>1 DEF Took, Others
          <5> QED BY <3>0, <5>1 DEF Same
        <4>2. CASE q = t
          <5>1. task'[q] = w BY <3>3, <4>2 DEF Took
          <5>2. To(t, w) => w.op = task[q].op /\ w.fk = task[q].fk BY <4>2 DEF To, Follows
          <5> QED BY <3>0, <3>3, <5>1, <5>2 DEF Began
        <4> QED BY <4>1, <4>2
      <3> QED BY <3>1, <3>2, <3>3, Moves
    <2>2. owner \in [FileKeys -> Users \cup {None}] BY DEF Base, TypeOK
    <2> QED BY <2>1, <2>2, Owners
  <1> QED BY <1>2, <1>3, <1>4 DEF Base

LEMMA BaseHolds == Spec => []Base
  <1>1. Base /\ UNCHANGED vars => Base'
    BY Frame DEF Base, TypeOK, OwnedReads, Fits, Holds, vars
  <1>2. Base /\ [Next /\ UNCHANGED mix]_vars => Base' BY <1>1, BaseStep
  <1> QED BY BaseInit, <1>2, PTL DEF Spec

\* The requests, the key tables and the wraps hold what they are meant to.
THEOREM KeysTypeCorrect == Spec => []TypeOK
  BY BaseHolds, PTL DEF Base

-----------------------------------------------------------------------------
(* Every step keeps the keys.                                              *)

Sound(r) == Mode(r) /\ InHand(r) /\ Current(r) /\ Listed(r)
Opened(f, u) == OpensSym(wrapped[f][u], userKey[u]) \/ OpensBox(wrapped[f][u], keyPw[u])

LEMMA KeyInvParts ==
  KeyInv <=> /\ \A f \in FileKeys, u \in Users : Firm(f, u) => Opened(f, u)
             /\ \A t \in Tasks : Sound(task[t])
  BY DEF KeyInv, NoKeyLost, Firm, Opened, Sound

\* A request whose account did not change.
LEMMA Unmoved ==
  ASSUME Base, mix' = mix, NEW q \in Tasks, Sound(task[q]), Same(task'[q], task[q]), task[q].over => task'[q].over,
         passwordWrapped' = passwordWrapped,
         task[q].user \in Users =>
           /\ userKey'[task[q].user] = userKey[task[q].user] /\ keyPw'[task[q].user] = keyPw[task[q].user]
           /\ \A f \in FileKeys : wrapped'[f][task[q].user] = wrapped[f][task[q].user]
  PROVE  Sound(task[q])'
  <1> DEFINE r == task[q]
             s == task'[q]
             u == r.user
  <1>1. s.pc = r.pc /\ s.op = r.op /\ s.user = u /\ s.pub = r.pub /\ s.uk = r.uk /\ s.rows = r.rows /\ (r.over => s.over)
    BY DEF Same
  <1>2. CASE u \in Users
    <2>1. userKey'[u] = userKey[u] /\ keyPw'[u] = keyPw[u] /\ \A f \in FileKeys : wrapped'[f][u] = wrapped[f][u] BY <1>2
    <2>2. Mode(r) /\ InHand(r) /\ Current(r) /\ Listed(r) BY DEF Sound
    <2>3. Mode(task[q])' BY <1>1, <2>2 DEF Mode
    <2>4. InHand(task[q])' BY <1>1, <2>1, <2>2 DEF InHand
    <2>5. Current(task[q])' BY <1>1, <2>1, <2>2 DEF Current
    <2>6. Listed(task[q])' BY <1>1, <2>1, <2>2, Frame DEF Listed, Firm
    <2> QED BY <2>3, <2>4, <2>5, <2>6 DEF Sound
  <1>3. CASE u \notin Users
    <2>1. r.pc = "idle" /\ r.op = "idle" BY <1>3, OpOf DEF Base, Fits
    <2> QED BY <1>1, <2>1 DEF Sound, Mode, InHand, Current, Listed, Enrolling, Unenrolling, Obtaining
  <1> QED BY <1>2, <1>3

LEMMA Resting ==
  ASSUME NEW r, r.pc = "idle", r.op = "idle"
  PROVE  Sound(r)
  BY DEF Sound, Mode, InHand, Current, Listed, Enrolling, Unenrolling, Obtaining

LEMMA RestingNext ==
  ASSUME NEW q, task'[q] = Idle
  PROVE  Sound(task[q])'
  BY IdleTask DEF Sound, Mode, InHand, Current, Listed, Enrolling, Unenrolling, Obtaining

\* A step that leaves the keys and the wraps alone.
LEMMA Quiet ==
  ASSUME Base, KeyInv, mix' = mix, UNCHANGED <<passwordWrapped, userKey, keyPw, wrapped>>,
         NEW t \in Tasks, NEW w, Took(t, w), Sound(w)
  PROVE  KeyInv'
  <1>1. \A f \in FileKeys', u \in Users' : Firm(f, u)' => Opened(f, u)'
    BY KeyInvParts, Frame DEF Firm, Opened, OpensSym, OpensBox
  <1>2. ASSUME NEW q \in Tasks PROVE Sound(task[q])'
    <2>1. CASE q = t
      <3>1. task'[q] = w BY <2>1 DEF Took
      <3> QED BY <3>1, Frame DEF Sound, Mode, InHand, Current, Listed, Firm
    <2>2. CASE q # t
      <3>1. Same(task'[q], task[q]) /\ (task[q].over => task'[q].over) BY <2>2 DEF Took, Others
      <3> QED BY <3>1, Unmoved, KeyInvParts
    <2> QED BY <2>1, <2>2
  <1> QED BY <1>1, <1>2 DEF KeyInv, NoKeyLost, Firm, Opened, Sound

\* A step that changes the keys or the wraps of one account.
LEMMA OneAccount ==
  ASSUME Base, KeyInv, mix' = mix, passwordWrapped' = passwordWrapped,
         NEW u \in Users, \A v \in Users \ {u} : userKey'[v] = userKey[v] /\ keyPw'[v] = keyPw[v]
                                                 /\ \A f \in FileKeys : wrapped'[f][v] = wrapped[f][v],
         \A f \in FileKeys : Firm(f, u)' => Opened(f, u)',
         NEW t \in Tasks, NEW w, Took(t, w), Sound(task[t])',
         \A q \in Tasks \ {t} : task[q].user = u => Sound(task[q])'
  PROVE  KeyInv'
  <1>1. ASSUME NEW f \in FileKeys, NEW v \in Users, Firm(f, v)' PROVE Opened(f, v)'
    <2>1. CASE v = u BY <1>1, <2>1
    <2>2. CASE v # u BY <1>1, <2>2, KeyInvParts DEF Firm, Opened, OpensSym, OpensBox
    <2> QED BY <2>1, <2>2
  <1>2. ASSUME NEW q \in Tasks PROVE Sound(task[q])'
    <2>1. CASE q # t /\ task[q].user # u
      <3>1. Same(task'[q], task[q]) /\ (task[q].over => task'[q].over) BY <2>1 DEF Took, Others
      <3> QED BY <2>1, <3>1, Unmoved, KeyInvParts
    <2> QED BY <2>1
  <1> QED BY <1>1, <1>2, Frame DEF KeyInv, NoKeyLost, Firm, Opened, Sound

\* Requests that come in or end, and those that only look.
LEMMA KeysBegin ==
  ASSUME Base, KeyInv, mix' = mix, NEW t \in Tasks, Begins(t)
  PROVE  KeyInv'
  <1>1. UNCHANGED <<passwordWrapped, userKey, keyPw, wrapped>> BY BeginsOne DEF Rest, Tables
  <1>2. PICK w \in TaskRecord :
              /\ Took(t, w) /\ w.over = FALSE /\ w.user \in Users /\ w.op \in Ops
              /\ \/ w.op = "login" /\ w.pc = "enrollment" /\ w.pub = None
                 \/ w.op = "mint" /\ w.pc = "ukLoad" /\ w.pub = None
                 \/ w.op = "alloc" /\ w.pc = "pubKey" /\ w.fk \in FileKeys /\ Unused(w.fk) /\ w.pub = None
                 \/ w.op = "wrap" /\ w.pc = "pubKey" /\ w.fk \in FileKeys /\ w.pub = None
                 \/ w.op = "read" /\ w.pc = "ownerUK" /\ w.fk \in FileKeys /\ owner[w.fk] # None /\ w.pub \in sessions[w.user] \cup {None}
    BY BeginsOne
  <1>3. Sound(w) BY <1>2 DEF Sound, Mode, InHand, Current, Listed, Enrolling, Unenrolling, Obtaining
  <1> QED BY <1>1, <1>2, <1>3, Quiet

LEMMA KeysEnd ==
  ASSUME Base, KeyInv, mix' = mix, UNCHANGED <<passwordWrapped, userKey, keyPw, wrapped>>, NEW t \in Tasks, Took(t, Idle)
  PROVE  KeyInv'
  BY IdleTask, Resting, Quiet

LEMMA KeysRead ==
  ASSUME Base, KeyInv, mix' = mix, NEW t \in Tasks, ReadAsOwner(t) \/ ResolveIdentity(t)
  PROVE  KeyInv'
  <1>1. UNCHANGED <<passwordWrapped, userKey, keyPw, wrapped>> BY ReadAsOwnerOne, ResolveIdentityOne DEF Rest, Tables
  <1>2. Took(t, Idle) \/ \E w : To(t, w) /\ w.pc \in Reading /\ task[t].pc \in Reading
    BY ReadAsOwnerOne, ResolveIdentityOne DEF Reading
  <1>3. ASSUME NEW w, To(t, w), w.pc \in Reading, task[t].pc \in Reading PROVE Sound(w)
    <2>1. w.op = "read" BY <1>3, OpOf DEF To, Follows
    <2> QED BY <1>3, <2>1 DEF Sound, Mode, InHand, Current, Listed, Enrolling, Unenrolling, Obtaining, Reading
  <1> QED BY <1>1, <1>2, <1>3, KeysEnd, Quiet DEF To

LEMMA KeysLogin ==
  ASSUME Base, KeyInv, mix' = mix, NEW t \in Tasks, LoadEnrollment(t) \/ HasUserKey(t) \/ LoadUK(t) \/ DropTokens(t)
  PROVE  KeyInv'
  <1>1. UNCHANGED <<passwordWrapped, userKey, keyPw, wrapped>>
    BY DEF LoadEnrollment, HasUserKey, LoadUK, DropTokens, LoginReturns, Rest, Tables
  <1>2. Sound(task[t]) BY KeyInvParts
  <1>3. CASE Took(t, Idle) BY <1>1, <1>3, KeysEnd
  <1>4. CASE LoadEnrollment(t)
    <2>1. PICK w : To(t, w) /\ task[t].pc = "enrollment" /\ w.pc = "hasUK" /\ w.pub = keyPw[w.user] BY <1>4, LoadEnrollmentOne
    <2>2. w.op = "login"
      <3>1. w.op = task[t].op BY <2>1 DEF To, Follows
      <3> QED BY <2>1, <3>1, OpOf
    <2>3. Sound(w) BY <2>1, <2>2 DEF Sound, Mode, InHand, Current, Listed, Enrolling, Unenrolling, Obtaining
    <2> QED BY <1>1, <2>1, <2>3, Quiet DEF To
  <1>5. CASE HasUserKey(t) /\ ~Took(t, Idle)
    <2>1. PICK w : /\ To(t, w) /\ w.pub = task[t].pub /\ task[t].pc = "hasUK"
                   /\ \/ w.pub # None /\ passwordWrapped /\ w.pc = "loadUK"
                      \/ w.pub # None /\ ~passwordWrapped /\ w.pc = "ukLoad"
                      \/ w.pub = None /\ passwordWrapped /\ w.pc = "insertPw"
      BY <1>5, HasUserKeyOne
    <2>2. w.op = "login" /\ w.user = task[t].user
      <3>1. w.op = task[t].op /\ w.user = task[t].user BY <2>1 DEF To, Follows
      <3> QED BY <2>1, <3>1, OpOf
    <2>3. Mode(w) BY <2>1, <2>2 DEF Mode, Enrolling, Unenrolling, Obtaining
    <2>4. InHand(w) BY <1>2, <2>1, <2>2 DEF InHand, Sound, Enrolling
    <2>5. Current(w) /\ Listed(w) BY <2>1, <2>2 DEF Current, Listed
    <2> QED BY <1>1, <2>1, <2>3, <2>4, <2>5, Quiet DEF To, Sound
  <1>6. CASE LoadUK(t) /\ ~Took(t, Idle)
    <2>1. PICK w : To(t, w) /\ w.pc = "listSym" /\ w.pub = task[t].pub BY <1>6, LoadUKOne
    <2>2. task[t].pc = "loadUK" BY <1>6, LoadUKOne
    <2>3. w.op = "login" /\ w.user = task[t].user
      <3>1. w.op = task[t].op /\ w.user = task[t].user BY <2>1 DEF To, Follows
      <3> QED BY <2>2, <3>1, OpOf DEF Enrolling
    <2>4. Mode(w) BY <1>2, <2>1, <2>2, <2>3 DEF Mode, Sound, Enrolling, Unenrolling, Obtaining
    <2>5. InHand(w) BY <1>2, <2>1, <2>2, <2>3 DEF InHand, Sound, Enrolling
    <2>6. Current(w) /\ Listed(w) BY <2>1, <2>3 DEF Current, Listed
    <2> QED BY <1>1, <2>1, <2>4, <2>5, <2>6, Quiet DEF To, Sound
  <1>7. CASE DropTokens(t) BY <1>3, <1>7, DropTokensOne
  <1> QED BY <1>3, <1>4, <1>5, <1>6, <1>7

LEMMA KeysList ==
  ASSUME Base, KeyInv, mix' = mix, NEW t \in Tasks, ListRows(t)
  PROVE  KeyInv'
  <1>1. UNCHANGED <<passwordWrapped, userKey, keyPw, wrapped>> BY ListRowsOne DEF Rest, Tables
  <1>2. Sound(task[t]) BY KeyInvParts
  <1>3. PICK w : /\ To(t, w) /\ w.pub = task[t].pub /\ w.uk = task[t].uk
                 /\ \/ /\ task[t].pc = "listSym" /\ w.pc = "toBoxes"
                       /\ \A f \in FileKeys : wrapped[f][w.user].scheme = 0 => f \in DOMAIN w.rows
                    \/ /\ task[t].pc = "listBox" /\ w.pc = "toSym"
                       /\ \A f \in FileKeys : wrapped[f][w.user].scheme = 1 => f \in DOMAIN w.rows
    BY ListRowsOne
  <1>4. w.op = "login" /\ w.user = task[t].user
    <2>1. w.op = task[t].op /\ w.user = task[t].user BY <1>3 DEF To, Follows
    <2> QED BY <1>3, <2>1, OpOf DEF Enrolling, Unenrolling
  <1>5. Mode(w) BY <1>2, <1>3, <1>4 DEF Mode, Sound, Enrolling, Unenrolling, Obtaining
  <1>6. InHand(w) BY <1>2, <1>3, <1>4 DEF InHand, Sound, Enrolling
  <1>7. Current(w) BY <1>3, <1>4 DEF Current
  <1>8. Listed(w) BY <1>3 DEF Listed
  <1> QED BY <1>1, <1>3, <1>5, <1>6, <1>7, <1>8, Quiet DEF To, Sound

LEMMA KeysPublic ==
  ASSUME Base, KeyInv, mix' = mix, NEW t \in Tasks, PublicKeyFor(t)
  PROVE  KeyInv'
  <1>1. UNCHANGED <<passwordWrapped, userKey, keyPw, wrapped>> /\ task[t].pc = "pubKey" BY PublicKeyForOne DEF Rest, Tables
  <1>2. PICK w : To(t, w) /\ w.pub = keyPw[w.user] /\ w.pc = IF w.pub = None THEN "ukLoad" ELSE "insertBox"
    BY PublicKeyForOne
  <1>3. w.op \in {"alloc", "wrap"}
    <2>1. w.op = task[t].op BY <1>2 DEF To, Follows
    <2> QED BY <1>1, <2>1, OpOf DEF Writing
  <1>4. Sound(w) BY <1>2, <1>3 DEF Sound, Mode, InHand, Current, Listed, Enrolling, Unenrolling, Obtaining
  <1> QED BY <1>1, <1>2, <1>4, Quiet DEF To

\* A wrap that counts is a symmetric one or a box, and its key exists.
LEMMA FirmRow ==
  ASSUME Base, NEW f \in FileKeys, NEW u \in Users, Firm(f, u)
  PROVE  /\ wrapped[f][u].scheme \in {0, 1} /\ wrapped[f][u].key # None
         /\ Opened(f, u) => (wrapped[f][u].scheme = 0 /\ userKey[u] = wrapped[f][u].key) \/ (wrapped[f][u].scheme = 1 /\ keyPw[u] = wrapped[f][u].key)
  BY KeysTyped DEF Firm, Rows, Opened, OpensSym, OpensBox

\* Enrolling: the pair appears.
LEMMA KeysInsertPw ==
  ASSUME Base, KeyInv, mix' = mix, NEW t \in Tasks, InsertPw(t)
  PROVE  KeyInv'
  <1>0. /\ task[t].pc = "insertPw" /\ UNCHANGED <<userKey, wrapped>> /\ Sound(task[t])
        /\ passwordWrapped' = passwordWrapped
    BY InsertPwOne, KeyInvParts DEF Rest
  <1>a. passwordWrapped /\ task[t].user \in Users /\ task[t].op = "login" BY <1>0, OpOf DEF Sound, Mode, Enrolling
  <1>1. PICK u \in Users : u = task[t].user /\ passwordWrapped /\ task[t].op = "login" BY <1>a
  <1>2. CASE UNCHANGED <<Rest, Tables>>
    <2>1. UNCHANGED <<passwordWrapped, userKey, keyPw, wrapped>> BY <1>2 DEF Rest, Tables
    <2>2. keyPw' = keyPw => \E w : To(t, w) /\ w.pc = "enrollment"
      <3>1. minted' # minted + 1 BY <2>1, <1>2, KeysTyped DEF Tables
      <3> QED BY <3>1, InsertPwOne
    <2>3. PICK w : To(t, w) /\ w.pc = "enrollment" BY <2>1, <2>2
    <2>4. w.op = "login" BY <1>1, <2>3 DEF To, Follows
    <2>5. Sound(w) BY <2>3, <2>4 DEF Sound, Mode, InHand, Current, Listed, Enrolling, Unenrolling, Obtaining
    <2> QED BY <2>1, <2>3, <2>5, Quiet DEF To
  <1>3. CASE keyPw[u] = None /\ ~UNCHANGED <<Rest, Tables>>
    <2>1. keyPw' = [keyPw EXCEPT ![u] = minted + 1] /\ minted + 1 # None /\ Overtaken(t, u)
      <3>1. minted + 1 \in 1 .. MaxMint => minted + 1 # None BY Counters
      <3> QED BY <1>1, <1>3, <3>1, InsertPwOne
    <2>2. keyPw'[u] = minted + 1 /\ \A v \in Users \ {u} : keyPw'[v] = keyPw[v]
      <3>1. keyPw \in [Users -> Key] BY DEF Base, TypeOK
      <3> QED BY <1>1, <2>1, <3>1
    <2>3. ASSUME NEW f \in FileKeys, Firm(f, u)' PROVE Opened(f, u)'
      <3>1. Firm(f, u) BY <1>0, <2>3 DEF Firm
      <3>2. Opened(f, u) BY <1>1, <3>1, KeyInvParts
      <3>3. wrapped[f][u].scheme = 0 /\ userKey[u] = wrapped[f][u].key BY <1>1, <1>3, <3>1, <3>2, FirmRow
      <3> QED BY <1>0, <3>3 DEF Opened, OpensSym
    <2>4. ASSUME NEW q \in Tasks \ {t}, task[q].user = u, Others(t) PROVE Sound(task[q])'
      <3>1. Sound(task[q]) /\ Same(task'[q], task[q]) /\ task'[q].over BY <2>1, <2>4, KeyInvParts DEF Others, Overtaken
      <3>2. Mode(task[q])' BY <1>0, <3>1 DEF Sound, Same, Mode
      <3>3. InHand(task[q])' BY <1>0, <1>3, <2>4, <3>1 DEF Sound, Same, InHand
      <3>4. Current(task[q])' BY <3>1 DEF Current
      <3>5. Listed(task[q])' BY <1>0, <3>1, Frame DEF Sound, Same, Listed, Firm
      <3> QED BY <3>2, <3>3, <3>4, <3>5 DEF Sound
    <2>5. ASSUME NEW w, Took(t, w), Sound(task[t])' PROVE KeyInv'
      <3>1. Others(t) BY <2>5 DEF Took
      <3> QED BY <1>0, <1>1, <2>2, <2>3, <2>4, <2>5, <3>1, OneAccount
    <2>6. CASE Took(t, Idle)
      <3>1. Sound(task[t])' BY <2>6, RestingNext DEF Took
      <3> QED BY <2>5, <2>6, <3>1
    <2>7. CASE \E w : To(t, w) /\ w.pc = "loadUK" /\ w.pub = minted + 1
      <3>1. PICK w : To(t, w) /\ w.pc = "loadUK" /\ w.pub = minted + 1 BY <2>7
      <3>2. task'[t] = w /\ w.op = "login" /\ w.user = u BY <1>1, <3>1 DEF To, Took, Follows
      <3>3. Sound(task[t])'
        BY <1>0, <1>1, <2>1, <2>2, <3>1, <3>2 DEF Sound, Mode, InHand, Current, Listed, Enrolling, Unenrolling, Obtaining
      <3> QED BY <2>5, <3>1, <3>3 DEF To
    <2> QED BY <1>3, <2>6, <2>7, InsertPwOne
  <1> QED BY <1>1, <1>2, <1>3, InsertPwOne

\* UPDATE changes the row it names, if there is one.
LEMMA UpdatedRow ==
  ASSUME Base, NEW f \in FileKeys, NEW u \in Users, NEW row, wrapped' = Updated(f, u, row)
  PROVE  /\ \A g \in FileKeys, v \in Users : g # f \/ v # u => wrapped'[g][v] = wrapped[g][v]
         /\ wrapped'[f][u] = IF wrapped[f][u] = NoRow THEN NoRow ELSE row
  <1>1. wrapped \in [FileKeys -> [Users -> Rows]] BY DEF Base, TypeOK
  <1> QED BY <1>1 DEF Updated

\* A conversion: each listed wrap changes its scheme.
LEMMA KeysConvert ==
  ASSUME Base, KeyInv, mix' = mix, NEW t \in Tasks, ConvertRow(t)
  PROVE  KeyInv'
  <1>0. /\ task[t].pc \in {"toBoxes", "toSym"} /\ UNCHANGED <<userKey, keyPw>> /\ Sound(task[t])
        /\ passwordWrapped' = passwordWrapped
    BY ConvertRowOne, KeyInvParts DEF Rest
  <1>a. task[t].user \in Users /\ task[t].op = "login" BY <1>0, OpOf DEF Enrolling, Unenrolling
  <1>1. PICK u \in Users : u = task[t].user BY <1>a
  <1>2. /\ task[t].pc = "toBoxes" => passwordWrapped /\ task[t].pub # None /\ task[t].pub = keyPw[u]
        /\ task[t].pc = "toSym" => ~passwordWrapped /\ task[t].uk # None /\ task[t].uk = userKey[u]
    BY <1>0, <1>1 DEF Sound, Mode, InHand, Enrolling, Unenrolling
  <1>3. CASE Took(t, Idle) /\ UNCHANGED wrapped BY <1>0, <1>3, KeysEnd
  <1>4. ASSUME UNCHANGED wrapped, DOMAIN task[t].rows = {},
               NEW w, To(t, w), w.pub = task[t].pub, w.uk = task[t].uk, w.pc = IF task[t].pc = "toBoxes" THEN "dropUK" ELSE "dropPw"
        PROVE  KeyInv'
    <2>1. w.op = "login" /\ w.user = u BY <1>1, <1>4, <1>a DEF To, Follows
    <2>2. Mode(w) BY <1>0, <1>2, <1>4, <2>1 DEF Mode, Enrolling, Unenrolling, Obtaining
    <2>3. InHand(w) BY <1>0, <1>2, <1>4, <2>1 DEF InHand, Enrolling
    <2>4. Current(w) BY <1>0, <1>4, <2>1 DEF Current
    <2>5. Listed(w)
      <3>1. Listed(task[t]) BY <1>0 DEF Sound
      <3> QED BY <1>0, <1>1, <1>4, <2>1, <3>1, FirmRow DEF Listed
    <2> QED BY <1>0, <1>4, <2>2, <2>3, <2>4, <2>5, Quiet DEF To, Sound
  <1>5. ASSUME NEW f \in FileKeys, NEW w, To(t, w), w.pc = task[t].pc, w.pub = task[t].pub, w.uk = task[t].uk,
               DOMAIN w.rows = DOMAIN task[t].rows \ {f},
               wrapped' = Updated(f, task[t].user, IF task[t].pc = "toBoxes" THEN Box(task[t].pub) ELSE Sym(task[t].uk))
        PROVE  KeyInv'
    <2> DEFINE row == IF task[t].pc = "toBoxes" THEN Box(task[t].pub) ELSE Sym(task[t].uk)
    <2>0. wrapped' = Updated(f, u, row) BY <1>1, <1>5
    <2>1. PICK s \in {0, 1}, k \in Key : row = [scheme |-> s, key |-> k, late |-> FALSE] /\ (s = 1 <=> task[t].pc = "toBoxes")
                                 /\ k = IF s = 1 THEN keyPw[u] ELSE userKey[u]
      <3>1. CASE task[t].pc = "toBoxes"
        <4>1. row = [scheme |-> 1, key |-> keyPw[u], late |-> FALSE] /\ keyPw[u] \in Key BY <1>2, <3>1, KeysTyped DEF Box
        <4> HIDE DEF row
        <4> QED BY <3>1, <4>1
      <3>2. CASE task[t].pc = "toSym"
        <4>1. row = [scheme |-> 0, key |-> userKey[u], late |-> FALSE] /\ userKey[u] \in Key BY <1>2, <3>2, KeysTyped DEF Sym
        <4> HIDE DEF row
        <4>2. 0 # 1 /\ task[t].pc # "toBoxes" BY <3>2
        <4> QED BY <4>1, <4>2
      <3> QED BY <1>0, <3>1, <3>2
    <2> HIDE DEF row
    <2>b. wrapped' = Updated(f, u, [scheme |-> s, key |-> k, late |-> FALSE]) BY <2>0, <2>1
    <2>2. \A g \in FileKeys, v \in Users : g # f \/ v # u => wrapped'[g][v] = wrapped[g][v]
      BY <2>b, UpdatedRow
    <2>3. wrapped'[f][u] = NoRow \/ (wrapped'[f][u].scheme = s /\ wrapped'[f][u].key = k)
      <3> DEFINE new == [scheme |-> s, key |-> k, late |-> FALSE]
      <3>1. new.scheme = s /\ new.key = k /\ wrapped' = Updated(f, u, new) BY <2>b
      <3> HIDE DEF new
      <3>2. wrapped'[f][u] = IF wrapped[f][u] = NoRow THEN NoRow ELSE new BY <3>1, UpdatedRow
      <3> QED BY <3>1, <3>2
    <2>4. ASSUME NEW g \in FileKeys, Firm(g, u)' PROVE Opened(g, u)' /\ (IF g = f THEN wrapped'[g][u].scheme = s ELSE Firm(g, u) /\ wrapped'[g][u] = wrapped[g][u])
      <3>1. CASE g = f BY <1>0, <2>1, <2>3, <2>4, <3>1 DEF Firm, Opened, OpensSym, OpensBox
      <3>2. CASE g # f
        <4>1. Firm(g, u) /\ wrapped'[g][u] = wrapped[g][u] BY <2>2, <2>4, <3>2 DEF Firm
        <4> QED BY <1>0, <3>2, <4>1, KeyInvParts DEF Opened, OpensSym, OpensBox
      <3> QED BY <3>1, <3>2
    <2>5. task'[t] = w /\ w.op = "login" /\ w.user = u BY <1>1, <1>5, <1>a DEF To, Took, Follows
    <2>6. Sound(task[t])'
      <3>1. Mode(task[t])' BY <1>0, <1>5, <2>5, <1>a DEF Sound, Mode
      <3>2. InHand(task[t])' BY <1>0, <1>2, <1>5, <2>5 DEF InHand, Enrolling
      <3>3. Current(task[t])' BY <1>0, <1>5, <2>5 DEF Current
      <3>4. Listed(task[t])
        BY <1>0 DEF Sound
      <3>5. ASSUME NEW g \in FileKeys, Firm(g, u)', wrapped'[g][u].scheme # s PROVE g \in DOMAIN w.rows
        <4>1. g # f /\ Firm(g, u) /\ wrapped[g][u].scheme # s BY <2>4, <3>5
        <4>2. wrapped[g][u].scheme \in {0, 1} BY <4>1, FirmRow
        <4>3. g \in DOMAIN task[t].rows BY <1>0, <1>1, <2>1, <3>4, <4>1, <4>2 DEF Listed
        <4> QED BY <1>5, <4>1, <4>3
      <3>6. Listed(task[t])' BY <1>0, <1>5, <2>1, <2>5, <3>5, Frame DEF Listed
      <3> QED BY <3>1, <3>2, <3>3, <3>6 DEF Sound
    <2>7. ASSUME NEW q \in Tasks \ {t}, task[q].user = u PROVE Sound(task[q])'
      <3>1. Same(task'[q], task[q]) /\ (task[q].over => task'[q].over) /\ Sound(task[q])
        BY <1>5, KeyInvParts DEF To, Took, Others
      <3>2. Mode(task[q])' BY <1>0, <3>1 DEF Sound, Same, Mode
      <3>3. InHand(task[q])' BY <1>0, <3>1 DEF Sound, Same, InHand
      <3>4. Current(task[q])' BY <1>0, <3>1 DEF Sound, Same, Current
      <3>5. Listed(task[q])'
        <4>1. Listed(task[q]) /\ task'[q].pc = task[q].pc /\ task'[q].rows = task[q].rows /\ task'[q].user = u
          BY <2>7, <3>1 DEF Sound, Same
        <4>2. /\ task[q].pc \in {"toBoxes", "dropUK"} => passwordWrapped
              /\ task[q].pc \in {"toSym", "dropPw"} => ~passwordWrapped
          BY <3>1 DEF Sound, Mode, Enrolling, Unenrolling
        <4> QED BY <1>0, <1>2, <2>1, <2>4, <2>7, <4>1, <4>2, Frame DEF Listed
      <3> QED BY <3>2, <3>3, <3>4, <3>5 DEF Sound
    <2>8. \A v \in Users \ {u} : \A g \in FileKeys : wrapped'[g][v] = wrapped[g][v] BY <2>2
    <2> QED BY <1>0, <1>5, <2>4, <2>6, <2>7, <2>8, OneAccount DEF To
  <1> QED BY <1>3, <1>4, <1>5, ConvertRowOne

\* Enrolled: the symmetric key goes.
LEMMA KeysDropUK ==
  ASSUME Base, KeyInv, mix' = mix, NEW t \in Tasks, DropUK(t)
  PROVE  KeyInv'
  <1>0. /\ task[t].pc = "dropUK" /\ UNCHANGED <<keyPw, wrapped>> /\ Sound(task[t]) /\ Took(t, Idle)
        /\ passwordWrapped' = passwordWrapped /\ userKey' = [userKey EXCEPT ![task[t].user] = None]
    BY DropUKOne, KeyInvParts DEF LoginReturns
  <1>1. task[t].user \in Users BY <1>0, OpOf
  <1>2. PICK u \in Users : u = task[t].user BY <1>1
  <1>3. passwordWrapped /\ keyPw[u] # None /\ \A f \in FileKeys : Firm(f, u) => wrapped[f][u].scheme = 1
    BY <1>0, <1>2 DEF Sound, Mode, InHand, Listed, Enrolling
  <1>4. userKey'[u] = None /\ \A v \in Users \ {u} : userKey'[v] = userKey[v]
    <2>1. userKey \in [Users -> Key] BY DEF Base, TypeOK
    <2> QED BY <1>0, <1>2, <2>1
  <1>5. ASSUME NEW f \in FileKeys, Firm(f, u)' PROVE Opened(f, u)'
    <2>1. Firm(f, u) BY <1>0, <1>5 DEF Firm
    <2>2. wrapped[f][u].scheme = 1 /\ Opened(f, u) BY <1>3, <2>1, KeyInvParts
    <2> QED BY <1>0, <2>2 DEF Opened, OpensSym, OpensBox
  <1>6. ASSUME NEW q \in Tasks \ {t}, task[q].user = u PROVE Sound(task[q])'
    <2>1. Same(task'[q], task[q]) /\ (task[q].over => task'[q].over) /\ Sound(task[q])
      BY <1>0, KeyInvParts DEF Took, Others
    <2>2. Mode(task[q])' BY <1>0, <2>1 DEF Sound, Same, Mode
    <2>3. InHand(task[q])'
      <3>1. task[q].pc \notin {"listBox", "toSym", "dropPw"} BY <1>3, <2>1 DEF Sound, Mode, Unenrolling
      <3> QED BY <1>0, <2>1, <3>1 DEF Sound, Same, InHand
    <2>4. Current(task[q])'
      <3>1. task[q].pc = "insertSym" => task[q].over
        <4>1. task[q].pc = "insertSym" => task[q].op \in {"alloc", "wrap"} BY OpOf DEF Writing
        <4> QED BY <1>3, <1>6, <2>1, <4>1 DEF Sound, Current
      <3> QED BY <1>0, <2>1, <3>1 DEF Sound, Same, Current
    <2>5. Listed(task[q])' BY <1>0, <2>1, Frame DEF Sound, Same, Listed, Firm
    <2> QED BY <2>2, <2>3, <2>4, <2>5 DEF Sound
  <1>7. Sound(task[t])' BY <1>0, RestingNext DEF Took
  <1> QED BY <1>0, <1>4, <1>5, <1>6, <1>7, OneAccount

\* Unenrolled: the pair goes.
LEMMA KeysDropPw ==
  ASSUME Base, KeyInv, mix' = mix, NEW t \in Tasks, DropPw(t)
  PROVE  KeyInv'
  <1>0. /\ task[t].pc = "dropPw" /\ UNCHANGED <<userKey, wrapped>> /\ Sound(task[t])
        /\ passwordWrapped' = passwordWrapped /\ keyPw' = [keyPw EXCEPT ![task[t].user] = None]
        /\ Overtaken(t, task[t].user)
    BY DropPwOne, KeyInvParts DEF Rest
  <1>a. PICK w : To(t, w) /\ w.pc = "dropTokens" /\ w.pub = task[t].pub BY DropPwOne
  <1>1. task[t].user \in Users /\ task[t].op = "login" BY <1>0, OpOf DEF Unenrolling
  <1>2. PICK u \in Users : u = task[t].user BY <1>1
  <1>3. ~passwordWrapped /\ \A f \in FileKeys : Firm(f, u) => wrapped[f][u].scheme = 0
    BY <1>0, <1>2 DEF Sound, Mode, Listed, Unenrolling
  <1>4. keyPw'[u] = None /\ \A v \in Users \ {u} : keyPw'[v] = keyPw[v]
    <2>1. keyPw \in [Users -> Key] BY DEF Base, TypeOK
    <2> QED BY <1>0, <1>2, <2>1
  <1>5. ASSUME NEW f \in FileKeys, Firm(f, u)' PROVE Opened(f, u)'
    <2>1. Firm(f, u) BY <1>0, <1>5 DEF Firm
    <2>2. wrapped[f][u].scheme = 0 /\ Opened(f, u) BY <1>3, <2>1, KeyInvParts
    <2> QED BY <1>0, <2>2 DEF Opened, OpensSym, OpensBox
  <1>6. ASSUME NEW q \in Tasks \ {t}, task[q].user = u PROVE Sound(task[q])'
    <2>1. Same(task'[q], task[q]) /\ task'[q].over /\ Sound(task[q])
      BY <1>0, <1>2, <1>6, <1>a, KeyInvParts DEF To, Took, Others, Overtaken
    <2>2. Mode(task[q])' BY <1>0, <2>1 DEF Sound, Same, Mode
    <2>3. InHand(task[q])'
      <3>1. task[q].pc \notin Enrolling BY <1>3, <2>1 DEF Sound, Mode
      <3> QED BY <1>0, <1>3, <2>1, <3>1 DEF Sound, Same, InHand
    <2>4. Current(task[q])' BY <2>1 DEF Current
    <2>5. Listed(task[q])' BY <1>0, <2>1, Frame DEF Sound, Same, Listed, Firm
    <2> QED BY <2>2, <2>3, <2>4, <2>5 DEF Sound
  <1>7. Sound(task[t])'
    <2>1. task'[t] = w /\ w.op = "login" BY <1>1, <1>a DEF To, Took, Follows
    <2> QED BY <1>0, <1>3, <1>a, <2>1 DEF Sound, Mode, InHand, Current, Listed, Enrolling, Unenrolling, Obtaining
  <1> QED BY <1>0, <1>4, <1>5, <1>6, <1>7, <1>a, OneAccount DEF To

\* loadOrCreateUK: the symmetric key appears.
LEMMA KeysObtain ==
  ASSUME Base, KeyInv, mix' = mix, NEW t \in Tasks, UKLoad(t) \/ UKInsert(t) \/ UKReload(t)
  PROVE  KeyInv'
  <1>0. task[t].pc \in Obtaining /\ UNCHANGED <<keyPw, wrapped>> /\ passwordWrapped' = passwordWrapped /\ Sound(task[t])
    BY ObtainOne, KeyInvParts DEF Rest
  <1>1. task[t].user \in Users BY <1>0, OpOf DEF Obtaining
  <1>2. PICK u \in Users : u = task[t].user BY <1>1
  <1>3. /\ task[t].op = "login" => ~passwordWrapped
        /\ task[t].op \in {"alloc", "wrap"} /\ ~task[t].over => keyPw[u] = None
    BY <1>0, <1>2 DEF Sound, Mode, Current
  \* The request goes on with the account's key, old or new.
  <1>4. ASSUME NEW w, To(t, w), w.pub = task[t].pub,
               \/ w.pc \in Obtaining
               \/ /\ w.uk # None /\ w.uk = userKey'[u] /\ task[t].op \in {"login", "alloc", "wrap"}
                  /\ w.pc = IF task[t].op = "login" THEN "listBox" ELSE "insertSym"
        PROVE  Sound(task[t])'
    <2>1. task'[t] = w /\ w.op = task[t].op /\ w.user = u /\ w.over = task[t].over BY <1>2, <1>4 DEF To, Took, Follows
    <2>2. Mode(task[t])' BY <1>0, <1>3, <1>4, <2>1 DEF Mode, Enrolling, Unenrolling, Obtaining
    <2>3. InHand(task[t])' BY <1>4, <2>1 DEF InHand, Enrolling, Obtaining
    <2>4. Current(task[t])' BY <1>0, <1>3, <1>4, <2>1 DEF Current, Obtaining
    <2>5. Listed(task[t])' BY <1>4, <2>1 DEF Listed, Obtaining
    <2> QED BY <2>2, <2>3, <2>4, <2>5 DEF Sound
  <1>5. PICK w : /\ Took(t, w)
                 /\ Sound(task[t])'
    <2>1. CASE Took(t, Idle)
      <3>1. Sound(task[t])' BY <2>1, RestingNext DEF Took
      <3> QED BY <2>1, <3>1
    <2>2. ASSUME NEW w, To(t, w), w.pub = task[t].pub, w.pc \in Obtaining PROVE Took(t, w) /\ Sound(task[t])'
      BY <1>4, <2>2 DEF To
    <2>3. ASSUME NEW w, To(t, w), w.pub = task[t].pub, w.uk # None, w.uk = userKey'[w.user], task[t].op \in {"login", "alloc", "wrap"},
                 w.pc = IF task[t].op = "login" THEN "listBox" ELSE "insertSym"
          PROVE  Took(t, w) /\ Sound(task[t])'
      <3>1. w.user = u BY <1>2, <2>3 DEF To, Follows
      <3> QED BY <1>4, <2>3, <3>1 DEF To
    <2> QED BY <2>1, <2>2, <2>3, ObtainOne
  <1>6. CASE UNCHANGED userKey
    <2>1. ASSUME NEW f \in FileKeys, Firm(f, u)' PROVE Opened(f, u)'
      BY <1>0, <1>6, <2>1, KeyInvParts DEF Firm, Opened, OpensSym, OpensBox
    <2>2. ASSUME NEW q \in Tasks \ {t} PROVE Sound(task[q])'
      <3>1. Same(task'[q], task[q]) /\ (task[q].over => task'[q].over) BY <1>5 DEF Took, Others
      <3> QED BY <1>0, <1>6, <3>1, Unmoved, KeyInvParts
    <2> QED BY <1>0, <1>5, <1>6, <2>1, <2>2, OneAccount
  <1>7. CASE userKey[u] = None /\ userKey' = [userKey EXCEPT ![u] = minted + 1]
    <2>1. \A v \in Users \ {u} : userKey'[v] = userKey[v]
      <3>1. userKey \in [Users -> Key] BY DEF Base, TypeOK
      <3> QED BY <1>7, <3>1
    <2>2. ASSUME NEW f \in FileKeys, Firm(f, u)' PROVE Opened(f, u)'
      <3>1. Firm(f, u) BY <1>0, <2>2 DEF Firm
      <3>2. wrapped[f][u].scheme = 1 /\ keyPw[u] = wrapped[f][u].key BY <1>7, <3>1, KeyInvParts, FirmRow
      <3> QED BY <1>0, <3>2 DEF Opened, OpensBox
    <2>3. ASSUME NEW q \in Tasks \ {t}, task[q].user = u PROVE Sound(task[q])'
      <3>1. Same(task'[q], task[q]) /\ (task[q].over => task'[q].over) /\ Sound(task[q])
        BY <1>5, KeyInvParts DEF Took, Others
      <3>2. Mode(task[q])' BY <1>0, <3>1 DEF Sound, Same, Mode
      <3>3. InHand(task[q])' BY <1>0, <1>7, <2>3, <3>1 DEF Sound, Same, InHand
      <3>4. Current(task[q])' BY <1>0, <1>7, <2>3, <3>1 DEF Sound, Same, Current
      <3>5. Listed(task[q])' BY <1>0, <3>1, Frame DEF Sound, Same, Listed, Firm
      <3> QED BY <3>2, <3>3, <3>4, <3>5 DEF Sound
    <2> QED BY <1>0, <1>5, <2>1, <2>2, <2>3, OneAccount
  <1> QED BY <1>2, <1>6, <1>7, ObtainOne

\* A first write or a share inserts a wrap.
Inserted(f, u, row) == [wrapped EXCEPT ![f][u] = IF @ # NoRow THEN @ ELSE row]

LEMMA InsertedRow ==
  ASSUME Base, NEW f \in FileKeys, NEW u \in Users, NEW row, wrapped' = Inserted(f, u, row)
  PROVE  /\ \A g \in FileKeys, v \in Users : g # f \/ v # u => wrapped'[g][v] = wrapped[g][v]
         /\ wrapped'[f][u] = IF wrapped[f][u] # NoRow THEN wrapped[f][u] ELSE row
  <1>1. wrapped \in [FileKeys -> [Users -> Rows]] BY DEF Base, TypeOK
  <1> QED BY <1>1 DEF Inserted

LEMMA KeysInsertWrap ==
  ASSUME Base, KeyInv, mix' = mix, NEW t \in Tasks, InsertWrap(t)
  PROVE  KeyInv'
  <1>0. /\ task[t].pc \in {"insertBox", "insertSym"} /\ task[t].fk \in FileKeys /\ task[t].user \in Users
        /\ Took(t, Idle) /\ UNCHANGED <<passwordWrapped, userKey, keyPw>> /\ Sound(task[t])
    BY InsertWrapOne, KeyInvParts
  <1>a. task[t].op \in {"alloc", "wrap"} BY <1>0, OpOf DEF Writing
  <1>1. PICK f \in FileKeys, u \in Users : f = task[t].fk /\ u = task[t].user BY <1>0
  <1>2. PICK row : row = Insert(t) OBVIOUS
  <1>3. wrapped' = Inserted(f, u, row) BY <1>1, <1>2, InsertWrapOne DEF Inserted
  <1>4. /\ \A g \in FileKeys, v \in Users : g # f \/ v # u => wrapped'[g][v] = wrapped[g][v]
        /\ wrapped'[f][u] = IF wrapped[f][u] # NoRow THEN wrapped[f][u] ELSE row
    BY <1>3, InsertedRow
  \* A wrap that counts is for the keys the account has.
  <1>5. ~row.late => \/ row.scheme = 0 /\ row.key = userKey[u] /\ keyPw[u] = None
                     \/ /\ row.scheme = 1 /\ row.key = keyPw[u] /\ keyPw[u] # None
                        /\ \A l \in Tasks : task[l].user = u => task[l].pc \notin {"toSym", "dropPw"}
    <2>1. row.late = Late(t) BY <1>0, <1>2, InsertTyped
    <2>2. CASE Late(t) BY <2>1, <2>2
    <2>3. CASE ~Late(t)
      <3>1. ~task[t].over BY <2>3 DEF Late
      <3>2. CASE task[t].pc = "insertSym"
        BY <1>0, <1>1, <1>2, <1>a, <3>1, <3>2, InsertTyped DEF Sound, Current, OpensSym
      <3>3. CASE task[t].pc = "insertBox"
        <4>1. \A l \in Tasks : task[l].user = u => task[l].pc \notin {"toSym", "dropPw"} BY <1>1, <2>3, <3>3 DEF Late, At
        <4> QED BY <1>0, <1>1, <1>2, <3>1, <3>3, <4>1, InsertTyped DEF Sound, Current, OpensBox
      <3> QED BY <1>0, <3>2, <3>3
    <2> QED BY <2>2, <2>3
  <1>6. ASSUME NEW g \in FileKeys, Firm(g, u)'
        PROVE  \/ Firm(g, u) /\ wrapped'[g][u] = wrapped[g][u]
               \/ ~row.late /\ wrapped'[g][u] = row
    BY <1>4, <1>6 DEF Firm
  <1>7. ASSUME NEW g \in FileKeys, Firm(g, u)' PROVE Opened(g, u)'
    <2>1. CASE Firm(g, u) /\ wrapped'[g][u] = wrapped[g][u]
      <3>1. Opened(g, u) BY <2>1, KeyInvParts
      <3> QED BY <1>0, <2>1, <3>1 DEF Opened, OpensSym, OpensBox
    <2>2. CASE ~row.late /\ wrapped'[g][u] = row
      BY <1>0, <1>5, <2>2 DEF Opened, OpensSym, OpensBox
    <2> QED BY <1>6, <1>7, <2>1, <2>2
  <1>8. ASSUME NEW q \in Tasks \ {t}, task[q].user = u PROVE Sound(task[q])'
    <2>1. Same(task'[q], task[q]) /\ (task[q].over => task'[q].over) /\ Sound(task[q])
      BY <1>0, KeyInvParts DEF Took, Others
    <2>2. Mode(task[q])' BY <1>0, <2>1 DEF Sound, Same, Mode
    <2>3. InHand(task[q])' BY <1>0, <2>1 DEF Sound, Same, InHand
    <2>4. Current(task[q])' BY <1>0, <2>1 DEF Sound, Same, Current
    <2>5. Listed(task[q])'
      <3>1. Listed(task[q]) /\ task'[q].pc = task[q].pc /\ task'[q].rows = task[q].rows /\ task'[q].user = u
        BY <1>8, <2>1 DEF Sound, Same
      <3>2. task[q].pc \in {"toBoxes", "dropUK"} => keyPw[u] # None BY <1>8, <2>1 DEF Sound, InHand, Enrolling
      <3>3. ASSUME NEW g \in FileKeys, Firm(g, u)', task[q].pc \in {"toBoxes", "dropUK"}
            PROVE  wrapped'[g][u].scheme = 1 \/ (Firm(g, u) /\ wrapped'[g][u] = wrapped[g][u])
        BY <1>5, <1>6, <3>2, <3>3
      <3>4. ASSUME NEW g \in FileKeys, Firm(g, u)', task[q].pc \in {"toSym", "dropPw"}
            PROVE  wrapped'[g][u].scheme = 0 \/ (Firm(g, u) /\ wrapped'[g][u] = wrapped[g][u])
        BY <1>5, <1>6, <1>8, <3>4
      <3> QED BY <1>8, <3>1, <3>3, <3>4, Frame DEF Listed
    <2> QED BY <2>2, <2>3, <2>4, <2>5 DEF Sound
  <1>9. Sound(task[t])' BY <1>0, RestingNext DEF Took
  <1>10. \A v \in Users \ {u} : \A g \in FileKeys : wrapped'[g][v] = wrapped[g][v] BY <1>4
  <1> QED BY <1>0, <1>7, <1>8, <1>9, <1>10, OneAccount

\* A revoked share deletes a wrap, a restart every request.
LEMMA KeysUnwrap ==
  ASSUME Base, KeyInv, mix' = mix, NEW f \in FileKeys, NEW u \in Users, Unwrap(f, u)
  PROVE  KeyInv'
  <1>1. UNCHANGED <<passwordWrapped, userKey, keyPw, task>> /\ wrapped' = [wrapped EXCEPT ![f][u] = NoRow] BY DEF Unwrap
  <1>2. \A g \in FileKeys, v \in Users : wrapped'[g][v] = wrapped[g][v] \/ wrapped'[g][v] = NoRow
    <2>1. wrapped \in [FileKeys -> [Users -> Rows]] BY DEF Base, TypeOK
    <2> QED BY <1>1, <2>1
  <1>3. \A g \in FileKeys, v \in Users : Firm(g, v)' => Firm(g, v) /\ wrapped'[g][v] = wrapped[g][v] BY <1>2 DEF Firm
  <1>4. \A g \in FileKeys, v \in Users : Firm(g, v)' => Opened(g, v)' BY <1>1, <1>3, KeyInvParts DEF Opened, OpensSym, OpensBox
  <1>5. ASSUME NEW q \in Tasks PROVE Sound(task[q])'
    <2>1. Sound(task[q]) BY KeyInvParts
    <2>2. Mode(task[q])' BY <1>1, <2>1 DEF Sound, Mode
    <2>3. InHand(task[q])' BY <1>1, <2>1 DEF Sound, InHand
    <2>4. Current(task[q])' BY <1>1, <2>1 DEF Sound, Current
    <2>5. Listed(task[q])'
      <3>1. task[q].pc \in {"toBoxes", "dropUK", "toSym", "dropPw"} => task[q].user \in Users BY OpOf
      <3> QED BY <1>1, <1>3, <2>1, <3>1, Frame DEF Sound, Listed
    <2> QED BY <2>2, <2>3, <2>4, <2>5 DEF Sound
  <1> QED BY <1>4, <1>5, Frame DEF KeyInv, NoKeyLost, Firm, Opened, Sound

LEMMA KeysRestart ==
  ASSUME Base, KeyInv, mix' = mix, Restart
  PROVE  KeyInv'
  <1>1. UNCHANGED <<userKey, keyPw, wrapped>> /\ task' = [t \in Tasks |-> Idle] BY DEF Restart
  <1>2. ASSUME NEW q \in Tasks PROVE Sound(task[q])' BY <1>1, RestingNext
  <1>3. NoKeyLost' BY <1>1, Frame DEF KeyInv, NoKeyLost, OpensSym, OpensBox
  <1> QED BY <1>2, <1>3 DEF KeyInv, Sound

LEMMA KeysStep ==
  ASSUME Base, KeyInv, Next, mix' = mix
  PROVE  KeyInv'
  <1>1. ASSUME NEW t \in Tasks, Proceeds(t) PROVE KeyInv'
    BY <1>1, KeysLogin, KeysInsertPw, KeysList, KeysConvert, KeysDropUK, KeysDropPw, KeysObtain, KeysPublic, KeysInsertWrap, KeysRead
    DEF Proceeds
  <1>2. ASSUME NEW u \in Users, IssueToken(u) PROVE KeyInv'
    <2>1. UNCHANGED <<passwordWrapped, userKey, keyPw, wrapped, task>> BY <1>2 DEF IssueToken, Tables
    <2> QED BY <2>1, Frame DEF KeyInv, NoKeyLost, OpensSym, OpensBox, Mode, InHand, Current, Listed, Firm
  <1> QED BY <1>1, <1>2, Splits, KeysBegin, KeysUnwrap, KeysRestart

LEMMA KeysInit == Init => KeyInv
  <1> SUFFICES ASSUME Init PROVE KeyInv OBVIOUS
  <1>1. \A t \in Tasks : Sound(task[t]) BY Resting, IdleTask DEF Init
  <1>2. NoKeyLost BY DEF Init, NoKeyLost
  <1> QED BY <1>1, <1>2 DEF KeyInv, Sound

LEMMA KeysHold == Spec => [](Base /\ KeyInv)
  <1>1. KeyInv /\ UNCHANGED vars => KeyInv'
    BY Frame DEF KeyInv, NoKeyLost, OpensSym, OpensBox, Mode, InHand, Current, Listed, Firm, vars
  <1>2. Base /\ KeyInv /\ [Next /\ UNCHANGED mix]_vars => KeyInv' BY <1>1, KeysStep
  <1> QED BY KeysInit, BaseHolds, <1>2, PTL DEF Spec

\* No file key is lost, whatever logins, first writes, share wraps and restarts
\* interleave (UnlockForLogin, allocateForUserID, wrapFKForUser).
THEOREM KeysKept == Spec => []NoKeyLost
  BY KeysHold, PTL DEF KeyInv

-----------------------------------------------------------------------------
(* Every step keeps the owner's wrap.                                      *)

\* What changes a wrap.
LEMMA WrapMoves ==
  ASSUME Base, Next, mix' = mix
  PROVE  \/ UNCHANGED wrapped
         \/ \E t \in Tasks : ConvertRow(t)
         \/ \E t \in Tasks : InsertWrap(t)
         \/ \E f \in FileKeys, u \in Users : Unwrap(f, u)
  <1>1. ASSUME NEW t \in Tasks, Begins(t) PROVE UNCHANGED wrapped BY <1>1, BeginsOne DEF Tables
  <1>2. ASSUME NEW t \in Tasks, Proceeds(t), ~ConvertRow(t), ~InsertWrap(t) PROVE UNCHANGED wrapped
    BY <1>2 DEF Proceeds, LoadEnrollment, HasUserKey, InsertPw, LoadUK, ListRows, DropUK, DropPw, DropTokens,
                UKLoad, UKInsert, UKReload, PublicKeyFor, ReadAsOwner, ResolveIdentity, Tables
  <1>3. (\E u \in Users : IssueToken(u)) => UNCHANGED wrapped BY DEF IssueToken, Tables
  <1>4. Restart => UNCHANGED wrapped BY DEF Restart
  <1> QED BY <1>1, <1>2, <1>3, <1>4, Splits

LEMMA ConvertedRow ==
  ASSUME Base, NEW t \in Tasks, ConvertRow(t), NEW f \in FileKeys, NEW u \in Users
  PROVE  \/ wrapped'[f][u] = wrapped[f][u]
         \/ /\ u = task[t].user /\ wrapped[f][u] # NoRow /\ wrapped'[f][u] # NoRow
            /\ task[t].pc = "toBoxes" => wrapped'[f][u].scheme = 1
  <1>1. CASE UNCHANGED wrapped BY <1>1
  <1>2. ASSUME NEW g \in FileKeys, wrapped' = Updated(g, task[t].user, IF task[t].pc = "toBoxes" THEN Box(task[t].pub) ELSE Sym(task[t].uk))
        PROVE  \/ wrapped'[f][u] = wrapped[f][u]
               \/ /\ u = task[t].user /\ wrapped[f][u] # NoRow /\ wrapped'[f][u] # NoRow
                  /\ task[t].pc = "toBoxes" => wrapped'[f][u].scheme = 1
    <2>1. task[t].user \in Users BY ConvertRowOne, OpOf
    <2>a. PICK v \in Users : v = task[t].user BY <2>1
    <2>b. PICK row : row = IF task[t].pc = "toBoxes" THEN Box(task[t].pub) ELSE Sym(task[t].uk) OBVIOUS
    <2>3. wrapped' = Updated(g, v, row) BY <1>2, <2>a, <2>b
    <2>4. /\ \A h \in FileKeys, x \in Users : h # g \/ x # v => wrapped'[h][x] = wrapped[h][x]
          /\ wrapped'[g][v] = IF wrapped[g][v] = NoRow THEN NoRow ELSE row
      BY <2>3, UpdatedRow
    <2>5. row # NoRow /\ (task[t].pc = "toBoxes" => row.scheme = 1) BY <2>b DEF Box, Sym, NoRow
    <2> QED BY <2>a, <2>4, <2>5
  <1> QED BY <1>1, <1>2, ConvertRowOne

LEMMA InsertedBy ==
  ASSUME Base, NEW t \in Tasks, InsertWrap(t), NEW f \in FileKeys, NEW u \in Users
  PROVE  IF f = task[t].fk /\ u = task[t].user /\ wrapped[f][u] = NoRow THEN wrapped'[f][u] = Insert(t) /\ Insert(t) # NoRow
         ELSE wrapped'[f][u] = wrapped[f][u]
  <1>1. task[t].fk \in FileKeys /\ task[t].user \in Users /\ Insert(t) # NoRow BY InsertWrapOne, InsertTyped
  <1>2. PICK g \in FileKeys, v \in Users : g = task[t].fk /\ v = task[t].user BY <1>1
  <1>3. PICK row : row = Insert(t) OBVIOUS
  <1>4. wrapped' = Inserted(g, v, row) BY <1>2, <1>3, InsertWrapOne DEF Inserted
  <1>5. /\ \A h \in FileKeys, x \in Users : h # g \/ x # v => wrapped'[h][x] = wrapped[h][x]
        /\ wrapped'[g][v] = IF wrapped[g][v] # NoRow THEN wrapped[g][v] ELSE row
    BY <1>4, InsertedRow
  <1> QED BY <1>1, <1>2, <1>3, <1>5

LEMMA OwnerStep ==
  ASSUME Base, OwnerInv, Next, mix' = mix
  PROVE  OwnerInv'
  <1> SUFFICES ASSUME NEW f \in FileKeys, owner'[f] # None PROVE owner'[f] \in Users /\ wrapped'[f][owner'[f]] # NoRow
    BY Frame DEF OwnerInv
  <1>0. owner \in [FileKeys -> Users \cup {None}] /\ wrapped \in [FileKeys -> [Users -> Rows]] BY DEF Base, TypeOK
  <1>1. CASE owner'[f] = owner[f]
    <2>1. PICK u \in Users : u = owner[f] /\ wrapped[f][u] # NoRow BY <1>1 DEF OwnerInv
    <2>2. wrapped'[f][u] # NoRow
      <3>1. ASSUME NEW t \in Tasks, ConvertRow(t) PROVE wrapped'[f][u] # NoRow BY <2>1, <3>1, ConvertedRow
      <3>2. ASSUME NEW t \in Tasks, InsertWrap(t) PROVE wrapped'[f][u] # NoRow BY <2>1, <3>2, InsertedBy
      <3>3. ASSUME NEW g \in FileKeys, NEW v \in Users, Unwrap(g, v) PROVE wrapped'[f][u] # NoRow
        BY <1>0, <2>1, <3>3 DEF Unwrap
      <3> QED BY <2>1, <3>1, <3>2, <3>3, WrapMoves
    <2> QED BY <1>1, <2>1, <2>2
  <1>2. CASE owner'[f] # owner[f]
    <2>1. PICK t \in Tasks : /\ InsertWrap(t) /\ task[t].fk \in FileKeys /\ task[t].user \in Users
                             /\ owner' = [owner EXCEPT ![task[t].fk] = task[t].user]
      BY <1>2, Owners
    <2>2. f = task[t].fk /\ owner'[f] = task[t].user BY <1>0, <1>2, <2>1
    <2>3. PICK u \in Users : u = task[t].user BY <2>1
    <2>4. wrapped'[f][u] # NoRow BY <2>1, <2>2, <2>3, InsertedBy
    <2> QED BY <2>2, <2>3, <2>4
  <1> QED BY <1>1, <1>2

LEMMA OwnerHolds == Spec => []OwnerInv
  <1>1. Init => OwnerInv BY DEF Init, OwnerInv
  <1>2. OwnerInv /\ UNCHANGED vars => OwnerInv' BY Frame DEF OwnerInv, vars
  <1>3. Base /\ OwnerInv /\ [Next /\ UNCHANGED mix]_vars => OwnerInv' BY <1>2, OwnerStep
  <1> QED BY BaseHolds, <1>1, <1>3, PTL DEF Spec

\* A file keeps a wrap its owner can open, unless the owner's write was
\* overtaken: a revoked share never takes the owner's (UnwrapKeyFor,
\* wrapFKForUser).
THEOREM OwnersRead == Spec => []OwnerReads
  <1>1. Base /\ KeyInv /\ OwnerInv => OwnerReads
    BY KeyInvParts DEF OwnerReads, OwnerInv, Firm, Opened
  <1> QED BY KeysHold, OwnerHolds, <1>1, PTL

-----------------------------------------------------------------------------
(* Every step keeps what a read knows.                                     *)

\* Keys are generated in order, and a request gets its key from the account,
\* from its session, or generates it.
New(k) == k = minted' /\ minted' = minted + 1
KeysOk ==
  /\ minted' \in {minted, minted + 1}
  /\ \A u \in Users : userKey'[u] \in {userKey[u], None} \/ New(userKey'[u])
  /\ \A u \in Users : keyPw'[u] \in {keyPw[u], None} \/ New(keyPw'[u])
SessionsOk ==
  \A u \in Users : \A k \in sessions'[u] :
    k \in sessions[u] \/ New(k) \/ (k # None /\ \E t \in Tasks : k = task[t].pub)
Pub(q, k) ==
  \/ k \in {task[q].pub, None} \/ New(k)
  \/ \E u \in Users : k = keyPw[u] \/ k \in sessions[u]

LEMMA KeyMoves ==
  ASSUME Base, Next, mix' = mix
  PROVE  KeysOk /\ SessionsOk /\ \A q \in Tasks : Pub(q, task'[q].pub)
  <1>0. /\ userKey \in [Users -> Key] /\ keyPw \in [Users -> Key] /\ sessions \in [Users -> SUBSET (1 .. MaxMint)]
        /\ Idle.pub = None
    BY IdleTask DEF Base, TypeOK
  <1>1. UNCHANGED Tables => KeysOk BY DEF Tables, KeysOk
  <1>2. UNCHANGED sessions => SessionsOk BY DEF SessionsOk
  <1>3. ASSUME NEW t \in Tasks, NEW w, Took(t, w), Pub(t, w.pub), NEW q \in Tasks PROVE Pub(q, task'[q].pub)
    <2>1. CASE q = t BY <1>3, <2>1 DEF Took
    <2>2. CASE q # t
      <3>1. task'[q].pub = task[q].pub BY <1>3, <2>2 DEF Took, Others, Same
      <3> QED BY <3>1 DEF Pub
    <2> QED BY <2>1, <2>2
  <1>4. ASSUME NEW t \in Tasks, LoginReturns(t, task[t].pub), task[t].user \in Users PROVE SessionsOk
    BY <1>0, <1>4 DEF LoginReturns, SessionsOk
  <1>5. ASSUME NEW t \in Tasks, Begins(t) PROVE KeysOk /\ SessionsOk /\ \A q \in Tasks : Pub(q, task'[q].pub)
    <2>1. UNCHANGED Tables /\ UNCHANGED sessions BY <1>5, BeginsOne DEF Rest
    <2>2. PICK w \in TaskRecord :
              /\ Took(t, w) /\ w.over = FALSE /\ w.user \in Users /\ w.op \in Ops
              /\ \/ w.op = "login" /\ w.pc = "enrollment" /\ w.pub = None
                 \/ w.op = "mint" /\ w.pc = "ukLoad" /\ w.pub = None
                 \/ w.op = "alloc" /\ w.pc = "pubKey" /\ w.fk \in FileKeys /\ Unused(w.fk) /\ w.pub = None
                 \/ w.op = "wrap" /\ w.pc = "pubKey" /\ w.fk \in FileKeys /\ w.pub = None
                 \/ w.op = "read" /\ w.pc = "ownerUK" /\ w.fk \in FileKeys /\ owner[w.fk] # None /\ w.pub \in sessions[w.user] \cup {None}
      BY <1>5, BeginsOne
    <2>3. Pub(t, w.pub) BY <2>2 DEF Pub
    <2> QED BY <1>1, <1>2, <1>3, <2>1, <2>2, <2>3
  <1>6. ASSUME NEW t \in Tasks, Proceeds(t), task[t].user \in Users
        PROVE  KeysOk /\ SessionsOk /\ \E w : Took(t, w) /\ Pub(t, w.pub)
    <2> DEFINE Moved == \E w : Took(t, w) /\ Pub(t, w.pub)
    <2>0. Took(t, Idle) => Moved
      <3>1. Pub(t, Idle.pub) BY <1>0 DEF Pub
      <3> QED BY <3>1
    <2>a. ASSUME NEW w, To(t, w), w.pub = task[t].pub PROVE Moved
      <3>1. Pub(t, w.pub) BY <2>a DEF Pub
      <3> QED BY <2>a, <3>1 DEF To
    <2>b. ASSUME NEW w, To(t, w), w.pub = keyPw[w.user] PROVE Moved
      <3>1. w.user \in Users BY <1>6, <2>b DEF To, Follows
      <3>2. Pub(t, w.pub) BY <2>b, <3>1 DEF Pub
      <3> QED BY <2>b, <3>2 DEF To
    <2>1. CASE LoadEnrollment(t) \/ ListRows(t) \/ PublicKeyFor(t) \/ ReadAsOwner(t) \/ ResolveIdentity(t)
      <3>1. UNCHANGED <<Rest, Tables>> BY <2>1, ListRowsOne, PublicKeyForOne, ReadAsOwnerOne, ResolveIdentityOne DEF LoadEnrollment
      <3>2. UNCHANGED Tables /\ UNCHANGED sessions BY <3>1 DEF Rest
      <3>3. Moved
        <4> HIDE DEF Moved
        <4> QED BY <2>0, <2>1, <2>a, <2>b, LoadEnrollmentOne, ListRowsOne, PublicKeyForOne, ReadAsOwnerOne, ResolveIdentityOne
      <3> QED BY <1>1, <1>2, <3>2, <3>3
    <2>2. CASE HasUserKey(t) \/ LoadUK(t) \/ DropUK(t)
      <3>1. KeysOk
        <4>1. CASE HasUserKey(t) \/ LoadUK(t)
          <5>1. UNCHANGED Tables BY <4>1 DEF HasUserKey, LoadUK
          <5> QED BY <1>1, <5>1
        <4>2. CASE DropUK(t) BY <1>0, <1>6, <4>2, DropUKOne DEF KeysOk
        <4> QED BY <2>2, <4>1, <4>2
      <3>2. SessionsOk
        <4> QED BY <1>2, <1>4, <1>6, <2>2, HasUserKeyOne, LoadUKOne, DropUKOne DEF Rest
      <3>3. Moved
        <4> HIDE DEF Moved
        <4> QED BY <2>0, <2>2, <2>a, HasUserKeyOne, LoadUKOne, DropUKOne
      <3> QED BY <3>1, <3>2, <3>3
    <2>3. CASE InsertPw(t)
      <3>1. CASE UNCHANGED <<Rest, Tables>> /\ \E w : To(t, w) /\ w.pc = "enrollment" /\ w.pub = task[t].pub
        <4>1. UNCHANGED Tables /\ UNCHANGED sessions BY <3>1 DEF Rest
        <4> QED BY <1>1, <1>2, <2>a, <3>1, <4>1
      <3>2. CASE minted' = minted + 1 /\ keyPw' = [keyPw EXCEPT ![task[t].user] = minted + 1]
        <4>1. KeysOk
          <5>1. userKey' = userKey BY <2>3, InsertPwOne
          <5> QED BY <1>0, <1>6, <3>2, <5>1 DEF KeysOk, New
        <4>2. SessionsOk
          <5>1. UNCHANGED sessions \/ sessions' = [sessions EXCEPT ![task[t].user] = @ \cup {minted + 1}]
            BY <2>3, InsertPwOne DEF Rest
          <5> QED BY <1>0, <1>6, <3>2, <5>1 DEF SessionsOk, New
        <4>3. Moved
          <5>1. Took(t, Idle) \/ (\E w : To(t, w) /\ w.pub = minted + 1) \/ \E w : To(t, w) /\ w.pub = task[t].pub
            BY <2>3, InsertPwOne
          <5>2. ASSUME NEW w, To(t, w), w.pub = minted + 1 PROVE Moved
            <6>1. Pub(t, w.pub) BY <3>2, <5>2 DEF Pub, New
            <6> QED BY <5>2, <6>1 DEF To
          <5> HIDE DEF Moved
          <5> QED BY <2>0, <2>a, <5>1, <5>2
        <4> QED BY <4>1, <4>2, <4>3
      <3> HIDE DEF Moved
      <3> QED BY <2>3, <3>1, <3>2, InsertPwOne
    <2>4. CASE ConvertRow(t)
      <3>1. UNCHANGED <<userKey, keyPw, minted, sessions>> BY <2>4, ConvertRowOne DEF Rest
      <3>2. Moved
        <4> HIDE DEF Moved
        <4> QED BY <2>0, <2>4, <2>a, ConvertRowOne
      <3>3. KeysOk /\ SessionsOk BY <3>1 DEF KeysOk, SessionsOk
      <3> QED BY <3>2, <3>3
    <2>5. CASE DropPw(t) \/ DropTokens(t)
      <3>1. KeysOk
        <4>1. UNCHANGED <<userKey, minted>> /\ (UNCHANGED keyPw \/ keyPw' = [keyPw EXCEPT ![task[t].user] = None])
          BY <2>5, DropPwOne, DropTokensOne DEF Tables
        <4> QED BY <1>0, <1>6, <4>1 DEF KeysOk
      <3>2. UNCHANGED sessions BY <2>5, DropPwOne, DropTokensOne DEF Rest
      <3>3. Moved
        <4> HIDE DEF Moved
        <4> QED BY <2>0, <2>5, <2>a, DropPwOne, DropTokensOne
      <3> QED BY <1>2, <3>1, <3>2, <3>3
    <2>6. CASE UKLoad(t) \/ UKInsert(t) \/ UKReload(t)
      <3>1. UNCHANGED sessions /\ UNCHANGED keyPw BY <2>6, ObtainOne DEF Rest
      <3>2. KeysOk
        <4>1. UNCHANGED <<userKey, minted>> \/ (userKey' = [userKey EXCEPT ![task[t].user] = minted + 1] /\ minted' = minted + 1)
          BY <2>6, ObtainOne
        <4> QED BY <1>0, <1>6, <3>1, <4>1 DEF KeysOk, New
      <3>3. Moved
        <4> HIDE DEF Moved
        <4> QED BY <2>0, <2>6, <2>a, ObtainOne
      <3> QED BY <1>2, <3>1, <3>2, <3>3
    <2>7. CASE InsertWrap(t)
      <3>1. UNCHANGED <<userKey, keyPw, minted, sessions>> /\ Took(t, Idle) BY <2>7, InsertWrapOne
      <3>2. KeysOk /\ SessionsOk BY <3>1 DEF KeysOk, SessionsOk
      <3> QED BY <2>0, <3>1, <3>2
    <2>8. KeysOk /\ SessionsOk /\ Moved BY <1>6, <2>1, <2>2, <2>3, <2>4, <2>5, <2>6, <2>7 DEF Proceeds
    <2> QED BY <2>8 DEF Moved
  <1>7. CASE \E t \in Tasks : Proceeds(t)
    <2>1. PICK t \in Tasks : Proceeds(t) BY <1>7
    <2>2. task[t].user \in Users BY <2>1, ProceedsOne, OpOf
    <2> QED BY <1>3, <1>6, <2>1, <2>2
  <1>8. CASE (\E u \in Users : IssueToken(u)) \/ (\E f \in FileKeys, u \in Users : Unwrap(f, u))
    <2>1. UNCHANGED <<userKey, keyPw, minted, sessions, task>> BY <1>8 DEF IssueToken, Unwrap, Tables
    <2> QED BY <2>1 DEF KeysOk, SessionsOk, Pub
  <1>9. CASE Restart
    <2>1. UNCHANGED <<userKey, keyPw, minted, sessions>> /\ \A q \in Tasks : task'[q].pub = None BY <1>0, <1>9 DEF Restart
    <2> QED BY <2>1 DEF KeysOk, SessionsOk, Pub
  <1> QED BY <1>5, <1>7, <1>8, <1>9, Splits

LEMMA GeneratedStep ==
  ASSUME Base, Generated, Next, mix' = mix
  PROVE  Generated'
  <1>1. minted \in Nat /\ None = 0 /\ minted' \in {minted, minted + 1} /\ minted <= minted' /\ (\A k : New(k) => k \in 1 .. minted' /\ k <= minted')
    BY KeyMoves, KeysTyped DEF KeysOk, New
  <1>2. ASSUME NEW u \in Users PROVE userKey'[u] <= minted' /\ keyPw'[u] <= minted'
    <2>1. /\ userKey'[u] \in {userKey[u], None} \/ New(userKey'[u])
          /\ keyPw'[u] \in {keyPw[u], None} \/ New(keyPw'[u])
      BY KeyMoves DEF KeysOk
    <2>2. userKey[u] <= minted /\ keyPw[u] <= minted /\ userKey[u] \in Int /\ keyPw[u] \in Int BY KeysTyped DEF Generated
    <2>3. userKey'[u] <= minted'
      <3>1. CASE New(userKey'[u]) BY <1>1, <3>1
      <3>2. CASE userKey'[u] \in {userKey[u], None} BY <1>1, <2>2, <3>2
      <3> QED BY <2>1, <3>1, <3>2
    <2>4. keyPw'[u] <= minted'
      <3>1. CASE New(keyPw'[u]) BY <1>1, <3>1
      <3>2. CASE keyPw'[u] \in {keyPw[u], None} BY <1>1, <2>2, <3>2
      <3> QED BY <2>1, <3>1, <3>2
    <2> QED BY <2>3, <2>4
  <1>3. ASSUME NEW u \in Users, NEW k \in sessions'[u] PROVE k \in 1 .. minted'
    <2>1. k \in sessions[u] \/ New(k) \/ (k # None /\ \E t \in Tasks : k = task[t].pub) BY KeyMoves DEF SessionsOk
    <2>2. CASE k \in sessions[u]
      <3>1. k \in 1 .. minted BY <2>2 DEF Generated
      <3> QED BY <1>1, <3>1
    <2>3. CASE New(k) BY <1>1, <2>3
    <2>4. CASE k # None /\ \E t \in Tasks : k = task[t].pub
      <3>1. PICK t \in Tasks : k = task[t].pub BY <2>4
      <3>2. k \in Key /\ k <= minted BY <3>1, OpOf DEF TaskRecord, Generated
      <3> QED BY <1>1, <2>4, <3>2, KeysTyped
    <2> QED BY <2>1, <2>2, <2>3, <2>4
  <1>4. ASSUME NEW q \in Tasks PROVE task'[q].pub <= minted'
    <2>1. Pub(q, task'[q].pub) BY KeyMoves
    <2>2. task[q].pub \in Int /\ task[q].pub <= minted
      <3>1. task[q].pub \in Key BY OpOf DEF TaskRecord
      <3> QED BY <3>1, KeysTyped DEF Generated
    <2>3. \A u \in Users : keyPw[u] \in Int /\ keyPw[u] <= minted /\ sessions[u] \subseteq 1 .. minted BY KeysTyped DEF Generated
    <2>4. PICK k : k = task'[q].pub OBVIOUS
    <2>5. Pub(q, k) BY <2>1, <2>4
    <2>6. CASE New(k) BY <1>1, <2>4, <2>6
    <2>7. CASE k \in {task[q].pub, None} BY <1>1, <2>2, <2>4, <2>7
    <2>8. CASE \E u \in Users : k = keyPw[u] \/ k \in sessions[u]
      <3>1. k \in Int /\ k <= minted BY <2>3, <2>8
      <3> QED BY <1>1, <2>4, <3>1
    <2> QED BY <2>5, <2>6, <2>7, <2>8 DEF Pub
  <1> QED BY <1>2, <1>3, <1>4, Frame DEF Generated

\* A file is made once: its key is new when its first write begins, and no
\* other first write uses it.
LEMMA OneOwnerStep ==
  ASSUME Base, OneOwner, Next, mix' = mix
  PROVE  OneOwner'
  \* A first write under way in the next state was under way in this one, or begins.
  <1>1. \/ \A q \in Tasks : task'[q].op = "alloc" => task[q].op = "alloc" /\ task'[q].fk = task[q].fk
        \/ UNCHANGED owner /\ \E t \in Tasks :
             /\ task'[t].op = "alloc" => Unused(task'[t].fk)
             /\ \A q \in Tasks \ {t} : task'[q].op = "alloc" => task[q].op = "alloc" /\ task'[q].fk = task[q].fk
    <2>1. CASE task' = task BY <2>1
    <2>2. CASE task' = [t \in Tasks |-> Idle] BY <2>2, IdleTask
    <2>3. ASSUME NEW t \in Tasks, NEW w, Took(t, w), w = Idle \/ To(t, w) PROVE \A q \in Tasks : task'[q].op = "alloc" => task[q].op = "alloc" /\ task'[q].fk = task[q].fk
      <3>1. \A q \in Tasks \ {t} : task'[q].op = task[q].op /\ task'[q].fk = task[q].fk BY <2>3 DEF Took, Others, Same
      <3>2. task'[t] = w /\ (w.op = "alloc" => task[t].op = "alloc" /\ w.fk = task[t].fk)
        BY <2>3, IdleTask DEF Took, To, Follows
      <3> QED BY <3>1, <3>2
    <2>4. ASSUME NEW t \in Tasks, NEW w, Took(t, w), Began(w), UNCHANGED owner
          PROVE  /\ task'[t].op = "alloc" => Unused(task'[t].fk)
                 /\ \A q \in Tasks \ {t} : task'[q].op = "alloc" => task[q].op = "alloc" /\ task'[q].fk = task[q].fk
      <3>1. \A q \in Tasks \ {t} : task'[q].op = task[q].op /\ task'[q].fk = task[q].fk BY <2>4 DEF Took, Others, Same
      <3>2. task'[t] = w BY <2>4 DEF Took
      <3> QED BY <2>4, <3>1, <3>2 DEF Began
    <2> QED BY <2>1, <2>2, <2>3, <2>4, Moves
  <1>2. ASSUME NEW q \in Tasks, NEW p \in Tasks \ {q}, task'[q].op = "alloc", task'[p].op = "alloc" PROVE task'[p].fk # task'[q].fk
    BY <1>1, <1>2 DEF OneOwner, Unused
  <1>3. ASSUME NEW q \in Tasks, task'[q].op = "alloc" PROVE owner'[task'[q].fk] = None
    <2>1. owner[task'[q].fk] = None BY <1>1, <1>3 DEF OneOwner, Unused
    <2>2. ASSUME NEW t \in Tasks, task[t].op = "alloc", task[t].fk \in FileKeys, Took(t, Idle),
                 owner' = [owner EXCEPT ![task[t].fk] = task[t].user]
          PROVE  owner'[task'[q].fk] = None
      <3>1. q # t /\ task[q].op = "alloc" /\ task'[q].fk = task[q].fk
        <4>1. q # t BY <1>3, <2>2, IdleTask DEF Took
        <4> QED BY <1>3, <2>2, <4>1 DEF Took, Others, Same
      <3>2. task'[q].fk # task[t].fk BY <2>2, <3>1 DEF OneOwner
      <3>3. task'[q].fk \in FileKeys BY <3>1, OpOf
      <3>4. owner \in [FileKeys -> Users \cup {None}] BY DEF Base, TypeOK
      <3> QED BY <2>1, <2>2, <3>2, <3>3, <3>4
    <2> QED BY <2>1, <2>2, Owners
  <1> QED BY <1>2, <1>3 DEF OneOwner

\* The file a read is about keeps its owner.
LEMMA ReadOwner ==
  ASSUME Base, OneOwner, Next, mix' = mix, NEW q \in Tasks, task[q].op = "read"
  PROVE  owner'[task[q].fk] = owner[task[q].fk]
  <1>1. owner[task[q].fk] \in Users /\ task[q].fk \in FileKeys BY DEF Base, OwnedReads, Fits
  <1>2. owner[task[q].fk] # None BY <1>1, KeysAssumption DEF Base, Users
  <1>3. ASSUME NEW t \in Tasks, task[t].op = "alloc", owner' = [owner EXCEPT ![task[t].fk] = task[t].user]
        PROVE  owner'[task[q].fk] = owner[task[q].fk]
    <2>1. task[t].fk # task[q].fk BY <1>2, <1>3 DEF OneOwner
    <2>2. owner \in [FileKeys -> Users \cup {None}] BY DEF Base, TypeOK
    <2> QED BY <1>1, <1>3, <2>1, <2>2
  <1> QED BY <1>3, Owners

\* While accounts enroll, an account with a pair gets no symmetric wrap that counts.
LEMMA BoxesStay ==
  ASSUME Base, KeyInv, Next, mix' = mix, NEW u \in Users, passwordWrapped, keyPw[u] # None,
         \A f \in FileKeys : Firm(f, u) => wrapped[f][u].scheme = 1
  PROVE  \A f \in FileKeys : Firm(f, u)' => wrapped'[f][u].scheme = 1
  <1> SUFFICES ASSUME NEW f \in FileKeys, Firm(f, u)' PROVE wrapped'[f][u].scheme = 1
    OBVIOUS
  <1>1. wrapped'[f][u] = wrapped[f][u] => wrapped'[f][u].scheme = 1 BY DEF Firm
  <1>2. ASSUME NEW t \in Tasks, ConvertRow(t) PROVE wrapped'[f][u].scheme = 1
    <2>1. task[t].pc = "toBoxes"
      <3>1. Mode(task[t]) BY DEF KeyInv
      <3>2. task[t].pc \in {"toBoxes", "toSym"} BY <1>2, ConvertRowOne
      <3> QED BY <3>1, <3>2 DEF Mode, Unenrolling
    <2> QED BY <1>1, <1>2, <2>1, ConvertedRow
  <1>3. ASSUME NEW t \in Tasks, InsertWrap(t) PROVE wrapped'[f][u].scheme = 1
    <2>1. CASE wrapped'[f][u] = wrapped[f][u] BY <1>1, <2>1
    <2>2. CASE u = task[t].user /\ wrapped'[f][u] = Insert(t)
      <3>1. task[t].pc \in {"insertBox", "insertSym"} /\ Insert(t).late = Late(t) BY <1>3, InsertWrapOne, InsertTyped
      <3>2. ~Late(t) BY <2>2, <3>1 DEF Firm
      <3>3. ~task[t].over BY <3>2 DEF Late
      <3>4. task[t].pc # "insertSym"
        <4>1. task[t].pc = "insertSym" => task[t].op \in {"alloc", "wrap"} BY OpOf DEF Writing
        <4> QED BY <2>2, <3>3, <4>1 DEF KeyInv, Current
      <3> QED BY <2>2, <3>1, <3>4, InsertTyped DEF OpensBox
    <2> QED BY <1>3, <2>1, <2>2, InsertedBy
  <1>4. ASSUME NEW g \in FileKeys, NEW v \in Users, Unwrap(g, v) PROVE wrapped'[f][u].scheme = 1
    <2>1. wrapped \in [FileKeys -> [Users -> Rows]] BY DEF Base, TypeOK
    <2>2. wrapped'[f][u] = wrapped[f][u] \/ wrapped'[f][u] = NoRow BY <1>4, <2>1 DEF Unwrap
    <2> QED BY <1>1, <2>2 DEF Firm
  <1> QED BY <1>1, <1>2, <1>3, <1>4, WrapMoves

\* While accounts unenroll, a symmetric key stays.
LEMMA UserKeyStays ==
  ASSUME Base, KeyInv, Next, mix' = mix, NEW u \in Users, ~passwordWrapped, userKey[u] # None
  PROVE  userKey'[u] # None
  <1>0. userKey \in [Users -> Key] BY DEF Base, TypeOK
  <1>1. ASSUME NEW t \in Tasks, Begins(t) PROVE UNCHANGED userKey BY <1>1, BeginsOne DEF Tables
  <1>2. ASSUME NEW t \in Tasks, DropUK(t) PROVE FALSE
    <2>1. Mode(task[t]) /\ task[t].pc = "dropUK" BY <1>2, DropUKOne DEF KeyInv
    <2> QED BY <2>1 DEF Mode, Enrolling
  <1>3. ASSUME NEW t \in Tasks, UKLoad(t) \/ UKInsert(t) \/ UKReload(t) PROVE userKey'[u] # None
    <2>1. \/ UNCHANGED userKey
          \/ /\ userKey[task[t].user] = None /\ userKey' = [userKey EXCEPT ![task[t].user] = minted + 1]
      BY <1>3, ObtainOne
    <2> QED BY <1>0, <2>1
  <1>4. ASSUME NEW t \in Tasks, Proceeds(t), ~DropUK(t), ~(UKLoad(t) \/ UKInsert(t) \/ UKReload(t)) PROVE UNCHANGED userKey
    BY <1>4 DEF Proceeds, LoadEnrollment, HasUserKey, InsertPw, LoadUK, ListRows, ConvertRow, DropPw, DropTokens,
                PublicKeyFor, InsertWrap, ReadAsOwner, ResolveIdentity, Tables
  <1>5. (\E v \in Users : IssueToken(v)) => UNCHANGED userKey BY DEF IssueToken, Tables
  <1>6. (\E f \in FileKeys, v \in Users : Unwrap(f, v)) => UNCHANGED userKey BY DEF Unwrap
  <1>7. Restart => UNCHANGED userKey BY DEF Restart
  <1> QED BY <1>1, <1>2, <1>3, <1>4, <1>5, <1>6, <1>7, Splits

LEMMA ModeStays ==
  ASSUME Base, Next, mix' = mix, ~Restart
  PROVE  UNCHANGED passwordWrapped
  <1>1. ASSUME NEW t \in Tasks, Begins(t) PROVE UNCHANGED passwordWrapped BY <1>1, BeginsOne DEF Rest
  <1>2. ASSUME NEW t \in Tasks, Proceeds(t) PROVE UNCHANGED passwordWrapped
    BY <1>2 DEF Proceeds, LoadEnrollment, HasUserKey, InsertPw, LoadUK, ListRows, ConvertRow, DropUK, DropPw, DropTokens,
                UKLoad, UKInsert, UKReload, PublicKeyFor, InsertWrap, ReadAsOwner, ResolveIdentity, LoginReturns, Rest
  <1>3. (\E u \in Users : IssueToken(u)) => UNCHANGED passwordWrapped BY DEF IssueToken
  <1>4. (\E f \in FileKeys, u \in Users : Unwrap(f, u)) => UNCHANGED passwordWrapped BY DEF Unwrap
  <1> QED BY <1>1, <1>2, <1>3, <1>4, Splits

\* A read that goes on as before.
LEMMA FoundStays ==
  ASSUME Base, KeyInv, ReadInv, Next, mix' = mix, UNCHANGED passwordWrapped, NEW q \in Tasks, Same(task'[q], task[q])
  PROVE  Found(task[q])'
  <1> DEFINE r == task[q]
  <1>1. SUFFICES ASSUME r.op = "read", r.user = owner'[r.fk], r.pub # None, r.pub = keyPw'[r.user],
                        r.pc \in {"readerRow", "readerUK"}
        PROVE  /\ r.pc = "readerRow" /\ passwordWrapped => \A f \in FileKeys : Firm(f, r.user)' => wrapped'[f][task'[q].user].scheme = 1
               /\ r.pc = "readerUK" /\ ~r.rows.late => OpensBox(r.rows, r.pub) \/ (~passwordWrapped /\ userKey'[r.user] # None)
    <2>1. Same(task'[q], r) OBVIOUS
    <2> QED BY <2>1, Frame DEF Found, Same
  <1>2. owner'[r.fk] = owner[r.fk] BY <1>1, ReadOwner DEF ReadInv
  <1>3. PICK u \in Users : u = r.user /\ u = task'[q].user BY <1>1, OpOf DEF Same
  <1>4. keyPw[u] = r.pub
    <2>1. keyPw'[u] \in {keyPw[u], None} \/ New(keyPw'[u]) BY KeyMoves DEF KeysOk
    <2>2. r.pub <= minted /\ minted \in Nat BY KeysTyped DEF ReadInv, Generated
    <2>3. ~New(r.pub) BY <2>2 DEF New
    <2> QED BY <1>1, <1>3, <2>1, <2>3
  <1>5. /\ r.pc = "readerRow" /\ passwordWrapped => \A f \in FileKeys : Firm(f, u) => wrapped[f][u].scheme = 1
        /\ r.pc = "readerUK" /\ ~r.rows.late => OpensBox(r.rows, r.pub) \/ (~passwordWrapped /\ userKey[u] # None)
    BY <1>1, <1>2, <1>3, <1>4 DEF ReadInv, Found
  <1>6. CASE r.pc = "readerRow" /\ passwordWrapped
    <2>1. \A f \in FileKeys : Firm(f, u)' => wrapped'[f][u].scheme = 1 BY <1>1, <1>4, <1>5, <1>6, BoxesStay
    <2> QED BY <1>3, <1>6, <2>1 DEF Firm
  <1>7. CASE r.pc = "readerUK"
    <2>1. ~passwordWrapped /\ userKey[u] # None => userKey'[u] # None BY UserKeyStays
    <2> QED BY <1>3, <1>5, <1>7, <2>1
  <1> QED BY <1>1, <1>6, <1>7

\* A read that learns something.
LEMMA FoundNext ==
  ASSUME Base, KeyInv, ReadInv, mix' = mix, NEW t \in Tasks, NEW w, Took(t, w), UNCHANGED <<passwordWrapped, userKey, keyPw, wrapped, owner>>, Found(w)
  PROVE  Found(task[t])'
  <1>1. task'[t] = w BY DEF Took
  <1> QED BY <1>1, Frame DEF Found, Firm

LEMMA FoundReads ==
  ASSUME Base, KeyInv, ReadInv, mix' = mix, NEW t \in Tasks, ReadAsOwner(t) \/ ResolveIdentity(t)
  PROVE  Found(task[t])'
  <1>1. UNCHANGED <<passwordWrapped, userKey, keyPw, wrapped, owner>>
    BY ReadAsOwnerOne, ResolveIdentityOne DEF Rest, Tables
  <1>2. CASE Took(t, Idle)
    <2>1. Found(Idle) BY IdleTask DEF Found
    <2> QED BY <1>1, <1>2, <2>1, FoundNext
  <1>3. CASE \E w : To(t, w) /\ w.pc \notin {"readerRow", "readerUK"}
    <2>1. PICK w : To(t, w) /\ w.pc \notin {"readerRow", "readerUK"} BY <1>3
    <2>2. Found(w) BY <2>1 DEF Found
    <2> QED BY <1>1, <2>1, <2>2, FoundNext DEF To
  \* The owner has no symmetric key: its wraps are boxes.
  <1>4. CASE \E w : To(t, w) /\ w.pc = "readerRow" /\ userKey[owner[w.fk]] = None
    <2>1. PICK w : To(t, w) /\ w.pc = "readerRow" /\ userKey[owner[w.fk]] = None BY <1>4
    <2>2. ASSUME w.op = "read", w.user = owner[w.fk], NEW f \in FileKeys, Firm(f, w.user) PROVE wrapped[f][w.user].scheme = 1
      <3>1. w.user \in Users BY <2>1, <2>2 DEF To, Took, Fine, Fits
      <3>2. Opened(f, w.user) BY <2>2, <3>1, KeyInvParts
      <3> QED BY <2>1, <2>2, <3>1, <3>2, FirmRow
    <2>3. Found(w) BY <2>1, <2>2 DEF Found
    <2> QED BY <1>1, <2>1, <2>3, FoundNext DEF To
  <1>5. CASE \E w : /\ To(t, w) /\ task[t].pc = "readerRow" /\ w.pub = task[t].pub
                    /\ w.pc = "readerUK" /\ w.rows = wrapped[w.fk][w.user] /\ w.rows # NoRow
    <2>1. PICK w : /\ To(t, w) /\ task[t].pc = "readerRow" /\ w.pub = task[t].pub
                   /\ w.pc = "readerUK" /\ w.rows = wrapped[w.fk][w.user] /\ w.rows # NoRow
      BY <1>5
    <2>2. w.op = task[t].op /\ w.user = task[t].user /\ w.fk = task[t].fk BY <2>1 DEF To, Follows
    <2>3. ASSUME w.op = "read", w.user = owner[w.fk], w.pub # None, w.pub = keyPw[w.user], ~w.rows.late
          PROVE  OpensBox(w.rows, w.pub) \/ (~passwordWrapped /\ userKey[w.user] # None)
      <3>1. w.user \in Users /\ w.fk \in FileKeys BY <2>1, <2>3 DEF To, Took, Fine, Fits
      <3>2. Firm(w.fk, w.user) BY <2>1, <2>3 DEF Firm
      <3>3. \/ w.rows.scheme = 0 /\ userKey[w.user] = w.rows.key /\ w.rows.key # None
            \/ w.rows.scheme = 1 /\ keyPw[w.user] = w.rows.key
        BY <2>1, <3>1, <3>2, KeyInvParts, FirmRow
      <3>4. passwordWrapped => w.rows.scheme = 1
        BY <2>1, <2>2, <2>3, <3>1, <3>2 DEF ReadInv, Found
      <3> QED BY <2>3, <3>3, <3>4 DEF OpensBox
    <2>4. Found(w) BY <2>1, <2>3 DEF Found
    <2> QED BY <1>1, <2>1, <2>4, FoundNext DEF To
  <1>6. CASE ReadAsOwner(t) BY <1>2, <1>3, <1>4, <1>6, ReadAsOwnerOne
  <1>7. CASE ResolveIdentity(t) BY <1>2, <1>3, <1>5, <1>7, ResolveIdentityOne
  <1> QED BY <1>6, <1>7

LEMMA ReadStep ==
  ASSUME Base, KeyInv, ReadInv, Next, mix' = mix
  PROVE  ReadInv'
  <1>1. ASSUME NEW q \in Tasks PROVE Found(task[q])'
    <2>1. CASE Restart
      <3>1. task'[q] = Idle BY <2>1 DEF Restart
      <3> QED BY <3>1, IdleTask DEF Found
    <2>2. CASE ~Restart
      <3>1. UNCHANGED passwordWrapped BY <2>2, ModeStays
      <3>2. CASE task' = task
        <4>1. Same(task'[q], task[q]) BY <3>2 DEF Same
        <4> QED BY <3>1, <4>1, FoundStays
      <3>3. ASSUME NEW t \in Tasks, Begins(t) \/ Proceeds(t) PROVE Found(task[q])'
        <4>1. CASE q # t
          <5>1. \E w : Took(t, w)
            <6>1. CASE Begins(t) BY <6>1, BeginsOne
            <6>2. CASE Proceeds(t) BY <6>2, ProceedsOne DEF To
            <6> QED BY <3>3, <6>1, <6>2
          <5>2. Same(task'[q], task[q]) BY <4>1, <5>1 DEF Took, Others
          <5> QED BY <3>1, <5>2, FoundStays
        <4>2. CASE q = t /\ Begins(t)
          <5>1. PICK w : Took(t, w) /\ w.pc \notin {"readerRow", "readerUK"} BY <4>2, BeginsOne
          <5>2. task'[q] = w BY <4>2, <5>1 DEF Took
          <5> QED BY <5>1, <5>2 DEF Found
        <4>3. CASE q = t /\ (ReadAsOwner(t) \/ ResolveIdentity(t)) BY <4>3, FoundReads
        <4>4. CASE q = t /\ Proceeds(t) /\ ~ReadAsOwner(t) /\ ~ResolveIdentity(t)
          <5>1. task[t].op # "read"
            <6>1. task[t].pc \notin Reading
              BY <4>4, ObtainOne DEF Proceeds, LoadEnrollment, HasUserKey, InsertPw, LoadUK, ListRows, ConvertRow, DropUK, DropPw, DropTokens,
                              PublicKeyFor, InsertWrap, At, Reading, Obtaining
            <6> QED BY <6>1 DEF Base, Fits
          <5>2. task'[t] = Idle \/ task'[t].op = task[t].op BY <4>4, ProceedsOne DEF To, Took, Follows
          <5>3. task'[t].op # "read" BY <5>1, <5>2, IdleTask
          <5> QED BY <4>4, <5>3 DEF Found
        <4> QED BY <3>3, <4>1, <4>2, <4>3, <4>4
      <3>4. (\E u \in Users : IssueToken(u)) \/ (\E f \in FileKeys, u \in Users : Unwrap(f, u)) => task' = task BY DEF IssueToken, Unwrap
      <3> QED BY <2>2, <3>2, <3>3, <3>4, Splits
    <2> QED BY <2>1, <2>2
  <1>2. Generated' /\ OneOwner' BY GeneratedStep, OneOwnerStep DEF ReadInv
  <1> QED BY <1>1, <1>2 DEF ReadInv

LEMMA ReadHolds == Spec => [](Base /\ KeyInv /\ ReadInv)
  <1>1. Init => ReadInv
    <2> SUFFICES ASSUME Init PROVE ReadInv OBVIOUS
    <2>1. \A t \in Tasks : task[t] = Idle BY DEF Init
    <2>2. Generated BY <2>1, IdleTask DEF Init, Generated, None
    <2>3. OneOwner /\ \A t \in Tasks : Found(task[t]) BY <2>1, IdleTask DEF OneOwner, Found
    <2> QED BY <2>2, <2>3 DEF ReadInv
  <1>2. ReadInv /\ UNCHANGED vars => ReadInv'
    BY Frame DEF ReadInv, Generated, OneOwner, Found, Firm, vars
  <1>3. Base /\ KeyInv /\ ReadInv /\ [Next /\ UNCHANGED mix]_vars => ReadInv' BY <1>2, ReadStep
  <1> QED BY KeysHold, <1>1, <1>3, PTL DEF Spec

-----------------------------------------------------------------------------
(* What a request reports.                                                 *)

ObtainOrWrap(t) == UKLoad(t) \/ UKInsert(t) \/ UKReload(t) \/ InsertWrap(t)

LEMMA IntegrityOne ==
  ASSUME Base, Next, mix' = mix, result' = "integrity"
  PROVE  \E t \in Tasks : ResolveIdentity(t)
  <1>1. ASSUME NEW t \in Tasks, Begins(t) PROVE FALSE BY <1>1, BeginsOne
  <1>2. ASSUME NEW t \in Tasks, Proceeds(t), ~ResolveIdentity(t) PROVE FALSE
    <2>1. CASE ObtainOrWrap(t)
      BY <2>1, ObtainOne, InsertWrapOne DEF ObtainOrWrap
    <2>2. CASE ListRows(t) \/ PublicKeyFor(t) \/ ReadAsOwner(t) \/ DropPw(t) \/ DropTokens(t)
      BY <2>2, ListRowsOne, PublicKeyForOne, ReadAsOwnerOne, DropPwOne, DropTokensOne
    <2>3. CASE LoadEnrollment(t) \/ HasUserKey(t) \/ InsertPw(t) \/ LoadUK(t) \/ DropUK(t) \/ ConvertRow(t)
      BY <2>3 DEF LoadEnrollment, HasUserKey, InsertPw, LoadUK, DropUK, ConvertRow, LoginReturns, Return, Goto, Step
    <2> QED BY <1>2, <2>1, <2>2, <2>3 DEF Proceeds, ObtainOrWrap
  <1>3. (\E u \in Users : IssueToken(u)) => result' = "none" BY DEF IssueToken
  <1>4. (\E f \in FileKeys, u \in Users : Unwrap(f, u)) => result' = "none" BY DEF Unwrap
  <1>5. Restart => result' = "none" BY DEF Restart
  <1> QED BY <1>1, <1>2, <1>3, <1>4, <1>5, Splits

\* A read of one's own file that reports an integrity error read a wrap of an
\* overtaken writer, or carried an old session key (Resolve and resolveIdentity
\* against UnlockForLogin).
THEOREM IntegrityErrorsAreStale == Spec => IntegrityMeansStale
  <1>1. ASSUME Base, ReadInv, Next, mix' = mix, NEW t \in Tasks, task[t].op = "read", task'[t] = Idle, result' = "integrity",
               task[t].user = owner[task[t].fk]
        PROVE  task[t].rows.late \/ task[t].pub # keyPw[task[t].user]
    <2>1. PICK p \in Tasks : ResolveIdentity(p) BY <1>1, IntegrityOne
    <2>2. p = t
      <3>1. p # t => task'[t].op = task[t].op BY <1>1, <2>1, ResolveIdentityOne DEF To, Took, Others, Same
      <3> QED BY <1>1, <3>1, IdleTask
    <2>3. /\ task[t].pc = "readerUK" /\ userKey[task[t].user] = None
          /\ task[t].pub # None /\ ~OpensBox(task[t].rows, task[t].pub)
      BY <1>1, <2>1, <2>2, ResolveIdentityOne
    <2> QED BY <1>1, <2>3 DEF ReadInv, Found
  <1>2. Base /\ ReadInv /\ [Next /\ UNCHANGED mix]_vars =>
          [\A t \in Tasks :
             (/\ task[t].op = "read" /\ task'[t] = Idle /\ result' = "integrity"
              /\ task[t].user = owner[task[t].fk]) =>
               \/ task[t].rows.late
               \/ task[t].pub # keyPw[task[t].user]]_vars
    BY <1>1
  <1> QED BY ReadHolds, <1>2, PTL DEF Spec, IntegrityMeansStale

LEMMA KeyOne ==
  ASSUME Base, Next, mix' = mix, result' = "key"
  PROVE  \E t \in Tasks : /\ Took(t, Idle) /\ task[t].user \in Users
                          /\ ~task[t].had \/ userKey'[task[t].user] = None
  <1>1. ASSUME NEW t \in Tasks, Begins(t) PROVE FALSE BY <1>1, BeginsOne
  <1>2. ASSUME NEW t \in Tasks, Proceeds(t), ~HasUserKey(t), ~InsertPw(t), ~LoadUK(t), ~DropUK(t) PROVE FALSE
    <2>1. CASE ObtainOrWrap(t)
      BY <2>1, ObtainOne, InsertWrapOne DEF ObtainOrWrap
    <2>2. CASE ListRows(t) \/ PublicKeyFor(t) \/ ReadAsOwner(t) \/ ResolveIdentity(t) \/ DropPw(t) \/ DropTokens(t)
      BY <2>2, ListRowsOne, PublicKeyForOne, ReadAsOwnerOne, ResolveIdentityOne, DropPwOne, DropTokensOne
    <2>3. CASE LoadEnrollment(t) \/ ConvertRow(t)
      BY <2>3 DEF LoadEnrollment, ConvertRow, Return, Goto, Step
    <2> QED BY <1>2, <2>1, <2>2, <2>3 DEF Proceeds, ObtainOrWrap
  <1>3. ASSUME NEW t \in Tasks, HasUserKey(t) \/ InsertPw(t) \/ LoadUK(t) \/ DropUK(t)
        PROVE  /\ Took(t, Idle) /\ task[t].user \in Users
               /\ ~task[t].had \/ userKey'[task[t].user] = None
    <2>1. task[t].user \in Users
      <3>1. task[t].pc # "idle" BY <1>3, HasUserKeyOne, InsertPwOne, LoadUKOne, DropUKOne
      <3> QED BY <3>1, OpOf
    <2>2. CASE HasUserKey(t)
      <3>1. Took(t, Idle) /\ LoginReturns(t, task[t].pub) /\ (task[t].pub # None => userKey[task[t].user] = None)
        BY <2>2, HasUserKeyOne
      <3>2. task[t].pub # None BY <3>1 DEF LoginReturns, Return
      <3>3. userKey' = userKey BY <2>2 DEF HasUserKey, Tables
      <3> QED BY <2>1, <3>1, <3>2, <3>3
    <2>3. CASE InsertPw(t)
      <3>1. result' = "none" \/ (~task[t].had /\ Took(t, Idle)) BY <2>3, InsertPwOne
      <3> QED BY <2>1, <3>1
    <2>4. CASE LoadUK(t)
      <3>1. Took(t, Idle) /\ userKey[task[t].user] = None BY <2>4, LoadUKOne
      <3>2. userKey' = userKey BY <2>4 DEF LoadUK, Tables
      <3> QED BY <2>1, <3>1, <3>2
    <2>5. CASE DropUK(t)
      <3>1. Took(t, Idle) /\ userKey' = [userKey EXCEPT ![task[t].user] = None] BY <2>5, DropUKOne
      <3>2. userKey \in [Users -> Key] BY DEF Base, TypeOK
      <3> QED BY <2>1, <3>1, <3>2
    <2> QED BY <1>3, <2>2, <2>3, <2>4, <2>5
  <1>4. (\E u \in Users : IssueToken(u)) => result' = "none" BY DEF IssueToken
  <1>5. (\E f \in FileKeys, u \in Users : Unwrap(f, u)) => result' = "none" BY DEF Unwrap
  <1>6. Restart => result' = "none" BY DEF Restart
  <1> QED BY <1>1, <1>2, <1>3, <1>4, <1>5, <1>6, Splits

\* The pivot of enrollment: a login that saw the symmetric key and returns the
\* private key leaves no wrap the master key can open, except those of
\* overtaken writers (UnlockForLogin, convertToBoxes).
THEOREM PivotIsComplete == Spec => PivotComplete
  <1>1. ASSUME Base, KeyInv, Next, mix' = mix, NEW t \in Tasks, task[t].op = "login", task'[t] = Idle, result' = "key", task[t].had,
               NEW f \in FileKeys
        PROVE  LET row == wrapped'[f][task[t].user] IN row = NoRow \/ row.late \/ OpensBox(row, keyPw'[task[t].user])
    <2>1. PICK p \in Tasks : Took(p, Idle) /\ task[p].user \in Users /\ (~task[p].had \/ userKey'[task[p].user] = None)
      BY <1>1, KeyOne
    <2>2. p = t
      <3>1. p # t => task'[t].op = task[t].op BY <2>1 DEF Took, Others, Same
      <3> QED BY <1>1, <3>1, IdleTask
    <2>3. PICK u \in Users : u = task[t].user /\ userKey'[u] = None BY <1>1, <2>1, <2>2
    <2>4. Base' /\ KeyInv' BY <1>1, BaseStep, KeysStep
    <2>5. wrapped'[f][u] \in Rows BY <1>1, TablesStep
    <2>6. wrapped'[f][u] # NoRow /\ ~wrapped'[f][u].late => OpensSym(wrapped'[f][u], None) \/ OpensBox(wrapped'[f][u], keyPw'[u])
      BY <1>1, <2>3, <2>4, Frame DEF KeyInv, NoKeyLost, OpensSym, OpensBox
    <2>7. wrapped'[f][u] # NoRow => ~OpensSym(wrapped'[f][u], None) BY <2>5, Counters DEF Rows, OpensSym
    <2> QED BY <2>3, <2>6, <2>7
  <1>2. Base /\ KeyInv /\ [Next /\ UNCHANGED mix]_vars =>
          [\A t \in Tasks :
             (task[t].op = "login" /\ task'[t] = Idle /\ result' = "key" /\ task[t].had) =>
               \A f \in FileKeys :
                 LET row == wrapped'[f][task[t].user] IN
                 row = NoRow \/ row.late \/ OpensBox(row, keyPw'[task[t].user])]_vars
    BY <1>1
  <1> QED BY KeysHold, <1>2, PTL DEF Spec, PivotComplete
=============================================================================
