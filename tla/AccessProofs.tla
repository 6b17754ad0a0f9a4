---------------------------- MODULE AccessProofs ----------------------------
(***************************************************************************)
(* One account for any number of requests, nodes, credentials and ticks:   *)
(* the login flow implements Handout, who was shut out stays out, and      *)
(* credentials keep their copy of the key.                                 *)
(***************************************************************************)
EXTENDS Access, FiniteSetTheorems, TLAPS

-----------------------------------------------------------------------------
(* Types.                                                                  *)

Partials(S) == UNION {[D -> S] : D \in SUBSET Draws}
Tables == [exists : BOOLEAN, enabled : BOOLEAN, flow : FlowRows, apps : SUBSET Draws, wraps : SUBSET Draws,
           sess : Partials(Session), wopi : Partials(WopiToken), wopiWraps : SUBSET Draws]
Caches == [l1 : [Nodes -> 0 .. TokenTTL + FillTTL], l2 : 0 .. TokenTTL]

Typed ==
  /\ scene \in Scenes /\ now \in Nat
  /\ db \in Tables /\ cache \in Caches
  /\ req \in [Reqs -> Task] /\ hist \in History

\* Which statements belong to which operation, and what they find in the
\* request's local variables.
Paths(op, pc) ==
  /\ op = "none" <=> pc = "idle"
  /\ op = "poll" => pc \in {"consume", "done"}
  /\ op = "begin" => pc \in {"newState", "done"}
  /\ op \in {"grant", "grantApp"} =>
       pc \in {"lookup", "issue", "tokenRow", "wrap", "record", "grantUpdate", "session", "seal", "cookie", "done"}
  /\ op = "login" => pc \in {"session", "seal", "cookie", "done"}
  /\ op = "logout" => pc = "done"
  /\ op = "visit" => pc \in {"visitUser", "touch", "accepted", "done"}
  /\ op = "issue" => pc \in {"visitUser", "touch", "accepted", "issue", "tokenRow", "wrap", "record", "done"}
  /\ op = "bearer" => pc \in {"fill", "bearerRow", "bearerMiss", "bearerUser", "rememberL1", "rememberL2", "attach", "accepted", "done"}
  /\ op = "app" => pc \in {"appKey", "accepted", "done"}
  /\ op = "revoke" => pc \in {"appKey", "dropRow", "dropWrap", "done"}
  /\ op = "mint" => pc \in {"wopiRow", "wopiWrap", "mintUndo", "minted", "done"}
  /\ op = "callback" => pc \in {"callUser", "callKey", "accepted", "done"}
  /\ op = "gc" => pc \in {"gcKeys", "gcRows", "gcPrune", "done"}
  /\ op = "deleteUser" => pc \in {"deleteUser", "done"}

Drawn == {"tokenRow", "wrap", "record", "grantUpdate"}
Minting == {"wopiRow", "wopiWrap", "mintUndo", "minted"}
Holds(v) ==
  /\ v.pc = "idle" => v = Idle
  /\ v.pc \in Drawn \cup Minting => v.pw # None
  /\ v.pc \in {"seal", "cookie"} => v.sid # None
  /\ v.op = "bearer" => v.pc = "done" \/ v.node \in Nodes

Fits == \A r \in Reqs : Paths(req[r].op, req[r].pc) /\ Holds(req[r])

\* The invariant of the types.
Base == Typed /\ Fits

LEMMA Constants == TokenTTL \in Nat \ {0} /\ FillTTL \in Nat \ {0} /\ FlowTTL \in Nat /\ SessionTTL \in Nat /\ WopiTTL \in Nat /\ MaxDraw \in Nat \ {0}
  BY AccessAssumption

LEMMA FlowTypes == NoFlow \in FlowRows /\ Idle \in Task
  <1>1. NoFlow \in FlowRows BY Constants DEF NoFlow, FlowRows, None
  <1>2. None \in Numbers /\ {} \in SUBSET Numbers /\ {} \in SUBSET Draws BY Constants DEF None, Numbers
  <1>3. "none" \in Ops /\ "idle" \in Stages BY DEF Ops, Stages, Ended
  <1> QED BY <1>1, <1>2, <1>3 DEF Idle, Task

LEMMA BaseTypes == Base => TypeOK
  <1> SUFFICES ASSUME Base PROVE TypeOK OBVIOUS
  <1>1. db \in [exists : BOOLEAN, enabled : BOOLEAN, flow : FlowRows, apps : SUBSET Draws, wraps : SUBSET Draws,
                sess : {db.sess}, wopi : {db.wopi}, wopiWraps : SUBSET Draws]
    BY DEF Base, Typed, Tables
  <1>2. db.sess \in Partials(Session) /\ db.wopi \in Partials(WopiToken)
    BY DEF Base, Typed, Tables
  <1>3. IsTable(db.sess, Session) /\ IsTable(db.wopi, WopiToken)
    BY <1>2 DEF IsTable, Partials
  <1> QED BY <1>1, <1>3 DEF TypeOK, Base, Typed, Caches

LEMMA PutTable ==
  ASSUME NEW S, NEW f \in Partials(S), NEW k \in Draws, NEW v \in S
  PROVE  /\ Put(f, k, v) \in Partials(S)
         /\ DOMAIN Put(f, k, v) = DOMAIN f \cup {k}
         /\ Put(f, k, v)[k] = v
         /\ \A x \in DOMAIN f \ {k} : Put(f, k, v)[x] = f[x]
  <1>1. PICK D \in SUBSET Draws : f \in [D -> S] BY DEF Partials
  <1>2. Put(f, k, v) \in [D \cup {k} -> S] BY <1>1 DEF Put
  <1>3. D \cup {k} \in SUBSET Draws OBVIOUS
  <1>4. Put(f, k, v) \in Partials(S) BY <1>2, <1>3 DEF Partials
  <1> QED BY <1>1, <1>2, <1>4 DEF Put

LEMMA DropTable ==
  ASSUME NEW S, NEW f \in Partials(S), NEW k
  PROVE  /\ Drop(f, k) \in Partials(S)
         /\ DOMAIN Drop(f, k) = DOMAIN f \ {k}
         /\ \A x \in DOMAIN f \ {k} : Drop(f, k)[x] = f[x]
  <1>1. PICK D \in SUBSET Draws : f \in [D -> S] BY DEF Partials
  <1>2. Drop(f, k) \in [D \ {k} -> S] BY <1>1 DEF Drop
  <1>3. D \ {k} \in SUBSET Draws OBVIOUS
  <1>4. Drop(f, k) \in Partials(S) BY <1>2, <1>3 DEF Partials
  <1> QED BY <1>1, <1>2, <1>4 DEF Drop

\* A request goes on: it keeps what it has read, and forgets it when it ends.
Same(v, w) == v.node = w.node /\ v.row = w.row /\ v.st = w.st /\ v.pw = w.pw /\ v.sid = w.sid /\ v.key = w.key /\ v.at = w.at /\ v.list = w.list
Moved(r, pc, w) ==
  /\ req' = [req EXCEPT ![r] = w]
  /\ w.pc = pc /\ w.op = req[r].op /\ w.seen = req[r].seen
  /\ pc # "done" => Same(w, req[r]) /\ w.off = req[r].off /\ w.since = req[r].since
  /\ pc = "done" => Same(w, Idle)

LEMMA StepOne ==
  ASSUME Typed, NEW r \in Reqs, NEW pc \in Stages, Step(r, pc)
  PROVE  \E w \in Task : Moved(r, pc, w)
  <1>1. req[r] \in Task BY DEF Typed
  <1>2. CASE pc = "done"
    <2>1. PICK w : w = [Idle EXCEPT !.pc = pc, !.op = req[r].op, !.seen = req[r].seen] OBVIOUS
    <2>2. w \in Task /\ w.pc = pc /\ w.op = req[r].op /\ w.seen = req[r].seen /\ Same(w, Idle)
      BY <1>1, <2>1, FlowTypes DEF Task, Idle, Same
    <2>3. req' = [req EXCEPT ![r] = w] BY <1>2, <2>1 DEF Step
    <2> QED BY <1>2, <2>2, <2>3 DEF Moved
  <1>3. CASE pc # "done"
    <2>1. PICK w : w = [req[r] EXCEPT !.pc = pc] OBVIOUS
    <2>2. w \in Task /\ w.pc = pc /\ w.op = req[r].op /\ w.seen = req[r].seen /\ Same(w, req[r]) /\ w.off = req[r].off /\ w.since = req[r].since
      BY <1>1, <2>1 DEF Task, Same
    <2>3. req' = [req EXCEPT ![r] = w] BY <1>3, <2>1 DEF Step
    <2> QED BY <1>3, <2>2, <2>3 DEF Moved
  <1> QED BY <1>2, <1>3

\* A request comes in, and is w after its first statement.
Came(r, op, w) ==
  /\ req' = [req EXCEPT ![r] = w] /\ At(r, "idle") /\ op \in scene.ops
  /\ w.op = op /\ w.off = ~(db.exists /\ db.enabled) /\ w.since = hist.stale

LEMMA EnterOne ==
  ASSUME Typed, NEW r \in Reqs, NEW op \in Ops, NEW v \in Task, Enter(r, op, v)
  PROVE  \E w \in Task : Came(r, op, w) /\ w.pc = v.pc /\ w.seen = v.seen /\ Same(w, v)
  <1>1. PICK w : w = [v EXCEPT !.op = op, !.off = ~(db.exists /\ db.enabled), !.since = hist.stale] OBVIOUS
  <1>2. hist.stale \in Nat BY DEF Typed, History
  <1>3. (~(db.exists /\ db.enabled)) \in BOOLEAN OBVIOUS
  <1>4. w \in Task /\ w.op = op /\ w.pc = v.pc /\ w.seen = v.seen /\ Same(w, v) /\ w.off = ~(db.exists /\ db.enabled) /\ w.since = hist.stale
    BY <1>1, <1>2, <1>3 DEF Task, Same
  <1>5. req' = [req EXCEPT ![r] = w] BY <1>1 DEF Enter
  <1> QED BY <1>4, <1>5 DEF Came, Enter

LEMMA FitsOne ==
  ASSUME Base, NEW r \in Reqs, NEW w \in Task, req' = [req EXCEPT ![r] = w], Paths(w.op, w.pc), Holds(w)
  PROVE  req' \in [Reqs -> Task] /\ Fits'
  BY DEF Base, Typed, Fits

\* It is enough to know where the request goes.
LEMMA FitsStep ==
  ASSUME Base, NEW r \in Reqs, NEW pc \in Stages, Step(r, pc), Paths(req[r].op, pc), pc # "idle",
         pc \in Drawn \cup Minting => req[r].pw # None,
         pc \in {"seal", "cookie"} => req[r].sid # None,
         req[r].op = "bearer" => pc = "done" \/ req[r].node \in Nodes
  PROVE  req' \in [Reqs -> Task] /\ Fits'
  <1>1. PICK w \in Task : Moved(r, pc, w) BY StepOne DEF Base
  <1>2. Paths(w.op, w.pc) BY <1>1 DEF Moved
  <1>3. Holds(w) BY <1>1 DEF Moved, Same, Holds, Drawn, Minting
  <1> QED BY <1>1, <1>2, <1>3, FitsOne DEF Moved

\* A poll takes the row along as it reads it, and so does whoever opens the link.
LEMMA PollOne ==
  ASSUME Base, NEW r \in Reqs, HandlePoll(r)
  PROVE  \E w \in Task :
           /\ Came(r, "poll", w) /\ w.pw = None /\ w.pc \in {"consume", "done"}
           /\ w.pc = "consume" => db.flow.state = "granted" /\ w.row = db.flow /\ w.seen = hist.handed
           /\ w.pc = "done" => w.seen = {}
  <1>1. PICK v : /\ Enter(r, "poll", v)
                 /\ v = IF db.flow.state # "granted" \/ Expired(db.flow) THEN Refused
                         ELSE [Idle EXCEPT !.pc = "consume", !.row = db.flow, !.seen = hist.handed]
    BY DEF HandlePoll
  <1>2. db.flow \in FlowRows /\ hist.handed \in SUBSET Numbers BY DEF Base, Typed, Tables, History
  <1>3. /\ v \in Task /\ v.pw = None /\ v.pc \in {"consume", "done"}
        /\ v.pc = "consume" => db.flow.state = "granted" /\ v.row = db.flow /\ v.seen = hist.handed
        /\ v.pc = "done" => v.seen = {}
    BY <1>1, <1>2, FlowTypes DEF Refused, Task, Idle, Stages, Ended
  <1>4. PICK w \in Task : Came(r, "poll", w) /\ w.pc = v.pc /\ w.seen = v.seen /\ Same(w, v)
    BY <1>1, <1>3, EnterOne DEF Base, Ops
  <1> QED BY <1>3, <1>4 DEF Same

LEMMA KeyFlags == Typed => UnlockForLogin \in BOOLEAN /\ \A p : UnlockForToken(p) \in BOOLEAN
  BY AccessAssumption DEF UnlockForLogin, UnlockForToken, Typed

LEMMA Names ==
  /\ {"idle", "done", "accepted", "consume", "newState", "lookup", "issue", "tokenRow", "wrap", "record", "grantUpdate", "session"} \subseteq Stages
  /\ {"seal", "cookie", "visitUser", "touch", "fill", "bearerRow", "bearerMiss", "bearerUser", "rememberL1", "rememberL2", "attach"} \subseteq Stages
  /\ {"appKey", "dropRow", "dropWrap", "wopiRow", "wopiWrap", "mintUndo", "minted", "callUser", "callKey"} \subseteq Stages
  /\ {"gcKeys", "gcRows", "gcPrune", "deleteUser"} \subseteq Stages
  /\ {"poll", "begin", "grant", "grantApp", "login", "logout", "visit", "issue"} \subseteq Ops
  /\ {"bearer", "app", "revoke", "mint", "callback", "gc", "deleteUser"} \subseteq Ops
  BY DEF Stages, Ops, Ended, Tolerant

LEMMA BeginOne ==
  ASSUME Base, NEW r \in Reqs, BeginGrant(r)
  PROVE  \E w \in Task :
           /\ Came(r, "begin", w) /\ w.seen = {}
           /\ w.pc \in {"newState", "done"}
           /\ w.pc = "newState" => db.flow.state = "pending" /\ w.row = db.flow
  <1>1. PICK v : /\ Enter(r, "begin", v)
                 /\ v = IF db.flow.state # "pending" \/ Expired(db.flow) THEN Refused
                         ELSE [Idle EXCEPT !.pc = "newState", !.row = db.flow]
    BY DEF BeginGrant
  <1>2. db.flow \in FlowRows BY DEF Base, Typed, Tables
  <1>3. v \in Task /\ "begin" \in Ops
    BY <1>1, <1>2, FlowTypes, Names DEF Refused, Task
  <1>4. /\ v.seen = {}
        /\ v.pc \in {"newState", "done"}
        /\ v.pc = "newState" => db.flow.state = "pending" /\ v.row = db.flow
    BY <1>1, <1>2 DEF Refused, Idle
  <1>5. PICK w \in Task : Came(r, "begin", w) /\ w.pc = v.pc /\ w.seen = v.seen /\ Same(w, v)
    BY <1>1, <1>3, EnterOne DEF Base
  <1> QED BY <1>1, <1>4, <1>5 DEF Same

LEMMA GrantOne ==
  ASSUME Base, NEW r \in Reqs, HandleGrant(r)
  PROVE  \E op \in {"grant", "grantApp"}, w \in Task :
           /\ Came(r, op, w) /\ w.seen = {}
           /\ w.pc = "lookup"
  <1>1. PICK op, st, k, v :
          /\ op \in {"grant", "grantApp"} /\ st \in hist.links /\ k \in BOOLEAN
          /\ Enter(r, op, v) /\ v = [Idle EXCEPT !.pc = "lookup", !.st = st, !.key = k]
    <2>1. UnlockForLogin \in BOOLEAN /\ \A p : UnlockForToken(p) \in BOOLEAN BY KeyFlags DEF Base
    <2> QED BY <2>1, Zenon DEF HandleGrant
  <1>2. st \in Numbers BY <1>1 DEF Base, Typed, History
  <1>3. v \in Task /\ op \in Ops
    BY <1>1, <1>2, FlowTypes, Names DEF Refused, Task
  <1>4. /\ v.seen = {}
        /\ v.pc = "lookup"
    BY <1>1, <1>2 DEF Refused, Idle
  <1>5. PICK w \in Task : Came(r, op, w) /\ w.pc = v.pc /\ w.seen = v.seen /\ Same(w, v)
    BY <1>1, <1>3, EnterOne DEF Base
  <1> QED BY <1>1, <1>4, <1>5 DEF Same

LEMMA LoginOne ==
  ASSUME Base, NEW r \in Reqs, HandleLogin(r)
  PROVE  \E w \in Task :
           /\ Came(r, "login", w) /\ w.seen = {}
           /\ w.pc \in {"session", "done"}
  <1>1. PICK k, v : /\ k \in BOOLEAN /\ Enter(r, "login", v)
                    /\ v = [Idle EXCEPT !.pc = "session", !.key = k] \/ v = Refused
    <2>1. UnlockForLogin \in BOOLEAN /\ \A p : UnlockForToken(p) \in BOOLEAN BY KeyFlags DEF Base
    <2>2. CASE Enter(r, "login", IF PasswordVerify THEN [Idle EXCEPT !.pc = "session", !.key = UnlockForLogin] ELSE Refused)
      <3>1. CASE PasswordVerify BY <2>1, <2>2, <3>1
      <3>2. CASE ~PasswordVerify BY <2>1, <2>2, <3>2
      <3> QED BY <3>1, <3>2
    <2>3. CASE \E p \in hist.given : Enter(r, "login", [Idle EXCEPT !.pc = "session", !.key = UnlockForToken(p)])
      BY <2>1, <2>3, Zenon
    <2> QED BY <2>2, <2>3 DEF HandleLogin
  <1>2. TRUE OBVIOUS
  <1>3. v \in Task /\ "login" \in Ops
    BY <1>1, <1>2, FlowTypes, Names DEF Refused, Task
  <1>4. /\ v.seen = {}
        /\ v.pc \in {"session", "done"}
    BY <1>1, <1>2 DEF Refused, Idle
  <1>5. PICK w \in Task : Came(r, "login", w) /\ w.pc = v.pc /\ w.seen = v.seen /\ Same(w, v)
    BY <1>1, <1>3, EnterOne DEF Base
  <1> QED BY <1>1, <1>4, <1>5 DEF Same

LEMMA LogoutOne ==
  ASSUME Base, NEW r \in Reqs, HandleLogout(r)
  PROVE  \E w \in Task :
           /\ Came(r, "logout", w) /\ w.seen = {}
           /\ w.pc = "done"
  <1>1. PICK sid, v :
          /\ sid \in hist.cookies /\ Enter(r, "logout", v) /\ v = [Refused EXCEPT !.sid = sid]
          /\ db' = [db EXCEPT !.sess = Drop(@, sid)] /\ hist' = [hist EXCEPT !.out = @ \cup {sid}]
    BY DEF HandleLogout
  <1>2. sid \in Numbers BY <1>1 DEF Base, Typed, History
  <1>3. v \in Task /\ "logout" \in Ops
    BY <1>1, <1>2, FlowTypes, Names DEF Refused, Task
  <1>4. /\ v.seen = {}
        /\ v.pc = "done"
    BY <1>1, <1>2 DEF Refused, Idle
  <1>5. PICK w \in Task : Came(r, "logout", w) /\ w.pc = v.pc /\ w.seen = v.seen /\ Same(w, v)
    BY <1>1, <1>3, EnterOne DEF Base
  <1> QED BY <1>1, <1>4, <1>5 DEF Same

LEMMA VisitOne ==
  ASSUME Base, NEW r \in Reqs, VerifyID(r)
  PROVE  \E op \in {"visit", "issue"}, w \in Task :
           /\ Came(r, op, w) /\ w.seen = {}
           /\ w.pc \in {"visitUser", "done"}
  <1>1. PICK op, sid, v :
          /\ op \in {"visit", "issue"} /\ sid \in hist.cookies /\ Enter(r, op, v)
          /\ v = IF Fresh(db.sess, sid) THEN [Idle EXCEPT !.pc = "visitUser", !.sid = sid, !.key = db.sess[sid].sealed] ELSE Refused
    BY DEF VerifyID
  <1>2. sid \in Numbers /\ (Fresh(db.sess, sid) => db.sess[sid].sealed \in BOOLEAN) BY <1>1 DEF Base, Typed, History, Tables, Partials, Session, Fresh
  <1>3. v \in Task /\ op \in Ops
    BY <1>1, <1>2, FlowTypes, Names DEF Refused, Task
  <1>4. /\ v.seen = {}
        /\ v.pc \in {"visitUser", "done"}
    BY <1>1, <1>2 DEF Refused, Idle
  <1>5. PICK w \in Task : Came(r, op, w) /\ w.pc = v.pc /\ w.seen = v.seen /\ Same(w, v)
    BY <1>1, <1>3, EnterOne DEF Base
  <1> QED BY <1>1, <1>4, <1>5 DEF Same

LEMMA BearerOne ==
  ASSUME Base, NEW r \in Reqs, CachedUID(r)
  PROVE  \E w \in Task :
           /\ Came(r, "bearer", w) /\ w.seen = {}
           /\ w.node \in Nodes
           /\ w.pc = IF cache.l1[w.node] > 0 THEN "bearerUser" ELSE IF cache.l2 > 0 THEN "fill" ELSE "bearerRow"
  <1>1. PICK n, v :
          /\ n \in Nodes /\ Enter(r, "bearer", v)
          /\ v = [Idle EXCEPT !.node = n, !.pc = IF cache.l1[n] > 0 THEN "bearerUser" ELSE IF cache.l2 > 0 THEN "fill" ELSE "bearerRow"]
    BY DEF CachedUID
  <1>2. v \in Task /\ "bearer" \in Ops
    BY <1>1, FlowTypes, Names DEF Refused, Task
  <1>3. /\ v.seen = {}
        /\ v.node \in Nodes
        /\ v.pc = IF cache.l1[v.node] > 0 THEN "bearerUser" ELSE IF cache.l2 > 0 THEN "fill" ELSE "bearerRow"
    BY <1>1 DEF Idle
  <1>4. PICK w \in Task : Came(r, "bearer", w) /\ w.pc = v.pc /\ w.seen = v.seen /\ Same(w, v)
    BY <1>1, <1>2, EnterOne DEF Base
  <1> QED BY <1>1, <1>3, <1>4 DEF Same

LEMMA AppOne ==
  ASSUME Base, NEW r \in Reqs, AppPasswordVerify(r)
  PROVE  \E op \in {"app", "revoke"}, w \in Task :
           /\ Came(r, op, w) /\ w.seen = {}
           /\ w.pc \in {"appKey", "done"}
           /\ w.pc = "appKey" => w.pw \in db.apps
  <1>1. PICK op, p, v :
          /\ op \in {"app", "revoke"} /\ p \in hist.given /\ Enter(r, op, v) /\ v = IF GetByHash(p) THEN [Idle EXCEPT !.pc = "appKey", !.pw = p] ELSE Refused
    BY DEF AppPasswordVerify
  <1>2. p \in Numbers BY <1>1 DEF Base, Typed, History
  <1>3. v \in Task /\ op \in Ops
    BY <1>1, <1>2, FlowTypes, Names DEF Refused, Task
  <1>4. /\ v.seen = {}
        /\ v.pc \in {"appKey", "done"}
        /\ v.pc = "appKey" => v.pw \in db.apps
    BY <1>1, <1>2 DEF Refused, Idle, GetByHash
  <1>5. PICK w \in Task : Came(r, op, w) /\ w.pc = v.pc /\ w.seen = v.seen /\ Same(w, v)
    BY <1>1, <1>3, EnterOne DEF Base
  <1> QED BY <1>1, <1>4, <1>5 DEF Same

LEMMA MintOne ==
  ASSUME Base, NEW r \in Reqs, Mint(r)
  PROVE  \E w \in Task :
           /\ Came(r, "mint", w) /\ w.seen = {}
           /\ w.pw = hist.wopi + 1 /\ w.pw # None
           /\ w.pc = IF w.key THEN "wopiRow" ELSE "minted"
  <1>1. PICK k, v :
          /\ k \in BOOLEAN /\ Enter(r, "mint", v) /\ v = [Idle EXCEPT !.pc = IF k THEN "wopiRow" ELSE "minted", !.pw = hist.wopi + 1, !.key = k]
    <2>1. scene.enrolled \in BOOLEAN /\ FALSE \in BOOLEAN BY AccessAssumption DEF Base, Typed
    <2> QED BY <2>1, Zenon DEF Mint
  <1>2. hist.wopi + 1 \in Numbers /\ hist.wopi + 1 # None
    <2>1. hist.wopi \in Numbers BY DEF Base, Typed, History
    <2>2. hist.wopi < MaxDraw BY DEF Mint
    <2> QED BY <2>1, <2>2, Constants DEF Numbers, None
  <1>3. v \in Task /\ "mint" \in Ops
    BY <1>1, <1>2, FlowTypes, Names DEF Refused, Task
  <1>4. /\ v.seen = {}
        /\ v.pw = hist.wopi + 1 /\ v.pw # None
        /\ v.pc = IF v.key THEN "wopiRow" ELSE "minted"
    BY <1>1, <1>2 DEF Refused, Idle
  <1>5. PICK w \in Task : Came(r, "mint", w) /\ w.pc = v.pc /\ w.seen = v.seen /\ Same(w, v)
    BY <1>1, <1>3, EnterOne DEF Base
  <1> QED BY <1>1, <1>4, <1>5 DEF Same

LEMMA CallOne ==
  ASSUME Base, NEW r \in Reqs, Authenticate(r)
  PROVE  \E w \in Task :
           /\ Came(r, "callback", w) /\ w.seen = {}
           /\ w.pc \in {"callUser", "done"}
           /\ w.pc = "callUser" => \E m \in hist.minted : w.pw = m.tok
  <1>1. PICK mt, v :
          /\ mt \in hist.minted /\ Enter(r, "callback", v)
          /\ v = IF Fresh(db.wopi, mt.tok) THEN [Idle EXCEPT !.pc = "callUser", !.pw = mt.tok] ELSE Refused
    BY DEF Authenticate
  <1>2. mt.tok \in Numbers BY <1>1 DEF Base, Typed, History, MintedToken
  <1>3. v \in Task /\ "callback" \in Ops
    BY <1>1, <1>2, FlowTypes, Names DEF Refused, Task
  <1>4. /\ v.seen = {}
        /\ v.pc \in {"callUser", "done"}
        /\ v.pc = "callUser" => \E m \in hist.minted : v.pw = m.tok
    BY <1>1, <1>2 DEF Refused, Idle
  <1>5. PICK w \in Task : Came(r, "callback", w) /\ w.pc = v.pc /\ w.seen = v.seen /\ Same(w, v)
    BY <1>1, <1>3, EnterOne DEF Base
  <1> QED BY <1>1, <1>4, <1>5 DEF Same

LEMMA CleanOne ==
  ASSUME Base, NEW r \in Reqs, GCList(r)
  PROVE  \E w \in Task :
           /\ Came(r, "gc", w) /\ w.seen = {}
           /\ w.pc = "gcKeys" /\ w.at = now /\ w.list \subseteq ExpiredTokens
  <1>1. PICK S, v :
          /\ S \in SUBSET ExpiredTokens /\ Enter(r, "gc", v) /\ v = [Idle EXCEPT !.pc = "gcKeys", !.at = now, !.list = S]
    BY DEF GCList
  <1>2. S \in SUBSET Draws /\ now \in Nat BY <1>1 DEF Base, Typed, Tables, Partials, ExpiredTokens
  <1>3. v \in Task /\ "gc" \in Ops
    BY <1>1, <1>2, FlowTypes, Names DEF Refused, Task
  <1>4. /\ v.seen = {}
        /\ v.pc = "gcKeys" /\ v.at = now /\ v.list \subseteq ExpiredTokens
    BY <1>1, <1>2 DEF Refused, Idle
  <1>5. PICK w \in Task : Came(r, "gc", w) /\ w.pc = v.pc /\ w.seen = v.seen /\ Same(w, v)
    BY <1>1, <1>3, EnterOne DEF Base
  <1> QED BY <1>1, <1>4, <1>5 DEF Same

LEMMA DeleteOne ==
  ASSUME Base, NEW r \in Reqs, UserKeysDeleted(r)
  PROVE  \E w \in Task :
           /\ Came(r, "deleteUser", w) /\ w.seen = {}
           /\ w.pc = "deleteUser"
  <1>1. PICK v : Enter(r, "deleteUser", v) /\ v = [Idle EXCEPT !.pc = "deleteUser"]
    BY DEF UserKeysDeleted
  <1>2. TRUE OBVIOUS
  <1>3. v \in Task /\ "deleteUser" \in Ops
    BY <1>1, <1>2, FlowTypes, Names DEF Refused, Task
  <1>4. /\ v.seen = {}
        /\ v.pc = "deleteUser"
    BY <1>1, <1>2 DEF Refused, Idle
  <1>5. PICK w \in Task : Came(r, "deleteUser", w) /\ w.pc = v.pc /\ w.seen = v.seen /\ Same(w, v)
    BY <1>1, <1>3, EnterOne DEF Base
  <1> QED BY <1>1, <1>4, <1>5 DEF Same

-----------------------------------------------------------------------------
(* The other steps that write more than the program counter.               *)

LEMMA AnswerOne ==
  ASSUME Base, NEW r \in Reqs, Answered(r)
  PROVE  \E w \in Task :
           /\ req' = [req EXCEPT ![r] = w]
           /\ w.op = "poll" /\ w.pc = "done" /\ w.pw = req[r].row.pw /\ w.seen = req[r].seen
  <1>1. PICK w : w = [Idle EXCEPT !.pc = "done", !.op = "poll", !.pw = req[r].row.pw, !.seen = req[r].seen] OBVIOUS
  <1>2. req[r].row.pw \in Numbers /\ req[r].seen \in SUBSET Numbers BY DEF Base, Typed, Task, FlowRows, Numbers
  <1>3. w \in Task BY <1>1, <1>2, FlowTypes, Names DEF Task
  <1>4. w.op = "poll" /\ w.pc = "done" /\ w.pw = req[r].row.pw /\ w.seen = req[r].seen BY <1>1 DEF Idle
  <1>5. req' = [req EXCEPT ![r] = w] BY <1>1 DEF Answered
  <1> QED BY <1>3, <1>4, <1>5

LEMMA IssueOne ==
  ASSUME Base, NEW r \in Reqs, IssueAppPassword(r)
  PROVE  \E w \in Task :
           /\ req' = [req EXCEPT ![r] = w]
           /\ w.pw = hist.pw + 1 /\ w.pc = (IF req[r].key THEN "tokenRow" ELSE "record")
           /\ w.op = req[r].op /\ w.row = req[r].row /\ w.st = req[r].st /\ w.sid = req[r].sid /\ w.key = req[r].key /\ w.off = req[r].off /\ w.seen = req[r].seen /\ w.since = req[r].since /\ w.at = req[r].at /\ w.list = req[r].list /\ w.node = req[r].node
  <1>1. PICK w : w = [req[r] EXCEPT !.pw = hist.pw + 1, !.pc = (IF req[r].key THEN "tokenRow" ELSE "record")] OBVIOUS
  <1>2. req[r] \in Task BY DEF Base, Typed
  <1>3. hist.pw + 1 \in Numbers
    <2>1. hist.pw \in Numbers /\ hist.pw < MaxDraw BY DEF Base, Typed, History, IssueAppPassword
    <2> QED BY <2>1, Constants DEF Numbers
  <1>4. w \in Task /\ w.pw = hist.pw + 1 /\ w.pc = (IF req[r].key THEN "tokenRow" ELSE "record")
        /\ w.op = req[r].op /\ w.row = req[r].row /\ w.st = req[r].st /\ w.sid = req[r].sid /\ w.key = req[r].key /\ w.off = req[r].off /\ w.seen = req[r].seen /\ w.since = req[r].since /\ w.at = req[r].at /\ w.list = req[r].list /\ w.node = req[r].node
    BY <1>1, <1>2, <1>3, Names DEF Task
  <1>5. req' = [req EXCEPT ![r] = w] BY <1>1, <1>2 DEF IssueAppPassword, Base, Typed
  <1> QED BY <1>4, <1>5

LEMMA ReadOne ==
  ASSUME Base, NEW r \in Reqs, GrantRead(r), ~Step(r, "done")
  PROVE  \E w \in Task :
           /\ req' = [req EXCEPT ![r] = w]
           /\ w.pc = "grantUpdate" /\ w.row = db.flow
           /\ w.op = req[r].op /\ w.st = req[r].st /\ w.pw = req[r].pw /\ w.sid = req[r].sid /\ w.key = req[r].key /\ w.off = req[r].off /\ w.seen = req[r].seen /\ w.since = req[r].since /\ w.at = req[r].at /\ w.list = req[r].list /\ w.node = req[r].node
  <1>1. PICK w : w = [req[r] EXCEPT !.pc = "grantUpdate", !.row = db.flow] OBVIOUS
  <1>2. req[r] \in Task BY DEF Base, Typed
  <1>3. db.flow \in FlowRows BY DEF Base, Typed, Tables
  <1>4. w \in Task /\ w.pc = "grantUpdate" /\ w.row = db.flow
        /\ w.op = req[r].op /\ w.st = req[r].st /\ w.pw = req[r].pw /\ w.sid = req[r].sid /\ w.key = req[r].key /\ w.off = req[r].off /\ w.seen = req[r].seen /\ w.since = req[r].since /\ w.at = req[r].at /\ w.list = req[r].list /\ w.node = req[r].node
    BY <1>1, <1>2, <1>3, Names DEF Task
  <1>5. req' = [req EXCEPT ![r] = w] BY <1>1, <1>2 DEF GrantRead, Base, Typed
  <1> QED BY <1>4, <1>5

LEMMA SessionOne ==
  ASSUME Base, NEW r \in Reqs, CreateSession(r), ~Step(r, "done")
  PROVE  \E w \in Task :
           /\ req' = [req EXCEPT ![r] = w]
           /\ w.sid = hist.sid + 1 /\ w.pc = (IF req[r].key THEN "seal" ELSE "cookie")
           /\ w.op = req[r].op /\ w.row = req[r].row /\ w.st = req[r].st /\ w.pw = req[r].pw /\ w.key = req[r].key /\ w.off = req[r].off /\ w.seen = req[r].seen /\ w.since = req[r].since /\ w.at = req[r].at /\ w.list = req[r].list /\ w.node = req[r].node
  <1>1. PICK w : w = [req[r] EXCEPT !.sid = hist.sid + 1, !.pc = (IF req[r].key THEN "seal" ELSE "cookie")] OBVIOUS
  <1>2. req[r] \in Task BY DEF Base, Typed
  <1>3. hist.sid + 1 \in Numbers
    <2>1. hist.sid \in Numbers /\ hist.sid < MaxDraw BY DEF Base, Typed, History, CreateSession
    <2> QED BY <2>1, Constants DEF Numbers
  <1>4. w \in Task /\ w.sid = hist.sid + 1 /\ w.pc = (IF req[r].key THEN "seal" ELSE "cookie")
        /\ w.op = req[r].op /\ w.row = req[r].row /\ w.st = req[r].st /\ w.pw = req[r].pw /\ w.key = req[r].key /\ w.off = req[r].off /\ w.seen = req[r].seen /\ w.since = req[r].since /\ w.at = req[r].at /\ w.list = req[r].list /\ w.node = req[r].node
    BY <1>1, <1>2, <1>3, Names DEF Task
  <1>5. req' = [req EXCEPT ![r] = w] BY <1>1, <1>2 DEF CreateSession, Base, Typed
  <1> QED BY <1>4, <1>5

LEMMA AttachOne ==
  ASSUME Base, NEW r \in Reqs, AttachTokenKey(r)
  PROVE  \E w \in Task :
           /\ req' = [req EXCEPT ![r] = w]
           /\ w.pc = "accepted" /\ w.key = UnlockForToken(Tok)
           /\ w.op = req[r].op /\ w.row = req[r].row /\ w.st = req[r].st /\ w.pw = req[r].pw /\ w.sid = req[r].sid /\ w.off = req[r].off /\ w.seen = req[r].seen /\ w.since = req[r].since /\ w.at = req[r].at /\ w.list = req[r].list /\ w.node = req[r].node
  <1>1. PICK w : w = [req[r] EXCEPT !.pc = "accepted", !.key = UnlockForToken(Tok)] OBVIOUS
  <1>2. req[r] \in Task BY DEF Base, Typed
  <1>3. UnlockForToken(Tok) \in BOOLEAN BY KeyFlags DEF Base
  <1>4. w \in Task /\ w.pc = "accepted" /\ w.key = UnlockForToken(Tok)
        /\ w.op = req[r].op /\ w.row = req[r].row /\ w.st = req[r].st /\ w.pw = req[r].pw /\ w.sid = req[r].sid /\ w.off = req[r].off /\ w.seen = req[r].seen /\ w.since = req[r].since /\ w.at = req[r].at /\ w.list = req[r].list /\ w.node = req[r].node
    BY <1>1, <1>2, <1>3, Names DEF Task
  <1>5. req' = [req EXCEPT ![r] = w] BY <1>1, <1>2 DEF AttachTokenKey, Base, Typed
  <1> QED BY <1>4, <1>5

LEMMA UnlockOne ==
  ASSUME Base, NEW r \in Reqs, AppUnlock(r)
  PROVE  \E w \in Task :
           /\ req' = [req EXCEPT ![r] = w]
           /\ w.key = UnlockForToken(req[r].pw) /\ w.pc = (IF req[r].op = "app" THEN "accepted" ELSE "dropRow")
           /\ w.op = req[r].op /\ w.row = req[r].row /\ w.st = req[r].st /\ w.pw = req[r].pw /\ w.sid = req[r].sid /\ w.off = req[r].off /\ w.seen = req[r].seen /\ w.since = req[r].since /\ w.at = req[r].at /\ w.list = req[r].list /\ w.node = req[r].node
  <1>1. PICK w : w = [req[r] EXCEPT !.key = UnlockForToken(req[r].pw), !.pc = (IF req[r].op = "app" THEN "accepted" ELSE "dropRow")] OBVIOUS
  <1>2. req[r] \in Task BY DEF Base, Typed
  <1>3. UnlockForToken(req[r].pw) \in BOOLEAN BY KeyFlags DEF Base
  <1>4. w \in Task /\ w.key = UnlockForToken(req[r].pw) /\ w.pc = (IF req[r].op = "app" THEN "accepted" ELSE "dropRow")
        /\ w.op = req[r].op /\ w.row = req[r].row /\ w.st = req[r].st /\ w.pw = req[r].pw /\ w.sid = req[r].sid /\ w.off = req[r].off /\ w.seen = req[r].seen /\ w.since = req[r].since /\ w.at = req[r].at /\ w.list = req[r].list /\ w.node = req[r].node
    BY <1>1, <1>2, <1>3, Names DEF Task
  <1>5. req' = [req EXCEPT ![r] = w] BY <1>1, <1>2 DEF AppUnlock, Base, Typed
  <1> QED BY <1>4, <1>5

LEMMA CallbackOne ==
  ASSUME Base, NEW r \in Reqs, UnlockForWOPIToken(r)
  PROVE  \E w \in Task :
           /\ req' = [req EXCEPT ![r] = w]
           /\ w.pc = "accepted" /\ w.key = (req[r].pw \in db.wopiWraps \cap DOMAIN db.wopi /\ db.exists)
           /\ w.op = req[r].op /\ w.row = req[r].row /\ w.st = req[r].st /\ w.pw = req[r].pw /\ w.sid = req[r].sid /\ w.off = req[r].off /\ w.seen = req[r].seen /\ w.since = req[r].since /\ w.at = req[r].at /\ w.list = req[r].list /\ w.node = req[r].node
  <1>1. PICK w : w = [req[r] EXCEPT !.pc = "accepted", !.key = (req[r].pw \in db.wopiWraps \cap DOMAIN db.wopi /\ db.exists)] OBVIOUS
  <1>2. req[r] \in Task BY DEF Base, Typed
  <1>3. (req[r].pw \in db.wopiWraps \cap DOMAIN db.wopi /\ db.exists) \in BOOLEAN OBVIOUS
  <1>4. w \in Task /\ w.pc = "accepted" /\ w.key = (req[r].pw \in db.wopiWraps \cap DOMAIN db.wopi /\ db.exists)
        /\ w.op = req[r].op /\ w.row = req[r].row /\ w.st = req[r].st /\ w.pw = req[r].pw /\ w.sid = req[r].sid /\ w.off = req[r].off /\ w.seen = req[r].seen /\ w.since = req[r].since /\ w.at = req[r].at /\ w.list = req[r].list /\ w.node = req[r].node
    BY <1>1, <1>2, <1>3, Names DEF Task
  <1>5. req' = [req EXCEPT ![r] = w] BY <1>1, <1>2 DEF UnlockForWOPIToken, Base, Typed
  <1> QED BY <1>4, <1>5

-----------------------------------------------------------------------------
(* Where a request goes from a statement that only moves it on.            *)

Goes(op, a, pc) ==
  \/ pc = "done" /\ a \notin Ended
  \/ a = "lookup" /\ pc = "issue"
  \/ a = "accepted" /\ op = "issue" /\ pc = "issue"
  \/ a = "tokenRow" /\ pc = "wrap"
  \/ a = "wrap" /\ pc = "record"
  \/ a = "grantUpdate" /\ pc = "session"
  \/ a = "seal" /\ pc = "cookie"
  \/ a = "visitUser" /\ pc = "touch"
  \/ a = "touch" /\ pc = "accepted"
  \/ a = "fill" /\ pc = "bearerUser"
  \/ a = "bearerRow" /\ pc = "bearerMiss"
  \/ a = "bearerMiss" /\ pc = "rememberL1"
  \/ a = "bearerUser" /\ pc = "attach"
  \/ a = "rememberL1" /\ pc \in {"rememberL2", "attach"}
  \/ a = "rememberL2" /\ pc = "attach"
  \/ a = "dropRow" /\ pc = "dropWrap"
  \/ a = "wopiRow" /\ pc \in {"wopiWrap", "mintUndo"}
  \/ a = "wopiWrap" /\ pc \in {"minted", "mintUndo"}
  \/ a = "callUser" /\ pc = "callKey"
  \/ a = "gcKeys" /\ pc = "gcRows"
  \/ a = "gcRows" /\ pc = "gcPrune"

StepAct(r) ==
  \/ (GrantRead(r) \/ CreateSession(r)) /\ Step(r, "done")
  \/ BeginGrantUpdate(r) \/ GrantLookup(r) \/ WrapTokenRow(r) \/ WrapKeyForToken(r) \/ Grant(r)
  \/ GetAppPassword(r) \/ AnswerPassword(r) \/ SetSealedUK(r) \/ SealFails(r) \/ SetCookie(r)
  \/ VisitUser(r) \/ TouchSession(r) \/ TieredFill(r) \/ BearerLookup(r) \/ PrincipalForUID(r)
  \/ RememberUID(r) \/ DeleteByHash(r) \/ OnTokenDeleted(r) \/ WopiWrapRow(r) \/ WrapKeyForWOPIToken(r)
  \/ MintUndo(r) \/ Minted(r) \/ CallbackUser(r) \/ DeleteWOPITokenKeys(r) \/ DeleteExpired(r)
  \/ PruneWOPITokenKeys(r) \/ DeleteUser(r) \/ Fail(r)

LEMMA Going ==
  ASSUME Base, NEW r \in Reqs, StepAct(r)
  PROVE  \E pc \in Stages, w \in Task : Moved(r, pc, w) /\ Goes(req[r].op, req[r].pc, pc)
  <1>0. SUFFICES \E pc \in Stages : Step(r, pc) /\ Goes(req[r].op, req[r].pc, pc)
    BY StepOne DEF Base
  <1>00. CASE (GrantRead(r) \/ CreateSession(r)) /\ Step(r, "done")
    BY <1>00, Names DEF GrantRead, CreateSession, At, Goes, Ended
  <1>1. CASE BeginGrantUpdate(r)
    <2>1. PICK pc \in {"done"} : Step(r, pc) /\ Goes(req[r].op, req[r].pc, pc)
      BY <1>1 DEF BeginGrantUpdate, At, Goes, Ended
    <2> QED BY <2>1, Names
  <1>2. CASE GrantLookup(r)
    <2>1. PICK pc \in {"issue", "done"} : Step(r, pc) /\ Goes(req[r].op, req[r].pc, pc)
      BY <1>2 DEF GrantLookup, At, Goes, Ended
    <2> QED BY <2>1, Names
  <1>3. CASE WrapTokenRow(r)
    <2>1. PICK pc \in {"wrap", "done"} : Step(r, pc) /\ Goes(req[r].op, req[r].pc, pc)
      BY <1>3 DEF WrapTokenRow, At, Goes, Ended
    <2> QED BY <2>1, Names
  <1>4. CASE WrapKeyForToken(r)
    <2>1. PICK pc \in {"record"} : Step(r, pc) /\ Goes(req[r].op, req[r].pc, pc)
      BY <1>4 DEF WrapKeyForToken, At, Goes, Ended
    <2> QED BY <2>1, Names
  <1>5. CASE Grant(r)
    <2>1. PICK pc \in {"session"} : Step(r, pc) /\ Goes(req[r].op, req[r].pc, pc)
      BY <1>5 DEF Grant, At, Goes, Ended
    <2> QED BY <2>1, Names
  <1>6. CASE GetAppPassword(r)
    <2>1. PICK pc \in {"issue"} : Step(r, pc) /\ Goes(req[r].op, req[r].pc, pc)
      BY <1>6 DEF GetAppPassword, At, Goes, Ended
    <2> QED BY <2>1, Names
  <1>7. CASE AnswerPassword(r)
    <2>1. PICK pc \in {"done"} : Step(r, pc) /\ Goes(req[r].op, req[r].pc, pc)
      BY <1>7 DEF AnswerPassword, At, Goes, Ended
    <2> QED BY <2>1, Names
  <1>8. CASE SetSealedUK(r)
    <2>1. PICK pc \in {"cookie"} : Step(r, pc) /\ Goes(req[r].op, req[r].pc, pc)
      BY <1>8 DEF SetSealedUK, At, Goes, Ended
    <2> QED BY <2>1, Names
  <1>9. CASE SealFails(r)
    <2>1. PICK pc \in {"done"} : Step(r, pc) /\ Goes(req[r].op, req[r].pc, pc)
      BY <1>9 DEF SealFails, At, Goes, Ended
    <2> QED BY <2>1, Names
  <1>10. CASE SetCookie(r)
    <2>1. PICK pc \in {"done"} : Step(r, pc) /\ Goes(req[r].op, req[r].pc, pc)
      BY <1>10 DEF SetCookie, At, Goes, Ended
    <2> QED BY <2>1, Names
  <1>11. CASE VisitUser(r)
    <2>1. PICK pc \in {"touch", "done"} : Step(r, pc) /\ Goes(req[r].op, req[r].pc, pc)
      BY <1>11 DEF VisitUser, At, Goes, Ended
    <2> QED BY <2>1, Names
  <1>12. CASE TouchSession(r)
    <2>1. PICK pc \in {"accepted"} : Step(r, pc) /\ Goes(req[r].op, req[r].pc, pc)
      BY <1>12 DEF TouchSession, At, Goes, Ended
    <2> QED BY <2>1, Names
  <1>13. CASE TieredFill(r)
    <2>1. PICK pc \in {"bearerUser"} : Step(r, pc) /\ Goes(req[r].op, req[r].pc, pc)
      BY <1>13 DEF TieredFill, At, Goes, Ended
    <2> QED BY <2>1, Names
  <1>14. CASE BearerLookup(r)
    <2>1. PICK pc \in {"bearerMiss", "done"} : Step(r, pc) /\ Goes(req[r].op, req[r].pc, pc)
      BY <1>14 DEF BearerLookup, At, Goes, Ended
    <2> QED BY <2>1, Names
  <1>15. CASE PrincipalForUID(r)
    <2>1. PICK pc \in {"done", "rememberL1", "attach"} : Step(r, pc) /\ Goes(req[r].op, req[r].pc, pc)
      BY <1>15 DEF PrincipalForUID, At, Goes, Ended
    <2> QED BY <2>1, Names
  <1>16. CASE RememberUID(r)
    <2>1. PICK pc \in {"rememberL2", "attach"} : Step(r, pc) /\ Goes(req[r].op, req[r].pc, pc)
      BY <1>16 DEF RememberUID, At, Goes, Ended
    <2> QED BY <2>1, Names
  <1>17. CASE DeleteByHash(r)
    <2>1. PICK pc \in {"dropWrap"} : Step(r, pc) /\ Goes(req[r].op, req[r].pc, pc)
      BY <1>17 DEF DeleteByHash, At, Goes, Ended
    <2> QED BY <2>1, Names
  <1>18. CASE OnTokenDeleted(r)
    <2>1. PICK pc \in {"done"} : Step(r, pc) /\ Goes(req[r].op, req[r].pc, pc)
      BY <1>18 DEF OnTokenDeleted, At, Goes, Ended
    <2> QED BY <2>1, Names
  <1>19. CASE WopiWrapRow(r)
    <2>1. PICK pc \in {"wopiWrap", "mintUndo"} : Step(r, pc) /\ Goes(req[r].op, req[r].pc, pc)
      BY <1>19 DEF WopiWrapRow, At, Goes, Ended
    <2> QED BY <2>1, Names
  <1>20. CASE WrapKeyForWOPIToken(r)
    <2>1. PICK pc \in {"minted", "mintUndo"} : Step(r, pc) /\ Goes(req[r].op, req[r].pc, pc)
      BY <1>20 DEF WrapKeyForWOPIToken, At, Goes, Ended
    <2> QED BY <2>1, Names
  <1>21. CASE MintUndo(r)
    <2>1. PICK pc \in {"done"} : Step(r, pc) /\ Goes(req[r].op, req[r].pc, pc)
      BY <1>21 DEF MintUndo, At, Goes, Ended
    <2> QED BY <2>1, Names
  <1>22. CASE Minted(r)
    <2>1. PICK pc \in {"done"} : Step(r, pc) /\ Goes(req[r].op, req[r].pc, pc)
      BY <1>22 DEF Minted, At, Goes, Ended
    <2> QED BY <2>1, Names
  <1>23. CASE CallbackUser(r)
    <2>1. PICK pc \in {"callKey", "done"} : Step(r, pc) /\ Goes(req[r].op, req[r].pc, pc)
      BY <1>23 DEF CallbackUser, At, Goes, Ended
    <2> QED BY <2>1, Names
  <1>24. CASE DeleteWOPITokenKeys(r)
    <2>1. PICK pc \in {"gcRows"} : Step(r, pc) /\ Goes(req[r].op, req[r].pc, pc)
      BY <1>24 DEF DeleteWOPITokenKeys, At, Goes, Ended
    <2> QED BY <2>1, Names
  <1>25. CASE DeleteExpired(r)
    <2>1. PICK pc \in {"gcPrune", "done"} : Step(r, pc) /\ Goes(req[r].op, req[r].pc, pc)
      BY <1>25 DEF DeleteExpired, At, Goes, Ended
    <2> QED BY <2>1, Names
  <1>26. CASE PruneWOPITokenKeys(r)
    <2>1. PICK pc \in {"done"} : Step(r, pc) /\ Goes(req[r].op, req[r].pc, pc)
      BY <1>26 DEF PruneWOPITokenKeys, At, Goes, Ended
    <2> QED BY <2>1, Names
  <1>27. CASE DeleteUser(r)
    <2>1. PICK pc \in {"done"} : Step(r, pc) /\ Goes(req[r].op, req[r].pc, pc)
      BY <1>27 DEF DeleteUser, At, Goes, Ended
    <2> QED BY <2>1, Names
  <1>28. CASE Fail(r)
    <2>1. PICK pc \in {"done"} : Step(r, pc) /\ Goes(req[r].op, req[r].pc, pc)
      BY <1>28 DEF Fail, At, Goes, Ended
    <2> QED BY <2>1, Names
  <1> QED BY <1>00, <1>1, <1>2, <1>3, <1>4, <1>5, <1>6, <1>7, <1>8, <1>9, <1>10, <1>11, <1>12, <1>13, <1>14, <1>15, <1>16, <1>17, <1>18, <1>19, <1>20, <1>21, <1>22, <1>23, <1>24, <1>25, <1>26, <1>27, <1>28 DEF StepAct

LEMMA GoingFits ==
  ASSUME Base, NEW r \in Reqs, StepAct(r)
  PROVE  req' \in [Reqs -> Task] /\ Fits'
  <1>1. PICK pc \in Stages, w \in Task : Moved(r, pc, w) /\ Goes(req[r].op, req[r].pc, pc) BY Going
  <1>2. Paths(req[r].op, req[r].pc) /\ Holds(req[r]) /\ req[r].op \in Ops BY DEF Base, Fits, Typed, Task
  <1>3. Paths(w.op, w.pc) BY <1>1, <1>2 DEF Moved, Goes, Paths, Ended, Ops
  <1>4. w.pc # "idle" BY <1>1 DEF Moved, Goes
  <1>5. Holds(w)
    <2>1. CASE pc = "done" BY <1>1, <2>1 DEF Moved, Holds, Drawn, Minting
    <2>2. CASE pc # "done"
      <3>1. w.pw = req[r].pw /\ w.sid = req[r].sid /\ w.node = req[r].node /\ w.op = req[r].op /\ w.pc = pc BY <1>1, <2>2 DEF Moved, Same
      <3>2. req[r].op = "bearer" => req[r].pc # "done" BY <1>1, <2>2 DEF Goes
      <3> QED BY <1>1, <1>2, <1>4, <2>2, <3>1, <3>2 DEF Holds, Goes, Drawn, Minting
    <2> QED BY <2>1, <2>2
  <1> QED BY <1>1, <1>3, <1>5, FitsOne DEF Moved

-----------------------------------------------------------------------------
(* The tables keep their types.                                            *)

LEMMA ChangeTable ==
  ASSUME NEW S, NEW f \in Partials(S), NEW k \in DOMAIN f, NEW v \in S
  PROVE  [f EXCEPT ![k] = v] \in Partials(S) /\ DOMAIN [f EXCEPT ![k] = v] = DOMAIN f
  <1>1. PICK D \in SUBSET Draws : f \in [D -> S] BY DEF Partials
  <1>2. [f EXCEPT ![k] = v] \in [D -> S] BY <1>1
  <1> QED BY <1>1, <1>2 DEF Partials

\* The two updates of a session row.
LEMMA SealRow ==
  ASSUME Base, NEW r \in Reqs, SetSealedUK(r)
  PROVE  \E v \in Session : v.sealed = TRUE /\ db' = [db EXCEPT !.sess = [db.sess EXCEPT ![req[r].sid] = v]] /\ db'.sess \in Partials(Session) /\ DOMAIN db'.sess = DOMAIN db.sess
  <1>1. db \in Tables /\ db.sess \in Partials(Session) BY DEF Base, Typed, Tables
  <1>2. req[r].sid \in DOMAIN db.sess /\ db' = [db EXCEPT !.sess[req[r].sid].sealed = TRUE] BY DEF SetSealedUK
  <1>3. db.sess[req[r].sid] \in Session BY <1>1, <1>2 DEF Partials
  <1>4. PICK v : v = [db.sess[req[r].sid] EXCEPT !.sealed = TRUE] OBVIOUS
  <1>5. v \in Session /\ v.sealed = TRUE BY <1>3, <1>4 DEF Session
  <1>6. db' = [db EXCEPT !.sess = [db.sess EXCEPT ![req[r].sid] = v]] BY <1>2, <1>4
  <1>7. db'.sess = [db.sess EXCEPT ![req[r].sid] = v] BY <1>1, <1>6 DEF Tables
  <1>8. /\ [db.sess EXCEPT ![req[r].sid] = v] \in Partials(Session)
        /\ DOMAIN [db.sess EXCEPT ![req[r].sid] = v] = DOMAIN db.sess
    BY <1>1, <1>2, <1>5, ChangeTable
  <1>9. db'.sess \in Partials(Session) /\ DOMAIN db'.sess = DOMAIN db.sess BY <1>7, <1>8
  <1> QED BY <1>2, <1>5, <1>6, <1>9

LEMMA TouchRow ==
  ASSUME Base, NEW r \in Reqs, TouchSession(r), db' # db
  PROVE  /\ req[r].sid \in DOMAIN db.sess
         /\ \E v \in Session : v.sealed = db.sess[req[r].sid].sealed /\ db' = [db EXCEPT !.sess = [db.sess EXCEPT ![req[r].sid] = v]] /\ db'.sess \in Partials(Session) /\ DOMAIN db'.sess = DOMAIN db.sess
  <1>1. db \in Tables /\ db.sess \in Partials(Session) /\ now + SessionTTL \in Nat BY Constants DEF Base, Typed, Tables
  <1>2. req[r].sid \in DOMAIN db.sess /\ db' = [db EXCEPT !.sess[req[r].sid].exp = now + SessionTTL] BY DEF TouchSession
  <1>3. db.sess[req[r].sid] \in Session BY <1>1, <1>2 DEF Partials
  <1>4. PICK v : v = [db.sess[req[r].sid] EXCEPT !.exp = now + SessionTTL] OBVIOUS
  <1>5. v \in Session /\ v.sealed = db.sess[req[r].sid].sealed BY <1>1, <1>3, <1>4 DEF Session
  <1>6. db' = [db EXCEPT !.sess = [db.sess EXCEPT ![req[r].sid] = v]] BY <1>2, <1>4
  <1>7. db'.sess = [db.sess EXCEPT ![req[r].sid] = v] BY <1>1, <1>6 DEF Tables
  <1>8. /\ [db.sess EXCEPT ![req[r].sid] = v] \in Partials(Session)
        /\ DOMAIN [db.sess EXCEPT ![req[r].sid] = v] = DOMAIN db.sess
    BY <1>1, <1>2, <1>5, ChangeTable
  <1>9. db'.sess \in Partials(Session) /\ DOMAIN db'.sess = DOMAIN db.sess BY <1>7, <1>8
  <1> QED BY <1>2, <1>5, <1>6, <1>9

LEMMA TablesStep ==
  ASSUME Base, Next
  PROVE  db' \in Tables
  <1>0. /\ db \in Tables /\ db.flow \in FlowRows /\ db.apps \subseteq Draws /\ db.wraps \subseteq Draws /\ db.wopiWraps \subseteq Draws
        /\ db.sess \in Partials(Session) /\ db.wopi \in Partials(WopiToken)
    BY DEF Base, Typed, Tables
  <1>00. hist.pw \in Numbers /\ hist.st \in Numbers /\ hist.sid \in Numbers /\ hist.wopi \in Numbers BY DEF Base, Typed, History
  <1>000. now \in Nat BY DEF Base, Typed
  <1>1. CASE HandleInit
    <2>1. NewFlow \in FlowRows BY <1>000, Constants DEF NewFlow, FlowRows, None
    <2> QED BY <1>0, <1>1, <2>1 DEF HandleInit, UpdateFlow, Tables
  <1>2. CASE SetEnabled BY <1>0, <1>2 DEF SetEnabled, Tables
  <1>3. CASE PruneStaleKeys BY <1>0, <1>3 DEF PruneStaleKeys, Tables
  <1>4. CASE Evict \/ Tick BY <1>0, <1>4 DEF Evict, Tick
  <1>5. ASSUME NEW r \in Reqs, Request(r) PROVE db' \in Tables
    <2>0. /\ req[r] \in Task /\ Holds(req[r]) /\ req[r].row \in FlowRows /\ req[r].pw \in Numbers /\ req[r].sid \in Numbers
      BY DEF Base, Typed, Fits, Task
    <2>1. CASE PollConsume(r)
      <3>1. [req[r].row EXCEPT !.state = "consumed"] \in FlowRows BY <2>0 DEF FlowRows
      <3> QED BY <1>0, <2>1, <3>1 DEF PollConsume, UpdateFlow, Tables
    <2>2. CASE BeginGrantUpdate(r)
      <3>1. hist.st + 1 \in Numbers BY <1>00, <2>2, Constants DEF BeginGrantUpdate, Numbers
      <3>2. [req[r].row EXCEPT !.st = hist.st + 1] \in FlowRows BY <2>0, <3>1 DEF FlowRows, Numbers
      <3> QED BY <1>0, <2>2, <3>2 DEF BeginGrantUpdate, UpdateFlow, Tables
    <2>3. CASE IssueAppPassword(r)
      <3>1. hist.pw + 1 \in Draws BY <1>00, <2>3, Constants DEF IssueAppPassword, Numbers, Draws
      <3>2. db.apps \cup (IF db.exists THEN {hist.pw + 1} ELSE {}) \in SUBSET Draws BY <1>0, <3>1
      <3> QED BY <1>0, <2>3, <3>2 DEF IssueAppPassword, InsertToken, Tables
    <2>4. CASE WrapKeyForToken(r)
      <3>1. req[r].pw \in Draws BY <2>0, <2>4 DEF WrapKeyForToken, At, Holds, Drawn, Numbers, Draws, None
      <3>2. db.wraps \cup {req[r].pw} \in SUBSET Draws BY <1>0, <3>1
      <3> QED BY <1>0, <2>4, <3>2 DEF WrapKeyForToken, Tables
    <2>5. CASE Grant(r)
      <3>1. None \in 0 .. MaxDraw BY Constants DEF None
      <3>2. [req[r].row EXCEPT !.state = "granted", !.pw = req[r].pw, !.st = None] \in FlowRows BY <2>0, <3>1 DEF FlowRows, Numbers
      <3> QED BY <1>0, <2>5, <3>2 DEF Grant, UpdateFlow, Tables
    <2>6. CASE CreateSession(r)
      <3>1. CASE db' = db BY <1>0, <3>1
      <3>2. CASE db' # db
        <4>1. hist.sid + 1 \in Draws BY <1>00, <2>6, Constants DEF CreateSession, Numbers, Draws
        <4>2. [exp |-> now + SessionTTL, sealed |-> FALSE] \in Session BY <1>000, Constants DEF Session
        <4>3. Put(db.sess, hist.sid + 1, [exp |-> now + SessionTTL, sealed |-> FALSE]) \in Partials(Session) BY <1>0, <4>1, <4>2, PutTable
        <4>4. db' = [db EXCEPT !.sess = Put(@, hist.sid + 1, [exp |-> now + SessionTTL, sealed |-> FALSE])] BY <2>6, <3>2 DEF CreateSession
        <4> HIDE DEF Put
        <4> QED BY <1>0, <4>3, <4>4 DEF Tables
      <3> QED BY <3>1, <3>2
    <2>7. CASE SetSealedUK(r)
      <3>1. PICK v \in Session : db' = [db EXCEPT !.sess = [db.sess EXCEPT ![req[r].sid] = v]] /\ db'.sess \in Partials(Session) BY <2>7, SealRow
      <3> QED BY <1>0, <3>1 DEF Tables
    <2>8. CASE SealFails(r)
      <3>1. Drop(db.sess, req[r].sid) \in Partials(Session) BY <1>0, DropTable
      <3> QED BY <1>0, <2>8, <3>1 DEF SealFails, Tables
    <2>9. CASE HandleLogout(r)
      <3>1. PICK sid : db' = [db EXCEPT !.sess = Drop(@, sid)] BY <2>9 DEF HandleLogout
      <3>2. Drop(db.sess, sid) \in Partials(Session) BY <1>0, DropTable
      <3> QED BY <1>0, <3>1, <3>2 DEF Tables
    <2>10. CASE TouchSession(r)
      <3>1. CASE db' = db BY <1>0, <3>1
      <3>2. CASE db' # db
        <4>1. PICK v \in Session : db' = [db EXCEPT !.sess = [db.sess EXCEPT ![req[r].sid] = v]] /\ db'.sess \in Partials(Session) BY <2>10, <3>2, TouchRow
        <4> QED BY <1>0, <4>1 DEF Tables
      <3> QED BY <3>1, <3>2
    <2>11. CASE DeleteByHash(r)
      BY <1>0, <2>11 DEF DeleteByHash, Tables
    <2>12. CASE OnTokenDeleted(r)
      BY <1>0, <2>12 DEF OnTokenDeleted, Tables
    <2>13. CASE Mint(r)
      <3>1. hist.wopi + 1 \in Draws BY <1>00, <2>13, Constants DEF Mint, Numbers, Draws
      <3>2. [exp |-> now + WopiTTL] \in WopiToken BY <1>000, Constants DEF WopiToken
      <3>3. Put(db.wopi, hist.wopi + 1, [exp |-> now + WopiTTL]) \in Partials(WopiToken) BY <1>0, <3>1, <3>2, PutTable
      <3>4. db' = [db EXCEPT !.wopi = Put(@, hist.wopi + 1, [exp |-> now + WopiTTL])] BY <2>13 DEF Mint
      <3> QED BY <1>0, <3>3, <3>4 DEF Tables
    <2>14. CASE WrapKeyForWOPIToken(r)
      <3>1. req[r].pw \in Draws BY <2>0, <2>14 DEF WrapKeyForWOPIToken, At, Holds, Minting, Numbers, Draws, None
      <3>2. db.wopiWraps \cup {req[r].pw} \in SUBSET Draws BY <1>0, <3>1
      <3> QED BY <1>0, <2>14, <3>2 DEF WrapKeyForWOPIToken, Tables
    <2>15. CASE MintUndo(r)
      <3>1. Drop(db.wopi, req[r].pw) \in Partials(WopiToken) BY <1>0, DropTable
      <3> QED BY <1>0, <2>15, <3>1 DEF MintUndo, Tables
    <2>16. CASE DeleteWOPITokenKeys(r)
      BY <1>0, <2>16 DEF DeleteWOPITokenKeys, Tables
    <2>17. CASE DeleteExpired(r)
      <3>1. PICK D \in SUBSET Draws : db.wopi \in [D -> WopiToken] BY <1>0 DEF Partials
      <3>2. [t \in {u \in DOMAIN db.wopi : db.wopi[u].exp > req[r].at} |-> db.wopi[t]] \in [{u \in D : db.wopi[u].exp > req[r].at} -> WopiToken] BY <3>1
      <3>3. [t \in {u \in DOMAIN db.wopi : db.wopi[u].exp > req[r].at} |-> db.wopi[t]] \in Partials(WopiToken) BY <3>1, <3>2 DEF Partials
      <3> QED BY <1>0, <2>17, <3>3 DEF DeleteExpired, Tables
    <2>18. CASE PruneWOPITokenKeys(r)
      BY <1>0, <2>18 DEF PruneWOPITokenKeys, Tables
    <2>19. CASE UserKeysDeleted(r)
      BY <1>0, <2>19 DEF UserKeysDeleted, Tables
    <2>20. CASE DeleteUser(r)
      <3>1. <<>> \in Partials(Session)
        <4>1. <<>> \in [{} -> Session] /\ {} \in SUBSET Draws OBVIOUS
        <4> QED BY <4>1 DEF Partials
      <3> QED BY <1>0, <2>20, <3>1 DEF DeleteUser, Tables
    <2>21. CASE \/ HandlePoll(r) \/ BeginGrant(r) \/ HandleGrant(r) \/ GrantLookup(r) \/ WrapTokenRow(r) \/ GrantRead(r)
               \/ GetAppPassword(r) \/ AnswerPassword(r) \/ HandleLogin(r) \/ SetCookie(r) \/ VerifyID(r) \/ VisitUser(r)
               \/ CachedUID(r) \/ TieredFill(r) \/ BearerLookup(r) \/ PrincipalForUID(r) \/ RememberUID(r) \/ AttachTokenKey(r)
               \/ AppPasswordVerify(r) \/ AppUnlock(r) \/ WopiWrapRow(r) \/ Minted(r) \/ Authenticate(r) \/ CallbackUser(r)
               \/ UnlockForWOPIToken(r) \/ GCList(r) \/ Fail(r)
      BY <1>0, <2>21 DEF HandlePoll, BeginGrant, HandleGrant, GrantLookup, WrapTokenRow, GrantRead, GetAppPassword, AnswerPassword, HandleLogin, SetCookie, VerifyID, VisitUser, CachedUID, TieredFill, BearerLookup, PrincipalForUID, RememberUID, AttachTokenKey, AppPasswordVerify, AppUnlock, WopiWrapRow, Minted, Authenticate, CallbackUser, UnlockForWOPIToken, GCList, Fail
    <2> QED BY <1>5, <2>1, <2>2, <2>3, <2>4, <2>5, <2>6, <2>7, <2>8, <2>9, <2>10, <2>11, <2>12, <2>13, <2>14, <2>15, <2>16, <2>17, <2>18, <2>19, <2>20, <2>21 DEF Request
  <1> QED BY <1>1, <1>2, <1>3, <1>4, <1>5 DEF Next

LEMMA HistoryStep ==
  ASSUME Base, Next
  PROVE  hist' \in History
  <1>0. hist \in History /\ now \in Nat BY DEF Base, Typed
  <1>00. hist.pw \in Numbers /\ hist.st \in Numbers /\ hist.sid \in Numbers /\ hist.wopi \in Numbers /\ hist.stale \in Nat BY <1>0 DEF History
  <1>1. CASE HandleInit \/ SetEnabled \/ PruneStaleKeys \/ Evict
    BY <1>0, <1>1 DEF HandleInit, SetEnabled, PruneStaleKeys, Evict
  <1>2. CASE Tick BY <1>0, <1>00, <1>2 DEF Tick, History
  <1>3. ASSUME NEW r \in Reqs, Request(r) PROVE hist' \in History
    <2>0. req[r].row.pw \in Numbers /\ req[r].pw \in Numbers /\ req[r].sid \in Numbers /\ req[r].key \in BOOLEAN
      BY DEF Base, Typed, Task, FlowRows, Numbers
    <2>1. CASE PollConsume(r)
      BY <1>0, <2>0, <2>1 DEF PollConsume, Answered, History
    <2>2. CASE BeginGrantUpdate(r)
      <3>1. hist.st + 1 \in Numbers BY <1>00, <2>2, Constants DEF BeginGrantUpdate, Numbers
      <3> QED BY <1>0, <3>1, <2>2 DEF BeginGrantUpdate, History
    <2>3. CASE IssueAppPassword(r)
      <3>1. hist.pw + 1 \in Numbers BY <1>00, <2>3, Constants DEF IssueAppPassword, Numbers
      <3>2. (IF req[r].key THEN {hist.pw + 1} ELSE {}) \in SUBSET Numbers BY <3>1
      <3> QED BY <1>0, <3>1, <3>2, <2>3 DEF IssueAppPassword, History
    <2>4. CASE Grant(r)
      BY <1>0, <2>0, <2>4 DEF Grant, History
    <2>5. CASE AnswerPassword(r)
      BY <1>0, <2>0, <2>5 DEF AnswerPassword, History
    <2>6. CASE CreateSession(r)
      <3>1. hist.sid + 1 \in Numbers BY <1>00, <2>6, Constants DEF CreateSession, Numbers
      <3>2. (IF req[r].key THEN {hist.sid + 1} ELSE {}) \in SUBSET Numbers BY <3>1
      <3>3. hist' = hist \/ hist' = [hist EXCEPT !.sid = hist.sid + 1, !.keyedSid = @ \cup (IF req[r].key THEN {hist.sid + 1} ELSE {})]
        BY <2>6 DEF CreateSession
      <3>4. hist.keyedSid \in SUBSET Numbers BY <1>0 DEF History
      <3>5. PICK K \in SUBSET Numbers : K = hist.keyedSid \cup (IF req[r].key THEN {hist.sid + 1} ELSE {}) BY <3>2, <3>4
      <3>6. hist' = hist \/ hist' = [hist EXCEPT !.sid = hist.sid + 1, !.keyedSid = K] BY <1>0, <3>3, <3>5 DEF History
      <3> HIDE <3>5
      <3> QED BY <1>0, <3>1, <3>6 DEF History
    <2>7. CASE SetCookie(r)
      BY <1>0, <2>0, <2>7 DEF SetCookie, History
    <2>8. CASE HandleLogout(r)
      <3>1. PICK sid \in hist.cookies : hist' = [hist EXCEPT !.out = @ \cup {sid}] BY <2>8 DEF HandleLogout
      <3> QED BY <1>0, <3>1 DEF History
    <2>9. CASE Mint(r)
      <3>1. hist.wopi + 1 \in Numbers BY <1>00, <2>9, Constants DEF Mint, Numbers
      <3>2. hist' = [hist EXCEPT !.wopi = @ + 1] BY <2>9 DEF Mint
      <3> QED BY <1>0, <3>1, <3>2 DEF History
    <2>10. CASE Minted(r)
      <3>1. [tok |-> req[r].pw, key |-> req[r].key, exp |-> now] \in MintedToken BY <1>0, <2>0 DEF MintedToken
      <3> QED BY <1>0, <3>1, <2>10 DEF Minted, History
    <2>11. CASE \/ HandlePoll(r) \/ BeginGrant(r) \/ HandleGrant(r) \/ GrantLookup(r) \/ WrapTokenRow(r) \/ WrapKeyForToken(r)
               \/ GrantRead(r) \/ GetAppPassword(r) \/ HandleLogin(r) \/ SetSealedUK(r) \/ SealFails(r) \/ VerifyID(r)
               \/ VisitUser(r) \/ TouchSession(r) \/ CachedUID(r) \/ TieredFill(r) \/ BearerLookup(r) \/ PrincipalForUID(r)
               \/ RememberUID(r) \/ AttachTokenKey(r) \/ AppPasswordVerify(r) \/ AppUnlock(r) \/ DeleteByHash(r) \/ OnTokenDeleted(r)
               \/ WopiWrapRow(r) \/ WrapKeyForWOPIToken(r) \/ MintUndo(r) \/ Authenticate(r) \/ CallbackUser(r) \/ UnlockForWOPIToken(r)
               \/ GCList(r) \/ DeleteWOPITokenKeys(r) \/ DeleteExpired(r) \/ PruneWOPITokenKeys(r) \/ UserKeysDeleted(r) \/ DeleteUser(r)
               \/ Fail(r)
      BY <1>0, <2>11 DEF HandlePoll, BeginGrant, HandleGrant, GrantLookup, WrapTokenRow, WrapKeyForToken, GrantRead, GetAppPassword, HandleLogin, SetSealedUK, SealFails, VerifyID, VisitUser, TouchSession, CachedUID, TieredFill, BearerLookup, PrincipalForUID, RememberUID, AttachTokenKey, AppPasswordVerify, AppUnlock, DeleteByHash, OnTokenDeleted, WopiWrapRow, WrapKeyForWOPIToken, MintUndo, Authenticate, CallbackUser, UnlockForWOPIToken, GCList, DeleteWOPITokenKeys, DeleteExpired, PruneWOPITokenKeys, UserKeysDeleted, DeleteUser, Fail
    <2> QED BY <1>3, <2>1, <2>2, <2>3, <2>4, <2>5, <2>6, <2>7, <2>8, <2>9, <2>10, <2>11 DEF Request
  <1> QED BY <1>1, <1>2, <1>3 DEF Next

LEMMA CacheStep ==
  ASSUME Base, Next
  PROVE  cache' \in Caches /\ scene' \in Scenes /\ now' \in Nat
  <1>0. cache \in Caches /\ scene \in Scenes /\ now \in Nat BY DEF Base, Typed
  <1>00. cache.l2 \in 0 .. TokenTTL /\ \A n \in Nodes : cache.l1[n] \in 0 .. TokenTTL + FillTTL BY <1>0 DEF Caches
  <1>1. CASE HandleInit \/ SetEnabled \/ PruneStaleKeys
    BY <1>0, <1>1 DEF HandleInit, SetEnabled, PruneStaleKeys
  <1>2. CASE Tick
    <2>1. (IF cache.l2 > 0 THEN cache.l2 - 1 ELSE 0) \in 0 .. TokenTTL BY <1>00, Constants
    <2>2. [n \in Nodes |-> IF cache.l1[n] > 0 THEN cache.l1[n] - 1 ELSE 0] \in [Nodes -> 0 .. TokenTTL + FillTTL] BY <1>00, Constants
    <2> QED BY <1>0, <1>2, <2>1, <2>2 DEF Tick, Caches
  <1>3. CASE Evict
    <2>1. 0 \in 0 .. TokenTTL /\ 0 \in 0 .. TokenTTL + FillTTL BY Constants
    <2> QED BY <1>0, <1>3, <2>1 DEF Evict, Caches
  <1>4. ASSUME NEW r \in Reqs, Request(r) PROVE cache' \in Caches /\ scene' \in Scenes /\ now' \in Nat
    <2>0. TokenTTL \in 0 .. TokenTTL /\ TokenTTL \in 0 .. TokenTTL + FillTTL /\ FillTTL \in 0 .. TokenTTL + FillTTL BY Constants
    <2>1. CASE TieredFill(r)
      BY <1>0, <2>0, <2>1 DEF TieredFill, Caches
    <2>2. CASE RememberUID(r)
      BY <1>0, <2>0, <2>2 DEF RememberUID, Caches
    <2>3. CASE \/ HandlePoll(r) \/ PollConsume(r) \/ BeginGrant(r) \/ BeginGrantUpdate(r) \/ HandleGrant(r) \/ GrantLookup(r)
              \/ IssueAppPassword(r) \/ WrapTokenRow(r) \/ WrapKeyForToken(r) \/ GrantRead(r) \/ Grant(r) \/ GetAppPassword(r)
              \/ AnswerPassword(r) \/ HandleLogin(r) \/ CreateSession(r) \/ SetSealedUK(r) \/ SealFails(r) \/ SetCookie(r)
              \/ HandleLogout(r) \/ VerifyID(r) \/ VisitUser(r) \/ TouchSession(r) \/ CachedUID(r) \/ BearerLookup(r)
              \/ PrincipalForUID(r) \/ AttachTokenKey(r) \/ AppPasswordVerify(r) \/ AppUnlock(r) \/ DeleteByHash(r) \/ OnTokenDeleted(r)
              \/ Mint(r) \/ WopiWrapRow(r) \/ WrapKeyForWOPIToken(r) \/ MintUndo(r) \/ Minted(r) \/ Authenticate(r)
              \/ CallbackUser(r) \/ UnlockForWOPIToken(r) \/ GCList(r) \/ DeleteWOPITokenKeys(r) \/ DeleteExpired(r) \/ PruneWOPITokenKeys(r)
              \/ UserKeysDeleted(r) \/ DeleteUser(r) \/ Fail(r)
      BY <1>0, <2>3 DEF HandlePoll, PollConsume, BeginGrant, BeginGrantUpdate, HandleGrant, GrantLookup, IssueAppPassword, WrapTokenRow, WrapKeyForToken, GrantRead, Grant, GetAppPassword, AnswerPassword, HandleLogin, CreateSession, SetSealedUK, SealFails, SetCookie, HandleLogout, VerifyID, VisitUser, TouchSession, CachedUID, BearerLookup, PrincipalForUID, AttachTokenKey, AppPasswordVerify, AppUnlock, DeleteByHash, OnTokenDeleted, Mint, WopiWrapRow, WrapKeyForWOPIToken, MintUndo, Minted, Authenticate, CallbackUser, UnlockForWOPIToken, GCList, DeleteWOPITokenKeys, DeleteExpired, PruneWOPITokenKeys, UserKeysDeleted, DeleteUser, Fail
    <2> QED BY <1>4, <2>1, <2>2, <2>3 DEF Request
  <1> QED BY <1>1, <1>2, <1>3, <1>4 DEF Next

LEMMA RequestsStep ==
  ASSUME Base, Next
  PROVE  req' \in [Reqs -> Task] /\ Fits'
  <1>0. req \in [Reqs -> Task] /\ Fits BY DEF Base, Typed
  <1>1. CASE HandleInit \/ PruneStaleKeys \/ Evict \/ Tick
    BY <1>0, <1>1 DEF HandleInit, PruneStaleKeys, Evict, Tick, Fits
  <1>2. CASE SetEnabled
    <2>1. ASSUME NEW r \in Reqs
          PROVE  req'[r] \in Task /\ Paths(req'[r].op, req'[r].pc) /\ Holds(req'[r])
      <3>1. req[r] \in Task /\ Paths(req[r].op, req[r].pc) /\ Holds(req[r]) BY <1>0 DEF Fits
      <3>2. CASE req'[r] = req[r] BY <3>1, <3>2
      <3>3. CASE req'[r] # req[r]
        <4>1. req'[r] = [req[r] EXCEPT !.off = FALSE] /\ req[r].pc \notin Ended BY <1>2, <3>3 DEF SetEnabled
        <4>2. req'[r] \in Task BY <3>1, <4>1 DEF Task
        <4>3. /\ req'[r].op = req[r].op /\ req'[r].pc = req[r].pc /\ req'[r].pw = req[r].pw /\ req'[r].sid = req[r].sid
              /\ req'[r].node = req[r].node
          BY <3>1, <4>1 DEF Task
        <4> QED BY <3>1, <4>1, <4>2, <4>3 DEF Holds, Ended
      <3> QED BY <3>2, <3>3
    <2>2. req' = [r \in Reqs |-> req'[r]] BY <1>2 DEF SetEnabled
    <2> QED BY <2>1, <2>2 DEF Fits
  <1>3. ASSUME NEW r \in Reqs, Request(r) PROVE req' \in [Reqs -> Task] /\ Fits'
    <2>0. Paths(req[r].op, req[r].pc) /\ Holds(req[r]) /\ req[r].op \in Ops BY <1>0 DEF Fits, Task
    <2>1. CASE HandlePoll(r)
      <3>1. PICK w \in Task : Came(r, "poll", w) /\ w.pc \in {"consume", "done"} BY <2>1, PollOne
      <3>2. Paths(w.op, w.pc) /\ Holds(w) BY <3>1 DEF Came, Paths, Holds, Drawn, Minting
      <3> QED BY <3>1, <3>2, FitsOne DEF Came
    <2>2. CASE BeginGrant(r)
      <3>1. PICK w \in Task : Came(r, "begin", w) /\ w.pc \in {"newState", "done"} BY <2>2, BeginOne
      <3>2. Paths(w.op, w.pc) /\ Holds(w) BY <3>1 DEF Came, Paths, Holds, Drawn, Minting
      <3> QED BY <3>1, <3>2, FitsOne DEF Came
    <2>3. CASE HandleGrant(r)
      <3>1. PICK op \in {"grant", "grantApp"}, w \in Task : Came(r, op, w) /\ w.pc = "lookup" BY <2>3, GrantOne
      <3>2. Paths(w.op, w.pc) /\ Holds(w) BY <3>1 DEF Came, Paths, Holds, Drawn, Minting
      <3> QED BY <3>1, <3>2, FitsOne DEF Came
    <2>4. CASE HandleLogin(r)
      <3>1. PICK w \in Task : Came(r, "login", w) /\ w.pc \in {"session", "done"} BY <2>4, LoginOne
      <3>2. Paths(w.op, w.pc) /\ Holds(w) BY <3>1 DEF Came, Paths, Holds, Drawn, Minting
      <3> QED BY <3>1, <3>2, FitsOne DEF Came
    <2>5. CASE HandleLogout(r)
      <3>1. PICK w \in Task : Came(r, "logout", w) /\ w.pc = "done" BY <2>5, LogoutOne
      <3>2. Paths(w.op, w.pc) /\ Holds(w) BY <3>1 DEF Came, Paths, Holds, Drawn, Minting
      <3> QED BY <3>1, <3>2, FitsOne DEF Came
    <2>6. CASE VerifyID(r)
      <3>1. PICK op \in {"visit", "issue"}, w \in Task : Came(r, op, w) /\ w.pc \in {"visitUser", "done"} BY <2>6, VisitOne
      <3>2. Paths(w.op, w.pc) /\ Holds(w) BY <3>1 DEF Came, Paths, Holds, Drawn, Minting
      <3> QED BY <3>1, <3>2, FitsOne DEF Came
    <2>7. CASE CachedUID(r)
      <3>1. PICK w \in Task : Came(r, "bearer", w) /\ w.pc \in {"bearerUser", "fill", "bearerRow"} /\ w.node \in Nodes BY <2>7, BearerOne
      <3>2. Paths(w.op, w.pc) /\ Holds(w) BY <3>1 DEF Came, Paths, Holds, Drawn, Minting
      <3> QED BY <3>1, <3>2, FitsOne DEF Came
    <2>8. CASE AppPasswordVerify(r)
      <3>1. PICK op \in {"app", "revoke"}, w \in Task : Came(r, op, w) /\ w.pc \in {"appKey", "done"} BY <2>8, AppOne
      <3>2. Paths(w.op, w.pc) /\ Holds(w) BY <3>1 DEF Came, Paths, Holds, Drawn, Minting
      <3> QED BY <3>1, <3>2, FitsOne DEF Came
    <2>9. CASE Mint(r)
      <3>1. PICK w \in Task : Came(r, "mint", w) /\ w.pc \in {"wopiRow", "minted"} /\ w.pw # None BY <2>9, MintOne
      <3>2. Paths(w.op, w.pc) /\ Holds(w) BY <3>1 DEF Came, Paths, Holds, Drawn, Minting
      <3> QED BY <3>1, <3>2, FitsOne DEF Came
    <2>10. CASE Authenticate(r)
      <3>1. PICK w \in Task : Came(r, "callback", w) /\ w.pc \in {"callUser", "done"} BY <2>10, CallOne
      <3>2. Paths(w.op, w.pc) /\ Holds(w) BY <3>1 DEF Came, Paths, Holds, Drawn, Minting
      <3> QED BY <3>1, <3>2, FitsOne DEF Came
    <2>11. CASE GCList(r)
      <3>1. PICK w \in Task : Came(r, "gc", w) /\ w.pc = "gcKeys" BY <2>11, CleanOne
      <3>2. Paths(w.op, w.pc) /\ Holds(w) BY <3>1 DEF Came, Paths, Holds, Drawn, Minting
      <3> QED BY <3>1, <3>2, FitsOne DEF Came
    <2>12. CASE UserKeysDeleted(r)
      <3>1. PICK w \in Task : Came(r, "deleteUser", w) /\ w.pc = "deleteUser" BY <2>12, DeleteOne
      <3>2. Paths(w.op, w.pc) /\ Holds(w) BY <3>1 DEF Came, Paths, Holds, Drawn, Minting
      <3> QED BY <3>1, <3>2, FitsOne DEF Came
    <2>13. CASE PollConsume(r)
      <3>1. PICK w \in Task : req' = [req EXCEPT ![r] = w] /\ w.op = "poll" /\ w.pc = "done" BY <2>13, AnswerOne DEF PollConsume
      <3>2. Paths(w.op, w.pc) /\ Holds(w) BY <3>1 DEF Paths, Holds, Drawn, Minting
      <3> QED BY <3>1, <3>2, FitsOne
    <2>14. CASE IssueAppPassword(r)
      <3>1. PICK w \in Task : req' = [req EXCEPT ![r] = w] /\ w.op = req[r].op /\ w.pw = hist.pw + 1 /\ w.pc \in {"tokenRow", "record"} BY <2>14, IssueOne
      <3>2. hist.pw + 1 # None BY DEF Base, Typed, History, Numbers, None
      <3>3. Paths(w.op, w.pc) BY <2>0, <3>1, <2>14 DEF Paths, IssueAppPassword, At, Ops
      <3>4. Holds(w) BY <2>0, <3>1, <3>2, <2>14 DEF Paths, Holds, IssueAppPassword, At
      <3> QED BY <3>1, <3>3, <3>4, FitsOne
    <2>15. CASE GrantRead(r)
      <3>1. CASE Step(r, "done") BY <2>15, <3>1, GoingFits DEF StepAct
      <3>2. CASE ~Step(r, "done")
        <4>1. At(r, "record") /\ req[r].op # "issue" /\ req' = [req EXCEPT ![r].pc = "grantUpdate", ![r].row = db.flow] BY <2>15, <3>2 DEF GrantRead
        <4>2. PICK w \in Task : req' = [req EXCEPT ![r] = w] /\ w.op = req[r].op /\ w.pw = req[r].pw /\ w.pc = "grantUpdate"
          BY <2>15, <3>2, ReadOne
        <4>3. Paths(w.op, w.pc) BY <2>0, <4>1, <4>2 DEF Paths, At, Ops
        <4>4. Holds(w) BY <2>0, <4>1, <4>2 DEF Paths, Holds, At, Drawn
        <4> QED BY <4>2, <4>3, <4>4, FitsOne
      <3> QED BY <3>1, <3>2
    <2>16. CASE CreateSession(r)
      <3>1. CASE Step(r, "done") BY <2>16, <3>1, GoingFits DEF StepAct
      <3>2. CASE ~Step(r, "done")
        <4>1. At(r, "session") BY <2>16 DEF CreateSession
        <4>2. hist.sid + 1 # None BY DEF Base, Typed, History, Numbers, None
        <4>3. PICK w \in Task : req' = [req EXCEPT ![r] = w] /\ w.op = req[r].op /\ w.sid = hist.sid + 1 /\ w.pc \in {"seal", "cookie"}
          BY <2>16, <3>2, SessionOne
        <4>4. Paths(w.op, w.pc) BY <2>0, <4>1, <4>3 DEF Paths, At, Ops
        <4>5. Holds(w) BY <2>0, <4>1, <4>2, <4>3 DEF Paths, Holds, At, Drawn, Minting
        <4> QED BY <4>3, <4>4, <4>5, FitsOne
      <3> QED BY <3>1, <3>2
    <2>17. CASE AttachTokenKey(r)
      <3>1. PICK w \in Task : req' = [req EXCEPT ![r] = w] /\ w.op = req[r].op /\ w.node = req[r].node /\ w.pc = "accepted" BY <2>17, AttachOne
      <3>2. Paths(w.op, w.pc) BY <2>0, <3>1, <2>17 DEF Paths, AttachTokenKey, At, Ops
      <3>3. Holds(w) BY <2>0, <3>1, <2>17 DEF Paths, Holds, AttachTokenKey, At, Drawn, Minting
      <3> QED BY <3>1, <3>2, <3>3, FitsOne
    <2>18. CASE AppUnlock(r)
      <3>1. PICK w \in Task : req' = [req EXCEPT ![r] = w] /\ w.op = req[r].op /\ w.node = req[r].node /\ w.pc = (IF req[r].op = "app" THEN "accepted" ELSE "dropRow") BY <2>18, UnlockOne
      <3>2. Paths(w.op, w.pc) BY <2>0, <3>1, <2>18 DEF Paths, AppUnlock, At, Ops
      <3>3. Holds(w) BY <2>0, <3>1, <2>18 DEF Paths, Holds, AppUnlock, At, Drawn, Minting
      <3> QED BY <3>1, <3>2, <3>3, FitsOne
    <2>19. CASE UnlockForWOPIToken(r)
      <3>1. PICK w \in Task : req' = [req EXCEPT ![r] = w] /\ w.op = req[r].op /\ w.node = req[r].node /\ w.pc = "accepted" BY <2>19, CallbackOne
      <3>2. Paths(w.op, w.pc) BY <2>0, <3>1, <2>19 DEF Paths, UnlockForWOPIToken, At, Ops
      <3>3. Holds(w) BY <2>0, <3>1, <2>19 DEF Paths, Holds, UnlockForWOPIToken, At, Drawn, Minting
      <3> QED BY <3>1, <3>2, <3>3, FitsOne
    <2>20. CASE \/ BeginGrantUpdate(r) \/ GrantLookup(r) \/ WrapTokenRow(r) \/ WrapKeyForToken(r) \/ Grant(r) \/ GetAppPassword(r)
               \/ AnswerPassword(r) \/ SetSealedUK(r) \/ SealFails(r) \/ SetCookie(r) \/ VisitUser(r) \/ TouchSession(r)
               \/ TieredFill(r) \/ BearerLookup(r) \/ PrincipalForUID(r) \/ RememberUID(r) \/ DeleteByHash(r) \/ OnTokenDeleted(r)
               \/ WopiWrapRow(r) \/ WrapKeyForWOPIToken(r) \/ MintUndo(r) \/ Minted(r) \/ CallbackUser(r) \/ DeleteWOPITokenKeys(r)
               \/ DeleteExpired(r) \/ PruneWOPITokenKeys(r) \/ DeleteUser(r) \/ Fail(r)
      BY <2>20, GoingFits DEF StepAct
    <2> QED BY <1>3, <2>1, <2>2, <2>3, <2>4, <2>5, <2>6, <2>7, <2>8, <2>9, <2>10, <2>11, <2>12, <2>13, <2>14, <2>15, <2>16, <2>17, <2>18, <2>19, <2>20 DEF Request
  <1> QED BY <1>1, <1>2, <1>3 DEF Next

LEMMA BaseInit == Init => Base
  <1> SUFFICES ASSUME Init PROVE Base OBVIOUS
  <1>1. scene \in Scenes /\ now = 0 BY DEF Init
  <1>2. PICK n \in 0 .. MaxDraw : scene.apps = 1 .. n BY <1>1, AccessAssumption
  <1>3. Cardinality(scene.apps) = n /\ scene.apps \subseteq Draws /\ scene.apps \subseteq Numbers
    <2>1. n \in Nat /\ 1 .. n \subseteq 1 .. MaxDraw /\ 1 .. n \subseteq 0 .. MaxDraw BY <1>2, Constants
    <2>2. Cardinality(1 .. n) = n BY <2>1, FS_Interval
    <2> QED BY <1>2, <2>1, <2>2 DEF Draws, Numbers
  <1>4. <<>> \in Partials(Session) /\ <<>> \in Partials(WopiToken)
    <2>1. <<>> \in [{} -> Session] /\ <<>> \in [{} -> WopiToken] /\ {} \in SUBSET Draws OBVIOUS
    <2> QED BY <2>1 DEF Partials
  <1>5. db \in Tables
    <2>1. (IF scene.enrolled THEN scene.apps ELSE {}) \in SUBSET Draws BY <1>3
    <2> QED BY <1>3, <1>4, <2>1, FlowTypes DEF Init, Tables
  <1>6. cache \in Caches
    <2>1. 0 \in 0 .. TokenTTL /\ [m \in Nodes |-> 0] \in [Nodes -> 0 .. TokenTTL + FillTTL] BY Constants
    <2> QED BY <2>1 DEF Init, Caches
  <1>7. req \in [Reqs -> Task] /\ \A r \in Reqs : req[r] = Idle BY FlowTypes DEF Init
  <1>8. Fits BY <1>7 DEF Fits, Paths, Holds, Idle, Drawn, Minting
  <1>9. hist \in History
    <2>1. (IF scene.enrolled THEN scene.apps ELSE {}) \in SUBSET Numbers BY <1>3
    <2>2. n \in Numbers /\ 0 \in Numbers BY <1>2, Constants DEF Numbers
    <2> QED BY <1>3, <2>1, <2>2 DEF Init, History
  <1> QED BY <1>1, <1>5, <1>6, <1>7, <1>8, <1>9 DEF Base, Typed

LEMMA BaseStep == Base /\ [Next]_vars => Base'
  <1> SUFFICES ASSUME Base, [Next]_vars PROVE Base' OBVIOUS
  <1>1. CASE Next BY <1>1, TablesStep, HistoryStep, CacheStep, RequestsStep DEF Base, Typed
  <1>2. CASE UNCHANGED vars BY <1>2 DEF vars, Base, Typed, Fits
  <1> QED BY <1>1, <1>2

-----------------------------------------------------------------------------
(* The login flow.                                                         *)

\* The password in a granted flow was granted and not handed out; what a grant
\* is about to record is nobody else's and not recorded yet; a poll that will
\* answer does so with a granted password it has not seen.
FlowFresh == db.flow.state = "granted" => db.flow.pw \in hist.granted \ hist.handed
Counted == hist.granted \subseteq 1 .. hist.pw /\ hist.handed \subseteq hist.granted
DrawnFresh ==
  /\ \A r \in Reqs : req[r].pc \in Drawn => req[r].pw \in 1 .. hist.pw \ hist.granted
  /\ \A r, q \in Reqs : r # q /\ req[r].pc \in Drawn /\ req[q].pc \in Drawn => req[r].pw # req[q].pw
RowsRead(v, granted) ==
  /\ v.pc = "consume" => v.pw = None /\ v.row.state = "granted" /\ v.row.pw \in granted \ v.seen
  /\ v.pc = "newState" => v.row.state = "pending"
FInv == FlowFresh /\ Counted /\ DrawnFresh /\ \A r \in Reqs : RowsRead(req[r], hist.granted)

Got(v) == IF v.op = "poll" /\ v.pw # None THEN {v.pw} ELSE {}

\* A step that leaves the flow alone and takes the request to none of its writes.
LEMMA QuietFlow ==
  ASSUME Base, FInv, NEW r \in Reqs, NEW w \in Task, req' = [req EXCEPT ![r] = w],
         db'.flow = db.flow, hist'.granted = hist.granted, hist'.handed = hist.handed, hist'.pw = hist.pw,
         w.pc \in Drawn => req[r].pc \in Drawn /\ w.pw = req[r].pw,
         w.pc \notin {"consume", "newState"}
  PROVE  FInv'
  <1>1. req \in [Reqs -> Task] BY DEF Base, Typed
  <1>2. req'[r] = w /\ \A q \in Reqs \ {r} : req'[q] = req[q] BY <1>1
  <1>3. FlowFresh' /\ Counted' BY DEF FInv, FlowFresh, Counted
  <1>4. DrawnFresh' BY <1>2 DEF FInv, DrawnFresh
  <1>5. ASSUME NEW q \in Reqs PROVE RowsRead(req'[q], hist'.granted) BY <1>2 DEF FInv, RowsRead
  <1> QED BY <1>3, <1>4, <1>5 DEF FInv

LEMMA QuietPromise ==
  ASSUME Base, NEW r \in Reqs, NEW w \in Task, req' = [req EXCEPT ![r] = w],
         hist'.granted = hist.granted, hist'.handed = hist.handed, w.seen = req[r].seen, Got(w) = Got(req[r])
  PROVE  UNCHANGED Promise!vars
  <1>1. req \in [Reqs -> Task] BY DEF Base, Typed
  <1>2. req'[r] = w /\ \A q \in Reqs \ {r} : req'[q] = req[q] BY <1>1
  <1>3. [q \in Reqs |-> req[q].seen]' = [q \in Reqs |-> req[q].seen] BY <1>2
  <1>4. \A q \in Reqs : Got(req'[q]) = Got(req[q]) BY <1>2
  <1>5. [q \in Reqs |-> IF req[q].op = "poll" /\ req[q].pw # None THEN {req[q].pw} ELSE {}]'
          = [q \in Reqs |-> IF req[q].op = "poll" /\ req[q].pw # None THEN {req[q].pw} ELSE {}]
    BY <1>4 DEF Got
  <1> QED BY <1>3, <1>5 DEF Promise!vars

LEMMA FlowStep ==
  ASSUME Base, FInv, Next
  PROVE  FInv' /\ (Promise!Next \/ UNCHANGED Promise!vars)
  <1>0. db \in Tables /\ hist \in History /\ req \in [Reqs -> Task] /\ Fits BY DEF Base, Typed
  <1>1. CASE HandleInit
    <2>1. db'.flow.state = "pending" /\ req' = req /\ hist' = hist BY <1>0, <1>1 DEF HandleInit, UpdateFlow, NewFlow, Tables
    <2>2. FInv' BY <2>1 DEF FInv, FlowFresh, Counted, DrawnFresh
    <2> QED BY <2>1, <2>2 DEF Promise!vars
  <1>2. CASE SetEnabled
    <2>1. /\ db'.flow = db.flow /\ hist' = hist
          /\ req' = [r \in Reqs |-> IF ~db.enabled /\ req[r].pc \notin Ended THEN [req[r] EXCEPT !.off = FALSE] ELSE req[r]]
      BY <1>0, <1>2 DEF SetEnabled, Tables
    <2>2. ASSUME NEW q \in Reqs
          PROVE  /\ req'[q].op = req[q].op /\ req'[q].pc = req[q].pc /\ req'[q].pw = req[q].pw
                 /\ req'[q].row = req[q].row /\ req'[q].seen = req[q].seen
      BY <1>0, <2>1 DEF Task
    <2>3. FInv' BY <2>1, <2>2 DEF FInv, FlowFresh, Counted, DrawnFresh, RowsRead
    <2>4. [q \in Reqs |-> req[q].seen]' = [q \in Reqs |-> req[q].seen] BY <2>2
    <2>5. [q \in Reqs |-> IF req[q].op = "poll" /\ req[q].pw # None THEN {req[q].pw} ELSE {}]'
            = [q \in Reqs |-> IF req[q].op = "poll" /\ req[q].pw # None THEN {req[q].pw} ELSE {}]
      BY <2>2
    <2> QED BY <2>1, <2>3, <2>4, <2>5 DEF Promise!vars
  <1>3. CASE PruneStaleKeys \/ Evict \/ Tick
    <2>1. db'.flow = db.flow /\ req' = req /\ hist'.granted = hist.granted /\ hist'.handed = hist.handed /\ hist'.pw = hist.pw
      BY <1>0, <1>3 DEF PruneStaleKeys, Evict, Tick, Tables, History
    <2>2. FInv' BY <2>1 DEF FInv, FlowFresh, Counted, DrawnFresh
    <2> QED BY <2>1, <2>2 DEF Promise!vars
  <1>4. ASSUME NEW r \in Reqs, Request(r) PROVE FInv' /\ (Promise!Next \/ UNCHANGED Promise!vars)
    <2>0. /\ req[r] \in Task /\ Paths(req[r].op, req[r].pc) /\ Holds(req[r]) /\ RowsRead(req[r], hist.granted) /\ req[r].op \in Ops
          /\ hist.pw \in Numbers /\ Counted /\ FlowFresh /\ DrawnFresh
      BY <1>0 DEF Fits, Task, FInv, History
    <2>1. CASE HandlePoll(r)
      <3>1. PICK w \in Task :
              /\ Came(r, "poll", w) /\ w.pw = None /\ w.pc \in {"consume", "done"}
              /\ w.pc = "consume" => db.flow.state = "granted" /\ w.row = db.flow /\ w.seen = hist.handed
              /\ w.pc = "done" => w.seen = {}
        BY <2>1, PollOne
      <3>2. UNCHANGED <<db, hist>> BY <2>1 DEF HandlePoll
      <3>3. req'[r] = w /\ req[r] = Idle /\ \A q \in Reqs \ {r} : req'[q] = req[q] BY <1>0, <2>0, <3>1 DEF Came, At, Holds
      <3>4. FInv'
        <4>1. RowsRead(w, hist.granted) BY <2>0, <3>1 DEF RowsRead, FlowFresh
        <4>2. \A q \in Reqs : RowsRead(req'[q], hist.granted) BY <3>3, <4>1 DEF FInv
        <4>3. DrawnFresh' BY <2>0, <3>1, <3>2, <3>3 DEF DrawnFresh, Drawn
        <4> QED BY <2>0, <3>2, <4>2, <4>3 DEF FInv, FlowFresh, Counted
      <3>5. Got(w) = {} /\ Got(req[r]) = {} /\ req[r].seen = {} BY <3>1, <3>3 DEF Got, Idle
      <3>6. CASE w.pc = "done"
        <4>1. UNCHANGED Promise!vars BY <3>1, <3>2, <3>5, <3>6, QuietPromise DEF Came
        <4> QED BY <3>4, <4>1
      <3>7. CASE w.pc = "consume"
        <4>1. [q \in Reqs |-> req[q].seen]' = [[q \in Reqs |-> req[q].seen] EXCEPT ![r] = hist.handed] BY <3>1, <3>3, <3>7
        <4>2. \A q \in Reqs : Got(req'[q]) = Got(req[q]) BY <3>3, <3>5
        <4>3. [q \in Reqs |-> IF req[q].op = "poll" /\ req[q].pw # None THEN {req[q].pw} ELSE {}]'
                = [q \in Reqs |-> IF req[q].op = "poll" /\ req[q].pw # None THEN {req[q].pw} ELSE {}]
          BY <4>2 DEF Got
        <4>4. [q \in Reqs |-> IF req[q].op = "poll" /\ req[q].pw # None THEN {req[q].pw} ELSE {}][r] = {} BY <3>5 DEF Got
        <4>5. Promise!Start(r) BY <3>2, <4>1, <4>3, <4>4 DEF Promise!Start
        <4> QED BY <3>4, <4>5 DEF Promise!Next
      <3> QED BY <3>1, <3>6, <3>7
    <2>2. CASE PollConsume(r)
      <3>1. PICK w \in Task :
              /\ req' = [req EXCEPT ![r] = w]
              /\ w.op = "poll" /\ w.pc = "done" /\ w.pw = req[r].row.pw /\ w.seen = req[r].seen
        BY <2>2, AnswerOne DEF PollConsume
      <3>2. /\ db'.flow.state = "consumed" /\ hist'.handed = hist.handed \cup {req[r].row.pw} /\ hist'.granted = hist.granted /\ hist'.pw = hist.pw
        BY <1>0, <2>0, <2>2 DEF PollConsume, UpdateFlow, Answered, Tables, History, Task, FlowRows
      <3>3. req'[r] = w /\ \A q \in Reqs \ {r} : req'[q] = req[q] BY <1>0, <3>1
      <3>4. req[r].op = "poll" /\ req[r].pw = None /\ req[r].row.pw \in hist.granted \ req[r].seen /\ req[r].row.pw # None
        BY <2>0, <2>2 DEF PollConsume, At, RowsRead, Paths, Ops, Counted, Numbers, None
      <3>5. FInv'
        <4>1. \A q \in Reqs : RowsRead(req'[q], hist.granted) BY <3>1, <3>3 DEF FInv, RowsRead
        <4>2. DrawnFresh' BY <2>0, <3>1, <3>2, <3>3 DEF DrawnFresh, Drawn
        <4>3. Counted' /\ FlowFresh' BY <2>0, <3>2, <3>4 DEF Counted, FlowFresh
        <4> QED BY <3>2, <4>1, <4>2, <4>3 DEF FInv
      <3>6. [q \in Reqs |-> req[q].seen]' = [q \in Reqs |-> req[q].seen] BY <3>1, <3>3
      <3>7. Got(req[r]) = {} /\ Got(w) = {req[r].row.pw} BY <3>1, <3>4 DEF Got
      <3>8. [q \in Reqs |-> Got(req'[q])] = [[q \in Reqs |-> Got(req[q])] EXCEPT ![r] = {req[r].row.pw}] BY <3>3, <3>7
      <3>9. [q \in Reqs |-> IF req[q].op = "poll" /\ req[q].pw # None THEN {req[q].pw} ELSE {}]'
              = [[q \in Reqs |-> IF req[q].op = "poll" /\ req[q].pw # None THEN {req[q].pw} ELSE {}] EXCEPT ![r] = {req[r].row.pw}]
        BY <3>8 DEF Got
      <3>10. [q \in Reqs |-> IF req[q].op = "poll" /\ req[q].pw # None THEN {req[q].pw} ELSE {}][r] = {} BY <3>7 DEF Got
      <3>11. [q \in Reqs |-> req[q].seen][r] = req[r].seen OBVIOUS
      <3>12. Promise!Answer(r) BY <3>2, <3>4, <3>6, <3>9, <3>10, <3>11 DEF Promise!Answer
      <3> QED BY <3>5, <3>12 DEF Promise!Next
    <2>3. CASE BeginGrant(r)
      <3>1. PICK w \in Task :
              /\ Came(r, "begin", w) /\ w.seen = {} /\ w.pc \in {"newState", "done"}
              /\ w.pc = "newState" => db.flow.state = "pending" /\ w.row = db.flow
        BY <2>3, BeginOne
      <3>2. UNCHANGED <<db, hist>> BY <2>3 DEF BeginGrant
      <3>3. req'[r] = w /\ req[r] = Idle /\ \A q \in Reqs \ {r} : req'[q] = req[q] BY <1>0, <2>0, <3>1 DEF Came, At, Holds
      <3>4. FInv'
        <4>1. \A q \in Reqs : RowsRead(req'[q], hist.granted) BY <3>1, <3>3 DEF FInv, RowsRead
        <4>2. DrawnFresh' BY <2>0, <3>1, <3>2, <3>3 DEF DrawnFresh, Drawn
        <4> QED BY <2>0, <3>2, <4>1, <4>2 DEF FInv, FlowFresh, Counted
      <3>5. Got(w) = {} /\ Got(req[r]) = {} /\ req[r].seen = {} BY <3>1, <3>3 DEF Got, Idle, Came
      <3>6. UNCHANGED Promise!vars BY <3>1, <3>2, <3>5, QuietPromise DEF Came
      <3> QED BY <3>4, <3>6
    <2>4. CASE BeginGrantUpdate(r)
      <3>1. PICK pc \in Stages, w \in Task : Moved(r, pc, w) /\ Goes(req[r].op, req[r].pc, pc) BY <2>4, Going DEF StepAct
      <3>2. /\ db'.flow.state = "pending" /\ hist'.handed = hist.handed /\ hist'.granted = hist.granted /\ hist'.pw = hist.pw
        BY <1>0, <2>0, <2>4 DEF BeginGrantUpdate, At, RowsRead, UpdateFlow, Tables, History, Task, FlowRows
      <3>3. req'[r] = w /\ \A q \in Reqs \ {r} : req'[q] = req[q] BY <1>0, <3>1 DEF Moved
      <3>4. w.pc = "done" /\ w.seen = req[r].seen /\ w.op = req[r].op /\ req[r].op # "poll"
        BY <2>0, <2>4, <3>1 DEF Moved, Goes, BeginGrantUpdate, At, Paths
      <3>5. FInv'
        <4>1. \A q \in Reqs : RowsRead(req'[q], hist.granted) BY <3>3, <3>4 DEF FInv, RowsRead
        <4>2. DrawnFresh' BY <2>0, <3>2, <3>3, <3>4 DEF DrawnFresh, Drawn
        <4> QED BY <2>0, <3>2, <4>1, <4>2 DEF FInv, FlowFresh, Counted
      <3>6. Got(w) = Got(req[r]) BY <3>4 DEF Got
      <3>7. UNCHANGED Promise!vars BY <3>1, <3>2, <3>4, <3>6, QuietPromise DEF Moved
      <3> QED BY <3>5, <3>7
    <2>5. CASE IssueAppPassword(r)
      <3>1. PICK w \in Task :
              /\ req' = [req EXCEPT ![r] = w] /\ w.pw = hist.pw + 1 /\ w.op = req[r].op /\ w.seen = req[r].seen
              /\ w.pc \in {"tokenRow", "record"}
        BY <2>5, IssueOne
      <3>2. /\ db'.flow = db.flow /\ hist'.handed = hist.handed /\ hist'.granted = hist.granted /\ hist'.pw = hist.pw + 1
        BY <1>0, <2>5 DEF IssueAppPassword, InsertToken, Tables, History
      <3>3. req'[r] = w /\ \A q \in Reqs \ {r} : req'[q] = req[q] BY <1>0, <3>1
      <3>4. req[r].op # "poll" BY <2>0, <2>5 DEF IssueAppPassword, At, Paths
      <3>5. FInv'
        <4>1. \A q \in Reqs : RowsRead(req'[q], hist.granted) BY <3>1, <3>3 DEF FInv, RowsRead
        <4>2. hist.pw \in Nat /\ hist.pw + 1 \notin 1 .. hist.pw /\ 1 .. hist.pw \subseteq 1 .. hist.pw + 1 /\ hist.pw + 1 \in 1 .. hist.pw + 1
          BY <2>0 DEF Numbers
        <4>3. DrawnFresh' BY <2>0, <3>1, <3>2, <3>3, <4>2 DEF DrawnFresh, Counted
        <4>4. Counted' BY <2>0, <3>2, <4>2 DEF Counted
        <4> QED BY <2>0, <3>2, <4>1, <4>3, <4>4 DEF FInv, FlowFresh
      <3>6. Got(w) = Got(req[r]) BY <3>1, <3>4 DEF Got
      <3>7. UNCHANGED Promise!vars BY <3>1, <3>2, <3>6, QuietPromise
      <3> QED BY <3>5, <3>7
    <2>6. CASE Grant(r)
      <3>1. PICK pc \in Stages, w \in Task : Moved(r, pc, w) /\ Goes(req[r].op, req[r].pc, pc) /\ pc = "session"
        <4>1. Step(r, "session") /\ Goes(req[r].op, req[r].pc, "session") BY <2>6 DEF Grant, At, Goes
        <4> QED BY <4>1, StepOne, Names DEF Base
      <3>2. /\ db'.flow.state = "granted" /\ db'.flow.pw = req[r].pw
            /\ hist'.handed = hist.handed /\ hist'.granted = hist.granted \cup {req[r].pw} /\ hist'.pw = hist.pw
        BY <1>0, <2>0, <2>6 DEF Grant, UpdateFlow, Tables, History, Task, FlowRows
      <3>3. req'[r] = w /\ \A q \in Reqs \ {r} : req'[q] = req[q] BY <1>0, <3>1 DEF Moved
      <3>4. w.pc = "session" /\ w.seen = req[r].seen /\ w.op = req[r].op /\ req[r].op # "poll" /\ req[r].pc \in Drawn
        BY <2>0, <2>6, <3>1 DEF Moved, Grant, At, Paths, Drawn
      <3>5. req[r].pw \in 1 .. hist.pw \ hist.granted BY <2>0, <3>4 DEF DrawnFresh
      <3>6. FInv'
        <4>1. \A q \in Reqs : RowsRead(req'[q], hist'.granted) BY <3>2, <3>3, <3>4 DEF FInv, RowsRead
        <4>2. DrawnFresh' BY <2>0, <3>2, <3>3, <3>4 DEF DrawnFresh, Drawn
        <4>3. Counted' /\ FlowFresh' BY <2>0, <3>2, <3>5 DEF Counted, FlowFresh
        <4> QED BY <3>2, <4>1, <4>2, <4>3 DEF FInv
      <3>7. [q \in Reqs |-> req[q].seen]' = [q \in Reqs |-> req[q].seen] BY <3>3, <3>4
      <3>8. \A q \in Reqs : Got(req'[q]) = Got(req[q]) BY <3>3, <3>4 DEF Got
      <3>9. [q \in Reqs |-> IF req[q].op = "poll" /\ req[q].pw # None THEN {req[q].pw} ELSE {}]'
              = [q \in Reqs |-> IF req[q].op = "poll" /\ req[q].pw # None THEN {req[q].pw} ELSE {}]
        BY <3>8 DEF Got
      <3>10. req[r].pw \in Draws \ hist.granted BY <2>0, <3>5, Constants DEF Numbers, Draws
      <3>11. Promise!Grant BY <3>2, <3>7, <3>9, <3>10 DEF Promise!Grant
      <3> QED BY <3>6, <3>11 DEF Promise!Next
    <2>7. CASE HandleGrant(r)
      <3>1. PICK op \in {"grant", "grantApp"}, w \in Task : Came(r, op, w) /\ w.seen = {} /\ w.pc = "lookup" BY <2>7, GrantOne
      <3>2. db'.flow = db.flow /\ hist'.granted = hist.granted /\ hist'.handed = hist.handed /\ hist'.pw = hist.pw
        BY <1>0, <2>7 DEF HandleGrant, Tables, History
      <3>3. req[r] = Idle BY <2>0, <3>1 DEF Came, At, Holds
      <3>4. w.seen = req[r].seen /\ Got(w) = Got(req[r]) BY <3>1, <3>3 DEF Came, Got, Idle
      <3>5. FInv' BY <3>1, <3>2, QuietFlow DEF Came, Drawn
      <3>6. UNCHANGED Promise!vars BY <3>1, <3>2, <3>4, QuietPromise DEF Came
      <3> QED BY <3>5, <3>6
    <2>8. CASE HandleLogin(r)
      <3>1. PICK w \in Task : Came(r, "login", w) /\ w.seen = {} /\ w.pc \in {"session", "done"} BY <2>8, LoginOne
      <3>2. db'.flow = db.flow /\ hist'.granted = hist.granted /\ hist'.handed = hist.handed /\ hist'.pw = hist.pw
        BY <1>0, <2>8 DEF HandleLogin, Tables, History
      <3>3. req[r] = Idle BY <2>0, <3>1 DEF Came, At, Holds
      <3>4. w.seen = req[r].seen /\ Got(w) = Got(req[r]) BY <3>1, <3>3 DEF Came, Got, Idle
      <3>5. FInv' BY <3>1, <3>2, QuietFlow DEF Came, Drawn
      <3>6. UNCHANGED Promise!vars BY <3>1, <3>2, <3>4, QuietPromise DEF Came
      <3> QED BY <3>5, <3>6
    <2>9. CASE HandleLogout(r)
      <3>1. PICK w \in Task : Came(r, "logout", w) /\ w.seen = {} /\ w.pc = "done" BY <2>9, LogoutOne
      <3>2. db'.flow = db.flow /\ hist'.granted = hist.granted /\ hist'.handed = hist.handed /\ hist'.pw = hist.pw
        BY <1>0, <2>9 DEF HandleLogout, Tables, History
      <3>3. req[r] = Idle BY <2>0, <3>1 DEF Came, At, Holds
      <3>4. w.seen = req[r].seen /\ Got(w) = Got(req[r]) BY <3>1, <3>3 DEF Came, Got, Idle
      <3>5. FInv' BY <3>1, <3>2, QuietFlow DEF Came, Drawn
      <3>6. UNCHANGED Promise!vars BY <3>1, <3>2, <3>4, QuietPromise DEF Came
      <3> QED BY <3>5, <3>6
    <2>10. CASE VerifyID(r)
      <3>1. PICK op \in {"visit", "issue"}, w \in Task : Came(r, op, w) /\ w.seen = {} /\ w.pc \in {"visitUser", "done"} BY <2>10, VisitOne
      <3>2. db'.flow = db.flow /\ hist'.granted = hist.granted /\ hist'.handed = hist.handed /\ hist'.pw = hist.pw
        BY <1>0, <2>10 DEF VerifyID, Tables, History
      <3>3. req[r] = Idle BY <2>0, <3>1 DEF Came, At, Holds
      <3>4. w.seen = req[r].seen /\ Got(w) = Got(req[r]) BY <3>1, <3>3 DEF Came, Got, Idle
      <3>5. FInv' BY <3>1, <3>2, QuietFlow DEF Came, Drawn
      <3>6. UNCHANGED Promise!vars BY <3>1, <3>2, <3>4, QuietPromise DEF Came
      <3> QED BY <3>5, <3>6
    <2>11. CASE CachedUID(r)
      <3>1. PICK w \in Task : Came(r, "bearer", w) /\ w.seen = {} /\ w.pc \in {"bearerUser", "fill", "bearerRow"} BY <2>11, BearerOne
      <3>2. db'.flow = db.flow /\ hist'.granted = hist.granted /\ hist'.handed = hist.handed /\ hist'.pw = hist.pw
        BY <1>0, <2>11 DEF CachedUID, Tables, History
      <3>3. req[r] = Idle BY <2>0, <3>1 DEF Came, At, Holds
      <3>4. w.seen = req[r].seen /\ Got(w) = Got(req[r]) BY <3>1, <3>3 DEF Came, Got, Idle
      <3>5. FInv' BY <3>1, <3>2, QuietFlow DEF Came, Drawn
      <3>6. UNCHANGED Promise!vars BY <3>1, <3>2, <3>4, QuietPromise DEF Came
      <3> QED BY <3>5, <3>6
    <2>12. CASE AppPasswordVerify(r)
      <3>1. PICK op \in {"app", "revoke"}, w \in Task : Came(r, op, w) /\ w.seen = {} /\ w.pc \in {"appKey", "done"} BY <2>12, AppOne
      <3>2. db'.flow = db.flow /\ hist'.granted = hist.granted /\ hist'.handed = hist.handed /\ hist'.pw = hist.pw
        BY <1>0, <2>12 DEF AppPasswordVerify, Tables, History
      <3>3. req[r] = Idle BY <2>0, <3>1 DEF Came, At, Holds
      <3>4. w.seen = req[r].seen /\ Got(w) = Got(req[r]) BY <3>1, <3>3 DEF Came, Got, Idle
      <3>5. FInv' BY <3>1, <3>2, QuietFlow DEF Came, Drawn
      <3>6. UNCHANGED Promise!vars BY <3>1, <3>2, <3>4, QuietPromise DEF Came
      <3> QED BY <3>5, <3>6
    <2>13. CASE Mint(r)
      <3>1. PICK w \in Task : Came(r, "mint", w) /\ w.seen = {} /\ w.pc \in {"wopiRow", "minted"} BY <2>13, MintOne
      <3>2. db'.flow = db.flow /\ hist'.granted = hist.granted /\ hist'.handed = hist.handed /\ hist'.pw = hist.pw
        BY <1>0, <2>13 DEF Mint, Tables, History
      <3>3. req[r] = Idle BY <2>0, <3>1 DEF Came, At, Holds
      <3>4. w.seen = req[r].seen /\ Got(w) = Got(req[r]) BY <3>1, <3>3 DEF Came, Got, Idle
      <3>5. FInv' BY <3>1, <3>2, QuietFlow DEF Came, Drawn
      <3>6. UNCHANGED Promise!vars BY <3>1, <3>2, <3>4, QuietPromise DEF Came
      <3> QED BY <3>5, <3>6
    <2>14. CASE Authenticate(r)
      <3>1. PICK w \in Task : Came(r, "callback", w) /\ w.seen = {} /\ w.pc \in {"callUser", "done"} BY <2>14, CallOne
      <3>2. db'.flow = db.flow /\ hist'.granted = hist.granted /\ hist'.handed = hist.handed /\ hist'.pw = hist.pw
        BY <1>0, <2>14 DEF Authenticate, Tables, History
      <3>3. req[r] = Idle BY <2>0, <3>1 DEF Came, At, Holds
      <3>4. w.seen = req[r].seen /\ Got(w) = Got(req[r]) BY <3>1, <3>3 DEF Came, Got, Idle
      <3>5. FInv' BY <3>1, <3>2, QuietFlow DEF Came, Drawn
      <3>6. UNCHANGED Promise!vars BY <3>1, <3>2, <3>4, QuietPromise DEF Came
      <3> QED BY <3>5, <3>6
    <2>15. CASE GCList(r)
      <3>1. PICK w \in Task : Came(r, "gc", w) /\ w.seen = {} /\ w.pc = "gcKeys" BY <2>15, CleanOne
      <3>2. db'.flow = db.flow /\ hist'.granted = hist.granted /\ hist'.handed = hist.handed /\ hist'.pw = hist.pw
        BY <1>0, <2>15 DEF GCList, Tables, History
      <3>3. req[r] = Idle BY <2>0, <3>1 DEF Came, At, Holds
      <3>4. w.seen = req[r].seen /\ Got(w) = Got(req[r]) BY <3>1, <3>3 DEF Came, Got, Idle
      <3>5. FInv' BY <3>1, <3>2, QuietFlow DEF Came, Drawn
      <3>6. UNCHANGED Promise!vars BY <3>1, <3>2, <3>4, QuietPromise DEF Came
      <3> QED BY <3>5, <3>6
    <2>16. CASE UserKeysDeleted(r)
      <3>1. PICK w \in Task : Came(r, "deleteUser", w) /\ w.seen = {} /\ w.pc = "deleteUser" BY <2>16, DeleteOne
      <3>2. db'.flow = db.flow /\ hist'.granted = hist.granted /\ hist'.handed = hist.handed /\ hist'.pw = hist.pw
        BY <1>0, <2>16 DEF UserKeysDeleted, Tables, History
      <3>3. req[r] = Idle BY <2>0, <3>1 DEF Came, At, Holds
      <3>4. w.seen = req[r].seen /\ Got(w) = Got(req[r]) BY <3>1, <3>3 DEF Came, Got, Idle
      <3>5. FInv' BY <3>1, <3>2, QuietFlow DEF Came, Drawn
      <3>6. UNCHANGED Promise!vars BY <3>1, <3>2, <3>4, QuietPromise DEF Came
      <3> QED BY <3>5, <3>6
    <2>17. CASE AttachTokenKey(r)
      <3>1. PICK w \in Task : /\ req' = [req EXCEPT ![r] = w] /\ w.op = req[r].op /\ w.seen = req[r].seen
                              /\ w.pc = "accepted"
        BY <2>17, AttachOne
      <3>2. db'.flow = db.flow /\ hist'.granted = hist.granted /\ hist'.handed = hist.handed /\ hist'.pw = hist.pw
        BY <1>0, <2>17 DEF AttachTokenKey, Tables, History
      <3>3. Got(w) = Got(req[r]) BY <2>0, <2>17, <3>1 DEF AttachTokenKey, At, Paths, Got
      <3>4. FInv' BY <3>1, <3>2, QuietFlow DEF Drawn
      <3>5. UNCHANGED Promise!vars BY <3>1, <3>2, <3>3, QuietPromise
      <3> QED BY <3>4, <3>5
    <2>18. CASE AppUnlock(r)
      <3>1. PICK w \in Task : /\ req' = [req EXCEPT ![r] = w] /\ w.op = req[r].op /\ w.seen = req[r].seen
                              /\ w.pc = (IF req[r].op = "app" THEN "accepted" ELSE "dropRow")
        BY <2>18, UnlockOne
      <3>2. db'.flow = db.flow /\ hist'.granted = hist.granted /\ hist'.handed = hist.handed /\ hist'.pw = hist.pw
        BY <1>0, <2>18 DEF AppUnlock, Tables, History
      <3>3. Got(w) = Got(req[r]) BY <2>0, <2>18, <3>1 DEF AppUnlock, At, Paths, Got
      <3>4. FInv' BY <3>1, <3>2, QuietFlow DEF Drawn
      <3>5. UNCHANGED Promise!vars BY <3>1, <3>2, <3>3, QuietPromise
      <3> QED BY <3>4, <3>5
    <2>19. CASE UnlockForWOPIToken(r)
      <3>1. PICK w \in Task : /\ req' = [req EXCEPT ![r] = w] /\ w.op = req[r].op /\ w.seen = req[r].seen
                              /\ w.pc = "accepted"
        BY <2>19, CallbackOne
      <3>2. db'.flow = db.flow /\ hist'.granted = hist.granted /\ hist'.handed = hist.handed /\ hist'.pw = hist.pw
        BY <1>0, <2>19 DEF UnlockForWOPIToken, Tables, History
      <3>3. Got(w) = Got(req[r]) BY <2>0, <2>19, <3>1 DEF UnlockForWOPIToken, At, Paths, Got
      <3>4. FInv' BY <3>1, <3>2, QuietFlow DEF Drawn
      <3>5. UNCHANGED Promise!vars BY <3>1, <3>2, <3>3, QuietPromise
      <3> QED BY <3>4, <3>5
    <2>20. CASE GrantRead(r)
      <3>1. CASE Step(r, "done")
        <4>1. PICK pc \in Stages, w \in Task : Moved(r, pc, w) /\ Goes(req[r].op, req[r].pc, pc) BY <2>20, <3>1, Going DEF StepAct
        <4>2. db'.flow = db.flow /\ hist'.granted = hist.granted /\ hist'.handed = hist.handed /\ hist'.pw = hist.pw
          BY <1>0, <2>20 DEF GrantRead, Tables, History
        <4>3. pc \notin {"consume", "newState"} /\ (pc \in Drawn => req[r].pc \in Drawn) BY <4>1 DEF Goes, Drawn
        <4>4. w.pc \in Drawn => w.pw = req[r].pw BY <4>1 DEF Moved, Same, Drawn
        <4>5. FInv' BY <4>1, <4>2, <4>3, <4>4, QuietFlow DEF Moved
        <4>6. Got(w) = Got(req[r])
          <5>1. CASE req[r].op # "poll" BY <4>1, <5>1 DEF Moved, Got
          <5>2. CASE req[r].op = "poll"
            <6>1. req[r].pc = "consume" /\ pc = "done" BY <2>0, <4>1, <5>2 DEF Paths, Goes, Ended
            <6>2. req[r].pw = None BY <2>0, <6>1 DEF RowsRead
            <6>3. w.pw = None BY <4>1, <6>1 DEF Moved, Same, Idle
            <6> QED BY <6>2, <6>3 DEF Got
          <5> QED BY <5>1, <5>2
        <4>7. UNCHANGED Promise!vars BY <4>1, <4>2, <4>6, QuietPromise DEF Moved
        <4> QED BY <4>5, <4>7
      <3>2. CASE ~Step(r, "done")
        <4>1. PICK w \in Task : req' = [req EXCEPT ![r] = w] /\ w.op = req[r].op /\ w.seen = req[r].seen /\ w.pw = req[r].pw /\ w.pc = "grantUpdate"
          BY <2>20, <3>2, ReadOne
        <4>2. db'.flow = db.flow /\ hist'.granted = hist.granted /\ hist'.handed = hist.handed /\ hist'.pw = hist.pw
          BY <1>0, <2>20 DEF GrantRead, Tables, History
        <4>3. FInv' BY <2>20, <4>1, <4>2, QuietFlow DEF Drawn, GrantRead, At
        <4>4. UNCHANGED Promise!vars BY <4>1, <4>2, QuietPromise DEF Got
        <4> QED BY <4>3, <4>4
      <3> QED BY <3>1, <3>2
    <2>21. CASE CreateSession(r)
      <3>1. CASE Step(r, "done")
        <4>1. PICK pc \in Stages, w \in Task : Moved(r, pc, w) /\ Goes(req[r].op, req[r].pc, pc) BY <2>21, <3>1, Going DEF StepAct
        <4>2. db'.flow = db.flow /\ hist'.granted = hist.granted /\ hist'.handed = hist.handed /\ hist'.pw = hist.pw
          BY <1>0, <2>21 DEF CreateSession, Tables, History
        <4>3. pc \notin {"consume", "newState"} /\ (pc \in Drawn => req[r].pc \in Drawn) BY <4>1 DEF Goes, Drawn
        <4>4. w.pc \in Drawn => w.pw = req[r].pw BY <4>1 DEF Moved, Same, Drawn
        <4>5. FInv' BY <4>1, <4>2, <4>3, <4>4, QuietFlow DEF Moved
        <4>6. Got(w) = Got(req[r])
          <5>1. CASE req[r].op # "poll" BY <4>1, <5>1 DEF Moved, Got
          <5>2. CASE req[r].op = "poll"
            <6>1. req[r].pc = "consume" /\ pc = "done" BY <2>0, <4>1, <5>2 DEF Paths, Goes, Ended
            <6>2. req[r].pw = None BY <2>0, <6>1 DEF RowsRead
            <6>3. w.pw = None BY <4>1, <6>1 DEF Moved, Same, Idle
            <6> QED BY <6>2, <6>3 DEF Got
          <5> QED BY <5>1, <5>2
        <4>7. UNCHANGED Promise!vars BY <4>1, <4>2, <4>6, QuietPromise DEF Moved
        <4> QED BY <4>5, <4>7
      <3>2. CASE ~Step(r, "done")
        <4>1. PICK w \in Task : req' = [req EXCEPT ![r] = w] /\ w.op = req[r].op /\ w.seen = req[r].seen /\ w.pw = req[r].pw /\ w.pc \in {"seal", "cookie"}
          BY <2>21, <3>2, SessionOne
        <4>2. db'.flow = db.flow /\ hist'.granted = hist.granted /\ hist'.handed = hist.handed /\ hist'.pw = hist.pw
          BY <1>0, <2>21 DEF CreateSession, Tables, History
        <4>3. FInv' BY <2>21, <4>1, <4>2, QuietFlow DEF Drawn, CreateSession, At
        <4>4. UNCHANGED Promise!vars BY <4>1, <4>2, QuietPromise DEF Got
        <4> QED BY <4>3, <4>4
      <3> QED BY <3>1, <3>2
    <2>22. CASE \/ GrantLookup(r) \/ WrapTokenRow(r) \/ WrapKeyForToken(r) \/ GetAppPassword(r) \/ AnswerPassword(r) \/ SetSealedUK(r)
               \/ SealFails(r) \/ SetCookie(r) \/ VisitUser(r) \/ TouchSession(r) \/ TieredFill(r) \/ BearerLookup(r)
               \/ PrincipalForUID(r) \/ RememberUID(r) \/ DeleteByHash(r) \/ OnTokenDeleted(r) \/ WopiWrapRow(r) \/ WrapKeyForWOPIToken(r)
               \/ MintUndo(r) \/ Minted(r) \/ CallbackUser(r) \/ DeleteWOPITokenKeys(r) \/ DeleteExpired(r) \/ PruneWOPITokenKeys(r)
               \/ DeleteUser(r) \/ Fail(r)
      <3>1. PICK pc \in Stages, w \in Task : Moved(r, pc, w) /\ Goes(req[r].op, req[r].pc, pc) BY <2>22, Going DEF StepAct
      <3>2. db'.flow = db.flow /\ hist'.granted = hist.granted /\ hist'.handed = hist.handed /\ hist'.pw = hist.pw
        BY <1>0, <2>22 DEF GrantLookup, WrapTokenRow, WrapKeyForToken, GetAppPassword, AnswerPassword, SetSealedUK, SealFails, SetCookie, VisitUser, TouchSession, TieredFill, BearerLookup, PrincipalForUID, RememberUID, DeleteByHash, OnTokenDeleted, WopiWrapRow, WrapKeyForWOPIToken, MintUndo, Minted, CallbackUser, DeleteWOPITokenKeys, DeleteExpired, PruneWOPITokenKeys, DeleteUser, Fail, Tables, History
      <3>3. pc \notin {"consume", "newState"} /\ (pc \in Drawn => req[r].pc \in Drawn) BY <3>1 DEF Goes, Drawn
      <3>4. w.pc \in Drawn => w.pw = req[r].pw BY <3>1 DEF Moved, Same, Drawn
      <3>5. FInv' BY <3>1, <3>2, <3>3, <3>4, QuietFlow DEF Moved
      <3>6. Got(w) = Got(req[r])
        <4>1. CASE req[r].op # "poll" BY <3>1, <4>1 DEF Moved, Got
        <4>2. CASE req[r].op = "poll"
          <5>1. req[r].pc = "consume" /\ pc = "done" BY <2>0, <3>1, <4>2 DEF Paths, Goes, Ended
          <5>2. req[r].pw = None BY <2>0, <5>1 DEF RowsRead
          <5>3. w.pw = None BY <3>1, <5>1 DEF Moved, Same, Idle
          <5> QED BY <5>2, <5>3 DEF Got
        <4> QED BY <4>1, <4>2
      <3>7. UNCHANGED Promise!vars BY <3>1, <3>2, <3>6, QuietPromise DEF Moved
      <3> QED BY <3>5, <3>7
    <2> QED BY <1>4, <2>1, <2>2, <2>3, <2>4, <2>5, <2>6, <2>7, <2>8, <2>9, <2>10, <2>11, <2>12, <2>13, <2>14, <2>15, <2>16, <2>17, <2>18, <2>19, <2>20, <2>21, <2>22 DEF Request
  <1> QED BY <1>1, <1>2, <1>3, <1>4 DEF Next

LEMMA FlowInit == Init => FInv /\ Promise!Init
  <1> SUFFICES ASSUME Init PROVE FInv /\ Promise!Init OBVIOUS
  <1>1. req = [r \in Reqs |-> Idle] /\ db.flow = NoFlow /\ hist.granted = {} /\ hist.handed = {} BY DEF Init
  <1>2. FInv BY <1>1 DEF FInv, FlowFresh, Counted, DrawnFresh, RowsRead, Drawn, Idle, NoFlow
  <1>3. Promise!Init BY <1>1 DEF Promise!Init, Idle
  <1> QED BY <1>2, <1>3

\* The login flow implements Handout (login/v2.go): a password is handed out only
\* when granted, and never to a poll that starts after it was handed out, for any
\* number of polls, grants and state tokens that overwrite each other's rows.
THEOREM FlowImplementsHandout == Spec => ImplementsHandout
  <1>1. Init => Base /\ FInv /\ Promise!Init BY BaseInit, FlowInit
  <1>2. Base /\ FInv /\ [Next]_vars => Base' /\ FInv' /\ [Promise!Next]_(Promise!vars)
    <2> SUFFICES ASSUME Base, FInv, [Next]_vars PROVE Base' /\ FInv' /\ [Promise!Next]_(Promise!vars) OBVIOUS
    <2>1. Base' BY BaseStep
    <2>2. CASE Next BY <2>1, <2>2, FlowStep
    <2>3. CASE UNCHANGED vars
      BY <2>1, <2>3 DEF vars, FInv, FlowFresh, Counted, DrawnFresh, Promise!vars
    <2> QED BY <2>2, <2>3
  <1> QED BY <1>1, <1>2, PTL DEF Spec, ImplementsHandout, Promise!Spec

-----------------------------------------------------------------------------
(* Every step of a request, in one formula: it comes in, or it goes on and *)
(* keeps what it was when it came.                                         *)

Firsts == {"done", "consume", "newState", "lookup", "session", "visitUser", "bearerUser", "fill", "bearerRow", "appKey", "wopiRow",
           "minted", "callUser", "gcKeys", "deleteUser"}
Arrives(r, w) ==
  /\ req[r] = Idle /\ w.pc \in Firsts /\ w.op \in scene.ops
  /\ w.off = ~(db.exists /\ db.enabled) /\ w.since = hist.stale
  /\ w.op = "bearer" => CachedUID(r)
  /\ w.op \in {"app", "revoke"} => AppPasswordVerify(r)
  /\ w.op = "mint" => Mint(r)
  /\ w.op = "callback" => Authenticate(r)
  /\ w.op = "gc" => GCList(r)
  /\ w.op = "deleteUser" => UserKeysDeleted(r)

Leads(op, a, pc) ==
  \/ Goes(op, a, pc)
  \/ a = "issue" /\ pc \in {"tokenRow", "record"}
  \/ a = "record" /\ pc = "grantUpdate"
  \/ a = "session" /\ pc \in {"seal", "cookie"}
  \/ a = "attach" /\ pc = "accepted"
  \/ a = "appKey" /\ pc = (IF op = "app" THEN "accepted" ELSE "dropRow")
  \/ a = "callKey" /\ pc = "accepted"
Continues(r, w) ==
  /\ w.op = req[r].op /\ Leads(w.op, req[r].pc, w.pc)
  /\ w.pc # "done" => w.off = req[r].off /\ w.since = req[r].since /\ w.node = req[r].node /\ w.list = req[r].list /\ w.at = req[r].at
  /\ w.pc # "done" /\ req[r].pc # "issue" => w.pw = req[r].pw
  /\ w.pc # "done" /\ req[r].pc # "session" => w.sid = req[r].sid
  /\ w.pc # "done" /\ req[r].pc \notin {"attach", "appKey", "callKey"} => w.key = req[r].key

Turn(r, w) == req' = [req EXCEPT ![r] = w] /\ (Arrives(r, w) \/ Continues(r, w))

LEMMA GoingTurn ==
  ASSUME Base, NEW r \in Reqs, StepAct(r)
  PROVE  \E w \in Task : Turn(r, w)
  <1>1. PICK pc \in Stages, w \in Task : Moved(r, pc, w) /\ Goes(req[r].op, req[r].pc, pc) BY Going
  <1>2. Continues(r, w) BY <1>1 DEF Moved, Same, Continues, Leads
  <1> QED BY <1>1, <1>2 DEF Moved, Turn

LEMMA AnyTurn ==
  ASSUME Base, NEW r \in Reqs, Request(r)
  PROVE  \E w \in Task : Turn(r, w)
  <1>0. Holds(req[r]) /\ Paths(req[r].op, req[r].pc) BY DEF Base, Fits
  <1>1. CASE HandlePoll(r)
    <2>1. PICK w \in Task : Came(r, "poll", w) /\ w.pc \in {"consume", "done"} BY <1>1, PollOne
    <2>2. Arrives(r, w) BY <1>0, <1>1, <2>1 DEF Arrives, Came, At, Holds, Firsts
    <2> QED BY <2>1, <2>2 DEF Turn, Came
  <1>2. CASE BeginGrant(r)
    <2>1. PICK w \in Task : Came(r, "begin", w) /\ w.pc \in {"newState", "done"} BY <1>2, BeginOne
    <2>2. Arrives(r, w) BY <1>0, <1>2, <2>1 DEF Arrives, Came, At, Holds, Firsts
    <2> QED BY <2>1, <2>2 DEF Turn, Came
  <1>3. CASE HandleGrant(r)
    <2>1. PICK op \in {"grant", "grantApp"}, w \in Task : Came(r, op, w) /\ w.pc = "lookup" BY <1>3, GrantOne
    <2>2. Arrives(r, w) BY <1>0, <1>3, <2>1 DEF Arrives, Came, At, Holds, Firsts
    <2> QED BY <2>1, <2>2 DEF Turn, Came
  <1>4. CASE HandleLogin(r)
    <2>1. PICK w \in Task : Came(r, "login", w) /\ w.pc \in {"session", "done"} BY <1>4, LoginOne
    <2>2. Arrives(r, w) BY <1>0, <1>4, <2>1 DEF Arrives, Came, At, Holds, Firsts
    <2> QED BY <2>1, <2>2 DEF Turn, Came
  <1>5. CASE HandleLogout(r)
    <2>1. PICK w \in Task : Came(r, "logout", w) /\ w.pc = "done" BY <1>5, LogoutOne
    <2>2. Arrives(r, w) BY <1>0, <1>5, <2>1 DEF Arrives, Came, At, Holds, Firsts
    <2> QED BY <2>1, <2>2 DEF Turn, Came
  <1>6. CASE VerifyID(r)
    <2>1. PICK op \in {"visit", "issue"}, w \in Task : Came(r, op, w) /\ w.pc \in {"visitUser", "done"} BY <1>6, VisitOne
    <2>2. Arrives(r, w) BY <1>0, <1>6, <2>1 DEF Arrives, Came, At, Holds, Firsts
    <2> QED BY <2>1, <2>2 DEF Turn, Came
  <1>7. CASE CachedUID(r)
    <2>1. PICK w \in Task : Came(r, "bearer", w) /\ w.pc \in {"bearerUser", "fill", "bearerRow"} BY <1>7, BearerOne
    <2>2. Arrives(r, w) BY <1>0, <1>7, <2>1 DEF Arrives, Came, At, Holds, Firsts
    <2> QED BY <2>1, <2>2 DEF Turn, Came
  <1>8. CASE AppPasswordVerify(r)
    <2>1. PICK op \in {"app", "revoke"}, w \in Task : Came(r, op, w) /\ w.pc \in {"appKey", "done"} BY <1>8, AppOne
    <2>2. Arrives(r, w) BY <1>0, <1>8, <2>1 DEF Arrives, Came, At, Holds, Firsts
    <2> QED BY <2>1, <2>2 DEF Turn, Came
  <1>9. CASE Mint(r)
    <2>1. PICK w \in Task : Came(r, "mint", w) /\ w.pc \in {"wopiRow", "minted"} BY <1>9, MintOne
    <2>2. Arrives(r, w) BY <1>0, <1>9, <2>1 DEF Arrives, Came, At, Holds, Firsts
    <2> QED BY <2>1, <2>2 DEF Turn, Came
  <1>10. CASE Authenticate(r)
    <2>1. PICK w \in Task : Came(r, "callback", w) /\ w.pc \in {"callUser", "done"} BY <1>10, CallOne
    <2>2. Arrives(r, w) BY <1>0, <1>10, <2>1 DEF Arrives, Came, At, Holds, Firsts
    <2> QED BY <2>1, <2>2 DEF Turn, Came
  <1>11. CASE GCList(r)
    <2>1. PICK w \in Task : Came(r, "gc", w) /\ w.pc = "gcKeys" BY <1>11, CleanOne
    <2>2. Arrives(r, w) BY <1>0, <1>11, <2>1 DEF Arrives, Came, At, Holds, Firsts
    <2> QED BY <2>1, <2>2 DEF Turn, Came
  <1>12. CASE UserKeysDeleted(r)
    <2>1. PICK w \in Task : Came(r, "deleteUser", w) /\ w.pc = "deleteUser" BY <1>12, DeleteOne
    <2>2. Arrives(r, w) BY <1>0, <1>12, <2>1 DEF Arrives, Came, At, Holds, Firsts
    <2> QED BY <2>1, <2>2 DEF Turn, Came
  <1>13. CASE PollConsume(r)
    <2>1. PICK w \in Task : req' = [req EXCEPT ![r] = w] /\ w.op = "poll" /\ w.pc = "done" BY <1>13, AnswerOne DEF PollConsume
    <2>2. req[r].pc = "consume" /\ req[r].op \in Ops BY <1>13 DEF PollConsume, At, Base, Typed, Task
    <2>3. req[r].op = "poll" BY <1>0, <2>2 DEF Paths, Ops
    <2>4. Continues(r, w) BY <2>1, <2>2, <2>3 DEF Continues, Leads, Goes, Ended
    <2> QED BY <2>1, <2>4 DEF Turn
  <1>14. CASE IssueAppPassword(r)
    <2>1. PICK w \in Task : /\ req' = [req EXCEPT ![r] = w] /\ w.pc \in {"tokenRow", "record"}
                            /\ w.op = req[r].op /\ w.off = req[r].off /\ w.since = req[r].since /\ w.node = req[r].node /\ w.list = req[r].list /\ w.at = req[r].at
                            /\ w.sid = req[r].sid /\ w.key = req[r].key
      BY <1>14, IssueOne
    <2>2. Continues(r, w) BY <1>14, <2>1 DEF IssueAppPassword, At, Continues, Leads
    <2> QED BY <2>1, <2>2 DEF Turn
  <1>15. CASE GrantRead(r)
    <2>1. CASE Step(r, "done")
      <3>1. StepAct(r) BY <1>15, <2>1 DEF StepAct
      <3> QED BY <3>1, GoingTurn
    <2>2. CASE ~Step(r, "done")
      <3>1. PICK w \in Task : /\ req' = [req EXCEPT ![r] = w] /\ w.pc = "grantUpdate"
                              /\ w.op = req[r].op /\ w.off = req[r].off /\ w.since = req[r].since /\ w.node = req[r].node /\ w.list = req[r].list /\ w.at = req[r].at
                              /\ w.pw = req[r].pw /\ w.sid = req[r].sid /\ w.key = req[r].key
        BY <1>15, <2>2, ReadOne
      <3>2. Continues(r, w) BY <1>15, <3>1 DEF GrantRead, At, Continues, Leads
      <3> QED BY <3>1, <3>2 DEF Turn
    <2> QED BY <2>1, <2>2
  <1>16. CASE CreateSession(r)
    <2>1. CASE Step(r, "done")
      <3>1. StepAct(r) BY <1>16, <2>1 DEF StepAct
      <3> QED BY <3>1, GoingTurn
    <2>2. CASE ~Step(r, "done")
      <3>1. PICK w \in Task : /\ req' = [req EXCEPT ![r] = w] /\ w.pc \in {"seal", "cookie"}
                              /\ w.op = req[r].op /\ w.off = req[r].off /\ w.since = req[r].since /\ w.node = req[r].node /\ w.list = req[r].list /\ w.at = req[r].at
                              /\ w.pw = req[r].pw /\ w.key = req[r].key
        BY <1>16, <2>2, SessionOne
      <3>2. Continues(r, w) BY <1>16, <3>1 DEF CreateSession, At, Continues, Leads
      <3> QED BY <3>1, <3>2 DEF Turn
    <2> QED BY <2>1, <2>2
  <1>17. CASE AttachTokenKey(r)
    <2>1. PICK w \in Task : /\ req' = [req EXCEPT ![r] = w] /\ w.pc = "accepted"
                            /\ w.op = req[r].op /\ w.off = req[r].off /\ w.since = req[r].since /\ w.node = req[r].node /\ w.list = req[r].list /\ w.at = req[r].at
                            /\ w.pw = req[r].pw /\ w.sid = req[r].sid
      BY <1>17, AttachOne
    <2>2. Continues(r, w) BY <1>17, <2>1 DEF AttachTokenKey, At, Continues, Leads
    <2> QED BY <2>1, <2>2 DEF Turn
  <1>18. CASE AppUnlock(r)
    <2>1. PICK w \in Task : /\ req' = [req EXCEPT ![r] = w] /\ w.pc = (IF req[r].op = "app" THEN "accepted" ELSE "dropRow")
                            /\ w.op = req[r].op /\ w.off = req[r].off /\ w.since = req[r].since /\ w.node = req[r].node /\ w.list = req[r].list /\ w.at = req[r].at
                            /\ w.pw = req[r].pw /\ w.sid = req[r].sid
      BY <1>18, UnlockOne
    <2>2. Continues(r, w) BY <1>18, <2>1 DEF AppUnlock, At, Continues, Leads
    <2> QED BY <2>1, <2>2 DEF Turn
  <1>19. CASE UnlockForWOPIToken(r)
    <2>1. PICK w \in Task : /\ req' = [req EXCEPT ![r] = w] /\ w.pc = "accepted"
                            /\ w.op = req[r].op /\ w.off = req[r].off /\ w.since = req[r].since /\ w.node = req[r].node /\ w.list = req[r].list /\ w.at = req[r].at
                            /\ w.pw = req[r].pw /\ w.sid = req[r].sid
      BY <1>19, CallbackOne
    <2>2. Continues(r, w) BY <1>19, <2>1 DEF UnlockForWOPIToken, At, Continues, Leads
    <2> QED BY <2>1, <2>2 DEF Turn
  <1>20. CASE \/ BeginGrantUpdate(r) \/ GrantLookup(r) \/ WrapTokenRow(r) \/ WrapKeyForToken(r) \/ Grant(r) \/ GetAppPassword(r)
             \/ AnswerPassword(r) \/ SetSealedUK(r) \/ SealFails(r) \/ SetCookie(r) \/ VisitUser(r) \/ TouchSession(r)
             \/ TieredFill(r) \/ BearerLookup(r) \/ PrincipalForUID(r) \/ RememberUID(r) \/ DeleteByHash(r) \/ OnTokenDeleted(r)
             \/ WopiWrapRow(r) \/ WrapKeyForWOPIToken(r) \/ MintUndo(r) \/ Minted(r) \/ CallbackUser(r) \/ DeleteWOPITokenKeys(r)
             \/ DeleteExpired(r) \/ PruneWOPITokenKeys(r) \/ DeleteUser(r) \/ Fail(r)
    BY <1>20, GoingTurn DEF StepAct
  <1> QED BY <1>1, <1>2, <1>3, <1>4, <1>5, <1>6, <1>7, <1>8, <1>9, <1>10, <1>11, <1>12, <1>13, <1>14, <1>15, <1>16, <1>17, <1>18, <1>19, <1>20 DEF Request

\* Which statement a request executes is known from where it stands.
Does(r) ==
  /\ At(r, "issue") => IssueAppPassword(r)
  /\ At(r, "tokenRow") => WrapTokenRow(r)
  /\ At(r, "wrap") => WrapKeyForToken(r)
  /\ At(r, "record") => GrantRead(r) \/ AnswerPassword(r)
  /\ At(r, "grantUpdate") => Grant(r)
  /\ At(r, "session") => CreateSession(r)
  /\ At(r, "seal") => SetSealedUK(r) \/ SealFails(r)
  /\ At(r, "cookie") => SetCookie(r)
  /\ At(r, "visitUser") => VisitUser(r)
  /\ At(r, "bearerRow") => BearerLookup(r)
  /\ req[r].pc \in {"bearerUser", "bearerMiss"} => PrincipalForUID(r)
  /\ At(r, "appKey") => AppUnlock(r)
  /\ At(r, "dropRow") => DeleteByHash(r)
  /\ At(r, "wopiRow") => WopiWrapRow(r)
  /\ At(r, "wopiWrap") => WrapKeyForWOPIToken(r)
  /\ At(r, "callUser") => CallbackUser(r)
  /\ At(r, "callKey") => UnlockForWOPIToken(r)

LEMMA Doing ==
  ASSUME NEW r \in Reqs, Request(r)
  PROVE  Fail(r) \/ Does(r)
  <1>1. CASE HandlePoll(r) BY <1>1 DEF HandlePoll, At, Does, Enter
  <1>2. CASE PollConsume(r) BY <1>2 DEF PollConsume, At, Does
  <1>3. CASE BeginGrant(r) BY <1>3 DEF BeginGrant, At, Does, Enter
  <1>4. CASE BeginGrantUpdate(r) BY <1>4 DEF BeginGrantUpdate, At, Does
  <1>5. CASE HandleGrant(r) BY <1>5 DEF HandleGrant, At, Does, Enter
  <1>6. CASE GrantLookup(r) BY <1>6 DEF GrantLookup, At, Does
  <1>7. CASE IssueAppPassword(r) BY <1>7 DEF IssueAppPassword, At, Does
  <1>8. CASE WrapTokenRow(r) BY <1>8 DEF WrapTokenRow, At, Does
  <1>9. CASE WrapKeyForToken(r) BY <1>9 DEF WrapKeyForToken, At, Does
  <1>10. CASE GrantRead(r) BY <1>10 DEF GrantRead, At, Does
  <1>11. CASE Grant(r) BY <1>11 DEF Grant, At, Does
  <1>12. CASE GetAppPassword(r) BY <1>12 DEF GetAppPassword, At, Does
  <1>13. CASE AnswerPassword(r) BY <1>13 DEF AnswerPassword, At, Does
  <1>14. CASE HandleLogin(r) BY <1>14 DEF HandleLogin, At, Does, Enter
  <1>15. CASE CreateSession(r) BY <1>15 DEF CreateSession, At, Does
  <1>16. CASE SetSealedUK(r) BY <1>16 DEF SetSealedUK, At, Does
  <1>17. CASE SealFails(r) BY <1>17 DEF SealFails, At, Does
  <1>18. CASE SetCookie(r) BY <1>18 DEF SetCookie, At, Does
  <1>19. CASE HandleLogout(r) BY <1>19 DEF HandleLogout, At, Does, Enter
  <1>20. CASE VerifyID(r) BY <1>20 DEF VerifyID, At, Does, Enter
  <1>21. CASE VisitUser(r) BY <1>21 DEF VisitUser, At, Does
  <1>22. CASE TouchSession(r) BY <1>22 DEF TouchSession, At, Does
  <1>23. CASE CachedUID(r) BY <1>23 DEF CachedUID, At, Does, Enter
  <1>24. CASE TieredFill(r) BY <1>24 DEF TieredFill, At, Does
  <1>25. CASE BearerLookup(r) BY <1>25 DEF BearerLookup, At, Does
  <1>26. CASE PrincipalForUID(r) BY <1>26 DEF PrincipalForUID, At, Does
  <1>27. CASE RememberUID(r) BY <1>27 DEF RememberUID, At, Does
  <1>28. CASE AttachTokenKey(r) BY <1>28 DEF AttachTokenKey, At, Does
  <1>29. CASE AppPasswordVerify(r) BY <1>29 DEF AppPasswordVerify, At, Does, Enter
  <1>30. CASE AppUnlock(r) BY <1>30 DEF AppUnlock, At, Does
  <1>31. CASE DeleteByHash(r) BY <1>31 DEF DeleteByHash, At, Does
  <1>32. CASE OnTokenDeleted(r) BY <1>32 DEF OnTokenDeleted, At, Does
  <1>33. CASE Mint(r) BY <1>33 DEF Mint, At, Does, Enter
  <1>34. CASE WopiWrapRow(r) BY <1>34 DEF WopiWrapRow, At, Does
  <1>35. CASE WrapKeyForWOPIToken(r) BY <1>35 DEF WrapKeyForWOPIToken, At, Does
  <1>36. CASE MintUndo(r) BY <1>36 DEF MintUndo, At, Does
  <1>37. CASE Minted(r) BY <1>37 DEF Minted, At, Does
  <1>38. CASE Authenticate(r) BY <1>38 DEF Authenticate, At, Does, Enter
  <1>39. CASE CallbackUser(r) BY <1>39 DEF CallbackUser, At, Does
  <1>40. CASE UnlockForWOPIToken(r) BY <1>40 DEF UnlockForWOPIToken, At, Does
  <1>41. CASE GCList(r) BY <1>41 DEF GCList, At, Does, Enter
  <1>42. CASE DeleteWOPITokenKeys(r) BY <1>42 DEF DeleteWOPITokenKeys, At, Does
  <1>43. CASE DeleteExpired(r) BY <1>43 DEF DeleteExpired, At, Does
  <1>44. CASE PruneWOPITokenKeys(r) BY <1>44 DEF PruneWOPITokenKeys, At, Does
  <1>45. CASE UserKeysDeleted(r) BY <1>45 DEF UserKeysDeleted, At, Does, Enter
  <1>46. CASE DeleteUser(r) BY <1>46 DEF DeleteUser, At, Does
  <1> QED BY <1>1, <1>2, <1>3, <1>4, <1>5, <1>6, <1>7, <1>8, <1>9, <1>10, <1>11, <1>12, <1>13, <1>14, <1>15, <1>16, <1>17, <1>18, <1>19, <1>20, <1>21, <1>22, <1>23, <1>24, <1>25, <1>26, <1>27, <1>28, <1>29, <1>30, <1>31, <1>32, <1>33, <1>34, <1>35, <1>36, <1>37, <1>38, <1>39, <1>40, <1>41, <1>42, <1>43, <1>44, <1>45, <1>46 DEF Request

\* After a step to "done" there is nothing left to do.
LEMMA Stopped ==
  ASSUME Base, NEW r \in Reqs, Step(r, "done")
  PROVE  req'[r].pc = "done"
  <1>1. req \in [Reqs -> Task] BY DEF Base, Typed
  <1>2. [Idle EXCEPT !.pc = "done", !.op = req[r].op, !.seen = req[r].seen].pc = "done" BY DEF Idle
  <1> QED BY <1>1, <1>2 DEF Step

\* Only a reader that found the account enabled goes on.
LEMMA Checked ==
  ASSUME Base, NEW r \in Reqs, VisitUser(r) \/ PrincipalForUID(r) \/ CallbackUser(r), req'[r].pc # "done"
  PROVE  db.exists /\ db.enabled
  BY Stopped DEF VisitUser, PrincipalForUID, CallbackUser

-----------------------------------------------------------------------------
(* Who logged out stays out: a cookie carries a session id that was drawn, *)
(* and an id is drawn once.                                                *)

OutInv ==
  /\ hist.out \subseteq hist.cookies /\ hist.cookies \subseteq 1 .. hist.sid
  /\ \A r \in Reqs : req[r].pc \in {"seal", "cookie"} => req[r].sid \in 1 .. hist.sid
  /\ LoggedOutStaysOut

LEMMA QuietOut ==
  ASSUME Base, OutInv, NEW r \in Reqs, NEW w \in Task, Turn(r, w), ~At(r, "session") \/ w.pc = "done",
         DOMAIN db'.sess \subseteq DOMAIN db.sess, hist'.out = hist.out, hist'.cookies = hist.cookies, hist'.sid = hist.sid
  PROVE  OutInv'
  <1>1. req \in [Reqs -> Task] BY DEF Base, Typed
  <1>2. req'[r] = w /\ \A q \in Reqs \ {r} : req'[q] = req[q] BY <1>1 DEF Turn
  <1>3. w.pc \in {"seal", "cookie"} => req[r].pc = "seal" /\ w.sid = req[r].sid
    BY DEF Turn, Arrives, Continues, Leads, Goes, Firsts, At
  <1> QED BY <1>2, <1>3 DEF OutInv, LoggedOutStaysOut

LEMMA OutStep ==
  ASSUME Base, OutInv, Next
  PROVE  OutInv'
  <1>0. db \in Tables /\ hist \in History /\ req \in [Reqs -> Task] /\ db.sess \in Partials(Session) BY DEF Base, Typed, Tables
  <1>1. CASE HandleInit \/ PruneStaleKeys \/ Evict \/ Tick
    <2>1. db'.sess = db.sess /\ req' = req /\ hist'.out = hist.out /\ hist'.cookies = hist.cookies /\ hist'.sid = hist.sid
      BY <1>0, <1>1 DEF HandleInit, UpdateFlow, PruneStaleKeys, Evict, Tick, Tables, History
    <2> QED BY <2>1 DEF OutInv, LoggedOutStaysOut
  <1>2. CASE SetEnabled
    <2>1. db'.sess = db.sess /\ hist' = hist /\ \A q \in Reqs : req'[q].pc = req[q].pc /\ req'[q].sid = req[q].sid
      BY <1>0, <1>2 DEF SetEnabled, Tables, Task
    <2> QED BY <2>1 DEF OutInv, LoggedOutStaysOut
  <1>3. ASSUME NEW r \in Reqs, Request(r) PROVE OutInv'
    <2>0. PICK w \in Task : Turn(r, w) BY <1>3, AnyTurn
    <2>00. req'[r] = w /\ \A q \in Reqs \ {r} : req'[q] = req[q] BY <1>0, <2>0 DEF Turn
    <2>000. hist.sid \in Nat BY <1>0 DEF History, Numbers
    <2>1. CASE CreateSession(r)
      <3>1. CASE db.exists
        <4>1. PICK v \in Session : db' = [db EXCEPT !.sess = Put(db.sess, hist.sid + 1, v)]
          <5>1. [exp |-> now + SessionTTL, sealed |-> FALSE] \in Session BY Constants DEF Session, Base, Typed
          <5> QED BY <3>1, <5>1, <2>1 DEF CreateSession
        <4>2. hist.sid + 1 \in Draws BY <2>000, <2>1, Constants DEF CreateSession, Draws
        <4>3. db'.sess = Put(db.sess, hist.sid + 1, v) BY <1>0, <4>1 DEF Tables
        <4>4. DOMAIN Put(db.sess, hist.sid + 1, v) = DOMAIN db.sess \cup {hist.sid + 1} BY DEF Put
        <4>5. DOMAIN db'.sess = DOMAIN db.sess \cup {hist.sid + 1} BY <4>3, <4>4
        <4>6. hist'.out = hist.out /\ hist'.cookies = hist.cookies /\ hist'.sid = hist.sid + 1
          BY <1>0, <3>1, <2>1 DEF CreateSession, History
        <4>7. w.pc \in {"seal", "cookie"} => w.sid = hist.sid + 1
          <5>1. CASE Step(r, "done") BY <2>00, <5>1, Stopped
          <5>2. CASE ~Step(r, "done")
            <6>1. PICK u \in Task : req' = [req EXCEPT ![r] = u] /\ u.sid = hist.sid + 1 BY <5>2, <2>1, SessionOne
            <6> QED BY <1>0, <2>00, <6>1
          <5> QED BY <5>1, <5>2
        <4>8. 1 .. hist.sid \subseteq 1 .. hist.sid + 1 /\ hist.sid + 1 \in 1 .. hist.sid + 1 /\ hist.sid + 1 \notin 1 .. hist.sid BY <2>000
        <4> QED BY <2>00, <4>5, <4>6, <4>7, <4>8 DEF OutInv, LoggedOutStaysOut
      <3>2. CASE ~db.exists
        <4>1. Step(r, "done") /\ db' = db /\ hist' = hist BY <3>2, <2>1 DEF CreateSession
        <4>2. w.pc = "done" BY <2>00, <4>1, Stopped
        <4> QED BY <2>0, <4>1, <4>2, QuietOut
      <3> QED BY <3>1, <3>2
    <2>2. CASE SetSealedUK(r)
      <3>1. DOMAIN db'.sess = DOMAIN db.sess BY <2>2, SealRow
      <3>2. hist' = hist /\ ~At(r, "session") BY <2>2 DEF SetSealedUK, At
      <3> QED BY <2>0, <3>1, <3>2, QuietOut
    <2>3. CASE TouchSession(r)
      <3>1. DOMAIN db'.sess = DOMAIN db.sess BY <2>3, TouchRow
      <3>2. hist' = hist /\ ~At(r, "session") BY <2>3 DEF TouchSession, At
      <3> QED BY <2>0, <3>1, <3>2, QuietOut
    <2>4. CASE SealFails(r)
      <3>1. db' = db \/ db'.sess = Drop(db.sess, req[r].sid) BY <1>0, <2>4 DEF SealFails, Tables
      <3>2. DOMAIN Drop(db.sess, req[r].sid) = DOMAIN db.sess \ {req[r].sid} BY DEF Drop
      <3>3. DOMAIN db'.sess \subseteq DOMAIN db.sess BY <3>1, <3>2
      <3>4. hist' = hist /\ ~At(r, "session") BY <2>4 DEF SealFails, At
      <3> QED BY <2>0, <3>4, <3>3, QuietOut
    <2>5. CASE SetCookie(r)
      <3>1. /\ db' = db /\ hist'.out = hist.out /\ hist'.cookies = hist.cookies \cup {req[r].sid} /\ hist'.sid = hist.sid
            /\ req[r].pc = "cookie"
        BY <1>0, <2>5 DEF SetCookie, At, History
      <3>2. w.pc = "done" BY <2>00, <2>5, Stopped DEF SetCookie
      <3> QED BY <2>00, <3>1, <3>2 DEF OutInv, LoggedOutStaysOut
    <2>6. CASE HandleLogout(r)
      <3>1. PICK sid \in hist.cookies : db' = [db EXCEPT !.sess = Drop(@, sid)] /\ hist' = [hist EXCEPT !.out = @ \cup {sid}]
        BY <2>6 DEF HandleLogout
      <3>2. db'.sess = Drop(db.sess, sid) BY <1>0, <3>1 DEF Tables
      <3>3. DOMAIN Drop(db.sess, sid) = DOMAIN db.sess \ {sid} BY DEF Drop
      <3>4. DOMAIN db'.sess = DOMAIN db.sess \ {sid} BY <3>2, <3>3
      <3>5. hist'.out = hist.out \cup {sid} /\ hist'.cookies = hist.cookies /\ hist'.sid = hist.sid BY <1>0, <3>1 DEF History
      <3>6. PICK u \in Task : Came(r, "logout", u) /\ u.pc = "done" BY <2>6, LogoutOne
      <3>7. w.pc = "done" BY <1>0, <2>00, <3>6 DEF Came
      <3> QED BY <2>00, <3>4, <3>5, <3>7 DEF OutInv, LoggedOutStaysOut
    <2>7. CASE DeleteUser(r)
      <3>1. db'.sess = <<>> BY <1>0, <2>7 DEF DeleteUser, Tables
      <3>2. hist' = hist /\ ~At(r, "session") BY <2>7 DEF DeleteUser, At
      <3> QED BY <2>0, <3>1, <3>2, QuietOut
    <2>8. CASE Fail(r)
      <3>1. w.pc = "done" BY <2>00, <2>8, Stopped DEF Fail
      <3>2. db' = db /\ hist' = hist BY <2>8 DEF Fail
      <3> QED BY <2>0, <3>1, <3>2, QuietOut
    <2>9. CASE \/ HandlePoll(r) \/ PollConsume(r) \/ BeginGrant(r) \/ BeginGrantUpdate(r) \/ HandleGrant(r) \/ GrantLookup(r)
              \/ IssueAppPassword(r) \/ WrapTokenRow(r) \/ WrapKeyForToken(r) \/ GrantRead(r) \/ Grant(r) \/ GetAppPassword(r)
              \/ AnswerPassword(r) \/ HandleLogin(r) \/ VerifyID(r) \/ VisitUser(r) \/ CachedUID(r) \/ TieredFill(r)
              \/ BearerLookup(r) \/ PrincipalForUID(r) \/ RememberUID(r) \/ AttachTokenKey(r) \/ AppPasswordVerify(r) \/ AppUnlock(r)
              \/ DeleteByHash(r) \/ OnTokenDeleted(r) \/ Mint(r) \/ WopiWrapRow(r) \/ WrapKeyForWOPIToken(r) \/ MintUndo(r)
              \/ Minted(r) \/ Authenticate(r) \/ CallbackUser(r) \/ UnlockForWOPIToken(r) \/ GCList(r) \/ DeleteWOPITokenKeys(r)
              \/ DeleteExpired(r) \/ PruneWOPITokenKeys(r) \/ UserKeysDeleted(r)
      <3>1. db'.sess = db.sess /\ hist'.out = hist.out /\ hist'.cookies = hist.cookies /\ hist'.sid = hist.sid
        BY <1>0, <2>9 DEF HandlePoll, PollConsume, BeginGrant, BeginGrantUpdate, HandleGrant, GrantLookup, IssueAppPassword, WrapTokenRow, WrapKeyForToken, GrantRead, Grant, GetAppPassword, AnswerPassword, HandleLogin, VerifyID, VisitUser, CachedUID, TieredFill, BearerLookup, PrincipalForUID, RememberUID, AttachTokenKey, AppPasswordVerify, AppUnlock, DeleteByHash, OnTokenDeleted, Mint, WopiWrapRow, WrapKeyForWOPIToken, MintUndo, Minted, Authenticate, CallbackUser, UnlockForWOPIToken, GCList, DeleteWOPITokenKeys, DeleteExpired, PruneWOPITokenKeys, UserKeysDeleted, UpdateFlow, InsertToken, Answered, Tables, History
      <3>2. ~At(r, "session")
        BY <2>9 DEF HandlePoll, PollConsume, BeginGrant, BeginGrantUpdate, HandleGrant, GrantLookup, IssueAppPassword, WrapTokenRow, WrapKeyForToken, GrantRead, Grant, GetAppPassword, AnswerPassword, HandleLogin, VerifyID, VisitUser, CachedUID, TieredFill, BearerLookup, PrincipalForUID, RememberUID, AttachTokenKey, AppPasswordVerify, AppUnlock, DeleteByHash, OnTokenDeleted, Mint, WopiWrapRow, WrapKeyForWOPIToken, MintUndo, Minted, Authenticate, CallbackUser, UnlockForWOPIToken, GCList, DeleteWOPITokenKeys, DeleteExpired, PruneWOPITokenKeys, UserKeysDeleted, At, Enter
      <3> QED BY <2>0, <3>1, <3>2, QuietOut
    <2> QED BY <1>3, <2>1, <2>2, <2>3, <2>4, <2>5, <2>6, <2>7, <2>8, <2>9 DEF Request
  <1> QED BY <1>1, <1>2, <1>3 DEF Next

-----------------------------------------------------------------------------
(* Who was disabled is refused: a request that came in while the account   *)
(* was off finds it off when it reads the account, unless it was switched  *)
(* on in between.                                                          *)

Asked == {"touch", "rememberL1", "rememberL2", "attach", "callKey"}
OffOne(v) ==
  /\ v.pc \notin Ended /\ v.off => ~(db.exists /\ db.enabled)
  /\ v.pc \in Asked => ~v.off
  /\ v.pc = "accepted" /\ v.op \in {"bearer", "visit", "callback", "issue"} => ~v.off
OffInv == \A r \in Reqs : OffOne(req[r])

\* No request switches the account on.
LEMMA AccountKept ==
  ASSUME Base, NEW r \in Reqs, Request(r)
  PROVE  (db'.exists => db.exists) /\ db'.enabled = db.enabled
  <1>0. db \in Tables BY DEF Base, Typed
  <1>1. CASE DeleteUser(r) BY <1>0, <1>1 DEF DeleteUser, Tables
  <1>2. CASE HandleLogout(r) BY <1>0, <1>2 DEF HandleLogout, Tables
  <1>3. CASE \/ HandlePoll(r) \/ PollConsume(r) \/ BeginGrant(r) \/ BeginGrantUpdate(r) \/ HandleGrant(r) \/ GrantLookup(r)
             \/ IssueAppPassword(r) \/ WrapTokenRow(r) \/ WrapKeyForToken(r) \/ GrantRead(r) \/ Grant(r) \/ GetAppPassword(r)
             \/ AnswerPassword(r) \/ HandleLogin(r) \/ CreateSession(r) \/ SetSealedUK(r) \/ SealFails(r) \/ SetCookie(r)
             \/ VerifyID(r) \/ VisitUser(r) \/ TouchSession(r) \/ CachedUID(r) \/ TieredFill(r) \/ BearerLookup(r)
             \/ PrincipalForUID(r) \/ RememberUID(r) \/ AttachTokenKey(r) \/ AppPasswordVerify(r) \/ AppUnlock(r) \/ DeleteByHash(r)
             \/ OnTokenDeleted(r) \/ Mint(r) \/ WopiWrapRow(r) \/ WrapKeyForWOPIToken(r) \/ MintUndo(r) \/ Minted(r)
             \/ Authenticate(r) \/ CallbackUser(r) \/ UnlockForWOPIToken(r) \/ GCList(r) \/ DeleteWOPITokenKeys(r) \/ DeleteExpired(r)
             \/ PruneWOPITokenKeys(r) \/ UserKeysDeleted(r) \/ Fail(r)
    BY <1>0, <1>3 DEF HandlePoll, PollConsume, BeginGrant, BeginGrantUpdate, HandleGrant, GrantLookup, IssueAppPassword, WrapTokenRow, WrapKeyForToken, GrantRead, Grant, GetAppPassword, AnswerPassword, HandleLogin, CreateSession, SetSealedUK, SealFails, SetCookie, VerifyID, VisitUser, TouchSession, CachedUID, TieredFill, BearerLookup, PrincipalForUID, RememberUID, AttachTokenKey, AppPasswordVerify, AppUnlock, DeleteByHash, OnTokenDeleted, Mint, WopiWrapRow, WrapKeyForWOPIToken, MintUndo, Minted, Authenticate, CallbackUser, UnlockForWOPIToken, GCList, DeleteWOPITokenKeys, DeleteExpired, PruneWOPITokenKeys, UserKeysDeleted, Fail, UpdateFlow, InsertToken, Tables
  <1> QED BY <1>1, <1>2, <1>3 DEF Request

LEMMA OffStep ==
  ASSUME Base, OffInv, Next
  PROVE  OffInv'
  <1>0. db \in Tables /\ req \in [Reqs -> Task] /\ Fits BY DEF Base, Typed
  <1>1. CASE HandleInit \/ PruneStaleKeys \/ Evict \/ Tick
    <2>1. db'.exists = db.exists /\ db'.enabled = db.enabled /\ req' = req
      BY <1>0, <1>1 DEF HandleInit, UpdateFlow, PruneStaleKeys, Evict, Tick, Tables
    <2> QED BY <2>1 DEF OffInv, OffOne
  <1>2. CASE SetEnabled
    <2>1. db'.enabled = ~db.enabled /\ db.enabled \in BOOLEAN BY <1>0, <1>2 DEF SetEnabled, Tables
    <2>2. ASSUME NEW q \in Reqs
          PROVE  /\ req'[q].op = req[q].op /\ req'[q].pc = req[q].pc
                 /\ req'[q].off = (IF ~db.enabled /\ req[q].pc \notin Ended THEN FALSE ELSE req[q].off)
      BY <1>0, <1>2 DEF SetEnabled, Task
    <2>3. ASSUME NEW q \in Reqs PROVE OffOne(req[q])'
      BY <2>1, <2>2 DEF OffInv, OffOne
    <2> QED BY <2>3 DEF OffInv
  <1>3. ASSUME NEW r \in Reqs, Request(r) PROVE OffInv'
    <2>0. PICK w \in Task : Turn(r, w) BY <1>3, AnyTurn
    <2>1. req'[r] = w /\ \A q \in Reqs \ {r} : req'[q] = req[q] BY <1>0, <2>0 DEF Turn
    <2>2. (db'.exists => db.exists) /\ db'.enabled = db.enabled BY <1>0, <1>3, AccountKept
    <2>3. OffOne(req[r]) /\ Paths(req[r].op, req[r].pc) /\ req[r].op \in Ops BY <1>0 DEF OffInv, Fits, Task
    <2>4. OffOne(w)
      <3>1. CASE Arrives(r, w) BY <3>1 DEF Arrives, Firsts, OffOne, Asked, Ended
      <3>2. CASE Continues(r, w) /\ w.pc = "done" BY <3>2 DEF OffOne, Asked, Ended
      <3>3. CASE Continues(r, w) /\ w.pc # "done"
        <4>1. Does(r) BY <1>3, <2>1, <3>3, Doing, Stopped DEF Fail
        <4>2. w.off = req[r].off /\ w.op = req[r].op /\ Leads(req[r].op, req[r].pc, w.pc) BY <3>3 DEF Continues
        <4>3. req[r].pc \in {"visitUser", "bearerMiss", "bearerUser", "callUser"} => db.exists /\ db.enabled
          BY <2>1, <3>3, <4>1, Checked DEF Does, At
        <4>4. CASE w.pc \in Asked
          BY <2>3, <4>2, <4>3, <4>4 DEF OffOne, Asked, Leads, Goes, Ended
        <4>5. CASE w.pc = "accepted"
          <5>1. req[r].pc \in {"touch", "attach", "callKey"} \/ w.op = "app"
            BY <2>3, <4>2, <4>5 DEF Leads, Goes
          <5> QED BY <2>3, <4>2, <4>5, <5>1 DEF OffOne, Asked, Ended
        <4>6. CASE w.pc \notin Asked \cup Ended
          <5>1. req[r].pc \notin Ended \/ (req[r].pc = "accepted" /\ req[r].op = "issue")
            BY <4>2, <4>6 DEF Leads, Goes, Ended
          <5> QED BY <2>3, <4>2, <4>6, <5>1 DEF OffOne, Ended
        <4>7. w.pc # "idle" BY <4>2 DEF Leads, Goes
        <4> QED BY <3>3, <4>4, <4>5, <4>6, <4>7 DEF Ended
      <3> QED BY <2>0, <3>1, <3>2, <3>3 DEF Turn
    <2>5. ASSUME NEW q \in Reqs PROVE OffOne(req[q])'
      <3>1. OffOne(req'[q]) BY <2>1, <2>4 DEF OffInv
      <3> QED BY <2>2, <3>1 DEF OffOne
    <2> QED BY <2>5 DEF OffInv
  <1> QED BY <1>1, <1>2, <1>3 DEF Next

-----------------------------------------------------------------------------
(* A revoked token dies: the age of what a cache entry says, and the time  *)
(* it has left, never exceed the lifetimes together.                       *)

\* A scene that presents the token has issued it, and issues it once.
StaleInv == "bearer" \in scene.ops => hist.pw >= 1 /\ (Tok \in db.apps => hist.stale = 0)
AgeInv ==
  /\ cache.l2 > 0 => cache.l2 + hist.stale <= TokenTTL
  /\ \A n \in Nodes : cache.l1[n] > 0 => cache.l1[n] + hist.stale + 1 <= TokenTTL + FillTTL
BearerOk(v) ==
  v.op = "bearer" =>
    /\ "bearer" \in scene.ops
    /\ v.pc \notin {"done", "accepted"} => v.since = hist.stale
    /\ v.pc = "fill" => v.since + 1 <= TokenTTL
    /\ v.pc \in {"bearerMiss", "rememberL1", "rememberL2"} => v.since = 0
    /\ v.pc \in {"bearerUser", "attach", "accepted"} => v.since + 2 <= TokenTTL + FillTTL
BearerInv == StaleInv /\ AgeInv /\ \A r \in Reqs : BearerOk(req[r])

\* No request lets time pass.
LEMMA StaleKept ==
  ASSUME Base, NEW r \in Reqs, Request(r)
  PROVE  hist'.stale = hist.stale /\ scene' = scene
  <1>0. hist \in History BY DEF Base, Typed
  <1>1. CASE HandleLogout(r) BY <1>0, <1>1 DEF HandleLogout, History
  <1>2. CASE \/ HandlePoll(r) \/ PollConsume(r) \/ BeginGrant(r) \/ BeginGrantUpdate(r) \/ HandleGrant(r) \/ GrantLookup(r)
             \/ IssueAppPassword(r) \/ WrapTokenRow(r) \/ WrapKeyForToken(r) \/ GrantRead(r) \/ Grant(r) \/ GetAppPassword(r)
             \/ AnswerPassword(r) \/ HandleLogin(r) \/ CreateSession(r) \/ SetSealedUK(r) \/ SealFails(r) \/ SetCookie(r)
             \/ VerifyID(r) \/ VisitUser(r) \/ TouchSession(r) \/ CachedUID(r) \/ TieredFill(r) \/ BearerLookup(r)
             \/ PrincipalForUID(r) \/ RememberUID(r) \/ AttachTokenKey(r) \/ AppPasswordVerify(r) \/ AppUnlock(r) \/ DeleteByHash(r)
             \/ OnTokenDeleted(r) \/ Mint(r) \/ WopiWrapRow(r) \/ WrapKeyForWOPIToken(r) \/ MintUndo(r) \/ Minted(r)
             \/ Authenticate(r) \/ CallbackUser(r) \/ UnlockForWOPIToken(r) \/ GCList(r) \/ DeleteWOPITokenKeys(r) \/ DeleteExpired(r)
             \/ PruneWOPITokenKeys(r) \/ UserKeysDeleted(r) \/ DeleteUser(r) \/ Fail(r)
    BY <1>0, <1>2 DEF HandlePoll, PollConsume, BeginGrant, BeginGrantUpdate, HandleGrant, GrantLookup, IssueAppPassword, WrapTokenRow, WrapKeyForToken, GrantRead, Grant, GetAppPassword, AnswerPassword, HandleLogin, CreateSession, SetSealedUK, SealFails, SetCookie, VerifyID, VisitUser, TouchSession, CachedUID, TieredFill, BearerLookup, PrincipalForUID, RememberUID, AttachTokenKey, AppPasswordVerify, AppUnlock, DeleteByHash, OnTokenDeleted, Mint, WopiWrapRow, WrapKeyForWOPIToken, MintUndo, Minted, Authenticate, CallbackUser, UnlockForWOPIToken, GCList, DeleteWOPITokenKeys, DeleteExpired, PruneWOPITokenKeys, UserKeysDeleted, DeleteUser, Fail, Answered, History
  <1> QED BY <1>1, <1>2 DEF Request

LEMMA StaleStep ==
  ASSUME Base, StaleInv, Next
  PROVE  StaleInv'
  <1>0. db \in Tables /\ hist \in History /\ hist.pw \in Nat BY DEF Base, Typed, History, Numbers
  <1>1. CASE HandleInit \/ SetEnabled \/ PruneStaleKeys \/ Evict \/ Tick
    <2>1. db'.apps = db.apps /\ hist'.pw = hist.pw /\ scene' = scene /\ (hist'.stale = hist.stale \/ (Tok \in db.apps => hist'.stale = 0))
      BY <1>0, <1>1 DEF HandleInit, UpdateFlow, SetEnabled, PruneStaleKeys, Evict, Tick, Tables, History
    <2> QED BY <2>1 DEF StaleInv
  <1>2. ASSUME NEW r \in Reqs, Request(r) PROVE StaleInv'
    <2>0. hist'.stale = hist.stale /\ scene' = scene BY <1>2, StaleKept
    <2>1. CASE IssueAppPassword(r)
      <3>1. hist'.pw = hist.pw + 1 BY <1>0, <2>1 DEF IssueAppPassword, History
      <3>2. db'.apps \subseteq db.apps \cup {hist.pw + 1} BY <1>0, <2>1 DEF IssueAppPassword, InsertToken, Tables
      <3>3. hist.pw >= 1 => hist.pw + 1 # Tok /\ hist.pw + 1 >= 1 BY <1>0 DEF Tok
      <3> QED BY <2>0, <3>1, <3>2, <3>3 DEF StaleInv
    <2>2. CASE DeleteByHash(r) \/ DeleteUser(r)
      <3>1. hist' = hist /\ db'.apps \subseteq db.apps BY <1>0, <2>2 DEF DeleteByHash, DeleteUser, Tables
      <3> QED BY <2>0, <3>1 DEF StaleInv
    <2>3. CASE HandleLogout(r)
      <3>1. hist'.pw = hist.pw /\ db'.apps = db.apps BY <1>0, <2>3 DEF HandleLogout, Tables, History
      <3> QED BY <2>0, <3>1 DEF StaleInv
    <2>4. CASE \/ HandlePoll(r) \/ PollConsume(r) \/ BeginGrant(r) \/ BeginGrantUpdate(r) \/ HandleGrant(r) \/ GrantLookup(r)
               \/ WrapTokenRow(r) \/ WrapKeyForToken(r) \/ GrantRead(r) \/ Grant(r) \/ GetAppPassword(r) \/ AnswerPassword(r)
               \/ HandleLogin(r) \/ CreateSession(r) \/ SetSealedUK(r) \/ SealFails(r) \/ SetCookie(r) \/ VerifyID(r)
               \/ VisitUser(r) \/ TouchSession(r) \/ CachedUID(r) \/ TieredFill(r) \/ BearerLookup(r) \/ PrincipalForUID(r)
               \/ RememberUID(r) \/ AttachTokenKey(r) \/ AppPasswordVerify(r) \/ AppUnlock(r) \/ OnTokenDeleted(r) \/ Mint(r)
               \/ WopiWrapRow(r) \/ WrapKeyForWOPIToken(r) \/ MintUndo(r) \/ Minted(r) \/ Authenticate(r) \/ CallbackUser(r)
               \/ UnlockForWOPIToken(r) \/ GCList(r) \/ DeleteWOPITokenKeys(r) \/ DeleteExpired(r) \/ PruneWOPITokenKeys(r) \/ UserKeysDeleted(r)
               \/ Fail(r)
      <3>1. hist'.pw = hist.pw /\ db'.apps = db.apps
        BY <1>0, <2>4 DEF HandlePoll, PollConsume, BeginGrant, BeginGrantUpdate, HandleGrant, GrantLookup, WrapTokenRow, WrapKeyForToken, GrantRead, Grant, GetAppPassword, AnswerPassword, HandleLogin, CreateSession, SetSealedUK, SealFails, SetCookie, VerifyID, VisitUser, TouchSession, CachedUID, TieredFill, BearerLookup, PrincipalForUID, RememberUID, AttachTokenKey, AppPasswordVerify, AppUnlock, OnTokenDeleted, Mint, WopiWrapRow, WrapKeyForWOPIToken, MintUndo, Minted, Authenticate, CallbackUser, UnlockForWOPIToken, GCList, DeleteWOPITokenKeys, DeleteExpired, PruneWOPITokenKeys, UserKeysDeleted, Fail, UpdateFlow, Answered, Tables, History
      <3> QED BY <2>0, <3>1 DEF StaleInv
    <2> QED BY <1>2, <2>1, <2>2, <2>3, <2>4 DEF Request
  <1> QED BY <1>1, <1>2 DEF Next

LEMMA AgeStep ==
  ASSUME Base, BearerInv, Next
  PROVE  AgeInv'
  <1>0. cache \in Caches /\ hist \in History /\ req \in [Reqs -> Task] /\ Fits /\ AgeInv BY DEF Base, Typed, BearerInv
  <1>1. /\ TokenTTL \in Nat \ {0} /\ FillTTL \in Nat \ {0} /\ hist.stale \in Nat /\ cache.l2 \in 0 .. TokenTTL
        /\ \A n \in Nodes : cache.l1[n] \in 0 .. TokenTTL + FillTTL
    BY <1>0, Constants DEF Caches, History
  <1>2. CASE HandleInit \/ SetEnabled \/ PruneStaleKeys
    <2>1. cache' = cache /\ hist' = hist BY <1>2 DEF HandleInit, SetEnabled, PruneStaleKeys
    <2> QED BY <1>0, <2>1 DEF AgeInv
  <1>3. CASE Tick
    <2>1. /\ cache'.l2 = IF cache.l2 > 0 THEN cache.l2 - 1 ELSE 0
          /\ \A n \in Nodes : cache'.l1[n] = IF cache.l1[n] > 0 THEN cache.l1[n] - 1 ELSE 0
      BY <1>3 DEF Tick
    <2>2. hist'.stale = 0 \/ hist'.stale = hist.stale + 1 BY <1>0, <1>3 DEF Tick, History
    <2>3. cache'.l2 > 0 => cache'.l2 + hist'.stale <= TokenTTL BY <1>0, <1>1, <2>1, <2>2 DEF AgeInv
    <2>4. ASSUME NEW n \in Nodes PROVE cache'.l1[n] > 0 => cache'.l1[n] + hist'.stale + 1 <= TokenTTL + FillTTL
      <3>1. cache.l1[n] \in 0 .. TokenTTL + FillTTL /\ (cache.l1[n] > 0 => cache.l1[n] + hist.stale + 1 <= TokenTTL + FillTTL)
        BY <1>0, <1>1 DEF AgeInv
      <3>2. cache'.l1[n] = IF cache.l1[n] > 0 THEN cache.l1[n] - 1 ELSE 0 BY <2>1
      <3> QED BY <1>1, <2>2, <3>1, <3>2
    <2> QED BY <2>3, <2>4 DEF AgeInv
  <1>4. CASE Evict
    <2>1. hist' = hist /\ cache'.l2 \in {cache.l2, 0} /\ \A n \in Nodes : cache'.l1[n] \in {cache.l1[n], 0}
      BY <1>0, <1>4 DEF Evict, Caches
    <2> QED BY <1>0, <1>1, <2>1 DEF AgeInv
  <1>5. ASSUME NEW r \in Reqs, Request(r) PROVE AgeInv'
    <2>0. hist'.stale = hist.stale /\ BearerOk(req[r]) /\ Paths(req[r].op, req[r].pc) /\ Holds(req[r]) /\ req[r].op \in Ops /\ req[r].since \in Nat
      BY <1>0, <1>5, StaleKept DEF BearerInv, Fits, Task
    <2>1. CASE TieredFill(r)
      <3>1. req[r].op = "bearer" /\ req[r].pc = "fill" BY <2>0, <2>1 DEF TieredFill, At, Paths, Ops
      <3>2. hist.stale + 1 <= TokenTTL BY <2>0, <3>1 DEF BearerOk
      <3>3. cache'.l2 = cache.l2 /\ \A n \in Nodes : cache'.l1[n] \in {cache.l1[n], FillTTL}
        BY <1>0, <2>1 DEF TieredFill, Caches
      <3> QED BY <1>0, <1>1, <2>0, <3>2, <3>3 DEF AgeInv
    <2>2. CASE RememberUID(r)
      <3>1. req[r].op = "bearer" /\ req[r].pc \in {"rememberL1", "rememberL2"} BY <2>0, <2>2 DEF RememberUID, At, Paths, Ops
      <3>2. hist.stale = 0 BY <2>0, <3>1 DEF BearerOk
      <3>3. cache'.l2 \in {cache.l2, TokenTTL} /\ \A n \in Nodes : cache'.l1[n] \in {cache.l1[n], TokenTTL}
        BY <1>0, <2>2 DEF RememberUID, Caches
      <3> QED BY <1>0, <1>1, <2>0, <3>2, <3>3 DEF AgeInv
    <2>3. CASE \/ HandlePoll(r) \/ PollConsume(r) \/ BeginGrant(r) \/ BeginGrantUpdate(r) \/ HandleGrant(r) \/ GrantLookup(r)
               \/ IssueAppPassword(r) \/ WrapTokenRow(r) \/ WrapKeyForToken(r) \/ GrantRead(r) \/ Grant(r) \/ GetAppPassword(r)
               \/ AnswerPassword(r) \/ HandleLogin(r) \/ CreateSession(r) \/ SetSealedUK(r) \/ SealFails(r) \/ SetCookie(r)
               \/ HandleLogout(r) \/ VerifyID(r) \/ VisitUser(r) \/ TouchSession(r) \/ CachedUID(r) \/ BearerLookup(r)
               \/ PrincipalForUID(r) \/ AttachTokenKey(r) \/ AppPasswordVerify(r) \/ AppUnlock(r) \/ DeleteByHash(r) \/ OnTokenDeleted(r)
               \/ Mint(r) \/ WopiWrapRow(r) \/ WrapKeyForWOPIToken(r) \/ MintUndo(r) \/ Minted(r) \/ Authenticate(r)
               \/ CallbackUser(r) \/ UnlockForWOPIToken(r) \/ GCList(r) \/ DeleteWOPITokenKeys(r) \/ DeleteExpired(r) \/ PruneWOPITokenKeys(r)
               \/ UserKeysDeleted(r) \/ DeleteUser(r) \/ Fail(r)
      <3>1. cache' = cache
        BY <2>3 DEF HandlePoll, PollConsume, BeginGrant, BeginGrantUpdate, HandleGrant, GrantLookup, IssueAppPassword, WrapTokenRow, WrapKeyForToken, GrantRead, Grant, GetAppPassword, AnswerPassword, HandleLogin, CreateSession, SetSealedUK, SealFails, SetCookie, HandleLogout, VerifyID, VisitUser, TouchSession, CachedUID, BearerLookup, PrincipalForUID, AttachTokenKey, AppPasswordVerify, AppUnlock, DeleteByHash, OnTokenDeleted, Mint, WopiWrapRow, WrapKeyForWOPIToken, MintUndo, Minted, Authenticate, CallbackUser, UnlockForWOPIToken, GCList, DeleteWOPITokenKeys, DeleteExpired, PruneWOPITokenKeys, UserKeysDeleted, DeleteUser, Fail
      <3> QED BY <1>0, <2>0, <3>1 DEF AgeInv
    <2> QED BY <1>5, <2>1, <2>2, <2>3 DEF Request
  <1> QED BY <1>2, <1>3, <1>4, <1>5 DEF Next

LEMMA BearerStep ==
  ASSUME Base, BearerInv, Next
  PROVE  BearerInv'
  <1>0. cache \in Caches /\ hist \in History /\ req \in [Reqs -> Task] /\ Fits /\ AgeInv /\ StaleInv BY DEF Base, Typed, BearerInv
  <1>1. StaleInv' BY <1>0, StaleStep
  <1>2. AgeInv' BY AgeStep
  <1>3. CASE HandleInit \/ PruneStaleKeys \/ Evict
    <2>1. req' = req /\ hist' = hist /\ scene' = scene BY <1>3 DEF HandleInit, PruneStaleKeys, Evict
    <2> QED BY <1>1, <1>2, <2>1 DEF BearerInv, BearerOk
  <1>4. CASE SetEnabled
    <2>1. hist' = hist /\ scene' = scene BY <1>4 DEF SetEnabled
    <2>2. ASSUME NEW q \in Reqs PROVE req'[q].op = req[q].op /\ req'[q].pc = req[q].pc /\ req'[q].since = req[q].since
      BY <1>0, <1>4 DEF SetEnabled, Task
    <2> QED BY <1>1, <1>2, <2>1, <2>2 DEF BearerInv, BearerOk
  <1>5. CASE Tick
    <2>1. req' = req /\ scene' = scene /\ \A q \in Reqs : req[q].op = "bearer" => req[q].pc \in Ended BY <1>5 DEF Tick
    <2>2. ASSUME NEW q \in Reqs PROVE BearerOk(req[q])'
      <3>1. BearerOk(req[q]) /\ Paths(req[q].op, req[q].pc) BY <1>0 DEF BearerInv, Fits
      <3>2. req[q].op = "bearer" => req[q].pc \in {"done", "accepted"} BY <2>1, <3>1 DEF Paths, Ended
      <3> QED BY <2>1, <3>1, <3>2 DEF BearerOk
    <2> QED BY <1>1, <1>2, <2>2 DEF BearerInv
  <1>6. ASSUME NEW r \in Reqs, Request(r) PROVE BearerInv'
    <2>0. PICK w \in Task : Turn(r, w) BY <1>6, AnyTurn
    <2>1. req'[r] = w /\ \A q \in Reqs \ {r} : req'[q] = req[q] BY <1>0, <2>0 DEF Turn
    <2>2. hist'.stale = hist.stale /\ scene' = scene BY <1>6, StaleKept
    <2>3. BearerOk(req[r]) /\ Paths(req[r].op, req[r].pc) /\ req[r].op \in Ops /\ req[r].since \in Nat BY <1>0 DEF BearerInv, Fits, Task
    <2>4. TokenTTL \in Nat \ {0} /\ FillTTL \in Nat \ {0} /\ hist.stale \in Nat /\ cache.l2 \in 0 .. TokenTTL BY <1>0, Constants DEF Caches, History
    <2>5. BearerOk(w)
      <3>1. CASE w.op # "bearer" BY <3>1 DEF BearerOk
      <3>2. CASE w.op = "bearer" /\ Arrives(r, w)
        <4>1. CachedUID(r) /\ "bearer" \in scene.ops /\ w.since = hist.stale BY <3>2 DEF Arrives
        <4>2. PICK u \in Task :
                /\ req' = [req EXCEPT ![r] = u] /\ u.node \in Nodes
                /\ u.pc = IF cache.l1[u.node] > 0 THEN "bearerUser" ELSE IF cache.l2 > 0 THEN "fill" ELSE "bearerRow"
          BY <4>1, BearerOne DEF Came
        <4>3. u = w BY <1>0, <2>1, <4>2
        <4>4. cache.l1[w.node] \in 0 .. TokenTTL + FillTTL BY <1>0, <4>2, <4>3 DEF Caches
        <4>5. /\ cache.l1[w.node] > 0 => cache.l1[w.node] + hist.stale + 1 <= TokenTTL + FillTTL
              /\ cache.l2 > 0 => cache.l2 + hist.stale <= TokenTTL
          BY <1>0, <4>2, <4>3 DEF AgeInv
        <4>6. w.pc = "fill" => w.since + 1 <= TokenTTL BY <2>4, <4>1, <4>2, <4>3, <4>5
        <4>7. w.pc = "bearerUser" => w.since + 2 <= TokenTTL + FillTTL BY <2>4, <4>1, <4>2, <4>3, <4>4, <4>5
        <4>8. w.pc \in {"bearerUser", "fill", "bearerRow"} BY <4>2, <4>3
        <4> QED BY <4>1, <4>6, <4>7, <4>8 DEF BearerOk
      <3>3. CASE w.op = "bearer" /\ Continues(r, w) /\ w.pc = "done" BY <2>3, <3>3 DEF Continues, BearerOk
      <3>4. CASE w.op = "bearer" /\ Continues(r, w) /\ w.pc # "done"
        <4>1. w.since = req[r].since /\ req[r].op = "bearer" /\ Leads("bearer", req[r].pc, w.pc) BY <3>4 DEF Continues
        <4>2. /\ req[r].pc \in {"fill", "bearerRow", "bearerMiss", "bearerUser", "rememberL1", "rememberL2", "attach"}
              /\ \/ req[r].pc = "fill" /\ w.pc = "bearerUser"
                 \/ req[r].pc = "bearerRow" /\ w.pc = "bearerMiss"
                 \/ req[r].pc = "bearerMiss" /\ w.pc = "rememberL1"
                 \/ req[r].pc = "bearerUser" /\ w.pc = "attach"
                 \/ req[r].pc = "rememberL1" /\ w.pc \in {"rememberL2", "attach"}
                 \/ req[r].pc = "rememberL2" /\ w.pc = "attach"
                 \/ req[r].pc = "attach" /\ w.pc = "accepted"
          BY <2>3, <3>4, <4>1 DEF Paths, Leads, Goes
        <4>3. Does(r) BY <1>6, <2>1, <3>4, Doing, Stopped DEF Fail
        <4>4. req[r].pc = "bearerRow" => Tok \in db.apps
          BY <2>1, <3>4, <4>3, Stopped DEF Does, At, BearerLookup, GetByHash
        <4>5. w.pc = "bearerMiss" => w.since = 0 BY <1>0, <2>3, <4>1, <4>2, <4>4 DEF StaleInv, BearerOk
        <4>6. w.pc \notin {"done", "accepted"} => w.since = hist.stale BY <2>3, <4>1, <4>2 DEF BearerOk
        <4>7. w.pc \in {"rememberL1", "rememberL2"} => w.since = 0 BY <2>3, <4>1, <4>2 DEF BearerOk
        <4>8. w.pc \in {"bearerUser", "attach", "accepted"} => w.since + 2 <= TokenTTL + FillTTL
          BY <2>3, <2>4, <4>1, <4>2 DEF BearerOk
        <4>9. w.pc # "fill" /\ "bearer" \in scene.ops BY <2>3, <4>1, <4>2 DEF BearerOk
        <4> QED BY <4>5, <4>6, <4>7, <4>8, <4>9 DEF BearerOk
      <3> QED BY <2>0, <3>1, <3>2, <3>3, <3>4 DEF Turn
    <2>6. ASSUME NEW q \in Reqs PROVE BearerOk(req[q])'
      <3>1. BearerOk(req'[q]) BY <2>1, <2>5 DEF BearerInv
      <3> QED BY <2>2, <3>1 DEF BearerOk
    <2> QED BY <1>1, <1>2, <2>6 DEF BearerInv
  <1> QED BY <1>3, <1>4, <1>5, <1>6 DEF Next

LEMMA ShutInit == Init => OutInv /\ OffInv /\ BearerInv
  <1> SUFFICES ASSUME Init PROVE OutInv /\ OffInv /\ BearerInv OBVIOUS
  <1>1. \A r \in Reqs : req[r].pc = "idle" /\ req[r].op = "none" BY DEF Init, Idle
  <1>2. hist.out = {} /\ hist.cookies = {} /\ hist.sid = 0 /\ hist.stale = 0 /\ hist.pw = Cardinality(scene.apps) BY DEF Init
  <1>3. OutInv BY <1>1, <1>2 DEF OutInv, LoggedOutStaysOut
  <1>4. OffInv BY <1>1 DEF OffInv, OffOne, Ended, Asked
  <1>5. AgeInv BY DEF Init, AgeInv
  <1>6. StaleInv
    <2>1. PICK n \in 0 .. MaxDraw : scene.apps = 1 .. n /\ ("bearer" \in scene.ops => 1 \in scene.apps) BY AccessAssumption DEF Init
    <2>2. n \in Nat /\ Cardinality(1 .. n) = n BY <2>1, Constants, FS_Interval
    <2>3. "bearer" \in scene.ops => n >= 1 BY <2>1, <2>2
    <2> QED BY <1>2, <2>1, <2>2, <2>3 DEF StaleInv
  <1> QED BY <1>1, <1>3, <1>4, <1>5, <1>6 DEF BearerInv, BearerOk

\* Who was shut out stays out (session/sqlstore.go, auth/bearer.go over
\* cache/tiered.go, auth/middleware.go, wopi/service.go): a logged-out session never
\* returns, a revoked token is refused after both cache lifetimes on every node, and
\* a request that finds the account disabled is not let in, for any number of
\* requests and nodes and any lifetimes.
THEOREM ShutOutHolds == Spec => []ShutOut
  <1>1. Init => Base /\ OutInv /\ OffInv /\ BearerInv BY BaseInit, ShutInit
  <1>2. Base /\ OutInv /\ OffInv /\ BearerInv /\ [Next]_vars => Base' /\ OutInv' /\ OffInv' /\ BearerInv'
    <2> SUFFICES ASSUME Base, OutInv, OffInv, BearerInv, [Next]_vars PROVE Base' /\ OutInv' /\ OffInv' /\ BearerInv' OBVIOUS
    <2>1. Base' BY BaseStep
    <2>2. CASE Next BY <2>1, <2>2, OutStep, OffStep, BearerStep
    <2>3. CASE UNCHANGED vars
      BY <2>1, <2>3 DEF vars, OutInv, LoggedOutStaysOut, OffInv, OffOne, BearerInv, StaleInv, AgeInv, BearerOk
    <2> QED BY <2>2, <2>3
  <1>3. OutInv /\ OffInv /\ BearerInv => ShutOut
    BY DEF OutInv, OffInv, OffOne, BearerInv, BearerOk, ShutOut, RevokedDies, DisabledRefused
  <1> QED BY <1>1, <1>2, <1>3, PTL DEF Spec

\* Types: every table, cache entry, request and history record of the model keeps its
\* type, whatever statements fail and whatever order requests interleave in.
THEOREM AccessTypeCorrect == Spec => []TypeOK
  BY BaseInit, BaseStep, BaseTypes, PTL DEF Spec

-----------------------------------------------------------------------------
(* An app password that is given out keeps its copy of the key.            *)

Deleting == \E r \in Reqs : req[r].op = "deleteUser"
Copied(p) == p \in hist.keyed \cap db.apps => p \in db.wraps
PwOne(v) ==
  /\ v.pc \in {"appKey", "dropRow", "dropWrap"} => v.pw \in 1 .. hist.pw
  /\ v.pc = "dropWrap" => v.pw \notin db.apps
  /\ v.pc \in {"record", "grantUpdate"} => Deleting \/ Copied(v.pw)
PwInv ==
  /\ hist.given \cup hist.keyed \cup db.apps \subseteq 1 .. hist.pw
  /\ \A p \in hist.given \cup hist.granted : Deleting \/ Copied(p)
  /\ \A r \in Reqs : PwOne(req[r])

LEMMA DeletingStays ==
  ASSUME Base, NEW r \in Reqs, NEW w \in Task, Turn(r, w), Deleting
  PROVE  Deleting'
  <1>1. req \in [Reqs -> Task] BY DEF Base, Typed
  <1>2. req'[r] = w /\ \A q \in Reqs \ {r} : req'[q] = req[q] BY <1>1 DEF Turn
  <1>3. PICK q \in Reqs : req[q].op = "deleteUser" BY DEF Deleting
  <1>4. q = r => w.op = "deleteUser" BY <1>3 DEF Turn, Arrives, Continues, Idle
  <1>5. req'[q].op = "deleteUser" BY <1>2, <1>3, <1>4
  <1> QED BY <1>5 DEF Deleting

\* What a step that draws no password leaves true.
LEMMA PwKept ==
  ASSUME Deleting => Deleting', hist'.pw = hist.pw, hist'.keyed = hist.keyed, db'.apps \subseteq db.apps,
         db'.apps \cap db.wraps \subseteq db'.wraps
  PROVE  /\ \A p : Copied(p) => Copied(p)'
         /\ \A v \in Task : PwOne(v) => PwOne(v)'
  BY DEF Copied, PwOne

\* Where the statements below find a request that they do not take there themselves.
LEMMA PwTurn ==
  ASSUME Base, Base', PwInv, NEW r \in Reqs, Request(r), NEW w \in Task, Turn(r, w),
         ~IssueAppPassword(r), ~WrapKeyForToken(r), ~DeleteByHash(r)
  PROVE  PwOne(w)
  <1>1. req \in [Reqs -> Task] /\ PwOne(req[r]) BY DEF Base, Typed, PwInv
  <1>2. req'[r] = w BY <1>1 DEF Turn
  <1>3. Paths(w.op, w.pc) /\ w.op \in Ops BY <1>2 DEF Base, Typed, Fits, Task
  <1>4. CASE Arrives(r, w)
    <2>1. w.pc \in {"appKey", "dropRow", "dropWrap", "record", "grantUpdate"} => w.pc = "appKey" /\ AppPasswordVerify(r)
      BY <1>3, <1>4 DEF Arrives, Firsts, Paths, Ops
    <2>2. AppPasswordVerify(r) /\ w.pc = "appKey" => w.pw \in db.apps
      <3> SUFFICES ASSUME AppPasswordVerify(r), w.pc = "appKey" PROVE w.pw \in db.apps OBVIOUS
      <3>1. PICK op \in {"app", "revoke"}, u \in Task : Came(r, op, u) /\ (u.pc = "appKey" => u.pw \in db.apps) BY AppOne
      <3> QED BY <1>1, <1>2, <3>1 DEF Came
    <2> QED BY <2>1, <2>2 DEF PwOne, PwInv
  <1>5. CASE Continues(r, w)
    <2>1. w.pc # "done" => Does(r) BY <1>2, Doing, Stopped DEF Fail
    <2>2. w.pc # "done" => req[r].pc \notin {"issue", "wrap", "dropRow"} BY <2>1 DEF Does, At
    <2>3. w.pc \notin {"appKey", "dropWrap", "record"} BY <1>5, <2>2 DEF Continues, Leads, Goes
    <2>4. w.pc = "dropRow" => req[r].pc = "appKey" /\ w.pw = req[r].pw BY <1>5 DEF Continues, Leads, Goes
    <2>5. w.pc = "grantUpdate" => req[r].pc = "record" /\ w.pw = req[r].pw BY <1>5 DEF Continues, Leads, Goes
    <2> QED BY <1>1, <2>3, <2>4, <2>5 DEF PwOne
  <1> QED BY <1>4, <1>5 DEF Turn

\* What the other statements do to app passwords and their wraps.
LEMMA PwEffects ==
  ASSUME Base, FInv, PwInv, NEW r \in Reqs, Request(r),
         ~(IssueAppPassword(r) \/ WrapKeyForToken(r) \/ DeleteByHash(r) \/ UserKeysDeleted(r))
  PROVE  /\ hist'.pw = hist.pw /\ hist'.keyed = hist.keyed /\ db'.apps \subseteq db.apps /\ db'.apps \cap db.wraps \subseteq db'.wraps
         /\ \A p \in hist'.given \cup hist'.granted :
              \/ p \in hist.given \cup hist.granted
              \/ p = req[r].pw /\ req[r].pc \in {"record", "grantUpdate"}
  <1>0. db \in Tables /\ hist \in History /\ PwOne(req[r]) /\ RowsRead(req[r], hist.granted) BY DEF Base, Typed, PwInv, FInv
  <1>1. CASE PollConsume(r)
    <2>1. hist'.given = hist.given \cup {req[r].row.pw} /\ hist'.granted = hist.granted /\ hist'.pw = hist.pw /\ hist'.keyed = hist.keyed
      BY <1>0, <1>1 DEF PollConsume, Answered, History
    <2>2. db'.apps = db.apps /\ db'.wraps = db.wraps BY <1>0, <1>1 DEF PollConsume, UpdateFlow, Tables
    <2>3. req[r].row.pw \in hist.granted BY <1>0, <1>1 DEF PollConsume, At, RowsRead
    <2> QED BY <2>1, <2>2, <2>3
  <1>2. CASE Grant(r) \/ AnswerPassword(r)
    <2>1. /\ hist'.given \cup hist'.granted \subseteq hist.given \cup hist.granted \cup {req[r].pw}
          /\ hist'.pw = hist.pw /\ hist'.keyed = hist.keyed /\ req[r].pc \in {"record", "grantUpdate"}
      BY <1>0, <1>2 DEF Grant, AnswerPassword, At, History
    <2>2. db'.apps = db.apps /\ db'.wraps = db.wraps BY <1>0, <1>2 DEF Grant, AnswerPassword, UpdateFlow, Tables
    <2> QED BY <2>1, <2>2
  <1>3. CASE OnTokenDeleted(r)
    <2>1. hist' = hist /\ db'.apps = db.apps /\ db.wraps \ {req[r].pw} \subseteq db'.wraps BY <1>0, <1>3 DEF OnTokenDeleted, Tables
    <2>2. req[r].pw \notin db.apps BY <1>0, <1>3 DEF OnTokenDeleted, At, PwOne
    <2> QED BY <2>1, <2>2
  <1>4. CASE DeleteUser(r)
    <2>1. hist' = hist /\ db'.apps = {} BY <1>0, <1>4 DEF DeleteUser, Tables
    <2> QED BY <2>1
  <1>5. CASE HandleLogout(r)
    <2>1. db'.apps = db.apps /\ db'.wraps = db.wraps BY <1>0, <1>5 DEF HandleLogout, Tables
    <2>2. hist'.pw = hist.pw /\ hist'.keyed = hist.keyed /\ hist'.given = hist.given /\ hist'.granted = hist.granted BY <1>0, <1>5 DEF HandleLogout, History
    <2> QED BY <2>1, <2>2
  <1>6. CASE \/ HandlePoll(r) \/ BeginGrant(r) \/ BeginGrantUpdate(r) \/ HandleGrant(r) \/ GrantLookup(r) \/ WrapTokenRow(r)
             \/ GrantRead(r) \/ GetAppPassword(r) \/ HandleLogin(r) \/ CreateSession(r) \/ SetSealedUK(r) \/ SealFails(r)
             \/ SetCookie(r) \/ VerifyID(r) \/ VisitUser(r) \/ TouchSession(r) \/ CachedUID(r) \/ TieredFill(r)
             \/ BearerLookup(r) \/ PrincipalForUID(r) \/ RememberUID(r) \/ AttachTokenKey(r) \/ AppPasswordVerify(r) \/ AppUnlock(r)
             \/ Mint(r) \/ WopiWrapRow(r) \/ WrapKeyForWOPIToken(r) \/ MintUndo(r) \/ Minted(r) \/ Authenticate(r)
             \/ CallbackUser(r) \/ UnlockForWOPIToken(r) \/ GCList(r) \/ DeleteWOPITokenKeys(r) \/ DeleteExpired(r) \/ PruneWOPITokenKeys(r)
             \/ Fail(r)
    <2>1. db'.apps = db.apps /\ db'.wraps = db.wraps
      BY <1>0, <1>6 DEF HandlePoll, BeginGrant, BeginGrantUpdate, HandleGrant, GrantLookup, WrapTokenRow, GrantRead, GetAppPassword, HandleLogin, CreateSession, SetSealedUK, SealFails, SetCookie, VerifyID, VisitUser, TouchSession, CachedUID, TieredFill, BearerLookup, PrincipalForUID, RememberUID, AttachTokenKey, AppPasswordVerify, AppUnlock, Mint, WopiWrapRow, WrapKeyForWOPIToken, MintUndo, Minted, Authenticate, CallbackUser, UnlockForWOPIToken, GCList, DeleteWOPITokenKeys, DeleteExpired, PruneWOPITokenKeys, Fail, UpdateFlow, Tables
    <2>2. hist'.pw = hist.pw /\ hist'.keyed = hist.keyed /\ hist'.given = hist.given /\ hist'.granted = hist.granted
      BY <1>0, <1>6 DEF HandlePoll, BeginGrant, BeginGrantUpdate, HandleGrant, GrantLookup, WrapTokenRow, GrantRead, GetAppPassword, HandleLogin, CreateSession, SetSealedUK, SealFails, SetCookie, VerifyID, VisitUser, TouchSession, CachedUID, TieredFill, BearerLookup, PrincipalForUID, RememberUID, AttachTokenKey, AppPasswordVerify, AppUnlock, Mint, WopiWrapRow, WrapKeyForWOPIToken, MintUndo, Minted, Authenticate, CallbackUser, UnlockForWOPIToken, GCList, DeleteWOPITokenKeys, DeleteExpired, PruneWOPITokenKeys, Fail, History
    <2> QED BY <2>1, <2>2
  <1> QED BY <1>1, <1>2, <1>3, <1>4, <1>5, <1>6 DEF Request

LEMMA PwStep ==
  ASSUME Base, FInv, PwInv, Next
  PROVE  PwInv'
  <1>0. db \in Tables /\ hist \in History /\ req \in [Reqs -> Task] /\ Counted /\ DrawnFresh BY DEF Base, Typed, FInv
  <1>1. CASE HandleInit \/ PruneStaleKeys \/ Evict \/ Tick \/ SetEnabled
    <2>1. /\ hist'.pw = hist.pw /\ hist'.keyed = hist.keyed /\ db'.apps = db.apps /\ db'.apps \cap db.wraps \subseteq db'.wraps
          /\ hist'.given = hist.given /\ hist'.granted = hist.granted
      BY <1>0, <1>1 DEF HandleInit, UpdateFlow, PruneStaleKeys, Evict, Tick, SetEnabled, Tables, History
    <2>2. ASSUME NEW q \in Reqs PROVE req'[q].op = req[q].op /\ req'[q].pc = req[q].pc /\ req'[q].pw = req[q].pw
      BY <1>0, <1>1 DEF HandleInit, PruneStaleKeys, Evict, Tick, SetEnabled, Task
    <2>3. Deleting => Deleting' BY <2>2 DEF Deleting
    <2>4. \A p : Copied(p) => Copied(p)' BY <2>1, <2>3, PwKept
    <2>5. ASSUME NEW q \in Reqs PROVE PwOne(req[q])'
      <3>1. PwOne(req[q]) BY DEF PwInv
      <3> QED BY <2>1, <2>2, <2>3, <2>4, <3>1 DEF PwOne
    <2> QED BY <2>1, <2>3, <2>4, <2>5 DEF PwInv
  <1>2. ASSUME NEW r \in Reqs, Request(r) PROVE PwInv'
    <2>0. PICK w \in Task : Turn(r, w) BY <1>2, AnyTurn
    <2>01. req'[r] = w /\ (\A q \in Reqs \ {r} : req'[q] = req[q]) /\ (Deleting => Deleting')
      BY <1>0, <2>0, DeletingStays DEF Turn
    <2>02. hist.pw \in Nat /\ PwOne(req[r]) /\ (req[r].pc \in Drawn => req[r].pw \in 1 .. hist.pw) /\ RowsRead(req[r], hist.granted)
      BY <1>0 DEF History, Numbers, PwInv, DrawnFresh, FInv
    <2>03. Base' BY <1>2, BaseStep DEF Next
    <2>1. CASE IssueAppPassword(r)
      <3>1. /\ hist'.pw = hist.pw + 1 /\ hist'.keyed = hist.keyed \cup (IF req[r].key THEN {hist.pw + 1} ELSE {})
            /\ hist'.given = hist.given /\ hist'.granted = hist.granted
        BY <1>0, <2>1 DEF IssueAppPassword, History
      <3>2. db'.apps \subseteq db.apps \cup {hist.pw + 1} /\ db'.wraps = db.wraps
        BY <1>0, <2>1 DEF IssueAppPassword, InsertToken, Tables
      <3>3. w.pw = hist.pw + 1 /\ w.pc = (IF req[r].key THEN "tokenRow" ELSE "record")
        <4>1. PICK u \in Task : /\ req' = [req EXCEPT ![r] = u]
                                /\ u.pw = hist.pw + 1 /\ u.pc = (IF req[r].key THEN "tokenRow" ELSE "record")
          BY <2>1, IssueOne
        <4> QED BY <1>0, <2>01, <4>1
      <3>4. hist.pw + 1 \notin 1 .. hist.pw /\ hist.pw + 1 \in 1 .. hist'.pw /\ 1 .. hist.pw \subseteq 1 .. hist'.pw BY <2>02, <3>1
      <3>5. \A p \in 1 .. hist.pw : Copied(p) => Copied(p)' BY <3>1, <3>2, <3>4 DEF Copied
      <3>6. ~req[r].key => Copied(w.pw)' BY <3>1, <3>3, <3>4 DEF Copied, PwInv
      <3>7. PwOne(w)' BY <3>3, <3>6 DEF PwOne
      <3>8. ASSUME NEW q \in Reqs \ {r} PROVE PwOne(req[q])'
        <4>1. PwOne(req[q]) /\ (req[q].pc \in Drawn => req[q].pw \in 1 .. hist.pw) /\ req'[q] = req[q]
          BY <1>0, <2>01 DEF PwInv, DrawnFresh
        <4>2. req[q].pc \in {"record", "grantUpdate"} => Deleting' \/ Copied(req[q].pw)' BY <2>01, <3>5, <4>1 DEF PwOne, Drawn
        <4>3. req[q].pc = "dropWrap" => req[q].pw \notin db'.apps BY <3>2, <3>4, <4>1 DEF PwOne
        <4> QED BY <3>4, <4>1, <4>2, <4>3 DEF PwOne, Copied
      <3>9. \A p \in hist'.given \cup hist'.granted : Deleting' \/ Copied(p)'
        BY <1>0, <2>01, <3>1, <3>5 DEF PwInv, Counted
      <3>10. hist'.given \cup hist'.keyed \cup db'.apps \subseteq 1 .. hist'.pw BY <3>1, <3>2, <3>4 DEF PwInv
      <3> QED BY <2>01, <3>7, <3>8, <3>9, <3>10 DEF PwInv
    <2>2. CASE WrapKeyForToken(r) \/ DeleteByHash(r)
      <3>1. /\ hist' = hist /\ db'.apps \subseteq db.apps /\ db.wraps \subseteq db'.wraps
            /\ WrapKeyForToken(r) => req[r].pw \in db'.wraps
            /\ DeleteByHash(r) => req[r].pw \notin db'.apps
        BY <1>0, <2>2 DEF WrapKeyForToken, DeleteByHash, Tables
      <3>2. \A p : Copied(p) => Copied(p)' BY <2>01, <3>1, PwKept
      <3>3. \A v \in Task : PwOne(v) => PwOne(v)' BY <2>01, <3>1, PwKept
      <3>4. /\ WrapKeyForToken(r) => req[r].pc = "wrap" /\ w.pc = "record"
            /\ DeleteByHash(r) => req[r].pc = "dropRow" /\ w.pc = "dropWrap"
        <4>1. /\ WrapKeyForToken(r) => At(r, "wrap") /\ Step(r, "record")
              /\ DeleteByHash(r) => At(r, "dropRow") /\ Step(r, "dropWrap")
          BY DEF WrapKeyForToken, DeleteByHash
        <4>2. ASSUME NEW pc \in {"record", "dropWrap"}, Step(r, pc) PROVE w.pc = pc
          <5>1. PICK u \in Task : Moved(r, pc, u) BY <4>2, StepOne, Names DEF Base
          <5> QED BY <1>0, <2>01, <5>1 DEF Moved
        <4> QED BY <4>1, <4>2 DEF At
      <3>5. w.pw = req[r].pw BY <2>0, <2>2, <3>4 DEF Turn, Arrives, Continues, Firsts
      <3>6. PwOne(w)' BY <2>2, <2>02, <3>1, <3>4, <3>5 DEF PwOne, Copied
      <3>7. ASSUME NEW q \in Reqs PROVE PwOne(req[q])'
        <4>1. CASE q = r BY <2>01, <3>6, <4>1 DEF PwOne, Copied
        <4>2. CASE q # r
          <5>1. PwOne(req[q]) /\ req[q] \in Task /\ req'[q] = req[q] BY <1>0, <2>01, <4>2 DEF PwInv
          <5>2. PICK v \in Task : v = req[q] BY <5>1
          <5>3. PwOne(v)' BY <3>3, <5>1, <5>2
          <5> QED BY <5>1, <5>2, <5>3 DEF PwOne, Copied
        <4> QED BY <4>1, <4>2
      <3> QED BY <2>01, <3>1, <3>2, <3>7 DEF PwInv
    <2>3. CASE UserKeysDeleted(r)
      <3>1. hist' = hist /\ db'.apps = db.apps BY <1>0, <2>3 DEF UserKeysDeleted, Tables
      <3>2. PICK u \in Task : Came(r, "deleteUser", u) BY <2>3, DeleteOne
      <3>3. Deleting'
        <4>1. req'[r].op = "deleteUser" BY <1>0, <3>2 DEF Came
        <4> QED BY <4>1 DEF Deleting
      <3>4. w.op = "deleteUser" BY <1>0, <2>01, <3>2 DEF Came
      <3>5. w.pc \in {"deleteUser", "done"} BY <2>01, <2>03, <3>4 DEF Base, Fits, Paths
      <3>6. ASSUME NEW q \in Reqs PROVE PwOne(req[q])'
        <4>1. q = r => PwOne(req[q])' BY <2>01, <3>5 DEF PwOne
        <4>2. q # r => PwOne(req[q])' BY <2>01, <3>1, <3>3 DEF PwOne, PwInv
        <4> QED BY <4>1, <4>2
      <3> QED BY <3>1, <3>3, <3>6 DEF PwInv
    <2>4. CASE ~(IssueAppPassword(r) \/ WrapKeyForToken(r) \/ DeleteByHash(r) \/ UserKeysDeleted(r))
      <3>1. /\ hist'.pw = hist.pw /\ hist'.keyed = hist.keyed /\ db'.apps \subseteq db.apps /\ db'.apps \cap db.wraps \subseteq db'.wraps
            /\ \A p \in hist'.given \cup hist'.granted :
                 \/ p \in hist.given \cup hist.granted
                 \/ p = req[r].pw /\ req[r].pc \in {"record", "grantUpdate"}
        BY <1>2, <2>4, PwEffects
      <3>2. PwOne(w) BY <1>2, <2>0, <2>4, <2>03, PwTurn
      <3>3. \A p : Copied(p) => Copied(p)' BY <2>01, <3>1, PwKept
      <3>4. \A v \in Task : PwOne(v) => PwOne(v)' BY <2>01, <3>1, PwKept
      <3>5. ASSUME NEW q \in Reqs PROVE PwOne(req[q])'
        <4>1. PICK v \in Task : v = req'[q] /\ PwOne(v) BY <1>0, <2>01, <3>2 DEF PwInv
        <4>2. PwOne(v)' BY <3>4, <4>1
        <4> QED BY <4>1, <4>2 DEF PwOne, Copied
      <3>6. ASSUME NEW p \in hist'.given \cup hist'.granted PROVE (Deleting' \/ Copied(p)') /\ p \in 1 .. hist.pw
        <4>1. (Deleting \/ Copied(p)) /\ p \in 1 .. hist.pw BY <1>0, <2>02, <3>1 DEF PwInv, PwOne, Counted, Drawn
        <4> QED BY <2>01, <3>3, <4>1
      <3> QED BY <3>1, <3>5, <3>6 DEF PwInv
    <2> QED BY <2>1, <2>2, <2>3, <2>4
  <1> QED BY <1>1, <1>2 DEF Next

-----------------------------------------------------------------------------
(* A session whose cookie leaves the server keeps its sealed copy.         *)

Sealed(s) == s \in hist.keyedSid \cap DOMAIN db.sess => db.sess[s].sealed
SealInv ==
  /\ hist.keyedSid \subseteq 1 .. hist.sid
  /\ \A s \in hist.cookies : Sealed(s)
  /\ \A r \in Reqs : req[r].pc = "cookie" => Sealed(req[r].sid)

\* What a step that only removes sessions, or renews them, leaves true.
LEMMA SealKept ==
  ASSUME hist'.keyedSid = hist.keyedSid, DOMAIN db'.sess \subseteq DOMAIN db.sess,
         \A s \in DOMAIN db'.sess : db.sess[s].sealed => db'.sess[s].sealed
  PROVE  \A s : Sealed(s) => Sealed(s)'
  BY DEF Sealed

LEMMA SealQuiet ==
  ASSUME Base, SealInv, NEW r \in Reqs, NEW w \in Task, Turn(r, w), \A s : Sealed(s) => Sealed(s)',
         hist'.keyedSid = hist.keyedSid, hist'.sid = hist.sid,
         \A s \in hist'.cookies : s \in hist.cookies \/ (At(r, "cookie") /\ s = req[r].sid),
         w.pc = "cookie" => Sealed(w.sid)'
  PROVE  SealInv'
  <1>1. req \in [Reqs -> Task] BY DEF Base, Typed
  <1>2. req'[r] = w /\ \A q \in Reqs \ {r} : req'[q] = req[q] BY <1>1 DEF Turn
  <1>3. \A s \in hist'.cookies : Sealed(s)' BY DEF SealInv, At
  <1>4. ASSUME NEW q \in Reqs, req'[q].pc = "cookie" PROVE Sealed(req[q].sid)'
    <2>1. CASE q = r BY <1>2, <1>4, <2>1
    <2>2. CASE q # r
      <3>1. PICK s : s = req[q].sid OBVIOUS
      <3>2. req'[q] = req[q] /\ Sealed(s) BY <1>2, <1>4, <2>2, <3>1 DEF SealInv
      <3>3. Sealed(s)' BY <3>2
      <3> QED BY <3>1, <3>2, <3>3
    <2> QED BY <2>1, <2>2
  <1> QED BY <1>3, <1>4 DEF SealInv

\* A cookie is about to leave only after the seal, or for a session that needs none.
LEMMA SealTurn ==
  ASSUME Base, NEW r \in Reqs, Request(r), NEW w \in Task, Turn(r, w), ~CreateSession(r), ~SetSealedUK(r)
  PROVE  w.pc # "cookie"
  <1>1. req \in [Reqs -> Task] BY DEF Base, Typed
  <1>2. req'[r] = w BY <1>1 DEF Turn
  <1>3. w.pc # "done" => Does(r) BY <1>2, Doing, Stopped DEF Fail
  <1>4. w.pc = "cookie" => req[r].pc \in {"seal", "session"} BY DEF Turn, Arrives, Continues, Firsts, Leads, Goes
  <1>5. SealFails(r) => w.pc = "done" BY <1>2, Stopped DEF SealFails
  <1> QED BY <1>3, <1>4, <1>5 DEF Does, At

LEMMA SealEffects ==
  ASSUME Base, NEW r \in Reqs, Request(r),
         ~(CreateSession(r) \/ SetSealedUK(r) \/ TouchSession(r) \/ SealFails(r) \/ HandleLogout(r) \/ DeleteUser(r))
  PROVE  /\ db'.sess = db.sess /\ hist'.keyedSid = hist.keyedSid /\ hist'.sid = hist.sid
         /\ hist'.cookies = hist.cookies \/ (At(r, "cookie") /\ hist'.cookies = hist.cookies \cup {req[r].sid})
  <1>0. db \in Tables /\ hist \in History BY DEF Base, Typed
  <1>1. CASE \/ HandlePoll(r) \/ PollConsume(r) \/ BeginGrant(r) \/ BeginGrantUpdate(r) \/ HandleGrant(r) \/ GrantLookup(r)
             \/ IssueAppPassword(r) \/ WrapTokenRow(r) \/ WrapKeyForToken(r) \/ GrantRead(r) \/ Grant(r) \/ GetAppPassword(r)
             \/ AnswerPassword(r) \/ HandleLogin(r) \/ SetCookie(r) \/ VerifyID(r) \/ VisitUser(r) \/ CachedUID(r)
             \/ TieredFill(r) \/ BearerLookup(r) \/ PrincipalForUID(r) \/ RememberUID(r) \/ AttachTokenKey(r) \/ AppPasswordVerify(r)
             \/ AppUnlock(r) \/ DeleteByHash(r) \/ OnTokenDeleted(r) \/ Mint(r) \/ WopiWrapRow(r) \/ WrapKeyForWOPIToken(r)
             \/ MintUndo(r) \/ Minted(r) \/ Authenticate(r) \/ CallbackUser(r) \/ UnlockForWOPIToken(r) \/ GCList(r)
             \/ DeleteWOPITokenKeys(r) \/ DeleteExpired(r) \/ PruneWOPITokenKeys(r) \/ UserKeysDeleted(r) \/ Fail(r)
    BY <1>0, <1>1 DEF HandlePoll, PollConsume, BeginGrant, BeginGrantUpdate, HandleGrant, GrantLookup, IssueAppPassword, WrapTokenRow, WrapKeyForToken, GrantRead, Grant, GetAppPassword, AnswerPassword, HandleLogin, SetCookie, VerifyID, VisitUser, CachedUID, TieredFill, BearerLookup, PrincipalForUID, RememberUID, AttachTokenKey, AppPasswordVerify, AppUnlock, DeleteByHash, OnTokenDeleted, Mint, WopiWrapRow, WrapKeyForWOPIToken, MintUndo, Minted, Authenticate, CallbackUser, UnlockForWOPIToken, GCList, DeleteWOPITokenKeys, DeleteExpired, PruneWOPITokenKeys, UserKeysDeleted, Fail, UpdateFlow, Answered, InsertToken, Tables, History
  <1> QED BY <1>1 DEF Request

LEMMA SealStep ==
  ASSUME Base, OutInv, SealInv, Next
  PROVE  SealInv'
  <1>0. db \in Tables /\ hist \in History /\ req \in [Reqs -> Task] /\ db.sess \in Partials(Session) BY DEF Base, Typed, Tables
  <1>1. CASE HandleInit \/ PruneStaleKeys \/ Evict \/ Tick \/ SetEnabled
    <2>1. /\ db'.sess = db.sess /\ hist'.keyedSid = hist.keyedSid /\ hist'.cookies = hist.cookies /\ hist'.sid = hist.sid
      BY <1>0, <1>1 DEF HandleInit, UpdateFlow, PruneStaleKeys, Evict, Tick, SetEnabled, Tables, History
    <2>2. ASSUME NEW q \in Reqs PROVE req'[q].pc = req[q].pc /\ req'[q].sid = req[q].sid
      BY <1>0, <1>1 DEF HandleInit, PruneStaleKeys, Evict, Tick, SetEnabled, Task
    <2> QED BY <2>1, <2>2 DEF SealInv, Sealed
  <1>2. ASSUME NEW r \in Reqs, Request(r) PROVE SealInv'
    <2>0. PICK w \in Task : Turn(r, w) BY <1>2, AnyTurn
    <2>01. req'[r] = w /\ (\A q \in Reqs \ {r} : req'[q] = req[q]) /\ hist.sid \in Nat BY <1>0, <2>0 DEF Turn, History, Numbers
    <2>02. ~CreateSession(r) /\ ~SetSealedUK(r) => w.pc # "cookie" BY <1>2, <2>0, SealTurn
    <2>1. CASE CreateSession(r) /\ db.exists
      <3>1. PICK v \in Session : db' = [db EXCEPT !.sess = Put(db.sess, hist.sid + 1, v)]
        <4>1. [exp |-> now + SessionTTL, sealed |-> FALSE] \in Session BY Constants DEF Session, Base, Typed
        <4> QED BY <2>1, <4>1 DEF CreateSession
      <3>2. db'.sess = Put(db.sess, hist.sid + 1, v) BY <1>0, <3>1 DEF Tables
      <3>3. DOMAIN db'.sess = DOMAIN db.sess \cup {hist.sid + 1} /\ \A s \in DOMAIN db.sess \ {hist.sid + 1} : db'.sess[s] = db.sess[s]
        BY <3>2 DEF Put
      <3>4. /\ hist'.keyedSid = hist.keyedSid \cup (IF req[r].key THEN {hist.sid + 1} ELSE {})
            /\ hist'.cookies = hist.cookies /\ hist'.sid = hist.sid + 1
        BY <1>0, <2>1 DEF CreateSession, History
      <3>5. w.pc = "cookie" => w.sid = hist.sid + 1 /\ ~req[r].key
        <4>1. CASE Step(r, "done") BY <2>01, <4>1, Stopped
        <4>2. CASE ~Step(r, "done")
          <5>1. PICK u \in Task : req' = [req EXCEPT ![r] = u] /\ u.sid = hist.sid + 1 /\ u.pc = (IF req[r].key THEN "seal" ELSE "cookie")
            BY <2>1, <4>2, SessionOne
          <5> QED BY <1>0, <2>01, <5>1
        <4> QED BY <4>1, <4>2
      <3>6. hist.sid + 1 \notin 1 .. hist.sid /\ hist.sid + 1 \in 1 .. hist'.sid /\ 1 .. hist.sid \subseteq 1 .. hist'.sid BY <2>01, <3>4
      <3>7. \A s \in 1 .. hist.sid : Sealed(s) => Sealed(s)' BY <3>3, <3>4, <3>6 DEF Sealed
      <3>8. w.pc = "cookie" => Sealed(w.sid)' BY <3>4, <3>5, <3>6 DEF Sealed, SealInv
      <3>9. \A s \in hist'.cookies : Sealed(s)' BY <3>4, <3>7 DEF SealInv, OutInv
      <3>10. ASSUME NEW q \in Reqs, req'[q].pc = "cookie" PROVE Sealed(req[q].sid)'
        <4>1. CASE q = r BY <2>01, <3>8, <3>10, <4>1
        <4>2. CASE q # r
          <5>1. PICK s \in 1 .. hist.sid : s = req[q].sid /\ Sealed(s) BY <2>01, <3>10, <4>2 DEF SealInv, OutInv
          <5>2. Sealed(s)' /\ req'[q] = req[q] BY <2>01, <3>7, <4>2, <5>1
          <5> QED BY <5>1, <5>2
        <4> QED BY <4>1, <4>2
      <3>11. hist'.keyedSid \subseteq 1 .. hist'.sid BY <3>4, <3>6 DEF SealInv
      <3> QED BY <3>9, <3>10, <3>11 DEF SealInv
    <2>2. CASE CreateSession(r) /\ ~db.exists
      <3>1. Step(r, "done") /\ db' = db /\ hist' = hist BY <2>2 DEF CreateSession
      <3>2. w.pc = "done" BY <2>01, <3>1, Stopped
      <3>3. \A s : Sealed(s) => Sealed(s)' BY <3>1 DEF Sealed
      <3> QED BY <2>0, <3>1, <3>2, <3>3, SealQuiet
    <2>3. CASE SetSealedUK(r)
      <3>1. PICK v \in Session : v.sealed = TRUE /\ db' = [db EXCEPT !.sess = [db.sess EXCEPT ![req[r].sid] = v]] /\ DOMAIN db'.sess = DOMAIN db.sess
        BY <2>3, SealRow
      <3>2. db'.sess = [db.sess EXCEPT ![req[r].sid] = v] /\ req[r].sid \in DOMAIN db.sess /\ hist' = hist /\ req[r].pc = "seal"
        BY <1>0, <2>3, <3>1 DEF SetSealedUK, At, Tables
      <3>3. \A s \in DOMAIN db.sess : db'.sess[s] = IF s = req[r].sid THEN v ELSE db.sess[s] BY <1>0, <3>2 DEF Partials
      <3>4. \A s : Sealed(s) => Sealed(s)'
        <4>1. \A s \in DOMAIN db'.sess : db.sess[s].sealed => db'.sess[s].sealed BY <3>1, <3>3
        <4> QED BY <3>1, <3>2, <4>1, SealKept
      <3>5. w.pc = "cookie" => w.sid = req[r].sid BY <2>0, <3>2 DEF Turn, Arrives, Continues, Firsts
      <3>6. w.pc = "cookie" => Sealed(w.sid)' BY <3>1, <3>2, <3>3, <3>5 DEF Sealed
      <3> QED BY <2>0, <3>2, <3>4, <3>6, SealQuiet
    <2>4. CASE TouchSession(r)
      <3>1. \A s : Sealed(s) => Sealed(s)'
        <4>1. CASE db' = db BY <2>4, <4>1 DEF Sealed, TouchSession
        <4>2. CASE db' # db
          <5>1. /\ req[r].sid \in DOMAIN db.sess
                /\ \E v \in Session : /\ v.sealed = db.sess[req[r].sid].sealed /\ DOMAIN db'.sess = DOMAIN db.sess
                                      /\ db' = [db EXCEPT !.sess = [db.sess EXCEPT ![req[r].sid] = v]]
            BY <2>4, <4>2, TouchRow
          <5>2. PICK v \in Session : /\ v.sealed = db.sess[req[r].sid].sealed /\ DOMAIN db'.sess = DOMAIN db.sess
                                     /\ db' = [db EXCEPT !.sess = [db.sess EXCEPT ![req[r].sid] = v]]
            BY <5>1
          <5>3. db'.sess = [db.sess EXCEPT ![req[r].sid] = v] BY <1>0, <5>2 DEF Tables
          <5>4. \A s \in DOMAIN db.sess : db'.sess[s] = IF s = req[r].sid THEN v ELSE db.sess[s] BY <1>0, <5>1, <5>3 DEF Partials
          <5>5. \A s \in DOMAIN db'.sess : db.sess[s].sealed => db'.sess[s].sealed BY <5>2, <5>4
          <5>6. hist' = hist BY <2>4 DEF TouchSession
          <5> QED BY <5>2, <5>5, <5>6, SealKept
        <4> QED BY <4>1, <4>2
      <3>2. hist' = hist /\ w.pc # "cookie" BY <2>4, <2>02 DEF TouchSession, CreateSession, SetSealedUK, At
      <3> QED BY <2>0, <3>1, <3>2, SealQuiet
    <2>5. CASE SealFails(r) \/ HandleLogout(r) \/ DeleteUser(r)
      <3>1. db'.sess = db.sess \/ db'.sess = <<>> \/ \E s : db'.sess = Drop(db.sess, s)
        BY <1>0, <2>5 DEF SealFails, HandleLogout, DeleteUser, Tables
      <3>2. DOMAIN db'.sess \subseteq DOMAIN db.sess /\ \A s \in DOMAIN db'.sess : db'.sess[s] = db.sess[s]
        <4>1. CASE db'.sess = db.sess BY <4>1
        <4>2. CASE db'.sess = <<>> BY <4>2
        <4>3. CASE \E s : db'.sess = Drop(db.sess, s)
          <5>1. PICK s : db'.sess = Drop(db.sess, s) BY <4>3
          <5>2. DOMAIN db'.sess = DOMAIN db.sess \ {s} BY <5>1 DEF Drop
          <5> QED BY <5>1, <5>2 DEF Drop
        <4> QED BY <3>1, <4>1, <4>2, <4>3
      <3>3. hist'.keyedSid = hist.keyedSid /\ hist'.sid = hist.sid /\ hist'.cookies = hist.cookies
        BY <1>0, <2>5 DEF SealFails, HandleLogout, DeleteUser, History
      <3>4. \A s : Sealed(s) => Sealed(s)' BY <3>2, <3>3, SealKept
      <3>5. w.pc # "cookie"
        <4>1. SealFails(r) \/ DeleteUser(r) => w.pc = "done" BY <2>01, Stopped DEF SealFails, DeleteUser
        <4>2. HandleLogout(r) => ~CreateSession(r) /\ ~SetSealedUK(r) BY DEF HandleLogout, Enter, CreateSession, SetSealedUK, At
        <4> QED BY <2>5, <2>02, <4>1, <4>2
      <3> QED BY <2>0, <3>3, <3>4, <3>5, SealQuiet
    <2>6. CASE ~(CreateSession(r) \/ SetSealedUK(r) \/ TouchSession(r) \/ SealFails(r) \/ HandleLogout(r) \/ DeleteUser(r))
      <3>1. /\ db'.sess = db.sess /\ hist'.keyedSid = hist.keyedSid /\ hist'.sid = hist.sid
            /\ hist'.cookies = hist.cookies \/ (At(r, "cookie") /\ hist'.cookies = hist.cookies \cup {req[r].sid})
        BY <1>2, <2>6, SealEffects
      <3>2. \A s : Sealed(s) => Sealed(s)' BY <3>1, SealKept
      <3> QED BY <2>0, <2>02, <2>6, <3>1, <3>2, SealQuiet
    <2> QED BY <2>1, <2>2, <2>3, <2>4, <2>5, <2>6
  <1> QED BY <1>1, <1>2 DEF Next

-----------------------------------------------------------------------------
(* An office token that was minted with the key keeps it while it is valid.*)

Live(t) == t \in DOMAIN db.wopi /\ db.wopi[t].exp > now
Wrapped(t) == Live(t) => t \in db.wopiWraps
Toks == {m.tok : m \in hist.minted}
CallOk(v, m) == v.op = "callback" /\ v.pc = "accepted" /\ v.pw = m.tok /\ m.key /\ ~v.key => ~db.exists \/ ~Live(m.tok)
WopiOne(v) ==
  /\ v.pc \in Minting => v.pw \in 1 .. hist.wopi \ Toks
  /\ v.pc = "minted" /\ v.key => Wrapped(v.pw)
  /\ v.op = "callback" /\ v.pc # "done" => v.pw \in Toks
  /\ v.pc = "gcKeys" => \A t \in v.list : t \in 1 .. hist.wopi /\ ~Live(t)
WopiInv ==
  /\ DOMAIN db.wopi \cup Toks \subseteq 1 .. hist.wopi
  /\ \A m \in hist.minted : m.key => Wrapped(m.tok)
  /\ \A r \in Reqs : WopiOne(req[r]) /\ \A m \in hist.minted : CallOk(req[r], m)
  /\ \A r, q \in Reqs : r # q /\ req[r].pc \in Minting /\ req[q].pc \in Minting => req[r].pw # req[q].pw

\* A step that mints nothing: tokens only go or run out, and a wrap goes only after
\* its token.
Fading ==
  /\ hist'.wopi = hist.wopi /\ hist'.minted = hist.minted /\ now' >= now /\ (db'.exists => db.exists)
  /\ DOMAIN db'.wopi \subseteq DOMAIN db.wopi /\ \A t \in DOMAIN db'.wopi : db'.wopi[t] = db.wopi[t]
  /\ \A t \in db.wopiWraps : t \in db'.wopiWraps \/ ~Live(t) \/ t \notin DOMAIN db'.wopi

LEMMA WopiKept ==
  ASSUME Base, Base', Fading
  PROVE  /\ \A t : Live(t)' => Live(t)
         /\ \A t : Wrapped(t) => Wrapped(t)'
         /\ \A v \in Task : WopiOne(v) => WopiOne(v)'
         /\ \A v \in Task, m \in MintedToken : CallOk(v, m) => CallOk(v, m)'
  <1>1. now \in Nat /\ now' \in Nat /\ \A t \in DOMAIN db.wopi : db.wopi[t].exp \in Nat
    BY DEF Base, Typed, Tables, Partials, WopiToken
  <1>2. \A t : Live(t)' => Live(t) BY <1>1 DEF Fading, Live
  <1>3. \A t : Wrapped(t) => Wrapped(t)' BY <1>2 DEF Fading, Wrapped, Live
  <1>4. Toks' = Toks BY DEF Fading, Toks
  <1>5. \A v \in Task : WopiOne(v) => WopiOne(v)' BY <1>2, <1>3, <1>4 DEF Fading, WopiOne
  <1>6. \A v \in Task, m \in MintedToken : CallOk(v, m) => CallOk(v, m)' BY <1>2 DEF Fading, CallOk
  <1> QED BY <1>2, <1>3, <1>5, <1>6

LEMMA WopiQuiet ==
  ASSUME Base, Base', WopiInv, Fading, NEW r \in Reqs, NEW w \in Task, Turn(r, w),
         WopiOne(w)', \A m \in hist.minted : CallOk(w, m)',
         w.pc \in Minting => req[r].pc \in Minting /\ w.pw = req[r].pw
  PROVE  WopiInv'
  <1>1. req \in [Reqs -> Task] /\ hist.minted \subseteq MintedToken BY DEF Base, Typed, History
  <1>2. req'[r] = w /\ \A q \in Reqs \ {r} : req'[q] = req[q] BY <1>1 DEF Turn
  <1>3. Toks' = Toks BY DEF Fading, Toks
  <1>4. ASSUME NEW q \in Reqs PROVE WopiOne(req[q])' /\ \A m \in hist.minted : CallOk(req[q], m)'
    <2>1. CASE q = r BY <1>2, <2>1 DEF WopiOne, CallOk, Wrapped, Live, Toks
    <2>2. CASE q # r
      <3>1. PICK v \in Task : v = req[q] BY <1>1
      <3>2. WopiOne(v) /\ \A m \in hist.minted : CallOk(v, m) BY <3>1 DEF WopiInv
      <3>3. WopiOne(v)' /\ \A m \in hist.minted : CallOk(v, m)' BY <1>1, <3>2, WopiKept
      <3>4. v = req'[q] BY <1>2, <2>2, <3>1
      <3> QED BY <3>3, <3>4 DEF WopiOne, CallOk, Wrapped, Live, Toks
    <2> QED BY <2>1, <2>2
  <1>5. \A p, q \in Reqs : p # q /\ req'[p].pc \in Minting /\ req'[q].pc \in Minting => req'[p].pw # req'[q].pw
    BY <1>2 DEF WopiInv
  <1>6. \A m \in hist.minted : m.key => Wrapped(m.tok)'
    <2> SUFFICES ASSUME NEW m \in hist.minted, m.key PROVE Wrapped(m.tok)' OBVIOUS
    <2> QED BY WopiKept DEF WopiInv
  <1>7. DOMAIN db'.wopi \cup Toks' \subseteq 1 .. hist'.wopi BY <1>3 DEF WopiInv, Fading
  <1> QED BY <1>4, <1>5, <1>6, <1>7 DEF WopiInv, Fading

\* What is known of a request that none of the three statements has just moved.
LEMMA WopiTurn ==
  ASSUME Base, Base', WopiInv, NEW r \in Reqs, Request(r), NEW w \in Task, Turn(r, w),
         ~Mint(r), ~WrapKeyForWOPIToken(r), ~UnlockForWOPIToken(r)
  PROVE  /\ WopiOne(w) /\ \A m \in hist.minted : CallOk(w, m)
         /\ w.pc \in Minting => req[r].pc \in Minting /\ w.pw = req[r].pw
  <1>1. req \in [Reqs -> Task] /\ WopiOne(req[r]) /\ Paths(req[r].op, req[r].pc) BY DEF Base, Typed, Fits, WopiInv
  <1>2. req'[r] = w BY <1>1 DEF Turn
  <1>3. Paths(w.op, w.pc) /\ w.op \in Ops BY <1>2 DEF Base, Typed, Fits, Task
  <1>4. CASE Arrives(r, w)
    <2>1. w.pc \notin Minting /\ w.pc # "accepted" BY <1>3, <1>4 DEF Arrives, Firsts, Minting, Paths, Ops
    <2>2. w.op = "callback" /\ w.pc # "done" => w.pw \in Toks
      <3> SUFFICES ASSUME w.op = "callback", w.pc # "done" PROVE w.pw \in Toks OBVIOUS
      <3>1. Authenticate(r) BY <1>4 DEF Arrives
      <3>2. PICK u \in Task : Came(r, "callback", u) /\ u.pc \in {"callUser", "done"} /\ (u.pc = "callUser" => \E m \in hist.minted : u.pw = m.tok)
        BY <3>1, CallOne
      <3>3. u = w BY <1>1, <1>2, <3>2 DEF Came
      <3> QED BY <3>2, <3>3 DEF Toks
    <2>3. w.pc = "gcKeys" => \A t \in w.list : t \in 1 .. hist.wopi /\ ~Live(t)
      <3> SUFFICES ASSUME w.pc = "gcKeys" PROVE \A t \in w.list : t \in 1 .. hist.wopi /\ ~Live(t) OBVIOUS
      <3>1. w.op = "gc" BY <1>3 DEF Paths, Ops
      <3>2. GCList(r) BY <1>4, <3>1 DEF Arrives
      <3>3. PICK u \in Task : Came(r, "gc", u) /\ u.list \subseteq ExpiredTokens BY <3>2, CleanOne
      <3>4. u = w BY <1>1, <1>2, <3>3 DEF Came
      <3> QED BY <3>3, <3>4 DEF ExpiredTokens, Fresh, Live, WopiInv
    <2> QED BY <2>1, <2>2, <2>3 DEF WopiOne, CallOk, Minting
  <1>5. CASE Continues(r, w)
    <2>1. w.pc # "done" => Does(r) BY <1>2, Doing, Stopped DEF Fail
    <2>2. w.pc # "done" => req[r].pc \notin {"wopiWrap", "callKey"} BY <2>1 DEF Does, At
    <2>3. w.pc \in Minting => req[r].pc \in Minting /\ w.pw = req[r].pw /\ w.pc # "minted"
      BY <1>5, <2>2 DEF Continues, Leads, Goes, Minting
    <2>4. w.op = "callback" /\ w.pc # "done" => req[r].op = "callback" /\ req[r].pc = "callUser" /\ w.pw = req[r].pw /\ w.pc = "callKey"
      BY <1>1, <1>3, <1>5, <2>2 DEF Continues, Leads, Goes, Paths
    <2>5. w.pc # "gcKeys" BY <1>5 DEF Continues, Leads, Goes
    <2>6. WopiOne(w) BY <1>1, <2>3, <2>4, <2>5 DEF WopiOne, Minting
    <2> QED BY <2>3, <2>4, <2>6 DEF CallOk
  <1> QED BY <1>4, <1>5 DEF Turn

LEMMA WopiFades ==
  ASSUME Base, WopiInv, NEW r \in Reqs, Request(r), ~Mint(r), ~Minted(r)
  PROVE  Fading
  <1>0. /\ db \in Tables /\ hist \in History /\ now \in Nat /\ WopiOne(req[r]) /\ req[r].pw \in Numbers
        /\ db.wopi \in Partials(WopiToken) /\ db.wopiWraps \subseteq Draws
    BY DEF Base, Typed, WopiInv, Tables, Task
  <1>00. now >= now BY <1>0
  <1>01. (db'.exists => db.exists) BY AccountKept
  <1>1. CASE WrapKeyForWOPIToken(r)
    <2>1. db'.wopi = db.wopi /\ db.wopiWraps \subseteq db'.wopiWraps /\ hist' = hist /\ now' = now BY <1>0, <1>1 DEF WrapKeyForWOPIToken, Tables
    <2> QED BY <1>00, <1>01, <2>1 DEF Fading
  <1>2. CASE MintUndo(r)
    <2>1. (db'.wopi = db.wopi \/ db'.wopi = Drop(db.wopi, req[r].pw)) /\ db'.wopiWraps = db.wopiWraps /\ hist' = hist /\ now' = now
      BY <1>0, <1>2 DEF MintUndo, Tables
    <2>2. DOMAIN db'.wopi \subseteq DOMAIN db.wopi /\ \A t \in DOMAIN db'.wopi : db'.wopi[t] = db.wopi[t]
      <3>1. CASE db'.wopi = db.wopi BY <3>1
      <3>2. CASE db'.wopi = Drop(db.wopi, req[r].pw)
        <4>1. DOMAIN db'.wopi = DOMAIN db.wopi \ {req[r].pw} BY <3>2 DEF Drop
        <4> QED BY <3>2, <4>1 DEF Drop
      <3> QED BY <2>1, <3>1, <3>2
    <2> QED BY <1>00, <1>01, <2>1, <2>2 DEF Fading
  <1>3. CASE DeleteWOPITokenKeys(r)
    <2>1. db'.wopi = db.wopi /\ db.wopiWraps \ req[r].list \subseteq db'.wopiWraps /\ hist' = hist /\ now' = now
      BY <1>0, <1>3 DEF DeleteWOPITokenKeys, Tables
    <2>2. \A t \in req[r].list : ~Live(t) BY <1>0, <1>3 DEF DeleteWOPITokenKeys, At, WopiOne
    <2> QED BY <1>00, <1>01, <2>1, <2>2 DEF Fading
  <1>4. CASE DeleteExpired(r)
    <2>1. /\ db'.wopi = db.wopi \/ db'.wopi = [t \in {u \in DOMAIN db.wopi : db.wopi[u].exp > req[r].at} |-> db.wopi[t]]
          /\ db'.wopiWraps = db.wopiWraps /\ hist' = hist /\ now' = now
      BY <1>0, <1>4 DEF DeleteExpired, Tables
    <2>2. DOMAIN db'.wopi \subseteq DOMAIN db.wopi /\ \A t \in DOMAIN db'.wopi : db'.wopi[t] = db.wopi[t]
      <3>1. CASE db'.wopi = db.wopi BY <3>1
      <3>2. CASE db'.wopi = [t \in {u \in DOMAIN db.wopi : db.wopi[u].exp > req[r].at} |-> db.wopi[t]] BY <3>2
      <3> QED BY <2>1, <3>1, <3>2
    <2> QED BY <1>00, <1>01, <2>1, <2>2 DEF Fading
  <1>5. CASE PruneWOPITokenKeys(r)
    <2>1. db'.wopi = db.wopi /\ db.wopiWraps \cap DOMAIN db.wopi \subseteq db'.wopiWraps /\ hist' = hist /\ now' = now
      BY <1>0, <1>5 DEF PruneWOPITokenKeys, Tables
    <2> QED BY <1>00, <1>01, <2>1 DEF Fading
  <1>6. CASE HandleLogout(r)
    <2>1. db'.wopi = db.wopi /\ db'.wopiWraps = db.wopiWraps /\ hist'.wopi = hist.wopi /\ hist'.minted = hist.minted /\ now' = now
      BY <1>0, <1>6 DEF HandleLogout, Tables, History
    <2> QED BY <1>00, <1>01, <2>1 DEF Fading
  <1>7. CASE \/ HandlePoll(r) \/ PollConsume(r) \/ BeginGrant(r) \/ BeginGrantUpdate(r) \/ HandleGrant(r) \/ GrantLookup(r)
             \/ IssueAppPassword(r) \/ WrapTokenRow(r) \/ WrapKeyForToken(r) \/ GrantRead(r) \/ Grant(r) \/ GetAppPassword(r)
             \/ AnswerPassword(r) \/ HandleLogin(r) \/ CreateSession(r) \/ SetSealedUK(r) \/ SealFails(r) \/ SetCookie(r)
             \/ VerifyID(r) \/ VisitUser(r) \/ TouchSession(r) \/ CachedUID(r) \/ TieredFill(r) \/ BearerLookup(r)
             \/ PrincipalForUID(r) \/ RememberUID(r) \/ AttachTokenKey(r) \/ AppPasswordVerify(r) \/ AppUnlock(r) \/ DeleteByHash(r)
             \/ OnTokenDeleted(r) \/ WopiWrapRow(r) \/ Authenticate(r) \/ CallbackUser(r) \/ UnlockForWOPIToken(r) \/ GCList(r)
             \/ UserKeysDeleted(r) \/ DeleteUser(r) \/ Fail(r)
    <2>1. db'.wopi = db.wopi /\ db'.wopiWraps = db.wopiWraps
      BY <1>0, <1>7 DEF HandlePoll, PollConsume, BeginGrant, BeginGrantUpdate, HandleGrant, GrantLookup, IssueAppPassword, WrapTokenRow, WrapKeyForToken, GrantRead, Grant, GetAppPassword, AnswerPassword, HandleLogin, CreateSession, SetSealedUK, SealFails, SetCookie, VerifyID, VisitUser, TouchSession, CachedUID, TieredFill, BearerLookup, PrincipalForUID, RememberUID, AttachTokenKey, AppPasswordVerify, AppUnlock, DeleteByHash, OnTokenDeleted, WopiWrapRow, Authenticate, CallbackUser, UnlockForWOPIToken, GCList, UserKeysDeleted, DeleteUser, Fail, UpdateFlow, InsertToken, Tables
    <2>2. hist'.wopi = hist.wopi /\ hist'.minted = hist.minted /\ now' = now
      BY <1>0, <1>7 DEF HandlePoll, PollConsume, BeginGrant, BeginGrantUpdate, HandleGrant, GrantLookup, IssueAppPassword, WrapTokenRow, WrapKeyForToken, GrantRead, Grant, GetAppPassword, AnswerPassword, HandleLogin, CreateSession, SetSealedUK, SealFails, SetCookie, VerifyID, VisitUser, TouchSession, CachedUID, TieredFill, BearerLookup, PrincipalForUID, RememberUID, AttachTokenKey, AppPasswordVerify, AppUnlock, DeleteByHash, OnTokenDeleted, WopiWrapRow, Authenticate, CallbackUser, UnlockForWOPIToken, GCList, UserKeysDeleted, DeleteUser, Fail, Answered, History
    <2> QED BY <1>00, <1>01, <2>1, <2>2 DEF Fading
  <1> QED BY <1>1, <1>2, <1>3, <1>4, <1>5, <1>6, <1>7 DEF Request

LEMMA WopiStep ==
  ASSUME Base, WopiInv, Next
  PROVE  WopiInv'
  <1>0. /\ db \in Tables /\ hist \in History /\ req \in [Reqs -> Task] /\ now \in Nat /\ hist.wopi \in Nat /\ hist.minted \subseteq MintedToken
        /\ db.wopi \in Partials(WopiToken)
    BY DEF Base, Typed, Tables, History, Numbers
  <1>01. Base' BY BaseStep
  <1>1. CASE HandleInit \/ PruneStaleKeys \/ Evict \/ Tick \/ SetEnabled
    <2>1. /\ hist'.wopi = hist.wopi /\ hist'.minted = hist.minted /\ db'.exists = db.exists
          /\ db'.wopi = db.wopi /\ db'.wopiWraps = db.wopiWraps
      BY <1>0, <1>1 DEF HandleInit, UpdateFlow, PruneStaleKeys, Evict, Tick, SetEnabled, Tables, History
    <2>2. now' >= now BY <1>0, <1>1 DEF HandleInit, PruneStaleKeys, Evict, Tick, SetEnabled
    <2>3. Fading BY <2>1, <2>2 DEF Fading
    <2>4. ASSUME NEW q \in Reqs
          PROVE  req'[q].op = req[q].op /\ req'[q].pc = req[q].pc /\ req'[q].pw = req[q].pw /\ req'[q].key = req[q].key /\ req'[q].list = req[q].list
      BY <1>0, <1>1 DEF HandleInit, PruneStaleKeys, Evict, Tick, SetEnabled, Task
    <2>5. ASSUME NEW q \in Reqs PROVE WopiOne(req[q])' /\ \A m \in hist.minted : CallOk(req[q], m)'
      <3>1. PICK v \in Task : v = req[q] BY <1>0
      <3>2. WopiOne(v) /\ \A m \in hist.minted : CallOk(v, m) BY <3>1 DEF WopiInv
      <3>3. WopiOne(v)' /\ \A m \in hist.minted : CallOk(v, m)' BY <1>0, <1>01, <2>3, <3>2, WopiKept
      <3>4. v.op = req'[q].op /\ v.pc = req'[q].pc /\ v.pw = req'[q].pw /\ v.key = req'[q].key /\ v.list = req'[q].list BY <2>4, <3>1
      <3>5. WopiOne(req[q])' BY <3>3, <3>4 DEF WopiOne, Wrapped, Live, Toks
      <3>6. \A m \in hist.minted : CallOk(req[q], m)' BY <3>3, <3>4 DEF CallOk, Live
      <3> QED BY <3>5, <3>6
    <2>6. Toks' = Toks BY <2>1 DEF Toks
    <2>7. \A m \in hist.minted : m.key => Wrapped(m.tok)'
      <3> SUFFICES ASSUME NEW m \in hist.minted, m.key PROVE Wrapped(m.tok)' OBVIOUS
      <3> QED BY <1>01, <2>3, WopiKept DEF WopiInv
    <2> QED BY <2>1, <2>4, <2>5, <2>6, <2>7 DEF WopiInv
  <1>2. ASSUME NEW r \in Reqs, Request(r) PROVE WopiInv'
    <2>0. PICK w \in Task : Turn(r, w) BY <1>2, AnyTurn
    <2>01. req'[r] = w /\ \A q \in Reqs \ {r} : req'[q] = req[q] BY <1>0, <2>0 DEF Turn
    <2>02. WopiOne(req[r]) BY DEF WopiInv
    <2>1. CASE Mint(r)
      <3>1. hist'.wopi = hist.wopi + 1 /\ hist'.minted = hist.minted /\ db'.wopiWraps = db.wopiWraps /\ db'.exists = db.exists /\ now' = now
        <4>1. hist' = [hist EXCEPT !.wopi = @ + 1] /\ db' = [db EXCEPT !.wopi = Put(@, hist.wopi + 1, [exp |-> now + WopiTTL])] /\ now' = now
          BY <2>1 DEF Mint
        <4> QED BY <1>0, <4>1 DEF Tables, History
      <3>2. db'.wopi = Put(db.wopi, hist.wopi + 1, [exp |-> now + WopiTTL]) BY <1>0, <2>1 DEF Mint, Tables
      <3>3. DOMAIN db'.wopi = DOMAIN db.wopi \cup {hist.wopi + 1} /\ \A t \in DOMAIN db.wopi \ {hist.wopi + 1} : db'.wopi[t] = db.wopi[t]
        BY <3>2 DEF Put
      <3>4. w.pw = hist.wopi + 1 /\ w.pc = (IF w.key THEN "wopiRow" ELSE "minted") /\ w.op = "mint"
        <4>1. PICK u \in Task : Came(r, "mint", u) /\ u.pw = hist.wopi + 1 /\ u.pc = IF u.key THEN "wopiRow" ELSE "minted"
          BY <2>1, MintOne
        <4> QED BY <1>0, <2>01, <4>1 DEF Came
      <3>5. hist.wopi + 1 \notin 1 .. hist.wopi /\ hist.wopi + 1 \in 1 .. hist'.wopi /\ 1 .. hist.wopi \subseteq 1 .. hist'.wopi BY <1>0, <3>1
      <3>6. Toks' = Toks /\ hist.wopi + 1 \notin Toks BY <3>1, <3>5 DEF Toks, WopiInv
      <3>7. \A t \in 1 .. hist.wopi : (Live(t)' <=> Live(t)) /\ (Wrapped(t)' <=> Wrapped(t)) BY <3>1, <3>3, <3>5 DEF Live, Wrapped
      <3>8. ASSUME NEW q \in Reqs \ {r} PROVE WopiOne(req[q])' /\ \A m \in hist.minted : CallOk(req[q], m)'
        <4>1. PICK v \in Task : v = req[q] /\ v = req'[q] BY <1>0, <2>01
        <4>2. WopiOne(v) /\ \A m \in hist.minted : CallOk(v, m) BY <4>1 DEF WopiInv
        <4>3. WopiOne(v)' BY <3>5, <3>6, <3>7, <4>2 DEF WopiOne, Minting
        <4>4. \A m \in hist.minted : m.tok \in 1 .. hist.wopi BY DEF WopiInv, Toks
        <4>5. \A m \in hist.minted : CallOk(v, m)' BY <3>1, <3>7, <4>2, <4>4 DEF CallOk
        <4>6. WopiOne(req[q])' BY <4>1, <4>3 DEF WopiOne, Wrapped, Live, Toks
        <4>7. \A m \in hist.minted : CallOk(req[q], m)' BY <4>1, <4>5 DEF CallOk, Live
        <4> QED BY <4>6, <4>7
      <3>9. WopiOne(req[r])' /\ \A m \in hist.minted : CallOk(req[r], m)'
        <4>1. WopiOne(w)' BY <3>4, <3>5, <3>6 DEF WopiOne
        <4>2. WopiOne(req[r])' BY <2>01, <4>1 DEF WopiOne, Wrapped, Live, Toks
        <4> QED BY <2>01, <3>4, <4>2 DEF CallOk
      <3>10. \A p, q \in Reqs : p # q /\ req'[p].pc \in Minting /\ req'[q].pc \in Minting => req'[p].pw # req'[q].pw
        <4>1. \A q \in Reqs \ {r} : req'[q].pc \in Minting => req'[q].pw \in 1 .. hist.wopi BY <2>01 DEF WopiInv, WopiOne
        <4> QED BY <2>01, <3>4, <3>5, <4>1 DEF WopiInv
      <3>11. \A m \in hist.minted : m.key => Wrapped(m.tok)'
        <4> SUFFICES ASSUME NEW m \in hist.minted, m.key PROVE Wrapped(m.tok)' OBVIOUS
        <4>1. m.tok \in 1 .. hist.wopi /\ Wrapped(m.tok) BY DEF WopiInv, Toks
        <4> QED BY <3>7, <4>1
      <3>12. DOMAIN db'.wopi \cup Toks' \subseteq 1 .. hist'.wopi BY <3>3, <3>5, <3>6 DEF WopiInv
      <3> QED BY <3>1, <3>8, <3>9, <3>10, <3>11, <3>12 DEF WopiInv
    <2>2. CASE Minted(r)
      <3>1. PICK n \in MintedToken : /\ n.tok = req[r].pw /\ n.key = req[r].key
                                     /\ hist'.minted = hist.minted \cup {n} /\ hist'.wopi = hist.wopi
        <4>1. [tok |-> req[r].pw, key |-> req[r].key, exp |-> now] \in MintedToken BY <1>0 DEF MintedToken, Task
        <4>2. PICK n \in MintedToken : n = [tok |-> req[r].pw, key |-> req[r].key, exp |-> now] BY <4>1
        <4>3. hist'.minted = hist.minted \cup {n} /\ hist'.wopi = hist.wopi BY <1>0, <2>2, <4>2 DEF Minted, History
        <4> QED BY <4>2, <4>3
      <3>2. db' = db /\ now' = now /\ req[r].pc = "minted" BY <2>2 DEF Minted, At
      <3>3. w.pc = "done" BY <2>01, <2>2, Stopped DEF Minted
      <3>4. n.tok \in 1 .. hist.wopi \ Toks /\ (n.key => Wrapped(n.tok)) BY <2>02, <3>1, <3>2 DEF WopiOne, Minting
      <3>5. Toks' = Toks \cup {n.tok} BY <3>1 DEF Toks
      <3>6. \A t : (Live(t)' <=> Live(t)) /\ (Wrapped(t)' <=> Wrapped(t)) BY <3>2 DEF Live, Wrapped
      <3>7. ASSUME NEW q \in Reqs \ {r} PROVE WopiOne(req[q])' /\ \A m \in hist'.minted : CallOk(req[q], m)'
        <4>1. PICK v \in Task : v = req[q] /\ v = req'[q] BY <1>0, <2>01
        <4>2. WopiOne(v) /\ \A m \in hist.minted : CallOk(v, m) BY <4>1 DEF WopiInv
        <4>3. v.pc \in Minting => v.pw # n.tok BY <3>1, <3>2, <4>1 DEF WopiInv, Minting
        <4>4. WopiOne(v)' BY <3>1, <3>5, <3>6, <4>2, <4>3 DEF WopiOne
        <4>5. CallOk(v, n) BY <3>4, <4>2 DEF CallOk, WopiOne
        <4>6. \A m \in hist'.minted : CallOk(v, m)' BY <3>1, <3>2, <3>6, <4>2, <4>5 DEF CallOk
        <4>7. WopiOne(req[q])' BY <4>1, <4>4 DEF WopiOne, Wrapped, Live, Toks
        <4>8. \A m \in hist'.minted : CallOk(req[q], m)' BY <4>1, <4>6 DEF CallOk, Live
        <4> QED BY <4>7, <4>8
      <3>8. WopiOne(req[r])' /\ \A m \in hist'.minted : CallOk(req[r], m)'
        BY <2>01, <3>3 DEF WopiOne, CallOk, Minting
      <3>9. \A p, q \in Reqs : p # q /\ req'[p].pc \in Minting /\ req'[q].pc \in Minting => req'[p].pw # req'[q].pw
        BY <2>01, <3>3 DEF WopiInv, Minting
      <3>10. \A m \in hist'.minted : m.key => Wrapped(m.tok)'
        <4> SUFFICES ASSUME NEW m \in hist'.minted, m.key PROVE Wrapped(m.tok)' OBVIOUS
        <4>1. Wrapped(m.tok) BY <3>1, <3>4 DEF WopiInv
        <4> QED BY <3>6, <4>1
      <3>11. DOMAIN db'.wopi \cup Toks' \subseteq 1 .. hist'.wopi BY <3>1, <3>2, <3>4, <3>5 DEF WopiInv
      <3> QED BY <3>7, <3>8, <3>9, <3>10, <3>11 DEF WopiInv
    <2>3. CASE WrapKeyForWOPIToken(r)
      <3>1. Fading BY <1>2, <2>3, WopiFades DEF WrapKeyForWOPIToken, Mint, Minted, Enter, At
      <3>2. req[r].pc = "wopiWrap" /\ w.pc \in {"minted", "mintUndo"} /\ (w.pc = "minted" => req[r].pw \in db'.wopiWraps)
        <4>1. At(r, "wopiWrap") BY <2>3 DEF WrapKeyForWOPIToken
        <4>2. PICK pc \in {"minted", "mintUndo"} : Step(r, pc) /\ (pc = "minted" => req[r].pw \in db'.wopiWraps)
          BY <1>0, <2>3 DEF WrapKeyForWOPIToken, Tables
        <4>3. PICK u \in Task : Moved(r, pc, u) BY <4>2, StepOne, Names DEF Base
        <4> QED BY <1>0, <2>01, <4>1, <4>2, <4>3 DEF Moved, At
      <3>3. w.pw = req[r].pw /\ w.op = req[r].op BY <2>0, <3>2 DEF Turn, Arrives, Continues, Idle
      <3>4. req[r].op = "mint" BY <1>0, <3>2 DEF Base, Fits, Paths, Task, Ops
      <3>5. w.pw \in 1 .. hist'.wopi \ Toks' BY <2>02, <3>1, <3>2, <3>3 DEF WopiOne, Minting, Fading, Toks
      <3>6. WopiOne(w)' BY <3>2, <3>3, <3>4, <3>5 DEF WopiOne, Wrapped
      <3>7. \A m \in hist.minted : CallOk(w, m)' BY <3>2 DEF CallOk
      <3> QED BY <1>01, <2>0, <3>1, <3>2, <3>3, <3>6, <3>7, WopiQuiet DEF Minting
    <2>4. CASE UnlockForWOPIToken(r)
      <3>1. Fading BY <1>2, <2>4, WopiFades DEF UnlockForWOPIToken, Mint, Minted, Enter, At
      <3>2. /\ w.pc = "accepted" /\ w.key = (req[r].pw \in db.wopiWraps \cap DOMAIN db.wopi /\ db.exists)
            /\ w.pw = req[r].pw /\ w.op = req[r].op
        <4>1. PICK u \in Task : /\ req' = [req EXCEPT ![r] = u]
                                /\ u.pc = "accepted" /\ u.key = (req[r].pw \in db.wopiWraps \cap DOMAIN db.wopi /\ db.exists)
                                /\ u.pw = req[r].pw /\ u.op = req[r].op
          BY <2>4, CallbackOne
        <4> QED BY <1>0, <2>01, <4>1
      <3>3. req[r].pc = "callKey" BY <2>4 DEF UnlockForWOPIToken, At
      <3>4. WopiOne(w) BY <2>02, <3>2, <3>3 DEF WopiOne, Minting
      <3>5. ASSUME NEW m \in hist.minted PROVE CallOk(w, m)
        <4>1. m.key => Wrapped(m.tok) BY DEF WopiInv
        <4> QED BY <3>2, <4>1 DEF CallOk, Wrapped, Live
      <3>6. WopiOne(w)' /\ \A m \in hist.minted : CallOk(w, m)' BY <1>0, <1>01, <3>1, <3>4, <3>5, WopiKept
      <3> QED BY <1>01, <2>0, <3>1, <3>2, <3>6, WopiQuiet DEF Minting
    <2>5. CASE ~(Mint(r) \/ Minted(r) \/ WrapKeyForWOPIToken(r) \/ UnlockForWOPIToken(r))
      <3>1. Fading BY <1>2, <2>5, WopiFades
      <3>2. /\ WopiOne(w) /\ \A m \in hist.minted : CallOk(w, m)
            /\ w.pc \in Minting => req[r].pc \in Minting /\ w.pw = req[r].pw
        BY <1>2, <1>01, <2>0, <2>5, WopiTurn
      <3>3. WopiOne(w)' /\ \A m \in hist.minted : CallOk(w, m)' BY <1>0, <1>01, <3>1, <3>2, WopiKept
      <3> QED BY <1>01, <2>0, <3>1, <3>2, <3>3, WopiQuiet
    <2> QED BY <2>1, <2>2, <2>3, <2>4, <2>5
  <1> QED BY <1>1, <1>2 DEF Next

LEMMA CredentialsInit == Init => PwInv /\ SealInv /\ WopiInv
  <1> SUFFICES ASSUME Init PROVE PwInv /\ SealInv /\ WopiInv OBVIOUS
  <1>1. \A r \in Reqs : req[r].pc = "idle" /\ req[r].op = "none" BY DEF Init, Idle
  <1>2. PICK n \in 0 .. MaxDraw : scene.apps = 1 .. n BY AccessAssumption DEF Init
  <1>3. n \in Nat /\ Cardinality(1 .. n) = n BY <1>2, Constants, FS_Interval
  <1>4. /\ hist.pw = n /\ hist.given = 1 .. n /\ hist.granted = {} /\ db.apps = 1 .. n
        /\ hist.keyed = db.wraps /\ db.wraps \subseteq 1 .. n
    BY <1>2, <1>3 DEF Init
  <1>5. PwInv BY <1>1, <1>4 DEF PwInv, PwOne, Copied
  <1>6. SealInv BY <1>1 DEF SealInv, Init
  <1>7. hist.minted = {} /\ db.wopi = <<>> /\ hist.wopi = 0 BY DEF Init
  <1>8. WopiInv BY <1>1, <1>7 DEF WopiInv, WopiOne, Toks, Minting
  <1> QED BY <1>5, <1>6, <1>8

\* Credentials work (web/login_v2.go, ocs/apppassword.go, web/login.go, wopi): every
\* app password and session that leaves the server for someone who holds the key
\* carries its copy as long as it is valid, and a callback acts without the key its
\* token was minted with only when the token ran out or the account went, for any
\* number of requests, credentials and ticks and whatever statements fail.
THEOREM CredentialsHold == Spec => []CredentialsWork
  <1> DEFINE IInv == Base /\ FInv /\ OutInv /\ PwInv /\ SealInv /\ WopiInv
  <1>1. Init => IInv BY BaseInit, FlowInit, ShutInit, CredentialsInit
  <1>2. IInv /\ [Next]_vars => IInv'
    <2> SUFFICES ASSUME IInv, [Next]_vars PROVE IInv' OBVIOUS
    <2>1. Base' BY BaseStep
    <2>2. CASE Next BY <2>1, <2>2, FlowStep, OutStep, PwStep, SealStep, WopiStep
    <2>3. CASE UNCHANGED vars
      BY <2>1, <2>3 DEF vars, FInv, FlowFresh, Counted, DrawnFresh, OutInv, LoggedOutStaysOut, PwInv, PwOne, Copied, Deleting,
         SealInv, Sealed, WopiInv, WopiOne, CallOk, Wrapped, Live, Toks
    <2> QED BY <2>2, <2>3
  <1>3. IInv => CredentialsWork
    <2> SUFFICES ASSUME IInv PROVE CredentialsWork OBVIOUS
    <2>1. TypeOK BY BaseTypes
    <2>2. GivenOutUsable BY DEF GivenOutUsable, PwInv, Copied, Deleting, SealInv, Sealed
    <2>3. CallbackKeepsKey
      <3>1. now \in Nat /\ \A t \in DOMAIN db.wopi : db.wopi[t].exp \in Nat BY DEF Base, Typed, Tables, Partials, WopiToken
      <3> QED BY <3>1 DEF CallbackKeepsKey, WopiInv, CallOk, Live
    <2> QED BY <2>1, <2>2, <2>3 DEF CredentialsWork
  <1> QED BY <1>1, <1>2, <1>3, PTL DEF Spec
=============================================================================
