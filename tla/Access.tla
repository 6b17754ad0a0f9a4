------------------------------- MODULE Access -------------------------------
(***************************************************************************)
(* How requests get in: the login flow of the desktop clients (login,      *)
(* web/login_v2.go), browser logins and sessions (web/login.go, session),  *)
(* app passwords and bearer tokens with their cache (auth, cache), and the *)
(* tokens of the office callbacks (wopi).                                  *)
(*                                                                         *)
(* One account, called the user.  A step of a request is one SQL statement *)
(* or one cache call, so requests interleave between statements, and any   *)
(* statement may fail, which ends the request where it stands.  Credentials*)
(* are numbers in the order they are drawn; key material is the fact that  *)
(* a credential carries a copy of the user's private key.                  *)
(***************************************************************************)
EXTENDS Integers, FiniteSets

CONSTANTS
  Scenes,      \* the situations to look at: records of operations and bounds
  Reqs,        \* requests, numbered as they come in, each performing one operation
  Nodes,       \* server processes, each with its memory cache
  TokenTTL,    \* bearer.go tokenCacheTTL, in ticks
  FillTTL,     \* cache.go defaultFillTTL, in ticks
  FlowTTL, SessionTTL, WopiTTL,   \* lifetimes in ticks
  MaxDraw      \* bound: credentials of one kind ever drawn

ASSUME AccessAssumption ==
  /\ {TokenTTL, FillTTL, FlowTTL, SessionTTL, WopiTTL, MaxDraw} \subseteq Nat \ {0}
  /\ Reqs \subseteq Nat
  /\ \A s \in Scenes :
       /\ s.maxTime \in Nat /\ s.size \in Nat /\ {s.enrolled, s.faults, s.admin} \subseteq BOOLEAN
       /\ \E n \in 0 .. MaxDraw : s.apps = 1 .. n
       /\ "bearer" \in s.ops => 1 \in s.apps   \* the token that is presented was issued

VARIABLES
  scene,       \* the situation of this behaviour; it never changes
  now,         \* the clock
  db,          \* the tables: see Tables
  cache,       \* the uid of app password 1 as cached: lifetimes left
  req,         \* the requests
  hist         \* history: what was drawn, given out and taken back

vars == <<scene, now, db, cache, req, hist>>

None == 0
Draws == 1 .. MaxDraw

(***************************************************************************)
(* Tables.  A flow row keeps its state, its state token and the password;  *)
(* apps and wraps are app_passwords and app_token_keys; sessions and       *)
(* wopi_tokens are partial functions from the id.                          *)
(***************************************************************************)
NoFlow == [state |-> "none", st |-> None, pw |-> None, exp |-> 0]
FlowRows == [state : {"none", "pending", "granted", "consumed"}, st : 0 .. MaxDraw, pw : 0 .. MaxDraw, exp : Nat]
Session == [exp : Nat, sealed : BOOLEAN]
WopiToken == [exp : Nat]

Drop(f, k) == [x \in DOMAIN f \ {k} |-> f[x]]
Put(f, k, v) == [x \in DOMAIN f \cup {k} |-> IF x = k THEN v ELSE f[x]]

Idle == [op |-> "none", pc |-> "idle", node |-> None, row |-> NoFlow, st |-> None, pw |-> None, sid |-> None, key |-> FALSE,
         off |-> FALSE, seen |-> {}, since |-> 0, at |-> 0, list |-> {}]
Ended == {"idle", "done", "accepted"}

Init ==
  /\ scene \in Scenes
  /\ now = 0
  /\ db = [exists |-> TRUE, enabled |-> TRUE, flow |-> NoFlow, apps |-> scene.apps, wraps |-> IF scene.enrolled THEN scene.apps ELSE {},
           sess |-> <<>>, wopi |-> <<>>, wopiWraps |-> {}]
  /\ cache = [l1 |-> [n \in Nodes |-> 0], l2 |-> 0]
  /\ req = [r \in Reqs |-> Idle]
  /\ hist = [pw |-> Cardinality(scene.apps), st |-> 0, sid |-> 0, wopi |-> 0,
             granted |-> {}, handed |-> {}, given |-> scene.apps, keyed |-> IF scene.enrolled THEN scene.apps ELSE {},
             cookies |-> {}, keyedSid |-> {}, out |-> {}, minted |-> {}, links |-> {}, stale |-> 0]

Step(r, pc) == req' = [req EXCEPT ![r] = IF pc = "done" THEN [Idle EXCEPT !.pc = pc, !.op = req[r].op, !.seen = req[r].seen]
                                         ELSE [req[r] EXCEPT !.pc = pc]]
At(r, pc) == req[r].pc = pc
Refused == [Idle EXCEPT !.pc = "done"]
\* A request comes in: v is what its first statement leaves behind.
Enter(r, op, v) ==
  /\ At(r, "idle") /\ op \in scene.ops
  /\ r <= scene.size /\ \A q \in Reqs : q < r => ~At(q, "idle")
  /\ req' = [req EXCEPT ![r] = [v EXCEPT !.op = op, !.off = ~(db.exists /\ db.enabled), !.since = hist.stale]]

\* Steps whose failure the code passes over, or cleans up after (see SealFails, MintUndo).
Tolerant == {"seal", "wopiWrap", "mintUndo", "gcKeys", "gcRows", "gcPrune", "fill", "rememberL1", "rememberL2", "touch", "dropWrap"}

(* A statement of the request fails, or its client goes away. *)
Fail(r) ==
  /\ scene.faults /\ req[r].pc \notin Ended \cup Tolerant
  /\ Step(r, "done")
  /\ UNCHANGED <<scene, now, db, cache, hist>>

-----------------------------------------------------------------------------
(* The login flow: login/v2.go over login/sqlstore.go.  Every update writes *)
(* the whole row the request read before.                                   *)

NewFlow == [state |-> "pending", st |-> None, pw |-> None, exp |-> now + FlowTTL]
UpdateFlow(row) == db' = [db EXCEPT !.flow = row]

HandleInit ==
  /\ "poll" \in scene.ops /\ db.flow.state = "none"
  /\ UpdateFlow(NewFlow)
  /\ UNCHANGED <<scene, now, cache, req, hist>>

Expired(row) == now > row.exp

HandlePoll(r) ==
  /\ Enter(r, "poll", IF db.flow.state # "granted" \/ Expired(db.flow) THEN Refused
                      ELSE [Idle EXCEPT !.pc = "consume", !.row = db.flow, !.seen = hist.handed])
  /\ UNCHANGED <<scene, now, db, cache, hist>>

Answered(r) ==
  /\ hist' = [hist EXCEPT !.handed = @ \cup {req[r].row.pw}, !.given = @ \cup {req[r].row.pw}]
  /\ req' = [req EXCEPT ![r] = [Idle EXCEPT !.pc = "done", !.op = "poll", !.pw = req[r].row.pw, !.seen = req[r].seen]]

PollLeavesRow(r) ==
  /\ At(r, "consume")
  /\ Answered(r)
  /\ UNCHANGED <<scene, now, db, cache>>

PollConsume(r) ==
  /\ At(r, "consume")
  /\ UpdateFlow([req[r].row EXCEPT !.state = "consumed"])
  /\ Answered(r)
  /\ UNCHANGED <<scene, now, cache>>

\* The browser follows the login link (HandleFlowToken) and is sent on with a
\* fresh state token.
BeginGrant(r) ==
  /\ Enter(r, "begin", IF db.flow.state # "pending" \/ Expired(db.flow) THEN Refused
                       ELSE [Idle EXCEPT !.pc = "newState", !.row = db.flow])
  /\ UNCHANGED <<scene, now, db, cache, hist>>

BeginGrantUpdate(r) ==
  /\ At(r, "newState") /\ hist.st < MaxDraw
  /\ hist' = [hist EXCEPT !.st = @ + 1, !.links = @ \cup {hist.st + 1}]
  /\ UpdateFlow([req[r].row EXCEPT !.st = hist.st + 1])
  /\ Step(r, "done")
  /\ UNCHANGED <<scene, now, cache>>

LookupState(st) == db.flow.st = st /\ ~Expired(db.flow) /\ db.flow.state = "pending"

-----------------------------------------------------------------------------
(* Who asks.  A password login of an enrolled user unlocks the private key; *)
(* an app password carries it when its wrap row exists.  PasswordVerifier   *)
(* reads the enabled flag, AppPasswordVerifier does not.                    *)

PasswordVerify == db.exists /\ db.enabled
UnlockForLogin == scene.enrolled
GetByHash(p) == p \in db.apps
UnlockForToken(p) == p \in db.apps \cap db.wraps

\* HandleGrant from a browser that holds a state token: requireAuth by
\* ChainVerifier (password first, then app password), then LookupState.
HandleGrant(r) ==
  /\ \E st \in hist.links :
       \/ /\ PasswordVerify
          /\ Enter(r, "grant", [Idle EXCEPT !.pc = "lookup", !.st = st, !.key = UnlockForLogin])
       \/ \E p \in hist.given :
            /\ GetByHash(p)
            /\ Enter(r, "grantApp", [Idle EXCEPT !.pc = "lookup", !.st = st, !.key = UnlockForToken(p)])
  /\ UNCHANGED <<scene, now, db, cache, hist>>

GrantLookup(r) ==
  /\ At(r, "lookup")
  /\ Step(r, IF LookupState(req[r].st) THEN "issue" ELSE "done")
  /\ UNCHANGED <<scene, now, db, cache, hist>>

GrantBeforeWrap(r) ==
  /\ At(r, "issue") /\ hist.pw < MaxDraw /\ req[r].op # "issue"
  /\ LET p == hist.pw + 1 IN
       /\ db' = [db EXCEPT !.apps = @ \cup (IF db.exists THEN {p} ELSE {}),
                           !.flow = [@ EXCEPT !.state = "granted", !.pw = p, !.st = None]]
       /\ hist' = [hist EXCEPT !.pw = p, !.keyed = @ \cup (IF req[r].key THEN {p} ELSE {}), !.granted = @ \cup {p}]
       /\ req' = [req EXCEPT ![r].pw = p, ![r].pc = IF req[r].key THEN "tokenRow" ELSE "record"]
  /\ UNCHANGED <<scene, now, cache>>

\* INSERT ... SELECT FROM users: inserts nothing, and reports no error, when the user is gone.
InsertToken(p) == db' = [db EXCEPT !.apps = @ \cup (IF db.exists THEN {p} ELSE {})]

IssueAppPassword(r) ==
  /\ At(r, "issue") /\ hist.pw < MaxDraw
  /\ LET p == hist.pw + 1 IN
       /\ InsertToken(p)
       /\ hist' = [hist EXCEPT !.pw = p, !.keyed = @ \cup (IF req[r].key THEN {p} ELSE {})]
       /\ req' = [req EXCEPT ![r].pw = p, ![r].pc = IF req[r].key THEN "tokenRow" ELSE "record"]
  /\ UNCHANGED <<scene, now, cache>>

\* WrapKeyForToken: the owner is read from the token row, then the wrap is
\* inserted; no constraint ties the two tables together.
WrapTokenRow(r) ==
  /\ At(r, "tokenRow")
  /\ Step(r, IF GetByHash(req[r].pw) THEN "wrap" ELSE "done")
  /\ UNCHANGED <<scene, now, db, cache, hist>>

WrapKeyForToken(r) ==
  /\ At(r, "wrap")
  /\ db' = [db EXCEPT !.wraps = @ \cup {req[r].pw}]
  /\ Step(r, "record")
  /\ UNCHANGED <<scene, now, cache, hist>>

\* What the password is issued for: a flow (Grant reads the row again), or
\* the answer of the OCS getapppassword call.
GrantRead(r) ==
  /\ At(r, "record") /\ req[r].op # "issue"
  /\ IF LookupState(req[r].st)
     THEN req' = [req EXCEPT ![r].pc = "grantUpdate", ![r].row = db.flow]
     ELSE Step(r, "done")
  /\ UNCHANGED <<scene, now, db, cache, hist>>

Grant(r) ==
  /\ At(r, "grantUpdate")
  /\ UpdateFlow([req[r].row EXCEPT !.state = "granted", !.pw = req[r].pw, !.st = None])
  /\ hist' = [hist EXCEPT !.granted = @ \cup {req[r].pw}]
  /\ Step(r, "session")
  /\ UNCHANGED <<scene, now, cache>>

\* ocs/apppassword.go: the request got in by a session, which may hold the key.
GetAppPassword(r) ==
  /\ At(r, "accepted") /\ req[r].op = "issue"
  /\ Step(r, "issue")
  /\ UNCHANGED <<scene, now, db, cache, hist>>

AnswerPassword(r) ==
  /\ At(r, "record") /\ req[r].op = "issue"
  /\ hist' = [hist EXCEPT !.given = @ \cup {req[r].pw}]
  /\ Step(r, "done")
  /\ UNCHANGED <<scene, now, db, cache>>

-----------------------------------------------------------------------------
(* Sessions: session/sqlstore.go.  A login that holds the key seals a copy  *)
(* onto the new row before the cookie leaves the server.                    *)

\* The form takes the account's password or an app password.
HandleLogin(r) ==
  /\ \/ Enter(r, "login", IF PasswordVerify THEN [Idle EXCEPT !.pc = "session", !.key = UnlockForLogin] ELSE Refused)
     \/ \E p \in hist.given : GetByHash(p) /\ Enter(r, "login", [Idle EXCEPT !.pc = "session", !.key = UnlockForToken(p)])
  /\ UNCHANGED <<scene, now, db, cache, hist>>

\* GetByUID and the INSERT (which the foreign key refuses once the user is gone).
CreateSession(r) ==
  /\ At(r, "session") /\ hist.sid < MaxDraw
  /\ IF ~db.exists
     THEN Step(r, "done") /\ UNCHANGED <<db, hist>>
     ELSE LET sid == hist.sid + 1 IN
            /\ db' = [db EXCEPT !.sess = Put(@, sid, [exp |-> now + SessionTTL, sealed |-> FALSE])]
            /\ hist' = [hist EXCEPT !.sid = sid, !.keyedSid = @ \cup (IF req[r].key THEN {sid} ELSE {})]
            /\ req' = [req EXCEPT ![r].sid = sid, ![r].pc = IF req[r].key THEN "seal" ELSE "cookie"]
  /\ UNCHANGED <<scene, now, cache>>

SetSealedUK(r) ==
  /\ At(r, "seal") /\ req[r].sid \in DOMAIN db.sess
  /\ db' = [db EXCEPT !.sess[req[r].sid].sealed = TRUE]
  /\ Step(r, "cookie")
  /\ UNCHANGED <<scene, now, cache, hist>>

\* Sealing failed, or the row is gone: the session is deleted, which may fail
\* as well, and the login ends without a cookie.
SealFails(r) ==
  /\ At(r, "seal") /\ (scene.faults \/ req[r].sid \notin DOMAIN db.sess)
  /\ Step(r, "done")
  /\ \/ db' = [db EXCEPT !.sess = Drop(@, req[r].sid)]
     \/ scene.faults /\ db' = db
  /\ UNCHANGED <<scene, now, cache, hist>>

SetCookie(r) ==
  /\ At(r, "cookie")
  /\ hist' = [hist EXCEPT !.cookies = @ \cup {req[r].sid}]
  /\ Step(r, "done")
  /\ UNCHANGED <<scene, now, db, cache>>

HandleLogout(r) ==
  /\ \E sid \in hist.cookies :
       /\ Enter(r, "logout", [Refused EXCEPT !.sid = sid])
       /\ db' = [db EXCEPT !.sess = Drop(@, sid)]
       /\ hist' = [hist EXCEPT !.out = @ \cup {sid}]
  /\ UNCHANGED <<scene, now, cache>>

\* The row exists and has not run out: sessions and office tokens alike.
Fresh(table, id) == id \in DOMAIN table /\ table[id].exp > now

\* SessionVerifier.VerifyID: the row and its expiry, the user, the key copy, Touch.
VerifyID(r) ==
  /\ \E sid \in hist.cookies, op \in {"visit", "issue"} :
       Enter(r, op, IF Fresh(db.sess, sid) THEN [Idle EXCEPT !.pc = "visitUser", !.sid = sid, !.key = db.sess[sid].sealed]
                    ELSE Refused)
  /\ UNCHANGED <<scene, now, db, cache, hist>>

VisitUser(r) ==
  /\ At(r, "visitUser")
  /\ Step(r, IF db.exists /\ db.enabled THEN "touch" ELSE "done")
  /\ UNCHANGED <<scene, now, db, cache, hist>>

TouchReplaces(r) ==
  /\ At(r, "touch")
  /\ Step(r, "accepted")
  /\ db' = [db EXCEPT !.sess = Put(@, req[r].sid, [exp |-> now + SessionTTL, sealed |-> req[r].key])]
  /\ UNCHANGED <<scene, now, cache, hist>>

\* UPDATE ... WHERE id: a row deleted meanwhile stays deleted; a failure is ignored.
TouchSession(r) ==
  /\ At(r, "touch")
  /\ Step(r, "accepted")
  /\ \/ /\ req[r].sid \in DOMAIN db.sess
        /\ db' = [db EXCEPT !.sess[req[r].sid].exp = now + SessionTTL]
     \/ (scene.faults \/ req[r].sid \notin DOMAIN db.sess) /\ db' = db
  /\ UNCHANGED <<scene, now, cache, hist>>

-----------------------------------------------------------------------------
(* Bearer tokens.  All of them present app password 1.  The uid of a token  *)
(* is cached per node in memory and, behind it, in a cache all nodes share; *)
(* nothing removes it but its lifetime.                                     *)

Tok == 1

\* Tiered.Get: memory first, the shared cache next.
CachedUID(r) ==
  /\ \E n \in Nodes :
       Enter(r, "bearer", [Idle EXCEPT !.node = n,
             !.pc = IF cache.l1[n] > 0 THEN "bearerUser" ELSE IF cache.l2 > 0 THEN "fill" ELSE "bearerRow"])
  /\ UNCHANGED <<scene, now, db, cache, hist>>

FillExtends(r) ==
  /\ At(r, "fill")
  /\ cache' = [cache EXCEPT !.l1[req[r].node] = cache.l2 + TokenTTL]
  /\ Step(r, "bearerUser")
  /\ UNCHANGED <<scene, now, db, hist>>

\* A hit in the shared cache fills the memory of this node with a lifetime of its own.
TieredFill(r) ==
  /\ At(r, "fill")
  /\ \/ cache' = [cache EXCEPT !.l1[req[r].node] = FillTTL]
     \/ cache' = cache
  /\ Step(r, "bearerUser")
  /\ UNCHANGED <<scene, now, db, hist>>

BearerLookup(r) ==
  /\ At(r, "bearerRow")
  /\ Step(r, IF GetByHash(Tok) THEN "bearerMiss" ELSE "done")
  /\ UNCHANGED <<scene, now, db, cache, hist>>

HitSkipsUser(r) ==
  /\ req[r].pc \in {"bearerUser", "bearerMiss"}
  /\ Step(r, IF At(r, "bearerUser") THEN "attach" ELSE IF ~(db.exists /\ db.enabled) THEN "done" ELSE "rememberL1")
  /\ UNCHANGED <<scene, now, db, cache, hist>>

\* principalForUID reads the user on a hit as well as on a miss; only a miss
\* stores the uid.
PrincipalForUID(r) ==
  /\ req[r].pc \in {"bearerUser", "bearerMiss"}
  /\ Step(r, IF ~(db.exists /\ db.enabled) THEN "done" ELSE IF At(r, "bearerMiss") THEN "rememberL1" ELSE "attach")
  /\ UNCHANGED <<scene, now, db, cache, hist>>

RememberLonger(r) ==
  /\ \/ /\ At(r, "rememberL1")
        /\ cache' = [cache EXCEPT !.l1[req[r].node] = TokenTTL + FillTTL]
        /\ Step(r, "rememberL2")
     \/ /\ At(r, "rememberL2")
        /\ cache' = [cache EXCEPT !.l2 = TokenTTL]
        /\ Step(r, "attach")
  /\ UNCHANGED <<scene, now, db, hist>>

\* rememberUID by Tiered.Set: a memory cache that refuses the entry leaves the
\* shared one alone; errors are ignored.
RememberUID(r) ==
  /\ \/ /\ At(r, "rememberL1")
        /\ \/ cache' = [cache EXCEPT !.l1[req[r].node] = TokenTTL] /\ Step(r, "rememberL2")
           \/ cache' = cache /\ Step(r, "attach")
     \/ /\ At(r, "rememberL2")
        /\ cache' \in {cache, [cache EXCEPT !.l2 = TokenTTL]}
        /\ Step(r, "attach")
  /\ UNCHANGED <<scene, now, db, hist>>

AttachTokenKey(r) ==
  /\ At(r, "attach")
  /\ req' = [req EXCEPT ![r].pc = "accepted", ![r].key = UnlockForToken(Tok)]
  /\ UNCHANGED <<scene, now, db, cache, hist>>

\* ristretto and Redis may drop an entry at any time.
Evict ==
  /\ "bearer" \in scene.ops
  /\ \/ \E n \in Nodes : cache.l1[n] > 0 /\ cache' = [cache EXCEPT !.l1[n] = 0]
     \/ cache.l2 > 0 /\ cache' = [cache EXCEPT !.l2 = 0]
  /\ UNCHANGED <<scene, now, db, req, hist>>

\* An app password in a basic header; its owner may have it revoked (DELETE
\* apppassword): id lookup, row, and the wrap by a hook that may fail.
AppPasswordVerify(r) ==
  /\ \E p \in hist.given, op \in {"app", "revoke"} :
       Enter(r, op, IF GetByHash(p) THEN [Idle EXCEPT !.pc = "appKey", !.pw = p] ELSE Refused)
  /\ UNCHANGED <<scene, now, db, cache, hist>>

AppUnlock(r) ==
  /\ At(r, "appKey")
  /\ req' = [req EXCEPT ![r].key = UnlockForToken(req[r].pw), ![r].pc = IF req[r].op = "app" THEN "accepted" ELSE "dropRow"]
  /\ UNCHANGED <<scene, now, db, cache, hist>>

DeleteByHash(r) ==
  /\ At(r, "dropRow")
  /\ db' = [db EXCEPT !.apps = @ \ {req[r].pw}]
  /\ Step(r, "dropWrap")
  /\ UNCHANGED <<scene, now, cache, hist>>

OnTokenDeleted(r) ==
  /\ At(r, "dropWrap")
  /\ db' \in {[db EXCEPT !.wraps = @ \ {req[r].pw}]} \cup (IF scene.faults THEN {db} ELSE {})
  /\ Step(r, "done")
  /\ UNCHANGED <<scene, now, cache, hist>>

-----------------------------------------------------------------------------
(* Tokens of the office callbacks: wopi/service.go, handler.go, gc.go.      *)

\* Mint for a session that may hold the key; the row first, then the wrap.
Mint(r) ==
  /\ hist.wopi < MaxDraw /\ PasswordVerify
  /\ \E key \in {FALSE, scene.enrolled} :
       Enter(r, "mint", [Idle EXCEPT !.pc = IF key THEN "wopiRow" ELSE "minted", !.pw = hist.wopi + 1, !.key = key])
  /\ hist' = [hist EXCEPT !.wopi = @ + 1]
  /\ db' = [db EXCEPT !.wopi = Put(@, hist.wopi + 1, [exp |-> now + WopiTTL])]
  /\ UNCHANGED <<scene, now, cache>>

\* WrapKeyForWOPIToken: the owner through the token row, then the insert.
WopiWrapRow(r) ==
  /\ At(r, "wopiRow")
  /\ Step(r, IF req[r].pw \in DOMAIN db.wopi /\ db.exists THEN "wopiWrap" ELSE "mintUndo")
  /\ UNCHANGED <<scene, now, db, cache, hist>>

WopiWrapForgiven(r) ==
  /\ At(r, "wopiWrap")
  /\ db' \in {[db EXCEPT !.wopiWraps = @ \cup {req[r].pw}]} \cup (IF scene.faults THEN {db} ELSE {})
  /\ Step(r, "minted")
  /\ UNCHANGED <<scene, now, cache, hist>>

WrapKeyForWOPIToken(r) ==
  /\ At(r, "wopiWrap")
  /\ \/ db' = [db EXCEPT !.wopiWraps = @ \cup {req[r].pw}] /\ Step(r, "minted")
     \/ scene.faults /\ db' = db /\ Step(r, "mintUndo")
  /\ UNCHANGED <<scene, now, cache, hist>>

MintUndo(r) ==
  /\ At(r, "mintUndo")
  /\ db' \in {[db EXCEPT !.wopi = Drop(@, req[r].pw)]} \cup (IF scene.faults THEN {db} ELSE {})
  /\ Step(r, "done")
  /\ UNCHANGED <<scene, now, cache, hist>>

Minted(r) ==
  /\ At(r, "minted")
  /\ hist' = [hist EXCEPT !.minted = @ \cup {[tok |-> req[r].pw, key |-> req[r].key, exp |-> now]}]
  /\ Step(r, "done")
  /\ UNCHANGED <<scene, now, db, cache>>

\* A callback: Authenticate (the unexpired row, the enabled user), then the wrap.
Authenticate(r) ==
  /\ \E m \in hist.minted :
       Enter(r, "callback", IF Fresh(db.wopi, m.tok) THEN [Idle EXCEPT !.pc = "callUser", !.pw = m.tok] ELSE Refused)
  /\ UNCHANGED <<scene, now, db, cache, hist>>

CallbackUser(r) ==
  /\ At(r, "callUser")
  /\ Step(r, IF db.exists /\ db.enabled THEN "callKey" ELSE "done")
  /\ UNCHANGED <<scene, now, db, cache, hist>>

UnlockForWOPIToken(r) ==
  /\ At(r, "callKey")
  /\ req' = [req EXCEPT ![r].pc = "accepted",
                        ![r].key = req[r].pw \in db.wopiWraps \cap DOMAIN db.wopi /\ db.exists]
  /\ UNCHANGED <<scene, now, db, cache, hist>>

ExpiredTokens == {t \in DOMAIN db.wopi : ~Fresh(db.wopi, t)}

\* The cleaning job: it fixes its time once, lists the expired tokens, deletes
\* their wraps, then their rows, then wraps without a row.  Errors on the key
\* side are only logged.
GCList(r) ==
  /\ \E seen \in {ExpiredTokens} \cup (IF scene.faults THEN {{}} ELSE {}) :
       Enter(r, "gc", [Idle EXCEPT !.pc = "gcKeys", !.at = now, !.list = seen])
  /\ UNCHANGED <<scene, now, db, cache, hist>>

DeleteWOPITokenKeys(r) ==
  /\ At(r, "gcKeys")
  /\ db' \in {[db EXCEPT !.wopiWraps = @ \ req[r].list]} \cup (IF scene.faults THEN {db} ELSE {})
  /\ Step(r, "gcRows")
  /\ UNCHANGED <<scene, now, cache, hist>>

DeleteExpired(r) ==
  /\ At(r, "gcRows")
  /\ \/ /\ db' = [db EXCEPT !.wopi = [t \in {u \in DOMAIN db.wopi : db.wopi[u].exp > req[r].at} |-> db.wopi[t]]]
        /\ Step(r, "gcPrune")
     \/ scene.faults /\ db' = db /\ Step(r, "done")
  /\ UNCHANGED <<scene, now, cache, hist>>

PruneWOPITokenKeys(r) ==
  /\ At(r, "gcPrune")
  /\ db' \in {[db EXCEPT !.wopiWraps = @ \cap DOMAIN db.wopi]} \cup (IF scene.faults THEN {db} ELSE {})
  /\ Step(r, "done")
  /\ UNCHANGED <<scene, now, cache, hist>>

-----------------------------------------------------------------------------
(* The account: cmd/ncgo-cli/user.go over users/sqlstore.go.                *)

SetEnabled ==
  /\ scene.admin /\ db.exists
  /\ db' = [db EXCEPT !.enabled = ~@]
  /\ req' = [r \in Reqs |-> IF ~db.enabled /\ req[r].pc \notin Ended THEN [req[r] EXCEPT !.off = FALSE] ELSE req[r]]
  /\ UNCHANGED <<scene, now, cache, hist>>

\* OnUserDeleted's last statement: the wraps of the tokens the user still has.
UserKeysDeleted(r) ==
  /\ Enter(r, "deleteUser", [Idle EXCEPT !.pc = "deleteUser"])
  /\ db.exists
  /\ db' \in {[db EXCEPT !.wraps = @ \ db.apps]} \cup (IF scene.faults THEN {db} ELSE {})
  /\ UNCHANGED <<scene, now, cache, hist>>

\* DELETE FROM users: the foreign keys take sessions and app passwords along.
DeleteUser(r) ==
  /\ At(r, "deleteUser")
  /\ db' = [db EXCEPT !.exists = FALSE, !.apps = {}, !.sess = <<>>]
  /\ Step(r, "done")
  /\ UNCHANGED <<scene, now, cache, hist>>

\* reconcile: wraps whose token is gone.
PruneStaleKeys ==
  /\ scene.admin /\ ~(db.wraps \subseteq db.apps)
  /\ db' = [db EXCEPT !.wraps = @ \cap db.apps]
  /\ UNCHANGED <<scene, now, cache, req, hist>>

\* Bearer requests are shorter than a tick (30 s): the clock waits for them.
Tick ==
  /\ now < scene.maxTime
  /\ \A r \in Reqs : req[r].op = "bearer" => req[r].pc \in Ended
  /\ now' = now + 1
  /\ cache' = [l1 |-> [n \in Nodes |-> IF cache.l1[n] > 0 THEN cache.l1[n] - 1 ELSE 0],
               l2 |-> IF cache.l2 > 0 THEN cache.l2 - 1 ELSE 0]
  /\ hist' = [hist EXCEPT !.stale = IF Tok \in db.apps THEN 0 ELSE @ + 1]
  /\ UNCHANGED <<scene, db, req>>

-----------------------------------------------------------------------------
Request(r) ==
  \/ HandlePoll(r) \/ PollConsume(r) \/ BeginGrant(r) \/ BeginGrantUpdate(r)
  \/ HandleGrant(r) \/ GrantLookup(r) \/ IssueAppPassword(r) \/ WrapTokenRow(r) \/ WrapKeyForToken(r)
  \/ GrantRead(r) \/ Grant(r) \/ GetAppPassword(r) \/ AnswerPassword(r)
  \/ HandleLogin(r) \/ CreateSession(r) \/ SetSealedUK(r) \/ SealFails(r) \/ SetCookie(r)
  \/ HandleLogout(r) \/ VerifyID(r) \/ VisitUser(r) \/ TouchSession(r)
  \/ CachedUID(r) \/ TieredFill(r) \/ BearerLookup(r) \/ PrincipalForUID(r) \/ RememberUID(r) \/ AttachTokenKey(r)
  \/ AppPasswordVerify(r) \/ AppUnlock(r) \/ DeleteByHash(r) \/ OnTokenDeleted(r)
  \/ Mint(r) \/ WopiWrapRow(r) \/ WrapKeyForWOPIToken(r) \/ MintUndo(r) \/ Minted(r)
  \/ Authenticate(r) \/ CallbackUser(r) \/ UnlockForWOPIToken(r)
  \/ GCList(r) \/ DeleteWOPITokenKeys(r) \/ DeleteExpired(r) \/ PruneWOPITokenKeys(r)
  \/ UserKeysDeleted(r) \/ DeleteUser(r) \/ Fail(r)

Next == HandleInit \/ Evict \/ SetEnabled \/ PruneStaleKeys \/ Tick \/ \E r \in Reqs : Request(r)

Spec == Init /\ [][Next]_vars

-----------------------------------------------------------------------------
Numbers == 0 .. MaxDraw
Ops == {"none", "poll", "begin", "grant", "grantApp", "login", "logout", "visit", "issue", "bearer", "app", "revoke",
        "mint", "callback", "gc", "deleteUser"}
Stages == Ended \cup Tolerant \cup
  {"consume", "newState", "lookup", "issue", "tokenRow", "wrap", "record", "grantUpdate", "session", "cookie", "visitUser",
   "bearerRow", "bearerMiss", "bearerUser", "attach", "appKey", "dropRow", "wopiRow", "minted", "callUser", "callKey", "deleteUser"}
Task == [op : Ops, pc : Stages, node : Nodes \cup {None}, row : FlowRows, st : Numbers, pw : Numbers, sid : Numbers,
         key : BOOLEAN, off : BOOLEAN, seen : SUBSET Numbers, since : Nat, at : Nat, list : SUBSET Draws]
MintedToken == [tok : Numbers, key : BOOLEAN, exp : Nat]
History == [pw : Numbers, st : Numbers, sid : Numbers, wopi : Numbers, granted : SUBSET Numbers, handed : SUBSET Numbers,
            given : SUBSET Numbers, keyed : SUBSET Numbers, cookies : SUBSET Numbers, keyedSid : SUBSET Numbers, out : SUBSET Numbers,
            minted : SUBSET MintedToken, links : SUBSET Numbers, stale : Nat]
IsTable(f, S) == \E D \in SUBSET Draws : f \in [D -> S]

TypeOK ==
  /\ now \in Nat
  /\ db \in [exists : BOOLEAN, enabled : BOOLEAN, flow : FlowRows, apps : SUBSET Draws, wraps : SUBSET Draws,
             sess : {db.sess}, wopi : {db.wopi}, wopiWraps : SUBSET Draws]
  /\ IsTable(db.sess, Session) /\ IsTable(db.wopi, WopiToken)
  /\ cache \in [l1 : [Nodes -> 0 .. TokenTTL + FillTTL], l2 : 0 .. TokenTTL]
  /\ req \in [Reqs -> Task]
  /\ hist \in History

(* What login/v2.go promises: the flow implements Handout.  A poll that     *)
(* starts after a password was handed out never gets that password, however *)
(* grants, new state tokens and polls overwrite each other's rows.          *)
Promise == INSTANCE Handout WITH
  Polls <- Reqs, Passwords <- Draws, granted <- hist.granted, handed <- hist.handed,
  seen <- [r \in Reqs |-> req[r].seen],
  got <- [r \in Reqs |-> IF req[r].op = "poll" /\ req[r].pw # None THEN {req[r].pw} ELSE {}]
ImplementsHandout == Promise!Spec

(* web/login_v2.go, ocs/apppassword.go, web/login.go: a credential issued   *)
(* to someone who holds the private key carries a copy of the key by the    *)
(* time it leaves the server, and keeps it as long as it is valid and the   *)
(* account is not being deleted; without it every file would be refused.    *)
GivenOutUsable ==
  (\A r \in Reqs : req[r].op # "deleteUser") =>
    /\ hist.given \cap hist.keyed \cap db.apps \subseteq db.wraps
    /\ \A s \in hist.cookies \cap hist.keyedSid \cap DOMAIN db.sess : db.sess[s].sealed

(* session/sqlstore.go: a session that was logged out is never back,        *)
(* whatever requests with its cookie were under way.                        *)
LoggedOutStaysOut == hist.out \cap DOMAIN db.sess = {}

(* auth/bearer.go over cache/tiered.go: a revoked token is refused once     *)
(* both cache lifetimes have passed, on every node, however often it is     *)
(* presented meanwhile.  (An entry of k ticks answers in k ticks, the one   *)
(* it is stored in included, and the two lifetimes share a tick.)           *)
RevokedDies ==
  \A r \in Reqs : req[r].op = "bearer" /\ req[r].pc = "accepted" => req[r].since + 2 <= TokenTTL + FillTTL

(* auth/bearer.go, auth/middleware.go, wopi/service.go: a request that      *)
(* comes in while the account is disabled or gone, and stays so, is not let *)
(* in by a cached uid, a session or an office token.                        *)
DisabledRefused ==
  \A r \in Reqs : req[r].pc = "accepted" /\ req[r].op \in {"bearer", "visit", "callback"} => ~req[r].off

(* wopi: a callback whose token was minted with the key acts without it     *)
(* only when the token ran out, or the account was deleted, under the call. *)
CallbackKeepsKey ==
  \A r \in Reqs, m \in hist.minted :
    /\ req[r].op = "callback" /\ req[r].pc = "accepted" /\ req[r].pw = m.tok /\ m.key /\ ~req[r].key
    => ~db.exists \/ m.tok \notin DOMAIN db.wopi \/ db.wopi[m.tok].exp <= now

(* Credentials work: the variables have their types, and neither a login    *)
(* nor an office callback ends up with a credential that lost its key.      *)
CredentialsWork == TypeOK /\ GivenOutUsable /\ CallbackKeepsKey

(* Who was shut out stays out: by logout, by revocation of the token, or by *)
(* disabling or deleting the account.                                       *)
ShutOut == LoggedOutStaysOut /\ RevokedDies /\ DisabledRefused
=============================================================================
