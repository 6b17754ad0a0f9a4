----------------------------- MODULE PluginHost -----------------------------
(* The host side of a plugin call: which instance of the guest module serves *)
(* it, which host functions the guest calls on it, and what is left when the *)
(* call has returned, trapped, run out of fuel or timed out.                 *)
(*                                                                           *)
(* A thread is a goroutine of the server: a request handler, a job, a        *)
(* PROPFIND. It carries a stack of calls, because a guest that publishes an  *)
(* event waits inside the host function until every subscriber was called.   *)
(* What the guest computes is left open: between entering and leaving it     *)
(* calls any host functions its scene allows, in any order, and may trap at  *)
(* any point. Each host function is one step, except where another thread    *)
(* can move in between: a database statement, an outbound request, the quota *)
(* check and the write of a user file, the two halves of a release.          *)
EXTENDS Naturals, FiniteSets, FiniteSetsExt, Sequences

CONSTANTS
  Threads, Plugins, Users,
  Insts,         \* names for module instances, numbered and reused
  Names,         \* file names, in a user's tree and in a plugin's system tree
  Scenes,        \* by name: models, subscribers, host functions, faults, calls
  StreamLimit,   \* maxStreamHandles
  RowsLimit,     \* maxRowsHandles
  HTTPLimit,     \* maxHTTPHandles
  DBMax,         \* DBMaxConcurrentPerPlugin
  MaxSpool,      \* MaxSpoolBytes
  Quota,         \* a user's quota and the quota of a plugin's system tree
  Burst,         \* HTTPRateBurst
  MaxOps,        \* bound on guest function entries of one call, in any scene
  MaxDepth,      \* bound on nested calls
  Nil

ASSUME HostAssumption ==
  /\ Insts \subseteq Nat /\ IsFiniteSet(Plugins)
  /\ {StreamLimit, RowsLimit, HTTPLimit, DBMax, MaxSpool, Quota, Burst} \subseteq Nat \ {0}
  /\ {MaxOps, MaxDepth} \subseteq Nat
  /\ Nil \notin Insts \union Threads \union Plugins
  /\ \A s \in DOMAIN Scenes : LET c == Scenes[s] IN
       /\ c.max \in 1 .. MaxOps
       /\ c.model \in [Plugins -> {"pooled", "singleton", "per_request"}]
       /\ c.fuel \in [Plugins -> Nat]
       /\ \A p \in Plugins : c.subs[p] \subseteq Plugins
       /\ c.calls \in [Threads -> Seq([pl : Plugins, kind : {"entry", "request", "stream", "hook"},
                                      user : Users \union {Nil}])]
       \* A pool starts with instances of its own (instantiate makes a new one each time).
       /\ LET Pooled == {p \in Plugins : c.model[p] = "pooled"} IN
            /\ \A p \in Pooled : c.warm[p] \in Seq(Insts)
            /\ \A p, q \in Pooled : \A n \in 1 .. Len(c.warm[p]), m \in 1 .. Len(c.warm[q]) :
                 c.warm[p][n] = c.warm[q][m] => p = q /\ n = m

VARIABLES
  scene,    \* the name of the situation under study
  calls,    \* calls the server will still make, per thread
  thr,      \* the stack of calls of each thread, innermost last
  inst,     \* module instances: life, plugin, handle table, fuel meter
  pool,     \* the channel of a pooled plugin
  single,   \* the instance of a singleton plugin
  mu,       \* the thread that holds singleMu
  shut,     \* how far Plugin.Close came
  lost,     \* pool places a failed replenishment left empty
  agg,      \* handleAggregate: open handles per plugin and kind
  dbconc,   \* database statements in flight per plugin
  open,     \* what is really open: cursors, transactions, files, responses
  ufile,    \* size of each user file, 0 when absent
  uack,     \* what the last acknowledged operations on user files left there
  sfile,    \* size of each file in a plugin's system tree
  sack,     \* what the last acknowledged operations there left
  tokens,   \* the plugin's http_request bucket
  out,      \* how the last call of each thread ended
  marks      \* what happened that weakens a promise

hostVars == <<scene, calls, thr, inst, pool, single, mu, shut, lost, agg, dbconc, open,
          ufile, uack, sfile, sack, tokens, out, marks>>
files == <<ufile, uack, sfile, sack>>
manager == <<pool, single, mu, shut, lost>>
world == <<scene, calls, manager, files, tokens>>

Scene == Scenes[scene]
Kinds == {"stream", "rows", "http"}
Limit(k) == CASE k = "stream" -> StreamLimit [] k = "rows" -> RowsLimit [] OTHER -> HTTPLimit

\* The three budgets: cursors and transactions share one, streams of every
\* sort another.
KindOf(res) == CASE res \in {"rows", "tx"} -> "rows" [] res = "resp" -> "http" [] OTHER -> "stream"
Resources == {"rows", "tx", "read", "spool", "sys", "body", "sealed", "reqbody", "resp"}

NoInstance == [st |-> "none", pl |-> Nil, tab |-> {}, cnt |-> 0, tripped |-> FALSE]
Fresh(p) == [st |-> "live", pl |-> p, tab |-> {}, cnt |-> 0, tripped |-> FALSE]
NoOut == [r |-> "none", n |-> 0, pl |-> Nil]

----------------------------------------------------------------------------
(* Threads and their stacks *)

Depth(t) == Len(thr[t])
Top(t) == thr[t][Depth(t)]
At(t, pc) == Depth(t) > 0 /\ Top(t).pc = pc
SetTop(t, f) == [thr EXCEPT ![t] = Append(SubSeq(@, 1, Depth(t) - 1), f)]
Frames == UNION {{thr[t][d] : d \in 1 .. Len(thr[t])} : t \in Threads}
Held(i) == \E f \in Frames : f.i = i

Call(p, kind, user) ==
  [pl |-> p, i |-> Nil, kind |-> kind, pc |-> "acq", user |-> user, n |-> 0,
   todo |-> {}, broken |-> FALSE, arg |-> Nil]

\* The call is over and its context cancelled, which also closes cursors,
\* transactions and responses opened under it. A panic in a nested call comes
\* back to the outer guest as a trap.
EndCall(t, r, o) ==
  LET f == Top(t)
      rest == SubSeq(thr[t], 1, Depth(t) - 1)
      outer == rest[Len(rest)]
  IN /\ thr' = [thr EXCEPT ![t] =
          IF rest = <<>> \/ r # "panic" THEN rest
          ELSE [rest EXCEPT ![Len(rest)] = [outer EXCEPT !.pc = "rel", !.broken = TRUE, !.todo = {}]]]
     /\ open' = {x \in o : x.i = f.i => KindOf(x.res) = "stream"}
     /\ out' = [out EXCEPT ![t] = [r |-> r, n |-> f.n, pl |-> f.pl]]

----------------------------------------------------------------------------
(* Handle tables *)

Tab(i) == inst[i].tab
CountOf(tab, k) == Cardinality({e \in tab : KindOf(e.res) = k})

\* handleTable.add: the table's own check first, then the plugin's budget.
AddSkipsAggregate(p, i, k) == inst[i].st = "live" /\ CountOf(Tab(i), k) < Limit(k)
CanAdd(p, i, k) ==
  /\ inst[i].st = "live"
  /\ CountOf(Tab(i), k) < Limit(k)
  /\ agg[p][k] < Limit(k)

NextId(i) == Min({n \in 1 .. MaxOps + 2 : \A x \in open : x.i = i => x.id # n})
Entry(i, res, name, n, base) == [id |-> NextId(i), res |-> res, name |-> name, n |-> n, base |-> base]
Opened(i, e) == [i |-> i, id |-> e.id, res |-> e.res]

\* handleAggregate.release, down to zero.
Release(a, p, k, n) == [a EXCEPT ![p][k] = IF @ > n THEN @ - n ELSE 0]

\* handleTable.closeAll: transactions are rolled back, everything else is
\* closed; each entry returns its slot. A leftover spool is discarded, a
\* leftover system writer is committed as far as it was written.
CloseAllAgg(a, i) ==
  [k \in Kinds |-> LET n == CountOf(Tab(i), k) IN Release(a, inst[i].pl, k, n)[inst[i].pl][k]]
CloseAllOpen(o, i) == {x \in o : x.i # i \/ \A e \in Tab(i) : e.id # x.id}
CloseAllKeepsTx(o, i) == {x \in o : x.i # i \/ \A e \in Tab(i) : e.id # x.id \/ e.res \in {"tx", "rows", "spool"}}
Leftover(i, res) == {e \in Tab(i) : e.res = res}
LeftoverCommitted(i) ==
  [m \in Names |-> LET w == {e \in Leftover(i, "sys") : e.name = m}
                   IN IF w = {} THEN sfile[inst[i].pl][m] ELSE (CHOOSE e \in w : TRUE).n]
SpoolCommitted(i, u) ==
  [m \in Names |-> LET w == {e \in Leftover(i, "spool") : e.name = m /\ e.base = u}
                   IN IF w = {} THEN ufile[u][m] ELSE (CHOOSE e \in w : TRUE).n]
LeftoverSpool(i, u) == ufile[u]

CloseTable(i, st) ==
  LET p == inst[i].pl
  IN /\ inst' = [inst EXCEPT ![i].tab = {}, ![i].st = st]
     /\ agg' = [agg EXCEPT ![p] = CloseAllAgg(agg, i)]
     /\ sfile' = [sfile EXCEPT ![p] = LeftoverCommitted(i)]
     /\ ufile' = [u \in Users |-> LeftoverSpool(i, u)]
     /\ marks' = IF Leftover(i, "sys") = {} THEN marks ELSE marks \union {"leftover"}
     /\ UNCHANGED <<uack, sack>>

----------------------------------------------------------------------------
(* Fuel *)

Budget(p) == Scene.fuel[p]
HasFuel(i) == Budget(inst[i].pl) = 0 \/ inst[i].cnt < Budget(inst[i].pl)

KeepMeter(m) == m
Rearm(m) == [m EXCEPT !.cnt = 0, !.tripped = FALSE]

\* callMeter.enter on a guest function or a host function. Entries below the
\* budget are counted; one more kills the call.
Ticked(i) == [inst EXCEPT ![i].cnt = IF Budget(inst[i].pl) = 0 THEN 0 ELSE @ + 1]

\* A host function the guest may call now: granted by its manifest, within
\* its fuel. It counts as one entry.
Granted(p, op) == op \in Scene.ops[p]
CanCall(t, op) ==
  /\ At(t, "run") /\ Granted(Top(t).pl, op)
  /\ Top(t).n < Scene.max
  /\ inst[Top(t).i].st = "live" /\ HasFuel(Top(t).i)
Stepped(t) == [Top(t) EXCEPT !.n = @ + 1]

\* The entry is counted first, then the host function does its work; a
\* step applies both.
Op(t, tab, a, o) ==
  LET i == Top(t).i
  IN /\ thr' = SetTop(t, Stepped(t))
     /\ inst' = [Ticked(i) EXCEPT ![i].tab = tab]
     /\ agg' = a
     /\ open' = o

\* A new resource gets a handle, or is closed again on the spot.
Add(t, e) ==
  LET f == Top(t)
      k == KindOf(e.res)
  IN IF CanAdd(f.pl, f.i, k)
     THEN Op(t, Tab(f.i) \union {e}, [agg EXCEPT ![f.pl][k] = @ + 1], open \union {Opened(f.i, e)})
     ELSE Op(t, Tab(f.i), agg, open)

\* handleTable.remove, after which the value is closed or not.
Remove(t, e, closed) ==
  LET f == Top(t)
  IN Op(t, Tab(f.i) \ {e}, Release(agg, f.pl, KindOf(e.res), 1),
        IF closed THEN open \ {Opened(f.i, e)} ELSE open)

Nothing(t) == Op(t, Tab(Top(t).i), agg, open)

OutOfFuel(t) ==
  /\ Depth(t) > 0 /\ Top(t).pc \in {"run", "resp"} /\ Top(t).n < Scene.max
  /\ inst[Top(t).i].st = "live" /\ ~HasFuel(Top(t).i)
  /\ inst' = [inst EXCEPT ![Top(t).i].cnt = @ + 1, ![Top(t).i].tripped = TRUE]
  /\ thr' = SetTop(t, [Stepped(t) EXCEPT !.pc = "rel", !.broken = TRUE])
  /\ UNCHANGED <<world, agg, dbconc, open, out, marks>>

\* fuelKill: a failed call whose meter tripped reports exhausted fuel.
Verdict(t) ==
  LET f == Top(t)
  IN IF ~f.broken THEN (IF f.arg = "refused" THEN "error" ELSE "ok")
     ELSE IF inst[f.i].tripped THEN "fuel" ELSE "trap"


----------------------------------------------------------------------------
(* Instances *)

Unused == {i \in Insts : inst[i].st # "live" /\ ~Held(i) /\ \A x \in open : x.i # i}
NewInst == Min(Unused)
CompiledOpen(p) == shut[p] # "gone"
MayFail(what) == what \in Scene.faults

\* A call begins: a mounted route, a job, a property, a lifecycle hook, or an
\* event of the host with its user.
Start(t) ==
  /\ thr[t] = <<>> /\ calls[t] # <<>>
  /\ LET c == Head(calls[t]) IN thr' = [thr EXCEPT ![t] = <<Call(c.pl, c.kind, c.user)>>]
  /\ calls' = [calls EXCEPT ![t] = Tail(@)]
  /\ UNCHANGED <<scene, manager, files, tokens, inst, agg, dbconc, open, out, marks>>

\* The instance is the call's now: its meter is armed afresh. A streamed
\* request body takes a handle first; without one the request is refused.
Enter(t, i, base) ==
  LET f == Top(t)
      armed == [base EXCEPT ![i] = Rearm(@)]
      ok == f.kind # "stream" \/ agg[f.pl]["stream"] < StreamLimit
      e == Entry(i, "reqbody", Nil, 0, 0)
  IN /\ thr' = SetTop(t, [f EXCEPT !.i = i, !.n = 1, !.pc = IF ok THEN "run" ELSE "rel",
                                   !.arg = IF ok THEN Nil ELSE "refused"])
     /\ inst' = [armed EXCEPT ![i].tab = IF f.kind = "stream" /\ ok THEN {e} ELSE @,
                              ![i].cnt = IF Budget(f.pl) = 0 THEN 0 ELSE @ + 1]
     /\ agg' = IF f.kind = "stream" /\ ok THEN [agg EXCEPT ![f.pl]["stream"] = @ + 1] ELSE agg
     /\ open' = IF f.kind = "stream" /\ ok THEN open \union {Opened(i, e)} ELSE open

\* pooled: the next instance of the channel, or the deadline. A closed and
\* drained channel yields nil, and the next line dereferences it.
AcquirePooled(t) ==
  /\ At(t, "acq") /\ Scene.model[Top(t).pl] = "pooled"
  /\ LET p == Top(t).pl IN
     \/ /\ pool[p] # <<>>
        /\ Enter(t, Head(pool[p]), inst)
        /\ pool' = [pool EXCEPT ![p] = Tail(@)]
        /\ UNCHANGED <<out, marks>>
     \/ /\ pool[p] = <<>>
        /\ EndCall(t, IF shut[p] = "no" THEN "error" ELSE "panic", open)
        /\ marks' = IF shut[p] = "no" THEN marks ELSE marks \union {"panic"}
        /\ UNCHANGED <<inst, agg, pool>>
  /\ UNCHANGED <<scene, calls, single, mu, shut, lost, files, tokens, dbconc>>

\* singleton: wait for singleMu, which knows no deadline, and instantiate
\* when there is no instance.
AcquireSingleton(t) ==
  LET p == Top(t).pl IN
  /\ At(t, "acq") /\ Scene.model[p] = "singleton" /\ mu[p] = Nil
  /\ \/ /\ single[p] # Nil
        /\ Enter(t, single[p], inst)
        /\ mu' = [mu EXCEPT ![p] = t]
        /\ UNCHANGED <<single, out>>
     \/ /\ single[p] = Nil /\ CompiledOpen(p) /\ Unused # {}
        /\ Enter(t, NewInst, [inst EXCEPT ![NewInst] = Fresh(p)])
        /\ mu' = [mu EXCEPT ![p] = t]
        /\ single' = [single EXCEPT ![p] = NewInst]
        /\ UNCHANGED out
     \/ /\ single[p] = Nil /\ (CompiledOpen(p) => MayFail("instantiate"))
        /\ EndCall(t, "error", open)
        /\ UNCHANGED <<inst, agg, mu, single>>
  /\ UNCHANGED <<scene, calls, pool, shut, lost, files, tokens, dbconc, marks>>

\* per_request: a fresh instance.
AcquirePerRequest(t) ==
  LET p == Top(t).pl IN
  /\ At(t, "acq") /\ Scene.model[p] = "per_request"
  /\ \/ /\ CompiledOpen(p) /\ Unused # {}
        /\ Enter(t, NewInst, [inst EXCEPT ![NewInst] = Fresh(p)])
        /\ UNCHANGED out
     \/ /\ CompiledOpen(p) => MayFail("instantiate")
        /\ EndCall(t, "error", open)
        /\ UNCHANGED <<inst, agg>>
  /\ UNCHANGED <<world, dbconc, marks>>

\* The guest function returns. A request keeps the instance for the response.
Return(t) ==
  /\ At(t, "run") /\ inst[Top(t).i].st = "live"
  /\ thr' = SetTop(t, [Top(t) EXCEPT !.pc = IF @ = "run" /\ Top(t).kind \in {"request", "stream"}
                                             THEN "resp" ELSE "rel"])
  /\ UNCHANGED <<world, inst, agg, dbconc, open, out, marks>>

\* The guest traps, its deadline passes, or its module was closed under it.
Trap(t) ==
  /\ Depth(t) > 0 /\ Top(t).pc \in {"run", "resp"}
  /\ inst[Top(t).i].st = "live" => MayFail("trap")
  /\ thr' = SetTop(t, [Top(t) EXCEPT !.pc = "rel", !.broken = TRUE])
  /\ UNCHANGED <<world, inst, agg, dbconc, open, out, marks>>

\* Status, headers and body chunks are read through further guest calls on
\* the same instance, then the response is closed.
ResponseCall(t) ==
  /\ At(t, "resp") /\ inst[Top(t).i].st = "live"
  /\ Top(t).n < Scene.max /\ HasFuel(Top(t).i)
  /\ Nothing(t)
  /\ UNCHANGED <<world, dbconc, out, marks>>

ResponseDone(t) ==
  /\ At(t, "resp") /\ inst[Top(t).i].st = "live"
  /\ thr' = SetTop(t, [Top(t) EXCEPT !.pc = "rel"])
  /\ UNCHANGED <<world, inst, agg, dbconc, open, out, marks>>

\* observeMemory: a clean release over the memory limit destroys the instance.
Destroyed(t, over) == Top(t).broken \/ over
OverLimit == IF MayFail("memory") THEN BOOLEAN ELSE {FALSE}

ReleaseKeepsBroken(t, over) ==
  LET f == Top(t) IN
  /\ At(t, "rel") /\ Scene.model[f.pl] = "pooled"
  /\ CloseTable(f.i, IF Destroyed(t, over) THEN "closed" ELSE "live")
  /\ thr' = SetTop(t, [f EXCEPT !.pc = "put", !.arg = Verdict(t)])
  /\ open' = CloseAllOpen(open, f.i)
  /\ UNCHANGED <<scene, calls, manager, tokens, dbconc, out>>

\* releasePooled, first half: the handles are closed; a broken instance is
\* replaced, or the pool stays one short.
ReleasePooled(t, over) ==
  LET f == Top(t) IN
  /\ At(t, "rel") /\ Scene.model[f.pl] = "pooled"
  /\ CloseTable(f.i, IF Destroyed(t, over) THEN "closed" ELSE inst[f.i].st)
  /\ thr' = SetTop(t, [f EXCEPT !.pc = IF Destroyed(t, over) THEN "new" ELSE "put", !.arg = Verdict(t)])
  /\ open' = CloseAllOpen(open, f.i)
  /\ UNCHANGED <<scene, calls, manager, tokens, dbconc, out>>

ReplenishNever(t) ==
  /\ At(t, "new")
  /\ EndCall(t, Top(t).arg, open)
  /\ UNCHANGED <<world, inst, agg, dbconc, marks>>

Replenish(t) ==
  LET f == Top(t) IN
  /\ At(t, "new")
  /\ \/ /\ CompiledOpen(f.pl) /\ Unused # {}
        /\ inst' = [inst EXCEPT ![NewInst] = Fresh(f.pl)]
        /\ thr' = SetTop(t, [f EXCEPT !.pc = "put", !.i = NewInst])
        /\ open' = {x \in open : x.i # f.i}
        /\ UNCHANGED <<out, lost>>
     \/ /\ CompiledOpen(f.pl) => MayFail("instantiate")
        /\ EndCall(t, f.arg, open)
        /\ lost' = [lost EXCEPT ![f.pl] = @ + 1]
        /\ UNCHANGED inst
  /\ UNCHANGED <<scene, calls, pool, single, mu, shut, files, tokens, agg, dbconc, marks>>

\* releasePooled, second half. A send on a channel Plugin.Close has closed
\* panics; the instance stays open.
PutBack(t) ==
  LET f == Top(t) IN
  /\ At(t, "put")
  /\ IF shut[f.pl] = "no"
     THEN /\ pool' = [pool EXCEPT ![f.pl] = Append(@, f.i)]
          /\ EndCall(t, f.arg, open)
          /\ UNCHANGED marks
     ELSE /\ EndCall(t, "panic", open)
          /\ marks' = marks \union {"panic"}
          /\ UNCHANGED pool
  /\ UNCHANGED <<scene, calls, single, mu, shut, lost, files, tokens, inst, agg, dbconc>>

ReleaseSingleton(t, over) ==
  LET f == Top(t) IN
  /\ At(t, "rel") /\ Scene.model[f.pl] = "singleton"
  /\ CloseTable(f.i, IF Destroyed(t, over) THEN "closed" ELSE inst[f.i].st)
  /\ single' = IF Destroyed(t, over) THEN [single EXCEPT ![f.pl] = Nil] ELSE single
  /\ mu' = [mu EXCEPT ![f.pl] = Nil]
  /\ EndCall(t, Verdict(t), CloseAllOpen(open, f.i))
  /\ UNCHANGED <<scene, calls, pool, shut, lost, tokens, dbconc>>

ReleasePerRequest(t) ==
  LET f == Top(t) IN
  /\ At(t, "rel") /\ Scene.model[f.pl] = "per_request"
  /\ CloseTable(f.i, "closed")
  /\ EndCall(t, Verdict(t), CloseAllOpen(open, f.i))
  /\ UNCHANGED <<scene, calls, manager, tokens, dbconc>>

\* Plugin.Close: detach, close the channel and drain it, close the singleton
\* without its mutex; then the compiled module.
ClosePlugin(p) ==
  /\ MayFail("close")
  /\ \/ /\ shut[p] = "no"
        /\ shut' = [shut EXCEPT ![p] = "drained"]
        /\ pool' = [pool EXCEPT ![p] = <<>>]
        /\ single' = [single EXCEPT ![p] = Nil]
        /\ LET drained == {pool[p][n] : n \in 1 .. Len(pool[p])}
           IN IF single[p] # Nil
              THEN CloseTable(single[p], "closed") /\ open' = CloseAllOpen(open, single[p])
              ELSE /\ inst' = [i \in Insts |-> IF i \in drained THEN [inst[i] EXCEPT !.st = "closed"] ELSE inst[i]]
                   /\ UNCHANGED <<agg, open, files, marks>>
     \/ /\ shut[p] = "drained"
        /\ shut' = [shut EXCEPT ![p] = "gone"]
        /\ UNCHANGED <<pool, single, inst, agg, open, files, marks>>
  /\ UNCHANGED <<scene, calls, thr, mu, lost, tokens, dbconc, out>>


----------------------------------------------------------------------------
(* Database *)

\* A statement, after its parse and its table grants, takes one of the
\* plugin's slots for as long as it runs: db_query, db_exec, db_tx_begin and
\* the variants on an open transaction. A data definition needs a hook.
OnTx(t) == IF Leftover(Top(t).i, "tx") = {} THEN {} ELSE {"txrows"}
Statements(t) ==
  {"rows", "tx", "exec"} \union OnTx(t) \union (IF Top(t).kind = "hook" THEN {"ddl"} ELSE {})

DBStatement(t) ==
  /\ CanCall(t, "db")
  /\ IF dbconc[Top(t).pl] < DBMax
     THEN \E what \in Statements(t) :
            /\ thr' = SetTop(t, [Stepped(t) EXCEPT !.pc = "db", !.arg = what])
            /\ dbconc' = [dbconc EXCEPT ![Top(t).pl] = @ + 1]
     ELSE thr' = SetTop(t, Stepped(t)) /\ UNCHANGED dbconc
  /\ inst' = Ticked(Top(t).i)
  /\ UNCHANGED <<world, agg, open, out, marks>>

\* The statement is back: an error, no result, or a cursor or transaction
\* that gets a handle. The module may have been closed meanwhile.
DBResult(t) ==
  LET f == Top(t)
      back == [f EXCEPT !.pc = "run", !.arg = Nil]
      res == IF f.arg = "tx" THEN "tx" ELSE "rows"
      e == Entry(f.i, res, Nil, 0, 0)
      keep == f.arg \in {"rows", "tx", "txrows"} /\ CanAdd(f.pl, f.i, "rows")
  IN
  /\ At(t, "db")
  /\ dbconc' = [dbconc EXCEPT ![f.pl] = @ - 1]
  /\ thr' = SetTop(t, back)
  /\ \/ /\ keep
        /\ inst' = [inst EXCEPT ![f.i].tab = @ \union {e}]
        /\ agg' = [agg EXCEPT ![f.pl]["rows"] = @ + 1]
        /\ open' = open \union {Opened(f.i, e)}
     \/ /\ keep => MayFail("db")
        /\ UNCHANGED <<inst, agg, open>>
  /\ UNCHANGED <<world, out, marks>>

\* db_rows_close, db_tx_commit and db_tx_rollback take any handle of the rows
\* kind out of the table. Of the wrong type, it is not closed: it stays open
\* until the call's context is cancelled.
CloseAs(t, res) ==
  /\ CanCall(t, "db")
  /\ \E e \in {x \in Tab(Top(t).i) : KindOf(x.res) = "rows"} :
       /\ Remove(t, e, e.res = res)
       /\ marks' = IF e.res = res THEN marks ELSE marks \union {"misclosed"}
  /\ UNCHANGED <<world, dbconc, out>>

RowsClose(t) == CloseAs(t, "rows")
TxEnd(t) == CloseAs(t, "tx")

----------------------------------------------------------------------------
(* Storage *)

Sizes(tree) == MapThenSumSet(LAMBDA m : tree[m], Names)
SetUser(u, m, n) == ufile' = [ufile EXCEPT ![u][m] = n]
SetSys(p, m, n) == sfile' = [sfile EXCEPT ![p][m] = n]

\* Reads, listings and lookups leave everything as it is; a read stream is a
\* handle until it is closed.
StorageRead(t) ==
  /\ CanCall(t, "read")
  /\ \/ Add(t, Entry(Top(t).i, "read", Nil, 0, 0))
     \/ \E e \in Leftover(Top(t).i, "read") : Remove(t, e, TRUE)
     \/ Nothing(t)
  /\ UNCHANGED <<world, dbconc, out, marks>>

\* storage_create for the calling user: refused at once when the declared
\* size alone overflows the quota, else spooled. No user, no user storage.
StorageCreateUser(t) ==
  /\ CanCall(t, "user") /\ Top(t).user # Nil
  /\ \E m \in Names, declared \in {0, Quota} :
       LET u == Top(t).user
       IN IF declared > 0 /\ Sizes(ufile[u]) - ufile[u][m] + declared > Quota
          THEN Nothing(t)
          ELSE Add(t, Entry(Top(t).i, "spool", m, 0, u))
  /\ UNCHANGED <<world, dbconc, out, marks>>

\* storage_create in the plugin's tree: the tree's size without the target is
\* kept with the writer for the check at close.
StorageCreateSystem(t) ==
  /\ CanCall(t, "system")
  /\ \E m \in Names, declared \in {0, Quota} :
       LET p == Top(t).pl
           rest == Sizes(sfile[p]) - sfile[p][m]
       IN IF declared > 0 /\ rest + declared > Quota
          THEN Nothing(t)
          ELSE Add(t, Entry(Top(t).i, "sys", m, 0, rest))
  /\ UNCHANGED <<world, dbconc, out, marks>>

\* storage_stream_write and http_request_body_write: one more byte, up to
\* the spool limit; a sealed body takes none.
StreamWrite(t) ==
  /\ \E op \in {"user", "system", "http"} : CanCall(t, op)
  /\ \E e \in {x \in Tab(Top(t).i) : x.res \in {"spool", "sys", "body"} /\ x.n < MaxSpool} :
       Op(t, (Tab(Top(t).i) \ {e}) \union {[e EXCEPT !.n = @ + 1]}, agg, open)
  /\ UNCHANGED <<world, dbconc, out, marks>>

\* storage_stream_close of a spool: the handle goes, the quota is checked
\* against the spooled bytes, ...
SpoolUnchecked(e) == TRUE
CommitAllowed(e) == Sizes(ufile[e.base]) - ufile[e.base][e.name] + e.n <= Quota

StreamCloseUser(t) ==
  /\ CanCall(t, "user")
  /\ \E e \in Leftover(Top(t).i, "spool") :
       IF CommitAllowed(e)
       THEN /\ thr' = SetTop(t, [Stepped(t) EXCEPT !.pc = "wr", !.arg = e])
            /\ inst' = [Ticked(Top(t).i) EXCEPT ![Top(t).i].tab = @ \ {e}]
            /\ agg' = Release(agg, Top(t).pl, "stream", 1)
            /\ UNCHANGED open
       ELSE Remove(t, e, TRUE)
  /\ UNCHANGED <<world, dbconc, out, marks>>

\* ... and the content is written through the file service, or that fails.
SpoolWrite(t) ==
  LET f == Top(t)
      e == f.arg
      others == {g \in Frames : g.pc = "wr" /\ g.i # f.i /\ g.arg.base = e.base}
  IN
  /\ At(t, "wr")
  /\ thr' = SetTop(t, [f EXCEPT !.pc = "run", !.arg = Nil])
  /\ open' = open \ {Opened(f.i, e)}
  /\ \/ /\ SetUser(e.base, e.name, e.n)
        /\ uack' = [uack EXCEPT ![e.base][e.name] = e.n]
        /\ marks' = IF others = {} THEN marks ELSE marks \union {"overlap"}
     \/ MayFail("write") /\ UNCHANGED <<ufile, uack, marks>>
  /\ UNCHANGED <<scene, calls, manager, tokens, sfile, sack, inst, agg, dbconc, out>>

\* storage_stream_close of a system writer publishes the content, then
\* removes it again when the tree as it was at creation plus the written
\* bytes exceeds the quota.
CommitSystem(e) == e.base + e.n <= Quota

StreamCloseSystem(t) ==
  LET p == Top(t).pl IN
  /\ CanCall(t, "system")
  /\ \E e \in Leftover(Top(t).i, "sys") :
       LET n == IF CommitSystem(e) THEN e.n ELSE 0
       IN /\ Remove(t, e, TRUE)
          /\ SetSys(p, e.name, n)
          /\ sack' = [sack EXCEPT ![p][e.name] = n]
          /\ marks' = IF Sizes(sfile[p]) - sfile[p][e.name] = e.base THEN marks
                     ELSE marks \union {"moved"}
  /\ UNCHANGED <<scene, calls, manager, tokens, ufile, uack, dbconc, out>>

StorageDelete(t) ==
  /\ \/ /\ CanCall(t, "user") /\ Top(t).user # Nil
        /\ \E m \in Names : LET u == Top(t).user IN
             /\ ufile[u][m] > 0
             /\ SetUser(u, m, 0)
             /\ uack' = [uack EXCEPT ![u][m] = 0]
        /\ UNCHANGED <<sfile, sack>>
     \/ /\ CanCall(t, "system")
        /\ \E m \in Names : LET p == Top(t).pl IN
             /\ sfile[p][m] > 0
             /\ SetSys(p, m, 0)
             /\ sack' = [sack EXCEPT ![p][m] = 0]
        /\ UNCHANGED <<ufile, uack>>
  /\ Nothing(t)
  /\ UNCHANGED <<scene, calls, manager, tokens, dbconc, out, marks>>

\* storage_rename within the plugin's tree replaces the target.
StorageRename(t) ==
  LET p == Top(t).pl IN
  /\ CanCall(t, "system")
  /\ \E a, b \in Names :
       /\ a # b /\ sfile[p][a] > 0
       /\ sfile' = [sfile EXCEPT ![p] = [@ EXCEPT ![a] = 0, ![b] = sfile[p][a]]]
       /\ sack' = [sack EXCEPT ![p] = [@ EXCEPT ![a] = 0, ![b] = sack[p][a]]]
  /\ Nothing(t)
  /\ UNCHANGED <<scene, calls, manager, tokens, ufile, uack, dbconc, out, marks>>

----------------------------------------------------------------------------
(* Outbound requests *)

\* http_request_body_create and _close; the handle stays after sealing.
BodyCreate(t) ==
  /\ CanCall(t, "http")
  /\ Add(t, Entry(Top(t).i, "body", Nil, 0, 0))
  /\ UNCHANGED <<world, dbconc, out, marks>>

BodySeal(t) ==
  /\ CanCall(t, "http")
  /\ \E e \in Leftover(Top(t).i, "body") :
       LET s == [e EXCEPT !.res = "sealed"]
       IN Op(t, (Tab(Top(t).i) \ {e}) \union {s}, agg, (open \ {Opened(Top(t).i, e)}) \union {Opened(Top(t).i, s)})
  /\ UNCHANGED <<world, dbconc, out, marks>>

\* http_request: a token of the bucket, then the sealed body leaves the
\* table. Without a token, or unsealed, the body stays for another attempt.
HTTPRequest(t) ==
  LET f == Top(t) IN
  /\ CanCall(t, "http")
  /\ IF tokens[f.pl] = 0
     THEN Nothing(t) /\ UNCHANGED tokens
     ELSE /\ tokens' = [tokens EXCEPT ![f.pl] = @ - 1]
          /\ \/ /\ Leftover(f.i, "body") # {}
                /\ Nothing(t)
             \/ \E e \in Leftover(f.i, "sealed") \union {Nil} :
                  /\ thr' = SetTop(t, [Stepped(t) EXCEPT !.pc = "http", !.arg = e])
                  /\ inst' = [Ticked(f.i) EXCEPT ![f.i].tab = @ \ {e}]
                  /\ agg' = IF e = Nil THEN agg ELSE Release(agg, f.pl, "stream", 1)
                  /\ UNCHANGED open
  /\ UNCHANGED <<scene, calls, manager, files, dbconc, out, marks>>

\* The exchange is over: the body's file is removed, the response gets a
\* handle or is closed.
SentBodyKept(f) == {}
Disposed(f) == IF f.arg = Nil THEN {} ELSE {Opened(f.i, f.arg)}

HTTPResponse(t) ==
  LET f == Top(t)
      e == Entry(f.i, "resp", Nil, 0, 0)
  IN
  /\ At(t, "http")
  /\ thr' = SetTop(t, [f EXCEPT !.pc = "run", !.arg = Nil])
  /\ \/ /\ CanAdd(f.pl, f.i, "http")
        /\ inst' = [inst EXCEPT ![f.i].tab = @ \union {e}]
        /\ agg' = [agg EXCEPT ![f.pl]["http"] = @ + 1]
        /\ open' = (open \ Disposed(f)) \union {Opened(f.i, e)}
     \/ /\ CanAdd(f.pl, f.i, "http") => MayFail("http")
        /\ open' = open \ Disposed(f)
        /\ UNCHANGED <<inst, agg>>
  /\ UNCHANGED <<world, dbconc, out, marks>>

\* http_response_close, and storage_stream_close of a body.
ResponseClose(t) ==
  /\ CanCall(t, "http")
  /\ \E e \in {x \in Tab(Top(t).i) : x.res \in {"resp", "body", "sealed"}} : Remove(t, e, TRUE)
  /\ UNCHANGED <<world, dbconc, out, marks>>

\* request_body_read and request_body_close on the streamed inbound body.
RequestBody(t) ==
  /\ CanCall(t, "reqbody")
  /\ \E e \in Leftover(Top(t).i, "reqbody") : Nothing(t) \/ Remove(t, e, TRUE)
  /\ UNCHANGED <<world, dbconc, out, marks>>

RefillUncapped(p) ==
  /\ MayFail("time")
  /\ tokens' = [tokens EXCEPT ![p] = @ + 1]
  /\ UNCHANGED <<scene, calls, thr, inst, manager, agg, dbconc, open, files, out, marks>>

\* The bucket refills with time, up to its burst.
Refill(p) ==
  /\ MayFail("time") /\ tokens[p] < Burst
  /\ tokens' = [tokens EXCEPT ![p] = @ + 1]
  /\ UNCHANGED <<scene, calls, thr, inst, manager, agg, dbconc, open, files, out, marks>>

----------------------------------------------------------------------------
(* Events *)

DeliverToAll(p) == Scene.subs[p]
Subscribers(p) == Scene.subs[p] \ {p}

\* event_publish fans out to the attached subscribers, never to the
\* publisher; the guest waits.
EventPublish(t) ==
  LET p == Top(t).pl IN
  /\ CanCall(t, "publish") /\ Depth(t) < MaxDepth
  /\ thr' = SetTop(t, [Stepped(t) EXCEPT !.pc = "pub", !.todo = {q \in Subscribers(p) : shut[q] = "no"}])
  /\ inst' = Ticked(Top(t).i)
  /\ UNCHANGED <<world, agg, dbconc, open, out, marks>>

\* Subscribers are called one after another, in any order and without a user:
\* an event of a plugin carries none.
Deliver(t) ==
  /\ At(t, "pub")
  /\ IF Top(t).todo = {}
     THEN thr' = SetTop(t, [Top(t) EXCEPT !.pc = "run"])
     ELSE \E q \in Top(t).todo :
            thr' = [thr EXCEPT ![t] = Append([thr[t] EXCEPT ![Depth(t)].todo = @ \ {q}], Call(q, "entry", Nil))]
  /\ UNCHANGED <<world, inst, agg, dbconc, open, out, marks>>

----------------------------------------------------------------------------
Warm == [p \in Plugins |-> IF Scene.model[p] = "pooled" THEN Scene.warm[p] ELSE <<>>]

HostInit ==
  /\ scene \in DOMAIN Scenes
  /\ calls = Scene.calls
  /\ thr = [t \in Threads |-> <<>>]
  /\ pool = Warm
  /\ inst = [i \in Insts |->
       IF \E p \in Plugins : \E n \in 1 .. Len(Warm[p]) : Warm[p][n] = i
       THEN Fresh(CHOOSE p \in Plugins : \E n \in 1 .. Len(Warm[p]) : Warm[p][n] = i)
       ELSE NoInstance]
  /\ single = [p \in Plugins |-> Nil] /\ mu = [p \in Plugins |-> Nil]
  /\ shut = [p \in Plugins |-> "no"] /\ lost = [p \in Plugins |-> 0]
  /\ agg = [p \in Plugins |-> [k \in Kinds |-> 0]]
  /\ dbconc = [p \in Plugins |-> 0]
  /\ open = {}
  /\ ufile = [u \in Users |-> [m \in Names |-> 0]] /\ uack = ufile
  /\ sfile = [p \in Plugins |-> [m \in Names |-> 0]] /\ sack = sfile
  /\ tokens = [p \in Plugins |-> Burst]
  /\ out = [t \in Threads |-> NoOut]
  /\ marks = {}

Guest(t) ==
  \/ DBStatement(t) \/ RowsClose(t) \/ TxEnd(t)
  \/ StorageRead(t) \/ StorageCreateUser(t) \/ StorageCreateSystem(t) \/ StreamWrite(t)
  \/ StreamCloseUser(t) \/ StreamCloseSystem(t) \/ StorageDelete(t) \/ StorageRename(t)
  \/ BodyCreate(t) \/ BodySeal(t) \/ HTTPRequest(t) \/ ResponseClose(t) \/ RequestBody(t)
  \/ EventPublish(t)

Host(t) ==
  \/ Start(t) \/ AcquirePooled(t) \/ AcquireSingleton(t) \/ AcquirePerRequest(t)
  \/ DBResult(t) \/ SpoolWrite(t) \/ HTTPResponse(t) \/ Deliver(t)
  \/ Return(t) \/ Trap(t) \/ OutOfFuel(t) \/ ResponseCall(t) \/ ResponseDone(t)
  \/ \E over \in OverLimit : ReleasePooled(t, over) \/ ReleaseSingleton(t, over)
  \/ ReleasePerRequest(t) \/ Replenish(t) \/ PutBack(t)

HostNext ==
  \/ \E t \in Threads : Guest(t) \/ Host(t)
  \/ \E p \in Plugins : ClosePlugin(p) \/ Refill(p)

HostSpec == HostInit /\ [][HostNext]_hostVars

----------------------------------------------------------------------------
(* Properties *)

Verdicts == {"none", "ok", "error", "trap", "fuel", "panic"}

HostTypeOK ==
  /\ scene \in DOMAIN Scenes
  /\ \A f \in Frames :
       /\ f.pl \in Plugins /\ f.user \in Users \union {Nil} /\ f.n \in 0 .. MaxOps
       /\ f.pc \in {"acq", "run", "db", "wr", "http", "pub", "resp", "rel", "new", "put"}
       /\ f.pc # "acq" => f.i \in Insts
  /\ \A i \in Insts : inst[i].st \in {"none", "live", "closed"} /\ inst[i].pl \in Plugins \union {Nil}
  /\ \A p \in Plugins : tokens[p] \in 0 .. Burst /\ shut[p] \in {"no", "drained", "gone"}
  /\ \A x \in open : x.i \in Insts /\ x.res \in Resources
  /\ \A t \in Threads : out[t].r \in Verdicts

\* The plugin-wide handle budget counts exactly the handles in the tables of
\* the plugin's instances, whatever trapped, was destroyed or closed under a
\* call, and the statement slots exactly the statements in flight; neither
\* exceeds its limit (handleagg.go, dbquota.go). What is really open stays
\* within the budgets too, unless a guest closed a handle as the wrong type.
BudgetExact ==
  \A p \in Plugins :
    /\ \A k \in Kinds :
         /\ agg[p][k] = Cardinality({x \in UNION {{<<i, e>> : e \in Tab(i)} : i \in Insts} :
                          inst[x[1]].pl = p /\ KindOf(x[2].res) = k})
         /\ agg[p][k] <= Limit(k)
    /\ dbconc[p] = Cardinality({t \in Threads : \E d \in 1 .. Depth(t) : thr[t][d].pl = p /\ thr[t][d].pc = "db"})
    /\ dbconc[p] <= DBMax
    /\ "misclosed" \notin marks =>
         Cardinality({x \in open : inst[x.i].pl = p /\ KindOf(x.res) = "rows"}) <= RowsLimit

\* Nothing a guest opened outlives its call: a cursor, transaction, spool
\* file or response that is open belongs to an instance some call still
\* holds, so no later call, of another user perhaps, finds it
\* (instance.go, closeAll on every release).
NothingLeftOpen ==
  /\ \A x \in open : Held(x.i)
  /\ \A i \in Insts : Tab(i) # {} => Held(i)

\* An instance serves one call at a time, and one that waits in a pool serves
\* none: guest memory and the fuel meter are not shared (instance.go).
Exclusive ==
  /\ \A t, v \in Threads : \A d \in 1 .. Depth(t), c \in 1 .. Depth(v) :
       (t # v \/ d # c) /\ thr[t][d].pc # "acq" /\ thr[v][c].pc # "acq" => thr[t][d].i # thr[v][c].i
  /\ \A p \in Plugins :
       /\ \A n \in 1 .. Len(pool[p]) : ~Held(pool[p][n]) /\ inst[pool[p][n]].st = "live"
       /\ \A n, m \in 1 .. Len(pool[p]) : n # m => pool[p][n] # pool[p][m]
       /\ single[p] # Nil => inst[single[p]].pl = p /\ (Held(single[p]) => mu[p] # Nil)

\* A pool keeps its size: idle instances, those at work and the places a
\* failed replenishment left empty add up to it (releasePooled).
PoolConserved ==
  \A p \in Plugins : Scene.model[p] = "pooled" /\ shut[p] = "no" =>
    Len(pool[p]) + Cardinality({f \in Frames : f.pl = p /\ f.pc # "acq"}) + lost[p] = Len(Scene.warm[p])

\* A user's file holds what the last acknowledged write left in it: a call
\* that trapped, forgot to close or was refused leaves no partial file. In a
\* plugin's own tree the same holds unless a call left a writer behind, whose
\* content is committed as far as it came (abi_storage.go, systemQuotaWriter).
FilesAsAcked ==
  /\ ufile = uack
  /\ "leftover" \in marks \/ sfile = sack

\* Quotas hold: a user's files and a plugin's tree stay within theirs, unless
\* two commits of one user overlapped between check and write, the tree moved
\* under an open writer, or a writer was left behind (ADR-0061, best effort).
QuotaHolds ==
  /\ \A u \in Users : Sizes(ufile[u]) <= Quota \/ "overlap" \in marks
  /\ \A p \in Plugins : Sizes(sfile[p]) <= Quota \/ marks \intersect {"moved", "leftover"} # {}

\* A call reported as out of fuel made more entries than its own budget, and
\* one that succeeded did not: entries of an earlier call on the same
\* instance are never charged to it (fuel.go, acquire re-arms the meter).
FuelIsOwn ==
  \A t \in Threads : LET o == out[t] IN
    o.pl # Nil /\ Budget(o.pl) > 0 =>
      (o.r = "fuel" => o.n > Budget(o.pl)) /\ (o.r = "ok" => o.n <= Budget(o.pl))

\* Subscriptions can be laid out in levels such that events never go up, and go
\* down to and from a singleton: no singleton plugin lies on a circle of them.
\* A plugin's own subscription does not count, for the publisher is skipped.
SingletonsOffCircles ==
  \E level \in [Plugins -> 0 .. Cardinality(Plugins)] :
    \A p \in Plugins : \A q \in Scene.subs[p] \ {p} :
      /\ level[q] <= level[p]
      /\ "singleton" \in {Scene.model[p], Scene.model[q]} => level[q] < level[p]

\* Every call can come to an end: no set of threads waits only for its own
\* members, however guests nest through events, unless a singleton plugin is
\* on a circle of subscriptions. singleMu has no deadline, so that circle
\* waits for ever, while a pool is only waited for until the deadline
\* (instance.go, acquire; events.go, the publisher is skipped).
WaitsFor(t) ==
  IF At(t, "acq") /\ Scene.model[Top(t).pl] = "singleton" THEN mu[Top(t).pl] ELSE Nil
NoCircularWait ==
  SingletonsOffCircles => \A S \in SUBSET Threads : S # {} => \E t \in S : WaitsFor(t) \notin S

\* Calls clean up after themselves: the variables have their types, budgets
\* count what is open, nothing outlives its call, and files and quotas are
\* as the acknowledged writes left them (instance.go, abi_storage.go).
CallsCleanUp == HostTypeOK /\ BudgetExact /\ NothingLeftOpen /\ FilesAsAcked /\ QuotaHolds

\* Instances are nobody else's: one call at a time, no instance of a pool
\* lost, no fuel charged across calls (instance.go, fuel.go).
InstancesExclusive == Exclusive /\ PoolConserved /\ FuelIsOwn
=============================================================================
