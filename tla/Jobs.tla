-------------------------------- MODULE Jobs --------------------------------
(***************************************************************************)
(* The background job runner of internal/jobs: the jobs table (SQLStore)   *)
(* and the runners (SQLRunner) of the server processes that share it.      *)
(*                                                                         *)
(* A process registers its jobs, Start enqueues one row per periodic job   *)
(* and launches a poll loop and a set of workers joined by a bounded       *)
(* channel.  The poll loop selects due rows, claims them with a            *)
(* conditional UPDATE and sends them to the channel; a worker looks the    *)
(* job up, runs it, and completes, fails or re-enqueues the row.  Stop     *)
(* cancels the context every one of these steps runs under.                *)
(*                                                                         *)
(* Time: a row's run_at has come (it is in `ready`) or not; ahead[id] are  *)
(* the ready rows that ORDER BY run_at, id puts before it.  A completed    *)
(* row is read by no statement of the runner, so completing a row removes  *)
(* it from `rows` and its id may be used again.                            *)
(***************************************************************************)
EXTENDS Integers, FiniteSets

CONSTANTS
  Nodes,            \* server processes sharing one database
  Workers,          \* worker goroutines of one runner (r.workers of them)
  Names,            \* job names
  Periodic,         \* the names in r.periodic
  MaxRows,          \* bound: rows that are in the table at the same time
  MaxOnDemand,      \* bound: on-demand rows in the table at the same time
  MaxUnknown,       \* maxUnknownJobAttempts (3 in the code)
  AttemptCap,       \* bound: the attempts column is counted up to this value
  MaxInterrupts,    \* bound: stops, crashes and database errors
  NoRow             \* no row / no job in hand

ASSUME JobsAssumption ==
  /\ IsFiniteSet(Workers) /\ Workers # {}
  /\ Periodic \subseteq Names
  /\ MaxRows \in Nat /\ MaxOnDemand \in Nat /\ MaxInterrupts \in Nat
  /\ MaxUnknown \in Nat /\ AttemptCap \in Nat /\ MaxUnknown <= AttemptCap

VARIABLES
  rows,       \* the jobs table, by id; NoRow where there is no live row
  ready,      \* ids of queued rows whose run_at has come
  ahead,      \* for each ready row, the ready rows with an earlier run_at
  ran,        \* ids of live rows whose job.Run was entered at least once
  jobs,       \* SQLRunner.jobs of each process: the registered names
  run,        \* life of each process' runner
  todo,       \* periodic names Start has yet to enqueue
  poller,     \* pollLoop/claim of each process
  chan,       \* the channel between poll loop and workers
  worker,     \* worker goroutines of each process
  clean,      \* no database error has hit this process since its Start
  interrupts  \* stops, crashes and database errors so far (bounds the model)

vars == <<rows, ready, ahead, ran, jobs, run, todo, poller, chan, worker, clean, interrupts>>

RowIds == 1 .. MaxRows

\* The columns that matter: started_at set or not, name and attempts.
Row == [started : BOOLEAN, name : Names, attempts : 0 .. AttemptCap]

\* A Row value in memory: what ClaimDue scanned.
Copy == [id : RowIds, name : Names, attempts : 0 .. AttemptCap]

\* NoRow is not a row.
ASSUME NoRowAssumption == NoRow \notin Row /\ NoRow \notin Copy

PollerPC == {"off", "idle", "selected", "sending"}
WorkerPC == {"off", "idle", "taken", "running", "reenqueue"}

TypeOK ==
  /\ rows \in [RowIds -> Row \cup {NoRow}]
  /\ ready \subseteq RowIds
  /\ ahead \in [RowIds -> SUBSET RowIds]
  /\ ran \subseteq RowIds
  /\ jobs \in [Nodes -> SUBSET Names]
  /\ run \in [Nodes -> {"down", "starting", "up", "stopping"}]
  /\ todo \in [Nodes -> SUBSET Periodic]
  /\ poller \in [Nodes -> [pc : PollerPC, batch : SUBSET Copy]]
  /\ chan \in [Nodes -> SUBSET Copy]
  /\ worker \in [Nodes -> [Workers -> [pc : WorkerPC, row : Copy \cup {NoRow}]]]
  /\ clean \in [Nodes -> BOOLEAN]
  /\ interrupts \in 0 .. MaxInterrupts

Idle == [pc |-> "idle", row |-> NoRow]
Off == [pc |-> "off", row |-> NoRow]
PollerIdle == [pc |-> "idle", batch |-> {}]
PollerOff == [pc |-> "off", batch |-> {}]

Init ==
  /\ rows = [id \in RowIds |-> NoRow]
  /\ ready = {}
  /\ ahead = [id \in RowIds |-> {}]
  /\ ran = {}
  /\ jobs = [n \in Nodes |-> {}]
  /\ run = [n \in Nodes |-> "down"]
  /\ todo = [n \in Nodes |-> {}]
  /\ poller = [n \in Nodes |-> PollerOff]
  /\ chan = [n \in Nodes |-> {}]
  /\ worker = [n \in Nodes |-> [w \in Workers |-> Off]]
  /\ clean = [n \in Nodes |-> TRUE]
  /\ interrupts = 0

-----------------------------------------------------------------------------
(* The table.  Live rows, and the copies of them the runners hold.         *)

Live(id) == rows[id] # NoRow
Queued(id) == Live(id) /\ ~rows[id].started
Ids(copies) == {c.id : c \in copies}

\* Process n holds a claim on row id: in the batch being sent, in the
\* channel, or in the hands of a worker.
InBatch(n, id) == poller[n].pc = "sending" /\ id \in Ids(poller[n].batch)
InChan(n, id) == id \in Ids(chan[n])
InWorker(n, w, id) ==
  worker[n][w].pc \in {"taken", "running"} /\ worker[n][w].row.id = id
Held(n, id) == InBatch(n, id) \/ InChan(n, id) \/ \E w \in Workers : InWorker(n, w, id)

\* An id INSERT may hand out: no live row has it and no process still refers
\* to a deleted row by it (ids are never reused by the database).
Fresh(id) ==
  /\ ~Live(id)
  /\ \A n \in Nodes : ~Held(n, id) /\ id \notin Ids(poller[n].batch)
NextId(id) == Fresh(id) /\ \A j \in 1 .. (id - 1) : ~Fresh(j)

MakeDue(id) ==
  /\ ready' = ready \cup {id}
  /\ ahead' = [ahead EXCEPT ![id] = ready \ {id}]
NoLongerDue(ids) ==
  /\ ready' = ready \ ids
  /\ ahead' = [id \in RowIds |-> IF id \in ids THEN {} ELSE ahead[id] \ ids]

\* INSERT INTO jobs: run_at is now (due) or later.
Insert(id, name, due) ==
  /\ NextId(id)
  /\ rows' = [rows EXCEPT ![id] = [started |-> FALSE, name |-> name,
                                   attempts |-> 0]]
  /\ IF due THEN MakeDue(id) ELSE UNCHANGED <<ready, ahead>>
  /\ ran' = ran \ {id}

\* UPDATE jobs SET completed_at = ? WHERE id = ?.
Complete(id) ==
  /\ rows' = [rows EXCEPT ![id] = NoRow]
  /\ NoLongerDue({id})
  /\ ran' = ran \ {id}

Bump(k) == IF k < AttemptCap THEN k + 1 ELSE k

\* Mutant: started_at is left set, the row only gets a new run_at.
FailKeepsStarted(id) ==
  /\ rows' = IF Live(id) THEN [rows EXCEPT ![id] = [@ EXCEPT !.attempts = Bump(@)]] ELSE rows
  /\ NoLongerDue({id})

\* SET started_at = NULL, attempts = attempts + 1.
Failed(r) == [r EXCEPT !.started = FALSE, !.attempts = Bump(r.attempts)]

\* The UPDATE of a failed row; its run_at is set to now + poll interval.
\* A row that was deleted in between is not there to be updated.
Fail(id) ==
  /\ rows' = IF Live(id) THEN [rows EXCEPT ![id] = Failed(rows[id])] ELSE rows
  /\ NoLongerDue({id})

\* A row's run_at comes.
Elapse(id) ==
  /\ Queued(id) /\ id \notin ready
  /\ MakeDue(id)
  /\ UNCHANGED <<rows, ran, jobs, run, todo, poller, chan, worker, clean, interrupts>>

\* Plugin uninstall drops every row of the plugin's job name, whatever its state.
DeleteByName(name) ==
  /\ name \notin Periodic
  /\ \E id \in RowIds : Live(id) /\ rows[id].name = name
  /\ LET gone == {id \in RowIds : Live(id) /\ rows[id].name = name} IN
       /\ rows' = [id \in RowIds |-> IF id \in gone THEN NoRow ELSE rows[id]]
       /\ NoLongerDue(gone)
       /\ ran' = ran \ gone
  /\ UNCHANGED <<jobs, run, todo, poller, chan, worker, clean, interrupts>>

-----------------------------------------------------------------------------
(* Registration and enqueueing.                                            *)

\* The server registers the periodic jobs before Start; on-demand names
\* (previews, plugins) come and go while it runs.
Register(n, name) ==
  /\ name \notin jobs[n]
  /\ name \in Periodic => run[n] = "down"
  /\ jobs' = [jobs EXCEPT ![n] = @ \cup {name}]
  /\ UNCHANGED <<rows, ready, ahead, ran, run, todo, poller, chan, worker, clean, interrupts>>

Unregister(n, name) ==
  /\ name \in jobs[n] \ Periodic
  /\ jobs' = [jobs EXCEPT ![n] = @ \ {name}]
  /\ UNCHANGED <<rows, ready, ahead, ran, run, todo, poller, chan, worker, clean, interrupts>>

\* Enqueue of an on-demand job from a request handler or a plugin.
Enqueue(n, name, due) ==
  /\ name \in jobs[n] \ Periodic
  /\ Cardinality({id \in RowIds : Live(id) /\ rows[id].name \notin Periodic}) < MaxOnDemand
  /\ \E id \in RowIds : Insert(id, name, due)
  /\ UNCHANGED <<jobs, run, todo, poller, chan, worker, clean, interrupts>>

-----------------------------------------------------------------------------
(* Start and Stop.                                                         *)

StartBegin(n) ==
  /\ run[n] = "down"
  /\ Periodic \subseteq jobs[n]
  /\ run' = [run EXCEPT ![n] = "starting"]
  /\ todo' = [todo EXCEPT ![n] = Periodic \cap jobs[n]]
  /\ clean' = [clean EXCEPT ![n] = TRUE]
  /\ UNCHANGED <<rows, ready, ahead, ran, jobs, poller, chan, worker, interrupts>>

StartEnqueue(n, name) ==
  /\ run[n] = "starting"
  /\ name \in todo[n]
  /\ \E id \in RowIds : Insert(id, name, FALSE)
  /\ todo' = [todo EXCEPT ![n] = @ \ {name}]
  /\ UNCHANGED <<jobs, run, poller, chan, worker, clean, interrupts>>

\* go r.worker(...) for every worker, go r.pollLoop(...).
StartLaunch(n) ==
  /\ run[n] = "starting"
  /\ todo[n] = {}
  /\ run' = [run EXCEPT ![n] = "up"]
  /\ poller' = [poller EXCEPT ![n] = PollerIdle]
  /\ worker' = [worker EXCEPT ![n] = [w \in Workers |-> Idle]]
  /\ UNCHANGED <<rows, ready, ahead, ran, jobs, todo, chan, clean, interrupts>>

\* Everything a process keeps in memory is gone; the table stays.
Wipe(n) ==
  /\ run' = [run EXCEPT ![n] = "down"]
  /\ jobs' = [jobs EXCEPT ![n] = {}]
  /\ todo' = [todo EXCEPT ![n] = {}]
  /\ poller' = [poller EXCEPT ![n] = PollerOff]
  /\ chan' = [chan EXCEPT ![n] = {}]
  /\ worker' = [worker EXCEPT ![n] = [w \in Workers |-> Off]]

\* Start's own Enqueue failed: Start returns the error and the server exits.
StartError(n) ==
  /\ run[n] = "starting" /\ todo[n] # {}
  /\ interrupts < MaxInterrupts
  /\ interrupts' = interrupts + 1
  /\ Wipe(n)
  /\ UNCHANGED <<rows, ready, ahead, ran, clean>>

\* Stop, first half: cancel().
Stop(n) ==
  /\ run[n] = "up"
  /\ interrupts < MaxInterrupts
  /\ interrupts' = interrupts + 1
  /\ run' = [run EXCEPT ![n] = "stopping"]
  /\ UNCHANGED <<rows, ready, ahead, ran, jobs, todo, poller, chan, worker, clean>>

\* Stop, second half: wg.Wait() returns; the server exits.
StopReturn(n) ==
  /\ run[n] = "stopping"
  /\ poller[n].pc = "off"
  /\ \A w \in Workers : worker[n][w].pc = "off"
  /\ Wipe(n)
  /\ UNCHANGED <<rows, ready, ahead, ran, clean, interrupts>>

Crash(n) ==
  /\ run[n] # "down"
  /\ interrupts < MaxInterrupts
  /\ interrupts' = interrupts + 1
  /\ Wipe(n)
  /\ UNCHANGED <<rows, ready, ahead, ran, clean>>

-----------------------------------------------------------------------------
(* pollLoop and claim.                                                     *)

Limit == Cardinality(Workers)
CopyOf(id) == [id |-> id, name |-> rows[id].name, attempts |-> rows[id].attempts]

\* Mutant: ORDER BY run_at DESC.
NewestDue(ids) ==
  /\ Cardinality(ids) = IF Cardinality(ready) < Limit THEN Cardinality(ready) ELSE Limit
  /\ \A id \in ids, j \in ready : id \in ahead[j] => j \in ids

\* ORDER BY run_at, id LIMIT r.workers over the due rows.
FirstDue(ids) ==
  /\ Cardinality(ids) = IF Cardinality(ready) < Limit THEN Cardinality(ready) ELSE Limit
  /\ \A id \in ids : ahead[id] \subseteq ids

\* The SELECT of ClaimDue.
PollSelect(n) ==
  /\ run[n] = "up" /\ poller[n].pc = "idle"
  /\ ready # {}
  /\ \E ids \in SUBSET ready :
       /\ FirstDue(ids)
       /\ poller' = [poller EXCEPT ![n] =
                       [pc |-> "selected", batch |-> {CopyOf(id) : id \in ids}]]
  /\ UNCHANGED <<rows, ready, ahead, ran, jobs, run, todo, chan, worker, clean, interrupts>>

\* Mutant: the UPDATE has no "started_at IS NULL" guard.
PollClaimUnguarded(n) ==
  /\ run[n] = "up" /\ poller[n].pc = "selected"
  /\ LET claimed == {c \in poller[n].batch : Live(c.id)} IN
       /\ rows' = [id \in RowIds |-> IF id \in Ids(claimed)
                                     THEN [rows[id] EXCEPT !.started = TRUE]
                                     ELSE rows[id]]
       /\ NoLongerDue(Ids(claimed))
       /\ poller' = [poller EXCEPT ![n] = [pc |-> "sending", batch |-> claimed]]
  /\ UNCHANGED <<ran, jobs, run, todo, chan, worker, clean, interrupts>>

\* The guarded UPDATEs of ClaimDue and the commit: a candidate another
\* process claimed after the SELECT is left out.
PollClaim(n) ==
  /\ run[n] = "up" /\ poller[n].pc = "selected"
  /\ LET claimed == {c \in poller[n].batch : Queued(c.id)} IN
       /\ rows' = [id \in RowIds |-> IF id \in Ids(claimed)
                                     THEN [rows[id] EXCEPT !.started = TRUE]
                                     ELSE rows[id]]
       /\ NoLongerDue(Ids(claimed))
       /\ poller' = [poller EXCEPT ![n] = [pc |-> "sending", batch |-> claimed]]
  /\ UNCHANGED <<ran, jobs, run, todo, chan, worker, clean, interrupts>>

\* ClaimDue returned an error: nothing was claimed, the next tick polls again.
PollError(n) ==
  /\ run[n] = "up" /\ poller[n].pc = "selected"
  /\ interrupts < MaxInterrupts
  /\ interrupts' = interrupts + 1
  /\ poller' = [poller EXCEPT ![n] = PollerIdle]
  /\ UNCHANGED <<rows, ready, ahead, ran, jobs, run, todo, chan, worker, clean>>

\* ch <- row (the order within a batch is immaterial); with the context
\* cancelled the select may still take this branch.
PollSend(n) ==
  /\ run[n] \in {"up", "stopping"} /\ poller[n].pc = "sending"
  /\ Cardinality(chan[n]) < Limit
  /\ \E c \in poller[n].batch :
       /\ chan' = [chan EXCEPT ![n] = @ \cup {c}]
       /\ poller' = [poller EXCEPT ![n].batch = @ \ {c}]
  /\ UNCHANGED <<rows, ready, ahead, ran, jobs, run, todo, worker, clean, interrupts>>

PollSent(n) ==
  /\ poller[n].pc = "sending" /\ poller[n].batch = {}
  /\ poller' = [poller EXCEPT ![n] = PollerIdle]
  /\ UNCHANGED <<rows, ready, ahead, ran, jobs, run, todo, chan, worker, clean, interrupts>>

\* Mutant: claim's send does not watch ctx.Done().
PollExitNotWhileSending(n) ==
  /\ run[n] = "stopping" /\ poller[n].pc \notin {"off", "sending"}
  /\ poller' = [poller EXCEPT ![n] = PollerOff]
  /\ UNCHANGED <<rows, ready, ahead, ran, jobs, run, todo, chan, worker, clean, interrupts>>

\* <-ctx.Done(): in pollLoop's select, in claim's select (the rest of the
\* batch is dropped) or as ClaimDue's error.
PollExit(n) ==
  /\ run[n] = "stopping" /\ poller[n].pc # "off"
  /\ poller' = [poller EXCEPT ![n] = PollerOff]
  /\ UNCHANGED <<rows, ready, ahead, ran, jobs, run, todo, chan, worker, clean, interrupts>>

-----------------------------------------------------------------------------
(* worker and runOne.                                                      *)

WorkerTake(n, w) ==
  /\ worker[n][w].pc = "idle"
  /\ \E c \in chan[n] :
       /\ worker' = [worker EXCEPT ![n][w] = [pc |-> "taken", row |-> c]]
       /\ chan' = [chan EXCEPT ![n] = @ \ {c}]
  /\ UNCHANGED <<rows, ready, ahead, ran, jobs, run, todo, poller, clean, interrupts>>

WorkerExit(n, w) ==
  /\ run[n] = "stopping" /\ worker[n][w].pc = "idle"
  /\ worker' = [worker EXCEPT ![n][w] = Off]
  /\ UNCHANGED <<rows, ready, ahead, ran, jobs, run, todo, poller, chan, clean, interrupts>>

Finished(n, w) == worker' = [worker EXCEPT ![n][w] = Idle]

\* No job is registered under the row's name: the row is failed and, once
\* it has been tried often enough, dropped.
Undeliverable(n, w) ==
  LET c == worker[n][w].row IN
  /\ run[n] = "up" /\ worker[n][w].pc = "taken"
  /\ c.name \notin jobs[n]
  /\ \/ c.attempts >= MaxUnknown /\ Complete(c.id)
     \/ c.attempts < MaxUnknown /\ Fail(c.id) /\ UNCHANGED ran
  /\ Finished(n, w)
  /\ UNCHANGED <<jobs, run, todo, poller, chan, clean, interrupts>>

Dispatch(n, w) ==
  LET c == worker[n][w].row IN
  /\ worker[n][w].pc = "taken"
  /\ c.name \in jobs[n]
  /\ worker' = [worker EXCEPT ![n][w].pc = "running"]
  /\ ran' = IF Live(c.id) THEN ran \cup {c.id} ELSE ran
  /\ UNCHANGED <<rows, ready, ahead, jobs, run, todo, poller, chan, clean, interrupts>>

\* Mutant: a completed periodic job is not enqueued again.
RunSucceedsOnce(n, w) ==
  /\ run[n] = "up" /\ worker[n][w].pc = "running"
  /\ Complete(worker[n][w].row.id)
  /\ Finished(n, w)
  /\ UNCHANGED <<jobs, run, todo, poller, chan, clean, interrupts>>

\* job.Run returned nil: Complete, then a periodic job is due for re-enqueueing.
RunSucceeds(n, w) ==
  LET c == worker[n][w].row IN
  /\ run[n] = "up" /\ worker[n][w].pc = "running"
  /\ Complete(c.id)
  /\ worker' = [worker EXCEPT ![n][w] =
       IF c.name \in Periodic THEN [pc |-> "reenqueue", row |-> c] ELSE Idle]
  /\ UNCHANGED <<jobs, run, todo, poller, chan, clean, interrupts>>

\* job.Run returned an error: the row is scheduled for another attempt.
RunFails(n, w) ==
  LET c == worker[n][w].row IN
  /\ run[n] = "up" /\ worker[n][w].pc = "running"
  /\ Fail(c.id)
  /\ Finished(n, w)
  /\ UNCHANGED <<ran, jobs, run, todo, poller, chan, clean, interrupts>>

Reenqueue(n, w) ==
  /\ run[n] = "up" /\ worker[n][w].pc = "reenqueue"
  /\ \E id \in RowIds : Insert(id, worker[n][w].row.name, FALSE)
  /\ Finished(n, w)
  /\ UNCHANGED <<jobs, run, todo, poller, chan, clean, interrupts>>

\* The row's last statement fails: with the context cancelled it always
\* does, otherwise on a database error.  runOne returns; the row stays as it is.
StoreError(n, w) ==
  /\ worker[n][w].pc \in {"running", "reenqueue"}
       \/ (worker[n][w].pc = "taken" /\ worker[n][w].row.name \notin jobs[n])
  /\ \/ run[n] = "stopping" /\ UNCHANGED <<interrupts, clean>>
     \/ /\ run[n] = "up" /\ interrupts < MaxInterrupts
        /\ interrupts' = interrupts + 1
        /\ clean' = [clean EXCEPT ![n] = FALSE]
  /\ Finished(n, w)
  /\ UNCHANGED <<rows, ready, ahead, ran, jobs, run, todo, poller, chan>>

-----------------------------------------------------------------------------
PollStep(n) ==
  \/ PollSelect(n) \/ PollClaim(n) \/ PollError(n)
  \/ PollSend(n) \/ PollSent(n) \/ PollExit(n)

WorkerStep(n, w) ==
  \/ WorkerTake(n, w) \/ WorkerExit(n, w) \/ Undeliverable(n, w) \/ Dispatch(n, w)
  \/ RunSucceeds(n, w) \/ RunFails(n, w) \/ Reenqueue(n, w) \/ StoreError(n, w)

StartStep(n) ==
  StartBegin(n) \/ StartLaunch(n) \/ \E name \in Periodic : StartEnqueue(n, name)

Next ==
  \/ \E id \in RowIds : Elapse(id)
  \/ \E name \in Names : DeleteByName(name)
  \/ \E n \in Nodes :
       \/ \E name \in Names :
            \/ Register(n, name) \/ Unregister(n, name)
            \/ \E due \in BOOLEAN : Enqueue(n, name, due)
       \/ StartStep(n) \/ StartError(n)
       \/ Stop(n) \/ StopReturn(n) \/ Crash(n)
       \/ PollStep(n)
       \/ \E w \in Workers : WorkerStep(n, w)

Spec == Init /\ [][Next]_vars

\* What the Go scheduler and the database driver provide: a goroutine that
\* can run does, job.Run returns, run_at comes, a stopped server is started
\* again.  Errors, crashes, enqueueing and plugin registration are not fair.
Fairness ==
  /\ \A id \in RowIds : WF_vars(Elapse(id))
  /\ \A n \in Nodes :
       /\ \A name \in Periodic : WF_vars(Register(n, name))
       /\ WF_vars(StartStep(n))
       /\ WF_vars(StopReturn(n))
       /\ WF_vars(PollSelect(n) \/ PollClaim(n) \/ PollSend(n) \/ PollSent(n) \/ PollExit(n))
       /\ \A w \in Workers : WF_vars(WorkerStep(n, w))

FairSpec == Spec /\ Fairness

-----------------------------------------------------------------------------
(* Properties.                                                             *)

\* A claimed row is in exactly one place: one process, and there one of the
\* batch, the channel and the workers.  Two pollers that selected the same
\* candidates never both run it, whatever the retries, stops and deletions.
ExclusiveClaim ==
  \A id \in RowIds, n \in Nodes :
    /\ \A m \in Nodes : Held(n, id) /\ Held(m, id) => m = n
    /\ ~(InBatch(n, id) /\ InChan(n, id))
    /\ \A w \in Workers : InWorker(n, w, id) =>
         /\ ~InBatch(n, id) /\ ~InChan(n, id)
         /\ \A v \in Workers : InWorker(n, v, id) => v = w

\* A row somebody holds is not offered to the next ClaimDue.
HeldNotQueued == \A id \in RowIds, n \in Nodes : Held(n, id) => ~Queued(id)

\* Until a stop, a crash or a database error interferes, a row whose
\* started_at is set is on its way to a worker: no branch of claim or runOne
\* leaves a claimed row behind.
NoOrphan ==
  interrupts = 0 =>
    \A id \in RowIds : (Live(id) /\ rows[id].started) => \E n \in Nodes : Held(n, id)

\* A periodic job never dies out: while a runner is up and no statement of it
\* has failed, each periodic name has a row that is queued or held by that
\* runner, or a worker is about to insert the next one (single-process
\* deployments, which is what the runner is documented for).
PeriodicAlive ==
  \A n \in Nodes, name \in Periodic :
    (Nodes = {n} /\ run[n] = "up" /\ clean[n]) =>
      \/ \E id \in RowIds : /\ Live(id) /\ rows[id].name = name
                            /\ Queued(id) \/ Held(n, id)
      \/ \E w \in Workers : /\ worker[n][w].pc = "reenqueue"
                            /\ worker[n][w].row.name = name

\* Every row that enters the table is handed to job.Run, or is dropped as
\* undeliverable or with its plugin, as long as nothing stopped, crashed or
\* failed: ClaimDue commits started_at, and nothing gives the row back.
HandedOver ==
  \A id \in RowIds : Live(id) ~> (id \in ran \/ ~Live(id) \/ interrupts > 0)

\* Stop returns: cancelling releases the poll loop even when it is blocked on
\* a full channel, and every worker comes back.
StopReturns == \A n \in Nodes : run[n] = "stopping" ~> run[n] = "down"
=============================================================================
