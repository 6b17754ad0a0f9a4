---------------------------- MODULE JobsProofs ----------------------------
(***************************************************************************)
(* The job runner for any number of processes, workers, names and rows:    *)
(* types, exclusive claims, no orphaned row, periodic jobs that stay.      *)
(***************************************************************************)
EXTENDS Jobs, TLAPS

\* Only queued rows are due: what PollSelect copies exists.
ReadyQueued == \A id \in ready : Queued(id)

\* A worker past its receive has a row in hand.
WorkerRow ==
  \A n \in Nodes, w \in Workers :
    worker[n][w].pc \in {"taken", "running", "reenqueue"} => worker[n][w].row \in Copy

TInv == TypeOK /\ ReadyQueued /\ WorkerRow

\* The batch and the channel hold at most one copy of a row.
Distinct(copies) == \A c \in copies, d \in copies : c.id = d.id => c = d
UniqueCopies == \A n \in Nodes : Distinct(poller[n].batch) /\ Distinct(chan[n])

-----------------------------------------------------------------------------
\* The initial state is well typed and has no rows.
LEMMA TInvInit == Init => TInv
BY JobsAssumption DEF Init, TInv, TypeOK, ReadyQueued, WorkerRow, Off, PollerOff, PollerPC, WorkerPC

\* Facts about the statements on the table.
LEMMA InsertType ==
  ASSUME TInv, NEW id \in RowIds, NEW name \in Names, NEW due \in BOOLEAN, Insert(id, name, due)
  PROVE  /\ rows' \in [RowIds -> Row \cup {NoRow}]
         /\ ready' \subseteq RowIds
         /\ ahead' \in [RowIds -> SUBSET RowIds]
         /\ ran' \subseteq RowIds
         /\ ReadyQueued'
<1> DEFINE new == [started |-> FALSE, name |-> name, attempts |-> 0]
<1>0. new \in Row
  BY JobsAssumption DEF Row
<1>1. new \in Row /\ new # NoRow
  BY <1>0, NoRowAssumption
<1>2. rows' = [rows EXCEPT ![id] = new]
  BY DEF Insert
<1>3. rows' \in [RowIds -> Row \cup {NoRow}]
  BY <1>1, <1>2 DEF TInv, TypeOK
<1>4. ready' \subseteq RowIds /\ ahead' \in [RowIds -> SUBSET RowIds] /\ ran' \subseteq RowIds
  <2>1. \/ ready' = ready \cup {id} /\ ahead' = [ahead EXCEPT ![id] = ready \ {id}]
        \/ ready' = ready /\ ahead' = ahead
    BY DEF Insert, MakeDue
  <2>2. ran' = ran \ {id}
    BY DEF Insert
  <2> QED
    BY <2>1, <2>2 DEF TInv, TypeOK
<1>5. Queued(id)'
  BY <1>1, <1>2 DEF TInv, TypeOK, Queued, Live
<1>6. ready' \subseteq ready \cup {id}
  BY DEF Insert, MakeDue
<1>7. ASSUME NEW j \in ready', j # id PROVE Queued(j)'
  BY <1>2, <1>6, <1>7 DEF TInv, TypeOK, ReadyQueued, Queued, Live
<1> QED
  BY <1>3, <1>4, <1>5, <1>7 DEF ReadyQueued

\* Completing a row (UPDATE ... completed_at) keeps the table well typed and takes the row out of the due ones.
LEMMA CompleteType ==
  ASSUME TInv, NEW id \in RowIds, Complete(id)
  PROVE  /\ rows' \in [RowIds -> Row \cup {NoRow}]
         /\ ready' \subseteq RowIds
         /\ ahead' \in [RowIds -> SUBSET RowIds]
         /\ ran' \subseteq RowIds
         /\ ReadyQueued'
BY DEF TInv, TypeOK, ReadyQueued, Complete, NoLongerDue, Queued, Live

\* Failing a row keeps the table well typed: the row is queued again, not due yet.
LEMMA FailType ==
  ASSUME TInv, NEW id \in RowIds, Fail(id)
  PROVE  /\ rows' \in [RowIds -> Row \cup {NoRow}]
         /\ ready' \subseteq RowIds
         /\ ahead' \in [RowIds -> SUBSET RowIds]
         /\ ReadyQueued'
<1>1. \A k \in 0 .. AttemptCap : Bump(k) \in 0 .. AttemptCap
  BY JobsAssumption DEF Bump
<1>2. rows' \in [RowIds -> Row \cup {NoRow}] /\ \A j \in RowIds \ {id} : rows'[j] = rows[j]
  <2>1. CASE ~Live(id)
    BY <2>1 DEF TInv, TypeOK, Fail
  <2>2. CASE Live(id)
    <3>1. rows[id] \in Row
      BY <2>2 DEF TInv, TypeOK, Live
    <3>2. Failed(rows[id]) \in Row
      BY <1>1, <3>1 DEF Failed, Row
    <3>3. rows' = [rows EXCEPT ![id] = Failed(rows[id])]
      BY <2>2 DEF Fail
    <3> QED
      BY <3>2, <3>3 DEF TInv, TypeOK
  <2> QED
    BY <2>1, <2>2
<1>3. ready' \subseteq ready \ {id} /\ ahead' \in [RowIds -> SUBSET RowIds]
  BY DEF TInv, TypeOK, Fail, NoLongerDue
<1>4. ReadyQueued'
  BY <1>2, <1>3 DEF TInv, TypeOK, ReadyQueued, Queued, Live
<1> QED
  BY <1>2, <1>3, <1>4 DEF TInv, TypeOK

\* Replacing one entry of a function of functions (what one worker does).
LEMMA UpdateOne ==
  ASSUME NEW S, NEW T, NEW R, NEW f \in [S -> [T -> R]], NEW a \in S, NEW b \in T, NEW v \in R
  PROVE  /\ [f EXCEPT ![a][b] = v] \in [S -> [T -> R]]
         /\ \A x \in S, y \in T :
              [f EXCEPT ![a][b] = v][x][y] = IF x = a /\ y = b THEN v ELSE f[x][y]
OBVIOUS

\* Replacing the batch of one poller changes nothing else.
LEMMA UpdateBatch ==
  ASSUME NEW S, NEW P, NEW Q, NEW f \in [S -> [pc : P, batch : Q]], NEW a \in S, NEW v \in Q
  PROVE  /\ [f EXCEPT ![a].batch = v] \in [S -> [pc : P, batch : Q]]
         /\ \A x \in S : /\ [f EXCEPT ![a].batch = v][x].pc = f[x].pc
                         /\ [f EXCEPT ![a].batch = v][x].batch = IF x = a THEN v ELSE f[x].batch
OBVIOUS

\* A process that loses its memory is in a well-typed state again.
LEMMA WipeType ==
  ASSUME TInv, NEW n \in Nodes, Wipe(n)
  PROVE  /\ run' \in [Nodes -> {"down", "starting", "up", "stopping"}]
         /\ jobs' \in [Nodes -> SUBSET Names]
         /\ todo' \in [Nodes -> SUBSET Periodic]
         /\ poller' \in [Nodes -> [pc : PollerPC, batch : SUBSET Copy]]
         /\ chan' \in [Nodes -> SUBSET Copy]
         /\ worker' \in [Nodes -> [Workers -> [pc : WorkerPC, row : Copy \cup {NoRow}]]]
         /\ WorkerRow'
<1>1. /\ run' \in [Nodes -> {"down", "starting", "up", "stopping"}]
      /\ jobs' \in [Nodes -> SUBSET Names]
      /\ todo' \in [Nodes -> SUBSET Periodic]
      /\ chan' \in [Nodes -> SUBSET Copy]
  BY DEF TInv, TypeOK, Wipe
<1>2. poller' \in [Nodes -> [pc : PollerPC, batch : SUBSET Copy]]
  <2>1. PollerOff \in [pc : PollerPC, batch : SUBSET Copy]
    BY DEF PollerOff, PollerPC
  <2> QED
    BY <2>1 DEF TInv, TypeOK, Wipe
<1>3. worker' \in [Nodes -> [Workers -> [pc : WorkerPC, row : Copy \cup {NoRow}]]] /\ WorkerRow'
  <2>1. Off \in [pc : WorkerPC, row : Copy \cup {NoRow}] /\ Off.pc = "off"
    BY DEF Off, WorkerPC
  <2>2. worker' = [worker EXCEPT ![n] = [w \in Workers |-> Off]]
    BY DEF Wipe
  <2>3. worker' \in [Nodes -> [Workers -> [pc : WorkerPC, row : Copy \cup {NoRow}]]]
    BY <2>1, <2>2 DEF TInv, TypeOK
  <2>4. ASSUME NEW m \in Nodes, NEW w \in Workers
        PROVE  worker'[m][w] = IF m = n THEN Off ELSE worker[m][w]
    BY <2>2 DEF TInv, TypeOK
  <2>5. WorkerRow'
    BY <2>1, <2>4 DEF TInv, WorkerRow
  <2> QED
    BY <2>3, <2>5
<1> QED
  BY <1>1, <1>2, <1>3

\* Every step of the runner preserves the typing invariant.
LEMMA TInvStep == TInv /\ [Next]_vars => TInv'
<1> SUFFICES ASSUME TInv, [Next]_vars PROVE TInv'
  OBVIOUS
<1>0. CASE UNCHANGED vars
  BY <1>0 DEF TInv, TypeOK, ReadyQueued, WorkerRow, vars, Queued, Live
<1>1. CASE \E id \in RowIds : Elapse(id)
  BY <1>1 DEF TInv, TypeOK, ReadyQueued, WorkerRow, Elapse, MakeDue, Queued, Live
<1>2. CASE \E name \in Names : DeleteByName(name)
  BY <1>2 DEF TInv, TypeOK, ReadyQueued, WorkerRow, DeleteByName, NoLongerDue, Queued, Live
<1>3. ASSUME NEW n \in Nodes, NEW name \in Names, Register(n, name) \/ Unregister(n, name)
      PROVE TInv'
  <2>1. TypeOK'
    <3>1. jobs' \in [Nodes -> SUBSET Names]
      <4>1. CASE Register(n, name)
        BY <4>1 DEF TInv, TypeOK, Register
      <4>2. CASE Unregister(n, name)
        BY <4>2 DEF TInv, TypeOK, Unregister
      <4> QED
        BY <1>3, <4>1, <4>2
    <3> QED
      BY <1>3, <3>1 DEF TInv, TypeOK, Register, Unregister
  <2>2. ReadyQueued'
    BY <1>3 DEF TInv, ReadyQueued, Register, Unregister, Queued, Live
  <2>3. WorkerRow'
    BY <1>3 DEF TInv, TypeOK, WorkerRow, Register, Unregister
  <2> QED
    BY <2>1, <2>2, <2>3 DEF TInv
<1>4. ASSUME NEW n \in Nodes, NEW name \in Names, NEW due \in BOOLEAN, Enqueue(n, name, due)
      PROVE TInv'
  BY <1>4, InsertType DEF TInv, TypeOK, ReadyQueued, WorkerRow, Enqueue
<1>5. ASSUME NEW n \in Nodes, StartBegin(n)
      PROVE TInv'
  BY <1>5 DEF TInv, TypeOK, ReadyQueued, WorkerRow, StartBegin, Queued, Live
<1>6. ASSUME NEW n \in Nodes, NEW name \in Periodic, StartEnqueue(n, name)
      PROVE TInv'
  BY <1>6, InsertType, JobsAssumption DEF TInv, TypeOK, ReadyQueued, WorkerRow, StartEnqueue
<1>7. ASSUME NEW n \in Nodes, StartLaunch(n)
      PROVE TInv'
  BY <1>7 DEF TInv, TypeOK, ReadyQueued, WorkerRow, StartLaunch, Queued, Live, Idle, PollerIdle, PollerPC, WorkerPC
<1>8. ASSUME NEW n \in Nodes, StartError(n) \/ StopReturn(n) \/ Crash(n)
      PROVE TInv'
  <2>1. Wipe(n) /\ UNCHANGED <<rows, ready, ahead, ran, clean>> /\ interrupts' \in 0 .. MaxInterrupts
    BY <1>8, JobsAssumption DEF StartError, StopReturn, Crash, TInv, TypeOK
  <2>2. ReadyQueued'
    BY <2>1 DEF TInv, ReadyQueued, Queued, Live
  <2> QED
    BY <2>1, <2>2, WipeType DEF TInv, TypeOK
<1>9. ASSUME NEW n \in Nodes, Stop(n)
      PROVE TInv'
  <2>1. TypeOK'
    BY <1>9, JobsAssumption DEF TInv, TypeOK, Stop
  <2>2. ReadyQueued'
    BY <1>9, JobsAssumption DEF TInv, ReadyQueued, Stop, Queued, Live
  <2>3. WorkerRow'
    BY <1>9, JobsAssumption DEF TInv, TypeOK, WorkerRow, Stop
  <2> QED
    BY <2>1, <2>2, <2>3 DEF TInv
<1>10. ASSUME NEW n \in Nodes, PollSelect(n)
       PROVE TInv'
  BY <1>10 DEF TInv, TypeOK, ReadyQueued, WorkerRow, PollSelect, Queued, Live, CopyOf, Copy, Row, PollerPC
<1>11. ASSUME NEW n \in Nodes, PollClaim(n)
       PROVE TInv'
  BY <1>11 DEF TInv, TypeOK, ReadyQueued, WorkerRow, PollClaim, NoLongerDue, Queued, Live, Ids, Row, PollerPC
<1>12. ASSUME NEW n \in Nodes, PollError(n) \/ PollSent(n) \/ PollExit(n)
       PROVE TInv'
  <2>1. TypeOK'
    <3>1. PollerIdle \in [pc : PollerPC, batch : SUBSET Copy] /\ PollerOff \in [pc : PollerPC, batch : SUBSET Copy]
      BY DEF PollerIdle, PollerOff, PollerPC
    <3>2. poller' \in [Nodes -> [pc : PollerPC, batch : SUBSET Copy]]
      BY <1>12, <3>1 DEF TInv, TypeOK, PollError, PollSent, PollExit
    <3>3. interrupts' \in 0 .. MaxInterrupts
      BY <1>12, JobsAssumption DEF TInv, TypeOK, PollError, PollSent, PollExit
    <3> QED
      BY <1>12, <3>2, <3>3 DEF TInv, TypeOK, PollError, PollSent, PollExit
  <2>2. ReadyQueued'
    BY <1>12, JobsAssumption DEF TInv, ReadyQueued, PollError, PollSent, PollExit, Queued, Live
  <2>3. WorkerRow'
    BY <1>12, JobsAssumption DEF TInv, TypeOK, WorkerRow, PollError, PollSent, PollExit
  <2> QED
    BY <2>1, <2>2, <2>3 DEF TInv
<1>13. ASSUME NEW n \in Nodes, PollSend(n)
       PROVE TInv'
  <2>1. TypeOK'
    <3>1. PICK c \in poller[n].batch :
            /\ chan' = [chan EXCEPT ![n] = @ \cup {c}]
            /\ poller' = [poller EXCEPT ![n].batch = @ \ {c}]
      BY <1>13 DEF PollSend
    <3>2. poller[n] \in [pc : PollerPC, batch : SUBSET Copy]
      BY DEF TInv, TypeOK
    <3>3. poller[n].batch \ {c} \in SUBSET Copy /\ c \in Copy
      BY <3>2
    <3>4. poller' \in [Nodes -> [pc : PollerPC, batch : SUBSET Copy]]
      <4> DEFINE rest == poller[n].batch \ {c}
      <4>1. poller' = [poller EXCEPT ![n].batch = rest]
        BY <3>1
      <4>2. rest \in SUBSET Copy
        BY <3>3
      <4>3. poller \in [Nodes -> [pc : PollerPC, batch : SUBSET Copy]]
        BY DEF TInv, TypeOK
      <4> HIDE DEF rest
      <4> QED
        BY <4>1, <4>2, <4>3, UpdateBatch
    <3>5. chan' \in [Nodes -> SUBSET Copy]
      BY <3>1, <3>3 DEF TInv, TypeOK
    <3> QED
      BY <1>13, <3>4, <3>5 DEF TInv, TypeOK, PollSend
  <2>2. ReadyQueued'
    BY <1>13 DEF TInv, ReadyQueued, PollSend, Queued, Live
  <2>3. WorkerRow'
    BY <1>13 DEF TInv, TypeOK, WorkerRow, PollSend
  <2> QED
    BY <2>1, <2>2, <2>3 DEF TInv
<1>14. ASSUME NEW n \in Nodes, NEW w \in Workers, WorkerTake(n, w)
       PROVE TInv'
  BY <1>14 DEF TInv, TypeOK, ReadyQueued, WorkerRow, WorkerTake, Queued, Live, WorkerPC
<1>15. ASSUME NEW n \in Nodes, NEW w \in Workers, WorkerExit(n, w)
       PROVE TInv'
  BY <1>15 DEF TInv, TypeOK, ReadyQueued, WorkerRow, WorkerExit, Off, Queued, Live, WorkerPC
<1>16. ASSUME NEW n \in Nodes, NEW w \in Workers, Undeliverable(n, w)
       PROVE TInv'
  <2> DEFINE c == worker[n][w].row
  <2>1. c.id \in RowIds
    BY <1>16 DEF TInv, WorkerRow, Undeliverable, Copy
  <2> QED
    BY <1>16, <2>1, CompleteType, FailType DEF TInv, TypeOK, ReadyQueued, WorkerRow, Undeliverable, Finished, Idle, WorkerPC
<1>17. ASSUME NEW n \in Nodes, NEW w \in Workers, Dispatch(n, w)
       PROVE TInv'
  <2>1. TypeOK'
    <3>1. worker[n][w] \in [pc : WorkerPC, row : Copy \cup {NoRow}] /\ worker[n][w].row \in Copy
      BY <1>17 DEF TInv, TypeOK, WorkerRow, Dispatch
    <3>2. [worker[n][w] EXCEPT !.pc = "running"] \in [pc : WorkerPC, row : Copy \cup {NoRow}]
      BY <3>1 DEF WorkerPC
    <3>3. worker' = [worker EXCEPT ![n][w] = [worker[n][w] EXCEPT !.pc = "running"]]
      BY <1>17 DEF Dispatch, TInv, TypeOK
    <3>4. worker' \in [Nodes -> [Workers -> [pc : WorkerPC, row : Copy \cup {NoRow}]]]
      BY <3>2, <3>3, UpdateOne DEF TInv, TypeOK
    <3>5. ran' \subseteq RowIds
      BY <1>17, <3>1 DEF TInv, TypeOK, Dispatch, Copy
    <3> QED
      BY <1>17, <3>4, <3>5 DEF TInv, TypeOK, Dispatch
  <2>2. ReadyQueued'
    BY <1>17 DEF TInv, ReadyQueued, Dispatch, Queued, Live
  <2>3. WorkerRow'
    BY <1>17 DEF TInv, TypeOK, WorkerRow, Dispatch
  <2> QED
    BY <2>1, <2>2, <2>3 DEF TInv
<1>18. ASSUME NEW n \in Nodes, NEW w \in Workers, RunSucceeds(n, w) \/ RunFails(n, w)
       PROVE TInv'
  <2> DEFINE c == worker[n][w].row
  <2>1. c.id \in RowIds /\ c \in Copy
    BY <1>18 DEF TInv, WorkerRow, RunSucceeds, RunFails, Copy
  <2> QED
    <3>1. CASE RunSucceeds(n, w)
      BY <3>1, <2>1, CompleteType DEF TInv, TypeOK, WorkerRow, RunSucceeds, Idle, WorkerPC
    <3>2. CASE RunFails(n, w)
      BY <3>2, <2>1, FailType DEF TInv, TypeOK, WorkerRow, RunFails, Finished, Idle, WorkerPC
    <3> QED
      BY <1>18, <3>1, <3>2
<1>19. ASSUME NEW n \in Nodes, NEW w \in Workers, Reenqueue(n, w)
       PROVE TInv'
  <2>1. worker[n][w].row.name \in Names
    BY <1>19 DEF TInv, WorkerRow, Reenqueue, Copy
  <2> QED
    BY <1>19, <2>1, InsertType DEF TInv, TypeOK, ReadyQueued, WorkerRow, Reenqueue, Finished, Idle, WorkerPC
<1>20. ASSUME NEW n \in Nodes, NEW w \in Workers, StoreError(n, w)
       PROVE TInv'
  <2>1. TypeOK'
    <3>1. interrupts' \in 0 .. MaxInterrupts /\ clean' \in [Nodes -> BOOLEAN]
      <4>1. interrupts' \in 0 .. MaxInterrupts
        BY <1>20, JobsAssumption DEF TInv, TypeOK, StoreError
      <4>2. clean' = clean \/ clean' = [clean EXCEPT ![n] = FALSE]
        BY <1>20 DEF StoreError
      <4>3. clean' \in [Nodes -> BOOLEAN]
        BY <4>2 DEF TInv, TypeOK
      <4> QED
        BY <4>1, <4>3
    <3>2. Idle \in [pc : WorkerPC, row : Copy \cup {NoRow}]
      BY DEF Idle, WorkerPC
    <3>3. worker' \in [Nodes -> [Workers -> [pc : WorkerPC, row : Copy \cup {NoRow}]]]
      BY <1>20, <3>2, UpdateOne DEF TInv, TypeOK, StoreError, Finished
    <3> QED
      BY <1>20, <3>1, <3>3 DEF TInv, TypeOK, StoreError
  <2>2. ReadyQueued'
    BY <1>20, JobsAssumption DEF TInv, ReadyQueued, StoreError, Finished, Queued, Live
  <2>3. WorkerRow'
    BY <1>20, JobsAssumption DEF TInv, TypeOK, WorkerRow, StoreError, Finished, Idle
  <2> QED
    BY <2>1, <2>2, <2>3 DEF TInv
<1> QED
  BY <1>0, <1>1, <1>2, <1>3, <1>4, <1>5, <1>6, <1>7, <1>8, <1>9, <1>10, <1>11, <1>12, <1>13,
     <1>14, <1>15, <1>16, <1>17, <1>18, <1>19, <1>20
     DEF Next, StartStep, PollStep, WorkerStep

\* The jobs table and the runners' state keep their shape: in particular a
\* worker never runs a row that is not a copy of a claimed one.
THEOREM TypeCorrect == Spec => []TypeOK
<1>1. Init => TInv
  BY TInvInit
<1>2. TInv /\ [Next]_vars => TInv'
  BY TInvStep
<1>3. TInv => TypeOK
  BY DEF TInv
<1> QED
  BY <1>1, <1>2, <1>3, PTL DEF Spec

-----------------------------------------------------------------------------
(* Exclusive claims.  Most steps only let go of rows; the claim itself, the *)
(* send and the receive are the ones that take hold of one.                 *)

LetsGo ==
  \A n \in Nodes, id \in RowIds :
    /\ InBatch(n, id)' => InBatch(n, id)
    /\ InChan(n, id)' => InChan(n, id)
    /\ \A w \in Workers : InWorker(n, w, id)' => InWorker(n, w, id)

\* No row becomes available to ClaimDue while somebody holds it.
NoneReleasedHeld ==
  \A id \in RowIds : Queued(id)' => (Queued(id) \/ \A n \in Nodes : ~Held(n, id)')

CInv == HeldNotQueued /\ ExclusiveClaim

\* A step that only lets go of rows keeps every claim exclusive.
LEMMA LetsGoKeeps ==
  ASSUME CInv, LetsGo, NoneReleasedHeld
  PROVE  CInv'
<1>1. \A n \in Nodes, id \in RowIds : Held(n, id)' => Held(n, id)
  BY DEF LetsGo, Held
<1>2. HeldNotQueued'
  BY <1>1 DEF CInv, HeldNotQueued, NoneReleasedHeld
<1>3. ExclusiveClaim'
  BY <1>1 DEF CInv, ExclusiveClaim, LetsGo
<1> QED
  BY <1>2, <1>3 DEF CInv

\* A process whose batch, channel and workers do not change lets go of nothing new.
LEMMA LetsGoFrame ==
  ASSUME UNCHANGED <<poller, chan, worker>>
  PROVE  LetsGo
BY DEF LetsGo, InBatch, InChan, InWorker, Ids

\* If the table does not change, no held row becomes queued.
LEMMA NoneReleasedFrame ==
  ASSUME UNCHANGED rows
  PROVE  NoneReleasedHeld
BY DEF NoneReleasedHeld, Queued, Live

\* The effect on one worker's hands, when the other places stay as they are.
LEMMA LetsGoWorker ==
  ASSUME TInv, NEW n \in Nodes, NEW w \in Workers,
         NEW v \in [pc : WorkerPC, row : Copy \cup {NoRow}],
         worker' = [worker EXCEPT ![n][w] = v],
         v.pc \in {"taken", "running"} =>
           worker[n][w].pc \in {"taken", "running"} /\ v.row = worker[n][w].row,
         UNCHANGED <<poller, chan>>
  PROVE  LetsGo
<1>1. \A m \in Nodes, u \in Workers :
        worker'[m][u] = IF m = n /\ u = w THEN v ELSE worker[m][u]
  BY UpdateOne DEF TInv, TypeOK
<1>2. \A m \in Nodes, u \in Workers, id \in RowIds : InWorker(m, u, id)' => InWorker(m, u, id)
  BY <1>1 DEF InWorker
<1> QED
  BY <1>2 DEF LetsGo, InBatch, InChan, Ids

\* An idle worker has a well-typed state.
LEMMA IdleType == Idle \in [pc : WorkerPC, row : Copy \cup {NoRow}] /\ Idle.pc = "idle"
BY DEF Idle, WorkerPC

\* A worker that has ended has a well-typed state.
LEMMA OffType == Off \in [pc : WorkerPC, row : Copy \cup {NoRow}] /\ Off.pc = "off"
BY DEF Off, WorkerPC

\* A worker that is done with its row only lets go of it.
LEMMA FinishedLetsGo ==
  ASSUME TInv, NEW n \in Nodes, NEW w \in Workers, Finished(n, w), UNCHANGED <<poller, chan>>
  PROVE  /\ LetsGo
         /\ \A id \in RowIds : ~InWorker(n, w, id)'
<1>1. worker' = [worker EXCEPT ![n][w] = Idle]
  BY DEF Finished
<1>2. LetsGo
  BY <1>1, IdleType, LetsGoWorker
<1>3. worker'[n][w] = Idle
  BY <1>1 DEF TInv, TypeOK
<1> QED
  BY <1>2, <1>3, IdleType DEF InWorker

\* A row INSERT adds is nobody's.
LEMMA InsertReleases ==
  ASSUME TInv, NEW id \in RowIds, NEW name \in Names, NEW due \in BOOLEAN, Insert(id, name, due), LetsGo
  PROVE  NoneReleasedHeld
<1>1. \A n \in Nodes : ~Held(n, id)
  BY DEF Insert, NextId, Fresh
<1>2. \A n \in Nodes : ~Held(n, id)'
  BY <1>1 DEF LetsGo, Held
<1>3. \A j \in RowIds \ {id} : rows'[j] = rows[j]
  BY DEF Insert, TInv, TypeOK
<1> QED
  BY <1>2, <1>3 DEF NoneReleasedHeld, Queued, Live

\* A completed row is not queued.
LEMMA CompleteReleases ==
  ASSUME TInv, NEW id \in RowIds, Complete(id)
  PROVE  NoneReleasedHeld
BY DEF TInv, TypeOK, Complete, NoneReleasedHeld, Queued, Live

\* A row that fails was held by the worker that fails it, and by nobody else.
LEMMA FailReleases ==
  ASSUME TInv, ExclusiveClaim, NEW n \in Nodes, NEW w \in Workers, NEW id \in RowIds,
         InWorker(n, w, id), Fail(id), LetsGo, ~InWorker(n, w, id)'
  PROVE  NoneReleasedHeld
<1>1. \A j \in RowIds \ {id} : rows'[j] = rows[j]
  BY DEF Fail, TInv, TypeOK
<1>2. Held(n, id)
  BY DEF Held
<1>3. ASSUME NEW m \in Nodes PROVE ~Held(m, id)'
  <2>1. CASE m # n
    BY <1>2, <2>1 DEF ExclusiveClaim, LetsGo, Held
  <2>2. CASE m = n
    BY <2>2 DEF ExclusiveClaim, LetsGo, Held
  <2> QED
    BY <2>1, <2>2
<1> QED
  BY <1>1, <1>3 DEF NoneReleasedHeld, Queued, Live

\* No step of the runner makes a process hold two copies of one row.
LEMMA UniqueStep ==
  ASSUME TInv, UniqueCopies, ExclusiveClaim, [Next]_vars
  PROVE  UniqueCopies'
<1>1. CASE UNCHANGED <<poller, chan>>
  BY <1>1 DEF UniqueCopies, Distinct
<1>2. ASSUME NEW n \in Nodes, Wipe(n)
      PROVE  UniqueCopies'
  BY <1>2 DEF TInv, TypeOK, UniqueCopies, Distinct, Wipe, PollerOff
<1>3. ASSUME NEW n \in Nodes, StartLaunch(n) \/ PollError(n) \/ PollSent(n) \/ PollExit(n)
      PROVE  UniqueCopies'
  <2>1. (poller' = [poller EXCEPT ![n] = PollerIdle] \/ poller' = [poller EXCEPT ![n] = PollerOff]) /\ chan' = chan
    BY <1>3 DEF StartLaunch, PollError, PollSent, PollExit
  <2>2. \A m \in Nodes : poller'[m].batch \in {{}, poller[m].batch}
    BY <2>1 DEF TInv, TypeOK, PollerIdle, PollerOff
  <2> QED
    BY <2>1, <2>2 DEF UniqueCopies, Distinct
<1>4. ASSUME NEW n \in Nodes, PollSelect(n)
      PROVE  UniqueCopies'
  <2>1. PICK ids \in SUBSET ready :
          poller' = [poller EXCEPT ![n] = [pc |-> "selected", batch |-> {CopyOf(id) : id \in ids}]]
    BY <1>4 DEF PollSelect
  <2>2. Distinct({CopyOf(id) : id \in ids})
    BY DEF Distinct, CopyOf
  <2>3. \A m \in Nodes : poller'[m].batch = IF m = n THEN {CopyOf(id) : id \in ids} ELSE poller[m].batch
    BY <2>1 DEF TInv, TypeOK
  <2> QED
    BY <1>4, <2>2, <2>3 DEF UniqueCopies, PollSelect
<1>5. ASSUME NEW n \in Nodes, PollClaim(n)
      PROVE  UniqueCopies'
  <2>1. \A m \in Nodes : poller'[m].batch \subseteq poller[m].batch
    BY <1>5 DEF TInv, TypeOK, PollClaim
  <2> QED
    BY <1>5, <2>1 DEF UniqueCopies, Distinct, PollClaim
<1>6. ASSUME NEW n \in Nodes, PollSend(n)
      PROVE  UniqueCopies'
  <2>1. PICK c \in poller[n].batch :
          /\ chan' = [chan EXCEPT ![n] = @ \cup {c}]
          /\ poller' = [poller EXCEPT ![n].batch = @ \ {c}]
    BY <1>6 DEF PollSend
  <2>2. \A m \in Nodes : poller'[m].batch \subseteq poller[m].batch
    BY <2>1, UpdateBatch DEF TInv, TypeOK
  <2>3. c \in Copy /\ c.id \in RowIds
    BY DEF TInv, TypeOK, Copy
  <2>4. \A d \in chan[n] : d.id # c.id
    BY <1>6, <2>3 DEF ExclusiveClaim, InBatch, InChan, Ids, PollSend
  <2>5. Distinct(chan[n] \cup {c})
    BY <2>4 DEF UniqueCopies, Distinct
  <2>6. \A m \in Nodes : chan'[m] = IF m = n THEN chan[n] \cup {c} ELSE chan[m]
    BY <2>1 DEF TInv, TypeOK
  <2> QED
    BY <2>2, <2>5, <2>6 DEF UniqueCopies, Distinct
<1>7. ASSUME NEW n \in Nodes, NEW w \in Workers, WorkerTake(n, w)
      PROVE  UniqueCopies'
  BY <1>7 DEF TInv, TypeOK, UniqueCopies, Distinct, WorkerTake
<1>8. ASSUME NEW n \in Nodes, PollStep(n)
      PROVE  UniqueCopies'
  BY <1>8, <1>3, <1>4, <1>5, <1>6 DEF PollStep
<1>9. ASSUME NEW n \in Nodes, NEW w \in Workers, WorkerStep(n, w)
      PROVE  UniqueCopies'
  BY <1>9, <1>1, <1>7 DEF WorkerStep, WorkerExit, Undeliverable, Dispatch, RunSucceeds, RunFails, Reenqueue, StoreError
<1>10. ASSUME NEW n \in Nodes, StartStep(n) \/ StartError(n) \/ Stop(n) \/ StopReturn(n) \/ Crash(n)
       PROVE  UniqueCopies'
  BY <1>10, <1>1, <1>2, <1>3 DEF StartStep, StartBegin, StartEnqueue, StartError, Stop, StopReturn, Crash
<1> QED
  BY <1>1, <1>8, <1>9, <1>10 DEF Next, vars, Elapse, DeleteByName, Register, Unregister, Enqueue

\* The three steps that take hold of a row.
LEMMA ClaimKeeps ==
  ASSUME TInv, CInv, NEW n \in Nodes, PollClaim(n)
  PROVE  /\ CInv'
         /\ \A m \in Nodes, id \in RowIds : Held(m, id) => Held(m, id)'
         /\ \A id \in RowIds : rows'[id] = rows[id] \/ (Queued(id) /\ Held(n, id)' /\ Live(id)' /\ rows'[id].name = rows[id].name)
<1> DEFINE claimed == {c \in poller[n].batch : Queued(c.id)}
<1>1. /\ rows' = [id \in RowIds |-> IF id \in Ids(claimed) THEN [rows[id] EXCEPT !.started = TRUE] ELSE rows[id]]
      /\ poller' = [poller EXCEPT ![n] = [pc |-> "sending", batch |-> claimed]]
      /\ poller[n].pc = "selected"
      /\ UNCHANGED <<chan, worker>>
  BY DEF PollClaim
<1>2. \A id \in Ids(claimed) : id \in RowIds /\ Queued(id) /\ rows[id] \in Row
  BY DEF Ids, TInv, TypeOK, Copy, Queued, Live
<1>3. \A id \in RowIds : Queued(id)' => Queued(id) /\ id \notin Ids(claimed)
  BY <1>1, <1>2 DEF Queued, Live, Row
<1>4. \A m \in Nodes, id \in RowIds :
        InBatch(m, id)' <=> IF m = n THEN id \in Ids(claimed) ELSE InBatch(m, id)
  BY <1>1 DEF InBatch, TInv, TypeOK
<1>5. \A m \in Nodes, id \in RowIds : InChan(m, id)' <=> InChan(m, id)
  BY <1>1 DEF InChan, Ids
<1>6. \A m \in Nodes, id \in RowIds, w \in Workers : InWorker(m, w, id)' <=> InWorker(m, w, id)
  BY <1>1 DEF InWorker
<1>7. \A m \in Nodes, id \in RowIds : ~InBatch(n, id) /\ (id \in Ids(claimed) => ~Held(m, id))
  BY <1>1, <1>2 DEF InBatch, CInv, HeldNotQueued
<1> HIDE DEF claimed
<1>8. \A m \in Nodes, id \in RowIds : Held(m, id)' <=> Held(m, id) \/ (m = n /\ id \in Ids(claimed))
  BY <1>4, <1>5, <1>6, <1>7 DEF Held
<1>9. HeldNotQueued'
  BY <1>3, <1>8 DEF CInv, HeldNotQueued
<1>10. ExclusiveClaim'
  <2> SUFFICES ASSUME NEW id \in RowIds, NEW m \in Nodes
               PROVE  /\ \A k \in Nodes : Held(m, id)' /\ Held(k, id)' => k = m
                      /\ ~(InBatch(m, id)' /\ InChan(m, id)')
                      /\ \A w \in Workers : InWorker(m, w, id)' =>
                           /\ ~InBatch(m, id)' /\ ~InChan(m, id)'
                           /\ \A v \in Workers : InWorker(m, v, id)' => v = w
    BY DEF ExclusiveClaim
  <2>1. CASE id \in Ids(claimed)
    BY <2>1, <1>4, <1>5, <1>6, <1>7, <1>8 DEF Held
  <2>2. CASE id \notin Ids(claimed)
    BY <2>2, <1>4, <1>5, <1>6, <1>8, <1>7 DEF CInv, ExclusiveClaim
  <2> QED
    BY <2>1, <2>2
<1>11. \A id \in RowIds : rows'[id] = rows[id] \/ (Queued(id) /\ Held(n, id)' /\ Live(id)' /\ rows'[id].name = rows[id].name)
  <2>1. ASSUME NEW id \in Ids(claimed) PROVE Live(id)' /\ rows'[id].name = rows[id].name
    <3>1. rows'[id] = [rows[id] EXCEPT !.started = TRUE] /\ rows[id] \in Row
      BY <1>1, <1>2, <2>1
    <3>2. rows'[id] \in Row /\ rows'[id].name = rows[id].name
      BY <3>1 DEF Row
    <3> QED
      BY <3>2, NoRowAssumption DEF Live
  <2> QED
    BY <1>1, <1>2, <1>8, <2>1
<1> QED
  BY <1>8, <1>9, <1>10, <1>11 DEF CInv

\* Sending a row to the channel moves the claim and does not copy it.
LEMMA SendKeeps ==
  ASSUME TInv, UniqueCopies, CInv, NEW n \in Nodes, PollSend(n)
  PROVE  CInv' /\ \A m \in Nodes, id \in RowIds : Held(m, id)' <=> Held(m, id)
<1>1. PICK c \in poller[n].batch :
        /\ chan' = [chan EXCEPT ![n] = @ \cup {c}]
        /\ poller' = [poller EXCEPT ![n].batch = @ \ {c}]
  BY DEF PollSend
<1>2. poller[n].pc = "sending" /\ UNCHANGED <<rows, worker>>
  BY DEF PollSend
<1>3. c \in Copy /\ c.id \in RowIds
  BY DEF TInv, TypeOK, Copy
<1>4. \A m \in Nodes : /\ poller'[m].pc = poller[m].pc
                       /\ poller'[m].batch = IF m = n THEN poller[n].batch \ {c} ELSE poller[m].batch
                       /\ chan'[m] = IF m = n THEN chan[n] \cup {c} ELSE chan[m]
  BY <1>1, UpdateBatch DEF TInv, TypeOK
<1>5. \A m \in Nodes, id \in RowIds : InBatch(m, id)' <=> InBatch(m, id) /\ ~(m = n /\ id = c.id)
  BY <1>4, <1>2, <1>3 DEF InBatch, Ids, UniqueCopies, Distinct
<1>6. \A m \in Nodes, id \in RowIds : InChan(m, id)' <=> InChan(m, id) \/ (m = n /\ id = c.id)
  BY <1>4 DEF InChan, Ids
<1>7. \A m \in Nodes, id \in RowIds, w \in Workers : InWorker(m, w, id)' <=> InWorker(m, w, id)
  BY <1>2 DEF InWorker
<1>8. InBatch(n, c.id)
  BY <1>2 DEF InBatch, Ids
<1>9. \A m \in Nodes, id \in RowIds : Held(m, id)' <=> Held(m, id)
  BY <1>5, <1>6, <1>7, <1>8 DEF Held
<1>10. HeldNotQueued'
  BY <1>2, <1>9 DEF CInv, HeldNotQueued, Queued, Live
<1>11. ExclusiveClaim'
  BY <1>3, <1>5, <1>6, <1>7, <1>8, <1>9 DEF CInv, ExclusiveClaim
<1> QED
  BY <1>9, <1>10, <1>11 DEF CInv

\* Receiving a row from the channel moves the claim and does not copy it.
LEMMA TakeKeeps ==
  ASSUME TInv, UniqueCopies, CInv, NEW n \in Nodes, NEW w \in Workers, WorkerTake(n, w)
  PROVE  CInv' /\ \A m \in Nodes, id \in RowIds : Held(m, id)' <=> Held(m, id)
<1>1. PICK c \in chan[n] :
        /\ worker' = [worker EXCEPT ![n][w] = [pc |-> "taken", row |-> c]]
        /\ chan' = [chan EXCEPT ![n] = @ \ {c}]
  BY DEF WorkerTake
<1>2. worker[n][w].pc = "idle" /\ UNCHANGED <<rows, poller>>
  BY DEF WorkerTake
<1>3. c \in Copy /\ c.id \in RowIds
  BY DEF TInv, TypeOK, Copy
<1>4. \A m \in Nodes : chan'[m] = IF m = n THEN chan[n] \ {c} ELSE chan[m]
  BY <1>1 DEF TInv, TypeOK
<1>5. \A m \in Nodes, u \in Workers :
        worker'[m][u] = IF m = n /\ u = w THEN [pc |-> "taken", row |-> c] ELSE worker[m][u]
  BY <1>1, <1>3, UpdateOne DEF TInv, TypeOK, WorkerPC
<1>6. \A m \in Nodes, id \in RowIds : InBatch(m, id)' <=> InBatch(m, id)
  BY <1>2 DEF InBatch, Ids
<1>7. \A m \in Nodes, id \in RowIds : InChan(m, id)' <=> InChan(m, id) /\ ~(m = n /\ id = c.id)
  BY <1>4 DEF InChan, Ids, UniqueCopies, Distinct
<1>8. \A m \in Nodes, id \in RowIds, u \in Workers :
        InWorker(m, u, id)' <=> InWorker(m, u, id) \/ (m = n /\ u = w /\ id = c.id)
  BY <1>2, <1>5 DEF InWorker
<1>9. InChan(n, c.id)
  BY DEF InChan, Ids
<1>10. \A m \in Nodes, id \in RowIds : Held(m, id)' <=> Held(m, id)
  BY <1>6, <1>7, <1>8, <1>9 DEF Held
<1>11. HeldNotQueued'
  BY <1>2, <1>10 DEF CInv, HeldNotQueued, Queued, Live
<1>12. ExclusiveClaim'
  BY <1>2, <1>3, <1>6, <1>7, <1>8, <1>9, <1>10 DEF CInv, ExclusiveClaim
<1> QED
  BY <1>10, <1>11, <1>12 DEF CInv

\* Every step of the runner preserves the claim invariant.
LEMMA CInvStep ==
  ASSUME TInv, UniqueCopies, CInv, [Next]_vars
  PROVE  CInv'
<1>0. CASE UNCHANGED <<rows, poller, chan, worker>>
  BY <1>0, LetsGoFrame, NoneReleasedFrame, LetsGoKeeps
<1>1. ASSUME NEW name \in Names, DeleteByName(name)
      PROVE  CInv'
  <2>1. NoneReleasedHeld
    BY <1>1 DEF DeleteByName, NoneReleasedHeld, Queued, Live
  <2> QED
    BY <1>1, <2>1, LetsGoFrame, LetsGoKeeps DEF DeleteByName
<1>2. ASSUME NEW n \in Nodes, NEW name \in Names, NEW due \in BOOLEAN,
             Enqueue(n, name, due)
      PROVE  CInv'
  <2>1. LetsGo
    BY <1>2, LetsGoFrame DEF Enqueue
  <2> QED
    BY <1>2, <2>1, InsertReleases, LetsGoKeeps DEF Enqueue
<1>3. ASSUME NEW n \in Nodes, NEW name \in Periodic, StartEnqueue(n, name)
      PROVE  CInv'
  <2>1. LetsGo /\ name \in Names
    BY <1>3, LetsGoFrame, JobsAssumption DEF StartEnqueue
  <2> QED
    BY <1>3, <2>1, InsertReleases, LetsGoKeeps DEF StartEnqueue
<1>4. ASSUME NEW n \in Nodes, StartLaunch(n)
      PROVE  CInv'
  <2>1. /\ poller' = [poller EXCEPT ![n] = PollerIdle]
        /\ worker' = [worker EXCEPT ![n] = [w \in Workers |-> Idle]]
        /\ UNCHANGED <<rows, chan>>
    BY <1>4 DEF StartLaunch
  <2>2. \A m \in Nodes, id \in RowIds : InBatch(m, id)' => InBatch(m, id)
    BY <2>1 DEF InBatch, PollerIdle, TInv, TypeOK
  <2>3. \A m \in Nodes, id \in RowIds, w \in Workers : InWorker(m, w, id)' => InWorker(m, w, id)
    BY <2>1, IdleType DEF InWorker, TInv, TypeOK
  <2>4. LetsGo
    BY <2>1, <2>2, <2>3 DEF LetsGo, InChan, Ids
  <2> QED
    BY <2>1, <2>4, NoneReleasedFrame, LetsGoKeeps
<1>5. ASSUME NEW n \in Nodes, StartError(n) \/ StopReturn(n) \/ Crash(n)
      PROVE  CInv'
  <2>1. /\ poller' = [poller EXCEPT ![n] = PollerOff]
        /\ chan' = [chan EXCEPT ![n] = {}]
        /\ worker' = [worker EXCEPT ![n] = [w \in Workers |-> Off]]
        /\ UNCHANGED rows
    BY <1>5 DEF StartError, StopReturn, Crash, Wipe
  <2>2. \A m \in Nodes, id \in RowIds : InBatch(m, id)' => InBatch(m, id)
    BY <2>1 DEF InBatch, PollerOff, TInv, TypeOK
  <2>3. \A m \in Nodes, id \in RowIds, w \in Workers : InWorker(m, w, id)' => InWorker(m, w, id)
    BY <2>1, OffType DEF InWorker, TInv, TypeOK
  <2>4. \A m \in Nodes, id \in RowIds : InChan(m, id)' => InChan(m, id)
    BY <2>1 DEF InChan, Ids, TInv, TypeOK
  <2>5. LetsGo
    BY <2>2, <2>3, <2>4 DEF LetsGo
  <2> QED
    BY <2>1, <2>5, NoneReleasedFrame, LetsGoKeeps
<1>6. ASSUME NEW n \in Nodes, PollSelect(n) \/ PollError(n) \/ PollSent(n) \/ PollExit(n)
      PROVE  CInv'
  <2>1. PICK p : poller' = [poller EXCEPT ![n] = p] /\ p.pc # "sending"
    <3>1. CASE PollSelect(n)
      <4>1. PICK ids \in SUBSET ready :
              poller' = [poller EXCEPT ![n] = [pc |-> "selected", batch |-> {CopyOf(id) : id \in ids}]]
        BY <3>1 DEF PollSelect
      <4> DEFINE p == [pc |-> "selected", batch |-> {CopyOf(id) : id \in ids}]
      <4>2. p.pc # "sending" /\ poller' = [poller EXCEPT ![n] = p]
        BY <4>1
      <4> HIDE DEF p
      <4> QED
        BY <4>2
    <3>2. CASE PollError(n) \/ PollSent(n) \/ PollExit(n)
      <4>1. poller' = [poller EXCEPT ![n] = PollerIdle] \/ poller' = [poller EXCEPT ![n] = PollerOff]
        BY <3>2 DEF PollError, PollSent, PollExit
      <4>2. PollerIdle.pc # "sending" /\ PollerOff.pc # "sending"
        BY DEF PollerIdle, PollerOff
      <4> QED
        BY <4>1, <4>2
    <3> QED
      BY <1>6, <3>1, <3>2
  <2>2. UNCHANGED <<rows, chan, worker>>
    BY <1>6 DEF PollSelect, PollError, PollSent, PollExit
  <2>3. \A m \in Nodes, id \in RowIds : InBatch(m, id)' => InBatch(m, id)
    BY <2>1 DEF InBatch, TInv, TypeOK
  <2>4. LetsGo
    BY <2>2, <2>3 DEF LetsGo, InChan, InWorker, Ids
  <2> QED
    BY <2>2, <2>4, NoneReleasedFrame, LetsGoKeeps
<1>7. ASSUME NEW n \in Nodes, PollClaim(n) \/ PollSend(n)
      PROVE  CInv'
  BY <1>7, ClaimKeeps, SendKeeps
<1>8. ASSUME NEW n \in Nodes, NEW w \in Workers, WorkerTake(n, w)
      PROVE  CInv'
  BY <1>8, TakeKeeps
<1>9. ASSUME NEW n \in Nodes, NEW w \in Workers, WorkerExit(n, w) \/ StoreError(n, w)
      PROVE  CInv'
  <2>1. PICK v \in {Idle, Off} : worker' = [worker EXCEPT ![n][w] = v]
    BY <1>9 DEF WorkerExit, StoreError, Finished
  <2>2. UNCHANGED <<rows, poller, chan>>
    BY <1>9 DEF WorkerExit, StoreError
  <2>3. LetsGo
    BY <2>1, <2>2, LetsGoWorker, IdleType, OffType
  <2> QED
    BY <2>2, <2>3, NoneReleasedFrame, LetsGoKeeps
<1>10. ASSUME NEW n \in Nodes, NEW w \in Workers, Dispatch(n, w)
       PROVE  CInv'
  <2> DEFINE v == [worker[n][w] EXCEPT !.pc = "running"]
  <2>1. worker[n][w] \in [pc : WorkerPC, row : Copy \cup {NoRow}] /\ worker[n][w].pc = "taken"
    BY <1>10 DEF Dispatch, TInv, TypeOK
  <2>2. v \in [pc : WorkerPC, row : Copy \cup {NoRow}] /\ v.row = worker[n][w].row
    BY <2>1 DEF WorkerPC
  <2>3. worker' = [worker EXCEPT ![n][w] = v]
    BY <1>10 DEF Dispatch, TInv, TypeOK
  <2>4. UNCHANGED <<rows, poller, chan>>
    BY <1>10 DEF Dispatch
  <2> HIDE DEF v
  <2>5. LetsGo
    BY <2>1, <2>2, <2>3, <2>4, LetsGoWorker
  <2> QED
    BY <2>4, <2>5, NoneReleasedFrame, LetsGoKeeps
<1>11. ASSUME NEW n \in Nodes, NEW w \in Workers, RunSucceeds(n, w)
       PROVE  CInv'
  <2> DEFINE c == worker[n][w].row
  <2>1. c \in Copy /\ c.id \in RowIds /\ Complete(c.id) /\ UNCHANGED <<poller, chan>>
    BY <1>11 DEF RunSucceeds, TInv, WorkerRow, Copy
  <2>2. PICK v \in {Idle, [pc |-> "reenqueue", row |-> c]} : worker' = [worker EXCEPT ![n][w] = v]
    BY <1>11 DEF RunSucceeds
  <2>3. v \in [pc : WorkerPC, row : Copy \cup {NoRow}] /\ v.pc \notin {"taken", "running"}
    BY <2>1, <2>2, IdleType DEF WorkerPC
  <2>4. LetsGo
    BY <2>1, <2>2, <2>3, LetsGoWorker
  <2> QED
    BY <2>1, <2>4, CompleteReleases, LetsGoKeeps
<1>12. ASSUME NEW n \in Nodes, NEW w \in Workers, Undeliverable(n, w) \/ RunFails(n, w)
       PROVE  CInv'
  <2>1. PICK id \in RowIds : id = worker[n][w].row.id
    BY <1>12 DEF Undeliverable, RunFails, TInv, WorkerRow, Copy
  <2>2. InWorker(n, w, id) /\ Finished(n, w) /\ UNCHANGED <<poller, chan>>
    BY <1>12, <2>1 DEF Undeliverable, RunFails, InWorker
  <2>3. Complete(id) \/ Fail(id)
    BY <1>12, <2>1 DEF Undeliverable, RunFails
  <2>4. LetsGo /\ ~InWorker(n, w, id)'
    BY <2>2, FinishedLetsGo
  <2>5. NoneReleasedHeld
    BY <2>2, <2>3, <2>4, CompleteReleases, FailReleases DEF CInv
  <2> QED
    BY <2>4, <2>5, LetsGoKeeps
<1>13. ASSUME NEW n \in Nodes, NEW w \in Workers, Reenqueue(n, w)
       PROVE  CInv'
  <2>1. worker[n][w].row.name \in Names /\ Finished(n, w) /\ UNCHANGED <<poller, chan>>
    BY <1>13 DEF TInv, WorkerRow, Reenqueue, Copy
  <2>2. LetsGo
    BY <2>1, FinishedLetsGo
  <2> QED
    BY <1>13, <2>1, <2>2, InsertReleases, LetsGoKeeps DEF Reenqueue
<1>14. ASSUME NEW n \in Nodes, PollStep(n)
       PROVE  CInv'
  BY <1>14, <1>6, <1>7 DEF PollStep
<1>15. ASSUME NEW n \in Nodes, NEW w \in Workers, WorkerStep(n, w)
       PROVE  CInv'
  BY <1>15, <1>8, <1>9, <1>10, <1>11, <1>12, <1>13 DEF WorkerStep
<1>16. ASSUME NEW n \in Nodes, StartStep(n) \/ StartError(n) \/ Stop(n) \/ StopReturn(n) \/ Crash(n)
       PROVE  CInv'
  BY <1>16, <1>0, <1>3, <1>4, <1>5 DEF StartStep, StartBegin, Stop
<1> QED
  BY <1>0, <1>1, <1>2, <1>14, <1>15, <1>16 DEF Next, vars, Elapse, Register, Unregister

\* No two processes, and no two workers of one, ever hold the same row: the
\* guarded UPDATE of ClaimDue is enough, for every number of processes and
\* workers and whatever retries, stops, crashes and deletions come between.
THEOREM Exclusive == Spec => []ExclusiveClaim
<1> DEFINE IInv == TInv /\ UniqueCopies /\ CInv
<1>1. Init => IInv
  <2> SUFFICES ASSUME Init PROVE IInv
    OBVIOUS
  <2>1. TInv
    BY TInvInit
  <2>2. UniqueCopies
    BY DEF Init, UniqueCopies, Distinct, PollerOff
  <2>3. \A n \in Nodes, id \in RowIds : ~Held(n, id)
    BY DEF Init, Held, InBatch, InChan, InWorker, Ids, PollerOff, Off
  <2>4. CInv
    BY <2>3 DEF CInv, HeldNotQueued, ExclusiveClaim, Held
  <2> QED
    BY <2>1, <2>2, <2>4
<1>2. IInv /\ [Next]_vars => IInv'
  BY TInvStep, UniqueStep, CInvStep DEF CInv
<1>3. IInv => ExclusiveClaim
  BY DEF CInv
<1> QED
  BY <1>1, <1>2, <1>3, PTL DEF Spec
-----------------------------------------------------------------------------
(* No orphans.  A claimed row that nobody holds stays claimed for ever, so  *)
(* each branch of claim and runOne has to hand its row on or to give it     *)
(* back.  A process that is not up holds nothing: Start begins empty.       *)

Claimed(id) == Live(id) /\ rows[id].started
EmptyUnlessUp ==
  \A n \in Nodes : run[n] \in {"down", "starting"} => \A id \in RowIds : ~Held(n, id)
OInv == EmptyUnlessUp /\ (interrupts = 0 => \A n \in Nodes : run[n] # "stopping") /\ NoOrphan

\* A step that claims only what it holds, and lets go only of what it gives
\* back, makes no orphan.
LEMMA HandedOn ==
  ASSUME NoOrphan, interrupts' = 0 => interrupts = 0,
         \A id \in RowIds : Claimed(id)' =>
           \/ Claimed(id) /\ \A n \in Nodes : Held(n, id) => Held(n, id)'
           \/ \E n \in Nodes : Held(n, id)'
  PROVE  NoOrphan'
BY DEF NoOrphan, Claimed

\* A row that INSERT adds is not claimed; the others stay as they are.
LEMMA InsertClaims ==
  ASSUME TInv, NEW id \in RowIds, NEW name \in Names, NEW due \in BOOLEAN, Insert(id, name, due)
  PROVE  \A j \in RowIds : Claimed(j)' => j # id /\ Claimed(j) /\ rows'[j] = rows[j]
<1>1. rows' = [rows EXCEPT ![id] = [started |-> FALSE, name |-> name, attempts |-> 0]]
  BY DEF Insert
<1> QED
  BY <1>1 DEF Claimed, Live, TInv, TypeOK

\* A worker that is done with a row that is no longer claimed drops nothing:
\* the other rows are held as before.
LEMMA WorkerDone ==
  ASSUME TInv, NEW n \in Nodes, NEW w \in Workers,
         NEW v \in [pc : WorkerPC, row : Copy \cup {NoRow}], worker' = [worker EXCEPT ![n][w] = v],
         UNCHANGED <<poller, chan>>
  PROVE  \A m \in Nodes, id \in RowIds : Held(m, id) /\ ~InWorker(n, w, id) => Held(m, id)'
<1>1. \A m \in Nodes, u \in Workers :
        worker'[m][u] = IF m = n /\ u = w THEN v ELSE worker[m][u]
  BY UpdateOne DEF TInv, TypeOK
<1>2. \A m \in Nodes, u \in Workers, id \in RowIds :
        InWorker(m, u, id) /\ ~InWorker(n, w, id) => InWorker(m, u, id)'
  BY <1>1 DEF InWorker
<1>3. \A m \in Nodes, id \in RowIds : (InBatch(m, id)' <=> InBatch(m, id)) /\ (InChan(m, id)' <=> InChan(m, id))
  BY DEF InBatch, InChan
<1> QED
  BY <1>2, <1>3 DEF Held


\* What each step does to the rows a process holds while it is not up.
LEMMA EmptyStep ==
  ASSUME TInv, UniqueCopies, CInv, EmptyUnlessUp, [Next]_vars
  PROVE  EmptyUnlessUp'
<1>1. CASE UNCHANGED <<run, poller, chan, worker>>
  BY <1>1 DEF EmptyUnlessUp, Held, InBatch, InChan, InWorker
<1>2. ASSUME NEW n \in Nodes, Wipe(n)
      PROVE  EmptyUnlessUp'
  <2>1. /\ run' = [run EXCEPT ![n] = "down"]
        /\ poller' = [poller EXCEPT ![n] = PollerOff]
        /\ chan' = [chan EXCEPT ![n] = {}]
        /\ worker' = [worker EXCEPT ![n] = [w \in Workers |-> Off]]
    BY <1>2 DEF Wipe
  <2>2. \A id \in RowIds : ~Held(n, id)'
    BY <2>1, OffType DEF Held, InBatch, InChan, InWorker, Ids, PollerOff, TInv, TypeOK
  <2>3. \A m \in Nodes \ {n} : /\ run'[m] = run[m] /\ poller'[m] = poller[m]
                               /\ chan'[m] = chan[m] /\ worker'[m] = worker[m]
    BY <2>1 DEF TInv, TypeOK
  <2>4. \A m \in Nodes \ {n}, id \in RowIds : Held(m, id)' <=> Held(m, id)
    BY <2>3 DEF Held, InBatch, InChan, InWorker
  <2> QED
    BY <2>2, <2>3, <2>4 DEF EmptyUnlessUp
<1>3. ASSUME NEW n \in Nodes, StartBegin(n) \/ StartLaunch(n) \/ Stop(n)
      PROVE  EmptyUnlessUp'
  <2>1. \A m \in Nodes : run'[m] \in {"down", "starting"} => run[m] \in {"down", "starting"}
    BY <1>3 DEF StartBegin, StartLaunch, Stop, TInv, TypeOK
  <2>2. \A m \in Nodes \ {n} : poller'[m] = poller[m] /\ chan'[m] = chan[m] /\ worker'[m] = worker[m]
    BY <1>3 DEF StartBegin, StartLaunch, Stop, TInv, TypeOK
  <2>3. \A m \in Nodes \ {n}, id \in RowIds : Held(m, id)' <=> Held(m, id)
    BY <2>2 DEF Held, InBatch, InChan, InWorker
  <2>4. run'[n] \in {"down", "starting"} => UNCHANGED <<poller, chan, worker>>
    BY <1>3 DEF StartBegin, StartLaunch, Stop, TInv, TypeOK
  <2>5. run'[n] \in {"down", "starting"} => \A id \in RowIds : ~Held(n, id)'
    BY <2>1, <2>4 DEF EmptyUnlessUp, Held, InBatch, InChan, InWorker
  <2> QED
    BY <2>1, <2>3, <2>5 DEF EmptyUnlessUp
<1>4. ASSUME NEW n \in Nodes, run[n] \in {"up", "stopping"}, UNCHANGED run,
             \A m \in Nodes \ {n} : poller'[m] = poller[m] /\ chan'[m] = chan[m] /\ worker'[m] = worker[m]
      PROVE  EmptyUnlessUp'
  <2>1. \A m \in Nodes \ {n}, id \in RowIds : Held(m, id)' <=> Held(m, id)
    BY <1>4 DEF Held, InBatch, InChan, InWorker
  <2> QED
    BY <1>4, <2>1 DEF EmptyUnlessUp
<1>5. ASSUME LetsGo, UNCHANGED run
      PROVE  EmptyUnlessUp'
  BY <1>5 DEF EmptyUnlessUp, LetsGo, Held
<1>6. ASSUME NEW n \in Nodes, PollStep(n)
      PROVE  EmptyUnlessUp'
  <2>1. CASE PollSend(n)
    BY <2>1, SendKeeps DEF EmptyUnlessUp, PollSend
  <2>2. CASE PollSelect(n) \/ PollClaim(n) \/ PollError(n) \/ PollExit(n)
    BY <2>2, <1>4 DEF PollSelect, PollClaim, PollError, PollExit, TInv, TypeOK
  <2>3. CASE PollSent(n)
    <3>1. UNCHANGED <<run, chan, worker>>
      BY <2>3 DEF PollSent
    <3>2. \A m \in Nodes, id \in RowIds : InBatch(m, id)' => InBatch(m, id)
      BY <2>3 DEF PollSent, InBatch, PollerIdle, TInv, TypeOK
    <3>3. LetsGo
      BY <3>1, <3>2 DEF LetsGo, InChan, InWorker
    <3> QED
      BY <1>5, <3>1, <3>3
  <2> QED
    BY <1>6, <2>1, <2>2, <2>3 DEF PollStep
<1>7. ASSUME NEW n \in Nodes, NEW w \in Workers, WorkerStep(n, w)
      PROVE  EmptyUnlessUp'
  <2>1. CASE WorkerTake(n, w)
    BY <2>1, TakeKeeps DEF EmptyUnlessUp, WorkerTake
  <2>2. CASE Dispatch(n, w)
    <3> DEFINE v == [worker[n][w] EXCEPT !.pc = "running"]
    <3>1. worker[n][w] \in [pc : WorkerPC, row : Copy \cup {NoRow}] /\ worker[n][w].pc = "taken"
      BY <2>2 DEF Dispatch, TInv, TypeOK
    <3>2. v \in [pc : WorkerPC, row : Copy \cup {NoRow}] /\ v.row = worker[n][w].row
      BY <3>1 DEF WorkerPC
    <3>3. worker' = [worker EXCEPT ![n][w] = v] /\ UNCHANGED <<run, poller, chan>>
      BY <2>2 DEF Dispatch, TInv, TypeOK
    <3> HIDE DEF v
    <3>4. LetsGo
      BY <3>1, <3>2, <3>3, LetsGoWorker
    <3> QED
      BY <3>3, <3>4, <1>5
  <2>3. CASE WorkerExit(n, w) \/ Undeliverable(n, w) \/ RunFails(n, w) \/ Reenqueue(n, w) \/ StoreError(n, w)
    <3>1. PICK v \in {Idle, Off} : worker' = [worker EXCEPT ![n][w] = v]
      BY <2>3 DEF WorkerExit, Undeliverable, RunFails, Reenqueue, StoreError, Finished
    <3>2. UNCHANGED <<run, poller, chan>>
      BY <2>3 DEF WorkerExit, Undeliverable, RunFails, Reenqueue, StoreError
    <3>3. LetsGo
      BY <3>1, <3>2, LetsGoWorker, IdleType, OffType
    <3> QED
      BY <3>2, <3>3, <1>5
  <2>4. CASE RunSucceeds(n, w)
    BY <2>4, <1>4 DEF RunSucceeds, TInv, TypeOK
  <2> QED
    BY <1>7, <2>1, <2>2, <2>3, <2>4 DEF WorkerStep
<1>8. ASSUME NEW n \in Nodes, StartStep(n) \/ StartError(n) \/ Stop(n) \/ StopReturn(n) \/ Crash(n)
      PROVE  EmptyUnlessUp'
  BY <1>8, <1>1, <1>2, <1>3 DEF StartStep, StartEnqueue, StartError, StopReturn, Crash
<1> QED
  BY <1>1, <1>6, <1>7, <1>8 DEF Next, vars, Elapse, DeleteByName, Register, Unregister, Enqueue

\* Until something is interrupted no process is stopping, and the count of
\* interruptions never goes down.
LEMMA CalmStep ==
  ASSUME TInv, interrupts = 0 => \A n \in Nodes : run[n] # "stopping", [Next]_vars
  PROVE  /\ interrupts' = 0 => interrupts = 0
         /\ interrupts' = 0 => \A n \in Nodes : run'[n] # "stopping"
<1> USE DEF TInv, TypeOK
<1>1. CASE UNCHANGED <<interrupts, run>>
  BY <1>1
<1>2. CASE interrupts' = interrupts + 1
  BY <1>2, JobsAssumption
<1>3. ASSUME NEW n \in Nodes, StartBegin(n) \/ StartLaunch(n) \/ StopReturn(n)
      PROVE  /\ interrupts' = interrupts
             /\ interrupts' = 0 => \A m \in Nodes : run'[m] # "stopping"
  BY <1>3 DEF StartBegin, StartLaunch, StopReturn, Wipe
<1>4. ASSUME NEW n \in Nodes, PollStep(n)
      PROVE  UNCHANGED <<interrupts, run>> \/ interrupts' = interrupts + 1
  BY <1>4 DEF PollStep, PollSelect, PollClaim, PollError, PollSend, PollSent, PollExit
<1>5. ASSUME NEW n \in Nodes, NEW w \in Workers, WorkerStep(n, w)
      PROVE  UNCHANGED <<interrupts, run>> \/ interrupts' = interrupts + 1
  BY <1>5 DEF WorkerStep, WorkerTake, WorkerExit, Undeliverable, Dispatch, RunSucceeds, RunFails, Reenqueue, StoreError
<1>6. ASSUME NEW n \in Nodes, StartError(n) \/ Stop(n) \/ Crash(n)
      PROVE  interrupts' = interrupts + 1
  BY <1>6 DEF StartError, Stop, Crash
<1>7. ASSUME NEW n \in Nodes, StartStep(n) \/ StopReturn(n)
      PROVE  UNCHANGED <<interrupts, run>> \/ StartBegin(n) \/ StartLaunch(n) \/ StopReturn(n)
  BY <1>7 DEF StartStep, StartEnqueue
<1> HIDE DEF TInv, TypeOK
<1> QED
  BY <1>1, <1>2, <1>3, <1>4, <1>5, <1>6, <1>7 DEF Next, vars, Elapse, DeleteByName, Register, Unregister, Enqueue

\* A step that leaves the table and everything held as it is makes no orphan,
\* nor does one that only takes rows away.
LEMMA OrphanFrame ==
  ASSUME NoOrphan, interrupts' = 0 => interrupts = 0,
         \A id \in RowIds : Claimed(id)' => Claimed(id),
         \A n \in Nodes, id \in RowIds : Held(n, id) => Held(n, id)'
  PROVE  NoOrphan'
BY HandedOn

\* What a process holds depends on its batch, its channel and its workers alone.
LEMMA HeldFrame ==
  ASSUME UNCHANGED <<poller, chan, worker>>
  PROVE  \A n \in Nodes, id \in RowIds : Held(n, id)' <=> Held(n, id)
BY DEF Held, InBatch, InChan, InWorker

\* A poll loop that is not sending holds nothing in its batch: what it holds
\* does not change when it starts or ends anything but a send.
LEMMA NotSendingKeeps ==
  ASSUME TInv, NEW n \in Nodes, NEW p, poller' = [poller EXCEPT ![n] = p], UNCHANGED <<chan, worker>>,
         poller[n].pc = "sending" => poller[n].batch = {}
  PROVE  \A m \in Nodes, id \in RowIds : Held(m, id) => Held(m, id)'
<1>1. \A m \in Nodes, id \in RowIds : InBatch(m, id) => InBatch(m, id)'
  BY DEF InBatch, Ids, TInv, TypeOK
<1> QED
  BY <1>1 DEF Held, InChan, InWorker

\* Every step of the runner preserves NoOrphan.
LEMMA OrphanStep ==
  ASSUME TInv, UniqueCopies, CInv, OInv, [Next]_vars
  PROVE  NoOrphan'
<1>0. NoOrphan /\ (interrupts' = 0 => interrupts = 0) /\ (interrupts = 0 => \A n \in Nodes : run[n] # "stopping")
  BY CalmStep DEF OInv
<1>1. CASE UNCHANGED <<rows, poller, chan, worker>>
  BY <1>0, <1>1, HeldFrame, OrphanFrame DEF Claimed, Live
<1>2. CASE interrupts' = interrupts + 1
  BY <1>2, JobsAssumption DEF NoOrphan, TInv, TypeOK
<1>3. ASSUME NEW n \in Nodes, run[n] = "stopping", UNCHANGED interrupts
      PROVE  NoOrphan'
  BY <1>0, <1>3 DEF NoOrphan
<1>4. ASSUME NEW id \in RowIds, NEW name \in Names, NEW due \in BOOLEAN, Insert(id, name, due),
             \A n \in Nodes, j \in RowIds : Held(n, j) => Held(n, j)'
      PROVE  NoOrphan'
  BY <1>0, <1>4, InsertClaims, OrphanFrame
<1>5. ASSUME NEW name \in Names, DeleteByName(name)
      PROVE  NoOrphan'
  <2>1. \A id \in RowIds : Claimed(id)' => Claimed(id)
    BY <1>5 DEF DeleteByName, Claimed, Live
  <2> QED
    BY <1>0, <1>5, <2>1, HeldFrame, OrphanFrame DEF DeleteByName
<1>6. ASSUME NEW n \in Nodes, NEW name \in Names, NEW due \in BOOLEAN, Enqueue(n, name, due)
      PROVE  NoOrphan'
  BY <1>4, <1>6, HeldFrame DEF Enqueue
<1>7. ASSUME NEW n \in Nodes, NEW name \in Periodic, StartEnqueue(n, name)
      PROVE  NoOrphan'
  BY <1>4, <1>7, HeldFrame, JobsAssumption DEF StartEnqueue
<1>8. ASSUME NEW n \in Nodes, StartLaunch(n)
      PROVE  NoOrphan'
  <2>1. \A id \in RowIds : ~Held(n, id)
    BY <1>8 DEF StartLaunch, OInv, EmptyUnlessUp
  <2>2. \A m \in Nodes \ {n} : poller'[m] = poller[m] /\ chan'[m] = chan[m] /\ worker'[m] = worker[m]
    BY <1>8 DEF StartLaunch, TInv, TypeOK
  <2>3. \A m \in Nodes, id \in RowIds : Held(m, id) => Held(m, id)'
    BY <2>1, <2>2 DEF Held, InBatch, InChan, InWorker
  <2> QED
    BY <1>0, <1>8, <2>3, OrphanFrame DEF StartLaunch, Claimed, Live
<1>9. ASSUME NEW n \in Nodes, PollStep(n)
      PROVE  NoOrphan'
  <2>1. CASE PollError(n)
    BY <1>2, <2>1 DEF PollError
  <2>2. CASE PollExit(n)
    BY <1>3, <2>2 DEF PollExit
  <2>3. CASE PollSelect(n) \/ PollSent(n)
    <3>1. PICK p : poller' = [poller EXCEPT ![n] = p]
      BY <2>3 DEF PollSelect, PollSent
    <3>2. UNCHANGED <<rows, chan, worker>> /\ (poller[n].pc = "sending" => poller[n].batch = {})
      BY <2>3 DEF PollSelect, PollSent
    <3>3. \A m \in Nodes, id \in RowIds : Held(m, id) => Held(m, id)'
      BY <3>1, <3>2, NotSendingKeeps
    <3> QED
      BY <1>0, <3>2, <3>3, OrphanFrame DEF Claimed, Live
  <2>4. CASE PollClaim(n)
    <3>1. /\ \A m \in Nodes, id \in RowIds : Held(m, id) => Held(m, id)'
          /\ \A id \in RowIds : rows'[id] = rows[id] \/ Held(n, id)'
      BY <2>4, ClaimKeeps
    <3> QED
      BY <1>0, <3>1, HandedOn DEF Claimed, Live
  <2>5. CASE PollSend(n)
    BY <1>0, <2>5, SendKeeps, OrphanFrame DEF PollSend, Claimed, Live
  <2> QED
    BY <1>9, <2>1, <2>2, <2>3, <2>4, <2>5 DEF PollStep
<1>10. ASSUME NEW n \in Nodes, NEW w \in Workers, WorkerStep(n, w)
       PROVE  NoOrphan'
  <2>1. CASE WorkerTake(n, w)
    BY <1>0, <2>1, TakeKeeps, OrphanFrame DEF WorkerTake, Claimed, Live
  <2>2. CASE WorkerExit(n, w) \/ StoreError(n, w)
    BY <1>2, <1>3, <2>2 DEF WorkerExit, StoreError
  <2>3. CASE Dispatch(n, w)
    <3> DEFINE v == [worker[n][w] EXCEPT !.pc = "running"]
    <3>1. worker[n][w] \in [pc : WorkerPC, row : Copy \cup {NoRow}]
      BY DEF TInv, TypeOK
    <3>2. v \in [pc : WorkerPC, row : Copy \cup {NoRow}] /\ v.pc = "running" /\ v.row = worker[n][w].row
      BY <3>1 DEF WorkerPC
    <3>3. worker' = [worker EXCEPT ![n][w] = v] /\ UNCHANGED <<rows, poller, chan>>
      BY <2>3 DEF Dispatch, TInv, TypeOK
    <3> HIDE DEF v
    <3>4. \A m \in Nodes, id \in RowIds : Held(m, id) /\ ~InWorker(n, w, id) => Held(m, id)'
      BY <3>2, <3>3, WorkerDone
    <3>5. worker'[n][w] = v
      BY <3>3 DEF TInv, TypeOK
    <3>6. \A id \in RowIds : InWorker(n, w, id) => Held(n, id)'
      BY <3>2, <3>5 DEF InWorker, Held
    <3> QED
      BY <1>0, <3>3, <3>4, <3>6, HandedOn DEF Claimed, Live
  <2>4. CASE Undeliverable(n, w) \/ RunSucceeds(n, w) \/ RunFails(n, w)
    <3>1. PICK id \in RowIds : id = worker[n][w].row.id
      BY <2>4 DEF Undeliverable, RunSucceeds, RunFails, TInv, WorkerRow, Copy
    <3>2. Complete(id) \/ Fail(id)
      BY <2>4, <3>1 DEF Undeliverable, RunSucceeds, RunFails
    <3>3. ~Claimed(id)' /\ \A j \in RowIds : Claimed(j)' => Claimed(j)
      <4>1. CASE Complete(id)
        BY <4>1 DEF Complete, Claimed, Live, TInv, TypeOK
      <4>2. CASE Fail(id) /\ Live(id)
        <5>1. rows[id] \in Row
          BY <4>2 DEF TInv, TypeOK, Live
        <5>2. Failed(rows[id]).started = FALSE
          BY <5>1 DEF Failed, Row
        <5>3. rows' = [rows EXCEPT ![id] = Failed(rows[id])]
          BY <4>2 DEF Fail
        <5>4. rows'[id].started = FALSE /\ \A j \in RowIds \ {id} : rows'[j] = rows[j]
          BY <5>2, <5>3 DEF TInv, TypeOK
        <5> QED
          BY <5>4 DEF Claimed, Live
      <4>3. CASE Fail(id) /\ ~Live(id)
        BY <4>3 DEF Fail, Claimed, Live
      <4> QED
        BY <3>2, <4>1, <4>2, <4>3
    <3>4. worker[n][w].row \in Copy
      BY <2>4 DEF Undeliverable, RunSucceeds, RunFails, TInv, WorkerRow
    <3>5. PICK v \in {Idle, [pc |-> "reenqueue", row |-> worker[n][w].row]} : worker' = [worker EXCEPT ![n][w] = v]
      BY <2>4 DEF Undeliverable, RunSucceeds, RunFails, Finished
    <3>6. v \in [pc : WorkerPC, row : Copy \cup {NoRow}] /\ UNCHANGED <<poller, chan>>
      BY <2>4, <3>4, <3>5, IdleType DEF WorkerPC, Undeliverable, RunSucceeds, RunFails
    <3>7. \A m \in Nodes, j \in RowIds : Held(m, j) /\ j # id => Held(m, j)'
      BY <3>1, <3>5, <3>6, WorkerDone DEF InWorker
    <3> QED
      BY <1>0, <3>3, <3>7, HandedOn
  <2>5. CASE Reenqueue(n, w)
    <3>1. worker[n][w].row.name \in Names /\ Finished(n, w) /\ UNCHANGED <<poller, chan>>
      BY <2>5 DEF TInv, WorkerRow, Reenqueue, Copy
    <3>2. \A id \in RowIds : ~InWorker(n, w, id)
      BY <2>5 DEF Reenqueue, InWorker
    <3>3. \A m \in Nodes, id \in RowIds : Held(m, id) => Held(m, id)'
      BY <3>1, <3>2, WorkerDone, IdleType DEF Finished
    <3> QED
      BY <1>4, <2>5, <3>1, <3>3 DEF Reenqueue
  <2> QED
    BY <1>10, <2>1, <2>2, <2>3, <2>4, <2>5 DEF WorkerStep
<1>11. ASSUME NEW n \in Nodes, StartStep(n) \/ StartError(n) \/ Stop(n) \/ StopReturn(n) \/ Crash(n)
       PROVE  NoOrphan'
  BY <1>11, <1>1, <1>2, <1>3, <1>7, <1>8 DEF StartStep, StartBegin, StartError, Stop, StopReturn, Crash
<1> QED
  BY <1>1, <1>5, <1>6, <1>9, <1>10, <1>11 DEF Next, vars, Elapse, Register, Unregister

\* Without a stop, a crash or a database error no claimed row is ever left
\* behind: every branch of claim and runOne hands its row on, completes it or
\* gives it back, for every number of processes, workers and rows.
THEOREM NoOrphans == Spec => []NoOrphan
<1> DEFINE IInv == TInv /\ UniqueCopies /\ CInv /\ OInv
<1>1. Init => IInv
  <2> SUFFICES ASSUME Init PROVE IInv
    OBVIOUS
  <2>1. TInv /\ UniqueCopies
    BY TInvInit DEF Init, UniqueCopies, Distinct, PollerOff
  <2>2. \A n \in Nodes, id \in RowIds : ~Held(n, id)
    BY DEF Init, Held, InBatch, InChan, InWorker, Ids, PollerOff, Off
  <2>3. CInv
    BY <2>2 DEF CInv, HeldNotQueued, ExclusiveClaim, Held
  <2>4. OInv
    BY <2>2 DEF Init, OInv, EmptyUnlessUp, NoOrphan, Live
  <2> QED
    BY <2>1, <2>3, <2>4
<1>2. IInv /\ [Next]_vars => IInv'
  <2> SUFFICES ASSUME IInv, [Next]_vars PROVE IInv'
    OBVIOUS
  <2>1. EmptyUnlessUp'
    BY EmptyStep DEF OInv
  <2>2. interrupts' = 0 => \A n \in Nodes : run'[n] # "stopping"
    BY CalmStep DEF OInv
  <2>3. OInv'
    BY <2>1, <2>2, OrphanStep DEF OInv
  <2> QED
    BY <2>3, TInvStep, UniqueStep, CInvStep DEF CInv
<1>3. IInv => NoOrphan
  BY DEF OInv
<1> QED
  BY <1>1, <1>2, <1>3, PTL DEF Spec
-----------------------------------------------------------------------------
(* Periodic jobs.  A copy that a process holds carries the name of the row   *)
(* it was read from, as long as that row exists; so completing, failing or   *)
(* dropping it touches a row of that very name.                              *)

HasCopy(n, c) ==
  \/ c \in poller[n].batch \cup chan[n]
  \/ \E w \in Workers : worker[n][w].pc \in {"taken", "running"} /\ worker[n][w].row = c
Named(c) == Live(c.id) => rows[c.id].name = c.name
CopyNames == \A n \in Nodes, c \in Copy : HasCopy(n, c) => Named(c)

\* Rows keep their names, and a new row is one nobody has a copy of.
NamesKept ==
  \A id \in RowIds : Live(id)' =>
    \/ Live(id) /\ rows'[id].name = rows[id].name
    \/ \A n \in Nodes, c \in Copy : HasCopy(n, c) => c.id # id

\* Copies are passed on, not made up: the SELECT alone makes new ones.
CopiesKept == \A n \in Nodes, c \in Copy : HasCopy(n, c)' => HasCopy(n, c) \/ Named(c)'

\* A step that keeps rows and copies in this sense keeps them in agreement.
LEMMA NamesFrame ==
  ASSUME CopyNames, NamesKept, CopiesKept
  PROVE  CopyNames'
<1> SUFFICES ASSUME NEW n \in Nodes, NEW c \in Copy, HasCopy(n, c)'
             PROVE  Named(c)'
  BY DEF CopyNames
<1>1. c.id \in RowIds
  BY DEF Copy
<1> QED
  BY <1>1 DEF CopyNames, NamesKept, CopiesKept, Named

\* Copies of a process whose batch, channel and workers are left alone.
LEMMA CopiesFrame ==
  ASSUME UNCHANGED <<poller, chan, worker>>
  PROVE  CopiesKept
BY DEF CopiesKept, HasCopy

\* INSERT uses an id that no copy refers to, and leaves the other rows alone.
LEMMA InsertNames ==
  ASSUME TInv, NEW id \in RowIds, NEW name \in Names, NEW due \in BOOLEAN, Insert(id, name, due)
  PROVE  /\ NamesKept
         /\ Queued(id)' /\ rows'[id].name = name
         /\ ~Live(id) /\ \A j \in RowIds \ {id} : rows'[j] = rows[j]
<1> DEFINE new == [started |-> FALSE, name |-> name, attempts |-> 0]
<1>1. rows' = [rows EXCEPT ![id] = new]
  BY DEF Insert
<1>2. \A j \in RowIds \ {id} : rows'[j] = rows[j]
  BY <1>1 DEF TInv, TypeOK
<1>3. rows'[id] = new
  BY <1>1 DEF TInv, TypeOK
<1>4. new \in Row
  BY JobsAssumption DEF Row
<1>5. new # NoRow
  BY <1>4, NoRowAssumption
<1>6. Queued(id)' /\ rows'[id].name = name
  BY <1>3, <1>5 DEF Queued, Live
<1>7. ~Live(id) /\ \A n \in Nodes : ~Held(n, id) /\ id \notin Ids(poller[n].batch)
  BY DEF Insert, NextId, Fresh
<1>8. \A n \in Nodes, c \in Copy : HasCopy(n, c) => c.id # id
  BY <1>7 DEF HasCopy, Held, InChan, InWorker, Ids
<1> QED
  BY <1>2, <1>6, <1>7, <1>8 DEF NamesKept, Live

\* A failed row is a row of the same name that nobody has started.
LEMMA FailedRow ==
  ASSUME NEW r \in Row
  PROVE  Failed(r) \in Row /\ Failed(r).started = FALSE /\ Failed(r).name = r.name
<1>1. r.attempts \in 0 .. AttemptCap
  BY DEF Row
<1>2. Bump(r.attempts) \in 0 .. AttemptCap
  BY <1>1, JobsAssumption DEF Bump
<1> QED
  BY <1>2 DEF Failed, Row

\* Complete and Fail change one row and keep its name.
LEMMA DoneNames ==
  ASSUME TInv, NEW id \in RowIds, Complete(id) \/ Fail(id)
  PROVE  /\ NamesKept
         /\ \A j \in RowIds \ {id} : rows'[j] = rows[j]
         /\ Fail(id) /\ Live(id) => Queued(id)' /\ rows'[id].name = rows[id].name
<1>1. CASE Complete(id)
  <2>1. rows' = [rows EXCEPT ![id] = NoRow]
    BY <1>1 DEF Complete
  <2>2. ~Live(id)' /\ \A j \in RowIds \ {id} : rows'[j] = rows[j]
    BY <2>1 DEF Live, TInv, TypeOK
  <2>3. ~(Fail(id) /\ Live(id))
    <3> SUFFICES ASSUME Fail(id), Live(id) PROVE FALSE
      OBVIOUS
    <3>1. Failed(rows[id]) \in Row
      BY FailedRow DEF Live, TInv, TypeOK
    <3>2. rows'[id] = Failed(rows[id])
      BY DEF Fail, TInv, TypeOK
    <3> QED
      BY <2>2, <3>1, <3>2, NoRowAssumption DEF Live
  <2> QED
    BY <2>2, <2>3 DEF NamesKept, Live
<1>2. CASE Fail(id) /\ ~Live(id)
  BY <1>2 DEF Fail, NamesKept, Live
<1>3. CASE Fail(id) /\ Live(id)
  <2>1. rows[id] \in Row
    BY <1>3 DEF TInv, TypeOK, Live
  <2>2. Failed(rows[id]) \in Row /\ Failed(rows[id]).started = FALSE /\ Failed(rows[id]).name = rows[id].name
    BY <2>1, FailedRow
  <2>3. rows' = [rows EXCEPT ![id] = Failed(rows[id])]
    BY <1>3 DEF Fail
  <2>4. rows'[id] = Failed(rows[id]) /\ \A j \in RowIds \ {id} : rows'[j] = rows[j]
    BY <2>3 DEF TInv, TypeOK
  <2>5. Queued(id)' /\ rows'[id].name = rows[id].name
    BY <2>2, <2>4, NoRowAssumption DEF Queued, Live
  <2> QED
    BY <1>3, <2>4, <2>5 DEF NamesKept, Live
<1> QED
  BY <1>1, <1>2, <1>3

\* A worker's copy comes from its hands or from the channel.
LEMMA WorkerCopies ==
  ASSUME TInv, NEW n \in Nodes, NEW w \in Workers,
         NEW v \in [pc : WorkerPC, row : Copy \cup {NoRow}], worker' = [worker EXCEPT ![n][w] = v],
         v.pc \in {"taken", "running"} => HasCopy(n, v.row), UNCHANGED poller,
         \A m \in Nodes : chan'[m] \subseteq chan[m]
  PROVE  CopiesKept
<1>1. \A m \in Nodes, u \in Workers :
        worker'[m][u] = IF m = n /\ u = w THEN v ELSE worker[m][u]
  BY UpdateOne DEF TInv, TypeOK
<1> QED
  BY <1>1 DEF CopiesKept, HasCopy

\* Every step keeps the held copies and the table in agreement.
LEMMA CopyNamesStep ==
  ASSUME TInv, CopyNames, [Next]_vars
  PROVE  CopyNames'
<1>0. ASSUME UNCHANGED rows PROVE NamesKept
  BY <1>0 DEF NamesKept, Live
<1>1. CASE UNCHANGED <<rows, poller, chan, worker>>
  BY <1>0, <1>1, CopiesFrame, NamesFrame
<1>2. ASSUME NEW name \in Names, DeleteByName(name)
      PROVE  CopyNames'
  <2>1. NamesKept
    BY <1>2 DEF DeleteByName, NamesKept, Live
  <2> QED
    BY <1>2, <2>1, CopiesFrame, NamesFrame DEF DeleteByName
<1>3. ASSUME NEW n \in Nodes, NEW name \in Names, NEW due \in BOOLEAN, Enqueue(n, name, due)
      PROVE  CopyNames'
  BY <1>3, InsertNames, CopiesFrame, NamesFrame DEF Enqueue
<1>4. ASSUME NEW n \in Nodes, NEW name \in Periodic, StartEnqueue(n, name)
      PROVE  CopyNames'
  BY <1>4, InsertNames, CopiesFrame, NamesFrame, JobsAssumption DEF StartEnqueue
<1>5. ASSUME NEW n \in Nodes, StartLaunch(n) \/ Wipe(n), UNCHANGED rows
      PROVE  CopyNames'
  <2>1. \A m \in Nodes : poller'[m].batch \subseteq poller[m].batch /\ chan'[m] \subseteq chan[m]
    <3>1. PICK p \in {PollerIdle, PollerOff} : poller' = [poller EXCEPT ![n] = p]
      BY <1>5 DEF StartLaunch, Wipe
    <3>2. p.batch = {}
      BY DEF PollerIdle, PollerOff
    <3>3. \A m \in Nodes : poller'[m].batch \subseteq poller[m].batch
      BY <3>1, <3>2 DEF TInv, TypeOK
    <3>4. \A m \in Nodes : chan'[m] \subseteq chan[m]
      BY <1>5 DEF StartLaunch, Wipe, TInv, TypeOK
    <3> QED
      BY <3>3, <3>4
  <2>2. \A m \in Nodes, w \in Workers :
          worker'[m][w].pc \in {"taken", "running"} => worker'[m][w] = worker[m][w]
    <3>1. PICK v \in {Idle, Off} : worker' = [worker EXCEPT ![n] = [w \in Workers |-> v]]
      BY <1>5 DEF StartLaunch, Wipe
    <3> QED
      BY <3>1, IdleType, OffType DEF TInv, TypeOK
  <2>3. CopiesKept
    BY <2>1, <2>2 DEF CopiesKept, HasCopy
  <2> QED
    BY <1>0, <1>5, <2>3, NamesFrame
<1>6. ASSUME NEW n \in Nodes, PollStep(n)
      PROVE  CopyNames'
  <2>1. CASE PollSelect(n)
    <3>1. PICK ids \in SUBSET ready :
            poller' = [poller EXCEPT ![n] = [pc |-> "selected", batch |-> {CopyOf(id) : id \in ids}]]
      BY <2>1 DEF PollSelect
    <3>2. UNCHANGED <<rows, chan, worker>>
      BY <2>1 DEF PollSelect
    <3>3. \A m \in Nodes : poller'[m].batch = IF m = n THEN {CopyOf(id) : id \in ids} ELSE poller[m].batch
      BY <3>1 DEF TInv, TypeOK
    <3>4. \A id \in ids, c \in Copy : c = CopyOf(id) => Named(c)'
      BY <3>2 DEF Named, CopyOf, Live
    <3>5. CopiesKept
      BY <3>2, <3>3, <3>4 DEF CopiesKept, HasCopy
    <3> QED
      BY <1>0, <3>2, <3>5, NamesFrame
  <2>2. CASE PollClaim(n)
    <3> DEFINE claimed == {c \in poller[n].batch : Queued(c.id)}
    <3>1. /\ rows' = [id \in RowIds |-> IF id \in Ids(claimed) THEN [rows[id] EXCEPT !.started = TRUE] ELSE rows[id]]
          /\ poller' = [poller EXCEPT ![n] = [pc |-> "sending", batch |-> claimed]]
          /\ UNCHANGED <<chan, worker>>
      BY <2>2 DEF PollClaim
    <3>2. \A id \in Ids(claimed) : rows[id] \in Row /\ Live(id)
      BY DEF Ids, TInv, TypeOK, Copy, Queued, Live
    <3>3. NamesKept
      BY <3>1, <3>2 DEF NamesKept, Live, Row
    <3>4. \A m \in Nodes : poller'[m].batch \subseteq poller[m].batch
      BY <3>1 DEF TInv, TypeOK
    <3>5. CopiesKept
      BY <3>1, <3>4 DEF CopiesKept, HasCopy
    <3> QED
      BY <3>3, <3>5, NamesFrame
  <2>3. CASE PollError(n) \/ PollSent(n) \/ PollExit(n)
    <3>1. UNCHANGED <<rows, chan, worker>>
      BY <2>3 DEF PollError, PollSent, PollExit
    <3>2. \A m \in Nodes : poller'[m].batch \subseteq poller[m].batch
      <4>1. PICK p \in {PollerIdle, PollerOff} : poller' = [poller EXCEPT ![n] = p]
        BY <2>3 DEF PollError, PollSent, PollExit
      <4>2. p.batch = {}
        BY DEF PollerIdle, PollerOff
      <4> QED
        BY <4>1, <4>2 DEF TInv, TypeOK
    <3>3. CopiesKept
      BY <3>1, <3>2 DEF CopiesKept, HasCopy
    <3> QED
      BY <1>0, <3>1, <3>3, NamesFrame
  <2>4. CASE PollSend(n)
    <3>1. PICK c \in poller[n].batch :
            /\ chan' = [chan EXCEPT ![n] = @ \cup {c}]
            /\ poller' = [poller EXCEPT ![n].batch = @ \ {c}]
      BY <2>4 DEF PollSend
    <3>2. UNCHANGED <<rows, worker>>
      BY <2>4 DEF PollSend
    <3>3. \A m \in Nodes : /\ poller'[m].batch \subseteq poller[m].batch
                           /\ chan'[m] \subseteq poller[m].batch \cup chan[m]
      BY <3>1, UpdateBatch DEF TInv, TypeOK
    <3>4. CopiesKept
      BY <3>2, <3>3 DEF CopiesKept, HasCopy
    <3> QED
      BY <1>0, <3>2, <3>4, NamesFrame
  <2> QED
    BY <1>6, <2>1, <2>2, <2>3, <2>4 DEF PollStep
<1>7. ASSUME NEW n \in Nodes, NEW w \in Workers, WorkerStep(n, w)
      PROVE  CopyNames'
  <2>1. CASE WorkerTake(n, w)
    <3>1. PICK c \in chan[n] :
            /\ worker' = [worker EXCEPT ![n][w] = [pc |-> "taken", row |-> c]]
            /\ chan' = [chan EXCEPT ![n] = @ \ {c}]
      BY <2>1 DEF WorkerTake
    <3>2. [pc |-> "taken", row |-> c] \in [pc : WorkerPC, row : Copy \cup {NoRow}] /\ HasCopy(n, c)
      BY DEF WorkerPC, TInv, TypeOK, HasCopy
    <3>3. UNCHANGED <<rows, poller>> /\ \A m \in Nodes : chan'[m] \subseteq chan[m]
      BY <2>1, <3>1 DEF WorkerTake, TInv, TypeOK
    <3>4. CopiesKept
      BY <3>1, <3>2, <3>3, WorkerCopies
    <3> QED
      BY <1>0, <3>3, <3>4, NamesFrame
  <2>2. CASE Dispatch(n, w)
    <3> DEFINE v == [worker[n][w] EXCEPT !.pc = "running"]
    <3>1. worker[n][w] \in [pc : WorkerPC, row : Copy \cup {NoRow}] /\ worker[n][w].pc = "taken"
      BY <2>2 DEF Dispatch, TInv, TypeOK
    <3>2. v \in [pc : WorkerPC, row : Copy \cup {NoRow}] /\ HasCopy(n, v.row)
      BY <3>1 DEF WorkerPC, HasCopy
    <3>3. worker' = [worker EXCEPT ![n][w] = v] /\ UNCHANGED <<rows, poller, chan>>
      BY <2>2 DEF Dispatch, TInv, TypeOK
    <3> HIDE DEF v
    <3>4. CopiesKept
      BY <3>2, <3>3, WorkerCopies
    <3> QED
      BY <1>0, <3>3, <3>4, NamesFrame
  <2>3. CASE \/ WorkerExit(n, w) \/ Undeliverable(n, w) \/ RunSucceeds(n, w)
             \/ RunFails(n, w) \/ Reenqueue(n, w) \/ StoreError(n, w)
    <3>1. RunSucceeds(n, w) => worker[n][w].row \in Copy
      BY DEF RunSucceeds, TInv, WorkerRow
    <3>2. PICK v \in [pc : WorkerPC, row : Copy \cup {NoRow}] :
            worker' = [worker EXCEPT ![n][w] = v] /\ v.pc \notin {"taken", "running"}
      <4>1. CASE RunSucceeds(n, w)
        <5> DEFINE v == [pc |-> "reenqueue", row |-> worker[n][w].row]
        <5>1. worker' = [worker EXCEPT ![n][w] = v] \/ worker' = [worker EXCEPT ![n][w] = Idle]
          BY <4>1 DEF RunSucceeds
        <5>2. v \in [pc : WorkerPC, row : Copy \cup {NoRow}] /\ v.pc = "reenqueue"
          BY <3>1, <4>1 DEF WorkerPC
        <5> HIDE DEF v
        <5> QED
          BY <5>1, <5>2, IdleType
      <4>2. CASE WorkerExit(n, w) \/ Undeliverable(n, w) \/ RunFails(n, w) \/ Reenqueue(n, w) \/ StoreError(n, w)
        <5>1. worker' = [worker EXCEPT ![n][w] = Off] \/ worker' = [worker EXCEPT ![n][w] = Idle]
          BY <4>2 DEF WorkerExit, Undeliverable, RunFails, Reenqueue, StoreError, Finished
        <5> QED
          BY <5>1, IdleType, OffType
      <4> QED
        BY <2>3, <4>1, <4>2
    <3>3. UNCHANGED <<poller, chan>>
      BY <2>3 DEF WorkerExit, Undeliverable, RunSucceeds, RunFails, Reenqueue, StoreError
    <3>4. CopiesKept
      BY <3>2, <3>3, WorkerCopies
    <3>5. NamesKept
      <4>1. CASE WorkerExit(n, w) \/ StoreError(n, w)
        BY <1>0, <4>1 DEF WorkerExit, StoreError
      <4>2. CASE Undeliverable(n, w) \/ RunSucceeds(n, w) \/ RunFails(n, w)
        <5>1. PICK id \in RowIds : id = worker[n][w].row.id
          BY <4>2 DEF Undeliverable, RunSucceeds, RunFails, TInv, WorkerRow, Copy
        <5>2. Complete(id) \/ Fail(id)
          BY <4>2, <5>1 DEF Undeliverable, RunSucceeds, RunFails
        <5> QED
          BY <5>2, DoneNames
      <4>3. CASE Reenqueue(n, w)
        <5>1. worker[n][w].row.name \in Names
          BY <4>3 DEF TInv, WorkerRow, Reenqueue, Copy
        <5> QED
          BY <4>3, <5>1, InsertNames DEF Reenqueue
      <4> QED
        BY <2>3, <4>1, <4>2, <4>3
    <3> QED
      BY <3>4, <3>5, NamesFrame
  <2> QED
    BY <1>7, <2>1, <2>2, <2>3 DEF WorkerStep
<1>8. ASSUME NEW n \in Nodes, StartStep(n) \/ StartError(n) \/ Stop(n) \/ StopReturn(n) \/ Crash(n)
      PROVE  CopyNames'
  BY <1>8, <1>1, <1>4, <1>5 DEF StartStep, StartBegin, StartLaunch, StartError, Stop, StopReturn, Crash
<1> QED
  BY <1>1, <1>2, <1>3, <1>6, <1>7, <1>8 DEF Next, vars, Elapse, Register, Unregister

\* What keeps a periodic name going in a process n: while Start runs, the name
\* is still to be enqueued or has a queued row; once the runner is up, a row is
\* queued or held, or a worker is about to insert the next one.
Waiting(name) == \E id \in RowIds : Queued(id) /\ rows[id].name = name
Going(n, name) ==
  \/ \E id \in RowIds : Live(id) /\ rows[id].name = name /\ (Queued(id) \/ Held(n, id))
  \/ \E w \in Workers : worker[n][w].pc = "reenqueue" /\ worker[n][w].row.name = name
Alive(n, name) ==
  IF run[n] = "starting" THEN name \in todo[n] \/ Waiting(name) ELSE Going(n, name)
AliveIn(n) ==
  run[n] \in {"starting", "up"} =>
    /\ Periodic \subseteq jobs[n]
    /\ clean[n] => \A name \in Periodic : Alive(n, name)
PInv == \A n \in Nodes : Nodes = {n} => AliveIn(n)

\* The rows of periodic names that are queued or held stay so.
RowsGoOn(n) ==
  \A id \in RowIds : Live(id) /\ rows[id].name \in Periodic /\ (Queued(id) \/ Held(n, id)) =>
    Live(id)' /\ rows'[id].name = rows[id].name /\ (Queued(id)' \/ Held(n, id)')

\* A step of a runner that is up, keeps those rows and takes no worker away
\* from its re-enqueueing keeps the periodic jobs alive.
LEMMA UpKeepsAlive ==
  ASSUME NEW n \in Nodes, AliveIn(n), run[n] = "up", UNCHANGED <<run, jobs, clean>>, RowsGoOn(n),
         \A w \in Workers : worker[n][w].pc = "reenqueue" => worker'[n][w] = worker[n][w]
  PROVE  AliveIn(n)'
<1> SUFFICES ASSUME clean[n], NEW name \in Periodic, Going(n, name)
             PROVE  Going(n, name)'
  BY DEF AliveIn, Alive
<1> QED
  BY DEF Going, RowsGoOn

\* A step that keeps every row, every name registered and to be enqueued, and
\* everything the process holds, keeps the periodic jobs alive.
LEMMA QuietKeepsAlive ==
  ASSUME NEW n \in Nodes, AliveIn(n), UNCHANGED <<run, clean, poller, chan, worker>>,
         todo'[n] = todo[n], Periodic \subseteq jobs[n] => Periodic \subseteq jobs'[n],
         \A id \in RowIds : Live(id) /\ rows[id].name \in Periodic => rows'[id] = rows[id]
  PROVE  AliveIn(n)'
<1>1. \A id \in RowIds : Held(n, id)' <=> Held(n, id)
  BY HeldFrame
<1>2. ASSUME NEW name \in Periodic, Waiting(name) PROVE Waiting(name)'
  BY <1>2 DEF Waiting, Queued, Live
<1>3. ASSUME NEW name \in Periodic, Going(n, name) PROVE Going(n, name)'
  BY <1>1, <1>3 DEF Going, Queued, Live
<1> QED
  BY <1>2, <1>3 DEF AliveIn, Alive

\* Every step preserves the invariant behind PeriodicAlive.
LEMMA PInvStep ==
  ASSUME TInv, UniqueCopies, CInv, EmptyUnlessUp, CopyNames, PInv, [Next]_vars
  PROVE  PInv'
<1> SUFFICES ASSUME NEW n \in Nodes, Nodes = {n}
             PROVE  AliveIn(n)'
  BY DEF PInv
<1>0. AliveIn(n)
  BY DEF PInv
<1>1. CASE UNCHANGED vars \/ \E id \in RowIds : Elapse(id)
  BY <1>0, <1>1, QuietKeepsAlive DEF vars, Elapse
<1>2. ASSUME NEW name \in Names, DeleteByName(name)
      PROVE  AliveIn(n)'
  <2>1. \A id \in RowIds : Live(id) /\ rows[id].name \in Periodic => rows'[id] = rows[id]
    BY <1>2 DEF DeleteByName
  <2> QED
    BY <1>0, <1>2, <2>1, QuietKeepsAlive DEF DeleteByName
<1>3. ASSUME NEW name \in Names, Register(n, name) \/ Unregister(n, name)
      PROVE  AliveIn(n)'
  <2>1. Periodic \subseteq jobs[n] => Periodic \subseteq jobs'[n]
    BY <1>3 DEF Register, Unregister, TInv, TypeOK
  <2> QED
    BY <1>0, <1>3, <2>1, QuietKeepsAlive DEF Register, Unregister
<1>4. ASSUME NEW name \in Names, NEW due \in BOOLEAN, Enqueue(n, name, due)
      PROVE  AliveIn(n)'
  <2>1. \A id \in RowIds : Live(id) => rows'[id] = rows[id]
    BY <1>4, InsertNames DEF Enqueue
  <2> QED
    BY <1>0, <1>4, <2>1, QuietKeepsAlive DEF Enqueue
<1>5. ASSUME StartBegin(n)
      PROVE  AliveIn(n)'
  <2>1. run'[n] = "starting" /\ todo'[n] = Periodic /\ jobs' = jobs /\ Periodic \subseteq jobs[n]
    BY <1>5 DEF StartBegin, TInv, TypeOK
  <2> QED
    BY <2>1 DEF AliveIn, Alive
<1>6. ASSUME NEW name \in Periodic, StartEnqueue(n, name)
      PROVE  AliveIn(n)'
  <2>1. run[n] = "starting" /\ UNCHANGED <<run, jobs, clean>> /\ todo'[n] = todo[n] \ {name}
    BY <1>6 DEF StartEnqueue, TInv, TypeOK
  <2>2. PICK id \in RowIds : Queued(id)' /\ rows'[id].name = name
                             /\ ~Live(id) /\ \A j \in RowIds \ {id} : rows'[j] = rows[j]
    BY <1>6, InsertNames, JobsAssumption DEF StartEnqueue
  <2>3. Waiting(name)' /\ \A k \in Periodic : Waiting(k) => Waiting(k)'
    BY <2>2 DEF Waiting, Queued, Live
  <2> QED
    BY <1>0, <2>1, <2>3 DEF AliveIn, Alive
<1>7. ASSUME StartLaunch(n)
      PROVE  AliveIn(n)'
  <2>1. run[n] = "starting" /\ todo[n] = {} /\ run'[n] = "up" /\ UNCHANGED <<rows, jobs, clean>>
    BY <1>7 DEF StartLaunch, TInv, TypeOK
  <2>2. \A name \in Periodic : Waiting(name) => Going(n, name)'
    BY <2>1 DEF Waiting, Going, Queued, Live
  <2> QED
    BY <1>0, <2>1, <2>2 DEF AliveIn, Alive
<1>8. ASSUME StartError(n) \/ Stop(n) \/ StopReturn(n) \/ Crash(n)
      PROVE  AliveIn(n)'
  <2>1. run'[n] \in {"down", "stopping"}
    BY <1>8 DEF StartError, Stop, StopReturn, Crash, Wipe, TInv, TypeOK
  <2> QED
    BY <2>1 DEF AliveIn
<1>9. CASE run[n] # "up" /\ UNCHANGED <<run, jobs, clean, rows, todo>>
  <2>1. \A name \in Periodic : Waiting(name) => Waiting(name)'
    BY <1>9 DEF Waiting, Queued, Live
  <2> QED
    BY <1>0, <1>9, <2>1 DEF AliveIn, Alive
<1>10. ASSUME PollStep(n)
       PROVE  AliveIn(n)'
  <2>0. UNCHANGED <<run, jobs, todo, clean, worker>>
    BY <1>10 DEF PollStep, PollSelect, PollClaim, PollError, PollSend, PollSent, PollExit
  <2>1. CASE run[n] # "up"
    BY <1>9, <1>10, <2>0, <2>1 DEF PollStep, PollSelect, PollClaim, PollError, PollSend, PollSent, PollExit
  <2>2. CASE run[n] = "up"
    <3>1. CASE PollClaim(n)
      <4>1. /\ \A id \in RowIds : Held(n, id) => Held(n, id)'
            /\ \A id \in RowIds : rows'[id] = rows[id] \/ (Held(n, id)' /\ Live(id)' /\ rows'[id].name = rows[id].name)
        BY <3>1, ClaimKeeps
      <4>2. RowsGoOn(n)
        BY <4>1 DEF RowsGoOn, Queued, Live
      <4> QED
        BY <1>0, <2>0, <2>2, <4>2, UpKeepsAlive
    <3>2. CASE PollSend(n)
      <4>1. UNCHANGED rows /\ \A id \in RowIds : Held(n, id) => Held(n, id)'
        BY <3>2, SendKeeps DEF PollSend
      <4>2. RowsGoOn(n)
        BY <4>1 DEF RowsGoOn, Queued, Live
      <4> QED
        BY <1>0, <2>0, <2>2, <4>2, UpKeepsAlive
    <3>3. CASE PollSelect(n) \/ PollError(n) \/ PollSent(n)
      <4>1. PICK p : poller' = [poller EXCEPT ![n] = p]
        BY <3>3 DEF PollSelect, PollError, PollSent
      <4>2. UNCHANGED <<rows, chan>> /\ (poller[n].pc = "sending" => poller[n].batch = {})
        BY <3>3 DEF PollSelect, PollError, PollSent
      <4>3. \A id \in RowIds : Held(n, id) => Held(n, id)'
        BY <2>0, <4>1, <4>2, NotSendingKeeps
      <4>4. RowsGoOn(n)
        BY <4>2, <4>3 DEF RowsGoOn, Queued, Live
      <4> QED
        BY <1>0, <2>0, <2>2, <4>4, UpKeepsAlive
    <3> QED
      BY <1>10, <2>2, <3>1, <3>2, <3>3 DEF PollStep, PollExit
  <2> QED
    BY <2>1, <2>2
<1>11. ASSUME NEW w \in Workers, WorkerStep(n, w)
       PROVE  AliveIn(n)'
  <2>0. UNCHANGED <<run, jobs, todo, poller>>
    BY <1>11 DEF WorkerStep, WorkerTake, WorkerExit, Undeliverable, Dispatch, RunSucceeds, RunFails, Reenqueue, StoreError
  <2>1. CASE WorkerTake(n, w)
    <3>1. UNCHANGED <<rows, clean>> /\ worker[n][w].pc = "idle" /\ \A id \in RowIds : Held(n, id) => Held(n, id)'
      BY <2>1, TakeKeeps DEF WorkerTake
    <3>2. RowsGoOn(n)
      BY <3>1 DEF RowsGoOn, Queued, Live
    <3>3. \A u \in Workers : u # w => worker'[n][u] = worker[n][u]
      BY <2>1 DEF WorkerTake, TInv, TypeOK
    <3>4. CASE run[n] = "up"
      BY <1>0, <2>0, <3>1, <3>2, <3>3, <3>4, UpKeepsAlive
    <3>5. CASE run[n] # "up"
      BY <1>9, <2>0, <3>1, <3>5
    <3> QED
      BY <3>4, <3>5
  <2>2. CASE WorkerExit(n, w) \/ StoreError(n, w)
    <3>1. run[n] = "stopping" \/ (clean' = [clean EXCEPT ![n] = FALSE] /\ run[n] = "up")
      BY <2>2 DEF WorkerExit, StoreError
    <3>2. CASE run[n] = "stopping"
      BY <2>0, <3>2 DEF AliveIn
    <3>3. CASE clean' = [clean EXCEPT ![n] = FALSE] /\ run[n] = "up"
      <4>1. clean'[n] = FALSE
        BY <3>3 DEF TInv, TypeOK
      <4> QED
        BY <1>0, <2>0, <3>3, <4>1 DEF AliveIn
    <3> QED
      BY <3>1, <3>2, <3>3
  <2>3. CASE Dispatch(n, w)
    <3> DEFINE v == [worker[n][w] EXCEPT !.pc = "running"]
    <3>1. worker[n][w] \in [pc : WorkerPC, row : Copy \cup {NoRow}] /\ worker[n][w].pc = "taken"
      BY <2>3 DEF Dispatch, TInv, TypeOK
    <3>2. v \in [pc : WorkerPC, row : Copy \cup {NoRow}] /\ v.pc = "running" /\ v.row = worker[n][w].row
      BY <3>1 DEF WorkerPC
    <3>3. worker' = [worker EXCEPT ![n][w] = v] /\ UNCHANGED <<rows, clean, poller, chan>>
      BY <2>3 DEF Dispatch, TInv, TypeOK
    <3> HIDE DEF v
    <3>4. \A id \in RowIds : Held(n, id) /\ ~InWorker(n, w, id) => Held(n, id)'
      BY <3>2, <3>3, WorkerDone
    <3>5. worker'[n][w] = v /\ \A u \in Workers : u # w => worker'[n][u] = worker[n][u]
      BY <3>3 DEF TInv, TypeOK
    <3>6. \A id \in RowIds : InWorker(n, w, id) => Held(n, id)'
      BY <3>2, <3>5 DEF InWorker, Held
    <3>7. RowsGoOn(n)
      BY <3>3, <3>4, <3>6 DEF RowsGoOn, Queued, Live
    <3>8. CASE run[n] = "up"
      BY <1>0, <2>0, <3>1, <3>3, <3>5, <3>7, <3>8, UpKeepsAlive
    <3>9. CASE run[n] # "up"
      BY <1>9, <2>0, <3>3, <3>9
    <3> QED
      BY <3>8, <3>9
  <2>4. CASE Undeliverable(n, w) \/ RunSucceeds(n, w) \/ RunFails(n, w)
    <3>0. PICK c \in Copy : c = worker[n][w].row
      BY <2>4 DEF Undeliverable, RunSucceeds, RunFails, TInv, WorkerRow
    <3>1. c.id \in RowIds /\ c.name \in Names
      BY DEF Copy
    <3>2. /\ run[n] = "up" /\ worker[n][w].pc \in {"taken", "running"} /\ UNCHANGED <<poller, chan, clean>>
          /\ Complete(c.id) \/ Fail(c.id)
      BY <2>4, <3>0 DEF Undeliverable, RunSucceeds, RunFails
    <3>3. Live(c.id) => rows[c.id].name = c.name
      BY <3>0, <3>2 DEF CopyNames, HasCopy, Named
    <3>4. /\ \A j \in RowIds \ {c.id} : rows'[j] = rows[j]
          /\ Fail(c.id) /\ Live(c.id) => Queued(c.id)' /\ rows'[c.id].name = rows[c.id].name
      BY <3>1, <3>2, DoneNames
    <3>5. PICK v \in {Idle, [pc |-> "reenqueue", row |-> c]} : worker' = [worker EXCEPT ![n][w] = v]
      BY <2>4, <3>0 DEF Undeliverable, RunSucceeds, RunFails, Finished
    <3>6. v \in [pc : WorkerPC, row : Copy \cup {NoRow}]
      BY <3>5, IdleType DEF WorkerPC
    <3>7. worker'[n][w] = v /\ \A u \in Workers : u # w => worker'[n][u] = worker[n][u]
      BY <3>5 DEF TInv, TypeOK
    <3>8. \A j \in RowIds : Held(n, j) /\ j # c.id => Held(n, j)'
      BY <3>0, <3>2, <3>5, <3>6, WorkerDone DEF InWorker
    <3>9. \A j \in RowIds : j # c.id /\ (Queued(j) \/ Held(n, j)) => (Queued(j)' \/ Held(n, j)')
      BY <3>4, <3>8 DEF Queued, Live
    <3>10. CASE ~RunSucceeds(n, w)
      <4>1. Live(c.id) /\ rows[c.id].name \in Periodic => Fail(c.id)
        BY <1>0, <2>4, <3>0, <3>2, <3>3, <3>10 DEF Undeliverable, RunFails, AliveIn
      <4>2. RowsGoOn(n)
        BY <3>4, <3>9, <4>1 DEF RowsGoOn, Queued, Live
      <4> QED
        BY <1>0, <2>0, <3>2, <3>7, <4>2, UpKeepsAlive
    <3>11. CASE RunSucceeds(n, w)
      <4>1. c.name \in Periodic => worker'[n][w] = [pc |-> "reenqueue", row |-> c]
        BY <3>0, <3>11 DEF RunSucceeds, TInv, TypeOK
      <4>2. \A name \in Periodic : Going(n, name) => Going(n, name)'
        <5> SUFFICES ASSUME NEW name \in Periodic, Going(n, name) PROVE Going(n, name)'
          OBVIOUS
        <5>1. CASE name = c.name
          BY <4>1, <5>1 DEF Going
        <5>2. CASE name # c.name
          <6>1. ASSUME NEW id \in RowIds, Live(id), rows[id].name = name, Queued(id) \/ Held(n, id)
                PROVE  Going(n, name)'
            BY <3>3, <3>4, <3>9, <5>2, <6>1 DEF Going, Live
          <6>2. ASSUME NEW u \in Workers, worker[n][u].pc = "reenqueue", worker[n][u].row.name = name
                PROVE  Going(n, name)'
            BY <3>2, <3>7, <6>2 DEF Going
          <6> QED
            BY <6>1, <6>2 DEF Going
        <5> QED
          BY <5>1, <5>2
      <4> QED
        BY <1>0, <2>0, <3>2, <4>2 DEF AliveIn, Alive
    <3> QED
      BY <3>10, <3>11
  <2>5. CASE Reenqueue(n, w)
    <3>1. /\ worker[n][w].row.name \in Names /\ Finished(n, w) /\ UNCHANGED <<poller, chan, clean>>
          /\ run[n] = "up" /\ worker[n][w].pc = "reenqueue"
      BY <2>5 DEF TInv, WorkerRow, Reenqueue, Copy
    <3>2. PICK id \in RowIds : Queued(id)' /\ rows'[id].name = worker[n][w].row.name
                               /\ ~Live(id) /\ \A j \in RowIds \ {id} : rows'[j] = rows[j]
      BY <2>5, <3>1, InsertNames DEF Reenqueue
    <3>3. \A j \in RowIds : Held(n, j) => Held(n, j)'
      BY <3>1, WorkerDone, IdleType DEF Finished, InWorker
    <3>4. \A u \in Workers : u # w => worker'[n][u] = worker[n][u]
      BY <3>1 DEF Finished, TInv, TypeOK
    <3>5. \A name \in Periodic : Going(n, name) => Going(n, name)'
      <4> SUFFICES ASSUME NEW name \in Periodic, Going(n, name) PROVE Going(n, name)'
        OBVIOUS
      <4>1. CASE name = worker[n][w].row.name
        BY <3>2, <4>1 DEF Going, Queued
      <4>2. CASE name # worker[n][w].row.name
        <5>1. ASSUME NEW j \in RowIds, Live(j), rows[j].name = name, Queued(j) \/ Held(n, j)
              PROVE  Going(n, name)'
          BY <3>2, <3>3, <5>1 DEF Going, Queued, Live
        <5>2. ASSUME NEW u \in Workers, worker[n][u].pc = "reenqueue", worker[n][u].row.name = name
              PROVE  Going(n, name)'
          BY <3>4, <4>2, <5>2 DEF Going
        <5> QED
          BY <5>1, <5>2 DEF Going
      <4> QED
        BY <4>1, <4>2
    <3> QED
      BY <1>0, <2>0, <3>1, <3>5 DEF AliveIn, Alive
  <2> QED
    BY <1>11, <2>1, <2>2, <2>3, <2>4, <2>5 DEF WorkerStep
<1> QED
  BY <1>1, <1>2, <1>3, <1>4, <1>5, <1>6, <1>7, <1>8, <1>10, <1>11 DEF Next, StartStep

\* In a single-process deployment a periodic job never dies out: from Start on,
\* until one of the runner's own statements fails, every periodic name has a row
\* queued or held or a worker about to insert the next one, whatever plugins
\* enqueue, delete, register and unregister meanwhile.
THEOREM PeriodicNeverDies == Spec => []PeriodicAlive
<1> DEFINE IInv == TInv /\ UniqueCopies /\ CInv /\ EmptyUnlessUp /\ CopyNames /\ PInv
<1>1. Init => IInv
  <2> SUFFICES ASSUME Init PROVE IInv
    OBVIOUS
  <2>1. TInv /\ UniqueCopies
    BY TInvInit DEF Init, UniqueCopies, Distinct, PollerOff
  <2>2. \A n \in Nodes, id \in RowIds : ~Held(n, id)
    BY DEF Init, Held, InBatch, InChan, InWorker, Ids, PollerOff, Off
  <2>3. CInv
    BY <2>2 DEF CInv, HeldNotQueued, ExclusiveClaim, Held
  <2>4. EmptyUnlessUp /\ PInv
    BY <2>2 DEF Init, EmptyUnlessUp, PInv, AliveIn
  <2>5. CopyNames
    BY DEF Init, CopyNames, Named, Live, Copy
  <2> QED
    BY <2>1, <2>3, <2>4, <2>5
<1>2. IInv /\ [Next]_vars => IInv'
  BY TInvStep, UniqueStep, CInvStep, EmptyStep, CopyNamesStep, PInvStep DEF CInv
<1>3. IInv => PeriodicAlive
  BY DEF PInv, AliveIn, Alive, Going, PeriodicAlive
<1> QED
  BY <1>1, <1>2, <1>3, PTL DEF Spec
=============================================================================
