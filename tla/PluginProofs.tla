--------------------------- MODULE PluginProofs ---------------------------
(***************************************************************************)
(* Plugins, as the administrator and the cluster see them (PluginAdmin)    *)
(* and as a call meets them (PluginHost). In the first half: the           *)
(* registered version can be started, what runs was approved, a new life   *)
(* starts clean, and jobs and requests reach the running instance. In the  *)
(* second: a call has its instance and its fuel to itself, a pool keeps    *)
(* its size, and no threads wait for one another. The specifications       *)
(* share no variable.                                                      *)
(***************************************************************************)
EXTENDS PluginAdmin, PluginHost, FiniteSetTheorems, FunctionTheorems, SequenceTheorems,
        WellFoundedInduction, TLAPS

-----------------------------------------------------------------------------
(* The command and the pass under way.                                     *)

Row == [ver : Versions, on : BOOLEAN, caps : Caps]
Archive == [caps : Caps, life : 1..life]

\* The record of the running command.
Commands ==
  [op : {"none", "install", "uninstall"},
   pc : {"none", "store", "routes", "hook", "upsert", "gc", "jobs", "config", "redis", "sys", "row", "dir"},
   ver : Versions \cup {0}, from : Versions \cup {0}, caps : Caps \cup {None}]

\* The record of the pass under way.
Passes ==
  [stage : {"none", "stop", "purge", "start", "routes"}, seen : Row \cup {None}, p : Started \cup {None}]

Flags ==
  [half : BOOLEAN, cut : BOOLEAN, same : BOOLEAN, wiped : BOOLEAN,
   unseen : BOOLEAN, late : BOOLEAN, unlisted : BOOLEAN]

\* What the command's statement says about the row and the archives: only the
\* command changes them, and it knows what it found.
Placed ==
  /\ cli.op = "none" => cli = Idle
  /\ cli.op = "install" =>
       /\ cli.pc \in {"store", "routes", "hook", "upsert", "gc"}
       /\ cli.ver \in Versions /\ cli.caps \in Caps /\ life # 0
       /\ cli.from = 0 => row = None /\ cli.pc \notin {"routes", "gc"}
       /\ cli.from # 0 => row # None
       /\ cli.pc = "gc" => row.ver = cli.ver
       /\ cli.from # 0 /\ cli.pc # "gc" => row.ver = cli.from
       /\ cli.pc = "upsert" \/ (cli.pc = "hook" /\ cli.from = 0) => archives[cli.ver] # None
  /\ cli.op = "uninstall" =>
       /\ cli.pc \in {"routes", "row", "dir"} \cup Stores
       /\ cli.pc # "dir" => row # None
       /\ cli.pc = "dir" => row = None

\* What the stage of the pass says about the running plugin.
Staged ==
  /\ sync.stage = "none" => sync = NoPass
  /\ sync.stage \in {"purge", "start", "routes"} => tracked = None
  /\ sync.stage \in {"start", "routes"} => sync.seen # None
  /\ sync.stage = "routes" <=> sync.p # None

\* An attached object is the running plugin's, or that of the plugin about to run.
Owned ==
  \A o \in Objs : attached[o] # 0 =>
    \/ tracked # None /\ tracked.obj = o
    \/ sync.p # None /\ sync.p.obj = o

Base ==
  /\ row \in Row \cup {None}
  /\ archives \in [Versions -> Archive \cup {None}]
  /\ routes \subseteq Versions /\ (row # None => life # 0)
  /\ data \in [Stores -> 0..life] /\ life \in Nat /\ approved \subseteq Caps
  /\ cli \in Commands /\ sync \in Passes /\ hist \in Flags
  /\ spent \in [cmds : Nat, fails : Nat, writes : Nat, boots : Nat]
  /\ life <= spent.cmds /\ spent.cmds <= MaxCmds
  /\ tracked \in Started \cup {None}
  /\ \A p \in {tracked, sync.p} : p # None => p.life \in 1..life
  /\ router \subseteq Versions \X Objs
  /\ attached \in [Objs -> 0..life] /\ adapter \in Objs \cup {None}
  /\ memory \in 0..life /\ flying \subseteq 1..life
  /\ Placed /\ Staged /\ Owned

\* Jobs and routes lead to the running plugin or to the one that is about to run.
ReachInv ==
  /\ ~hist.unlisted =>
       adapter = IF tracked # None THEN tracked.obj ELSE IF sync.p # None THEN sync.p.obj ELSE None
  /\ \A r \in router : tracked # None /\ r[2] = tracked.obj

\* While there is a plugin, or one is being installed, what this life archived or
\* started asks for nothing but what was approved.
VetInv ==
  /\ row # None => row.caps \in approved
  /\ cli.op = "install" => cli.caps \in approved
  /\ row # None \/ cli.op = "install" =>
       /\ \A v \in Versions : archives[v] # None /\ archives[v].life = life => archives[v].caps \in approved
       /\ \A p \in {tracked, sync.p} : p # None /\ p.life = life => p.caps \in approved

\* The stores hold what this life wrote, and nothing once it was removed.
StoresInv ==
  ~hist.late /\ ~hist.half =>
    \A s \in Stores :
      /\ data[s] \in {0, life}
      /\ Passed(s) \/ (row = None /\ cli.op # "install") => data[s] = 0

\* So does the memory, and while there is no row what it holds will be purged: by the
\* pass under way or when the server sees that the plugin it runs is gone.
MemoryInv ==
  ~hist.late /\ ~hist.half /\ ~hist.unseen =>
    /\ row # None \/ cli.op # "install" => memory \in {0, life}
    /\ row = None /\ memory # 0 =>
         \/ sync.stage = "purge"
         \/ tracked # None /\ (cli.op = "install" => tracked.life # life)

\* The statements of the command, and what else happens.
Commanding ==
  \/ \E v \in Versions, c \in Caps, sig \in Sigs, force, approve \in BOOLEAN : InstallGate(v, c, sig, force, approve)
  \/ UninstallHook \/ SetEnabled \/ CommandStep \/ CmdFails
Serving == SyncStep \/ Restart
Running == \E l \in 1..MaxCmds : (\E s \in Stores : PluginWrites(l, s)) \/ CallEnds(l)

-----------------------------------------------------------------------------
(* Types.                                                                  *)

LEMMA NoneIsNothing ==
  /\ None \notin Row /\ None \notin Started /\ None \notin Objs
  /\ \A n \in Nat : None \notin [caps : Caps, life : 1..n]
  <1>1. \A n \in Nat : [caps : Caps, life : 1..n] \subseteq [caps : Caps, life : Nat] OBVIOUS
  <1> QED BY <1>1, AdminAssumption DEF Row, Started

LEMMA BaseInit == Init => Base
  BY AdminAssumption
     DEF Init, Base, Placed, Staged, Owned, Row, Archive, Commands, Passes, Flags, Started, Idle, NoPass, NoObjs, Stores

LEMMA AdminSteps ==
  ASSUME [Next]_vars
  PROVE  Commanding \/ Serving \/ Running \/ UNCHANGED vars
  BY DEF Next, Command, Commanding, Serving, Running

\* What a hook leaves in the stores: what was there, or this life.
LEMMA HookWrites ==
  ASSUME Base
  PROVE  HookStores \in [Stores -> 0..life] /\ \A s \in Stores : HookStores[s] \in {data[s], life}
  <1>1. data \in [Stores -> 0..life] /\ life \in 0..life BY DEF Base
  <1> DEFINE one == [data EXCEPT !["jobs"] = life]
             two == [one EXCEPT !["config"] = life]
  <1>2. one \in [Stores -> 0..life] /\ \A s \in Stores : one[s] \in {data[s], life} BY <1>1
  <1> HIDE DEF one
  <1>3. two \in [Stores -> 0..life] /\ \A s \in Stores : two[s] \in {data[s], life} BY <1>1, <1>2
  <1> HIDE DEF two
  <1>4. HookStores = [two EXCEPT !["sys"] = life] BY DEF HookStores, one, two
  <1> QED BY <1>1, <1>3, <1>4

LEMMA CommandingTypes == Base /\ Commanding => Base'
  <1> SUFFICES ASSUME Base, Commanding PROVE Base'
    OBVIOUS
  <1> USE NoneIsNothing
  <1>d. UNCHANGED process /\ Staged /\ Owned
    BY DEF Base, Commanding, CommandStep, InstallGate, UninstallHook, SetEnabled, CmdFails, DeleteRegistered,
           StoreArchive, RunHook, Upsert, GcOldArchives, DeleteData, DeleteRow, RemoveDir
  <1>e. ASSUME life' \in Nat, life <= life'
        PROVE  /\ tracked' \in Started \cup {None}
               /\ \A p \in {tracked', sync'.p} : p # None => p.life \in 1..life'
               /\ router' \subseteq Versions \X Objs
               /\ attached' \in [Objs -> 0..life'] /\ adapter' \in Objs \cup {None}
               /\ memory' \in 0..life' /\ flying' \subseteq 1..life'
               /\ sync' \in Passes /\ Staged' /\ Owned'
    <2>1. UNCHANGED <<tracked, router, attached, adapter, sync, memory, flying>> BY <1>d DEF process
    <2>2. /\ 0..life \subseteq 0..life' /\ 1..life \subseteq 1..life' BY <1>e DEF Base
    <2>3. attached \in [Objs -> 0..life'] BY <2>2 DEF Base
    <2>4. Staged' /\ Owned' BY <1>d, <2>1 DEF Staged, Owned, NoPass
    <2> QED BY <2>1, <2>2, <2>3, <2>4 DEF Base
  <1> DEFINE Rest == /\ row' \in Row \cup {None} /\ archives' \in [Versions -> Archive' \cup {None}]
                     /\ routes' \subseteq Versions /\ data' \in [Stores -> 0..life'] /\ life' \in Nat /\ approved' \subseteq Caps
                     /\ (row' # None => life' # 0) /\ cli' \in Commands /\ hist' \in Flags
                     /\ spent' \in [cmds : Nat, fails : Nat, writes : Nat, boots : Nat]
                     /\ life' <= spent'.cmds /\ spent'.cmds <= MaxCmds /\ life <= life' /\ Placed'
  <1>r. Rest => Base'
    <2> SUFFICES ASSUME Rest PROVE Base'
      OBVIOUS
    <2>1. life' \in Nat /\ life <= life' OBVIOUS
    <2> QED BY <2>1, <1>e DEF Base
  <1> SUFFICES Rest
    BY <1>r
  <1>1. ASSUME NEW v \in Versions, NEW c \in Caps, NEW sig \in Sigs, NEW force \in BOOLEAN, NEW approve \in BOOLEAN,
               InstallGate(v, c, sig, force, approve)
        PROVE  Rest
    <2>1. cli' = [op |-> "install", ver |-> v, caps |-> c, pc |-> IF row = None THEN "store" ELSE "routes",
                  from |-> IF row = None THEN 0 ELSE row.ver]
      BY <1>1 DEF InstallGate
    <2>2. life' \in Nat /\ life <= life' /\ life' <= life + 1 /\ (row = None => life' # 0)
      BY <1>1 DEF InstallGate, Base
    <2>3. spent' = [spent EXCEPT !.cmds = @ + 1] /\ spent.cmds < MaxCmds /\ UNCHANGED <<row, archives, routes, data, hist>>
      BY <1>1 DEF InstallGate, Count
    <2>4. approved' \subseteq Caps BY <1>1 DEF InstallGate, Base
    <2>5. cli' \in Commands BY <2>1 DEF Commands, Base, Row
    <2>6. row # None => life # 0 BY DEF Base
    <2>7. Placed' BY <2>1, <2>2, <2>3, <2>6, AdminAssumption DEF Placed, Base, Row
    <2>8. Archive \subseteq Archive' BY <2>2 DEF Archive, Base
    <2> QED BY <2>2, <2>3, <2>4, <2>5, <2>7, <2>8, AdminAssumption DEF Base
  <1>2. CASE UninstallHook
    <2>1. /\ cli' = [Idle EXCEPT !.op = "uninstall", !.pc = "routes"] /\ row # None
          /\ data' \in {data, HookStores}
          /\ spent' = [spent EXCEPT !.cmds = @ + 1] /\ spent.cmds < MaxCmds
          /\ UNCHANGED <<row, archives, routes, life, approved, hist>>
      BY <1>2 DEF UninstallHook, Count
    <2>2. data' \in [Stores -> 0..life]
      <3>1. HookStores \in [Stores -> 0..life] BY HookWrites
      <3> QED BY <2>1, <3>1 DEF Base
    <2>3. cli' \in Commands BY <2>1 DEF Commands, Idle
    <2>4. Placed' BY <2>1 DEF Placed, Idle
    <2> QED BY <2>1, <2>2, <2>3, <2>4, AdminAssumption DEF Base, Archive
  <1>3. CASE SetEnabled
    <2>1. /\ cli = Idle /\ row # None /\ row' = [row EXCEPT !.on = ~@]
          /\ spent' = [spent EXCEPT !.cmds = @ + 1] /\ spent.cmds < MaxCmds
          /\ UNCHANGED <<archives, routes, data, life, approved, cli, hist>>
      BY <1>3 DEF SetEnabled, Count
    <2>2. row' \in Row BY <2>1 DEF Base, Row
    <2>3. Placed' BY <2>1 DEF Placed, Idle
    <2> QED BY <2>1, <2>2, <2>3, AdminAssumption DEF Base, Archive
  <1>4. CASE CmdFails
    <2>1. /\ cli' = Idle /\ spent' = [spent EXCEPT !.fails = @ + 1]
          /\ hist' = [hist EXCEPT ![IF cli.op = "install" THEN "half" ELSE "cut"] = TRUE]
          /\ UNCHANGED <<row, archives, routes, data, life, approved>>
      BY <1>4 DEF CmdFails, Count, disk
    <2>2. cli' \in Commands /\ Placed' BY <2>1 DEF Commands, Idle, Placed
    <2>3. hist' \in Flags BY <2>1 DEF Base, Flags
    <2> QED BY <2>1, <2>2, <2>3 DEF Base, Archive
  <1>5. CASE DeleteRegistered
    <2>1. cli.pc = "routes" /\ cli' = [cli EXCEPT !.pc = IF cli.op = "install" THEN "hook" ELSE "jobs"] /\ routes' = {}
          /\ UNCHANGED <<row, archives, data, life, approved, hist, spent>>
      BY <1>5 DEF DeleteRegistered, CmdStep
    <2>2. cli' \in Commands BY <2>1 DEF Base, Commands
    <2>3. Placed /\ cli.op \in {"none", "install", "uninstall"} BY DEF Base, Commands
    <2>4. /\ cli'.op = cli.op /\ cli'.ver = cli.ver /\ cli'.from = cli.from /\ cli'.caps = cli.caps
          /\ cli'.pc = IF cli.op = "install" THEN "hook" ELSE "jobs"
      BY <2>1 DEF Base, Commands
    <2>5. cli.op # "none" BY <2>1, <2>3 DEF Placed, Idle
    <2>6. Placed'
      <3>1. CASE cli.op = "install"
        <4>1. /\ cli.ver \in Versions /\ cli.caps \in Caps /\ life # 0
              /\ cli.from # 0 /\ row # None /\ row.ver = cli.from
          BY <2>1, <2>3, <3>1 DEF Placed
        <4>2. /\ cli'.op = "install" /\ cli'.pc = "hook" /\ cli'.ver \in Versions /\ cli'.caps \in Caps /\ life' # 0
              /\ cli'.from # 0 /\ row' # None /\ row'.ver = cli'.from
          BY <2>1, <2>4, <3>1, <4>1
        <4> QED BY <4>2 DEF Placed
      <3>2. CASE cli.op = "uninstall"
        <4>1. row # None BY <2>1, <2>3, <3>2 DEF Placed
        <4> QED BY <2>1, <2>4, <3>2, <4>1 DEF Placed, Stores
      <3> QED BY <2>3, <2>5, <3>1, <3>2
    <2> QED BY <2>1, <2>2, <2>6 DEF Base, Archive
  <1>6. CASE StoreArchive
    <2>0. cli.op = "install" /\ cli.ver \in Versions /\ cli.caps \in Caps BY <1>6 DEF StoreArchive, Base, Placed, Commands, Idle, Stores
    <2>1. /\ cli.pc = "store" /\ UNCHANGED <<row, routes, data, life, approved>>
          /\ \/ /\ archives' = [archives EXCEPT ![cli.ver] = [caps |-> cli.caps, life |-> life]]
                /\ cli' = [cli EXCEPT !.pc = IF cli.from = 0 THEN "hook" ELSE "upsert"]
                /\ UNCHANGED <<hist, spent>>
             \/ /\ archives' = [archives EXCEPT ![cli.ver] = None] /\ cli' = Idle
                /\ hist' = [hist EXCEPT !.half = TRUE, !.wiped = @ \/ cli.from = cli.ver]
                /\ spent' = [spent EXCEPT !.fails = @ + 1]
      BY <1>6 DEF StoreArchive, Count
    <2>2. [caps |-> cli.caps, life |-> life] \in Archive BY <2>0 DEF Base, Placed, Archive
    <2>3. archives' \in [Versions -> Archive \cup {None}] BY <2>1, <2>2 DEF Base
    <2>4. cli' \in Commands BY <2>1 DEF Base, Commands, Idle
    <2>5. hist' \in Flags BY <2>1 DEF Base, Flags
    <2>6. [caps |-> cli.caps, life |-> life] # None BY <2>2 DEF Archive, Base
    <2>7. Placed'
      <3>1. CASE cli' = Idle BY <2>1, <3>1 DEF Placed, Idle
      <3>2. CASE /\ archives' = [archives EXCEPT ![cli.ver] = [caps |-> cli.caps, life |-> life]]
                 /\ cli' = [cli EXCEPT !.pc = IF cli.from = 0 THEN "hook" ELSE "upsert"]
        <4>1. archives'[cli.ver] # None BY <2>0, <2>6, <3>2 DEF Base
        <4>2. cli'.op = cli.op /\ cli'.ver = cli.ver /\ cli'.from = cli.from /\ cli'.caps = cli.caps
              /\ cli'.pc \in {"hook", "upsert"}
          BY <3>2 DEF Base, Commands
        <4>3. Placed /\ cli.pc = "store" /\ row' = row /\ life' = life BY <2>1 DEF Base
        <4>4. /\ cli.ver \in Versions /\ cli.caps \in Caps /\ life # 0
              /\ cli.from = 0 => row = None
              /\ cli.from # 0 => row # None /\ row.ver = cli.from
          BY <2>0, <4>3 DEF Placed
        <4>5. cli'.op = "install" BY <2>0, <4>2
        <4>6. cli'.pc \notin {"routes", "gc"} /\ cli'.pc \in {"store", "routes", "hook", "upsert", "gc"} BY <4>2
        <4>7. /\ cli'.ver \in Versions /\ cli'.caps \in Caps /\ life' # 0 /\ archives'[cli'.ver] # None
              /\ cli'.from = 0 => row' = None
              /\ cli'.from # 0 => row' # None /\ row'.ver = cli'.from
          BY <4>1, <4>2, <4>3, <4>4
        <4> QED BY <4>5, <4>6, <4>7 DEF Placed
      <3> QED BY <2>1, <3>1, <3>2
    <2> QED BY <2>1, <2>3, <2>4, <2>5, <2>7 DEF Base, Archive
  <1>7. CASE RunHook
    <2>0. cli.op = "install" /\ cli.ver \in Versions BY <1>7 DEF RunHook, Base, Placed, Commands, Idle, Stores
    <2>1. PICK ok \in BOOLEAN, did \in BOOLEAN :
            /\ cli.pc = "hook"
            /\ routes' = IF did THEN routes \cup {cli.ver} ELSE routes
            /\ data' = IF did THEN HookStores ELSE data
            /\ cli' = IF ~ok THEN Idle ELSE [cli EXCEPT !.pc = IF cli.from = 0 THEN "upsert" ELSE "store"]
            /\ archives' = IF ok \/ cli.from # 0 THEN archives ELSE [archives EXCEPT ![cli.ver] = None]
            /\ hist' = [hist EXCEPT !.half = @ \/ ~ok]
            /\ spent' \in {spent, [spent EXCEPT !.fails = @ + 1]}
            /\ UNCHANGED <<row, life, approved>>
      BY <1>7 DEF RunHook, Count
    <2>2. data' \in [Stores -> 0..life]
      <3>1. HookStores \in [Stores -> 0..life] BY HookWrites
      <3> QED BY <2>1, <3>1 DEF Base
    <2>3. archives' \in [Versions -> Archive \cup {None}] BY <2>1 DEF Base
    <2>4. cli' \in Commands BY <2>1 DEF Base, Commands, Idle
    <2>5. hist' \in Flags BY <2>1 DEF Base, Flags
    <2>6. routes' \subseteq Versions BY <2>0, <2>1 DEF Base
    <2>7. Placed' BY <2>0, <2>1 DEF Base, Commands, Placed, Idle, Stores
    <2>8. spent' \in [cmds : Nat, fails : Nat, writes : Nat, boots : Nat] /\ spent'.cmds = spent.cmds BY <2>1 DEF Base
    <2> QED BY <2>1, <2>2, <2>3, <2>4, <2>5, <2>6, <2>7, <2>8 DEF Base, Archive
  <1>8. CASE Upsert
    <2>0. cli.op = "install" /\ cli.ver \in Versions /\ cli.caps \in Caps BY <1>8 DEF Upsert, Base, Placed, Commands, Idle, Stores
    <2>1. /\ cli.pc = "upsert" /\ UNCHANGED <<routes, data, life, approved>>
          /\ \/ /\ row' = [ver |-> cli.ver, on |-> TRUE, caps |-> cli.caps]
                /\ cli' = IF cli.from \in {0, cli.ver} THEN Idle ELSE [cli EXCEPT !.pc = "gc"]
                /\ hist' = [hist EXCEPT !.unseen = @ \/ Unseen, !.same = @ \/ SameVersion]
                /\ UNCHANGED <<archives, spent>>
             \/ /\ archives' = [archives EXCEPT ![cli.ver] = None] /\ cli' = Idle /\ row' = row
                /\ hist' = [hist EXCEPT !.half = TRUE, !.wiped = @ \/ cli.from = cli.ver]
                /\ spent' = [spent EXCEPT !.fails = @ + 1]
      BY <1>8 DEF Upsert, Count
    <2>6. [ver |-> cli.ver, on |-> TRUE, caps |-> cli.caps] \in Row BY <2>0 DEF Row
    <2>2. row' \in Row \cup {None}
      <3>1. row' \in {row, [ver |-> cli.ver, on |-> TRUE, caps |-> cli.caps]} BY <2>1
      <3> QED BY <2>6, <3>1 DEF Base
    <2>3. archives' \in [Versions -> Archive \cup {None}] BY <2>1 DEF Base
    <2>4. cli' \in Commands BY <2>1 DEF Base, Commands, Idle
    <2>5. hist' \in Flags
      <3>1. Unseen \in BOOLEAN /\ SameVersion \in BOOLEAN BY DEF Unseen, SameVersion
      <3>2. /\ [hist EXCEPT !.unseen = @ \/ Unseen, !.same = @ \/ SameVersion] \in Flags
            /\ [hist EXCEPT !.half = TRUE, !.wiped = @ \/ cli.from = cli.ver] \in Flags
        BY <3>1 DEF Base, Flags
      <3> QED BY <2>1, <3>2
    <2>9. [ver |-> cli.ver, on |-> TRUE, caps |-> cli.caps] # None BY <2>6
    <2>7. Placed' BY <2>9, <2>0, <2>1, <2>6 DEF Base, Commands, Placed, Idle, Stores
    <2>8. life # 0 BY <2>0 DEF Base, Placed
    <2> QED BY <2>1, <2>2, <2>3, <2>4, <2>5, <2>7, <2>8 DEF Base, Archive
  <1>9. CASE GcOldArchives
    <2>0. cli.op = "install" /\ cli.ver \in Versions BY <1>9 DEF GcOldArchives, Base, Placed, Commands, Idle, Stores
    <2>1. /\ cli' = Idle /\ UNCHANGED <<row, routes, data, life, approved, hist, spent>>
          /\ archives' = [v \in Versions |-> IF v \in {cli.ver, cli.from} THEN archives[v] ELSE None]
      BY <1>9 DEF GcOldArchives
    <2>2. archives' \in [Versions -> Archive \cup {None}] BY <2>1 DEF Base
    <2>3. cli' \in Commands /\ Placed' BY <2>1 DEF Commands, Idle, Placed
    <2> QED BY <2>1, <2>2, <2>3 DEF Base, Archive
  <1>10. CASE DeleteData
    <2>1. /\ cli.pc \in Stores /\ cli' = [cli EXCEPT !.pc = After[cli.pc]] /\ data' = [data EXCEPT ![cli.pc] = 0]
          /\ UNCHANGED <<row, archives, routes, life, approved, hist, spent>>
      BY <1>10 DEF DeleteData
    <2>2. After[cli.pc] \in {"config", "redis", "sys", "row"} BY <2>1 DEF After, Stores
    <2>3. data' \in [Stores -> 0..life] BY <2>1 DEF Base
    <2>4. cli' \in Commands BY <2>1, <2>2 DEF Base, Commands
    <2>5. Placed' BY <2>1, <2>2 DEF Base, Commands, Placed, Idle, Stores
    <2> QED BY <2>1, <2>3, <2>4, <2>5 DEF Base, Archive
  <1>11. CASE DeleteRow
    <2>1. /\ cli.pc = "row" /\ cli' = [cli EXCEPT !.pc = "dir"] /\ row' = None /\ approved' = {}
          /\ hist' = [hist EXCEPT !.unseen = @ \/ (tracked = None /\ sync.stage # "purge" /\ memory # 0)]
          /\ UNCHANGED <<archives, routes, data, life, spent>>
      BY <1>11 DEF DeleteRow, CmdStep
    <2>2. cli' \in Commands BY <2>1 DEF Base, Commands
    <2>3. hist' \in Flags BY <2>1 DEF Base, Flags
    <2>4. Placed' BY <2>1 DEF Base, Commands, Placed, Idle, Stores
    <2> QED BY <2>1, <2>2, <2>3, <2>4 DEF Base, Archive
  <1>12. CASE RemoveDir
    <2>1. /\ cli' = Idle /\ archives' = [v \in Versions |-> None]
          /\ UNCHANGED <<row, routes, data, life, approved, hist, spent>>
      BY <1>12 DEF RemoveDir
    <2>2. cli' \in Commands /\ Placed' BY <2>1 DEF Commands, Idle, Placed
    <2> QED BY <2>1, <2>2 DEF Base, Archive
  <1> QED BY <1>1, <1>2, <1>3, <1>4, <1>5, <1>6, <1>7, <1>8, <1>9, <1>10, <1>11, <1>12 DEF Commanding, CommandStep

LEMMA ServingTypes == Base /\ Serving => Base'
  <1> SUFFICES ASSUME Base, Serving PROVE Base'
    OBVIOUS
  <1> USE NoneIsNothing
  <1>d. UNCHANGED <<row, archives, routes, life, approved, cli>> /\ Placed
    BY DEF Base, Serving, SyncStep, Restart, SyncRead, StopOne, KeepRunning, PurgeCacheIfUninstalled, StartOne, MountRoutes, disk
  <1>p. Placed' BY <1>d DEF Placed
  <1> DEFINE Rest == /\ data' \in [Stores -> 0..life] /\ hist' \in Flags
                     /\ spent' \in [cmds : Nat, fails : Nat, writes : Nat, boots : Nat] /\ spent'.cmds = spent.cmds
                     /\ tracked' \in Started \cup {None} /\ sync' \in Passes
                     /\ \A p \in {tracked', sync'.p} : p # None => p.life \in 1..life
                     /\ router' \subseteq Versions \X Objs
                     /\ attached' \in [Objs -> 0..life] /\ adapter' \in Objs \cup {None}
                     /\ memory' \in 0..life /\ flying' \subseteq 1..life /\ Staged' /\ Owned'
  <1>r. Rest => Base' BY <1>d, <1>p DEF Base, Archive
  <1> SUFFICES Rest
    BY <1>r
  <1>t. /\ NoPass \in Passes /\ NoObjs \in [Objs -> 0..life] /\ life \in Nat
        /\ NoPass.stage = "none" /\ NoPass.p = None /\ NoPass.seen = None
    BY DEF NoPass, Passes, NoObjs, Base
  <1>1. CASE Restart
    <2>1. /\ tracked' = None /\ router' = {} /\ attached' = NoObjs /\ adapter' = None /\ sync' = NoPass
          /\ memory' = 0 /\ flying' = {} /\ spent' = [spent EXCEPT !.boots = @ + 1] /\ UNCHANGED <<data, hist>>
      BY <1>1 DEF Restart, Count, disk
    <2>2. Staged' /\ Owned' BY <1>t, <2>1 DEF Staged, Owned, NoObjs
    <2> QED BY <1>t, <2>1, <2>2 DEF Base
  <1>2. CASE SyncRead
    <2>1. /\ sync = NoPass /\ sync' = [stage |-> "stop", p |-> None, seen |-> IF row # None /\ row.on THEN row ELSE None]
          /\ UNCHANGED <<data, tracked, router, attached, adapter, memory, flying, hist, spent>>
      BY <1>2 DEF SyncRead, disk
    <2>2. sync' \in Passes BY <2>1 DEF Base, Passes
    <2>3. Staged' /\ Owned' BY <1>t, <2>1 DEF Staged, Base, Owned
    <2> QED BY <1>t, <2>1, <2>2, <2>3 DEF Base
  <1>3. CASE StopOne
    <2>1. /\ sync.stage = "stop" /\ tracked # None /\ router' = {r \in router : r[2] # tracked.obj} /\ adapter' = None
          /\ attached' = [attached EXCEPT ![tracked.obj] = 0]
          /\ flying' \in {flying, flying \cup {tracked.life}}
          /\ tracked' = None /\ sync' = [sync EXCEPT !.stage = "purge"]
          /\ UNCHANGED <<data, memory, hist, spent>>
      BY <1>3 DEF StopOne, Stale, Unmount, disk
    <2>2. sync' \in Passes /\ sync'.p = sync.p /\ sync'.seen = sync.seen /\ sync'.stage = "purge" BY <2>1 DEF Base, Passes
    <2>3. tracked.obj \in Objs /\ tracked.life \in 1..life BY <2>1 DEF Base, Started
    <2>4. attached' \in [Objs -> 0..life] /\ \A o \in Objs : attached'[o] # 0 => attached[o] # 0 /\ o # tracked.obj
      BY <1>t, <2>1, <2>3 DEF Base
    <2>5. sync.p = None BY <2>1 DEF Base, Staged
    <2>6. Staged' BY <2>1, <2>2, <2>5 DEF Staged, Base
    <2>7. Owned' BY <2>1, <2>4, <2>5 DEF Owned, Base
    <2> QED BY <2>1, <2>2, <2>3, <2>4, <2>5, <2>6, <2>7 DEF Base
  <1>4. CASE KeepRunning
    <2>1. /\ sync.stage = "stop" /\ UNCHANGED <<data, tracked, router, attached, adapter, memory, flying, hist, spent>>
          /\ sync' = NoPass \/ (tracked = None /\ sync.seen # None /\ sync' = [sync EXCEPT !.stage = "start"])
      BY <1>4 DEF KeepRunning, Stale, StopStage, disk
    <2>2. sync.p = None BY <2>1 DEF Base, Staged
    <2>3. sync' \in Passes BY <1>t, <2>1 DEF Base, Passes
    <2>4. sync'.p = None /\ (sync'.stage = "none" => sync' = NoPass) /\ sync'.stage \in {"none", "start"}
          /\ (sync'.stage = "start" => tracked = None /\ sync'.seen # None)
      BY <1>t, <2>1, <2>2 DEF Base, Passes
    <2>5. Staged' /\ Owned' BY <2>1, <2>2, <2>4 DEF Staged, Owned, Base
    <2> QED BY <1>t, <2>1, <2>3, <2>4, <2>5 DEF Base
  <1>5. CASE PurgeCacheIfUninstalled
    <2>1. /\ sync.stage = "purge" /\ sync' = IF sync.seen = None THEN NoPass ELSE [sync EXCEPT !.stage = "start"]
          /\ memory' \in {0, memory} /\ data' \in {data, [data EXCEPT !["redis"] = 0]}
          /\ hist' \in {hist, [hist EXCEPT !.unseen = TRUE]} /\ spent' \in {spent, [spent EXCEPT !.fails = @ + 1]}
          /\ UNCHANGED <<tracked, router, attached, adapter, flying>>
      BY <1>5 DEF PurgeCacheIfUninstalled, AfterPurge, Count
    <2>2. sync.p = None /\ tracked = None BY <2>1 DEF Base, Staged
    <2>3. sync' \in Passes BY <1>t, <2>1 DEF Base, Passes
    <2>4. sync'.p = None /\ (sync'.stage = "none" => sync' = NoPass) /\ sync'.stage \in {"none", "start"}
          /\ (sync'.stage = "start" => sync'.seen # None)
      BY <1>t, <2>1, <2>2 DEF Base, Passes
    <2>5. Staged' /\ Owned' BY <2>1, <2>2, <2>4 DEF Staged, Owned, Base
    <2>6. data' \in [Stores -> 0..life] BY <1>t, <2>1 DEF Base
    <2>7. hist' \in Flags BY <2>1 DEF Base, Flags
    <2>8. spent' \in [cmds : Nat, fails : Nat, writes : Nat, boots : Nat] /\ spent'.cmds = spent.cmds BY <2>1 DEF Base
    <2> QED BY <1>t, <2>1, <2>2, <2>3, <2>4, <2>5, <2>6, <2>7, <2>8 DEF Base
  <1>6. CASE StartOne
    <2>0. /\ sync.stage = "start" /\ UNCHANGED <<data, tracked, router, memory, flying, hist>>
          /\ tracked = None /\ sync.p = None /\ sync.seen \in Row /\ sync.seen # None
      BY <1>6 DEF StartOne, Base, Staged, Passes, disk
    <2>1. \A o \in Objs : attached[o] = 0 BY <2>0 DEF Base, Owned
    <2>2. NewObject \in Objs /\ attached[NewObject] = 0 /\ adapter # NewObject
      <3>1. \E o \in Objs : attached[o] = 0 /\ adapter # o BY <2>1, AdminAssumption
      <3> QED BY <3>1 DEF NewObject
    <2>3. CASE /\ archives[sync.seen.ver] # None
               /\ attached' = [attached EXCEPT ![NewObject] = archives[sync.seen.ver].life]
               /\ RegisterPluginJob(NewObject) /\ spent' = spent
               /\ sync' = [sync EXCEPT !.stage = "routes",
                             !.p = [obj |-> NewObject, ver |-> sync.seen.ver, life |-> archives[sync.seen.ver].life,
                                    caps |-> archives[sync.seen.ver].caps]]
      <3>1. sync.seen.ver \in Versions BY <2>0 DEF Row
      <3>2. archives[sync.seen.ver] \in Archive BY <2>3, <3>1 DEF Base
      <3>3. archives[sync.seen.ver].life \in 1..life /\ archives[sync.seen.ver].caps \in Caps BY <3>2 DEF Archive
      <3>4. sync'.p \in Started /\ sync'.p.obj = NewObject /\ sync'.p.life \in 1..life
            /\ sync'.stage = "routes" /\ sync'.seen = sync.seen
        BY <1>t, <2>2, <2>3, <3>1, <3>3 DEF Base, Passes, Started
      <3>5. sync' \in Passes BY <2>3, <3>4 DEF Base, Passes
      <3>6. attached' \in [Objs -> 0..life] BY <1>t, <2>2, <2>3, <3>3 DEF Base
      <3>7. \A o \in Objs : attached'[o] # 0 => o = NewObject BY <2>1, <2>2, <2>3 DEF Base
      <3>8. Staged' /\ Owned' BY <2>0, <3>4, <3>7 DEF Staged, Owned
      <3>9. adapter' \in Objs \cup {None} BY <2>2, <2>3 DEF RegisterPluginJob, Base
      <3> QED BY <2>0, <2>3, <3>4, <3>5, <3>6, <3>8, <3>9 DEF Base
    <2>4. CASE sync' = NoPass /\ UNCHANGED <<attached, adapter>> /\ spent' \in {spent, [spent EXCEPT !.fails = @ + 1]}
      <3>1. Staged' /\ Owned' BY <1>t, <2>0, <2>1, <2>4 DEF Staged, Owned
      <3>2. spent' \in [cmds : Nat, fails : Nat, writes : Nat, boots : Nat] /\ spent'.cmds = spent.cmds BY <2>4 DEF Base
      <3> QED BY <1>t, <2>0, <2>4, <3>1, <3>2 DEF Base
    <2> QED BY <1>6, <2>3, <2>4 DEF StartOne, Count
  <1>7. CASE MountRoutes
    <2>0. sync.stage = "routes" /\ sync' = NoPass /\ UNCHANGED <<data, adapter, memory, flying>>
          /\ tracked = None /\ sync.p # None
      BY <1>7 DEF MountRoutes, Base, Staged, disk
    <2>1. sync.p \in Started /\ sync.p.life \in 1..life /\ sync.p.obj \in Objs BY <2>0 DEF Base, Passes, Started
    <2>2. CASE /\ router' = router \cup {<<v, sync.p.obj>> : v \in routes} /\ tracked' = sync.p
               /\ UNCHANGED <<attached, hist, spent>>
      <3>1. Staged' /\ Owned' BY <1>t, <2>0, <2>2 DEF Staged, Owned, Base
      <3>2. router' \subseteq Versions \X Objs BY <2>1, <2>2 DEF Base
      <3> QED BY <1>t, <2>0, <2>1, <2>2, <3>1, <3>2 DEF Base
    <2>3. CASE /\ attached' = [attached EXCEPT ![sync.p.obj] = 0] /\ hist' = [hist EXCEPT !.unlisted = TRUE]
               /\ spent' = [spent EXCEPT !.fails = @ + 1] /\ UNCHANGED <<router, tracked>>
      <3>1. attached' \in [Objs -> 0..life] /\ \A o \in Objs : attached'[o] # 0 => attached[o] # 0 /\ o # sync.p.obj
        BY <1>t, <2>1, <2>3 DEF Base
      <3>2. Staged' /\ Owned' BY <1>t, <2>0, <2>3, <3>1 DEF Staged, Owned, Base
      <3>3. hist' \in Flags BY <2>3 DEF Base, Flags
      <3> QED BY <1>t, <2>0, <2>3, <3>1, <3>2, <3>3 DEF Base
    <2> QED BY <1>7, <2>2, <2>3 DEF MountRoutes, Count
  <1> QED BY <1>1, <1>2, <1>3, <1>4, <1>5, <1>6, <1>7 DEF Serving, SyncStep

LEMMA RunningTypes == Base /\ (Running \/ UNCHANGED vars) => Base'
  <1> SUFFICES ASSUME Base, Running \/ UNCHANGED vars PROVE Base'
    OBVIOUS
  <1>1. ASSUME NEW l \in 1..MaxCmds, NEW s \in Stores, PluginWrites(l, s) PROVE Base'
    <2>1. /\ l \in flying \cup {attached[o] : o \in Objs} /\ data' = [data EXCEPT ![s] = l]
          /\ memory' = IF s = "redis" THEN l ELSE memory
          /\ hist' = [hist EXCEPT !.late = @ \/ Late(l, s)] /\ spent' = [spent EXCEPT !.writes = @ + 1]
          /\ UNCHANGED <<row, archives, routes, life, approved, cli, tracked, router, attached, adapter, sync, flying>>
      BY <1>1 DEF PluginWrites, Count
    <2>2. l \in 0..life BY <2>1 DEF Base
    <2>3. data' \in [Stores -> 0..life] BY <2>1, <2>2 DEF Base
    <2>4. hist' \in Flags
      <3>1. Late(l, s) \in BOOLEAN BY DEF Late
      <3> QED BY <2>1, <3>1 DEF Base, Flags
    <2>5. Placed' /\ Staged' /\ Owned' BY <2>1 DEF Base, Placed, Staged, Owned
    <2> QED BY <2>1, <2>2, <2>3, <2>4, <2>5 DEF Base, Archive
  <1>2. ASSUME NEW l \in 1..MaxCmds, CallEnds(l) PROVE Base'
    <2>1. /\ flying' \subseteq flying
          /\ UNCHANGED <<row, archives, routes, data, life, approved, cli, tracked, router, attached, adapter, sync, memory, hist, spent>>
      BY <1>2 DEF CallEnds, disk
    <2>2. Placed' /\ Staged' /\ Owned' BY <2>1 DEF Base, Placed, Staged, Owned
    <2> QED BY <2>1, <2>2 DEF Base, Archive
  <1>3. CASE UNCHANGED vars
    <2>1. /\ UNCHANGED <<row, archives, routes, data, life, approved, cli>>
          /\ UNCHANGED <<tracked, router, attached, adapter, sync, memory, flying, hist, spent>>
      BY <1>3 DEF vars, disk, process
    <2>2. Placed' /\ Staged' /\ Owned' BY <2>1 DEF Base, Placed, Staged, Owned
    <2> QED BY <2>1, <2>2 DEF Base, Archive
  <1> QED BY <1>1, <1>2, <1>3 DEF Running

LEMMA BaseStep == Base /\ [Next]_vars => Base'
  BY AdminSteps, CommandingTypes, ServingTypes, RunningTypes

-----------------------------------------------------------------------------
(* Where jobs and requests go.                                             *)

\* The command touches nothing of the server process.
LEMMA CommandingElsewhere ==
  ASSUME Commanding
  PROVE  UNCHANGED <<tracked, router, attached, adapter, sync, memory, flying>>
  BY DEF Commanding, CommandStep, InstallGate, UninstallHook, SetEnabled, CmdFails, DeleteRegistered,
         StoreArchive, RunHook, Upsert, GcOldArchives, DeleteData, DeleteRow, RemoveDir, process

\* Nor the running plugin and the server anything of the command's.
LEMMA ServerElsewhere ==
  ASSUME Serving \/ Running \/ UNCHANGED vars
  PROVE  UNCHANGED <<row, archives, routes, life, approved, cli>>
  BY DEF Serving, SyncStep, Restart, SyncRead, StopOne, KeepRunning, PurgeCacheIfUninstalled, StartOne, MountRoutes,
         Running, PluginWrites, CallEnds, vars, disk

\* What happened is not forgotten.
LEMMA FlagsStay ==
  ASSUME Base, [Next]_vars
  PROVE  /\ hist.half => hist'.half
         /\ hist.wiped => hist'.wiped
         /\ hist.unseen => hist'.unseen
         /\ hist.late => hist'.late
         /\ hist.unlisted => hist'.unlisted
         /\ Commanding => hist'.unlisted = hist.unlisted
  <1>1. hist \in Flags BY DEF Base
  <1>2. CASE Commanding
    <2>1. ASSUME CmdFails PROVE \E f \in {"half", "cut"} : hist' = [hist EXCEPT ![f] = TRUE]
      BY <2>1 DEF CmdFails
    <2>2. ASSUME Commanding, ~CmdFails
          PROVE  \/ hist' = hist
                 \/ \E b \in BOOLEAN : hist' = [hist EXCEPT !.half = TRUE, !.wiped = @ \/ b]
                 \/ \E b \in BOOLEAN : hist' = [hist EXCEPT !.half = @ \/ b]
                 \/ \E a, b \in BOOLEAN : hist' = [hist EXCEPT !.unseen = @ \/ a, !.same = @ \/ b]
                 \/ \E b \in BOOLEAN : hist' = [hist EXCEPT !.unseen = @ \/ b]
      <3>0. /\ (cli.from = cli.ver) \in BOOLEAN /\ Unseen \in BOOLEAN /\ SameVersion \in BOOLEAN
            /\ (tracked = None /\ sync.stage # "purge" /\ memory # 0) \in BOOLEAN
        BY DEF Unseen, SameVersion
      <3>1. ASSUME StoreArchive \/ Upsert
            PROVE  \/ hist' = hist
                   \/ hist' = [hist EXCEPT !.half = TRUE, !.wiped = @ \/ cli.from = cli.ver]
                   \/ hist' = [hist EXCEPT !.unseen = @ \/ Unseen, !.same = @ \/ SameVersion]
        BY <3>1 DEF StoreArchive, Upsert
      <3>2. ASSUME RunHook PROVE \E b \in BOOLEAN : hist' = [hist EXCEPT !.half = @ \/ b]
        <4>1. PICK ok \in BOOLEAN : hist' = [hist EXCEPT !.half = @ \/ ~ok] BY <3>2 DEF RunHook
        <4> QED BY <4>1
      <3>3. ASSUME DeleteRow
            PROVE  hist' = [hist EXCEPT !.unseen = @ \/ (tracked = None /\ sync.stage # "purge" /\ memory # 0)]
        BY <3>3 DEF DeleteRow
      <3>4. ASSUME Commanding, ~CmdFails, ~StoreArchive, ~Upsert, ~RunHook, ~DeleteRow PROVE hist' = hist
        BY <3>4 DEF Commanding, CommandStep, InstallGate, UninstallHook, SetEnabled, DeleteRegistered, GcOldArchives,
                    DeleteData, RemoveDir
      <3> QED BY <2>2, <3>0, <3>1, <3>2, <3>3, <3>4
    <2> QED BY <1>1, <1>2, <2>1, <2>2 DEF Flags
  <1>3. CASE Serving \/ Running \/ UNCHANGED vars
    <2>1. \/ hist' \in {hist, [hist EXCEPT !.unseen = TRUE], [hist EXCEPT !.unlisted = TRUE]}
          \/ \E b \in BOOLEAN : hist' = [hist EXCEPT !.late = @ \/ b]
      <3>1. ASSUME NEW l, NEW s, PluginWrites(l, s) PROVE \E b \in BOOLEAN : hist' = [hist EXCEPT !.late = @ \/ b]
        <4>1. Late(l, s) \in BOOLEAN BY DEF Late
        <4> QED BY <3>1, <4>1 DEF PluginWrites
      <3> QED BY <1>3, <3>1 DEF Serving, SyncStep, Restart, SyncRead, StopOne, KeepRunning, PurgeCacheIfUninstalled,
                                StartOne, MountRoutes, Running, CallEnds, vars
    <2> QED BY <1>1, <1>2, <2>1 DEF Flags
  <1> QED BY <1>2, <1>3, AdminSteps

LEMMA ReachStep == Base /\ ReachInv /\ [Next]_vars => ReachInv'
  <1> SUFFICES ASSUME Base, ReachInv, [Next]_vars PROVE ReachInv'
    OBVIOUS
  <1> USE NoneIsNothing
  <1>1. CASE Commanding
    BY <1>1, CommandingElsewhere, FlagsStay DEF ReachInv
  <1>2. CASE Serving
    <2>0. NoPass.p = None /\ sync \in Passes BY DEF NoPass, Base
    <2>1. CASE Restart BY <2>0, <2>1 DEF Restart, ReachInv
    <2>2. CASE SyncRead
      <3>1. sync.p = None /\ sync'.p = None /\ UNCHANGED <<tracked, router, adapter, hist>>
        BY <2>0, <2>2 DEF SyncRead
      <3> QED BY <3>1 DEF ReachInv
    <2>3. CASE StopOne
      <3>1. /\ sync.stage = "stop" /\ tracked # None /\ router' = {r \in router : r[2] # tracked.obj}
            /\ adapter' = None /\ tracked' = None /\ sync' = [sync EXCEPT !.stage = "purge"]
        BY <2>3 DEF StopOne, Stale, Unmount
      <3>2. sync'.p = None BY <2>0, <3>1 DEF Base, Staged, Passes
      <3> QED BY <3>1, <3>2 DEF ReachInv
    <2>4. CASE KeepRunning
      <3>1. /\ sync.stage = "stop" /\ UNCHANGED <<tracked, router, adapter, hist>>
            /\ sync' = NoPass \/ sync' = [sync EXCEPT !.stage = StopStage]
        BY <2>4 DEF KeepRunning
      <3>2. sync.p = None /\ sync'.p = None BY <2>0, <3>1 DEF Base, Staged, Passes
      <3> QED BY <3>1, <3>2 DEF ReachInv
    <2>5. CASE PurgeCacheIfUninstalled
      <3>1. /\ sync.stage = "purge" /\ UNCHANGED <<tracked, router, adapter>>
            /\ sync' = NoPass \/ sync' = [sync EXCEPT !.stage = "start"]
        BY <2>5 DEF PurgeCacheIfUninstalled, AfterPurge
      <3>2. sync.p = None /\ sync'.p = None BY <2>0, <3>1 DEF Base, Staged, Passes
      <3> QED BY <3>1, <3>2, FlagsStay DEF ReachInv
    <2>6. CASE StartOne
      <3>1. sync.stage = "start" /\ UNCHANGED <<tracked, router, hist>> BY <2>6 DEF StartOne
      <3>2. tracked = None /\ sync.p = None BY <3>1 DEF Base, Staged
      <3>3. CASE /\ RegisterPluginJob(NewObject)
                 /\ sync' = [sync EXCEPT !.stage = "routes",
                               !.p = [obj |-> NewObject, ver |-> sync.seen.ver, life |-> archives[sync.seen.ver].life,
                                      caps |-> archives[sync.seen.ver].caps]]
                 /\ archives[sync.seen.ver] # None
        <4>1. sync'.p.obj = NewObject BY <2>0, <3>3 DEF Passes
        <4>2. sync'.p # None
          <5>1. Base' BY <2>6, ServingTypes DEF Serving, SyncStep
          <5>2. sync'.stage = "routes" BY <2>0, <3>3 DEF Passes
          <5> QED BY <5>1, <5>2 DEF Base, Staged
        <4> QED BY <3>1, <3>2, <3>3, <4>1, <4>2 DEF ReachInv, RegisterPluginJob
      <3>4. CASE sync' = NoPass /\ UNCHANGED adapter BY <2>0, <3>1, <3>2, <3>4 DEF ReachInv
      <3> QED BY <2>6, <3>3, <3>4 DEF StartOne
    <2>7. CASE MountRoutes
      <3>1. sync.stage = "routes" /\ sync' = NoPass /\ adapter' = adapter BY <2>7 DEF MountRoutes
      <3>2. tracked = None /\ sync.p # None /\ router = {} BY <3>1 DEF Base, Staged, ReachInv
      <3>3. CASE router' = router \cup {<<v, sync.p.obj>> : v \in routes} /\ tracked' = sync.p /\ hist' = hist
        BY <2>0, <3>1, <3>2, <3>3 DEF ReachInv
      <3>4. CASE hist' = [hist EXCEPT !.unlisted = TRUE] /\ UNCHANGED <<router, tracked>>
        <4>1. hist'.unlisted BY <3>4 DEF Base, Flags
        <4> QED BY <3>2, <3>4, <4>1 DEF ReachInv
      <3> QED BY <2>7, <3>3, <3>4 DEF MountRoutes
    <2> QED BY <1>2, <2>1, <2>2, <2>3, <2>4, <2>5, <2>6, <2>7 DEF Serving, SyncStep
  <1>3. CASE Running \/ UNCHANGED vars
    <2>1. UNCHANGED <<tracked, router, adapter, sync>>
      BY <1>3 DEF Running, PluginWrites, CallEnds, vars, process
    <2> QED BY <2>1, FlagsStay DEF ReachInv
  <1> QED BY <1>1, <1>2, <1>3, AdminSteps

-----------------------------------------------------------------------------
(* What is on disk.                                                        *)

LEMMA ArchiveStep == Base /\ ArchiveStartable /\ [Next]_vars => ArchiveStartable'
  <1> SUFFICES ASSUME Base, ArchiveStartable, [Next]_vars, row' # None, ~hist'.wiped PROVE archives'[row'.ver] # None
    BY DEF ArchiveStartable
  <1> USE NoneIsNothing
  <1>0. ~hist.wiped /\ Placed /\ (row # None => archives[row.ver] # None) /\ archives \in [Versions -> Archive \cup {None}]
    BY FlagsStay DEF ArchiveStartable, Base
  <1>1. CASE \E v \in Versions, c \in Caps, sig \in Sigs, force, approve \in BOOLEAN : InstallGate(v, c, sig, force, approve)
    BY <1>0, <1>1 DEF InstallGate
  <1>2. CASE UninstallHook \/ CmdFails \/ DeleteRegistered \/ DeleteData \/ Serving \/ Running \/ UNCHANGED vars
    <2>1. UNCHANGED <<row, archives>>
      BY <1>2, ServerElsewhere DEF UninstallHook, CmdFails, DeleteRegistered, DeleteData, disk
    <2> QED BY <1>0, <2>1
  <1>3. CASE SetEnabled
    <2>1. row # None /\ row' = [row EXCEPT !.on = ~@] /\ archives' = archives BY <1>3 DEF SetEnabled
    <2> QED BY <1>0, <2>1 DEF Base, Row
  <1>4. ASSUME cli.op = "install",
               archives' = [archives EXCEPT ![cli.ver] = None], row' = row,
               hist' = [hist EXCEPT !.half = TRUE, !.wiped = @ \/ cli.from = cli.ver],
               cli.pc # "gc"
        PROVE  archives'[row'.ver] # None
    <2>1. cli.from # cli.ver BY <1>4 DEF Base, Flags
    <2>2. row.ver = cli.from BY <1>0, <1>4 DEF Placed
    <2>3. row.ver \in Versions BY <1>4 DEF Base, Row
    <2> QED BY <1>0, <1>4, <2>1, <2>2, <2>3
  <1>5. CASE StoreArchive
    <2>0. cli.op = "install" /\ cli.ver \in Versions /\ cli.caps \in Caps /\ row' = row /\ cli.pc = "store"
      BY <1>5 DEF StoreArchive, Base, Placed, Commands, Idle, Stores
    <2>1. CASE archives' = [archives EXCEPT ![cli.ver] = [caps |-> cli.caps, life |-> life]]
      <3>1. [caps |-> cli.caps, life |-> life] # None BY <1>0, <2>0 DEF Base, Placed
      <3>2. row.ver \in Versions BY <2>0 DEF Base, Row
      <3> QED BY <1>0, <2>0, <2>1, <3>1, <3>2
    <2> QED BY <1>4, <1>5, <2>0, <2>1 DEF StoreArchive
  <1>6. CASE RunHook
    <2>0. cli.op = "install" /\ cli.pc = "hook" /\ row' = row BY <1>6 DEF RunHook, Base, Placed, Commands, Idle, Stores
    <2>1. cli.from # 0 BY <1>0, <2>0 DEF Placed
    <2>2. archives' = archives BY <1>6, <2>1 DEF RunHook
    <2> QED BY <1>0, <2>0, <2>2
  <1>7. CASE Upsert
    <2>0. cli.op = "install" /\ cli.pc = "upsert" BY <1>7 DEF Upsert, Base, Placed, Commands, Idle, Stores
    <2>1. archives[cli.ver] # None BY <1>0, <2>0 DEF Placed
    <2>2. CASE row' = [ver |-> cli.ver, on |-> TRUE, caps |-> cli.caps] /\ archives' = archives BY <2>1, <2>2
    <2> QED BY <1>4, <1>7, <2>0, <2>2 DEF Upsert
  <1>8. CASE GcOldArchives
    <2>0. cli.op = "install" /\ cli.pc = "gc" /\ row' = row BY <1>8 DEF GcOldArchives, Base, Placed, Commands, Idle, Stores
    <2>1. row.ver = cli.ver /\ row.ver \in Versions BY <1>0, <2>0 DEF Placed, Base, Row
    <2>2. archives'[row.ver] = archives[row.ver] BY <1>8, <2>1 DEF GcOldArchives
    <2> QED BY <1>0, <2>0, <2>2
  <1>9. CASE DeleteRow BY <1>9 DEF DeleteRow
  <1>10. CASE RemoveDir
    <2>0. cli.op = "uninstall" /\ cli.pc = "dir" /\ row' = row BY <1>10 DEF RemoveDir, Base, Placed, Commands, Idle, Stores
    <2> QED BY <1>0, <2>0 DEF Placed
  <1> QED BY <1>1, <1>2, <1>3, <1>5, <1>6, <1>7, <1>8, <1>9, <1>10, AdminSteps DEF Commanding, CommandStep

-----------------------------------------------------------------------------
(* What was approved.                                                      *)

LEMMA VetStep == Base /\ VetInv /\ [Next]_vars => VetInv'
  <1> SUFFICES ASSUME Base, VetInv, [Next]_vars PROVE VetInv'
    OBVIOUS
  <1> USE NoneIsNothing
  <1>a. /\ archives \in [Versions -> Archive \cup {None}] /\ Placed /\ life \in Nat
        /\ \A v \in Versions : archives[v] # None => archives[v].life <= life
        /\ \A p \in {tracked, sync.p} : p # None => p.life <= life
    BY DEF Base, Archive
  <1>1. CASE Commanding
    <2>0. UNCHANGED <<tracked, sync>> BY <1>1, CommandingElsewhere
    <2>1. ASSUME NEW v \in Versions, NEW c \in Caps, NEW sig \in Sigs, NEW force \in BOOLEAN, NEW approve \in BOOLEAN,
                 InstallGate(v, c, sig, force, approve)
          PROVE  VetInv'
      <3>1. /\ cli' = [op |-> "install", ver |-> v, caps |-> c, pc |-> IF row = None THEN "store" ELSE "routes",
                       from |-> IF row = None THEN 0 ELSE row.ver]
            /\ life' = IF row = None THEN life + 1 ELSE life
            /\ approved' = IF row = None THEN {c} ELSE approved \cup {x \in {c} : approve}
            /\ UNCHANGED <<row, archives>> /\ (CapsChanged(c) => approve)
        BY <2>1 DEF InstallGate
      <3>2. CASE row = None
        <4>1. life' = life + 1 /\ approved' = {c} /\ cli'.caps = c BY <3>1, <3>2
        <4>2. /\ \A w \in Versions : archives[w] # None => archives[w].life # life'
              /\ \A p \in {tracked, sync.p} : p # None => p.life # life'
          <5>1. ASSUME NEW w \in Versions, archives[w] # None PROVE archives[w].life # life'
            <6>1. archives[w] \in Archive BY <1>a, <5>1
            <6>2. archives[w].life \in 1..life BY <6>1 DEF Archive
            <6> QED BY <1>a, <4>1, <6>2
          <5>2. ASSUME NEW p \in {tracked, sync.p}, p # None PROVE p.life # life'
            <6>1. p.life \in 1..life BY <5>2 DEF Base
            <6> QED BY <1>a, <4>1, <6>1
          <5> QED BY <5>1, <5>2
        <4> QED BY <2>0, <3>1, <3>2, <4>1, <4>2 DEF VetInv
      <3>3. CASE row # None
        <4>1. life' = life /\ approved \subseteq approved' /\ cli'.caps = c BY <3>1, <3>3
        <4>2. c \in approved'
          <5>1. CASE approve BY <3>1, <3>3, <5>1
          <5>2. CASE ~approve BY <3>1, <3>3, <4>1, <5>2 DEF CapsChanged, VetInv
          <5> QED BY <5>1, <5>2
        <4> QED BY <2>0, <3>1, <3>3, <4>1, <4>2 DEF VetInv
      <3> QED BY <3>2, <3>3
    <2>2. CASE UninstallHook
      <3>1. UNCHANGED <<row, archives, life, approved>> /\ row # None /\ cli'.op = "uninstall"
        BY <2>2 DEF UninstallHook, Idle
      <3> QED BY <2>0, <3>1 DEF VetInv
    <2>3. CASE SetEnabled
      <3>1. row # None /\ row' = [row EXCEPT !.on = ~@] /\ UNCHANGED <<archives, life, approved, cli>> BY <2>3 DEF SetEnabled
      <3>2. row'.caps = row.caps BY <3>1 DEF Base, Row
      <3> QED BY <2>0, <3>1, <3>2 DEF VetInv
    <2>4. CASE CmdFails
      <3>1. UNCHANGED <<row, archives, life, approved>> /\ cli'.op = "none" BY <2>4 DEF CmdFails, disk, Idle
      <3> QED BY <2>0, <3>1 DEF VetInv
    <2>5. CASE DeleteRegistered \/ DeleteData
      <3>1. /\ UNCHANGED <<row, archives, life, approved>>
            /\ \E pc : cli' = [cli EXCEPT !.pc = pc]
        BY <2>5 DEF DeleteRegistered, DeleteData, CmdStep
      <3>2. cli'.op = cli.op /\ cli'.caps = cli.caps BY <3>1 DEF Base, Commands
      <3> QED BY <2>0, <3>1, <3>2 DEF VetInv
    <2>6. CASE StoreArchive
      <3>0. cli.op = "install" /\ cli.ver \in Versions /\ cli.caps \in approved
        BY <2>6 DEF StoreArchive, Base, Placed, Commands, Idle, Stores, VetInv
      <3>1. /\ UNCHANGED <<row, life, approved>>
            /\ \/ archives' = [archives EXCEPT ![cli.ver] = [caps |-> cli.caps, life |-> life]]
               \/ archives' = [archives EXCEPT ![cli.ver] = None]
            /\ cli' = Idle \/ cli' = [cli EXCEPT !.pc = IF cli.from = 0 THEN "hook" ELSE "upsert"]
        BY <2>6 DEF StoreArchive
      <3>2. cli'.op = "install" => cli'.caps = cli.caps BY <3>1 DEF Base, Commands, Idle
      <3>3. \A v \in Versions : archives'[v] \in {None, archives[v], [caps |-> cli.caps, life |-> life]}
        BY <1>a, <3>0, <3>1
      <3> QED BY <2>0, <3>0, <3>1, <3>2, <3>3 DEF VetInv
    <2>7. CASE RunHook
      <3>0. cli.op = "install" /\ cli.ver \in Versions /\ cli.caps \in approved
        BY <2>7 DEF RunHook, Base, Placed, Commands, Idle, Stores, VetInv
      <3>1. /\ UNCHANGED <<row, life, approved>>
            /\ archives' = archives \/ archives' = [archives EXCEPT ![cli.ver] = None]
            /\ cli' = Idle \/ cli' = [cli EXCEPT !.pc = IF cli.from = 0 THEN "upsert" ELSE "store"]
        BY <2>7 DEF RunHook
      <3>2. cli'.op = "install" => cli'.caps = cli.caps BY <3>1 DEF Base, Commands, Idle
      <3>3. \A v \in Versions : archives'[v] \in {None, archives[v]} BY <1>a, <3>0, <3>1
      <3> QED BY <2>0, <3>0, <3>1, <3>2, <3>3 DEF VetInv
    <2>8. CASE Upsert
      <3>0. cli.op = "install" /\ cli.ver \in Versions /\ cli.caps \in approved
        BY <2>8 DEF Upsert, Base, Placed, Commands, Idle, Stores, VetInv
      <3>1. /\ UNCHANGED <<life, approved>>
            /\ archives' = archives \/ archives' = [archives EXCEPT ![cli.ver] = None]
            /\ row' = row \/ row' = [ver |-> cli.ver, on |-> TRUE, caps |-> cli.caps]
            /\ cli' = Idle \/ cli' = [cli EXCEPT !.pc = "gc"]
        BY <2>8 DEF Upsert
      <3>2. cli'.op = "install" => cli'.caps = cli.caps BY <3>1 DEF Base, Commands, Idle
      <3>3. \A v \in Versions : archives'[v] \in {None, archives[v]} BY <1>a, <3>0, <3>1
      <3>4. row' # None => row'.caps \in approved BY <3>0, <3>1 DEF VetInv
      <3> QED BY <2>0, <3>0, <3>1, <3>2, <3>3, <3>4 DEF VetInv
    <2>9. CASE GcOldArchives
      <3>0. cli.op = "install" BY <2>9 DEF GcOldArchives, Base, Placed, Commands, Idle, Stores
      <3>1. /\ UNCHANGED <<row, life, approved>> /\ cli'.op = "none"
            /\ \A v \in Versions : archives'[v] \in {None, archives[v]}
        BY <2>9 DEF GcOldArchives, Idle
      <3> QED BY <2>0, <3>0, <3>1 DEF VetInv
    <2>10. CASE DeleteRow
      <3>0. cli.op = "uninstall" BY <2>10 DEF DeleteRow, CmdStep, Base, Placed, Commands, Idle
      <3>1. row' = None /\ cli'.op = "uninstall" BY <2>10, <3>0 DEF DeleteRow, CmdStep, Base, Commands
      <3> QED BY <3>1 DEF VetInv
    <2>11. CASE RemoveDir
      <3>0. cli.op = "uninstall" BY <2>11 DEF RemoveDir, Base, Placed, Commands, Idle
      <3>1. row' = None /\ cli'.op = "none" BY <1>a, <2>11, <3>0 DEF RemoveDir, Placed, Idle
      <3> QED BY <3>1 DEF VetInv
    <2> QED BY <1>1, <2>1, <2>2, <2>3, <2>4, <2>5, <2>6, <2>7, <2>8, <2>9, <2>10, <2>11 DEF Commanding, CommandStep
  <1>2. CASE Serving \/ Running \/ UNCHANGED vars
    <2>0. UNCHANGED <<row, archives, life, approved, cli>> BY <1>2, ServerElsewhere
    <2>1. ASSUME NEW p \in {tracked', sync'.p}, p # None
          PROVE  \/ p \in {tracked, sync.p}
                 \/ \E v \in Versions : archives[v] # None /\ p.life = archives[v].life /\ p.caps = archives[v].caps
      <3>0. NoPass.p = None /\ sync \in Passes BY DEF NoPass, Base
      <3>1. CASE StartOne
        <4>1. sync.stage = "start" /\ tracked' = tracked BY <3>1 DEF StartOne
        <4>2. sync.seen \in Row BY <3>0, <4>1 DEF Base, Staged, Passes
        <4>3. CASE sync' = NoPass BY <2>1, <3>0, <4>1, <4>3
        <4>4. CASE /\ archives[sync.seen.ver] # None
                   /\ sync' = [sync EXCEPT !.stage = "routes",
                                 !.p = [obj |-> NewObject, ver |-> sync.seen.ver, life |-> archives[sync.seen.ver].life,
                                        caps |-> archives[sync.seen.ver].caps]]
          <5>1. sync'.p.life = archives[sync.seen.ver].life /\ sync'.p.caps = archives[sync.seen.ver].caps
            BY <3>0, <4>4 DEF Passes
          <5>2. sync.seen.ver \in Versions BY <4>2 DEF Row
          <5> QED BY <2>1, <4>1, <4>4, <5>1, <5>2
        <4> QED BY <3>1, <4>3, <4>4 DEF StartOne
      <3>2. CASE MountRoutes BY <2>1, <3>0, <3>2 DEF MountRoutes
      <3>3. CASE Running \/ UNCHANGED vars
        <4>1. UNCHANGED <<tracked, sync>> BY <3>3 DEF Running, PluginWrites, CallEnds, vars, process
        <4> QED BY <2>1, <4>1
      <3>4. CASE Restart \/ SyncRead \/ StopOne \/ KeepRunning \/ PurgeCacheIfUninstalled
        <4>1. /\ tracked' \in {tracked, None}
              /\ sync'.p \in {None, sync.p}
          BY <3>0, <3>4 DEF Restart, SyncRead, StopOne, KeepRunning, PurgeCacheIfUninstalled, AfterPurge, Passes
        <4> QED BY <2>1, <4>1
      <3> QED BY <1>2, <3>1, <3>2, <3>3, <3>4 DEF Serving, SyncStep
    <2> QED BY <2>0, <2>1 DEF VetInv
  <1> QED BY <1>1, <1>2, AdminSteps

-----------------------------------------------------------------------------
(* What a new life finds.                                                  *)

LEMMA StoresStep == Base /\ StoresInv /\ [Next]_vars => StoresInv'
  <1> SUFFICES ASSUME Base, StoresInv, [Next]_vars, ~hist'.late, ~hist'.half, NEW s \in Stores
               PROVE  data'[s] \in {0, life'} /\ (Passed(s)' \/ (row' = None /\ cli'.op # "install") => data'[s] = 0)
    BY DEF StoresInv
  <1> USE NoneIsNothing
  <1>0. /\ ~hist.late /\ ~hist.half /\ Placed /\ cli \in Commands
        /\ data[s] \in {0, life} /\ (Passed(s) \/ (row = None /\ cli.op # "install") => data[s] = 0)
    BY FlagsStay DEF StoresInv, Base
  <1>p. ASSUME cli'.op # "uninstall" PROVE ~Passed(s)' BY <1>p DEF Passed
  <1>1. CASE \E v \in Versions, c \in Caps, sig \in Sigs, force, approve \in BOOLEAN : InstallGate(v, c, sig, force, approve)
    <2>1. cli.op = "none" /\ cli'.op = "install" /\ data' = data /\ (life' = life \/ row = None)
      BY <1>1 DEF InstallGate, Idle
    <2> QED BY <1>0, <1>p, <2>1
  <1>2. CASE UninstallHook
    <2>1. /\ row # None /\ data' \in {data, HookStores} /\ UNCHANGED <<row, life>>
          /\ cli'.op = "uninstall" /\ cli'.pc = "routes"
      BY <1>2 DEF UninstallHook, Idle
    <2>2. ~Passed(s)' BY <2>1 DEF Passed, Stores
    <2>3. data'[s] \in {0, life} BY <1>0, <2>1, HookWrites
    <2> QED BY <2>1, <2>2, <2>3
  <1>3. CASE SetEnabled
    <2>1. row # None /\ row' = [row EXCEPT !.on = ~@] /\ UNCHANGED <<data, life, cli>> /\ cli.op = "none"
      BY <1>3 DEF SetEnabled, Idle
    <2>2. row' # None BY <2>1 DEF Base, Row
    <2> QED BY <1>0, <1>p, <2>1, <2>2
  <1>4. CASE CmdFails
    <2>1. /\ cli' = Idle /\ hist' = [hist EXCEPT ![IF cli.op = "install" THEN "half" ELSE "cut"] = TRUE]
          /\ UNCHANGED <<row, data, life>>
      BY <1>4 DEF CmdFails, disk
    <2>2. cli.op # "install" BY <2>1 DEF Base, Flags
    <2>3. cli'.op = "none" BY <2>1 DEF Idle
    <2> QED BY <1>0, <1>p, <2>1, <2>2, <2>3
  <1>5. CASE DeleteRegistered
    <2>1. cli.pc = "routes" /\ cli' = [cli EXCEPT !.pc = IF cli.op = "install" THEN "hook" ELSE "jobs"] /\ UNCHANGED <<row, data, life>>
      BY <1>5 DEF DeleteRegistered, CmdStep
    <2>2. cli'.op = cli.op /\ cli'.pc \in {"hook", "jobs"} BY <1>0, <2>1 DEF Commands
    <2>3. ~Passed(s)' BY <2>2 DEF Passed, Stores
    <2> QED BY <1>0, <2>1, <2>2, <2>3
  <1>6. CASE StoreArchive
    <2>0. cli.op = "install" /\ UNCHANGED <<row, data, life>> BY <1>6 DEF StoreArchive, Base, Placed, Commands, Idle, Stores
    <2>1. cli' = [cli EXCEPT !.pc = IF cli.from = 0 THEN "hook" ELSE "upsert"] \/ hist' = [hist EXCEPT !.half = TRUE, !.wiped = @ \/ cli.from = cli.ver]
      BY <1>6 DEF StoreArchive
    <2>2. cli'.op = "install" BY <1>0, <2>0, <2>1 DEF Commands, Base, Flags
    <2> QED BY <1>0, <1>p, <2>0, <2>2
  <1>7. CASE RunHook
    <2>0. cli.op = "install" /\ UNCHANGED <<row, life>> /\ data' \in {data, HookStores}
      BY <1>7 DEF RunHook, Base, Placed, Commands, Idle, Stores
    <2>1. \/ cli' = [cli EXCEPT !.pc = IF cli.from = 0 THEN "upsert" ELSE "store"]
          \/ hist' = [hist EXCEPT !.half = TRUE]
      BY <1>7 DEF RunHook, Base, Flags
    <2>2. cli'.op = "install" BY <1>0, <2>0, <2>1 DEF Commands, Base, Flags
    <2>3. data'[s] \in {0, life} BY <1>0, <2>0, HookWrites
    <2> QED BY <1>p, <2>0, <2>2, <2>3
  <1>8. CASE Upsert
    <2>0. cli.op = "install" /\ cli.ver \in Versions /\ cli.caps \in Caps
      BY <1>8 DEF Upsert, Base, Placed, Commands, Idle, Stores
    <2>1. /\ UNCHANGED <<data, life>>
          /\ \/ hist' = [hist EXCEPT !.half = TRUE, !.wiped = @ \/ cli.from = cli.ver]
             \/ /\ row' = [ver |-> cli.ver, on |-> TRUE, caps |-> cli.caps]
                /\ cli' = Idle \/ cli' = [cli EXCEPT !.pc = "gc"]
      BY <1>8 DEF Upsert
    <2>4. ~(hist' = [hist EXCEPT !.half = TRUE, !.wiped = @ \/ cli.from = cli.ver]) BY DEF Base, Flags
    <2>5. row' = [ver |-> cli.ver, on |-> TRUE, caps |-> cli.caps] /\ (cli' = Idle \/ cli' = [cli EXCEPT !.pc = "gc"])
      BY <2>1, <2>4
    <2>2. cli'.op # "uninstall" BY <1>0, <2>0, <2>5 DEF Commands, Idle
    <2>6. row' \in Row BY <2>0, <2>5 DEF Row
    <2>3. row' # None BY <2>6
    <2> QED BY <1>0, <1>p, <2>1, <2>2, <2>3
  <1>9. CASE GcOldArchives
    <2>0. cli.op = "install" /\ cli.pc = "gc" /\ cli'.op = "none" /\ UNCHANGED <<row, data, life>>
      BY <1>9 DEF GcOldArchives, Base, Placed, Commands, Idle, Stores
    <2>1. row # None BY <1>0, <2>0 DEF Placed
    <2> QED BY <1>0, <1>p, <2>0, <2>1
  <1>10. CASE DeleteData
    <2>0. /\ cli.pc \in Stores /\ cli' = [cli EXCEPT !.pc = After[cli.pc]] /\ data' = [data EXCEPT ![cli.pc] = 0]
          /\ UNCHANGED <<row, life>>
      BY <1>10 DEF DeleteData
    <2>1. cli.op = "uninstall" BY <2>0 DEF Base, Placed, Commands, Idle, Stores
    <2>2. row # None BY <1>0, <2>0, <2>1 DEF Placed, Stores
    <2>3. cli'.op = "uninstall" /\ cli'.pc = After[cli.pc] BY <1>0, <2>0, <2>1 DEF Commands
    <2>4. data'[s] = IF s = cli.pc THEN 0 ELSE data[s] BY <2>0 DEF Base
    <2>5. Passed(s)' => s = cli.pc \/ Passed(s) BY <2>0, <2>1, <2>3 DEF Passed, After, Stores
    <2> QED BY <1>0, <2>0, <2>2, <2>4, <2>5
  <1>11. CASE DeleteRow
    <2>0. cli.pc = "row" /\ UNCHANGED <<data, life>> BY <1>11 DEF DeleteRow, CmdStep
    <2>1. cli.op = "uninstall" BY <1>0, <2>0 DEF Base, Placed, Commands, Idle
    <2>2. Passed(s) BY <2>0, <2>1 DEF Passed, Stores
    <2> QED BY <1>0, <2>0, <2>2
  <1>12. CASE RemoveDir
    <2>0. cli.pc = "dir" /\ UNCHANGED <<row, data, life>> BY <1>12 DEF RemoveDir
    <2>1. cli.op = "uninstall" BY <1>0, <2>0 DEF Base, Placed, Commands, Idle
    <2>2. Passed(s) BY <2>0, <2>1 DEF Passed, Stores
    <2> QED BY <1>0, <2>0, <2>2
  <1>13. CASE Serving
    <2>0. UNCHANGED <<row, life, cli>> BY <1>13, ServerElsewhere
    <2>1. data'[s] \in {0, data[s]}
      <3>1. data' \in {data, [data EXCEPT !["redis"] = 0]}
        BY <1>13 DEF Serving, SyncStep, Restart, SyncRead, StopOne, KeepRunning, PurgeCacheIfUninstalled, StartOne, MountRoutes, disk
      <3> QED BY <3>1 DEF Base
    <2>2. Passed(s)' = Passed(s) BY <2>0 DEF Passed
    <2> QED BY <1>0, <2>0, <2>1, <2>2
  <1>14. CASE Running \/ UNCHANGED vars
    <2>0. UNCHANGED <<row, life, cli>> BY <1>14, ServerElsewhere
    <2>1. Passed(s)' = Passed(s) BY <2>0 DEF Passed
    <2>2. ASSUME NEW l, NEW t \in Stores, PluginWrites(l, t)
          PROVE  data'[s] \in {0, life} /\ (Passed(s) \/ (row = None /\ cli.op # "install") => data'[s] = 0)
      <3>1. data' = [data EXCEPT ![t] = l] /\ hist' = [hist EXCEPT !.late = @ \/ Late(l, t)] BY <2>2 DEF PluginWrites
      <3>2. ~Late(l, t) BY <3>1 DEF Base, Flags
      <3>3. row # None /\ life = l /\ ~Passed(t) BY <3>2 DEF Late
      <3>4. data'[s] = IF s = t THEN life ELSE data[s] BY <3>1, <3>3 DEF Base
      <3> QED BY <1>0, <3>3, <3>4
    <2>3. data' = data \/ (\E l \in 1..MaxCmds, t \in Stores : PluginWrites(l, t))
      BY <1>14 DEF Running, CallEnds, vars, disk
    <2> QED BY <1>0, <2>0, <2>1, <2>2, <2>3
  <1> QED BY <1>1, <1>2, <1>3, <1>4, <1>5, <1>6, <1>7, <1>8, <1>9, <1>10, <1>11, <1>12, <1>13, <1>14, AdminSteps DEF Commanding, CommandStep

\* The server's memory cache: a life that ends leaves nothing there, unless the
\* server did not see it end.
LEMMA MemoryStep == Base /\ MemoryInv /\ [Next]_vars => MemoryInv'
  <1> DEFINE One == row # None \/ cli.op # "install" => memory \in {0, life}
             Two == row = None /\ memory # 0 =>
                      \/ sync.stage = "purge"
                      \/ tracked # None /\ (cli.op = "install" => tracked.life # life)
  <1> SUFFICES ASSUME Base, MemoryInv, [Next]_vars, ~hist'.late, ~hist'.half, ~hist'.unseen
               PROVE  One' /\ Two'
    BY DEF MemoryInv
  <1> USE NoneIsNothing
  <1>0. One /\ Two BY FlagsStay DEF MemoryInv
  <1>a. Placed /\ Staged /\ cli \in Commands /\ sync \in Passes /\ hist \in Flags /\ (tracked # None => tracked.life \in 1..life)
    BY DEF Base
  <1>1. CASE Commanding
    <2>0. UNCHANGED <<tracked, sync, memory>> BY <1>1, CommandingElsewhere
    <2>1. ASSUME NEW v \in Versions, NEW c \in Caps, NEW sig \in Sigs, NEW force \in BOOLEAN, NEW approve \in BOOLEAN,
                 InstallGate(v, c, sig, force, approve)
          PROVE  One' /\ Two'
      <3>1. cli.op = "none" /\ cli'.op = "install" /\ row' = row /\ life' = IF row = None THEN life + 1 ELSE life
        BY <2>1 DEF InstallGate, Idle
      <3>2. row = None /\ tracked # None => tracked.life # life' BY <1>a, <3>1 DEF Base
      <3> QED BY <1>0, <2>0, <3>1, <3>2
    <2>2. ASSUME row # None, row' # None, life' = life PROVE One' /\ Two'
      BY <1>0, <2>0, <2>2
    <2>3. CASE UninstallHook BY <2>2, <2>3 DEF UninstallHook
    <2>4. CASE SetEnabled
      <3>1. row # None /\ row' = [row EXCEPT !.on = ~@] /\ life' = life BY <2>4 DEF SetEnabled
      <3>2. row' # None BY <3>1 DEF Base, Row
      <3> QED BY <2>2, <3>1, <3>2
    <2>5. ASSUME UNCHANGED <<row, life>>, cli.op = "install" => cli'.op = "install", cli'.op = "install" => cli.op = "install"
          PROVE  One' /\ Two'
      BY <1>0, <2>0, <2>5
    <2>6. CASE CmdFails
      <3>1. /\ cli' = Idle /\ hist' = [hist EXCEPT ![IF cli.op = "install" THEN "half" ELSE "cut"] = TRUE]
            /\ UNCHANGED <<row, life>>
        BY <2>6 DEF CmdFails, disk
      <3>2. cli.op # "install" BY <1>a, <3>1 DEF Flags
      <3> QED BY <2>5, <3>1, <3>2 DEF Idle
    <2>7. CASE DeleteRegistered
      <3>1. cli'.op = cli.op /\ UNCHANGED <<row, life>> BY <1>a, <2>7 DEF DeleteRegistered, CmdStep, Commands
      <3> QED BY <2>5, <3>1
    <2>8. CASE DeleteData
      <3>1. cli' = [cli EXCEPT !.pc = After[cli.pc]] /\ UNCHANGED <<row, life>> BY <2>8 DEF DeleteData
      <3>2. cli'.op = cli.op BY <1>a, <3>1 DEF Commands
      <3> QED BY <2>5, <3>1, <3>2
    <2>9. CASE StoreArchive
      <3>1. /\ UNCHANGED <<row, life>>
            /\ \/ cli' = [cli EXCEPT !.pc = IF cli.from = 0 THEN "hook" ELSE "upsert"]
               \/ hist' = [hist EXCEPT !.half = TRUE, !.wiped = @ \/ cli.from = cli.ver]
        BY <2>9 DEF StoreArchive
      <3>2. ~(hist' = [hist EXCEPT !.half = TRUE, !.wiped = @ \/ cli.from = cli.ver]) BY <1>a DEF Flags
      <3>3. cli'.op = cli.op BY <1>a, <3>1, <3>2 DEF Commands
      <3> QED BY <2>5, <3>1, <3>3
    <2>10. CASE RunHook
      <3>1. PICK ok \in BOOLEAN :
              /\ UNCHANGED <<row, life>> /\ hist' = [hist EXCEPT !.half = @ \/ ~ok]
              /\ cli' = IF ~ok THEN Idle ELSE [cli EXCEPT !.pc = IF cli.from = 0 THEN "upsert" ELSE "store"]
        BY <2>10 DEF RunHook
      <3>2. ok BY <1>a, <3>1 DEF Flags
      <3>3. cli'.op = cli.op BY <1>a, <3>1, <3>2 DEF Commands
      <3> QED BY <2>5, <3>1, <3>3
    <2>11. CASE Upsert
      <3>1. cli.op = "install" /\ cli.ver \in Versions /\ cli.caps \in Caps
        BY <2>11 DEF Upsert, Base, Placed, Commands, Idle, Stores
      <3>2. /\ life' = life
            /\ \/ hist' = [hist EXCEPT !.half = TRUE, !.wiped = @ \/ cli.from = cli.ver]
               \/ /\ row' = [ver |-> cli.ver, on |-> TRUE, caps |-> cli.caps]
                  /\ hist' = [hist EXCEPT !.unseen = @ \/ Unseen, !.same = @ \/ SameVersion]
        BY <2>11 DEF Upsert
      <3>3. ~(hist' = [hist EXCEPT !.half = TRUE, !.wiped = @ \/ cli.from = cli.ver]) BY <1>a DEF Flags
      <3>4. row' \in Row /\ ~Unseen
        <4>1. /\ row' = [ver |-> cli.ver, on |-> TRUE, caps |-> cli.caps]
              /\ hist' = [hist EXCEPT !.unseen = @ \/ Unseen, !.same = @ \/ SameVersion]
          BY <3>2, <3>3
        <4> QED BY <1>a, <3>1, <4>1 DEF Row, Flags
      <3>5. row' # None BY <3>4
      <3>6. CASE row # None BY <2>2, <3>2, <3>5, <3>6
      <3>7. CASE row = None
        <4>1. cli.from = 0 BY <1>a, <3>1, <3>7 DEF Placed
        <4>2. sync.stage # "purge" /\ (tracked # None => ~(tracked.life < life)) BY <3>4, <4>1 DEF Unseen
        <4>3. tracked # None => tracked.life = life BY <1>a, <4>2 DEF Base
        <4>4. memory = 0 BY <1>0, <3>1, <3>7, <4>2, <4>3
        <4> QED BY <2>0, <3>5, <4>4
      <3> QED BY <3>6, <3>7
    <2>12. CASE GcOldArchives
      <3>1. cli.op = "install" /\ cli.pc = "gc" BY <2>12 DEF GcOldArchives, Base, Placed, Commands, Idle, Stores
      <3>2. row # None /\ UNCHANGED <<row, life>> BY <1>a, <2>12, <3>1 DEF Placed, GcOldArchives
      <3> QED BY <2>2, <3>2
    <2>13. CASE DeleteRow
      <3>1. cli.op = "uninstall"
        BY <2>13 DEF DeleteRow, CmdStep, Base, Placed, Commands, Idle
      <3>2. /\ cli' = [cli EXCEPT !.pc = "dir"] /\ life' = life
            /\ hist' = [hist EXCEPT !.unseen = @ \/ (tracked = None /\ sync.stage # "purge" /\ memory # 0)]
        BY <2>13 DEF DeleteRow, CmdStep
      <3>3. cli'.op = "uninstall" BY <1>a, <3>1, <3>2 DEF Commands
      <3>4. ~(tracked = None /\ sync.stage # "purge" /\ memory # 0) BY <1>a, <3>2 DEF Flags
      <3> QED BY <1>0, <2>0, <3>1, <3>2, <3>3, <3>4
    <2>14. CASE RemoveDir
      <3>1. cli.op = "uninstall" /\ cli'.op = "none" /\ UNCHANGED <<row, life>>
        BY <2>14 DEF RemoveDir, Base, Placed, Commands, Idle
      <3> QED BY <2>5, <3>1
    <2> QED
      BY <1>1, <2>1, <2>3, <2>4, <2>6, <2>7, <2>8, <2>9, <2>10, <2>11, <2>12, <2>13, <2>14 DEF Commanding, CommandStep
  <1>2. CASE Serving
    <2>0. UNCHANGED <<row, life, cli>> BY <1>2, ServerElsewhere
    <2>1. CASE Restart BY <2>0, <2>1 DEF Restart, Base
    <2>2. CASE SyncRead
      <3>1. UNCHANGED <<tracked, memory>> /\ sync.stage = "none" BY <2>2 DEF SyncRead, NoPass
      <3> QED BY <1>0, <2>0, <3>1
    <2>3. CASE StopOne
      <3>1. memory' = memory /\ sync' = [sync EXCEPT !.stage = "purge"] BY <2>3 DEF StopOne
      <3>2. sync'.stage = "purge" BY <1>a, <3>1 DEF Passes
      <3> QED BY <1>0, <2>0, <3>1, <3>2
    <2>4. CASE KeepRunning
      <3>1. UNCHANGED <<tracked, memory>> /\ sync.stage = "stop" BY <2>4 DEF KeepRunning
      <3> QED BY <1>0, <2>0, <3>1
    <2>5. CASE PurgeCacheIfUninstalled
      <3>1. \/ memory' = IF row = None THEN 0 ELSE memory
            \/ hist' = [hist EXCEPT !.unseen = TRUE]
        BY <2>5 DEF PurgeCacheIfUninstalled
      <3>2. memory' = IF row = None THEN 0 ELSE memory BY <1>a, <3>1 DEF Flags
      <3> QED BY <1>0, <2>0, <3>2
    <2>6. CASE StartOne \/ MountRoutes
      <3>1. memory' = memory /\ sync.stage \in {"start", "routes"} BY <2>6 DEF StartOne, MountRoutes
      <3>2. tracked = None BY <1>a, <3>1 DEF Staged
      <3>3. row = None => memory = 0 BY <1>0, <3>1, <3>2
      <3> QED BY <1>0, <2>0, <3>1, <3>3
    <2> QED BY <1>2, <2>1, <2>2, <2>3, <2>4, <2>5, <2>6 DEF Serving, SyncStep
  <1>3. CASE Running \/ UNCHANGED vars
    <2>0. UNCHANGED <<row, life, cli>> BY <1>3, ServerElsewhere
    <2>1. UNCHANGED <<tracked, sync>> BY <1>3 DEF Running, PluginWrites, CallEnds, vars, process
    <2>2. ASSUME NEW l, NEW t, PluginWrites(l, t) PROVE One' /\ Two'
      <3>1. /\ memory' = IF t = "redis" THEN l ELSE memory
            /\ hist' = [hist EXCEPT !.late = @ \/ Late(l, t)]
        BY <2>2 DEF PluginWrites
      <3>2. ~Late(l, t) BY <1>a, <3>1 DEF Flags
      <3>3. row # None /\ life = l BY <3>2 DEF Late
      <3> QED BY <1>0, <2>0, <3>1, <3>3
    <2>3. memory' = memory \/ (\E l \in 1..MaxCmds, t \in Stores : PluginWrites(l, t))
      BY <1>3 DEF Running, CallEnds, vars, process
    <2> QED BY <1>0, <2>0, <2>1, <2>2, <2>3
  <1> QED BY <1>1, <1>2, <1>3, AdminSteps

-----------------------------------------------------------------------------
(* Installations are sound, and the running instance is reached.           *)

AdminInv == Base /\ ReachInv /\ ArchiveStartable /\ VetInv /\ StoresInv /\ MemoryInv

LEMMA AdminInvInit == Init => AdminInv
  <1> SUFFICES ASSUME Init PROVE AdminInv
    OBVIOUS
  <1>1. Base BY BaseInit
  <1>2. ReachInv /\ ArchiveStartable BY DEF Init, ReachInv, ArchiveStartable, NoPass
  <1>3. VetInv BY DEF Init, VetInv, Idle
  <1>4. StoresInv /\ MemoryInv BY DEF Init, StoresInv, MemoryInv, Idle
  <1> QED BY <1>1, <1>2, <1>3, <1>4 DEF AdminInv

LEMMA AdminInvHolds == Spec => []AdminInv
  <1>1. AdminInv /\ [Next]_vars => AdminInv'
    BY BaseStep, ReachStep, ArchiveStep, VetStep, StoresStep, MemoryStep DEF AdminInv
  <1> QED BY AdminInvInit, <1>1, PTL DEF Spec

LEMMA AdminInvTypes == AdminInv => TypeOK
  <1> SUFFICES ASSUME AdminInv PROVE TypeOK
    OBVIOUS
  <1>1. Base BY DEF AdminInv
  <1>2. life \in 0..MaxCmds BY <1>1, AdminAssumption DEF Base
  <1>3. cli.op \in {"none", "install", "uninstall"} /\ cli.caps \in Caps \cup {None} BY <1>1 DEF Base, Commands
  <1>4. /\ sync.p \in Started \cup {None} /\ (sync.stage = "routes") = (sync.p # None)
        /\ sync.stage \in {"none", "stop"} \/ (sync.stage \in {"purge", "start", "routes"} /\ tracked = None)
    BY <1>1 DEF Base, Passes, Staged
  <1> QED BY <1>1, <1>2, <1>3, <1>4 DEF Base, TypeOK, Row, Archive

\* What the installer and the reconciler keep has the expected types, whatever commands,
\* failures and restarts there were: the running plugin, its objects and what the plugin
\* stored belong to lives the installer began.
THEOREM AdminTypeCorrect == Spec => []TypeOK
  BY AdminInvHolds, AdminInvTypes, PTL

\* ncgo-cli plugin install and uninstall and the reconciler, for any number of versions,
\* capability sets, commands, failures, writes and restarts: the version in the registry
\* has its archive, the running plugin holds what was approved in this life, and a plugin
\* installed again finds nothing of its earlier life.
THEOREM InstallsAreSound == Spec => []InstallSound
  <1>1. ASSUME AdminInv PROVE InstallSound
    <2>1. Base /\ VetInv /\ StoresInv /\ MemoryInv /\ ArchiveStartable BY <1>1 DEF AdminInv
    <2>2. Vetted BY <2>1 DEF VetInv, Vetted
    <2>3. CleanStart
      <3> SUFFICES ASSUME tracked # None, tracked.life = life, ~hist.late, ~hist.unseen, ~hist.half
                   PROVE  memory \in {0, life} /\ \A s \in Stores : data[s] \in {0, life}
        BY DEF CleanStart
      <3>1. \A s \in Stores : data[s] \in {0, life} BY <2>1 DEF StoresInv
      <3>2. sync.stage # "purge" BY <2>1 DEF Base, Staged
      <3>3. row # None \/ cli.op # "install" => memory \in {0, life} BY <2>1 DEF MemoryInv
      <3>4. row = None /\ cli.op = "install" => memory = 0 BY <2>1, <3>2 DEF MemoryInv
      <3> QED BY <3>1, <3>3, <3>4
    <2> QED BY <1>1, <2>1, <2>2, <2>3, AdminInvTypes DEF InstallSound
  <1> QED BY <1>1, AdminInvHolds, PTL

\* JobRunner.Register, Unregister and mountRoutes of the reconciler: the plugin's jobs and
\* requests reach the instance that runs and no closed one, for any number of upgrades,
\* passes and restarts.
THEOREM RunningIsReached == Spec => []ReachesRunning
  <1>1. ASSUME AdminInv PROVE ReachesRunning
    <2>1. ReachInv BY <1>1 DEF AdminInv
    <2>2. JobsReachPlugin BY <2>1 DEF ReachInv, JobsReachPlugin
    <2>3. RoutedToRunning BY <2>1 DEF ReachInv, RoutedToRunning
    <2> QED BY <2>2, <2>3 DEF ReachesRunning
  <1> QED BY <1>1, AdminInvHolds, PTL

-----------------------------------------------------------------------------
(* The inductive invariant, in parts.                                      *)

\* Frames and instances whose handles and arguments are in A.
FrameOf(A) ==
  [pl : Plugins, i : Insts \union {Nil}, kind : {"entry", "request", "stream", "hook"},
   pc : {"acq", "run", "db", "wr", "http", "pub", "resp", "rel", "new", "put"},
   user : Users \union {Nil}, n : Nat, todo : SUBSET Plugins, broken : BOOLEAN, arg : A]
InstOf(A) ==
  [st : {"none", "live", "closed"}, pl : Plugins \union {Nil}, tab : A, cnt : Nat, tripped : BOOLEAN]
Stacks(A) == thr \in [Threads -> Seq(FrameOf(A))] /\ inst \in [Insts -> InstOf(A)]

Model(p) == Scene.model[p]

HostTypes ==
  /\ \E A : Stacks(A)
  /\ scene \in DOMAIN Scenes
  /\ calls \in [Threads -> Seq([pl : Plugins, kind : {"entry", "request", "stream", "hook"},
                                user : Users \union {Nil}])]
  /\ pool \in [Plugins -> Seq(Insts)]
  /\ single \in [Plugins -> Insts \union {Nil}]
  /\ mu \in [Plugins -> Threads \union {Nil}]
  /\ shut \in [Plugins -> {"no", "drained", "gone"}]
  /\ lost \in [Plugins -> Nat]
  /\ out \in [Threads -> [r : Verdicts, n : Nat, pl : Plugins \union {Nil}]]

\* A call below the top waits in event_publish. A call at work has an instance of
\* its plugin, live as long as a pool may get it back; the call of a singleton
\* holds the mutex, and the plugin has no other instance.
CallSound(t, d) ==
  LET f == thr[t][d] IN
  /\ d < Depth(t) => f.pc = "pub"
  /\ f.pc = "acq" => f.i = Nil
  /\ f.pc # "acq" =>
       /\ f.i \in Insts /\ inst[f.i].pl = f.pl
       /\ f.pc \in {"new", "put"} => Model(f.pl) = "pooled"
       /\ Model(f.pl) = "pooled" => (inst[f.i].st = "live" <=> f.pc # "new")
       /\ Model(f.pl) = "singleton" => mu[f.pl] = t /\ single[f.pl] \in {Nil, f.i}

\* The meter counts the entries of this call.
FuelSound(t, d) ==
  LET f == thr[t][d]
      b == Budget(f.pl)
  IN b > 0 /\ f.pc # "acq" =>
       IF f.pc \in {"new", "put"}
       THEN (f.arg = "fuel" => f.n > b) /\ (f.arg = "ok" => f.n <= b)
       ELSE /\ inst[f.i].cnt = f.n
            /\ inst[f.i].tripped => f.n > b
            /\ ~f.broken => f.n <= b

\* What a call will report is known when its instance is given back.
Reported(t, d) == thr[t][d].pc \in {"new", "put"} => thr[t][d].arg \in Verdicts

CallsSound ==
  \A t \in Threads : \A d \in 1 .. Depth(t) : CallSound(t, d) /\ FuelSound(t, d) /\ Reported(t, d)

Works(t, d) == thr[t][d].pc # "acq"
Apart ==
  \A t, v \in Threads : \A d \in 1 .. Depth(t), c \in 1 .. Depth(v) :
    (t # v \/ d # c) /\ Works(t, d) /\ Works(v, c) =>
      /\ thr[t][d].i # thr[v][c].i
      /\ thr[t][d].pl = thr[v][c].pl => Model(thr[t][d].pl) # "singleton"

Idling ==
  \A p \in Plugins :
    /\ Model(p) # "pooled" => pool[p] = <<>>
    /\ \A n \in 1 .. Len(pool[p]) :
         ~Held(pool[p][n]) /\ inst[pool[p][n]].st = "live" /\ inst[pool[p][n]].pl = p
    /\ \A n, m \in 1 .. Len(pool[p]) : n # m => pool[p][n] # pool[p][m]
    /\ Model(p) # "singleton" => single[p] = Nil
    /\ single[p] # Nil => inst[single[p]].pl = p /\ inst[single[p]].st = "live"

\* The instances at work for a plugin.
Busy(p) == {i \in Insts : \E t \in Threads : \E d \in 1 .. Depth(t) :
                            Works(t, d) /\ thr[t][d].i = i /\ thr[t][d].pl = p}
Counted ==
  \A p \in Plugins :
    /\ IsFiniteSet(Busy(p))
    /\ Model(p) = "pooled" /\ shut[p] = "no" =>
         Len(pool[p]) + Cardinality(Busy(p)) + lost[p] = Len(Scene.warm[p])

\* Levels of plugins that events lead down.
Leads(level) ==
  /\ level \in [Plugins -> Nat]
  /\ \A p \in Plugins : \A q \in Subscribers(p) :
       /\ level[q] <= level[p]
       /\ Model(p) = "singleton" \/ Model(q) = "singleton" => level[q] < level[p]

\* A nested call is for a plugin further down.
Nested ==
  \A level : Leads(level) =>
    \A t \in Threads : \A d, c \in 1 .. Depth(t) : d < c =>
      LET p == thr[t][d].pl
          q == thr[t][c].pl
      IN /\ level[q] <= level[p]
         /\ Model(p) = "singleton" \/ Model(q) = "singleton" => level[q] < level[p]

\* Only subscribers are still to be called.
Asked == \A t \in Threads : \A d \in 1 .. Depth(t) : thr[t][d].todo \subseteq Subscribers(thr[t][d].pl)

\* Who holds the mutex of a singleton has a call of it at work.
MutexOwned ==
  \A p \in Plugins : mu[p] # Nil =>
    Model(p) = "singleton" /\ \E d \in 1 .. Depth(mu[p]) : Works(mu[p], d) /\ thr[mu[p]][d].pl = p

InOrder == Nested /\ Asked /\ MutexOwned

HostInv == HostTypes /\ CallsSound /\ Apart /\ Idling /\ Counted /\ FuelIsOwn /\ InOrder
-----------------------------------------------------------------------------
(* Stacks.                                                                 *)

LEMMA SetTopStack ==
  ASSUME NEW F, NEW t \in Threads, thr \in [Threads -> Seq(F)], Depth(t) > 0,
         NEW g \in F, thr' = SetTop(t, g)
  PROVE  /\ thr' \in [Threads -> Seq(F)]
         /\ \A v \in Threads : Depth(v)' = Depth(v)
         /\ \A v \in Threads : \A d \in 1 .. Depth(v) :
              thr'[v][d] = IF v = t /\ d = Depth(t) THEN g ELSE thr[v][d]
  <1> DEFINE s == thr[t]  r == SubSeq(s, 1, Depth(t) - 1)
  <1>1. s \in Seq(F) /\ Depth(t) = Len(s) /\ Len(s) \in Nat /\ Len(s) > 0 BY DEF Depth
  <1>2. r \in Seq(F) /\ Len(r) = Len(s) - 1 /\ \A d \in 1 .. Len(s) - 1 : r[d] = s[d]
    BY <1>1, SubSeqProperties
  <1>3. /\ Append(r, g) \in Seq(F) /\ Len(Append(r, g)) = Len(s)
        /\ \A d \in 1 .. Len(s) : Append(r, g)[d] = IF d = Len(s) THEN g ELSE s[d]
    BY <1>1, <1>2, AppendProperties
  <1>4. thr' = [thr EXCEPT ![t] = Append(r, g)] BY DEF SetTop
  <1> HIDE DEF r
  <1> QED BY <1>1, <1>3, <1>4 DEF Depth

\* The call above panicked, so this one traps.
Trapped(f) == [f EXCEPT !.pc = "rel", !.broken = TRUE, !.todo = {}]

LEMMA PopStack ==
  ASSUME NEW A, NEW t \in Threads, thr \in [Threads -> Seq(FrameOf(A))], Depth(t) > 0,
         NEW r, NEW o, EndCall(t, r, o)
  PROVE  /\ thr' \in [Threads -> Seq(FrameOf(A))]
         /\ \A v \in Threads : Depth(v)' = IF v = t THEN Depth(v) - 1 ELSE Depth(v)
         /\ \A v \in Threads : \A d \in 1 .. Depth(v)' :
              thr'[v][d] = IF v = t /\ d = Depth(t) - 1 /\ r = "panic" THEN Trapped(thr[v][d]) ELSE thr[v][d]
  <1> DEFINE F == FrameOf(A)  s == thr[t]  q == SubSeq(s, 1, Depth(t) - 1)
             e == IF q = <<>> \/ r # "panic" THEN q ELSE [q EXCEPT ![Len(q)] = Trapped(q[Len(q)])]
  <1>1. s \in Seq(F) /\ Depth(t) = Len(s) /\ Len(s) \in Nat /\ Len(s) > 0 BY DEF Depth
  <1>2. q \in Seq(F) /\ Len(q) = Len(s) - 1 /\ \A d \in 1 .. Len(s) - 1 : q[d] = s[d]
    BY <1>1, SubSeqProperties
  <1>3. thr' = [thr EXCEPT ![t] = e] BY DEF EndCall, Trapped, Top
  <1> HIDE DEF q
  <1>4. \A f \in F : Trapped(f) \in F BY DEF Trapped, FrameOf
  <1>5. /\ e \in Seq(F) /\ Len(e) = Len(s) - 1
        /\ \A d \in 1 .. Len(s) - 1 :
             e[d] = IF d = Len(s) - 1 /\ r = "panic" THEN Trapped(s[d]) ELSE s[d]
    <2>1. CASE q = <<>> \/ r # "panic" BY <1>1, <1>2, <2>1
    <2>2. CASE ~(q = <<>> \/ r # "panic")
      <3>1. Len(q) \in 1 .. Len(q) /\ q[Len(q)] \in F BY <1>1, <1>2, <2>2, EmptySeq
      <3>2. e = [q EXCEPT ![Len(q)] = Trapped(q[Len(q)])] BY <2>2
      <3>3. e \in Seq(F) /\ Len(e) = Len(q) BY <1>2, <1>4, <3>1, <3>2, ExceptSeq
      <3>4. \A d \in 1 .. Len(q) : e[d] = IF d = Len(q) THEN Trapped(q[d]) ELSE q[d]
        BY <1>2, <1>4, <3>1, <3>2, ExceptSeq
      <3> QED BY <1>1, <1>2, <2>2, <3>3, <3>4
    <2> QED BY <2>1, <2>2
  <1> HIDE DEF e, s, F
  <1> QED BY <1>1, <1>3, <1>5 DEF Depth, F, s
-----------------------------------------------------------------------------
(* Frames, instances and the situation.                                    *)

LEMMA HeldAt ==
  ASSUME NEW i
  PROVE  Held(i) <=> \E t \in Threads : \E d \in 1 .. Depth(t) : thr[t][d].i = i
  BY DEF Held, Frames, Depth

\* A name for a new instance is one that nobody uses.
LEMMA NewIsUnused ==
  ASSUME Unused # {}
  PROVE  NewInst \in Unused
  <1> DEFINE R == {ss \in Nat \X Nat : ss[1] < ss[2]}
  <1>1. Unused \subseteq Nat BY HostAssumption DEF Unused
  <1>2. \A x, y \in Nat : y < x => <<y, x>> \in R OBVIOUS
  <1>3. IsWellFoundedOn(R, Nat) BY NatLessThanWellFounded DEF OpToRel
  <1> HIDE DEF R
  <1>4. PICK x \in Unused : \A y \in Unused : ~(<<y, x>> \in R) BY <1>1, <1>3, WFMin
  <1>5. x \in Nat /\ \A y \in Unused : y \in Nat /\ ~(y < x) BY <1>1, <1>2, <1>4
  <1>6. \A y \in Unused : x <= y BY <1>5
  <1> QED BY <1>6 DEF NewInst, Min

LEMMA NilIsNothing == Nil \notin Insts /\ Nil \notin Threads /\ Nil \notin Plugins
  BY HostAssumption

LEMMA SceneFacts ==
  ASSUME scene \in DOMAIN Scenes
  PROVE  /\ Scene.max \in Nat
         /\ \A p \in Plugins : /\ Model(p) \in {"pooled", "singleton", "per_request"}
                               /\ Budget(p) \in Nat /\ Scene.subs[p] \subseteq Plugins
         /\ Scene.calls \in [Threads -> Seq([pl : Plugins, kind : {"entry", "request", "stream", "hook"},
                                             user : Users \union {Nil}])]
  <1> DEFINE c == Scenes[scene]
  <1>1. /\ c.max \in 1 .. MaxOps
        /\ c.model \in [Plugins -> {"pooled", "singleton", "per_request"}]
        /\ c.fuel \in [Plugins -> Nat]
        /\ \A p \in Plugins : c.subs[p] \subseteq Plugins
        /\ c.calls \in [Threads -> Seq([pl : Plugins, kind : {"entry", "request", "stream", "hook"},
                                        user : Users \union {Nil}])]
    BY HostAssumption
  <1>2. c.max \in Nat BY <1>1, HostAssumption
  <1> HIDE DEF c
  <1>3. Scene = c BY DEF Scene, c
  <1> QED BY <1>1, <1>2, <1>3 DEF Model, Budget

\* More arguments and tables do no harm.
LEMMA StacksGrow ==
  ASSUME NEW A, NEW B, A \subseteq B, Stacks(A)
  PROVE  Stacks(B)
  <1>1. FrameOf(A) \subseteq FrameOf(B) /\ InstOf(A) \subseteq InstOf(B) BY DEF FrameOf, InstOf
  <1>2. Seq(FrameOf(A)) \subseteq Seq(FrameOf(B)) BY <1>1, SeqMonotonic
  <1> QED BY <1>1, <1>2 DEF Stacks

LEMMA TopFrame ==
  ASSUME NEW A, Stacks(A), NEW t \in Threads
  PROVE  /\ Depth(t) \in Nat
         /\ \A d \in 1 .. Depth(t) : thr[t][d] \in FrameOf(A)
         /\ Depth(t) > 0 => Depth(t) \in 1 .. Depth(t) /\ Top(t) \in FrameOf(A) /\ Top(t) = thr[t][Depth(t)]
  BY ElementOfSeq DEF Stacks, Depth, Top

LEMMA SameOrder ==
  ASSUME InOrder, UNCHANGED <<scene, thr, mu>>
  PROVE  InOrder'
  <1> USE DEF Scene, Model, Depth, Works, Subscribers
  <1>1. \A level : Leads(level)' <=> Leads(level) BY DEF Leads
  <1>2. Nested' BY <1>1 DEF InOrder, Nested
  <1>3. Asked' BY DEF InOrder, Asked
  <1>4. MutexOwned' BY DEF InOrder, MutexOwned
  <1> QED BY <1>2, <1>3, <1>4 DEF InOrder

\* The stacks lose calls, or their calls go on.
LEMMA OrderKept ==
  ASSUME InOrder, UNCHANGED scene, MutexOwned',
         \A v \in Threads : \A d \in 1 .. Depth(v)' :
           /\ d \in 1 .. Depth(v) /\ thr'[v][d].pl = thr[v][d].pl
           /\ thr'[v][d].todo \subseteq Subscribers(thr[v][d].pl)
  PROVE  InOrder'
  <1>1. \A p : Model(p)' = Model(p) /\ Subscribers(p)' = Subscribers(p) BY DEF Model, Subscribers, Scene
  <1>2. \A level : Leads(level)' <=> Leads(level) BY <1>1 DEF Leads
  <1>3. Nested' BY <1>1, <1>2 DEF InOrder, Nested
  <1>4. Asked' BY <1>1 DEF Asked
  <1> QED BY <1>3, <1>4 DEF InOrder

\* No mutex changes hands and no call at work ends that holds one.
LEMMA MutexKept ==
  ASSUME InOrder, UNCHANGED <<scene, mu>>, mu \in [Plugins -> Threads \union {Nil}],
         \A v \in Threads : \A d \in 1 .. Depth(v) : Works(v, d) /\ Model(thr[v][d].pl) = "singleton" =>
           d \in 1 .. Depth(v)' /\ Works(v, d)' /\ thr'[v][d].pl = thr[v][d].pl
  PROVE  MutexOwned'
  <1>1. \A p : Model(p)' = Model(p) BY DEF Model, Scene
  <1> SUFFICES ASSUME NEW p \in Plugins, mu[p] # Nil, NEW v, v = mu[p]
               PROVE  /\ Model(p) = "singleton"
                      /\ \E d \in 1 .. Depth(v)' : Works(v, d)' /\ thr'[v][d].pl = p
    BY <1>1 DEF MutexOwned, Depth, Works
  <1>2. v \in Threads OBVIOUS
  <1>3. Model(p) = "singleton" /\ \E d \in 1 .. Depth(v) : Works(v, d) /\ thr[v][d].pl = p
    BY DEF InOrder, MutexOwned
  <1> QED BY <1>2, <1>3

\* What is idle stays so while it is not taken.
LEMMA IdleStay ==
  ASSUME Idling, UNCHANGED <<scene, pool, single>>,
         \A p \in Plugins : pool[p] \in Seq(Insts) /\ single[p] \in Insts \union {Nil},
         \A i \in Insts : Held(i)' => Held(i),
         \A i \in Insts : inst'[i].st = inst[i].st /\ inst'[i].pl = inst[i].pl
  PROVE  Idling'
  <1>1. \A p : Model(p)' = Model(p) BY DEF Model, Scene
  <1> SUFFICES ASSUME NEW p \in Plugins
               PROVE  /\ Model(p) # "pooled" => pool[p] = <<>>
                      /\ \A n \in 1 .. Len(pool[p]) :
                           ~Held(pool[p][n])' /\ inst'[pool[p][n]].st = "live" /\ inst'[pool[p][n]].pl = p
                      /\ \A n, m \in 1 .. Len(pool[p]) : n # m => pool[p][n] # pool[p][m]
                      /\ Model(p) # "singleton" => single[p] = Nil
                      /\ single[p] # Nil => inst'[single[p]].pl = p /\ inst'[single[p]].st = "live"
    BY <1>1 DEF Idling
  <1>2. /\ Model(p) # "pooled" => pool[p] = <<>>
        /\ \A n \in 1 .. Len(pool[p]) :
             ~Held(pool[p][n]) /\ inst[pool[p][n]].st = "live" /\ inst[pool[p][n]].pl = p
        /\ \A n, m \in 1 .. Len(pool[p]) : n # m => pool[p][n] # pool[p][m]
        /\ Model(p) # "singleton" => single[p] = Nil
        /\ single[p] # Nil => inst[single[p]].pl = p /\ inst[single[p]].st = "live"
    BY DEF Idling
  <1>3. ASSUME NEW n \in 1 .. Len(pool[p])
        PROVE  ~Held(pool[p][n])' /\ inst'[pool[p][n]].st = "live" /\ inst'[pool[p][n]].pl = p
    <2> DEFINE i == pool[p][n]
    <2>1. i \in Insts BY ElementOfSeq
    <2>2. ~Held(i) /\ inst[i].st = "live" /\ inst[i].pl = p BY <1>2
    <2>3. pool' = pool OBVIOUS
    <2> SUFFICES ASSUME NEW j, j = i PROVE ~Held(j)' /\ inst'[j].st = "live" /\ inst'[j].pl = p
      BY <2>3 DEF Held, Frames
    <2> HIDE DEF i
    <2> QED BY <2>1, <2>2
  <1>4. single[p] # Nil => inst'[single[p]].pl = p /\ inst'[single[p]].st = "live" BY <1>2
  <1> QED BY <1>2, <1>3, <1>4

\* Nothing these parts speak of changes.
LEMMA ElsewhereKeeps ==
  ASSUME HostInv, UNCHANGED <<scene, calls, thr, inst, pool, single, mu, shut, lost, out>>
  PROVE  HostInv'
  <1> USE DEF Depth, Model, Budget, Scene, Works
  <1>1. HostTypes'
    <2>1. \A A : Stacks(A)' <=> Stacks(A) BY DEF Stacks
    <2> QED BY <2>1 DEF HostInv, HostTypes
  <1>2. CallsSound' BY SMTT(30) DEF HostInv, CallsSound, CallSound, FuelSound, Reported
  <1>3. Apart' BY DEF HostInv, Apart
  <1>4. Idling'
    <2>1. \A i : Held(i)' <=> Held(i) BY DEF Held, Frames
    <2>2. Idling /\ \A p \in Plugins : pool[p] \in Seq(Insts) /\ single[p] \in Insts \union {Nil}
      BY DEF HostInv, HostTypes
    <2> QED BY <2>1, <2>2, IdleStay
  <1>5. Counted' BY DEF HostInv, Counted, Busy
  <1>6. FuelIsOwn' BY DEF HostInv, FuelIsOwn
  <1>7. InOrder' BY SameOrder DEF HostInv
  <1> QED BY <1>1, <1>2, <1>3, <1>4, <1>5, <1>6, <1>7 DEF HostInv
-----------------------------------------------------------------------------
(* The innermost call of a thread goes on with the instance it has.        *)

\* What its new frame and the instances look like.
GoesOn(t, g) ==
  /\ Depth(t) > 0 /\ Top(t).pc \notin {"acq", "new", "put"}
  /\ thr' = SetTop(t, g)
  /\ g.i = Top(t).i /\ g.pl = Top(t).pl /\ g.pc \notin {"acq", "new", "put"}
  /\ g.todo \subseteq Subscribers(g.pl)
  /\ \A j \in Insts : /\ inst'[j].st = inst[j].st /\ inst'[j].pl = inst[j].pl
                      /\ j # g.i => inst'[j].cnt = inst[j].cnt /\ inst'[j].tripped = inst[j].tripped
  /\ Budget(g.pl) > 0 => /\ inst'[g.i].cnt = g.n
                         /\ inst'[g.i].tripped => g.n > Budget(g.pl)
                         /\ ~g.broken => g.n <= Budget(g.pl)
  /\ UNCHANGED <<scene, calls, pool, single, mu, shut, lost, out>>

LEMMA GoesOnKeeps ==
  ASSUME HostInv, NEW A, Stacks(A), NEW t \in Threads, NEW g \in FrameOf(A),
         inst' \in [Insts -> InstOf(A)], GoesOn(t, g)
  PROVE  HostInv'
  <1> DEFINE f == Top(t)  D == Depth(t)
  <1>1. /\ D \in Nat /\ D > 0 /\ f = thr[t][D] /\ f \in FrameOf(A)
        /\ thr' = SetTop(t, g)
        /\ f.pc \notin {"acq", "new", "put"} /\ g.pc \notin {"acq", "new", "put"}
        /\ g.i = f.i /\ g.pl = f.pl
        /\ UNCHANGED <<scene, calls, pool, single, mu, shut, lost, out>>
    BY TopFrame DEF GoesOn
  <1>2. \A j \in Insts : /\ inst'[j].st = inst[j].st /\ inst'[j].pl = inst[j].pl
                         /\ j # g.i => inst'[j].cnt = inst[j].cnt /\ inst'[j].tripped = inst[j].tripped
    BY DEF GoesOn
  <1>3. Budget(g.pl) > 0 => /\ inst'[g.i].cnt = g.n
                            /\ inst'[g.i].tripped => g.n > Budget(g.pl)
                            /\ ~g.broken => g.n <= Budget(g.pl)
    BY DEF GoesOn
  <1>4. /\ thr' \in [Threads -> Seq(FrameOf(A))]
        /\ \A v \in Threads : Depth(v)' = Depth(v)
        /\ \A v \in Threads : \A d \in 1 .. Depth(v) :
             thr'[v][d] = IF v = t /\ d = D THEN g ELSE thr[v][d]
    <2>1. thr \in [Threads -> Seq(FrameOf(A))] BY DEF Stacks
    <2>2. Depth(t) > 0 /\ thr' = SetTop(t, g) BY <1>1
    <2> HIDE DEF f, D
    <2>3. /\ thr' \in [Threads -> Seq(FrameOf(A))]
          /\ \A v \in Threads : Depth(v)' = Depth(v)
          /\ \A v \in Threads : \A d \in 1 .. Depth(v) :
               thr'[v][d] = IF v = t /\ d = Depth(t) THEN g ELSE thr[v][d]
      BY <2>1, <2>2, SetTopStack
    <2> QED BY <2>3 DEF D
  <1>5. \A p : Model(p)' = Model(p) /\ Budget(p)' = Budget(p) BY <1>1 DEF Model, Budget, Scene
  <1>6. \A v \in Threads : Depth(v) \in Nat BY TopFrame
  <1>7. \A v \in Threads : \A d \in 1 .. Depth(v) :
          thr'[v][d].i = thr[v][d].i /\ thr'[v][d].pl = thr[v][d].pl /\ (Works(v, d)' <=> Works(v, d))
    BY <1>1, <1>4 DEF Works
  <1>8. CallSound(t, D) /\ FuelSound(t, D) /\ Apart /\ CallsSound
    BY <1>1 DEF HostInv, CallsSound
  <1> HIDE DEF f, D
  <1>a. HostTypes'
    <2>1. Stacks(A)' BY <1>4 DEF Stacks
    <2> QED BY <2>1, <1>1 DEF HostInv, HostTypes
  <1>b. CallsSound'
    <2> SUFFICES ASSUME NEW v \in Threads, NEW d \in 1 .. Depth(v)
                 PROVE  CallSound(v, d)' /\ FuelSound(v, d)' /\ Reported(v, d)'
      BY <1>4 DEF CallsSound
    <2>0. CallSound(v, d) /\ FuelSound(v, d) /\ Reported(v, d) BY <1>8 DEF CallsSound
    <2>1. CASE v = t /\ d = D
      <3>1. thr'[v][d] = g /\ Depth(v)' = D /\ thr[t][D] = f /\ d = D /\ v = t BY <1>1, <1>4, <2>1 DEF D
      <3>2. CallSound(v, d)'
        BY <3>1, <1>1, <1>2, <1>5, <1>8 DEF CallSound
      <3>3. FuelSound(v, d)'
        BY <3>1, <1>1, <1>3, <1>5 DEF FuelSound
      <3> QED BY <3>1, <3>2, <3>3, <1>1 DEF Reported
    <2>2. CASE ~(v = t /\ d = D)
      <3>1. thr'[v][d] = thr[v][d] /\ Depth(v)' = Depth(v) BY <1>4, <2>2
      <3>2. Works(v, d) => thr[v][d].i # g.i /\ thr[v][d].i \in Insts
        <4>1. D \in 1 .. Depth(t) /\ Works(t, D) /\ thr[t][D].i = g.i BY <1>1, <1>6 DEF D, Works
        <4> QED BY <4>1, <2>0, <2>2, <1>8 DEF Apart, CallSound, Works
      <3>3. CallSound(v, d)'
        BY <3>1, <3>2, <2>0, <1>1, <1>2, <1>5 DEF CallSound, Works
      <3>4. FuelSound(v, d)'
        BY <3>1, <3>2, <2>0, <1>2, <1>5 DEF FuelSound, Works
      <3> QED BY <3>1, <3>3, <3>4, <2>0 DEF Reported
    <2> QED BY <2>1, <2>2
  <1>c. Apart'
    BY <1>4, <1>5, <1>7, <1>8 DEF Apart
  <1>d. Idling'
    <2>1. \A i : Held(i)' <=> Held(i)
      <3>1. \A i : Held(i)' <=> \E v \in Threads : \E d \in 1 .. Depth(v)' : thr'[v][d].i = i
        BY DEF Held, Frames, Depth
      <3> QED BY <3>1, HeldAt, <1>4, <1>7
    <2>2. \A p \in Plugins : pool[p] \in Seq(Insts) /\ single[p] \in Insts \union {Nil}
      BY DEF HostInv, HostTypes
    <2>3. UNCHANGED <<scene, pool, single>> /\ Idling BY <1>1 DEF HostInv
    <2> QED BY <2>1, <2>2, <2>3, <1>2, IdleStay
  <1>e. Counted'
    <2>1. \A p \in Plugins : Busy(p)' = Busy(p)
      <3> SUFFICES ASSUME NEW p \in Plugins, NEW i \in Insts
                   PROVE  i \in Busy(p)' <=> i \in Busy(p)
        BY DEF Busy
      <3>1. i \in Busy(p) <=> \E v \in Threads : \E d \in 1 .. Depth(v) :
                                Works(v, d) /\ thr[v][d].i = i /\ thr[v][d].pl = p
        BY DEF Busy
      <3>2. i \in Busy(p)' <=> \E v \in Threads : \E d \in 1 .. Depth(v)' :
                                Works(v, d)' /\ thr'[v][d].i = i /\ thr'[v][d].pl = p
        BY DEF Busy
      <3>3. \A v \in Threads : Depth(v)' = Depth(v) BY <1>4
      <3> QED BY <3>1, <3>2, <3>3, <1>7
    <2>2. Scene' = Scene BY <1>1 DEF Scene
    <2> QED BY <2>1, <2>2, <1>1, <1>5 DEF HostInv, Counted
  <1>f. FuelIsOwn'
    BY <1>1, <1>5 DEF HostInv, FuelIsOwn
  <1>g. InOrder'
    <2>1. InOrder /\ Asked /\ mu \in [Plugins -> Threads \union {Nil}] BY DEF HostInv, InOrder, HostTypes
    <2>2. UNCHANGED <<scene, mu>> BY <1>1
    <2>3. MutexOwned' BY <2>1, <2>2, <1>4, <1>7, MutexKept
    <2>4. ASSUME NEW v \in Threads, NEW d \in 1 .. Depth(v)'
          PROVE  /\ d \in 1 .. Depth(v) /\ thr'[v][d].pl = thr[v][d].pl
                 /\ thr'[v][d].todo \subseteq Subscribers(thr[v][d].pl)
      <3>1. d \in 1 .. Depth(v) /\ thr'[v][d].pl = thr[v][d].pl BY <1>4, <1>7
      <3>2. CASE v = t /\ d = D
        <4>1. thr'[v][d] = g /\ g.todo \subseteq Subscribers(g.pl) BY <3>1, <3>2, <1>4 DEF GoesOn
        <4> QED BY <3>1, <4>1
      <3>3. CASE ~(v = t /\ d = D) BY <3>1, <3>3, <2>1, <1>4 DEF Asked
      <3> QED BY <3>1, <3>2, <3>3
    <2> QED BY <2>1, <2>2, <2>3, <2>4, OrderKept
  <1> QED BY <1>a, <1>b, <1>c, <1>d, <1>e, <1>f, <1>g DEF HostInv
-----------------------------------------------------------------------------
(* A call is made, and waits for an instance.                              *)

\* The calls below stay as they are, but for what the publisher has left to do.
Waits(t, s, g) ==
  /\ Len(s) = Depth(t) /\ thr' = [thr EXCEPT ![t] = Append(s, g)]
  /\ \A d \in 1 .. Depth(t) : s[d].pc = "pub" /\ s[d] = [thr[t][d] EXCEPT !.todo = s[d].todo]
  /\ \A d \in 1 .. Depth(t) : s[d].todo \subseteq thr[t][d].todo
  /\ g.pc = "acq" /\ g.i = Nil /\ g.pl \in Plugins /\ g.todo = {}
  /\ Depth(t) > 0 => g.pl \in thr[t][Depth(t)].todo
  /\ UNCHANGED <<scene, inst, pool, single, mu, shut, lost, out>>

LEMMA WaitsKeeps ==
  ASSUME HostInv, NEW A, Stacks(A), NEW t \in Threads, NEW s \in Seq(FrameOf(A)), NEW g \in FrameOf(A),
         Waits(t, s, g),
         calls' \in [Threads -> Seq([pl : Plugins, kind : {"entry", "request", "stream", "hook"},
                                     user : Users \union {Nil}])]
  PROVE  HostInv'
  <1>1. /\ Len(s) = Depth(t) /\ thr' = [thr EXCEPT ![t] = Append(s, g)]
        /\ g.pc = "acq" /\ g.i = Nil
        /\ UNCHANGED <<scene, inst, pool, single, mu, shut, lost, out>>
    BY DEF Waits
  <1>2. \A v \in Threads : Depth(v) \in Nat BY TopFrame
  <1>3. \A d \in 1 .. Depth(t) :
          /\ s[d].pc = "pub" /\ thr[t][d].pc = "pub"
          /\ s[d].i = thr[t][d].i /\ s[d].pl = thr[t][d].pl /\ s[d].n = thr[t][d].n
          /\ s[d].broken = thr[t][d].broken
    <2> SUFFICES ASSUME NEW d \in 1 .. Depth(t)
                 PROVE  /\ s[d].pc = "pub" /\ thr[t][d].pc = "pub"
                        /\ s[d].i = thr[t][d].i /\ s[d].pl = thr[t][d].pl /\ s[d].n = thr[t][d].n
                        /\ s[d].broken = thr[t][d].broken
      OBVIOUS
    <2>1. s[d].pc = "pub" /\ s[d] = [thr[t][d] EXCEPT !.todo = s[d].todo] BY DEF Waits
    <2>2. thr[t][d] \in FrameOf(A) BY TopFrame
    <2> QED BY <2>1, <2>2 DEF FrameOf
  <1>4. /\ thr' \in [Threads -> Seq(FrameOf(A))]
        /\ \A v \in Threads : Depth(v)' = IF v = t THEN Depth(v) + 1 ELSE Depth(v)
        /\ \A v \in Threads : \A d \in 1 .. Depth(v)' :
             thr'[v][d] = IF v # t THEN thr[v][d] ELSE IF d = Depth(t) + 1 THEN g ELSE s[d]
    <2>1. thr \in [Threads -> Seq(FrameOf(A))] BY DEF Stacks
    <2>2. thr' = [thr EXCEPT ![t] = Append(s, g)] /\ Len(s) = Depth(t) BY <1>1
    <2>3. /\ Append(s, g) \in Seq(FrameOf(A)) /\ Len(Append(s, g)) = Len(s) + 1
          /\ \A d \in 1 .. Len(s) + 1 : Append(s, g)[d] = IF d = Len(s) + 1 THEN g ELSE s[d]
      BY AppendProperties
    <2> QED BY <2>1, <2>2, <2>3 DEF Depth
  <1>5. \A p : Model(p)' = Model(p) /\ Budget(p)' = Budget(p) BY <1>1 DEF Model, Budget, Scene
  <1>6. \A v \in Threads : \A d \in 1 .. Depth(v)' :
          \/ v = t /\ d = Depth(t) + 1 /\ thr'[v][d] = g
          \/ /\ d \in 1 .. Depth(v)
             /\ thr'[v][d].i = thr[v][d].i /\ thr'[v][d].pl = thr[v][d].pl /\ thr'[v][d].pc = thr[v][d].pc
             /\ thr'[v][d].n = thr[v][d].n /\ thr'[v][d].broken = thr[v][d].broken
             /\ v = t => thr[v][d].pc = "pub"
             /\ v # t => thr'[v][d] = thr[v][d]
    <2> SUFFICES ASSUME NEW v \in Threads, NEW d \in 1 .. Depth(v)', ~(v = t /\ d = Depth(t) + 1)
                 PROVE  /\ d \in 1 .. Depth(v)
                        /\ thr'[v][d].i = thr[v][d].i /\ thr'[v][d].pl = thr[v][d].pl
                        /\ thr'[v][d].pc = thr[v][d].pc
                        /\ thr'[v][d].n = thr[v][d].n /\ thr'[v][d].broken = thr[v][d].broken
                        /\ v = t => thr[v][d].pc = "pub"
                        /\ v # t => thr'[v][d] = thr[v][d]
      BY <1>4
    <2>1. d \in 1 .. Depth(v) BY <1>2, <1>4
    <2>2. CASE v # t BY <2>1, <2>2, <1>4
    <2>3. CASE v = t
      <3>1. thr'[v][d] = s[d] BY <2>3, <1>4
      <3> QED BY <2>1, <2>3, <3>1, <1>3
    <2> QED BY <2>2, <2>3
  <1>7. \A v \in Threads : \A d \in 1 .. Depth(v) :
          /\ d \in 1 .. Depth(v)' /\ thr'[v][d].i = thr[v][d].i /\ thr'[v][d].pl = thr[v][d].pl
          /\ thr'[v][d].pc = thr[v][d].pc
    <2> SUFFICES ASSUME NEW v \in Threads, NEW d \in 1 .. Depth(v)
                 PROVE  /\ d \in 1 .. Depth(v)' /\ thr'[v][d].i = thr[v][d].i
                        /\ thr'[v][d].pl = thr[v][d].pl /\ thr'[v][d].pc = thr[v][d].pc
      OBVIOUS
    <2>1. d \in 1 .. Depth(v)' /\ ~(v = t /\ d = Depth(t) + 1) BY <1>2, <1>4
    <2> QED BY <2>1, <1>6
  <1>a. HostTypes'
    <2>1. Stacks(A)' BY <1>1, <1>4 DEF Stacks
    <2> QED BY <2>1, <1>1 DEF HostInv, HostTypes
  <1>b. CallsSound'
    <2> SUFFICES ASSUME NEW v \in Threads, NEW d \in 1 .. Depth(v)'
                 PROVE  CallSound(v, d)' /\ FuelSound(v, d)' /\ Reported(v, d)'
      BY DEF CallsSound
    <2>1. CASE v = t /\ d = Depth(t) + 1
      <3>1. thr'[v][d] = g /\ Depth(v)' = d BY <1>4, <2>1
      <3>2. CallSound(v, d)' BY <3>1, <1>1, <1>2 DEF CallSound
      <3>3. FuelSound(v, d)' BY <3>1, <1>1 DEF FuelSound
      <3> QED BY <3>1, <3>2, <3>3, <1>1 DEF Reported
    <2>2. CASE ~(v = t /\ d = Depth(t) + 1)
      <3>1. /\ d \in 1 .. Depth(v)
            /\ thr'[v][d].i = thr[v][d].i /\ thr'[v][d].pl = thr[v][d].pl /\ thr'[v][d].pc = thr[v][d].pc
            /\ thr'[v][d].n = thr[v][d].n /\ thr'[v][d].broken = thr[v][d].broken
            /\ v = t => thr[v][d].pc = "pub"
            /\ v # t => thr'[v][d] = thr[v][d]
        BY <1>6, <2>2
      <3>2. CallSound(v, d) /\ FuelSound(v, d) /\ Reported(v, d) BY <3>1 DEF HostInv, CallsSound
      <3>3. CallSound(v, d)' BY <3>1, <3>2, <1>1, <1>4, <1>5 DEF CallSound
      <3>4. FuelSound(v, d)' BY <3>1, <3>2, <1>1, <1>5 DEF FuelSound
      <3> QED BY <3>1, <3>2, <3>3, <3>4 DEF Reported
    <2> QED BY <2>1, <2>2
  <1>c. Apart'
    <2> SUFFICES ASSUME NEW v \in Threads, NEW w \in Threads, NEW d \in 1 .. Depth(v)', NEW c \in 1 .. Depth(w)',
                        v # w \/ d # c, Works(v, d)', Works(w, c)'
                 PROVE  /\ thr'[v][d].i # thr'[w][c].i
                        /\ (thr[v][d].pl = thr[w][c].pl => Model(thr[v][d].pl) # "singleton")'
      BY DEF Apart
    <2>1. ~(v = t /\ d = Depth(t) + 1) /\ ~(w = t /\ c = Depth(t) + 1) BY <1>1, <1>4 DEF Works
    <2>2. /\ d \in 1 .. Depth(v) /\ c \in 1 .. Depth(w) /\ Works(v, d) /\ Works(w, c)
          /\ thr'[v][d].i = thr[v][d].i /\ thr'[v][d].pl = thr[v][d].pl
          /\ thr'[w][c].i = thr[w][c].i /\ thr'[w][c].pl = thr[w][c].pl
      BY <2>1, <1>6 DEF Works
    <2> QED BY <2>2, <1>5 DEF HostInv, Apart
  <1>d. Idling'
    <2>1. \A i \in Insts : Held(i)' <=> Held(i)
      <3> SUFFICES ASSUME NEW i \in Insts PROVE Held(i)' <=> Held(i) OBVIOUS
      <3>1. Held(i)' <=> \E v \in Threads : \E d \in 1 .. Depth(v)' : thr'[v][d].i = i
        BY DEF Held, Frames, Depth
      <3>2. i # Nil BY HostAssumption
      <3>3. Held(i)' => Held(i) BY <3>1, <3>2, HeldAt, <1>1, <1>6
      <3>4. Held(i) => Held(i)'
        <4> SUFFICES ASSUME NEW v \in Threads, NEW d \in 1 .. Depth(v), thr[v][d].i = i
                     PROVE  Held(i)'
          BY HeldAt
        <4>1. d \in 1 .. Depth(v)' /\ thr'[v][d].i = i BY <1>7
        <4> QED BY <4>1, <3>1
      <3> QED BY <3>3, <3>4
    <2>2. \A p \in Plugins : pool[p] \in Seq(Insts) /\ single[p] \in Insts \union {Nil}
      BY DEF HostInv, HostTypes
    <2>3. UNCHANGED <<scene, pool, single, inst>> /\ Idling BY <1>1 DEF HostInv
    <2> QED BY <2>1, <2>2, <2>3, IdleStay
  <1>e. Counted'
    <2>1. \A p \in Plugins : Busy(p)' = Busy(p)
      <3> SUFFICES ASSUME NEW p \in Plugins, NEW i \in Insts
                   PROVE  i \in Busy(p)' <=> i \in Busy(p)
        BY DEF Busy
      <3>1. i # Nil BY HostAssumption
      <3>2. i \in Busy(p)' => i \in Busy(p) BY <3>1, <1>1, <1>6 DEF Busy, Works
      <3>3. ASSUME i \in Busy(p) PROVE i \in Busy(p)'
        <4>1. PICK v \in Threads : \E d \in 1 .. Depth(v) : Works(v, d) /\ thr[v][d].i = i /\ thr[v][d].pl = p
          BY <3>3 DEF Busy
        <4>d. PICK d \in 1 .. Depth(v) : Works(v, d) /\ thr[v][d].i = i /\ thr[v][d].pl = p BY <4>1
        <4>2. d \in 1 .. Depth(v)' /\ Works(v, d)' /\ thr'[v][d].i = i /\ thr'[v][d].pl = p
          BY <4>d, <1>7 DEF Works
        <4> QED BY <4>2 DEF Busy
      <3> QED BY <3>2, <3>3
    <2>2. Scene' = Scene BY <1>1 DEF Scene
    <2> QED BY <2>1, <2>2, <1>1, <1>5 DEF HostInv, Counted
  <1>f. FuelIsOwn' BY <1>1, <1>5 DEF HostInv, FuelIsOwn
  <1>g. InOrder'
    <2>1. /\ InOrder /\ Asked /\ Nested /\ mu \in [Plugins -> Threads \union {Nil}]
          /\ \A v \in Threads : \A d \in 1 .. Depth(v) : thr[v][d].pl \in Plugins
      BY TopFrame DEF HostInv, InOrder, HostTypes, FrameOf
    <2>2. /\ UNCHANGED <<scene, mu>> /\ g.pl \in Plugins /\ g.todo = {}
          /\ Depth(t) > 0 => g.pl \in thr[t][Depth(t)].todo
          /\ \A d \in 1 .. Depth(t) : s[d].todo \subseteq thr[t][d].todo
      BY DEF Waits
    <2>3. \A p : Model(p)' = Model(p) /\ Subscribers(p)' = Subscribers(p) BY <2>2 DEF Model, Subscribers, Scene
    <2>4. \A level : Leads(level)' <=> Leads(level) BY <2>3 DEF Leads
    <2>5. MutexOwned'
      <3>1. \A v \in Threads : \A d \in 1 .. Depth(v) :
              d \in 1 .. Depth(v)' /\ (Works(v, d) => Works(v, d)') /\ thr'[v][d].pl = thr[v][d].pl
        BY <1>7 DEF Works
      <3> QED BY <3>1, <2>1, <2>2, MutexKept
    <2>6. Asked'
      <3> SUFFICES ASSUME NEW v \in Threads, NEW d \in 1 .. Depth(v)'
                   PROVE  thr'[v][d].todo \subseteq Subscribers(thr'[v][d].pl)
        BY <2>3 DEF Asked
      <3>1. CASE v = t /\ d = Depth(t) + 1 BY <3>1, <1>4, <2>2
      <3>2. CASE ~(v = t /\ d = Depth(t) + 1)
        <4>1. d \in 1 .. Depth(v) /\ thr'[v][d].pl = thr[v][d].pl BY <3>2, <1>6
        <4>2. thr'[v][d].todo \subseteq thr[v][d].todo BY <3>2, <4>1, <1>4, <2>2
        <4> QED BY <4>1, <4>2, <2>1 DEF Asked
      <3> QED BY <3>1, <3>2
    <2>7. Nested'
      <3> SUFFICES ASSUME NEW level, Leads(level), NEW v \in Threads,
                          NEW d \in 1 .. Depth(v)', NEW c \in 1 .. Depth(v)', d < c,
                          NEW p, p = thr'[v][d].pl, NEW q, q = thr'[v][c].pl
                   PROVE  /\ level[q] <= level[p]
                          /\ Model(p) = "singleton" \/ Model(q) = "singleton" => level[q] < level[p]
        BY <2>3, <2>4 DEF Nested
      <3>1. CASE v = t /\ c = Depth(t) + 1
        <4> DEFINE D == Depth(t)  m == thr[t][D].pl
        <4>1. D \in Nat /\ d \in 1 .. D /\ D \in 1 .. D /\ D > 0 BY <3>1, <1>2, <1>4
        <4>2. q = g.pl /\ p = thr[t][d].pl /\ p \in Plugins /\ m \in Plugins
          BY <3>1, <4>1, <1>4, <1>6, <2>1
        <4>3. q \in Subscribers(m) BY <4>1, <4>2, <2>1, <2>2 DEF Asked
        <4>4. level[q] <= level[m] /\ (Model(m) = "singleton" \/ Model(q) = "singleton" => level[q] < level[m])
          BY <4>2, <4>3 DEF Leads
        <4>5. level[q] \in Nat /\ level[m] \in Nat /\ level[p] \in Nat BY <4>2, <2>2 DEF Leads
        <4>6. CASE d = D BY <4>2, <4>4, <4>6
        <4>7. CASE d # D
          <5>1. d < D BY <4>1, <4>7
          <5>2. level[m] <= level[p] /\ (Model(p) = "singleton" \/ Model(m) = "singleton" => level[m] < level[p])
            BY <5>1, <4>1, <4>2, <2>1 DEF Nested
          <5> HIDE DEF m
          <5> QED BY <5>2, <4>4, <4>5
        <4> QED BY <4>6, <4>7
      <3>2. CASE ~(v = t /\ c = Depth(t) + 1)
        <4>1. /\ c \in 1 .. Depth(v) /\ d \in 1 .. Depth(v)
              /\ thr'[v][c].pl = thr[v][c].pl /\ thr'[v][d].pl = thr[v][d].pl
          BY <3>2, <1>2, <1>4, <1>6
        <4> QED BY <4>1, <2>1 DEF Nested
      <3> QED BY <3>1, <3>2
    <2> QED BY <2>5, <2>6, <2>7 DEF InOrder
  <1> QED BY <1>a, <1>b, <1>c, <1>d, <1>e, <1>f, <1>g DEF HostInv
-----------------------------------------------------------------------------
(* A waiting call gets an instance: the head of the pool, the plugin's     *)
(* only one, or a new one.                                                 *)

Enters(t, g) ==
  LET p == Top(t).pl IN
  /\ Depth(t) > 0 /\ Top(t).pc = "acq"
  /\ thr' = SetTop(t, g)
  /\ g.pl = p /\ g.pc \in {"run", "rel"} /\ g.i \in Insts /\ ~Held(g.i) /\ g.todo = Top(t).todo
  /\ inst'[g.i].st = "live" /\ inst'[g.i].pl = p
  /\ \A j \in Insts \ {g.i} : inst'[j] = inst[j]
  /\ Budget(p) > 0 => inst'[g.i].cnt = g.n /\ ~inst'[g.i].tripped /\ g.n <= Budget(p)
  /\ UNCHANGED <<scene, calls, shut, lost, out>>
  /\ \/ /\ Model(p) = "pooled" /\ pool[p] # <<>> /\ g.i = Head(pool[p])
        /\ pool' = [pool EXCEPT ![p] = Tail(@)] /\ UNCHANGED <<single, mu>>
     \/ /\ Model(p) = "singleton" /\ mu[p] = Nil /\ (g.i = single[p] \/ inst[g.i].st # "live")
        /\ mu' = [mu EXCEPT ![p] = t] /\ single' = [single EXCEPT ![p] = g.i] /\ UNCHANGED pool
     \/ /\ Model(p) = "per_request" /\ inst[g.i].st # "live"
        /\ UNCHANGED <<pool, single, mu>>

LEMMA EntersKeeps ==
  ASSUME HostInv, NEW A, Stacks(A), NEW t \in Threads, NEW g \in FrameOf(A),
         inst' \in [Insts -> InstOf(A)], Enters(t, g)
  PROVE  HostInv'
  <1> DEFINE f == Top(t)  D == Depth(t)  p == Top(t).pl
  <1>1. /\ D \in Nat /\ D > 0 /\ D \in 1 .. D /\ f = thr[t][D] /\ f \in FrameOf(A)
        /\ thr' = SetTop(t, g)
        /\ f.pc = "acq" /\ g.pc \in {"run", "rel"} /\ g.pl = p /\ f.pl = p /\ p \in Plugins
        /\ g.i \in Insts /\ ~Held(g.i) /\ g.i # Nil
        /\ UNCHANGED <<scene, calls, shut, lost, out>>
    BY TopFrame, NilIsNothing DEF Enters, FrameOf
  <1>2. /\ inst'[g.i].st = "live" /\ inst'[g.i].pl = p
        /\ \A j \in Insts \ {g.i} : inst'[j] = inst[j]
        /\ Budget(p) > 0 => inst'[g.i].cnt = g.n /\ ~inst'[g.i].tripped /\ g.n <= Budget(p)
    BY DEF Enters
  <1>3. \/ /\ Model(p) = "pooled" /\ pool[p] # <<>> /\ g.i = Head(pool[p])
           /\ pool' = [pool EXCEPT ![p] = Tail(@)] /\ UNCHANGED <<single, mu>>
        \/ /\ Model(p) = "singleton" /\ mu[p] = Nil /\ (g.i = single[p] \/ inst[g.i].st # "live")
           /\ mu' = [mu EXCEPT ![p] = t] /\ single' = [single EXCEPT ![p] = g.i] /\ UNCHANGED pool
        \/ /\ Model(p) = "per_request" /\ inst[g.i].st # "live"
           /\ UNCHANGED <<pool, single, mu>>
    BY DEF Enters
  <1>4. /\ thr' \in [Threads -> Seq(FrameOf(A))]
        /\ \A v \in Threads : Depth(v)' = Depth(v)
        /\ \A v \in Threads : \A d \in 1 .. Depth(v) :
             thr'[v][d] = IF v = t /\ d = D THEN g ELSE thr[v][d]
    <2>1. thr \in [Threads -> Seq(FrameOf(A))] BY DEF Stacks
    <2>2. Depth(t) > 0 /\ thr' = SetTop(t, g) BY <1>1
    <2> HIDE DEF f, D, p
    <2>3. /\ thr' \in [Threads -> Seq(FrameOf(A))]
          /\ \A v \in Threads : Depth(v)' = Depth(v)
          /\ \A v \in Threads : \A d \in 1 .. Depth(v) :
               thr'[v][d] = IF v = t /\ d = Depth(t) THEN g ELSE thr[v][d]
      BY <2>1, <2>2, SetTopStack
    <2> QED BY <2>3 DEF D
  <1>5. \A q : Model(q)' = Model(q) /\ Budget(q)' = Budget(q) BY <1>1 DEF Model, Budget, Scene
  <1>6. \A v \in Threads : Depth(v) \in Nat BY TopFrame
  <1>7. CallSound(t, D) /\ Apart /\ CallsSound /\ Idling /\ Counted /\ f.i = Nil
    BY <1>1 DEF HostInv, CallsSound, CallSound
  <1>8. \A q \in Plugins : pool[q] \in Seq(Insts) /\ single[q] \in Insts \union {Nil} /\ mu[q] \in Threads \union {Nil}
    BY DEF HostInv, HostTypes
  <1>9. pool \in [Plugins -> Seq(Insts)] /\ single \in [Plugins -> Insts \union {Nil}]
        /\ mu \in [Plugins -> Threads \union {Nil}]
    BY DEF HostInv, HostTypes
  <1>10. \A q \in Plugins : \A n \in 1 .. Len(pool[q]) : pool[q][n] \in Insts BY <1>8, ElementOfSeq
  <1> HIDE DEF f, D, p
  <1>11. Model(p) = "pooled" =>
           /\ g.i = pool[p][1] /\ Len(pool[p]) \in Nat /\ Len(pool[p]) > 0 /\ Tail(pool[p]) \in Seq(Insts)
           /\ Len(Tail(pool[p])) = Len(pool[p]) - 1
           /\ \A n \in 1 .. Len(Tail(pool[p])) : Tail(pool[p])[n] = pool[p][n + 1]
           /\ pool' = [pool EXCEPT ![p] = Tail(@)] /\ single' = single /\ mu' = mu
    <2> SUFFICES ASSUME Model(p) = "pooled"
                 PROVE  /\ g.i = pool[p][1] /\ Len(pool[p]) \in Nat /\ Len(pool[p]) > 0
                        /\ Tail(pool[p]) \in Seq(Insts)
                        /\ Len(Tail(pool[p])) = Len(pool[p]) - 1
                        /\ \A n \in 1 .. Len(Tail(pool[p])) : Tail(pool[p])[n] = pool[p][n + 1]
                        /\ pool' = [pool EXCEPT ![p] = Tail(@)] /\ single' = single /\ mu' = mu
      OBVIOUS
    <2>1. pool[p] # <<>> /\ g.i = Head(pool[p]) /\ pool' = [pool EXCEPT ![p] = Tail(@)] /\ single' = single /\ mu' = mu
      BY <1>3
    <2>2. pool[p] \in Seq(Insts) BY <1>1, <1>8
    <2>3. /\ Tail(pool[p]) \in Seq(Insts) /\ Len(Tail(pool[p])) = Len(pool[p]) - 1
          /\ \A n \in 1 .. Len(Tail(pool[p])) : Tail(pool[p])[n] = pool[p][n + 1]
      BY <2>1, <2>2, HeadTailProperties
    <2>4. Len(pool[p]) \in Nat /\ Len(pool[p]) > 0 /\ Head(pool[p]) = pool[p][1] BY <2>1, <2>2, EmptySeq
    <2> QED BY <2>1, <2>3, <2>4
  \* Other plugins' instances are other instances.
  <1>12. /\ \A q \in Plugins : \A n \in 1 .. Len(pool[q]) : pool[q][n] = g.i => q = p /\ Model(p) = "pooled" /\ n = 1
         /\ \A q \in Plugins : single[q] = g.i => q = p /\ Model(p) = "singleton"
    <2>0. Model(p) \in {"pooled", "singleton", "per_request"} BY <1>3
    <2>1. CASE inst[g.i].st # "live" /\ Model(p) # "pooled"
      BY <2>1, <1>1, <1>7 DEF Idling
    <2>2. CASE Model(p) = "pooled"
      <3>1. 1 \in 1 .. Len(pool[p]) /\ pool[p][1] = g.i BY <2>2, <1>11
      <3>2. inst[g.i].pl = p BY <3>1, <1>1, <1>7 DEF Idling
      <3> QED BY <3>1, <3>2, <2>2, <1>1, <1>7 DEF Idling
    <2>3. CASE Model(p) = "singleton" /\ g.i = single[p]
      <3>1. inst[g.i].pl = p /\ pool[p] = <<>> BY <2>3, <1>1, <1>7 DEF Idling
      <3> QED BY <3>1, <2>3, <1>1, <1>7 DEF Idling
    <2> QED BY <2>0, <2>1, <2>2, <2>3, <1>3
  <1>a. HostTypes'
    <2>1. Stacks(A)' BY <1>4 DEF Stacks
    <2>2. pool' \in [Plugins -> Seq(Insts)] BY <1>3, <1>9, <1>11
    <2>3. single' \in [Plugins -> Insts \union {Nil}] /\ mu' \in [Plugins -> Threads \union {Nil}]
      BY <1>1, <1>3, <1>9
    <2> QED BY <2>1, <2>2, <2>3, <1>1 DEF HostInv, HostTypes
  <1>b. CallsSound'
    <2> SUFFICES ASSUME NEW v \in Threads, NEW d \in 1 .. Depth(v)
                 PROVE  CallSound(v, d)' /\ FuelSound(v, d)' /\ Reported(v, d)'
      BY <1>4 DEF CallsSound
    <2>0. CallSound(v, d) /\ FuelSound(v, d) /\ Reported(v, d) BY <1>7 DEF CallsSound
    <2>1. CASE v = t /\ d = D
      <3>1. thr'[v][d] = g /\ Depth(v)' = D /\ d = D /\ v = t BY <1>4, <2>1 DEF D
      <3>2. CallSound(v, d)'
        BY <3>1, <1>1, <1>2, <1>3, <1>5, <1>9 DEF CallSound
      <3>3. FuelSound(v, d)'
        BY <3>1, <1>1, <1>2, <1>5 DEF FuelSound
      <3> QED BY <3>1, <3>2, <3>3, <1>1 DEF Reported
    <2>2. CASE ~(v = t /\ d = D)
      <3>1. thr'[v][d] = thr[v][d] /\ Depth(v)' = Depth(v) BY <1>4, <2>2
      <3>2. Works(v, d) => thr[v][d].i # g.i /\ thr[v][d].i \in Insts
        BY <2>0, <1>1, HeldAt DEF CallSound, Works
      <3>3. Works(v, d) => inst'[thr[v][d].i] = inst[thr[v][d].i] BY <3>2, <1>2
      <3>4. CallSound(v, d)'
        <4>1. thr[v][d].pl \in Plugins
          <5>1. thr[v][d] \in FrameOf(A) BY TopFrame
          <5> QED BY <5>1 DEF FrameOf
        <4>2. Works(v, d) /\ Model(thr[v][d].pl) = "singleton" => thr[v][d].pl # p \/ mu[p] # Nil
          BY <2>0, NilIsNothing DEF CallSound, Works
        <4>3. Works(v, d) /\ Model(thr[v][d].pl) = "singleton" =>
                mu'[thr[v][d].pl] = mu[thr[v][d].pl] /\ single'[thr[v][d].pl] = single[thr[v][d].pl]
          BY <4>1, <4>2, <1>3, <1>9
        <4> QED BY <3>1, <3>3, <4>3, <2>0, <1>5 DEF CallSound, Works
      <3>5. FuelSound(v, d)' BY <3>1, <3>3, <2>0, <1>5 DEF FuelSound, Works
      <3> QED BY <3>1, <3>4, <3>5, <2>0 DEF Reported
    <2> QED BY <2>1, <2>2
  <1>c. Apart'
    <2> SUFFICES ASSUME NEW v \in Threads, NEW w \in Threads, NEW d \in 1 .. Depth(v), NEW c \in 1 .. Depth(w),
                        v # w \/ d # c, Works(v, d)', Works(w, c)'
                 PROVE  /\ thr'[v][d].i # thr'[w][c].i
                        /\ (thr[v][d].pl = thr[w][c].pl => Model(thr[v][d].pl) # "singleton")'
      BY <1>4 DEF Apart
    <2>1. \A u \in Threads : \A e \in 1 .. Depth(u) :
            Works(u, e) => thr[u][e].i # g.i /\ (thr[u][e].pl = p => Model(p) # "singleton")
      <3> SUFFICES ASSUME NEW u \in Threads, NEW e \in 1 .. Depth(u), Works(u, e)
                   PROVE  thr[u][e].i # g.i /\ (thr[u][e].pl = p => Model(p) # "singleton")
        OBVIOUS
      <3>1. CallSound(u, e) BY <1>7 DEF CallsSound
      <3>2. thr[u][e].i # g.i BY <1>1, HeldAt
      <3>3. thr[u][e].pl = p /\ Model(p) = "singleton" => mu[p] = u BY <3>1 DEF CallSound, Works
      <3> QED BY <3>2, <3>3, <1>3, NilIsNothing
    <2>2. CASE v = t /\ d = D
      <3>1. thr'[v][d] = g /\ thr'[w][c] = thr[w][c] /\ Works(w, c) BY <2>2, <1>4 DEF Works
      <3> QED BY <3>1, <2>1, <1>1, <1>5
    <2>3. CASE w = t /\ c = D
      <3>1. thr'[w][c] = g /\ thr'[v][d] = thr[v][d] /\ Works(v, d) BY <2>3, <1>4 DEF Works
      <3> QED BY <3>1, <2>1, <1>1, <1>5
    <2>4. CASE ~(v = t /\ d = D) /\ ~(w = t /\ c = D)
      <3>1. thr'[w][c] = thr[w][c] /\ Works(w, c) /\ thr'[v][d] = thr[v][d] /\ Works(v, d)
        BY <2>4, <1>4 DEF Works
      <3> QED BY <3>1, <1>5, <1>7 DEF Apart
    <2> QED BY <2>2, <2>3, <2>4
  <1>d. Idling'
    <2>1. \A i \in Insts : Held(i)' => Held(i) \/ i = g.i
      <3> SUFFICES ASSUME NEW i \in Insts, Held(i)' PROVE Held(i) \/ i = g.i OBVIOUS
      <3>1. \E v \in Threads : \E d \in 1 .. Depth(v)' : thr'[v][d].i = i
        BY DEF Held, Frames, Depth
      <3> QED BY <3>1, HeldAt, <1>4
    <2> SUFFICES ASSUME NEW q \in Plugins
                 PROVE  /\ Model(q)' # "pooled" => pool'[q] = <<>>
                        /\ \A n \in 1 .. Len(pool'[q]) :
                             ~Held(pool[q][n])' /\ inst'[pool'[q][n]].st = "live" /\ inst'[pool'[q][n]].pl = q
                        /\ \A n, m \in 1 .. Len(pool'[q]) : n # m => pool'[q][n] # pool'[q][m]
                        /\ Model(q)' # "singleton" => single'[q] = Nil
                        /\ single'[q] # Nil => inst'[single'[q]].pl = q /\ inst'[single'[q]].st = "live"
      BY DEF Idling
    <2>2. /\ Model(q) # "pooled" => pool[q] = <<>>
          /\ \A n \in 1 .. Len(pool[q]) :
               ~Held(pool[q][n]) /\ inst[pool[q][n]].st = "live" /\ inst[pool[q][n]].pl = q
          /\ \A n, m \in 1 .. Len(pool[q]) : n # m => pool[q][n] # pool[q][m]
          /\ Model(q) # "singleton" => single[q] = Nil
          /\ single[q] # Nil => inst[single[q]].pl = q /\ inst[single[q]].st = "live"
      BY <1>7 DEF Idling
    <2>3. \A n \in 1 .. Len(pool'[q]) :
            \E m \in 1 .. Len(pool[q]) : pool'[q][n] = pool[q][m] /\ pool[q][m] # g.i
                                         /\ m = IF q = p /\ Model(p) = "pooled" THEN n + 1 ELSE n
      <3>1. CASE q = p /\ Model(p) = "pooled"
        <4>1. pool'[q] = Tail(pool[p]) BY <3>1, <1>1, <1>9, <1>11
        <4>2. \A n \in 1 .. Len(pool'[q]) : n + 1 \in 1 .. Len(pool[q]) /\ n + 1 # 1 BY <3>1, <4>1, <1>11
        <4> QED BY <3>1, <4>1, <4>2, <1>11, <1>12
      <3>2. CASE ~(q = p /\ Model(p) = "pooled")
        <4>1. pool'[q] = pool[q] BY <3>2, <1>3, <1>9
        <4> QED BY <3>2, <4>1, <1>12
      <3> QED BY <3>1, <3>2
    <2>4. /\ \A n \in 1 .. Len(pool'[q]) :
               ~Held(pool[q][n])' /\ inst'[pool'[q][n]].st = "live" /\ inst'[pool'[q][n]].pl = q
          /\ \A n, m \in 1 .. Len(pool'[q]) : n # m => pool'[q][n] # pool'[q][m]
      <3>1. \A n \in 1 .. Len(pool'[q]) : pool'[q][n] \in Insts /\ pool'[q][n] # g.i BY <2>3, <1>10
      <3>2. \A n \in 1 .. Len(pool'[q]) : inst'[pool'[q][n]] = inst[pool'[q][n]] BY <3>1, <1>2
      <3>3. \A n \in 1 .. Len(pool'[q]) : ~Held(pool[q][n])'
        <4> SUFFICES ASSUME NEW n \in 1 .. Len(pool'[q]), NEW i, i = pool'[q][n]
                     PROVE  ~Held(i)' 
          BY DEF Held, Frames
        <4>1. i \in Insts /\ i # g.i /\ ~Held(i) BY <3>1, <2>2, <2>3
        <4> QED BY <4>1, <2>1
      <3>4. \A n \in 1 .. Len(pool'[q]) : inst'[pool'[q][n]].st = "live" /\ inst'[pool'[q][n]].pl = q
        <4> SUFFICES ASSUME NEW n \in 1 .. Len(pool'[q]), NEW i, i = pool'[q][n]
                     PROVE  inst'[i].st = "live" /\ inst'[i].pl = q
          OBVIOUS
        <4>1. inst[i].st = "live" /\ inst[i].pl = q BY SMTT(30), <2>2, <2>3
        <4> QED BY <4>1, <3>2
      <3>5. \A n, m \in 1 .. Len(pool'[q]) : n # m => pool'[q][n] # pool'[q][m] BY <2>2, <2>3
      <3> QED BY <3>3, <3>4, <3>5
    <2>5. /\ Model(q)' # "pooled" => pool'[q] = <<>>
          /\ Model(q)' # "singleton" => single'[q] = Nil
      BY <2>2, <1>1, <1>3, <1>5, <1>9
    <2>6. single'[q] # Nil => inst'[single'[q]].pl = q /\ inst'[single'[q]].st = "live"
      <3>1. single'[q] = single[q] \/ (q = p /\ single'[q] = g.i) BY <1>3, <1>9
      <3>2. CASE single'[q] = g.i /\ q = p BY <3>2, <1>2
      <3>3. CASE single'[q] = single[q] /\ single[q] # g.i BY <3>3, <1>2, <1>8, <2>2
      <3>4. CASE single[q] = g.i /\ single'[q] = single[q] BY <3>4, <1>2, <1>12
      <3> QED BY <3>1, <3>2, <3>3, <3>4
    <2> QED BY <2>4, <2>5, <2>6
  <1>e. Counted'
    <2> SUFFICES ASSUME NEW q \in Plugins
                 PROVE  /\ IsFiniteSet(Busy(q)')
                        /\ Model(q)' = "pooled" /\ shut'[q] = "no" =>
                             Len(pool'[q]) + Cardinality(Busy(q)') + lost'[q] = Len(Scene.warm[q])
      BY <1>1 DEF Counted, Scene
    <2>1. Busy(q)' = IF q = p THEN Busy(q) \union {g.i} ELSE Busy(q)
      <3> SUFFICES ASSUME NEW i \in Insts
                   PROVE  i \in Busy(q)' <=> (i \in Busy(q) \/ (q = p /\ i = g.i))
        BY <1>1 DEF Busy
      <3>1. ASSUME i \in Busy(q) PROVE i \in Busy(q)'
        <4>1. PICK v \in Threads : \E d \in 1 .. Depth(v) : Works(v, d) /\ thr[v][d].i = i /\ thr[v][d].pl = q
          BY <3>1 DEF Busy
        <4>2. PICK d \in 1 .. Depth(v) : Works(v, d) /\ thr[v][d].i = i /\ thr[v][d].pl = q BY <4>1
        <4>3. ~(v = t /\ d = D) BY <4>2, <1>1 DEF Works
        <4>4. d \in 1 .. Depth(v)' /\ Works(v, d)' /\ thr'[v][d].i = i /\ thr'[v][d].pl = q
          BY <4>2, <4>3, <1>4 DEF Works
        <4>5. \E e \in 1 .. Depth(v)' : Works(v, e)' /\ thr'[v][e].i = i /\ thr'[v][e].pl = q BY <4>4
        <4> QED BY <4>5 DEF Busy
      <3>2. ASSUME q = p, i = g.i PROVE i \in Busy(q)'
        <4>1. D \in 1 .. Depth(t)' /\ thr'[t][D] = g BY <1>1, <1>4 DEF D
        <4>2. \E e \in 1 .. Depth(t)' : thr'[t][e].pc # "acq" /\ thr'[t][e].i = i /\ thr'[t][e].pl = q
          BY <3>2, <4>1, <1>1
        <4>3. i \in Insts BY <3>2, <1>1
        <4> QED BY <4>2, <4>3 DEF Busy, Works
      <3>3. ASSUME i \in Busy(q)' PROVE i \in Busy(q) \/ (q = p /\ i = g.i)
        <4>1. PICK v \in Threads : \E d \in 1 .. Depth(v)' : Works(v, d)' /\ thr'[v][d].i = i /\ thr'[v][d].pl = q
          BY <3>3 DEF Busy
        <4>2. PICK d \in 1 .. Depth(v)' : Works(v, d)' /\ thr'[v][d].i = i /\ thr'[v][d].pl = q BY <4>1
        <4>3. d \in 1 .. Depth(v) BY <1>4
        <4>4. CASE v = t /\ d = D BY <4>2, <4>3, <4>4, <1>1, <1>4
        <4>5. CASE ~(v = t /\ d = D)
          <5>1. Works(v, d) /\ thr[v][d].i = i /\ thr[v][d].pl = q BY <4>2, <4>3, <4>5, <1>4 DEF Works
          <5> QED BY <5>1, <4>3 DEF Busy
        <4> QED BY <4>4, <4>5
      <3> QED BY <3>1, <3>2, <3>3
    <2>2. g.i \notin Busy(q) BY <1>1, HeldAt DEF Busy
    <2>3. IsFiniteSet(Busy(q)) /\ Cardinality(Busy(q)) \in Nat
      <3>1. IsFiniteSet(Busy(q)) BY <1>7 DEF Counted
      <3> QED BY <3>1, FS_CardinalityType
    <2>4. IsFiniteSet(Busy(q)') /\ Cardinality(Busy(q)') = IF q = p THEN Cardinality(Busy(q)) + 1 ELSE Cardinality(Busy(q))
      <3>1. CASE q = p
        <4>1. Busy(q)' = Busy(q) \union {g.i} BY <3>1, <2>1
        <4> DEFINE B == Busy(q)
        <4>2. IsFiniteSet(B) /\ g.i \notin B /\ Busy(q)' = B \union {g.i} BY <4>1, <2>2, <2>3
        <4> HIDE DEF B
        <4>3. IsFiniteSet(B \union {g.i}) /\ Cardinality(B \union {g.i}) = Cardinality(B) + 1
          BY <4>2, FS_AddElement
        <4> QED BY <3>1, <4>2, <4>3 DEF B
      <3>2. CASE q # p
        <4>1. Busy(q)' = Busy(q) BY <3>2, <2>1
        <4> QED BY <3>2, <4>1, <2>3
      <3> QED BY <3>1, <3>2
    <2>5. Model(q) = "pooled" =>
            Len(pool'[q]) = IF q = p THEN Len(pool[q]) - 1 ELSE Len(pool[q])
      BY <1>3, <1>9, <1>11
    <2>6. Len(pool[q]) \in Nat /\ lost[q] \in Nat
      BY <1>8, LenProperties DEF HostInv, HostTypes
    <2>7. Model(q) = "pooled" /\ shut[q] = "no" =>
            Len(pool[q]) + Cardinality(Busy(q)) + lost[q] = Len(Scene.warm[q])
      BY <1>7 DEF Counted
    <2> QED BY <2>3, <2>4, <2>5, <2>6, <2>7, <1>1, <1>5
  <1>f. FuelIsOwn' BY <1>1, <1>5 DEF HostInv, FuelIsOwn
  <1>g. InOrder'
    <2>1. InOrder /\ Asked /\ MutexOwned /\ g.todo = f.todo BY DEF HostInv, InOrder, Enters, f
    <2>2. MutexOwned'
      <3>1. \A v \in Threads : \A d \in 1 .. Depth(v) : Works(v, d) =>
              d \in 1 .. Depth(v)' /\ Works(v, d)' /\ thr'[v][d].pl = thr[v][d].pl
        BY <1>1, <1>4 DEF Works
      <3>2. CASE mu' = mu BY <3>1, <3>2, <2>1, <1>1, <1>9, MutexKept
      <3>3. CASE Model(p) = "singleton" /\ mu' = [mu EXCEPT ![p] = t]
        <4> SUFFICES ASSUME NEW q \in Plugins, mu'[q] # Nil, NEW v, v = mu'[q]
                     PROVE  /\ Model(q) = "singleton"
                            /\ \E d \in 1 .. Depth(v)' : Works(v, d)' /\ thr'[v][d].pl = q
          BY <1>5 DEF MutexOwned, Depth, Works
        <4>1. CASE q = p
          <5>1. v = t /\ D \in 1 .. Depth(t)' /\ thr'[t][D] = g BY <4>1, <3>3, <1>1, <1>4, <1>9 DEF D
          <5>2. \E d \in 1 .. Depth(v)' : thr'[v][d].pc # "acq" /\ thr'[v][d].pl = q BY <5>1, <4>1, <1>1
          <5> QED BY <5>2, <4>1, <3>3 DEF Works
        <4>2. CASE q # p
          <5>1. v = mu[q] /\ v \in Threads BY <4>2, <3>3, <1>9, NilIsNothing
          <5>2. Model(q) = "singleton" /\ \E d \in 1 .. Depth(v) : Works(v, d) /\ thr[v][d].pl = q
            BY <5>1, <2>1 DEF MutexOwned
          <5> QED BY <5>1, <5>2, <3>1
        <4> QED BY <4>1, <4>2
      <3> QED BY <3>2, <3>3, <1>3
    <2>3. ASSUME NEW v \in Threads, NEW d \in 1 .. Depth(v)'
          PROVE  /\ d \in 1 .. Depth(v) /\ thr'[v][d].pl = thr[v][d].pl
                 /\ thr'[v][d].todo \subseteq Subscribers(thr[v][d].pl)
      <3>1. d \in 1 .. Depth(v) /\ thr'[v][d].pl = thr[v][d].pl /\ thr'[v][d].todo = thr[v][d].todo
        BY <2>1, <1>1, <1>4
      <3> QED BY <3>1, <2>1 DEF Asked
    <2> QED BY <2>1, <2>2, <2>3, <1>1, OrderKept
  <1> QED BY <1>a, <1>b, <1>c, <1>d, <1>e, <1>f, <1>g DEF HostInv
-----------------------------------------------------------------------------
(* A call ends, and its instance goes back, if it had one.                 *)

Ends(t, r, o) ==
  LET f == Top(t)
      p == f.pl IN
  /\ Depth(t) > 0 /\ EndCall(t, r, o) /\ r \in Verdicts
  /\ Budget(p) > 0 => (r = "fuel" => f.n > Budget(p)) /\ (r = "ok" => f.n <= Budget(p))
  /\ UNCHANGED <<scene, calls, shut>>
  /\ \A j \in Insts \ {f.i} : inst'[j] = inst[j]
  /\ f.i \in Insts => inst'[f.i].pl = inst[f.i].pl
  /\ \/ f.pc = "acq" /\ UNCHANGED <<inst, pool, single, mu, lost>>
     \/ /\ f.pc # "acq" /\ Model(p) = "pooled" /\ UNCHANGED <<inst, single, mu>>
        /\ \/ f.pc = "put" /\ pool' = [pool EXCEPT ![p] = Append(@, f.i)] /\ UNCHANGED lost
           \/ lost' = [lost EXCEPT ![p] = @ + 1] /\ UNCHANGED pool
           \/ shut[p] # "no" /\ UNCHANGED <<pool, lost>>
     \/ /\ f.pc # "acq" /\ Model(p) = "singleton" /\ mu' = [mu EXCEPT ![p] = Nil] /\ UNCHANGED <<pool, lost>>
        /\ \/ single' = single /\ inst'[f.i].st = inst[f.i].st
           \/ single' = [single EXCEPT ![p] = Nil]
     \/ f.pc # "acq" /\ Model(p) = "per_request" /\ UNCHANGED <<pool, single, mu, lost>>

LEMMA EndsKeeps ==
  ASSUME HostInv, NEW A, Stacks(A), NEW t \in Threads, NEW r, NEW o,
         inst' \in [Insts -> InstOf(A)], Ends(t, r, o)
  PROVE  HostInv'
  <1> DEFINE f == Top(t)  D == Depth(t)  p == Top(t).pl
  <1>1. /\ D \in Nat /\ D > 0 /\ D \in 1 .. D /\ f = thr[t][D] /\ f \in FrameOf(A)
        /\ f.pl = p /\ p \in Plugins /\ f.n \in Nat
        /\ r \in Verdicts
        /\ UNCHANGED <<scene, calls, shut>>
    BY TopFrame, NilIsNothing DEF Ends, FrameOf
  <1>2. /\ \A j \in Insts \ {f.i} : inst'[j] = inst[j]
        /\ f.i \in Insts => inst'[f.i].pl = inst[f.i].pl
    BY DEF Ends
  <1>3. \/ f.pc = "acq" /\ UNCHANGED <<inst, pool, single, mu, lost>>
        \/ /\ f.pc # "acq" /\ Model(p) = "pooled" /\ UNCHANGED <<inst, single, mu>>
           /\ \/ f.pc = "put" /\ pool' = [pool EXCEPT ![p] = Append(@, f.i)] /\ UNCHANGED lost
              \/ lost' = [lost EXCEPT ![p] = @ + 1] /\ UNCHANGED pool
              \/ shut[p] # "no" /\ UNCHANGED <<pool, lost>>
        \/ /\ f.pc # "acq" /\ Model(p) = "singleton" /\ mu' = [mu EXCEPT ![p] = Nil] /\ UNCHANGED <<pool, lost>>
           /\ \/ single' = single /\ inst'[f.i].st = inst[f.i].st
              \/ single' = [single EXCEPT ![p] = Nil]
        \/ f.pc # "acq" /\ Model(p) = "per_request" /\ UNCHANGED <<pool, single, mu, lost>>
    BY DEF Ends
  <1>4. /\ thr' \in [Threads -> Seq(FrameOf(A))]
        /\ \A v \in Threads : Depth(v)' = IF v = t THEN Depth(v) - 1 ELSE Depth(v)
        /\ \A v \in Threads : \A d \in 1 .. Depth(v)' :
             thr'[v][d] = IF v = t /\ d = D - 1 /\ r = "panic" THEN Trapped(thr[v][d]) ELSE thr[v][d]
    <2>1. thr \in [Threads -> Seq(FrameOf(A))] BY DEF Stacks
    <2>2. Depth(t) > 0 /\ EndCall(t, r, o) BY DEF Ends
    <2> HIDE DEF f, D, p
    <2>3. /\ thr' \in [Threads -> Seq(FrameOf(A))]
          /\ \A v \in Threads : Depth(v)' = IF v = t THEN Depth(v) - 1 ELSE Depth(v)
          /\ \A v \in Threads : \A d \in 1 .. Depth(v)' :
              thr'[v][d] = IF v = t /\ d = Depth(t) - 1 /\ r = "panic" THEN Trapped(thr[v][d]) ELSE thr[v][d]
      BY <2>1, <2>2, PopStack
    <2> QED BY <2>3 DEF D
  <1>5. \A q : Model(q)' = Model(q) /\ Budget(q)' = Budget(q) BY <1>1 DEF Model, Budget, Scene
  <1>6. \A v \in Threads : Depth(v) \in Nat BY TopFrame
  <1>7. CallSound(t, D) /\ Apart /\ CallsSound /\ Idling /\ Counted /\ FuelIsOwn
    BY <1>1 DEF HostInv, CallsSound
  <1>8. /\ pool \in [Plugins -> Seq(Insts)] /\ single \in [Plugins -> Insts \union {Nil}]
        /\ mu \in [Plugins -> Threads \union {Nil}] /\ lost \in [Plugins -> Nat]
        /\ out \in [Threads -> [r : Verdicts, n : Nat, pl : Plugins \union {Nil}]]
    BY DEF HostInv, HostTypes
  <1>9. \A q \in Plugins : \A n \in 1 .. Len(pool[q]) : pool[q][n] \in Insts
    <2>1. \A q \in Plugins : pool[q] \in Seq(Insts) BY <1>8
    <2> QED BY <2>1, ElementOfSeq
  <1>10. out' = [out EXCEPT ![t] = [r |-> r, n |-> f.n, pl |-> p]] BY DEF Ends, EndCall
  <1>11. Budget(p) > 0 => (r = "fuel" => f.n > Budget(p)) /\ (r = "ok" => f.n <= Budget(p)) BY DEF Ends
  <1> HIDE DEF f, D, p
  <1>12. f.pc # "acq" => /\ f.i \in Insts /\ inst[f.i].pl = p /\ Works(t, D) /\ Held(f.i)
                         /\ f.pc = "put" => inst[f.i].st = "live"
                         /\ Model(p) = "singleton" => single[p] \in {Nil, f.i}
    <2> SUFFICES ASSUME f.pc # "acq"
                 PROVE  /\ f.i \in Insts /\ inst[f.i].pl = p /\ Works(t, D) /\ Held(f.i)
                        /\ f.pc = "put" => inst[f.i].st = "live"
                        /\ Model(p) = "singleton" => single[p] \in {Nil, f.i}
      OBVIOUS
    <2>1. \E v \in Threads : \E d \in 1 .. Depth(v) : thr[v][d].i = f.i BY <1>1 DEF D
    <2>2. Held(f.i) BY <2>1, HeldAt
    <2> QED BY <2>2, <1>1, <1>7 DEF CallSound, Works
  <1>13. \A v \in Threads : \A d \in 1 .. Depth(v)' :
           /\ d \in 1 .. Depth(v) /\ ~(v = t /\ d = D)
           /\ thr'[v][d].i = thr[v][d].i /\ thr'[v][d].pl = thr[v][d].pl /\ thr'[v][d].n = thr[v][d].n
           /\ Works(v, d)' <=> Works(v, d)
           /\ \/ thr'[v][d] = thr[v][d]
              \/ /\ v = t /\ d = D - 1 /\ thr[v][d].pc = "pub"
                 /\ thr'[v][d].pc = "rel" /\ thr'[v][d].broken
    <2> SUFFICES ASSUME NEW v \in Threads, NEW d \in 1 .. Depth(v)'
                 PROVE  /\ d \in 1 .. Depth(v) /\ ~(v = t /\ d = D)
                        /\ thr'[v][d].i = thr[v][d].i /\ thr'[v][d].pl = thr[v][d].pl /\ thr'[v][d].n = thr[v][d].n
                        /\ Works(v, d)' <=> Works(v, d)
                        /\ \/ thr'[v][d] = thr[v][d]
                           \/ /\ v = t /\ d = D - 1 /\ thr[v][d].pc = "pub"
                              /\ thr'[v][d].pc = "rel" /\ thr'[v][d].broken
      OBVIOUS
    <2>1. d \in 1 .. Depth(v) /\ ~(v = t /\ d = D) BY <1>1, <1>4, <1>6 DEF D
    <2>2. thr[v][d] \in FrameOf(A) /\ CallSound(v, d) BY <2>1, <1>7, TopFrame DEF CallsSound
    <2>3. CASE v = t /\ d = D - 1 /\ r = "panic"
      <3>1. thr'[v][d] = Trapped(thr[v][d]) BY <2>3, <1>4
      <3>2. thr[v][d].pc = "pub" BY <2>1, <2>2, <2>3, <1>1, <1>6 DEF CallSound, D
      <3>3. /\ thr'[v][d].i = thr[v][d].i /\ thr'[v][d].pl = thr[v][d].pl /\ thr'[v][d].n = thr[v][d].n
            /\ thr'[v][d].pc = "rel" /\ thr'[v][d].broken
        BY <3>1, <2>2 DEF Trapped, FrameOf
      <3> QED BY <2>1, <2>3, <3>2, <3>3 DEF Works
    <2>4. CASE ~(v = t /\ d = D - 1 /\ r = "panic")
      <3>1. thr'[v][d] = thr[v][d] BY <2>4, <1>4
      <3> QED BY <3>1, <2>1 DEF Works
    <2> QED BY <2>3, <2>4
  \* The others keep their instances.
  <1>14. \A v \in Threads : \A d \in 1 .. Depth(v)' : Works(v, d) =>
           /\ thr[v][d].i \in Insts /\ thr[v][d].i # f.i /\ inst'[thr[v][d].i] = inst[thr[v][d].i]
           /\ thr[v][d].pl = p => Model(p) # "singleton" \/ f.pc = "acq"
    <2> SUFFICES ASSUME NEW v \in Threads, NEW d \in 1 .. Depth(v)', Works(v, d)
                 PROVE  /\ thr[v][d].i \in Insts /\ thr[v][d].i # f.i /\ inst'[thr[v][d].i] = inst[thr[v][d].i]
                        /\ thr[v][d].pl = p => Model(p) # "singleton" \/ f.pc = "acq"
      OBVIOUS
    <2>1. d \in 1 .. Depth(v) /\ ~(v = t /\ d = D) BY <1>13
    <2>2. thr[v][d].i \in Insts BY <2>1, <1>7 DEF CallsSound, CallSound, Works
    <2>3. CASE f.pc = "acq"
      <3>1. f.i = Nil BY <2>3, <1>1, <1>7 DEF CallSound
      <3> QED BY <3>1, <2>2, <2>3, <1>2, NilIsNothing
    <2>4. CASE f.pc # "acq"
      <3>1. Works(t, D) /\ D \in 1 .. Depth(t) BY <2>4, <1>12, <1>1 DEF D
      <3>2. thr[v][d].i # f.i /\ (thr[v][d].pl = p => Model(p) # "singleton")
        BY <3>1, <2>1, <1>1, <1>7 DEF Apart
      <3> QED BY <3>2, <2>2, <1>2
    <2> QED BY <2>3, <2>4
  <1>a. HostTypes'
    <2>1. Stacks(A)' BY <1>4 DEF Stacks
    <2>2. pool' \in [Plugins -> Seq(Insts)]
      <3>1. pool' = pool \/ (f.pc = "put" /\ pool' = [pool EXCEPT ![p] = Append(@, f.i)]) BY <1>3
      <3>2. CASE pool' = pool BY <3>2, <1>8
      <3>3. CASE f.pc = "put" /\ pool' = [pool EXCEPT ![p] = Append(@, f.i)]
        <4>1. Append(pool[p], f.i) \in Seq(Insts) BY <3>3, <1>1, <1>8, <1>12, AppendProperties
        <4> QED BY <3>3, <4>1, <1>1, <1>8
      <3> QED BY <3>1, <3>2, <3>3
    <2>3. single' \in [Plugins -> Insts \union {Nil}] BY <1>3, <1>8
    <2>4. mu' \in [Plugins -> Threads \union {Nil}] BY <1>3, <1>8
    <2>5. lost' \in [Plugins -> Nat]
      <3>1. lost[p] + 1 \in Nat BY <1>1, <1>8
      <3>2. lost' = lost \/ lost' = [lost EXCEPT ![p] = lost[p] + 1] BY <1>3
      <3> QED BY <3>1, <3>2, <1>8
    <2>6. out' \in [Threads -> [r : Verdicts, n : Nat, pl : Plugins \union {Nil}]] BY <1>1, <1>8, <1>10
    <2> QED BY <2>1, <2>2, <2>3, <2>4, <2>5, <2>6, <1>1 DEF HostInv, HostTypes
  <1>b. CallsSound'
    <2> SUFFICES ASSUME NEW v \in Threads, NEW d \in 1 .. Depth(v)'
                 PROVE  CallSound(v, d)' /\ FuelSound(v, d)' /\ Reported(v, d)'
      BY DEF CallsSound
    <2>1. d \in 1 .. Depth(v) /\ CallSound(v, d) /\ FuelSound(v, d) /\ Reported(v, d)
      BY <1>7, <1>13 DEF CallsSound
    <2>2. thr[v][d].pl \in Plugins
      <3>1. thr[v][d] \in FrameOf(A) BY <2>1, TopFrame
      <3> QED BY <3>1 DEF FrameOf
    <2>3. Works(v, d) /\ Model(thr[v][d].pl) = "singleton" =>
            mu'[thr[v][d].pl] = mu[thr[v][d].pl] /\ single'[thr[v][d].pl] = single[thr[v][d].pl]
      BY <2>2, <1>3, <1>8, <1>14
    <2>4. d < Depth(v)' => thr'[v][d] = thr[v][d] /\ d < Depth(v)
      BY <1>4, <1>6, <1>13 DEF D
    <2>5. CASE thr'[v][d] = thr[v][d]
      <3>1. CallSound(v, d)' BY <2>1, <2>3, <2>4, <2>5, <1>5, <1>14 DEF CallSound, Works
      <3>2. FuelSound(v, d)' BY <2>1, <2>5, <1>5, <1>14 DEF FuelSound, Works
      <3> QED BY <3>1, <3>2, <2>1, <2>5 DEF Reported
    <2>6. CASE thr'[v][d] # thr[v][d]
      <3>1. /\ thr[v][d].pc = "pub" /\ thr'[v][d].pc = "rel" /\ thr'[v][d].broken /\ ~(d < Depth(v)')
            /\ thr'[v][d].i = thr[v][d].i /\ thr'[v][d].pl = thr[v][d].pl /\ thr'[v][d].n = thr[v][d].n
            /\ Works(v, d)
        BY <2>4, <2>6, <1>13 DEF Works
      <3>2. CallSound(v, d)' BY <3>1, <2>1, <2>3, <1>5, <1>14 DEF CallSound, Works
      <3>3. FuelSound(v, d)' BY <3>1, <2>1, <1>5, <1>14 DEF FuelSound, Works
      <3> QED BY <3>1, <3>2, <3>3 DEF Reported
    <2> QED BY <2>5, <2>6
  <1>c. Apart'
    <2> SUFFICES ASSUME NEW v \in Threads, NEW w \in Threads, NEW d \in 1 .. Depth(v)', NEW c \in 1 .. Depth(w)',
                        v # w \/ d # c, Works(v, d)', Works(w, c)'
                 PROVE  /\ thr'[v][d].i # thr'[w][c].i
                        /\ (thr[v][d].pl = thr[w][c].pl => Model(thr[v][d].pl) # "singleton")'
      BY DEF Apart
    <2>1. /\ d \in 1 .. Depth(v) /\ c \in 1 .. Depth(w) /\ Works(v, d) /\ Works(w, c)
          /\ thr'[v][d].i = thr[v][d].i /\ thr'[v][d].pl = thr[v][d].pl
          /\ thr'[w][c].i = thr[w][c].i /\ thr'[w][c].pl = thr[w][c].pl
      BY <1>13
    <2> QED BY <2>1, <1>5, <1>7 DEF Apart
  <1>d. Idling'
    <2>1. \A i \in Insts : Held(i)' => Held(i) /\ i # f.i
      <3> SUFFICES ASSUME NEW i \in Insts, Held(i)' PROVE Held(i) /\ i # f.i OBVIOUS
      <3>1. PICK v \in Threads : \E d \in 1 .. Depth(v)' : thr'[v][d].i = i
        BY DEF Held, Frames, Depth
      <3>2. PICK d \in 1 .. Depth(v)' : thr'[v][d].i = i BY <3>1
      <3>3. d \in 1 .. Depth(v) /\ thr[v][d].i = i BY <3>2, <1>13
      <3>4. CallSound(v, d) BY <3>3, <1>7 DEF CallsSound
      <3>5. Works(v, d) BY <3>3, <3>4, NilIsNothing DEF CallSound, Works
      <3>6. i # f.i BY <3>3, <3>5, <1>14
      <3>7. \E e \in 1 .. Depth(v) : thr[v][e].i = i BY <3>3
      <3> QED BY <3>6, <3>7, HeldAt
    <2> SUFFICES ASSUME NEW q \in Plugins
                 PROVE  /\ Model(q)' # "pooled" => pool'[q] = <<>>
                        /\ \A n \in 1 .. Len(pool'[q]) :
                             ~Held(pool[q][n])' /\ inst'[pool'[q][n]].st = "live" /\ inst'[pool'[q][n]].pl = q
                        /\ \A n, m \in 1 .. Len(pool'[q]) : n # m => pool'[q][n] # pool'[q][m]
                        /\ Model(q)' # "singleton" => single'[q] = Nil
                        /\ single'[q] # Nil => inst'[single'[q]].pl = q /\ inst'[single'[q]].st = "live"
      BY DEF Idling
    <2>2. /\ Model(q) # "pooled" => pool[q] = <<>>
          /\ \A n \in 1 .. Len(pool[q]) :
               ~Held(pool[q][n]) /\ inst[pool[q][n]].st = "live" /\ inst[pool[q][n]].pl = q
          /\ \A n, m \in 1 .. Len(pool[q]) : n # m => pool[q][n] # pool[q][m]
          /\ Model(q) # "singleton" => single[q] = Nil
          /\ single[q] # Nil => inst[single[q]].pl = q /\ inst[single[q]].st = "live"
      BY <1>7 DEF Idling
    <2>3. \A n \in 1 .. Len(pool[q]) : pool[q][n] \in Insts /\ pool[q][n] # f.i /\ inst'[pool[q][n]] = inst[pool[q][n]]
      <3> SUFFICES ASSUME NEW n \in 1 .. Len(pool[q])
                   PROVE  pool[q][n] \in Insts /\ pool[q][n] # f.i /\ inst'[pool[q][n]] = inst[pool[q][n]]
        OBVIOUS
      <3>1. pool[q][n] \in Insts /\ ~Held(pool[q][n]) BY <1>9, <2>2
      <3>2. pool[q][n] # f.i
        <4>1. CASE f.pc = "acq"
          <5>1. f.i = Nil BY <4>1, <1>1, <1>7 DEF CallSound
          <5> QED BY <5>1, <3>1, NilIsNothing
        <4>2. CASE f.pc # "acq" BY <4>2, <3>1, <1>12
        <4> QED BY <4>1, <4>2
      <3> QED BY <3>1, <3>2, <1>2
    <2>4. \/ pool'[q] = pool[q]
          \/ /\ q = p /\ f.pc = "put" /\ inst' = inst /\ Model(p) = "pooled"
             /\ Len(pool'[q]) = Len(pool[q]) + 1 /\ Len(pool[q]) \in Nat
             /\ \A n \in 1 .. Len(pool[q]) : pool'[q][n] = pool[q][n]
             /\ pool'[q][Len(pool[q]) + 1] = f.i
      <3>1. CASE f.pc = "put" /\ pool' = [pool EXCEPT ![p] = Append(@, f.i)] /\ q = p /\ inst' = inst /\ Model(p) = "pooled"
        <4>1. pool[q] \in Seq(Insts) /\ f.i \in Insts /\ pool'[q] = Append(pool[q], f.i) BY <3>1, <1>8, <1>12
        <4> QED BY <3>1, <4>1, AppendProperties, LenProperties
      <3> QED BY <3>1, <1>3, <1>8
    <2>5. \A n \in 1 .. Len(pool'[q]) :
            \/ n \in 1 .. Len(pool[q]) /\ pool'[q][n] = pool[q][n]
            \/ /\ pool'[q][n] = f.i /\ f.pc = "put" /\ inst' = inst /\ q = p
               /\ n = Len(pool[q]) + 1 /\ Len(pool[q]) \in Nat
      BY <2>4
    <2>6. \A n \in 1 .. Len(pool'[q]) :
             ~Held(pool[q][n])' /\ inst'[pool'[q][n]].st = "live" /\ inst'[pool'[q][n]].pl = q
      <3> SUFFICES ASSUME NEW n \in 1 .. Len(pool'[q]), NEW i, i = pool'[q][n]
                   PROVE  ~Held(i)' /\ inst'[i].st = "live" /\ inst'[i].pl = q
        BY DEF Held, Frames
      <3>1. CASE n \in 1 .. Len(pool[q]) /\ pool'[q][n] = pool[q][n]
        <4>1. i = pool[q][n] /\ i \in Insts /\ inst'[i] = inst[i] BY <3>1, <2>3
        <4> QED BY <4>1, <3>1, <2>1, <2>2
      <3>2. CASE pool'[q][n] = f.i /\ f.pc = "put" /\ inst' = inst /\ q = p
        BY <3>2, <2>1, <1>12
      <3> QED BY <3>1, <3>2, <2>5
    <2>7. \A n, m \in 1 .. Len(pool'[q]) : n # m => pool'[q][n] # pool'[q][m]
      <3> SUFFICES ASSUME NEW n \in 1 .. Len(pool'[q]), NEW m \in 1 .. Len(pool'[q]), n # m
                   PROVE  pool'[q][n] # pool'[q][m]
        OBVIOUS
      <3>1. CASE n \in 1 .. Len(pool[q]) /\ m \in 1 .. Len(pool[q])
                 /\ pool'[q][n] = pool[q][n] /\ pool'[q][m] = pool[q][m]
        BY <3>1, <2>2
      <3>2. CASE n \in 1 .. Len(pool[q]) /\ pool'[q][n] = pool[q][n] /\ pool'[q][m] = f.i BY <3>2, <2>3
      <3>3. CASE m \in 1 .. Len(pool[q]) /\ pool'[q][m] = pool[q][m] /\ pool'[q][n] = f.i BY <3>3, <2>3
      <3> QED BY <3>1, <3>2, <3>3, <2>5
    <2>8. /\ Model(q)' # "pooled" => pool'[q] = <<>>
          /\ Model(q)' # "singleton" => single'[q] = Nil
      BY <2>2, <1>1, <1>3, <1>5, <1>8
    <2>9. single'[q] # Nil => inst'[single'[q]].pl = q /\ inst'[single'[q]].st = "live"
      <3> SUFFICES ASSUME single'[q] # Nil
                   PROVE  inst'[single'[q]].pl = q /\ inst'[single'[q]].st = "live"
        OBVIOUS
      <3>1. single'[q] = single[q] /\ single[q] \in Insts /\ Model(q) = "singleton" BY <2>2, <1>3, <1>8
      <3>2. inst[single[q]].pl = q /\ inst[single[q]].st = "live" BY <3>1, <2>2, NilIsNothing
      <3>3. CASE single[q] # f.i BY <3>1, <3>2, <3>3, <1>2
      <3>4. CASE single[q] = f.i /\ f.pc = "acq" BY <3>1, <3>2, <3>4, <1>3
      <3>5. CASE single[q] = f.i /\ f.pc # "acq"
        <4>1. q = p /\ Model(p) = "singleton" BY <3>1, <3>2, <3>5, <1>12
        <4>2. inst'[f.i].st = inst[f.i].st /\ inst'[f.i].pl = inst[f.i].pl
          BY <4>1, <3>1, <3>5, <1>2, <1>3, <1>8, <1>12, NilIsNothing
        <4> QED BY <4>2, <3>1, <3>2, <3>5
      <3> QED BY <3>3, <3>4, <3>5
    <2> QED BY <2>6, <2>7, <2>8, <2>9
  <1>e. Counted'
    <2> SUFFICES ASSUME NEW q \in Plugins
                 PROVE  /\ IsFiniteSet(Busy(q)')
                        /\ Model(q)' = "pooled" /\ shut'[q] = "no" =>
                             Len(pool'[q]) + Cardinality(Busy(q)') + lost'[q] = Len(Scene.warm[q])
      BY <1>1 DEF Counted, Scene
    <2>1. \A i \in Insts : i \in Busy(q)' <=> i \in Busy(q) /\ i # f.i
      <3> SUFFICES ASSUME NEW i \in Insts PROVE i \in Busy(q)' <=> i \in Busy(q) /\ i # f.i OBVIOUS
      <3>1. ASSUME i \in Busy(q)' PROVE i \in Busy(q) /\ i # f.i
        <4>1. PICK v \in Threads : \E d \in 1 .. Depth(v)' : Works(v, d)' /\ thr'[v][d].i = i /\ thr'[v][d].pl = q
          BY <3>1 DEF Busy
        <4>2. PICK d \in 1 .. Depth(v)' : Works(v, d)' /\ thr'[v][d].i = i /\ thr'[v][d].pl = q BY <4>1
        <4>3. d \in 1 .. Depth(v) /\ Works(v, d) /\ thr[v][d].i = i /\ thr[v][d].pl = q BY <4>2, <1>13
        <4>4. i # f.i BY <4>2, <4>3, <1>14
        <4>5. \E e \in 1 .. Depth(v) : Works(v, e) /\ thr[v][e].i = i /\ thr[v][e].pl = q BY <4>3
        <4> QED BY <4>4, <4>5 DEF Busy
      <3>2. ASSUME i \in Busy(q), i # f.i PROVE i \in Busy(q)'
        <4>1. PICK v \in Threads : \E d \in 1 .. Depth(v) : Works(v, d) /\ thr[v][d].i = i /\ thr[v][d].pl = q
          BY <3>2 DEF Busy
        <4>2. PICK d \in 1 .. Depth(v) : Works(v, d) /\ thr[v][d].i = i /\ thr[v][d].pl = q BY <4>1
        <4>3. ~(v = t /\ d = D) BY <4>2, <3>2, <1>1
        <4>4. d \in 1 .. Depth(v)' BY <4>3, <1>4, <1>6 DEF D
        <4>5. \E e \in 1 .. Depth(v)' : Works(v, e)' /\ thr'[v][e].i = i /\ thr'[v][e].pl = q
          BY <4>2, <4>4, <1>13
        <4> QED BY <4>5 DEF Busy
      <3> QED BY <3>1, <3>2
    <2>2. Busy(q)' = Busy(q) \ {f.i} /\ Busy(q) \subseteq Insts
      <3>1. Busy(q)' \subseteq Insts /\ Busy(q) \subseteq Insts BY DEF Busy
      <3> QED BY <3>1, <2>1
    <2>3. IsFiniteSet(Busy(q)) /\ Cardinality(Busy(q)) \in Nat
      <3>1. IsFiniteSet(Busy(q)) BY <1>7 DEF Counted
      <3> QED BY <3>1, FS_CardinalityType
    <2>4. f.i \in Busy(q) <=> q = p /\ f.pc # "acq"
      <3>1. CASE f.pc = "acq"
        <4>1. f.i = Nil BY <3>1, <1>1, <1>7 DEF CallSound
        <4> QED BY <3>1, <4>1, <2>2, NilIsNothing
      <3>2. CASE f.pc # "acq"
        <4>1. ASSUME f.i \in Busy(q) PROVE q = p
          <5>1. PICK v \in Threads : \E d \in 1 .. Depth(v) : Works(v, d) /\ thr[v][d].i = f.i /\ thr[v][d].pl = q
            BY <4>1 DEF Busy
          <5>2. PICK d \in 1 .. Depth(v) : Works(v, d) /\ thr[v][d].i = f.i /\ thr[v][d].pl = q BY <5>1
          <5>3. CallSound(v, d) BY <1>7 DEF CallsSound
          <5>4. inst[f.i].pl = q BY <5>2, <5>3 DEF CallSound, Works
          <5> QED BY <5>4, <3>2, <1>12
        <4>2. ASSUME q = p PROVE f.i \in Busy(q)
          <5>1. \E d \in 1 .. Depth(t) : Works(t, d) /\ thr[t][d].i = f.i /\ thr[t][d].pl = q
            BY <4>2, <3>2, <1>1, <1>12 DEF D
          <5> QED BY <5>1, <3>2, <1>12 DEF Busy
        <4> QED BY <3>2, <4>1, <4>2
      <3> QED BY <3>1, <3>2
    <2>5. /\ IsFiniteSet(Busy(q)')
          /\ Cardinality(Busy(q)') = IF q = p /\ f.pc # "acq" THEN Cardinality(Busy(q)) - 1 ELSE Cardinality(Busy(q))
      <3> DEFINE B == Busy(q)
      <3>1. IsFiniteSet(B) /\ Busy(q)' = B \ {f.i} BY <2>2, <2>3
      <3> HIDE DEF B
      <3>2. /\ IsFiniteSet(B \ {f.i})
            /\ Cardinality(B \ {f.i}) = IF f.i \in B THEN Cardinality(B) - 1 ELSE Cardinality(B)
        BY <3>1, FS_RemoveElement
      <3> QED BY <3>1, <3>2, <2>4 DEF B
    <2>6. Len(pool[q]) \in Nat /\ lost[q] \in Nat BY <1>8, LenProperties
    <2>7. Model(q) = "pooled" /\ shut[q] = "no" =>
            Len(pool[q]) + Cardinality(Busy(q)) + lost[q] = Len(Scene.warm[q])
      BY <1>7 DEF Counted
    <2>8. Model(q) = "pooled" /\ shut[q] = "no" =>
            Len(pool'[q]) + lost'[q] = IF q = p /\ f.pc # "acq" THEN Len(pool[q]) + lost[q] + 1 ELSE Len(pool[q]) + lost[q]
      <3>1. CASE f.pc # "acq" /\ q = p /\ Model(p) = "pooled" /\ shut[p] = "no"
        <4>1. CASE f.pc = "put" /\ pool' = [pool EXCEPT ![p] = Append(@, f.i)] /\ lost' = lost
          <5>1. pool[q] \in Seq(Insts) /\ f.i \in Insts /\ pool'[q] = Append(pool[q], f.i) BY <3>1, <4>1, <1>8, <1>12
          <5>2. Len(pool'[q]) = Len(pool[q]) + 1 BY <5>1, AppendProperties
          <5> QED BY <3>1, <4>1, <5>2, <2>6
        <4>2. CASE lost' = [lost EXCEPT ![p] = @ + 1] /\ pool' = pool
          <5>1. lost'[q] = lost[q] + 1 BY <4>2, <3>1, <1>8
          <5> QED BY <4>2, <3>1, <5>1, <2>6
        <4> QED BY <4>1, <4>2, <3>1, <1>3
      <3>2. CASE f.pc = "acq" BY <3>2, <1>3
      <3>3. CASE f.pc # "acq" /\ q # p /\ Model(q) = "pooled" BY <3>3, <1>3, <1>8
      <3> QED BY <3>1, <3>2, <3>3
    <2>9. Len(pool'[q]) \in Nat /\ lost'[q] \in Nat BY <1>a, LenProperties DEF HostTypes
    <2>10. Model(q)' = Model(q) /\ shut'[q] = shut[q] BY <1>1, <1>5
    <2>11. ASSUME Model(q) = "pooled", shut[q] = "no"
           PROVE  Len(pool'[q]) + Cardinality(Busy(q)') + lost'[q] = Len(Scene.warm[q])
      <3> DEFINE a == Len(pool[q])  b == Cardinality(Busy(q))  c == lost[q]  k == Len(Scene.warm[q])
                 a2 == Len(pool'[q])  b2 == Cardinality(Busy(q)')  c2 == lost'[q]
      <3>1. a \in Nat /\ b \in Nat /\ c \in Nat /\ a2 \in Nat /\ c2 \in Nat BY <2>3, <2>6, <2>9
      <3>2. a + b + c = k BY <2>7, <2>11
      <3>3. \/ a2 + c2 = a + c + 1 /\ b2 = b - 1
            \/ a2 + c2 = a + c /\ b2 = b
        BY <2>5, <2>8, <2>11
      <3> HIDE DEF a, b, c, k, a2, b2, c2
      <3>4. a2 + b2 + c2 = k BY <3>1, <3>2, <3>3
      <3> QED BY <3>4 DEF a2, b2, c2, k
    <2> QED BY <2>5, <2>10, <2>11
  <1>f. FuelIsOwn'
    <2> SUFFICES ASSUME NEW v \in Threads, out'[v].pl # Nil, Budget(out'[v].pl) > 0
                 PROVE  /\ out'[v].r = "fuel" => out'[v].n > Budget(out'[v].pl)
                        /\ out'[v].r = "ok" => out'[v].n <= Budget(out'[v].pl)
      BY <1>1 DEF FuelIsOwn, Budget, Scene
    <2>1. CASE v = t
      <3>1. out'[v] = [r |-> r, n |-> f.n, pl |-> p] BY <2>1, <1>8, <1>10
      <3> QED BY <3>1, <1>11
    <2>2. CASE v # t
      <3>1. out'[v] = out[v] BY <2>2, <1>8, <1>10
      <3> QED BY <3>1, <1>7 DEF FuelIsOwn
    <2> QED BY <2>1, <2>2
  <1>g. InOrder'
    <2>1. InOrder /\ Asked /\ MutexOwned BY DEF HostInv, InOrder
    <2>2. MutexOwned'
      <3>1. \A v \in Threads : \A d \in 1 .. Depth(v) : Works(v, d) /\ ~(v = t /\ d = D) =>
              d \in 1 .. Depth(v)' /\ Works(v, d)' /\ thr'[v][d].pl = thr[v][d].pl
        <4> SUFFICES ASSUME NEW v \in Threads, NEW d \in 1 .. Depth(v), Works(v, d), ~(v = t /\ d = D)
                     PROVE  d \in 1 .. Depth(v)' /\ Works(v, d)' /\ thr'[v][d].pl = thr[v][d].pl
          OBVIOUS
        <4>1. d \in 1 .. Depth(v)' BY <1>4, <1>6 DEF D
        <4> QED BY <4>1, <1>13
      <3>2. CASE mu' = mu
        <4>1. ~(f.pc # "acq" /\ Model(p) = "singleton")
          <5> SUFFICES ASSUME f.pc # "acq", Model(p) = "singleton" PROVE FALSE OBVIOUS
          <5>1. mu[p] = t BY <1>1, <1>7 DEF CallSound
          <5>2. mu' = [mu EXCEPT ![p] = Nil] BY <1>3
          <5> QED BY <5>1, <5>2, <3>2, <1>1, <1>8, NilIsNothing
        <4>2. \A v \in Threads : \A d \in 1 .. Depth(v) : Works(v, d) /\ Model(thr[v][d].pl) = "singleton" =>
                d \in 1 .. Depth(v)' /\ Works(v, d)' /\ thr'[v][d].pl = thr[v][d].pl
          BY <3>1, <4>1, <1>1 DEF Works
        <4> QED BY <4>2, <3>2, <2>1, <1>1, <1>8, MutexKept
      <3>3. CASE f.pc # "acq" /\ Model(p) = "singleton" /\ mu' = [mu EXCEPT ![p] = Nil]
        <4> SUFFICES ASSUME NEW q \in Plugins, mu'[q] # Nil, NEW v, v = mu'[q]
                     PROVE  /\ Model(q) = "singleton"
                            /\ \E d \in 1 .. Depth(v)' : Works(v, d)' /\ thr'[v][d].pl = q
          BY <1>5 DEF MutexOwned, Depth, Works
        <4>1. q # p /\ v = mu[q] /\ v \in Threads BY <3>3, <1>1, <1>8
        <4>2. Model(q) = "singleton" /\ \E d \in 1 .. Depth(v) : Works(v, d) /\ thr[v][d].pl = q
          BY <4>1, <2>1 DEF MutexOwned
        <4>3. PICK d \in 1 .. Depth(v) : Works(v, d) /\ thr[v][d].pl = q BY <4>2
        <4>4. ~(v = t /\ d = D) BY <4>1, <4>3, <1>1
        <4> QED BY <4>1, <4>2, <4>3, <4>4, <3>1
      <3> QED BY <3>2, <3>3, <1>3
    <2>3. ASSUME NEW v \in Threads, NEW d \in 1 .. Depth(v)'
          PROVE  /\ d \in 1 .. Depth(v) /\ thr'[v][d].pl = thr[v][d].pl
                 /\ thr'[v][d].todo \subseteq Subscribers(thr[v][d].pl)
      <3>1. d \in 1 .. Depth(v) /\ thr'[v][d].pl = thr[v][d].pl BY <1>13
      <3>2. thr'[v][d] = thr[v][d] \/ thr'[v][d] = Trapped(thr[v][d]) BY <1>4
      <3>3. thr[v][d] \in FrameOf(A) BY <3>1, TopFrame
      <3>4. thr'[v][d].todo \in {{}, thr[v][d].todo} BY <3>2, <3>3 DEF Trapped, FrameOf
      <3> QED BY <3>1, <3>4, <2>1 DEF Asked
    <2> QED BY <2>1, <2>2, <2>3, <1>1, OrderKept
  <1> QED BY <1>a, <1>b, <1>c, <1>d, <1>e, <1>f, <1>g DEF HostInv
-----------------------------------------------------------------------------
(* A call has returned to its pool: its instance is closed up or destroyed, *)
(* and another one takes its place.                                        *)

Swaps(t, g) ==
  LET f == Top(t)
      p == f.pl IN
  /\ Depth(t) > 0 /\ f.pc # "acq" /\ Model(p) = "pooled"
  /\ thr' = SetTop(t, g)
  /\ g.pl = p /\ g.pc \in {"new", "put"} /\ g.i \in Insts /\ g.arg \in Verdicts /\ g.todo = f.todo
  /\ g.i = f.i \/ (~Held(g.i) /\ inst[g.i].st # "live")
  /\ Budget(p) > 0 => (g.arg = "fuel" => g.n > Budget(p)) /\ (g.arg = "ok" => g.n <= Budget(p))
  /\ \A j \in Insts \ {g.i} : inst'[j] = inst[j]
  /\ inst'[g.i].pl = p /\ (inst'[g.i].st = "live" <=> g.pc = "put")
  /\ UNCHANGED <<scene, calls, pool, single, mu, shut, lost, out>>

LEMMA SwapsKeeps ==
  ASSUME HostInv, NEW A, Stacks(A), NEW t \in Threads, NEW g \in FrameOf(A),
         inst' \in [Insts -> InstOf(A)], Swaps(t, g)
  PROVE  HostInv'
  <1> DEFINE f == Top(t)  D == Depth(t)  p == Top(t).pl
  <1>1. /\ D \in Nat /\ D > 0 /\ D \in 1 .. D /\ f = thr[t][D] /\ f \in FrameOf(A)
        /\ f.pc # "acq" /\ f.pl = p /\ p \in Plugins /\ Model(p) = "pooled"
        /\ g.pl = p /\ g.pc \in {"new", "put"} /\ g.i \in Insts /\ g.arg \in Verdicts
        /\ UNCHANGED <<scene, calls, pool, single, mu, shut, lost, out>>
    BY TopFrame DEF Swaps, FrameOf
  <1>2. /\ \A j \in Insts \ {g.i} : inst'[j] = inst[j]
        /\ inst'[g.i].pl = p /\ (inst'[g.i].st = "live" <=> g.pc = "put")
        /\ g.i = f.i \/ (~Held(g.i) /\ inst[g.i].st # "live")
        /\ Budget(p) > 0 => (g.arg = "fuel" => g.n > Budget(p)) /\ (g.arg = "ok" => g.n <= Budget(p))
    BY DEF Swaps
  <1>4. /\ thr' \in [Threads -> Seq(FrameOf(A))]
        /\ \A v \in Threads : Depth(v)' = Depth(v)
        /\ \A v \in Threads : \A d \in 1 .. Depth(v) :
             thr'[v][d] = IF v = t /\ d = D THEN g ELSE thr[v][d]
    <2>1. thr \in [Threads -> Seq(FrameOf(A))] BY DEF Stacks
    <2>2. Depth(t) > 0 /\ thr' = SetTop(t, g) BY DEF Swaps
    <2> HIDE DEF f, D, p
    <2>3. /\ thr' \in [Threads -> Seq(FrameOf(A))]
          /\ \A v \in Threads : Depth(v)' = Depth(v)
          /\ \A v \in Threads : \A d \in 1 .. Depth(v) :
               thr'[v][d] = IF v = t /\ d = Depth(t) THEN g ELSE thr[v][d]
      BY <2>1, <2>2, SetTopStack
    <2> QED BY <2>3 DEF D
  <1>5. \A q : Model(q)' = Model(q) /\ Budget(q)' = Budget(q) BY <1>1 DEF Model, Budget, Scene
  <1>6. \A v \in Threads : Depth(v) \in Nat BY TopFrame
  <1>7. CallSound(t, D) /\ Apart /\ CallsSound /\ Idling /\ Counted
    BY <1>1 DEF HostInv, CallsSound
  <1>8. pool \in [Plugins -> Seq(Insts)] /\ single \in [Plugins -> Insts \union {Nil}] /\ lost \in [Plugins -> Nat]
    BY DEF HostInv, HostTypes
  <1>9. \A q \in Plugins : \A n \in 1 .. Len(pool[q]) : pool[q][n] \in Insts
    <2>1. \A q \in Plugins : pool[q] \in Seq(Insts) BY <1>8
    <2> QED BY <2>1, ElementOfSeq
  <1> HIDE DEF f, D, p
  <1>10. f.i \in Insts /\ inst[f.i].pl = p /\ Works(t, D) /\ Held(f.i)
    <2>1. \E v \in Threads : \E d \in 1 .. Depth(v) : thr[v][d].i = f.i BY <1>1 DEF D
    <2>2. Held(f.i) BY <2>1, HeldAt
    <2> QED BY <2>2, <1>1, <1>7 DEF CallSound, Works
  \* The others have other instances.
  <1>11. \A v \in Threads : \A d \in 1 .. Depth(v) : Works(v, d) /\ ~(v = t /\ d = D) =>
           /\ thr[v][d].i \in Insts /\ thr[v][d].i # f.i /\ thr[v][d].i # g.i
           /\ inst'[thr[v][d].i] = inst[thr[v][d].i]
    <2> SUFFICES ASSUME NEW v \in Threads, NEW d \in 1 .. Depth(v), Works(v, d), ~(v = t /\ d = D)
                 PROVE  /\ thr[v][d].i \in Insts /\ thr[v][d].i # f.i /\ thr[v][d].i # g.i
                        /\ inst'[thr[v][d].i] = inst[thr[v][d].i]
      OBVIOUS
    <2>1. thr[v][d].i \in Insts BY <1>7 DEF CallsSound, CallSound, Works
    <2>2. D \in 1 .. Depth(t) BY <1>1 DEF D
    <2>3. thr[v][d].i # f.i BY <2>2, <1>1, <1>7, <1>10 DEF Apart
    <2>4. \E u \in Threads : \E e \in 1 .. Depth(u) : thr[u][e].i = thr[v][d].i OBVIOUS
    <2>5. Held(thr[v][d].i) BY <2>4, HeldAt
    <2>6. thr[v][d].i # g.i BY <2>3, <2>5, <1>2
    <2> QED BY <2>1, <2>3, <2>6, <1>2
  <1>a. HostTypes'
    <2>1. Stacks(A)' BY <1>4 DEF Stacks
    <2> QED BY <2>1, <1>1 DEF HostInv, HostTypes
  <1>b. CallsSound'
    <2> SUFFICES ASSUME NEW v \in Threads, NEW d \in 1 .. Depth(v)
                 PROVE  CallSound(v, d)' /\ FuelSound(v, d)' /\ Reported(v, d)'
      BY <1>4 DEF CallsSound
    <2>0. CallSound(v, d) /\ FuelSound(v, d) /\ Reported(v, d) BY <1>7 DEF CallsSound
    <2>1. CASE v = t /\ d = D
      <3>1. thr'[v][d] = g /\ Depth(v)' = D /\ d = D /\ v = t BY <1>4, <2>1 DEF D
      <3>2. CallSound(v, d)' BY <3>1, <1>1, <1>2, <1>5 DEF CallSound
      <3>3. FuelSound(v, d)' BY <3>1, <1>1, <1>2, <1>5 DEF FuelSound
      <3> QED BY <3>1, <3>2, <3>3, <1>1 DEF Reported
    <2>2. CASE ~(v = t /\ d = D)
      <3>1. thr'[v][d] = thr[v][d] /\ Depth(v)' = Depth(v) BY <1>4, <2>2
      <3>2. Works(v, d) => inst'[thr[v][d].i] = inst[thr[v][d].i] BY <2>2, <1>11
      <3>3. CallSound(v, d)' BY <3>1, <3>2, <2>0, <1>1, <1>5 DEF CallSound, Works
      <3>4. FuelSound(v, d)' BY <3>1, <3>2, <2>0, <1>5 DEF FuelSound, Works
      <3> QED BY <3>1, <3>3, <3>4, <2>0 DEF Reported
    <2> QED BY <2>1, <2>2
  <1>c. Apart'
    <2> SUFFICES ASSUME NEW v \in Threads, NEW w \in Threads, NEW d \in 1 .. Depth(v), NEW c \in 1 .. Depth(w),
                        v # w \/ d # c, Works(v, d)', Works(w, c)'
                 PROVE  /\ thr'[v][d].i # thr'[w][c].i
                        /\ (thr[v][d].pl = thr[w][c].pl => Model(thr[v][d].pl) # "singleton")'
      BY <1>4 DEF Apart
    <2>2. CASE v = t /\ d = D
      <3>1. thr'[v][d] = g /\ thr'[w][c] = thr[w][c] /\ Works(w, c) /\ ~(w = t /\ c = D) BY <2>2, <1>4 DEF Works
      <3> QED BY <3>1, <1>11, <1>1, <1>5
    <2>3. CASE w = t /\ c = D
      <3>1. thr'[w][c] = g /\ thr'[v][d] = thr[v][d] /\ Works(v, d) /\ ~(v = t /\ d = D) BY <2>3, <1>4 DEF Works
      <3> QED BY <3>1, <1>11, <1>1, <1>5
    <2>4. CASE ~(v = t /\ d = D) /\ ~(w = t /\ c = D)
      <3>1. thr'[w][c] = thr[w][c] /\ Works(w, c) /\ thr'[v][d] = thr[v][d] /\ Works(v, d)
        BY <2>4, <1>4 DEF Works
      <3> QED BY <3>1, <1>5, <1>7 DEF Apart
    <2> QED BY <2>2, <2>3, <2>4
  <1>d. Idling'
    <2>1. \A i \in Insts : Held(i)' => Held(i) \/ i = g.i
      <3> SUFFICES ASSUME NEW i \in Insts, Held(i)' PROVE Held(i) \/ i = g.i OBVIOUS
      <3>1. \E v \in Threads : \E d \in 1 .. Depth(v)' : thr'[v][d].i = i
        BY DEF Held, Frames, Depth
      <3> QED BY <3>1, HeldAt, <1>4
    <2>2. \A q \in Plugins : \A n \in 1 .. Len(pool[q]) :
            pool[q][n] \in Insts /\ pool[q][n] # g.i /\ inst'[pool[q][n]] = inst[pool[q][n]]
      BY <1>2, <1>7, <1>9, <1>10 DEF Idling
    <2>3. \A q \in Plugins : single[q] # Nil => single[q] \in Insts /\ inst'[single[q]] = inst[single[q]]
      <3> SUFFICES ASSUME NEW q \in Plugins, single[q] # Nil
                   PROVE  single[q] \in Insts /\ inst'[single[q]] = inst[single[q]]
        OBVIOUS
      <3>1. /\ single[q] \in Insts /\ Model(q) = "singleton"
            /\ inst[single[q]].pl = q /\ inst[single[q]].st = "live"
        BY <1>7, <1>8 DEF Idling
      <3>2. single[q] # g.i BY <3>1, <1>1, <1>2, <1>10
      <3> QED BY <3>1, <3>2, <1>2
    <2> SUFFICES ASSUME NEW q \in Plugins
                 PROVE  /\ Model(q)' # "pooled" => pool'[q] = <<>>
                        /\ \A n \in 1 .. Len(pool'[q]) :
                             ~Held(pool[q][n])' /\ inst'[pool'[q][n]].st = "live" /\ inst'[pool'[q][n]].pl = q
                        /\ \A n, m \in 1 .. Len(pool'[q]) : n # m => pool'[q][n] # pool'[q][m]
                        /\ Model(q)' # "singleton" => single'[q] = Nil
                        /\ single'[q] # Nil => inst'[single'[q]].pl = q /\ inst'[single'[q]].st = "live"
      BY DEF Idling
    <2>4. \A n \in 1 .. Len(pool'[q]) :
             ~Held(pool[q][n])' /\ inst'[pool'[q][n]].st = "live" /\ inst'[pool'[q][n]].pl = q
      <3> SUFFICES ASSUME NEW n \in 1 .. Len(pool[q]), NEW i, i = pool[q][n]
                   PROVE  ~Held(i)' /\ inst'[i].st = "live" /\ inst'[i].pl = q
        BY <1>1 DEF Held, Frames
      <3>1. i \in Insts /\ i # g.i /\ inst'[i] = inst[i] /\ ~Held(i) /\ inst[i].st = "live" /\ inst[i].pl = q
        BY <2>2, <1>7 DEF Idling
      <3> QED BY <3>1, <2>1
    <2> QED BY <2>3, <2>4, <1>1, <1>5, <1>7 DEF Idling
  <1>e. Counted'
    <2> SUFFICES ASSUME NEW q \in Plugins
                 PROVE  IsFiniteSet(Busy(q)') /\ Cardinality(Busy(q)') = Cardinality(Busy(q))
      <3>1. Scene' = Scene BY <1>1 DEF Scene
      <3> QED BY <3>1, <1>1, <1>5, <1>7 DEF Counted
    <2>1. \A i \in Insts : i \in Busy(q)' <=> (i \in Busy(q) /\ i # f.i) \/ (q = p /\ i = g.i)
      <3> SUFFICES ASSUME NEW i \in Insts
                   PROVE i \in Busy(q)' <=> (i \in Busy(q) /\ i # f.i) \/ (q = p /\ i = g.i)
        OBVIOUS
      <3>1. ASSUME i \in Busy(q)' PROVE (i \in Busy(q) /\ i # f.i) \/ (q = p /\ i = g.i)
        <4>1. PICK v \in Threads : \E d \in 1 .. Depth(v)' : Works(v, d)' /\ thr'[v][d].i = i /\ thr'[v][d].pl = q
          BY <3>1 DEF Busy
        <4>2. PICK d \in 1 .. Depth(v)' : Works(v, d)' /\ thr'[v][d].i = i /\ thr'[v][d].pl = q BY <4>1
        <4>3. d \in 1 .. Depth(v) BY <1>4
        <4>4. CASE v = t /\ d = D BY <4>2, <4>3, <4>4, <1>1, <1>4
        <4>5. CASE ~(v = t /\ d = D)
          <5>1. Works(v, d) /\ thr[v][d].i = i /\ thr[v][d].pl = q BY <4>2, <4>3, <4>5, <1>4 DEF Works
          <5>2. i # f.i BY <5>1, <4>3, <4>5, <1>11
          <5>3. \E e \in 1 .. Depth(v) : Works(v, e) /\ thr[v][e].i = i /\ thr[v][e].pl = q BY <5>1, <4>3
          <5> QED BY <5>2, <5>3 DEF Busy
        <4> QED BY <4>4, <4>5
      <3>2. ASSUME i \in Busy(q), i # f.i PROVE i \in Busy(q)'
        <4>1. PICK v \in Threads : \E d \in 1 .. Depth(v) : Works(v, d) /\ thr[v][d].i = i /\ thr[v][d].pl = q
          BY <3>2 DEF Busy
        <4>2. PICK d \in 1 .. Depth(v) : Works(v, d) /\ thr[v][d].i = i /\ thr[v][d].pl = q BY <4>1
        <4>3. ~(v = t /\ d = D) BY <4>2, <3>2, <1>1
        <4>4. d \in 1 .. Depth(v)' /\ thr'[v][d] = thr[v][d] BY <4>3, <1>4
        <4>5. \E e \in 1 .. Depth(v)' : Works(v, e)' /\ thr'[v][e].i = i /\ thr'[v][e].pl = q
          BY <4>2, <4>4 DEF Works
        <4> QED BY <4>5 DEF Busy
      <3>3. ASSUME q = p, i = g.i PROVE i \in Busy(q)'
        <4>1. D \in 1 .. Depth(t)' /\ thr'[t][D] = g BY <1>1, <1>4 DEF D
        <4>2. \E e \in 1 .. Depth(t)' : thr'[t][e].pc # "acq" /\ thr'[t][e].i = i /\ thr'[t][e].pl = q
          BY <3>3, <4>1, <1>1
        <4> QED BY <4>2 DEF Busy, Works
      <3> QED BY <3>1, <3>2, <3>3
    <2>2. Busy(q)' \subseteq Insts /\ Busy(q) \subseteq Insts BY DEF Busy
    <2>3. IsFiniteSet(Busy(q)) BY <1>7 DEF Counted
    <2>4. f.i \in Busy(q) <=> q = p
      <3>1. ASSUME f.i \in Busy(q) PROVE q = p
        <4>1. PICK v \in Threads : \E d \in 1 .. Depth(v) : Works(v, d) /\ thr[v][d].i = f.i /\ thr[v][d].pl = q
          BY <3>1 DEF Busy
        <4>2. PICK d \in 1 .. Depth(v) : Works(v, d) /\ thr[v][d].i = f.i /\ thr[v][d].pl = q BY <4>1
        <4>3. CallSound(v, d) BY <1>7 DEF CallsSound
        <4> QED BY <4>2, <4>3, <1>10 DEF CallSound, Works
      <3>2. ASSUME q = p PROVE f.i \in Busy(q)
        <4>1. \E d \in 1 .. Depth(t) : Works(t, d) /\ thr[t][d].i = f.i /\ thr[t][d].pl = q
          BY <3>2, <1>1, <1>10 DEF D
        <4> QED BY <4>1, <1>10 DEF Busy
      <3> QED BY <3>1, <3>2
    <2>5. CASE g.i = f.i \/ q # p
      <3>1. Busy(q)' = Busy(q) BY <2>1, <2>2, <2>4, <2>5
      <3> QED BY <3>1, <2>3
    <2>6. CASE g.i # f.i /\ q = p
      <3> DEFINE B == Busy(q)  C == B \ {f.i}
      <3>1. \A v \in Threads : \A d \in 1 .. Depth(v) : thr[v][d].i # g.i BY <2>6, <1>2, HeldAt
      <3>2. g.i \notin B BY <3>1 DEF Busy
      <3>3. IsFiniteSet(B) /\ f.i \in B /\ Busy(q)' = C \union {g.i} BY <2>1, <2>2, <2>3, <2>4, <2>6, <1>1
      <3> HIDE DEF B
      <3>4. IsFiniteSet(C) /\ Cardinality(C) = Cardinality(B) - 1 BY <3>3, FS_RemoveElement
      <3>5. g.i \notin C BY <3>2
      <3>6. Cardinality(B) \in Nat BY <3>3, FS_CardinalityType
      <3> HIDE DEF C
      <3>7. IsFiniteSet(C \union {g.i}) /\ Cardinality(C \union {g.i}) = Cardinality(C) + 1
        BY <3>4, <3>5, FS_AddElement
      <3> QED BY <3>3, <3>4, <3>6, <3>7 DEF B
    <2> QED BY <2>5, <2>6
  <1>f. FuelIsOwn' BY <1>1, <1>5, <1>7 DEF HostInv, FuelIsOwn
  <1>g. InOrder'
    <2>1. /\ InOrder /\ Asked /\ mu \in [Plugins -> Threads \union {Nil}] /\ g.todo = f.todo
      BY DEF HostInv, HostTypes, InOrder, Swaps, f
    <2>2. \A v \in Threads : \A d \in 1 .. Depth(v) :
            /\ d \in 1 .. Depth(v)' /\ (Works(v, d) => Works(v, d)')
            /\ thr'[v][d].pl = thr[v][d].pl /\ thr'[v][d].todo = thr[v][d].todo
      BY <2>1, <1>1, <1>4 DEF Works
    <2>3. MutexOwned' BY <2>1, <2>2, <1>1, MutexKept
    <2>4. \A v \in Threads : \A d \in 1 .. Depth(v)' :
            /\ d \in 1 .. Depth(v) /\ thr'[v][d].pl = thr[v][d].pl
            /\ thr'[v][d].todo \subseteq Subscribers(thr[v][d].pl)
      BY <2>1, <2>2, <1>4 DEF Asked
    <2> QED BY <2>1, <2>3, <2>4, <1>1, OrderKept
  <1> QED BY <1>a, <1>b, <1>c, <1>d, <1>e, <1>f, <1>g DEF HostInv
-----------------------------------------------------------------------------
(* The plugin is closed: its idle instances go, its calls keep theirs.     *)

LEMMA CloseKeeps ==
  ASSUME HostInv, NEW p \in Plugins, ClosePlugin(p)
  PROVE  HostInv'
  <1>0. UNCHANGED <<scene, calls, thr, mu, lost, out>> BY DEF ClosePlugin
  <1>1. CASE shut[p] = "drained" /\ shut' = [shut EXCEPT ![p] = "gone"] /\ UNCHANGED <<pool, single, inst>>
    <2>1. shut' \in [Plugins -> {"no", "drained", "gone"}]
          /\ \A q \in Plugins : shut'[q] = "no" => shut[q] = "no"
      BY <1>1 DEF HostInv, HostTypes
    <2> USE DEF Depth, Model, Budget, Scene, Works
    <2>2. HostTypes'
      <3>1. \A A : Stacks(A)' <=> Stacks(A) BY <1>0, <1>1 DEF Stacks
      <3> QED BY <3>1, <1>0, <1>1, <2>1 DEF HostInv, HostTypes
    <2>3. CallsSound' BY SMTT(30), <1>0, <1>1 DEF HostInv, CallsSound, CallSound, FuelSound, Reported
    <2>4. Apart' BY <1>0, <1>1 DEF HostInv, Apart
    <2>5. Idling' BY <1>0, <1>1 DEF HostInv, Idling, Held, Frames
    <2>6. \A q : Busy(q)' = Busy(q) BY <1>0 DEF Busy
    <2>7. Counted' BY <1>0, <1>1, <2>1, <2>6 DEF HostInv, Counted
    <2>8. FuelIsOwn' BY <1>0, <1>1 DEF HostInv, FuelIsOwn
    <2>9. InOrder' BY <1>0, SameOrder DEF HostInv
    <2> QED BY <2>2, <2>3, <2>4, <2>5, <2>7, <2>8, <2>9 DEF HostInv
  <1>2. CASE shut[p] = "no" /\ shut' = [shut EXCEPT ![p] = "drained"]
             /\ pool' = [pool EXCEPT ![p] = <<>>] /\ single' = [single EXCEPT ![p] = Nil]
    <2>0. CallsSound /\ Apart /\ Idling /\ Counted /\ FuelIsOwn BY DEF HostInv
    <2>1. /\ pool \in [Plugins -> Seq(Insts)] /\ single \in [Plugins -> Insts \union {Nil}]
          /\ shut \in [Plugins -> {"no", "drained", "gone"}]
      BY DEF HostInv, HostTypes
    <2>2. PICK A : Stacks(A) BY DEF HostInv, HostTypes
    <2> DEFINE B == A \union {{}}
               Z == IF single[p] # Nil THEN {single[p]} ELSE {pool[p][n] : n \in 1 .. Len(pool[p])}
    <2>3. Stacks(B) BY <2>2, StacksGrow
    <2>4. \A j \in Insts : inst[j] \in InstOf(B) BY <2>3 DEF Stacks
    <2>5. IF single[p] # Nil
          THEN inst' = [inst EXCEPT ![single[p]].tab = {}, ![single[p]].st = "closed"]
          ELSE inst' = [i \in Insts |-> IF i \in Z THEN [inst[i] EXCEPT !.st = "closed"] ELSE inst[i]]
      BY <1>2 DEF ClosePlugin, CloseTable
    <2>6. /\ inst' \in [Insts -> InstOf(B)]
          /\ \A j \in Insts : /\ inst'[j].pl = inst[j].pl /\ inst'[j].cnt = inst[j].cnt
                              /\ inst'[j].tripped = inst[j].tripped
                              /\ j \notin Z => inst'[j] = inst[j]
      <3>1. CASE single[p] # Nil
        <4> DEFINE x == inst[single[p]]
        <4>1. single[p] \in Insts /\ x \in InstOf(B) BY <3>1, <2>1, <2>4
        <4>2. /\ [x EXCEPT !.tab = {}, !.st = "closed"] \in InstOf(B)
              /\ [x EXCEPT !.tab = {}, !.st = "closed"].pl = x.pl
              /\ [x EXCEPT !.tab = {}, !.st = "closed"].cnt = x.cnt
              /\ [x EXCEPT !.tab = {}, !.st = "closed"].tripped = x.tripped
          BY <4>1 DEF InstOf
        <4>3. inst' = [inst EXCEPT ![single[p]] = [x EXCEPT !.tab = {}, !.st = "closed"]]
          BY <2>3, <2>5, <3>1, <4>1 DEF Stacks
        <4>4. inst \in [Insts -> InstOf(B)] BY <2>3 DEF Stacks
        <4>5. Z = {single[p]} BY <3>1
        <4> HIDE DEF Z, B
        <4> QED BY <4>1, <4>2, <4>3, <4>4, <4>5
      <3>2. CASE single[p] = Nil
        <4>1. \A x \in InstOf(B) : /\ [x EXCEPT !.st = "closed"] \in InstOf(B)
                                   /\ [x EXCEPT !.st = "closed"].pl = x.pl
                                   /\ [x EXCEPT !.st = "closed"].cnt = x.cnt
                                   /\ [x EXCEPT !.st = "closed"].tripped = x.tripped
          BY DEF InstOf
        <4>2. inst' = [i \in Insts |-> IF i \in Z THEN [inst[i] EXCEPT !.st = "closed"] ELSE inst[i]]
          BY <2>5, <3>2
        <4> HIDE DEF Z, B
        <4> QED BY <4>1, <4>2, <2>4
      <3> QED BY <3>1, <3>2
    <2>7. \A j \in Insts : j \in Z =>
            inst[j].pl = p /\ (\A v \in Threads : \A d \in 1 .. Depth(v) :
                                 thr[v][d].i = j => Model(p) = "singleton")
      <3> SUFFICES ASSUME NEW j \in Insts, j \in Z
                   PROVE  inst[j].pl = p /\ (\A v \in Threads : \A d \in 1 .. Depth(v) :
                                 thr[v][d].i = j => Model(p) = "singleton")
        OBVIOUS
      <3>1. CASE single[p] # Nil
        <4>1. j = single[p] BY <3>1
        <4> QED BY <3>1, <4>1, <2>0 DEF Idling
      <3>2. CASE single[p] = Nil
        <4>1. PICK n \in 1 .. Len(pool[p]) : j = pool[p][n] BY <3>2
        <4>2. inst[j].pl = p /\ ~Held(j) BY <4>1, <2>0 DEF Idling
        <4> QED BY <4>2, HeldAt
      <3> QED BY <3>1, <3>2
    <2> HIDE DEF Z, B
    <2>8. \A q : Model(q)' = Model(q) /\ Budget(q)' = Budget(q) BY <1>0 DEF Model, Budget, Scene
    <2>9. \A q \in Plugins : q # p => pool'[q] = pool[q] /\ single'[q] = single[q] /\ shut'[q] = shut[q]
      BY <1>2, <2>1
    <2>10. pool'[p] = <<>> /\ single'[p] = Nil /\ shut'[p] = "drained" BY <1>2, <2>1
    <2>a. HostTypes'
      <3>1. Stacks(B)' BY <1>0, <2>3, <2>6 DEF Stacks
      <3>2. pool' \in [Plugins -> Seq(Insts)]
        <4>1. <<>> \in Seq(Insts) BY EmptySeq
        <4> QED BY <4>1, <1>2, <2>1
      <3>3. single' \in [Plugins -> Insts \union {Nil}] /\ shut' \in [Plugins -> {"no", "drained", "gone"}]
        BY <1>2, <2>1
      <3> QED BY <3>1, <3>2, <3>3, <1>0 DEF HostInv, HostTypes
    <2>b. CallsSound'
      <3> SUFFICES ASSUME NEW v \in Threads, NEW d \in 1 .. Depth(v)
                   PROVE  CallSound(v, d)' /\ FuelSound(v, d)' /\ Reported(v, d)'
        BY <1>0 DEF CallsSound, Depth
      <3>1. CallSound(v, d) /\ FuelSound(v, d) /\ Reported(v, d) BY <2>0 DEF CallsSound
      <3>2. thr[v][d].pl \in Plugins
        <4>1. thr[v][d] \in FrameOf(B) BY <2>3, TopFrame
        <4> QED BY <4>1 DEF FrameOf
      <3>3. thr'[v][d] = thr[v][d] /\ Depth(v)' = Depth(v) BY <1>0 DEF Depth
      <3>4. Works(v, d) => /\ thr[v][d].i \in Insts
                           /\ inst'[thr[v][d].i].pl = inst[thr[v][d].i].pl
                           /\ inst'[thr[v][d].i].cnt = inst[thr[v][d].i].cnt
                           /\ inst'[thr[v][d].i].tripped = inst[thr[v][d].i].tripped
                           /\ Model(thr[v][d].pl) = "pooled" => inst'[thr[v][d].i].st = inst[thr[v][d].i].st
        <4> SUFFICES ASSUME Works(v, d)
                     PROVE /\ thr[v][d].i \in Insts
                           /\ inst'[thr[v][d].i].pl = inst[thr[v][d].i].pl
                           /\ inst'[thr[v][d].i].cnt = inst[thr[v][d].i].cnt
                           /\ inst'[thr[v][d].i].tripped = inst[thr[v][d].i].tripped
                           /\ Model(thr[v][d].pl) = "pooled" => inst'[thr[v][d].i].st = inst[thr[v][d].i].st
          OBVIOUS
        <4>1. thr[v][d].i \in Insts /\ inst[thr[v][d].i].pl = thr[v][d].pl BY <3>1 DEF CallSound, Works
        <4>2. thr[v][d].i \in Z => Model(thr[v][d].pl) = "singleton" BY <4>1, <2>7
        <4> QED BY <4>1, <4>2, <2>6
      <3>5. Model(thr[v][d].pl) = "singleton" /\ single[thr[v][d].pl] \in {Nil, thr[v][d].i} =>
              single'[thr[v][d].pl] \in {Nil, thr[v][d].i}
        BY <3>2, <2>9, <2>10
      <3>6. CallSound(v, d)' BY <3>1, <3>3, <3>4, <3>5, <1>0, <2>8 DEF CallSound, Works
      <3>7. FuelSound(v, d)' BY <3>1, <3>3, <3>4, <2>8 DEF FuelSound, Works
      <3> QED BY <3>1, <3>3, <3>6, <3>7 DEF Reported
    <2>c. Apart' BY <1>0, <2>0, <2>8 DEF Apart, Works, Depth
    <2>d. Idling'
      <3>1. \A i : Held(i)' <=> Held(i) BY <1>0 DEF Held, Frames
      <3> SUFFICES ASSUME NEW q \in Plugins
                   PROVE  /\ Model(q)' # "pooled" => pool'[q] = <<>>
                          /\ \A n \in 1 .. Len(pool'[q]) :
                               ~Held(pool[q][n])' /\ inst'[pool'[q][n]].st = "live" /\ inst'[pool'[q][n]].pl = q
                          /\ \A n, m \in 1 .. Len(pool'[q]) : n # m => pool'[q][n] # pool'[q][m]
                          /\ Model(q)' # "singleton" => single'[q] = Nil
                          /\ single'[q] # Nil => inst'[single'[q]].pl = q /\ inst'[single'[q]].st = "live"
        BY DEF Idling
      <3>2. CASE q = p
        <4>1. Len(pool'[q]) = 0 /\ 1 .. Len(pool'[q]) = {} BY <3>2, <2>10
        <4> QED BY <3>2, <4>1, <2>10
      <3>3. CASE q # p
        <4>1. pool'[q] = pool[q] /\ single'[q] = single[q] BY <3>3, <2>9
        <4>2. \A j \in Insts : inst[j].pl = q => inst'[j] = inst[j] BY <3>3, <2>6, <2>7
        <4>3. pool[q] \in Seq(Insts) /\ single[q] \in Insts \union {Nil} BY <2>1
        <4>4. \A n \in 1 .. Len(pool[q]) : pool[q][n] \in Insts BY <4>3, ElementOfSeq
        <4>5. \A n \in 1 .. Len(pool[q]) :
                ~Held(pool[q][n]) /\ inst[pool[q][n]].st = "live" /\ inst[pool[q][n]].pl = q
          BY <2>0 DEF Idling
        <4>6. \A n \in 1 .. Len(pool[q]) :
                ~Held(pool[q][n])' /\ inst'[pool[q][n]].st = "live" /\ inst'[pool[q][n]].pl = q
          <5> SUFFICES ASSUME NEW n \in 1 .. Len(pool[q]), NEW i, i = pool[q][n]
                       PROVE  ~Held(i)' /\ inst'[i].st = "live" /\ inst'[i].pl = q
            BY <4>1 DEF Held, Frames
          <5> QED BY <3>1, <4>2, <4>4, <4>5
        <4> QED BY <4>1, <4>2, <4>3, <4>6, <2>0, <2>8 DEF Idling
      <3> QED BY <3>2, <3>3
    <2>e. Counted'
      <3>1. \A q : Busy(q)' = Busy(q) BY <1>0 DEF Busy, Works, Depth
      <3>2. Scene' = Scene BY <1>0 DEF Scene
      <3> QED BY <3>1, <3>2, <1>0, <2>0, <2>8, <2>9, <2>10 DEF Counted
    <2>f. FuelIsOwn' BY <1>0, <2>0, <2>8 DEF FuelIsOwn
    <2>g. InOrder' BY <1>0, SameOrder DEF HostInv
    <2> QED BY <2>a, <2>b, <2>c, <2>d, <2>e, <2>f, <2>g DEF HostInv
  <1> QED BY <1>1, <1>2 DEF ClosePlugin
-----------------------------------------------------------------------------
(* One host function of the guest.                                         *)

LEMMA TickedIs ==
  ASSUME NEW A, Stacks(A), NEW i \in Insts, NEW tab \in A, NEW J,
         J = Ticked(i) \/ J = [Ticked(i) EXCEPT ![i].tab = tab]
  PROVE  /\ J \in [Insts -> InstOf(A)]
         /\ \A j \in Insts : J[j].st = inst[j].st /\ J[j].pl = inst[j].pl /\ J[j].tripped = inst[j].tripped
         /\ \A j \in Insts \ {i} : J[j].cnt = inst[j].cnt
         /\ J[i].cnt = IF Budget(inst[i].pl) = 0 THEN 0 ELSE inst[i].cnt + 1
  <1> DEFINE c == IF Budget(inst[i].pl) = 0 THEN 0 ELSE inst[i].cnt + 1
             x == [inst[i] EXCEPT !.cnt = c]
             y == [x EXCEPT !.tab = tab]
  <1>1. inst \in [Insts -> InstOf(A)] /\ inst[i] \in InstOf(A) BY DEF Stacks
  <1>2. inst[i].cnt \in Nat BY <1>1 DEF InstOf
  <1>3. c \in Nat BY <1>2
  <1>4. Ticked(i) = [inst EXCEPT ![i] = x] BY DEF Ticked
  <1> HIDE DEF c
  <1>5. x \in InstOf(A) /\ x.st = inst[i].st /\ x.pl = inst[i].pl /\ x.tripped = inst[i].tripped /\ x.cnt = c
    BY <1>1, <1>3 DEF InstOf
  <1> HIDE DEF x
  <1>6. y \in InstOf(A) /\ y.st = x.st /\ y.pl = x.pl /\ y.tripped = x.tripped /\ y.cnt = x.cnt
    BY <1>5 DEF InstOf
  <1>7. [Ticked(i) EXCEPT ![i].tab = tab] = [inst EXCEPT ![i] = y]
    BY <1>1, <1>4
  <1> HIDE DEF y
  <1>8. PICK z \in {x, y} : J = [inst EXCEPT ![i] = z] BY <1>4, <1>7
  <1>9. z \in InstOf(A) /\ z.st = inst[i].st /\ z.pl = inst[i].pl /\ z.tripped = inst[i].tripped /\ z.cnt = c
    BY <1>5, <1>6
  <1>10. J \in [Insts -> InstOf(A)] /\ J[i] = z /\ \A j \in Insts \ {i} : J[j] = inst[j]
    BY <1>1, <1>8, <1>9
  <1> QED BY <1>9, <1>10 DEF c

\* The innermost call asks subscribers only.
LEMMA TopAsks ==
  ASSUME HostInv, NEW t \in Threads, Depth(t) > 0
  PROVE  Top(t).todo \subseteq Subscribers(Top(t).pl)
  <1>1. PICK A : Stacks(A) BY DEF HostInv, HostTypes
  <1>2. Depth(t) \in 1 .. Depth(t) /\ Top(t) = thr[t][Depth(t)] BY <1>1, TopFrame
  <1> QED BY <1>2 DEF HostInv, InOrder, Asked

\* A guest function or a host function, within the fuel.
Ticking(t) == Depth(t) > 0 /\ Top(t).pc \in {"run", "resp"} /\ HasFuel(Top(t).i)

LEMMA TickKeeps ==
  ASSUME HostInv, NEW A, Stacks(A), NEW t \in Threads, Ticking(t),
         NEW g \in FrameOf(A), thr' = SetTop(t, g),
         g.i = Top(t).i, g.pl = Top(t).pl, g.n = Top(t).n + 1, g.broken = Top(t).broken,
         g.pc \notin {"acq", "new", "put"}, g.todo \subseteq Subscribers(g.pl),
         NEW tab \in A, inst' = Ticked(g.i) \/ inst' = [Ticked(g.i) EXCEPT ![g.i].tab = tab],
         UNCHANGED <<scene, calls, pool, single, mu, shut, lost, out>>
  PROVE  HostInv'
  <1> DEFINE f == Top(t)  D == Depth(t)  b == Budget(g.pl)
  <1>1. D \in Nat /\ D > 0 /\ f = thr[t][D] /\ f \in FrameOf(A) /\ f.pc \in {"run", "resp"} /\ HasFuel(f.i)
    BY TopFrame DEF Ticking
  <1>2. CallSound(t, D) /\ FuelSound(t, D) BY SMTT(30), <1>1 DEF HostInv, CallsSound
  <1>3. g.i \in Insts /\ inst[g.i].pl = g.pl
    BY <1>1, <1>2 DEF CallSound
  <1>4. /\ inst' \in [Insts -> InstOf(A)]
        /\ \A j \in Insts : inst'[j].st = inst[j].st /\ inst'[j].pl = inst[j].pl /\ inst'[j].tripped = inst[j].tripped
        /\ \A j \in Insts \ {g.i} : inst'[j].cnt = inst[j].cnt
        /\ inst'[g.i].cnt = IF b = 0 THEN 0 ELSE inst[g.i].cnt + 1
    BY <1>3, TickedIs
  <1>5. b \in Nat /\ g.n \in Nat /\ f.n \in Nat
    BY <1>1, SceneFacts DEF HostInv, HostTypes, FrameOf
  <1>6. b > 0 => inst[g.i].cnt = f.n /\ (inst[g.i].tripped => f.n > b) /\ inst[g.i].cnt < b
    <2>1. f.pc \notin {"acq", "new", "put"} /\ f.pl = g.pl /\ f.i = g.i BY <1>1
    <2>2. b > 0 => inst[g.i].cnt = f.n /\ (inst[g.i].tripped => f.n > b) BY <2>1, <1>1, <1>2 DEF FuelSound
    <2>3. b > 0 => inst[g.i].cnt < b BY SMTT(30), <2>1, <1>1, <1>3 DEF HasFuel
    <2> QED BY <2>2, <2>3
  <1>7. GoesOn(t, g)
    <2>1. b > 0 => /\ inst'[g.i].cnt = g.n
                   /\ inst'[g.i].tripped => g.n > b
                   /\ ~g.broken => g.n <= b
      BY <1>3, <1>4, <1>5, <1>6
    <2> QED BY <2>1, <1>1, <1>4 DEF GoesOn
  <1> QED BY <1>4, <1>7, GoesOnKeeps

\* A host function that only touches the handle table and the outside.
LEMMA OpKeeps ==
  ASSUME HostInv, NEW t \in Threads, Ticking(t), NEW tab, NEW a, NEW o, Op(t, tab, a, o),
         UNCHANGED <<scene, calls, pool, single, mu, shut, lost, out>>
  PROVE  HostInv'
  <1>1. PICK A : Stacks(A) BY DEF HostInv, HostTypes
  <1> DEFINE B == A \union {tab}  g == Stepped(t)
  <1>2. Stacks(B) BY <1>1, StacksGrow
  <1> HIDE DEF B
  <1>3. Depth(t) > 0 /\ Top(t) \in FrameOf(B) /\ Top(t).pc \in {"run", "resp"} BY <1>2, TopFrame DEF Ticking
  <1>4. /\ g \in FrameOf(B) /\ g.i = Top(t).i /\ g.pl = Top(t).pl /\ g.n = Top(t).n + 1
        /\ g.broken = Top(t).broken /\ g.pc = Top(t).pc /\ g.todo = Top(t).todo
    BY <1>3 DEF FrameOf, Stepped
  <1>5. thr' = SetTop(t, g) /\ inst' = [Ticked(g.i) EXCEPT ![g.i].tab = tab] BY <1>4 DEF Op
  <1> HIDE DEF g
  <1>6. tab \in B /\ g.todo \subseteq Subscribers(g.pl) BY <1>3, <1>4, TopAsks DEF B
  <1> QED BY <1>2, <1>3, <1>4, <1>5, <1>6, TickKeeps

LEMMA OpForms ==
  ASSUME NEW t \in Threads, NEW e, NEW closed, Add(t, e) \/ Remove(t, e, closed) \/ Nothing(t)
  PROVE  \E tab, a, o : Op(t, tab, a, o)
  BY DEF Add, Remove, Nothing

\* A host function that leaves the thread waiting outside the guest.
LEMMA OutsideKeeps ==
  ASSUME HostInv, NEW t \in Threads, NEW op, CanCall(t, op),
         NEW pc \in {"run", "db", "wr", "http", "pub"}, NEW arg,
         NEW todo \in SUBSET Plugins, todo \subseteq Subscribers(Top(t).pl),
         NEW tab, NEW g,
         \/ g = [Stepped(t) EXCEPT !.pc = pc, !.arg = arg]
         \/ g = [Stepped(t) EXCEPT !.pc = pc, !.todo = todo]
         \/ g = Stepped(t),
         thr' = SetTop(t, g),
         inst' = Ticked(Top(t).i) \/ inst' = [Ticked(Top(t).i) EXCEPT ![Top(t).i].tab = tab],
         UNCHANGED <<scene, calls, pool, single, mu, shut, lost, out>>
  PROVE  HostInv'
  <1>1. PICK A : Stacks(A) BY DEF HostInv, HostTypes
  <1> DEFINE B == A \union {tab, arg}
  <1>2. Stacks(B) BY <1>1, StacksGrow
  <1>6. tab \in B /\ arg \in B OBVIOUS
  <1> HIDE DEF B
  <1>3. Depth(t) > 0 /\ Top(t) \in FrameOf(B) /\ Top(t).pc = "run" BY <1>2, TopFrame DEF CanCall, At
  <1>4. /\ g \in FrameOf(B) /\ g.i = Top(t).i /\ g.pl = Top(t).pl /\ g.n = Top(t).n + 1
        /\ g.broken = Top(t).broken /\ g.pc \notin {"acq", "new", "put"}
        /\ g.todo \in {Top(t).todo, todo}
    <2> DEFINE h == Stepped(t)
    <2>1. /\ h \in FrameOf(B) /\ h.i = Top(t).i /\ h.pl = Top(t).pl /\ h.n = Top(t).n + 1
          /\ h.broken = Top(t).broken /\ h.pc = "run" /\ h.todo = Top(t).todo
      BY <1>3 DEF FrameOf, Stepped
    <2> HIDE DEF h
    <2>2. g = [h EXCEPT !.pc = pc, !.arg = arg] \/ g = [h EXCEPT !.pc = pc, !.todo = todo] \/ g = h
      BY DEF h
    <2>3. CASE g = [h EXCEPT !.pc = pc, !.arg = arg] BY <2>1, <2>3, <1>6 DEF FrameOf
    <2>4. CASE g = [h EXCEPT !.pc = pc, !.todo = todo] BY <2>1, <2>4 DEF FrameOf
    <2>5. CASE g = h BY <2>1, <2>5
    <2> QED BY <2>2, <2>3, <2>4, <2>5
  <1>5. inst' = Ticked(g.i) \/ inst' = [Ticked(g.i) EXCEPT ![g.i].tab = tab] BY <1>4
  <1>7. Ticking(t) BY DEF CanCall, At, Ticking
  <1>8. g.todo \subseteq Subscribers(g.pl) BY <1>3, <1>4, TopAsks
  <1> QED BY <1>2, <1>4, <1>5, <1>6, <1>7, <1>8, TickKeeps
LEMMA GuestKeeps ==
  ASSUME HostInv, NEW t \in Threads, Guest(t)
  PROVE  HostInv'
  <1> USE DEF world, manager
  <1>1. \A op, tab, a, o :
          CanCall(t, op) /\ Op(t, tab, a, o) /\ UNCHANGED <<scene, calls, pool, single, mu, shut, lost, out>> => HostInv'
    BY OpKeeps DEF CanCall, At, Ticking
  <1>2. \A op : CanCall(t, op) /\ (\E tab, a, o : Op(t, tab, a, o))
                /\ UNCHANGED <<scene, calls, pool, single, mu, shut, lost, out>> => HostInv'
    BY <1>1
  <1>3. \A e, closed : Add(t, e) \/ Remove(t, e, closed) \/ Nothing(t) => \E tab, a, o : Op(t, tab, a, o)
    BY OpForms
  <1>4. \A op, e, closed : CanCall(t, op) /\ (Add(t, e) \/ Remove(t, e, closed) \/ Nothing(t))
                           /\ UNCHANGED <<scene, calls, pool, single, mu, shut, lost, out>> => HostInv'
    BY <1>2, <1>3
  <1>5. {} \in SUBSET Plugins /\ {} \subseteq Subscribers(Top(t).pl) OBVIOUS
  <1>a. CASE DBStatement(t)
    <2>1. CanCall(t, "db") /\ inst' = Ticked(Top(t).i)
          /\ UNCHANGED <<scene, calls, pool, single, mu, shut, lost, out>>
      BY <1>a DEF DBStatement
    <2>2. \/ \E what : thr' = SetTop(t, [Stepped(t) EXCEPT !.pc = "db", !.arg = what])
          \/ thr' = SetTop(t, Stepped(t))
      BY <1>a DEF DBStatement
    <2>3. ASSUME NEW what, thr' = SetTop(t, [Stepped(t) EXCEPT !.pc = "db", !.arg = what])
          PROVE  HostInv'
      BY <2>1, <2>3, <1>5, OutsideKeeps
    <2>4. CASE thr' = SetTop(t, Stepped(t)) BY <2>1, <2>4, <1>5, OutsideKeeps
    <2> QED BY <2>2, <2>3, <2>4
  <1>b. CASE RowsClose(t) \/ TxEnd(t)
    BY <1>b, <1>4 DEF RowsClose, TxEnd, CloseAs
  <1>c. CASE StorageRead(t)
    BY <1>c, <1>4 DEF StorageRead
  <1>d. CASE StorageCreateUser(t)
    BY <1>d, <1>4 DEF StorageCreateUser
  <1>e. CASE StorageCreateSystem(t)
    BY <1>e, <1>4 DEF StorageCreateSystem
  <1>f. CASE StreamWrite(t)
    BY <1>f, <1>1 DEF StreamWrite
  <1>g. CASE StreamCloseUser(t)
    <2>1. CanCall(t, "user") /\ UNCHANGED <<scene, calls, pool, single, mu, shut, lost, out>>
      BY <1>g DEF StreamCloseUser
    <2>2. PICK e : \/ /\ thr' = SetTop(t, [Stepped(t) EXCEPT !.pc = "wr", !.arg = e])
                      /\ inst' = [Ticked(Top(t).i) EXCEPT ![Top(t).i].tab = @ \ {e}]
                   \/ Remove(t, e, TRUE)
      BY <1>g DEF StreamCloseUser
    <2>3. CASE /\ thr' = SetTop(t, [Stepped(t) EXCEPT !.pc = "wr", !.arg = e])
               /\ inst' = [Ticked(Top(t).i) EXCEPT ![Top(t).i].tab = @ \ {e}]
      <3> DEFINE i == Top(t).i  tab == Ticked(i)[i].tab \ {e}
      <3>1. inst' = [Ticked(i) EXCEPT ![i].tab = tab] BY <2>3
      <3> HIDE DEF tab
      <3> QED BY <2>1, <2>3, <3>1, <1>5, OutsideKeeps
    <2>4. CASE Remove(t, e, TRUE) BY <2>1, <2>4, <1>4
    <2> QED BY <2>2, <2>3, <2>4
  <1>h. CASE StreamCloseSystem(t)
    BY <1>h, <1>4 DEF StreamCloseSystem
  <1>i. CASE StorageDelete(t) \/ StorageRename(t)
    BY <1>i, <1>4 DEF StorageDelete, StorageRename
  <1>j. CASE BodyCreate(t) \/ BodySeal(t)
    BY <1>j, <1>1, <1>4 DEF BodyCreate, BodySeal
  <1>k. CASE HTTPRequest(t)
    <2>1. CanCall(t, "http") /\ UNCHANGED <<scene, calls, pool, single, mu, shut, lost, out>>
      BY <1>k DEF HTTPRequest
    <2>2. \/ Nothing(t)
          \/ \E e : /\ thr' = SetTop(t, [Stepped(t) EXCEPT !.pc = "http", !.arg = e])
                    /\ inst' = [Ticked(Top(t).i) EXCEPT ![Top(t).i].tab = @ \ {e}]
      BY <1>k DEF HTTPRequest
    <2>3. ASSUME NEW e, thr' = SetTop(t, [Stepped(t) EXCEPT !.pc = "http", !.arg = e]),
                 inst' = [Ticked(Top(t).i) EXCEPT ![Top(t).i].tab = @ \ {e}]
          PROVE  HostInv'
      <3> DEFINE i == Top(t).i  tab == Ticked(i)[i].tab \ {e}
      <3>1. inst' = [Ticked(i) EXCEPT ![i].tab = tab] BY <2>3
      <3> HIDE DEF tab
      <3> QED BY <2>1, <2>3, <3>1, <1>5, OutsideKeeps
    <2>4. CASE Nothing(t) BY <2>1, <2>4, <1>4
    <2> QED BY <2>2, <2>3, <2>4
  <1>l. CASE ResponseClose(t)
    BY <1>l, <1>4 DEF ResponseClose
  <1>m. CASE RequestBody(t)
    BY <1>m, <1>4 DEF RequestBody
  <1>n. CASE EventPublish(t)
    <2> DEFINE w == {q \in Subscribers(Top(t).pl) : shut[q] = "no"}
    <2>1. /\ CanCall(t, "publish") /\ inst' = Ticked(Top(t).i)
          /\ thr' = SetTop(t, [Stepped(t) EXCEPT !.pc = "pub", !.todo = w])
          /\ UNCHANGED <<scene, calls, pool, single, mu, shut, lost, out>>
      BY <1>n DEF EventPublish
    <2>2. w \in SUBSET Plugins /\ w \subseteq Subscribers(Top(t).pl)
      <3>1. PICK A : Stacks(A) BY DEF HostInv, HostTypes
      <3>2. Top(t).pl \in Plugins BY <2>1, <3>1, TopFrame DEF CanCall, At, FrameOf
      <3> QED BY <3>2, SceneFacts DEF HostInv, HostTypes, Subscribers
    <2> HIDE DEF w
    <2> QED BY <2>1, <2>2, OutsideKeeps
  <1> QED BY <1>a, <1>b, <1>c, <1>d, <1>e, <1>f, <1>g, <1>h, <1>i, <1>j, <1>k, <1>l, <1>m, <1>n DEF Guest
-----------------------------------------------------------------------------
(* The host moves a call on.                                               *)

\* The call comes back from outside the guest, or stops in it.
LEMMA BackKeeps ==
  ASSUME HostInv, NEW t \in Threads, Depth(t) > 0, Top(t).pc \notin {"acq", "new", "put"},
         NEW pc \in {"run", "resp", "rel"}, NEW arg, NEW tab, NEW g,
         \/ g = [Top(t) EXCEPT !.pc = pc]
         \/ g = [Top(t) EXCEPT !.pc = pc, !.arg = arg]
         \/ g = [Top(t) EXCEPT !.pc = pc, !.broken = TRUE],
         thr' = SetTop(t, g),
         inst' = inst \/ inst' = [inst EXCEPT ![Top(t).i].tab = tab],
         UNCHANGED <<scene, calls, pool, single, mu, shut, lost, out>>
  PROVE  HostInv'
  <1>1. PICK A : Stacks(A) BY DEF HostInv, HostTypes
  <1> DEFINE B == A \union {tab, arg}  f == Top(t)  D == Depth(t)
  <1>2. Stacks(B) BY <1>1, StacksGrow
  <1>3. tab \in B /\ arg \in B OBVIOUS
  <1> HIDE DEF B
  <1>4. D \in Nat /\ D > 0 /\ f = thr[t][D] /\ f \in FrameOf(B) BY <1>2, TopFrame
  <1>5. CallSound(t, D) /\ FuelSound(t, D) BY <1>4 DEF HostInv, CallsSound
  <1>6. /\ g \in FrameOf(B) /\ g.i = f.i /\ g.pl = f.pl /\ g.n = f.n
        /\ f.broken => g.broken
        /\ g.pc \notin {"acq", "new", "put"} /\ g.todo = f.todo
    <2>1. CASE g = [f EXCEPT !.pc = pc] BY <2>1, <1>4 DEF FrameOf
    <2>2. CASE g = [f EXCEPT !.pc = pc, !.arg = arg] BY <2>2, <1>3, <1>4 DEF FrameOf
    <2>3. CASE g = [f EXCEPT !.pc = pc, !.broken = TRUE] BY <2>3, <1>4 DEF FrameOf
    <2> QED BY <2>1, <2>2, <2>3
  <1>7. f.i \in Insts BY <1>4, <1>5 DEF CallSound
  <1>8. /\ inst' \in [Insts -> InstOf(B)]
        /\ \A j \in Insts : /\ inst'[j].st = inst[j].st /\ inst'[j].pl = inst[j].pl
                            /\ inst'[j].cnt = inst[j].cnt /\ inst'[j].tripped = inst[j].tripped
    <2>1. inst \in [Insts -> InstOf(B)] BY <1>2 DEF Stacks
    <2>2. CASE inst' = inst BY <2>1, <2>2
    <2>3. CASE inst' = [inst EXCEPT ![f.i].tab = tab]
      <3> DEFINE x == [inst[f.i] EXCEPT !.tab = tab]
      <3>1. x \in InstOf(B) /\ x.st = inst[f.i].st /\ x.pl = inst[f.i].pl /\ x.cnt = inst[f.i].cnt
            /\ x.tripped = inst[f.i].tripped
        BY <2>1, <1>3, <1>7 DEF InstOf
      <3>2. inst' = [inst EXCEPT ![f.i] = x] BY <2>3
      <3> HIDE DEF x
      <3> QED BY <2>1, <3>1, <3>2
    <2> QED BY <2>2, <2>3
  <1>9. GoesOn(t, g)
    <2>1. Budget(g.pl) > 0 => /\ inst'[g.i].cnt = g.n
                              /\ inst'[g.i].tripped => g.n > Budget(g.pl)
                              /\ ~g.broken => g.n <= Budget(g.pl)
      BY SMTT(30), <1>4, <1>5, <1>6, <1>7, <1>8 DEF FuelSound
    <2>2. g.todo \subseteq Subscribers(g.pl) BY <1>4, <1>6, TopAsks
    <2> QED BY <2>1, <2>2, <1>4, <1>6, <1>8 DEF GoesOn
  <1> QED BY <1>2, <1>6, <1>8, <1>9, GoesOnKeeps

LEMMA OutOfFuelKeeps ==
  ASSUME HostInv, NEW t \in Threads, OutOfFuel(t)
  PROVE  HostInv'
  <1>1. PICK A : Stacks(A) BY DEF HostInv, HostTypes
  <1> DEFINE f == Top(t)  D == Depth(t)  b == Budget(f.pl)
             g == [Stepped(t) EXCEPT !.pc = "rel", !.broken = TRUE]
             x == [inst[f.i] EXCEPT !.cnt = inst[f.i].cnt + 1, !.tripped = TRUE]
  <1>2. D \in Nat /\ D > 0 /\ f = thr[t][D] /\ f \in FrameOf(A) /\ f.pc \in {"run", "resp"} /\ ~HasFuel(f.i)
    BY <1>1, TopFrame DEF OutOfFuel
  <1>3. CallSound(t, D) /\ FuelSound(t, D) BY <1>2 DEF HostInv, CallsSound
  <1>4. /\ g \in FrameOf(A) /\ g.i = f.i /\ g.pl = f.pl /\ g.n = f.n + 1 /\ g.broken /\ g.pc = "rel"
        /\ g.todo \subseteq Subscribers(g.pl)
    <2> DEFINE h == Stepped(t)
    <2>0. f.todo \subseteq Subscribers(f.pl) BY <1>2, TopAsks
    <2>1. h \in FrameOf(A) /\ h.i = f.i /\ h.pl = f.pl /\ h.n = f.n + 1 /\ h.todo = f.todo
      BY <1>2 DEF FrameOf, Stepped
    <2> HIDE DEF h
    <2>2. g = [h EXCEPT !.pc = "rel", !.broken = TRUE] BY DEF h
    <2> HIDE DEF g, f
    <2> QED BY <2>0, <2>1, <2>2 DEF FrameOf
  <1>5. f.i \in Insts /\ inst[f.i].pl = f.pl BY <1>2, <1>3 DEF CallSound
  <1>6. inst \in [Insts -> InstOf(A)] /\ inst[f.i] \in InstOf(A) /\ inst[f.i].cnt \in Nat
    BY <1>1, <1>5 DEF Stacks, InstOf
  <1>7. x \in InstOf(A) /\ x.st = inst[f.i].st /\ x.pl = inst[f.i].pl /\ x.cnt = inst[f.i].cnt + 1
    <2> DEFINE c == inst[f.i].cnt + 1  y == [inst[f.i] EXCEPT !.cnt = c]
    <2>1. c \in Nat BY <1>6
    <2> HIDE DEF c
    <2>2. y \in InstOf(A) /\ y.st = inst[f.i].st /\ y.pl = inst[f.i].pl /\ y.cnt = c
      BY <1>6, <2>1 DEF InstOf
    <2>3. x = [y EXCEPT !.tripped = TRUE] BY <1>6 DEF c, InstOf
    <2> HIDE DEF x, y, f
    <2>4. x \in InstOf(A) /\ x.st = y.st /\ x.pl = y.pl /\ x.cnt = y.cnt BY <2>2, <2>3 DEF InstOf
    <2> QED BY <2>2, <2>4 DEF c
  <1>8. inst' = [inst EXCEPT ![f.i] = x] /\ thr' = SetTop(t, g)
        /\ UNCHANGED <<scene, calls, pool, single, mu, shut, lost, out>>
    BY DEF OutOfFuel, world, manager
  <1>9. b \in Nat /\ f.n \in Nat BY <1>2, SceneFacts DEF HostInv, HostTypes, FrameOf
  <1>10. b > 0 => inst[f.i].cnt = f.n /\ ~(inst[f.i].cnt < b)
    BY <1>2, <1>3, <1>5 DEF FuelSound, HasFuel
  <1> HIDE DEF f, D, g, x, b
  <1>11. GoesOn(t, g)
    <2>1. inst'[f.i] = x /\ \A j \in Insts \ {f.i} : inst'[j] = inst[j] BY <1>5, <1>6, <1>8
    <2>2. Budget(g.pl) > 0 => /\ inst'[g.i].cnt = g.n
                              /\ inst'[g.i].tripped => g.n > Budget(g.pl)
                              /\ ~g.broken => g.n <= Budget(g.pl)
      BY <2>1, <1>4, <1>7, <1>9, <1>10 DEF b
    <2>3. \A j \in Insts : /\ inst'[j].st = inst[j].st /\ inst'[j].pl = inst[j].pl
                           /\ j # g.i => inst'[j].cnt = inst[j].cnt /\ inst'[j].tripped = inst[j].tripped
      BY <2>1, <1>4, <1>7
    <2> QED BY <2>2, <2>3, <1>2, <1>4, <1>8 DEF GoesOn, f, D
  <1>12. inst' \in [Insts -> InstOf(A)] BY <1>5, <1>6, <1>7, <1>8
  <1> QED BY <1>1, <1>4, <1>11, <1>12, GoesOnKeeps
\* The innermost call and its instance.
LEMMA TopCall ==
  ASSUME HostInv, NEW A, Stacks(A), NEW t \in Threads, Depth(t) > 0
  PROVE  LET f == Top(t) IN
         /\ Depth(t) \in Nat /\ f = thr[t][Depth(t)] /\ f \in FrameOf(A)
         /\ f.pl \in Plugins /\ f.n \in Nat /\ Budget(f.pl) \in Nat
         /\ CallSound(t, Depth(t)) /\ FuelSound(t, Depth(t)) /\ Reported(t, Depth(t))
  <1>1. /\ Depth(t) \in Nat /\ Depth(t) \in 1 .. Depth(t)
        /\ Top(t) = thr[t][Depth(t)] /\ Top(t) \in FrameOf(A)
    BY TopFrame
  <1>2. Top(t).pl \in Plugins /\ Top(t).n \in Nat BY <1>1 DEF FrameOf
  <1>3. Budget(Top(t).pl) \in Nat BY <1>2, SceneFacts DEF HostInv, HostTypes
  <1> QED BY <1>1, <1>2, <1>3 DEF HostInv, CallsSound

\* fuelKill reports what the meter says.
LEMMA VerdictIs ==
  ASSUME HostInv, NEW t \in Threads, At(t, "rel")
  PROVE  LET b == Budget(Top(t).pl) IN
         /\ Verdict(t) \in Verdicts
         /\ b > 0 => (Verdict(t) = "fuel" => Top(t).n > b) /\ (Verdict(t) = "ok" => Top(t).n <= b)
  <1>1. PICK A : Stacks(A) BY DEF HostInv, HostTypes
  <1>2. Depth(t) > 0 /\ Top(t).pc = "rel" BY DEF At
  <1>3. Top(t) = thr[t][Depth(t)] /\ FuelSound(t, Depth(t)) BY <1>1, <1>2, TopCall
  <1>4. Budget(Top(t).pl) > 0 =>
          (inst[Top(t).i].tripped => Top(t).n > Budget(Top(t).pl)) /\ (~Top(t).broken => Top(t).n <= Budget(Top(t).pl))
    BY <1>2, <1>3 DEF FuelSound
  <1>5. /\ Verdict(t) \in Verdicts
        /\ Verdict(t) = "fuel" => inst[Top(t).i].tripped
        /\ Verdict(t) = "ok" => ~Top(t).broken
    BY DEF Verdict, Verdicts
  <1> QED BY <1>4, <1>5

\* Closing a handle table leaves the other instances alone.
LEMMA ClosedIs ==
  ASSUME NEW A, Stacks(A), {} \in A, NEW i \in Insts, NEW st \in {"none", "live", "closed"}, CloseTable(i, st)
  PROVE  /\ inst' \in [Insts -> InstOf(A)]
         /\ \A j \in Insts \ {i} : inst'[j] = inst[j]
         /\ inst'[i].st = st /\ inst'[i].pl = inst[i].pl
  <1> DEFINE x == [inst[i] EXCEPT !.tab = {}]  y == [x EXCEPT !.st = st]
  <1>1. inst \in [Insts -> InstOf(A)] /\ inst[i] \in InstOf(A) BY DEF Stacks
  <1>2. x \in InstOf(A) /\ x.pl = inst[i].pl BY <1>1 DEF InstOf
  <1>3. y \in InstOf(A) /\ y.pl = x.pl /\ y.st = st BY <1>2 DEF InstOf
  <1>4. inst' = [inst EXCEPT ![i] = y] BY <1>1 DEF CloseTable
  <1> HIDE DEF x, y
  <1> QED BY <1>1, <1>2, <1>3, <1>4

LEMMA ReleasePooledKeeps ==
  ASSUME HostInv, NEW t \in Threads, NEW over \in BOOLEAN, ReleasePooled(t, over)
  PROVE  HostInv'
  <1>1. PICK C : Stacks(C) BY DEF HostInv, HostTypes
  <1> DEFINE A == C \union {{}, Verdict(t)}  f == Top(t)
             st == IF Destroyed(t, over) THEN "closed" ELSE inst[f.i].st
             pc == IF Destroyed(t, over) THEN "new" ELSE "put"
             g == [f EXCEPT !.pc = pc, !.arg = Verdict(t)]
  <1>2. Stacks(A) /\ {} \in A /\ Verdict(t) \in A BY <1>1, StacksGrow
  <1> HIDE DEF A
  <1>3. /\ At(t, "rel") /\ Depth(t) > 0 /\ f.pc = "rel" /\ Model(f.pl) = "pooled"
        /\ CloseTable(f.i, st) /\ thr' = SetTop(t, g)
        /\ UNCHANGED <<scene, calls, pool, single, mu, shut, lost, out>>
    BY DEF ReleasePooled, At, Model, manager
  <1>4. f \in FrameOf(A) /\ CallSound(t, Depth(t)) /\ f = thr[t][Depth(t)] BY <1>2, <1>3, TopCall
  <1>5. f.i \in Insts /\ inst[f.i].pl = f.pl /\ inst[f.i].st = "live" BY <1>3, <1>4 DEF CallSound
  <1>6. /\ Verdict(t) \in Verdicts
        /\ Budget(f.pl) > 0 => (Verdict(t) = "fuel" => f.n > Budget(f.pl)) /\ (Verdict(t) = "ok" => f.n <= Budget(f.pl))
    BY <1>3, VerdictIs
  <1>7. pc \in {"new", "put"} /\ (pc = "put" <=> st = "live") /\ st \in {"none", "live", "closed"} BY <1>5
  <1> HIDE DEF pc, st
  <1>8. /\ g \in FrameOf(A) /\ g.i = f.i /\ g.pl = f.pl /\ g.n = f.n /\ g.pc = pc /\ g.arg = Verdict(t)
        /\ g.todo = f.todo
    BY <1>2, <1>4, <1>7 DEF FrameOf
  <1> HIDE DEF g
  <1>9. /\ inst' \in [Insts -> InstOf(A)]
        /\ \A j \in Insts \ {f.i} : inst'[j] = inst[j]
        /\ inst'[f.i].st = st /\ inst'[f.i].pl = inst[f.i].pl
    BY <1>2, <1>3, <1>5, <1>7, ClosedIs
  <1>10. Swaps(t, g) BY <1>3, <1>5, <1>6, <1>7, <1>8, <1>9 DEF Swaps
  <1> QED BY <1>2, <1>8, <1>9, <1>10, SwapsKeeps
LEMMA FreshIs ==
  ASSUME NEW A, {} \in A, NEW p \in Plugins
  PROVE  Fresh(p) \in InstOf(A) /\ Fresh(p).st = "live" /\ Fresh(p).pl = p
  BY DEF Fresh, InstOf

LEMMA ReplenishKeeps ==
  ASSUME HostInv, NEW t \in Threads, Replenish(t)
  PROVE  HostInv'
  <1>1. PICK C : Stacks(C) BY DEF HostInv, HostTypes
  <1> DEFINE A == C \union {{}}  f == Top(t)  p == f.pl  g == [f EXCEPT !.pc = "put", !.i = NewInst]
  <1>2. Stacks(A) /\ {} \in A BY <1>1, StacksGrow
  <1> HIDE DEF A
  <1>3. Depth(t) > 0 /\ f.pc = "new" /\ UNCHANGED <<scene, calls, pool, single, mu, shut>>
    BY DEF Replenish, At
  <1>4. /\ f \in FrameOf(A) /\ CallSound(t, Depth(t)) /\ FuelSound(t, Depth(t)) /\ Reported(t, Depth(t))
        /\ f = thr[t][Depth(t)] /\ p \in Plugins
    BY <1>2, <1>3, TopCall
  <1>5. /\ f.i \in Insts /\ inst[f.i].pl = p /\ Model(p) = "pooled" /\ f.arg \in Verdicts
        /\ Budget(p) > 0 => (f.arg = "fuel" => f.n > Budget(p)) /\ (f.arg = "ok" => f.n <= Budget(p))
    BY <1>3, <1>4 DEF CallSound, FuelSound, Reported
  <1>6. inst \in [Insts -> InstOf(A)] BY <1>2 DEF Stacks
  <1>7. CASE /\ Unused # {} /\ inst' = [inst EXCEPT ![NewInst] = Fresh(p)] /\ thr' = SetTop(t, g)
             /\ UNCHANGED <<out, lost>>
    <2>1. NewInst \in Insts /\ inst[NewInst].st # "live" /\ ~Held(NewInst)
      BY <1>7, NewIsUnused DEF Unused
    <2>2. /\ inst' \in [Insts -> InstOf(A)] /\ inst'[NewInst] = Fresh(p)
          /\ \A j \in Insts \ {NewInst} : inst'[j] = inst[j]
      BY <1>2, <1>4, <1>6, <1>7, <2>1, FreshIs
    <2>3. g \in FrameOf(A) /\ g.i = NewInst /\ g.pl = p /\ g.n = f.n /\ g.pc = "put" /\ g.arg = f.arg
          /\ g.todo = f.todo
      BY <1>4, <2>1 DEF FrameOf
    <2> HIDE DEF g
    <2>4. inst'[g.i].pl = p /\ inst'[g.i].st = "live" BY <1>2, <1>4, <2>2, <2>3, FreshIs
    <2>5. Swaps(t, g) BY <1>3, <1>5, <1>7, <2>1, <2>2, <2>3, <2>4 DEF Swaps
    <2> QED BY <1>2, <2>2, <2>3, <2>5, SwapsKeeps
  <1>8. CASE EndCall(t, f.arg, open) /\ lost' = [lost EXCEPT ![p] = @ + 1] /\ UNCHANGED inst
    <2>1. Ends(t, f.arg, open) BY <1>3, <1>5, <1>8 DEF Ends
    <2>2. inst' \in [Insts -> InstOf(A)] BY <1>6, <1>8
    <2> QED BY <1>2, <2>1, <2>2, EndsKeeps
  <1> QED BY <1>7, <1>8 DEF Replenish

LEMMA PutBackKeeps ==
  ASSUME HostInv, NEW t \in Threads, PutBack(t)
  PROVE  HostInv'
  <1>1. PICK A : Stacks(A) BY DEF HostInv, HostTypes
  <1> DEFINE f == Top(t)  p == f.pl
  <1>3. Depth(t) > 0 /\ f.pc = "put" /\ UNCHANGED <<scene, calls, single, mu, shut, lost, inst>>
    BY DEF PutBack, At
  <1>4. /\ f \in FrameOf(A) /\ CallSound(t, Depth(t)) /\ FuelSound(t, Depth(t)) /\ Reported(t, Depth(t))
        /\ f = thr[t][Depth(t)] /\ p \in Plugins
    BY <1>1, <1>3, TopCall
  <1>5. /\ f.i \in Insts /\ inst[f.i].pl = p /\ Model(p) = "pooled" /\ f.arg \in Verdicts
        /\ Budget(p) > 0 => (f.arg = "fuel" => f.n > Budget(p)) /\ (f.arg = "ok" => f.n <= Budget(p))
    BY <1>3, <1>4 DEF CallSound, FuelSound, Reported
  <1>6. inst' \in [Insts -> InstOf(A)] BY <1>1, <1>3 DEF Stacks
  <1>7. CASE pool' = [pool EXCEPT ![p] = Append(@, f.i)] /\ EndCall(t, f.arg, open)
    <2>1. Ends(t, f.arg, open) BY <1>3, <1>5, <1>7 DEF Ends
    <2> QED BY <1>1, <1>6, <2>1, EndsKeeps
  <1>8. CASE shut[p] # "no" /\ EndCall(t, "panic", open) /\ UNCHANGED pool
    <2>1. Ends(t, "panic", open) BY <1>3, <1>5, <1>8 DEF Ends, Verdicts
    <2> QED BY <1>1, <1>6, <2>1, EndsKeeps
  <1> QED BY <1>7, <1>8 DEF PutBack

LEMMA ReleasesKeep ==
  ASSUME HostInv, NEW t \in Threads, NEW over \in BOOLEAN, ReleaseSingleton(t, over) \/ ReleasePerRequest(t)
  PROVE  HostInv'
  <1>1. PICK C : Stacks(C) BY DEF HostInv, HostTypes
  <1> DEFINE A == C \union {{}}  f == Top(t)  p == f.pl  r == Verdict(t)
  <1>2. Stacks(A) /\ {} \in A BY <1>1, StacksGrow
  <1> HIDE DEF A
  <1>3. /\ At(t, "rel") /\ Depth(t) > 0 /\ f.pc = "rel" /\ EndCall(t, r, CloseAllOpen(open, f.i))
        /\ UNCHANGED <<scene, calls, pool, shut, lost>>
    BY DEF ReleaseSingleton, ReleasePerRequest, At, manager
  <1>4. f \in FrameOf(A) /\ CallSound(t, Depth(t)) /\ f = thr[t][Depth(t)] BY <1>2, <1>3, TopCall
  <1>5. f.i \in Insts /\ inst[f.i].pl = p BY <1>3, <1>4 DEF CallSound
  <1>6. /\ r \in Verdicts
        /\ Budget(p) > 0 => (r = "fuel" => f.n > Budget(p)) /\ (r = "ok" => f.n <= Budget(p))
    BY <1>3, VerdictIs
  <1>7. inst[f.i].st \in {"none", "live", "closed"} BY <1>2, <1>5 DEF Stacks, InstOf
  <1>8. CASE ReleaseSingleton(t, over)
    <2> DEFINE st == IF Destroyed(t, over) THEN "closed" ELSE inst[f.i].st
    <2>1. /\ Model(p) = "singleton" /\ CloseTable(f.i, st) /\ mu' = [mu EXCEPT ![p] = Nil]
          /\ single' = IF Destroyed(t, over) THEN [single EXCEPT ![p] = Nil] ELSE single
      BY <1>8 DEF ReleaseSingleton, Model
    <2>2. st \in {"none", "live", "closed"} BY <1>7
    <2>3. (single' = single /\ st = inst[f.i].st) \/ single' = [single EXCEPT ![p] = Nil] BY <2>1
    <2> HIDE DEF st
    <2>4. /\ inst' \in [Insts -> InstOf(A)]
          /\ \A j \in Insts \ {f.i} : inst'[j] = inst[j]
          /\ inst'[f.i].st = st /\ inst'[f.i].pl = inst[f.i].pl
      BY <1>2, <1>5, <2>1, <2>2, ClosedIs
    <2> HIDE DEF r
    <2>5. Ends(t, r, CloseAllOpen(open, f.i)) BY <1>3, <1>6, <2>1, <2>3, <2>4 DEF Ends
    <2> QED BY <1>2, <2>4, <2>5, EndsKeeps
  <1>9. CASE ReleasePerRequest(t)
    <2>1. Model(p) = "per_request" /\ CloseTable(f.i, "closed") /\ UNCHANGED <<single, mu>>
      BY <1>9 DEF ReleasePerRequest, Model, manager
    <2>4. /\ inst' \in [Insts -> InstOf(A)]
          /\ \A j \in Insts \ {f.i} : inst'[j] = inst[j]
          /\ inst'[f.i].pl = inst[f.i].pl
      BY <1>2, <1>5, <2>1, ClosedIs
    <2> HIDE DEF r
    <2>5. Ends(t, r, CloseAllOpen(open, f.i)) BY <1>3, <1>6, <2>1, <2>4 DEF Ends
    <2> QED BY <1>2, <2>4, <2>5, EndsKeeps
  <1> QED BY <1>8, <1>9
\* Entering: the call's frame, and the instance with its meter armed.
LEMMA EnterIs ==
  ASSUME HostInv, NEW t \in Threads, At(t, "acq"), NEW i \in Insts, NEW C, Stacks(C),
         NEW base \in [Insts -> InstOf(C)], Enter(t, i, base)
  PROVE  \E B, g : /\ Stacks(B) /\ g \in FrameOf(B) /\ thr' = SetTop(t, g)
                   /\ g.i = i /\ g.pl = Top(t).pl /\ g.pc \in {"run", "rel"} /\ g.todo = Top(t).todo
                   /\ inst' \in [Insts -> InstOf(B)]
                   /\ inst'[i].st = base[i].st /\ inst'[i].pl = base[i].pl
                   /\ \A j \in Insts \ {i} : inst'[j] = base[j]
                   /\ Budget(g.pl) > 0 => inst'[i].cnt = g.n /\ ~inst'[i].tripped /\ g.n <= Budget(g.pl)
  <1> DEFINE f == Top(t)  b == Budget(f.pl)
             e == Entry(i, "reqbody", Nil, 0, 0)
             ok == f.kind # "stream" \/ agg[f.pl]["stream"] < StreamLimit
             pc == IF ok THEN "run" ELSE "rel"
             arg == IF ok THEN Nil ELSE "refused"
             tab == IF f.kind = "stream" /\ ok THEN {e} ELSE base[i].tab
             cnt == IF b = 0 THEN 0 ELSE 1
             B == C \union {tab, arg}
             g == [f EXCEPT !.i = i, !.n = 1, !.pc = pc, !.arg = arg]
             x == [base[i] EXCEPT !.cnt = 0, !.tripped = FALSE]
             y == [x EXCEPT !.tab = tab]
             z == [y EXCEPT !.cnt = cnt]
  <1>1. Stacks(B) /\ tab \in B /\ arg \in B /\ C \subseteq B BY StacksGrow
  <1>2. base \in [Insts -> InstOf(B)] /\ base[i] \in InstOf(B)
    <2>1. InstOf(C) \subseteq InstOf(B) BY DEF InstOf
    <2> QED BY <2>1
  <1> HIDE DEF B
  <1>3. f \in FrameOf(B) /\ b \in Nat BY <1>1, TopCall DEF At
  <1>4. pc \in {"run", "rel"} /\ cnt \in Nat /\ (b > 0 => cnt = 1 /\ 1 <= b) BY <1>3
  <1>5. thr' = SetTop(t, g) BY DEF Enter
  <1>6. inst' = [base EXCEPT ![i] = z]
    <2>1. [base EXCEPT ![i] = Rearm(@)] = [base EXCEPT ![i] = x] BY <1>2 DEF Rearm
    <2>2. inst' = [[base EXCEPT ![i] = Rearm(@)] EXCEPT
             ![i].tab = IF f.kind = "stream" /\ ok THEN {e} ELSE @,
             ![i].cnt = IF Budget(f.pl) = 0 THEN 0 ELSE @ + 1]
      BY DEF Enter
    <2> DEFINE N == [base EXCEPT ![i] = x]
    <2>3. N \in [Insts -> InstOf(B)] /\ N[i] = x /\ x.tab = base[i].tab /\ x.cnt = 0
      BY <1>2 DEF InstOf
    <2>4. inst' = [N EXCEPT ![i].tab = IF f.kind = "stream" /\ ok THEN {e} ELSE @,
                            ![i].cnt = IF Budget(f.pl) = 0 THEN 0 ELSE @ + 1]
      BY <2>1, <2>2
    <2> HIDE DEF N, x, e, ok, f
    <2>5. inst' = [N EXCEPT ![i] = [[x EXCEPT !.tab = tab] EXCEPT !.cnt = cnt]]
      <3> DEFINE M == [N EXCEPT ![i].tab = IF f.kind = "stream" /\ ok THEN {e} ELSE @]
      <3>1. M = [N EXCEPT ![i] = y] BY <2>3
      <3>a. x \in InstOf(B) BY <2>3
      <3>b. y \in InstOf(B) /\ y.cnt = x.cnt BY <3>a, <1>1 DEF InstOf
      <3> HIDE DEF y, M
      <3>2. M \in [Insts -> InstOf(B)] /\ M[i] = y /\ y.cnt = 0
        BY <3>1, <3>b, <2>3
      <3>3. inst' = [M EXCEPT ![i].cnt = IF b = 0 THEN 0 ELSE @ + 1] BY <2>4 DEF M
      <3>c. (IF b = 0 THEN 0 ELSE M[i].cnt + 1) = cnt BY <3>2
      <3>d. inst' = [M EXCEPT ![i].cnt = cnt] BY <3>3, <3>c
      <3>4. inst' = [M EXCEPT ![i] = [y EXCEPT !.cnt = cnt]] BY <3>2, <3>d
      <3> QED BY <3>1, <3>4, <2>3 DEF y
    <2> QED BY <2>5 DEF N
  <1> HIDE DEF tab, arg, pc, cnt, e, ok
  <1>7. /\ g \in FrameOf(B) /\ g.i = i /\ g.pl = f.pl /\ g.pc = pc /\ g.n = 1 /\ g.todo = f.todo
    BY <1>1, <1>3, <1>4 DEF FrameOf
  <1>8. x \in InstOf(B) /\ x.st = base[i].st /\ x.pl = base[i].pl /\ x.tripped = FALSE BY <1>2 DEF InstOf
  <1> HIDE DEF x
  <1>9. y \in InstOf(B) /\ y.st = x.st /\ y.pl = x.pl /\ y.tripped = x.tripped BY <1>1, <1>8 DEF InstOf
  <1> HIDE DEF y
  <1>10. z \in InstOf(B) /\ z.st = y.st /\ z.pl = y.pl /\ z.tripped = y.tripped /\ z.cnt = cnt
    BY <1>4, <1>9 DEF InstOf
  <1> HIDE DEF z, g, f
  <1>11. inst' \in [Insts -> InstOf(B)] /\ inst'[i] = z /\ \A j \in Insts \ {i} : inst'[j] = base[j]
    BY <1>2, <1>6, <1>10
  <1> QED BY <1>1, <1>4, <1>5, <1>7, <1>8, <1>9, <1>10, <1>11 DEF f

LEMMA AcquirePooledKeeps ==
  ASSUME HostInv, NEW t \in Threads, AcquirePooled(t)
  PROVE  HostInv'
  <1>1. PICK C : Stacks(C) BY DEF HostInv, HostTypes
  <1> DEFINE f == Top(t)  p == f.pl
  <1>2. /\ At(t, "acq") /\ Depth(t) > 0 /\ f.pc = "acq" /\ Model(p) = "pooled"
        /\ UNCHANGED <<scene, calls, single, mu, shut, lost>>
    BY DEF AcquirePooled, At, Model
  <1>3. inst \in [Insts -> InstOf(C)] /\ p \in Plugins BY <1>1, <1>2, TopCall DEF Stacks
  <1>4. CASE pool[p] # <<>> /\ Enter(t, Head(pool[p]), inst) /\ pool' = [pool EXCEPT ![p] = Tail(@)] /\ UNCHANGED out
    <2> DEFINE i == Head(pool[p])
    <2>1. pool[p] \in Seq(Insts) BY <1>3 DEF HostInv, HostTypes
    <2>2. 1 \in 1 .. Len(pool[p]) /\ i = pool[p][1] BY <2>1, <1>4, EmptySeq
    <2>3. i \in Insts /\ ~Held(i) /\ inst[i].st = "live" /\ inst[i].pl = p
      BY <2>1, <2>2, <1>3, ElementOfSeq DEF HostInv, Idling
    <2> HIDE DEF i
    <2>4. PICK B, g : /\ Stacks(B) /\ g \in FrameOf(B) /\ thr' = SetTop(t, g)
                      /\ g.i = i /\ g.pl = p /\ g.pc \in {"run", "rel"} /\ g.todo = f.todo
                      /\ inst' \in [Insts -> InstOf(B)]
                      /\ inst'[i].st = inst[i].st /\ inst'[i].pl = inst[i].pl
                      /\ \A j \in Insts \ {i} : inst'[j] = inst[j]
                      /\ Budget(g.pl) > 0 => inst'[i].cnt = g.n /\ ~inst'[i].tripped /\ g.n <= Budget(g.pl)
      <3>1. Enter(t, i, inst) BY <1>4 DEF i
      <3> QED BY <3>1, <1>1, <1>2, <1>3, <2>3, EnterIs
    <2>5. Enters(t, g) BY <1>2, <1>4, <2>3, <2>4 DEF Enters, i
    <2> QED BY <2>4, <2>5, EntersKeeps
  <1>5. CASE EndCall(t, IF shut[p] = "no" THEN "error" ELSE "panic", open) /\ UNCHANGED <<inst, pool>>
    <2> DEFINE r == IF shut[p] = "no" THEN "error" ELSE "panic"
    <2>1. r \in Verdicts /\ r # "fuel" /\ r # "ok" BY DEF Verdicts
    <2>2. EndCall(t, r, open) /\ UNCHANGED <<inst, pool>> BY <1>5
    <2> HIDE DEF r
    <2>3. Ends(t, r, open) BY <2>1, <2>2, <1>2 DEF Ends
    <2>4. inst' \in [Insts -> InstOf(C)] BY <2>2, <1>3
    <2> QED BY <1>1, <2>3, <2>4, EndsKeeps
  <1> QED BY <1>4, <1>5 DEF AcquirePooled

LEMMA NewInstIs ==
  ASSUME NEW A, {} \in A, inst \in [Insts -> InstOf(A)], NEW p \in Plugins, Unused # {}
  PROVE  LET base == [inst EXCEPT ![NewInst] = Fresh(p)] IN
         /\ NewInst \in Insts /\ inst[NewInst].st # "live" /\ ~Held(NewInst)
         /\ base \in [Insts -> InstOf(A)] /\ base[NewInst].st = "live" /\ base[NewInst].pl = p
         /\ \A j \in Insts \ {NewInst} : base[j] = inst[j]
  <1>1. NewInst \in Insts /\ inst[NewInst].st # "live" /\ ~Held(NewInst) BY NewIsUnused DEF Unused
  <1>2. Fresh(p) \in InstOf(A) /\ Fresh(p).st = "live" /\ Fresh(p).pl = p BY FreshIs
  <1> QED BY <1>1, <1>2
LEMMA AcquireSingletonKeeps ==
  ASSUME HostInv, NEW t \in Threads, AcquireSingleton(t)
  PROVE  HostInv'
  <1>1. PICK C : Stacks(C) BY DEF HostInv, HostTypes
  <1> DEFINE A == C \union {{}}  f == Top(t)  p == f.pl  fresh == [inst EXCEPT ![NewInst] = Fresh(p)]
  <1>a. Stacks(A) /\ {} \in A BY <1>1, StacksGrow
  <1> HIDE DEF A
  <1>2. /\ At(t, "acq") /\ Depth(t) > 0 /\ f.pc = "acq" /\ Model(p) = "singleton" /\ mu[p] = Nil
        /\ UNCHANGED <<scene, calls, pool, shut, lost>>
    BY DEF AcquireSingleton, At, Model
  <1>3. inst \in [Insts -> InstOf(A)] /\ p \in Plugins BY <1>a, <1>2, TopCall DEF Stacks
  <1>4. single \in [Plugins -> Insts \union {Nil}] BY DEF HostInv, HostTypes
  <1>5. ASSUME NEW i \in Insts, NEW base \in [Insts -> InstOf(A)], Enter(t, i, base),
               base[i].st = "live", base[i].pl = p, ~Held(i),
               \A j \in Insts \ {i} : base[j] = inst[j],
               i = single[p] \/ inst[i].st # "live",
               mu' = [mu EXCEPT ![p] = t], single' = [single EXCEPT ![p] = i], UNCHANGED out
        PROVE  HostInv'
    <2>1. PICK B, g : /\ Stacks(B) /\ g \in FrameOf(B) /\ thr' = SetTop(t, g)
                      /\ g.i = i /\ g.pl = p /\ g.pc \in {"run", "rel"} /\ g.todo = f.todo
                      /\ inst' \in [Insts -> InstOf(B)]
                      /\ inst'[i].st = base[i].st /\ inst'[i].pl = base[i].pl
                      /\ \A j \in Insts \ {i} : inst'[j] = base[j]
                      /\ Budget(g.pl) > 0 => inst'[i].cnt = g.n /\ ~inst'[i].tripped /\ g.n <= Budget(g.pl)
      BY <1>a, <1>2, <1>5, EnterIs
    <2>2. Enters(t, g) BY <1>2, <1>5, <2>1 DEF Enters
    <2> QED BY <2>1, <2>2, EntersKeeps
  <1>6. CASE single[p] # Nil /\ Enter(t, single[p], inst) /\ mu' = [mu EXCEPT ![p] = t] /\ UNCHANGED <<single, out>>
    <2>1. single[p] \in Insts /\ single' = [single EXCEPT ![p] = single[p]] BY <1>3, <1>4, <1>6
    <2>2. inst[single[p]].pl = p /\ inst[single[p]].st = "live" BY <1>3, <1>6 DEF HostInv, Idling
    <2>3. ~Held(single[p])
      <3>1. SUFFICES ASSUME NEW v \in Threads, NEW d \in 1 .. Depth(v), thr[v][d].i = single[p] PROVE FALSE
        BY HeldAt
      <3>2. CallSound(v, d) /\ thr[v][d].pc # "acq"
        BY <3>1, <2>1, NilIsNothing DEF HostInv, CallsSound, CallSound
      <3>3. thr[v][d].pl = p /\ mu[p] = v BY <3>1, <3>2, <2>2, <1>2 DEF CallSound
      <3> QED BY <3>3, <1>2, NilIsNothing
    <2> QED BY <1>3, <1>5, <1>6, <2>1, <2>2, <2>3
  <1>7. CASE /\ Unused # {} /\ Enter(t, NewInst, fresh) /\ mu' = [mu EXCEPT ![p] = t]
             /\ single' = [single EXCEPT ![p] = NewInst] /\ UNCHANGED out
    <2>1. /\ NewInst \in Insts /\ inst[NewInst].st # "live" /\ ~Held(NewInst)
          /\ fresh \in [Insts -> InstOf(A)] /\ fresh[NewInst].st = "live" /\ fresh[NewInst].pl = p
          /\ \A j \in Insts \ {NewInst} : fresh[j] = inst[j]
      BY <1>a, <1>3, <1>7, NewInstIs
    <2> HIDE DEF fresh
    <2> QED BY <1>5, <1>7, <2>1
  <1>8. CASE EndCall(t, "error", open) /\ UNCHANGED <<inst, mu, single>>
    <2>1. Ends(t, "error", open) BY <1>8, <1>2 DEF Ends, Verdicts
    <2>2. inst' \in [Insts -> InstOf(A)] BY <1>8, <1>3
    <2> QED BY <1>a, <2>1, <2>2, EndsKeeps
  <1> QED BY <1>6, <1>7, <1>8 DEF AcquireSingleton

LEMMA AcquirePerRequestKeeps ==
  ASSUME HostInv, NEW t \in Threads, AcquirePerRequest(t)
  PROVE  HostInv'
  <1>1. PICK C : Stacks(C) BY DEF HostInv, HostTypes
  <1> DEFINE A == C \union {{}}  f == Top(t)  p == f.pl  fresh == [inst EXCEPT ![NewInst] = Fresh(p)]
  <1>a. Stacks(A) /\ {} \in A BY <1>1, StacksGrow
  <1> HIDE DEF A
  <1>2. /\ At(t, "acq") /\ Depth(t) > 0 /\ f.pc = "acq" /\ Model(p) = "per_request"
        /\ UNCHANGED <<scene, calls, pool, single, mu, shut, lost>>
    BY DEF AcquirePerRequest, At, Model, world, manager
  <1>3. inst \in [Insts -> InstOf(A)] /\ p \in Plugins BY <1>a, <1>2, TopCall DEF Stacks
  <1>4. CASE Unused # {} /\ Enter(t, NewInst, fresh) /\ UNCHANGED out
    <2>1. /\ NewInst \in Insts /\ inst[NewInst].st # "live" /\ ~Held(NewInst)
          /\ fresh \in [Insts -> InstOf(A)] /\ fresh[NewInst].st = "live" /\ fresh[NewInst].pl = p
          /\ \A j \in Insts \ {NewInst} : fresh[j] = inst[j]
      BY <1>a, <1>3, <1>4, NewInstIs
    <2> HIDE DEF fresh
    <2>2. PICK B, g : /\ Stacks(B) /\ g \in FrameOf(B) /\ thr' = SetTop(t, g)
                      /\ g.i = NewInst /\ g.pl = p /\ g.pc \in {"run", "rel"} /\ g.todo = f.todo
                      /\ inst' \in [Insts -> InstOf(B)]
                      /\ inst'[NewInst].st = fresh[NewInst].st /\ inst'[NewInst].pl = fresh[NewInst].pl
                      /\ \A j \in Insts \ {NewInst} : inst'[j] = fresh[j]
                      /\ Budget(g.pl) > 0 => inst'[NewInst].cnt = g.n /\ ~inst'[NewInst].tripped /\ g.n <= Budget(g.pl)
      BY <1>a, <1>2, <1>4, <2>1, EnterIs
    <2>3. Enters(t, g) BY <1>2, <1>4, <2>1, <2>2 DEF Enters
    <2> QED BY <2>2, <2>3, EntersKeeps
  <1>5. CASE EndCall(t, "error", open) /\ UNCHANGED inst
    <2>1. Ends(t, "error", open) BY <1>5, <1>2 DEF Ends, Verdicts
    <2>2. inst' \in [Insts -> InstOf(A)] BY <1>5, <1>3
    <2> QED BY <1>a, <2>1, <2>2, EndsKeeps
  <1> QED BY <1>4, <1>5 DEF AcquirePerRequest

LEMMA CallIs ==
  ASSUME NEW A, Nil \in A, NEW p \in Plugins, NEW kind \in {"entry", "request", "stream", "hook"},
         NEW u \in Users \union {Nil}
  PROVE  LET g == Call(p, kind, u) IN /\ g \in FrameOf(A) /\ g.pc = "acq" /\ g.i = Nil
                                     /\ g.pl = p /\ g.todo = {}
  BY DEF Call, FrameOf

LEMMA StartKeeps ==
  ASSUME HostInv, NEW t \in Threads, Start(t)
  PROVE  HostInv'
  <1>1. PICK C : Stacks(C) BY DEF HostInv, HostTypes
  <1> DEFINE A == C \union {Nil}
             W == [pl : Plugins, kind : {"entry", "request", "stream", "hook"}, user : Users \union {Nil}]
             c == Head(calls[t])  g == Call(c.pl, c.kind, c.user)
  <1>2. Stacks(A) /\ Nil \in A BY <1>1, StacksGrow
  <1> HIDE DEF A
  <1>3. calls \in [Threads -> Seq(W)] BY DEF HostInv, HostTypes
  <1>4. /\ thr[t] = <<>> /\ calls[t] # <<>> /\ thr' = [thr EXCEPT ![t] = <<g>>]
        /\ calls' = [calls EXCEPT ![t] = Tail(@)]
        /\ UNCHANGED <<scene, inst, pool, single, mu, shut, lost, out>>
    BY DEF Start, manager
  <1>5. c \in W /\ Tail(calls[t]) \in Seq(W) BY <1>3, <1>4, HeadTailProperties
  <1>6. calls' \in [Threads -> Seq(W)] BY <1>3, <1>4, <1>5
  <1>7. c.pl \in Plugins /\ c.kind \in {"entry", "request", "stream", "hook"} /\ c.user \in Users \union {Nil}
    BY <1>5
  <1>8. g \in FrameOf(A) /\ g.pc = "acq" /\ g.i = Nil /\ g.pl \in Plugins /\ g.todo = {}
    BY <1>2, <1>7, CallIs
  <1> HIDE DEF g, W
  <1>9. Depth(t) = 0 /\ Append(<<>>, g) = <<g>> /\ <<>> \in Seq(FrameOf(A)) /\ Len(<<>>) = 0
    BY <1>4, EmptySeq, AppendProperties DEF Depth
  <1>10. Waits(t, <<>>, g)
    <2>1. \A d \in 1 .. Depth(t) : FALSE BY <1>9
    <2>2. thr' = [thr EXCEPT ![t] = Append(<<>>, g)] BY <1>4, <1>9
    <2> QED BY <1>4, <1>8, <1>9, <2>1, <2>2 DEF Waits
  <1>11. calls' \in [Threads -> Seq([pl : Plugins, kind : {"entry", "request", "stream", "hook"},
                                     user : Users \union {Nil}])]
    BY <1>6 DEF W
  <1> QED BY <1>2, <1>8, <1>9, <1>10, <1>11, WaitsKeeps
LEMMA DeliverKeeps ==
  ASSUME HostInv, NEW t \in Threads, Deliver(t)
  PROVE  HostInv'
  <1>1. PICK C : Stacks(C) BY DEF HostInv, HostTypes
  <1> DEFINE A == C \union {Nil}  f == Top(t)  D == Depth(t)  F == FrameOf(A)
  <1>2. Stacks(A) /\ Nil \in A BY <1>1, StacksGrow
  <1> HIDE DEF A
  <1>3. /\ D > 0 /\ f.pc = "pub" /\ UNCHANGED <<scene, calls, inst, pool, single, mu, shut, lost, out>>
    BY DEF Deliver, At, world, manager
  <1>4. D \in Nat /\ f = thr[t][D] /\ f \in F BY <1>2, <1>3, TopFrame
  <1>5. CASE thr' = SetTop(t, [f EXCEPT !.pc = "run"])
    BY <1>3, <1>5, BackKeeps
  <1>6. ASSUME NEW q \in f.todo,
               thr' = [thr EXCEPT ![t] = Append([thr[t] EXCEPT ![D].todo = @ \ {q}], Call(q, "entry", Nil))]
        PROVE  HostInv'
    <2> DEFINE k == [f EXCEPT !.todo = f.todo \ {q}]  s == [thr[t] EXCEPT ![D] = k]  g == Call(q, "entry", Nil)
    <2>1. f.todo \subseteq Plugins /\ q \in Plugins BY <1>4 DEF FrameOf
    <2>2. k \in F /\ k.pc = "pub" /\ k = [f EXCEPT !.todo = k.todo] /\ k.todo \subseteq f.todo
      BY <1>3, <1>4, <2>1 DEF FrameOf
    <2>3. thr[t] \in Seq(F) /\ D \in 1 .. Len(thr[t]) /\ Len(thr[t]) = D
      BY <1>2, <1>3, <1>4 DEF Stacks, Depth
    <2>4. thr' = [thr EXCEPT ![t] = Append(s, g)]
      <3>1. thr \in [Threads -> Seq(F)] BY <1>2 DEF Stacks
      <3>2. [thr[t] EXCEPT ![D].todo = @ \ {q}] = s BY <1>4
      <3>3. thr' = [thr EXCEPT ![t] = Append([thr[t] EXCEPT ![D].todo = @ \ {q}], g)] BY <1>6, <3>1
      <3> HIDE DEF s, g, D
      <3> QED BY <3>2, <3>3
    <2>5. g \in FrameOf(A) /\ g.pc = "acq" /\ g.i = Nil /\ g.pl = q /\ g.todo = {} BY <1>2, <2>1, CallIs
    <2> HIDE DEF k, g
    <2>6. s \in Seq(F) /\ Len(s) = D /\ \A d \in 1 .. D : s[d] = IF d = D THEN k ELSE thr[t][d]
      BY <2>2, <2>3, ExceptSeq
    <2> HIDE DEF s
    <2>7. ASSUME NEW d \in 1 .. D
          PROVE  /\ s[d].pc = "pub" /\ s[d] = [thr[t][d] EXCEPT !.todo = s[d].todo]
                 /\ s[d].todo \subseteq thr[t][d].todo
      <3>1. CASE d = D BY <3>1, <2>2, <2>6, <1>4
      <3>2. CASE d # D
        <4>1. s[d] = thr[t][d] /\ thr[t][d] \in F BY <3>2, <2>6, <2>3, ElementOfSeq
        <4>2. thr[t][d].pc = "pub" BY <3>2, <1>4 DEF HostInv, CallsSound, CallSound
        <4> QED BY <4>1, <4>2 DEF FrameOf
      <3> QED BY <3>1, <3>2
    <2>8. Waits(t, s, g) BY <1>3, <1>4, <2>1, <2>4, <2>5, <2>6, <2>7 DEF Waits
    <2>9. calls' \in [Threads -> Seq([pl : Plugins, kind : {"entry", "request", "stream", "hook"},
                                       user : Users \union {Nil}])]
      BY <1>3 DEF HostInv, HostTypes
    <2> QED BY <1>2, <2>5, <2>6, <2>8, <2>9, WaitsKeeps
  <1> QED BY <1>5, <1>6 DEF Deliver

LEMMA HostKeeps ==
  ASSUME HostInv, NEW t \in Threads, Host(t)
  PROVE  HostInv'
  <1> USE DEF world, manager
  <1>a. CASE Start(t) BY <1>a, StartKeeps
  <1>b. CASE AcquirePooled(t) BY <1>b, AcquirePooledKeeps
  <1>c. CASE AcquireSingleton(t) BY <1>c, AcquireSingletonKeeps
  <1>d. CASE AcquirePerRequest(t) BY <1>d, AcquirePerRequestKeeps
  <1>e. CASE DBResult(t)
    <2>1. /\ Depth(t) > 0 /\ Top(t).pc = "db"
          /\ thr' = SetTop(t, [Top(t) EXCEPT !.pc = "run", !.arg = Nil])
          /\ UNCHANGED <<scene, calls, pool, single, mu, shut, lost, out>>
      BY <1>e DEF DBResult, At
    <2>2. \E tab : inst' = inst \/ inst' = [inst EXCEPT ![Top(t).i].tab = tab]
      <3> DEFINE f == Top(t)  e == Entry(f.i, IF f.arg = "tx" THEN "tx" ELSE "rows", Nil, 0, 0)
      <3>1. inst' = inst \/ inst' = [inst EXCEPT ![f.i].tab = @ \union {e}] BY <1>e DEF DBResult
      <3>2. inst' = inst \/ inst' = [inst EXCEPT ![f.i].tab = inst[f.i].tab \union {e}] BY <3>1
      <3> HIDE DEF e
      <3> QED BY <3>2
    <2> QED BY <2>1, <2>2, BackKeeps
  <1>f. CASE SpoolWrite(t)
    <2>1. /\ Depth(t) > 0 /\ Top(t).pc = "wr"
          /\ thr' = SetTop(t, [Top(t) EXCEPT !.pc = "run", !.arg = Nil])
          /\ UNCHANGED <<scene, calls, pool, single, mu, shut, lost, out, inst>>
      BY <1>f DEF SpoolWrite, At
    <2> QED BY <2>1, BackKeeps
  <1>g. CASE HTTPResponse(t)
    <2>1. /\ Depth(t) > 0 /\ Top(t).pc = "http"
          /\ thr' = SetTop(t, [Top(t) EXCEPT !.pc = "run", !.arg = Nil])
          /\ UNCHANGED <<scene, calls, pool, single, mu, shut, lost, out>>
      BY <1>g DEF HTTPResponse, At
    <2>2. \E tab : inst' = inst \/ inst' = [inst EXCEPT ![Top(t).i].tab = tab]
      <3> DEFINE f == Top(t)  e == Entry(f.i, "resp", Nil, 0, 0)
      <3>1. inst' = inst \/ inst' = [inst EXCEPT ![f.i].tab = @ \union {e}] BY <1>g DEF HTTPResponse
      <3>2. inst' = inst \/ inst' = [inst EXCEPT ![f.i].tab = inst[f.i].tab \union {e}] BY <3>1
      <3> HIDE DEF e
      <3> QED BY <3>2
    <2> QED BY <2>1, <2>2, BackKeeps
  <1>h. CASE Deliver(t) BY <1>h, DeliverKeeps
  <1>i. CASE Return(t)
    <2> DEFINE pc == IF Top(t).pc = "run" /\ Top(t).kind \in {"request", "stream"} THEN "resp" ELSE "rel"
    <2>1. /\ Depth(t) > 0 /\ Top(t).pc = "run"
          /\ thr' = SetTop(t, [Top(t) EXCEPT !.pc = pc])
          /\ UNCHANGED <<scene, calls, pool, single, mu, shut, lost, out, inst>>
      BY <1>i DEF Return, At
    <2>2. pc \in {"resp", "rel"} OBVIOUS
    <2> HIDE DEF pc
    <2> QED BY <2>1, <2>2, BackKeeps
  <1>j. CASE Trap(t) \/ ResponseDone(t)
    <2>1. /\ Depth(t) > 0 /\ Top(t).pc \in {"run", "resp"}
          /\ \/ thr' = SetTop(t, [Top(t) EXCEPT !.pc = "rel", !.broken = TRUE])
             \/ thr' = SetTop(t, [Top(t) EXCEPT !.pc = "rel"])
          /\ UNCHANGED <<scene, calls, pool, single, mu, shut, lost, out, inst>>
      BY <1>j DEF Trap, ResponseDone, At
    <2> QED BY <2>1, BackKeeps
  <1>k. CASE OutOfFuel(t) BY <1>k, OutOfFuelKeeps
  <1>l. CASE ResponseCall(t)
    <2>1. Ticking(t) /\ UNCHANGED <<scene, calls, pool, single, mu, shut, lost, out>>
      BY <1>l DEF ResponseCall, Ticking, At
    <2>2. \E tab, a, o : Op(t, tab, a, o) BY <1>l, OpForms DEF ResponseCall
    <2> QED BY <2>1, <2>2, OpKeeps
  <1>m. ASSUME NEW over \in OverLimit, ReleasePooled(t, over) \/ ReleaseSingleton(t, over)
        PROVE  HostInv'
    <2>1. over \in BOOLEAN BY DEF OverLimit
    <2> QED BY <1>m, <2>1, ReleasePooledKeeps, ReleasesKeep
  <1>n. CASE ReleasePerRequest(t) BY <1>n, ReleasesKeep
  <1>o. CASE Replenish(t) BY <1>o, ReplenishKeeps
  <1>p. CASE PutBack(t) BY <1>p, PutBackKeeps
  <1> QED
    BY <1>a, <1>b, <1>c, <1>d, <1>e, <1>f, <1>g, <1>h, <1>i, <1>j, <1>k, <1>l, <1>m, <1>n, <1>o, <1>p
    DEF Host
-----------------------------------------------------------------------------
(* The invariant holds from the start and in every step.                   *)

\* A pool starts with instances of its own.
LEMMA WarmIs ==
  ASSUME scene \in DOMAIN Scenes
  PROVE  /\ Warm \in [Plugins -> Seq(Insts)]
         /\ \A p \in Plugins : Model(p) # "pooled" => Warm[p] = <<>>
         /\ \A p \in Plugins : Model(p) = "pooled" => Warm[p] = Scene.warm[p]
         /\ \A p, q \in Plugins : \A n \in 1 .. Len(Warm[p]), m \in 1 .. Len(Warm[q]) :
              Warm[p][n] = Warm[q][m] => p = q /\ n = m
  <1> DEFINE c == Scenes[scene]  Pooled == {p \in Plugins : c.model[p] = "pooled"}
  <1>1. /\ \A p \in Pooled : c.warm[p] \in Seq(Insts)
        /\ \A p, q \in Pooled : \A n \in 1 .. Len(c.warm[p]), m \in 1 .. Len(c.warm[q]) :
             c.warm[p][n] = c.warm[q][m] => p = q /\ n = m
    BY HostAssumption
  <1> HIDE DEF c
  <1>2. Scene = c BY DEF Scene, c
  <1>3. \A p \in Plugins : Warm[p] = IF p \in Pooled THEN c.warm[p] ELSE <<>> BY <1>2 DEF Warm
  <1>4. \A p \in Plugins : p \in Pooled <=> Model(p) = "pooled" BY <1>2 DEF Model
  <1>5. <<>> \in Seq(Insts) /\ Len(<<>>) = 0 /\ 1 .. 0 = {} BY EmptySeq
  <1> HIDE DEF Pooled
  <1>6. \A p \in Plugins : Warm[p] \in Seq(Insts) BY <1>1, <1>3, <1>5
  <1>7. Warm \in [Plugins -> Seq(Insts)] BY <1>6 DEF Warm
  <1>8. \A p \in Plugins : p \notin Pooled => Len(Warm[p]) = 0 /\ 1 .. Len(Warm[p]) = {} BY <1>3, <1>5
  <1>9. ASSUME NEW p \in Plugins, NEW q \in Plugins,
               NEW n \in 1 .. Len(Warm[p]), NEW m \in 1 .. Len(Warm[q]), Warm[p][n] = Warm[q][m]
        PROVE  p = q /\ n = m
    <2>1. p \in Pooled /\ q \in Pooled BY <1>8
    <2>2. Warm[p] = c.warm[p] /\ Warm[q] = c.warm[q] BY <2>1, <1>3
    <2> QED BY <2>1, <2>2, <1>9, <1>1
  <1>10. \A p, q \in Plugins : \A n \in 1 .. Len(Warm[p]), m \in 1 .. Len(Warm[q]) :
           Warm[p][n] = Warm[q][m] => p = q /\ n = m
    BY <1>9
  <1> QED BY <1>2, <1>3, <1>4, <1>7, <1>10

LEMMA InitHolds == HostInit => HostInv
  <1> SUFFICES ASSUME HostInit PROVE HostInv OBVIOUS
  <1> DEFINE A == {{}}  In(i, p) == \E n \in 1 .. Len(Warm[p]) : Warm[p][n] = i
             W == [pl : Plugins, kind : {"entry", "request", "stream", "hook"}, user : Users \union {Nil}]
  <1>1. scene \in DOMAIN Scenes BY DEF HostInit
  <1>2. Warm \in [Plugins -> Seq(Insts)] /\ pool = Warm BY <1>1, WarmIs DEF HostInit
  <1>3. \A t \in Threads : thr[t] = <<>> /\ Depth(t) = 0 /\ 1 .. Depth(t) = {}
    <2>1. Len(<<>>) = 0 /\ 1 .. 0 = {} BY EmptySeq
    <2> QED BY <2>1 DEF HostInit, Depth
  <1>4. ASSUME NEW p \in Plugins, NEW i \in Insts, In(i, p)
        PROVE  inst[i] = Fresh(p)
    <2>1. \A q \in Plugins : In(i, q) => q = p BY <1>1, <1>4, WarmIs
    <2>2. (CHOOSE q \in Plugins : In(i, q)) = p BY <2>1, <1>4
    <2>3. inst[i] = IF \E q \in Plugins : In(i, q) THEN Fresh(CHOOSE q \in Plugins : In(i, q)) ELSE NoInstance
      BY DEF HostInit
    <2> QED BY <2>2, <2>3, <1>4
  <1>5. ASSUME NEW i \in Insts, \A p \in Plugins : ~In(i, p)
        PROVE  inst[i] = NoInstance
    BY <1>5 DEF HostInit
  <1> HIDE DEF In
  <1>a. HostTypes
    <2>1. thr \in [Threads -> Seq(FrameOf(A))]
      <3>1. <<>> \in Seq(FrameOf(A)) BY EmptySeq
      <3> QED BY <3>1 DEF HostInit
    <2>2. \A i \in Insts : inst[i] \in InstOf(A)
      <3>1. \A p \in Plugins : Fresh(p) \in InstOf(A) BY FreshIs
      <3>2. NoInstance \in InstOf(A) BY DEF NoInstance, InstOf
      <3> QED BY <3>1, <3>2, <1>4, <1>5
    <2>3. inst \in [Insts -> InstOf(A)]
      <3>1. inst = [i \in Insts |-> inst[i]] BY DEF HostInit
      <3> QED BY <3>1, <2>2
    <2>4. Stacks(A) BY <2>1, <2>3 DEF Stacks
    <2>5. calls \in [Threads -> Seq(W)] BY <1>1, SceneFacts DEF HostInit
    <2>6. out \in [Threads -> [r : Verdicts, n : Nat, pl : Plugins \union {Nil}]]
      <3>1. NoOut \in [r : Verdicts, n : Nat, pl : Plugins \union {Nil}] BY DEF NoOut, Verdicts
      <3> QED BY <3>1 DEF HostInit
    <2>7. \E C : Stacks(C) BY <2>4
    <2> QED BY <2>5, <2>6, <2>7, <1>1, <1>2 DEF HostTypes, HostInit
  <1>b. CallsSound BY <1>3 DEF CallsSound
  <1>c. Apart BY <1>3 DEF Apart
  <1>d. Idling
    <2> SUFFICES ASSUME NEW p \in Plugins
                 PROVE  /\ Model(p) # "pooled" => pool[p] = <<>>
                        /\ \A n \in 1 .. Len(pool[p]) :
                             ~Held(pool[p][n]) /\ inst[pool[p][n]].st = "live" /\ inst[pool[p][n]].pl = p
                        /\ \A n, m \in 1 .. Len(pool[p]) : n # m => pool[p][n] # pool[p][m]
                        /\ single[p] = Nil
      BY DEF Idling
    <2>1. \A i : ~Held(i) BY <1>3, HeldAt
    <2>2. \A n \in 1 .. Len(pool[p]) : inst[pool[p][n]].st = "live" /\ inst[pool[p][n]].pl = p
      <3> SUFFICES ASSUME NEW n \in 1 .. Len(pool[p]) PROVE inst[pool[p][n]] = Fresh(p)
        BY DEF Fresh
      <3>1. pool[p] \in Seq(Insts) BY <1>2
      <3>2. pool[p][n] \in Insts BY <3>1, ElementOfSeq
      <3>3. In(pool[p][n], p) BY <1>2 DEF In
      <3> QED BY <1>4, <3>2, <3>3
    <2>3. \A n, m \in 1 .. Len(pool[p]) : n # m => pool[p][n] # pool[p][m] BY <1>1, <1>2, WarmIs
    <2> QED BY <2>1, <2>2, <2>3, <1>1, <1>2, WarmIs DEF HostInit
  <1>e. Counted
    <2> SUFFICES ASSUME NEW p \in Plugins
                 PROVE  /\ IsFiniteSet(Busy(p))
                        /\ Model(p) = "pooled" =>
                             Len(pool[p]) + Cardinality(Busy(p)) + lost[p] = Len(Scene.warm[p])
      BY DEF Counted
    <2>1. Busy(p) = {} BY <1>3 DEF Busy
    <2>2. IsFiniteSet(Busy(p)) /\ Cardinality(Busy(p)) = 0 BY <2>1, FS_EmptySet
    <2>3. Model(p) = "pooled" => pool[p] = Scene.warm[p] BY <1>1, <1>2, WarmIs
    <2>4. lost[p] = 0 BY DEF HostInit
    <2>5. Len(pool[p]) \in Nat
      <3>1. pool[p] \in Seq(Insts) BY <1>2
      <3> QED BY <3>1, LenProperties
    <2> QED BY <2>2, <2>3, <2>4, <2>5
  <1>f. FuelIsOwn BY DEF HostInit, FuelIsOwn, NoOut
  <1>g. InOrder
    <2>1. \A p \in Plugins : mu[p] = Nil BY DEF HostInit
    <2> QED BY <2>1, <1>3 DEF InOrder, Nested, Asked, MutexOwned
  <1> QED BY <1>a, <1>b, <1>c, <1>d, <1>e, <1>f, <1>g DEF HostInv

LEMMA StepHolds == HostInv /\ [HostNext]_hostVars => HostInv'
  <1> SUFFICES ASSUME HostInv, [HostNext]_hostVars PROVE HostInv' OBVIOUS
  <1>1. ASSUME NEW t \in Threads, Guest(t) PROVE HostInv' BY <1>1, GuestKeeps
  <1>2. ASSUME NEW t \in Threads, Host(t) PROVE HostInv' BY <1>2, HostKeeps
  <1>3. ASSUME NEW p \in Plugins, ClosePlugin(p) PROVE HostInv' BY <1>3, CloseKeeps
  <1>4. ASSUME NEW p \in Plugins, Refill(p) PROVE HostInv' BY <1>4, ElsewhereKeeps DEF Refill, manager
  <1>5. CASE UNCHANGED hostVars BY <1>5, ElsewhereKeeps DEF hostVars
  <1> QED BY <1>1, <1>2, <1>3, <1>4, <1>5 DEF HostNext
-----------------------------------------------------------------------------
(* What it says of instances.                                              *)

\* As many calls are at work for a plugin as instances are.
LEMMA WorkersCounted ==
  ASSUME HostInv, NEW p \in Plugins
  PROVE  Cardinality({f \in Frames : f.pl = p /\ f.pc # "acq"}) = Cardinality(Busy(p))
  <1> DEFINE S == {f \in Frames : f.pl = p /\ f.pc # "acq"}  F == [f \in S |-> f.i]
  <1>1. ASSUME NEW f \in S
        PROVE  \E t \in Threads : \E d \in 1 .. Depth(t) : f = thr[t][d] /\ Works(t, d) /\ f.i \in Insts /\ f.pl = p
    <2>0. PICK t \in Threads : \E d \in 1 .. Depth(t) : f = thr[t][d] BY DEF Frames, Depth
    <2>1. PICK d \in 1 .. Depth(t) : f = thr[t][d] BY <2>0
    <2>2. CallSound(t, d) BY DEF HostInv, CallsSound
    <2> QED BY <2>1, <2>2 DEF CallSound, Works
  <1>2. \A f \in S : f.i \in Busy(p) BY <1>1 DEF Busy
  <1>3. \A f, g \in S : f.i = g.i => f = g BY <1>1 DEF HostInv, Apart
  <1>4. \A i \in Busy(p) : \E f \in S : f.i = i
    <2> SUFFICES ASSUME NEW i \in Busy(p) PROVE \E f \in S : f.i = i OBVIOUS
    <2>0. PICK t \in Threads :
            \E d \in 1 .. Depth(t) : Works(t, d) /\ thr[t][d].i = i /\ thr[t][d].pl = p
      BY DEF Busy
    <2>1. PICK d \in 1 .. Depth(t) : Works(t, d) /\ thr[t][d].i = i /\ thr[t][d].pl = p BY <2>0
    <2>2. thr[t][d] \in Frames BY DEF Frames, Depth
    <2> QED BY <2>1, <2>2 DEF Works
  <1> HIDE DEF S
  <1>5. F \in [S -> Busy(p)] /\ (\A f \in S : F[f] = f.i) BY <1>2
  <1>6. F \in Bijection(S, Busy(p))
    <2>1. \A f, g \in S : F[f] = F[g] => f = g BY <1>3, <1>5
    <2>2. \A i \in Busy(p) : \E f \in S : F[f] = i BY <1>4, <1>5
    <2> HIDE DEF F
    <2> QED BY <1>5, <2>1, <2>2, Fun_IsBij
  <1>7. ExistsBijection(Busy(p), S)
    <2>1. ExistsBijection(S, Busy(p)) BY <1>6, Fun_ExistsBij
    <2> QED BY <2>1, Fun_ExistsBijSymmetric
  <1>8. IsFiniteSet(Busy(p)) BY DEF HostInv, Counted
  <1>9. Cardinality(S) = Cardinality(Busy(p)) BY <1>7, <1>8, FS_Bijection
  <1> QED BY <1>9 DEF S

LEMMA InvExclusive == HostInv => InstancesExclusive
  <1> SUFFICES ASSUME HostInv PROVE InstancesExclusive OBVIOUS
  <1>1. Exclusive
    <2>1. ASSUME NEW t \in Threads, NEW v \in Threads, NEW d \in 1 .. Depth(t), NEW c \in 1 .. Depth(v),
                 t # v \/ d # c, thr[t][d].pc # "acq", thr[v][c].pc # "acq"
          PROVE  thr[t][d].i # thr[v][c].i
      BY <2>1 DEF HostInv, Apart, Works
    <2>2. ASSUME NEW p \in Plugins, single[p] # Nil, Held(single[p])
          PROVE  mu[p] # Nil
      <3>1. single[p] \in Insts BY <2>2 DEF HostInv, HostTypes
      <3>0. PICK t \in Threads : \E d \in 1 .. Depth(t) : thr[t][d].i = single[p] BY <2>2, HeldAt
      <3>2. PICK d \in 1 .. Depth(t) : thr[t][d].i = single[p] BY <3>0
      <3>3. CallSound(t, d) /\ thr[t][d].pc # "acq"
        BY <3>1, <3>2, NilIsNothing DEF HostInv, CallsSound, CallSound
      <3>4. inst[single[p]].pl = p /\ Model(p) = "singleton" BY <2>2 DEF HostInv, Idling
      <3>5. mu[p] = t BY <3>2, <3>3, <3>4 DEF CallSound
      <3> QED BY <3>5, NilIsNothing
    <2>3. ASSUME NEW p \in Plugins
          PROVE  /\ \A n \in 1 .. Len(pool[p]) : ~Held(pool[p][n]) /\ inst[pool[p][n]].st = "live"
                 /\ \A n, m \in 1 .. Len(pool[p]) : n # m => pool[p][n] # pool[p][m]
                 /\ single[p] # Nil => inst[single[p]].pl = p
      BY DEF HostInv, Idling
    <2> QED BY <2>1, <2>2, <2>3 DEF Exclusive
  <1>2. PoolConserved
    <2> SUFFICES ASSUME NEW p \in Plugins, Scene.model[p] = "pooled", shut[p] = "no"
                 PROVE  Len(pool[p]) + Cardinality({f \in Frames : f.pl = p /\ f.pc # "acq"}) + lost[p]
                          = Len(Scene.warm[p])
      BY DEF PoolConserved
    <2>1. Len(pool[p]) + Cardinality(Busy(p)) + lost[p] = Len(Scene.warm[p]) BY DEF HostInv, Counted, Model
    <2> QED BY <2>1, WorkersCounted
  <1> QED BY <1>1, <1>2 DEF InstancesExclusive, HostInv

\* The parts of the invariant hold in every state (instance.go, fuel.go).
THEOREM HostSound == HostSpec => []HostInv
  <1>1. HostInit => HostInv BY InitHolds
  <1>2. HostInv /\ [HostNext]_hostVars => HostInv' BY StepHolds
  <1> QED BY <1>1, <1>2, PTL DEF HostSpec

\* An instance serves one call at a time, however calls nest through events,
\* trap, run out of fuel or meet a Close; a pool loses no place it is not
\* known to have lost; and no call pays for the fuel of another
\* (src/internal/plugins/instance.go, acquire and releasePooled; fuel.go).
THEOREM InstancesAreExclusive == HostSpec => []InstancesExclusive
  <1>1. HostInv => InstancesExclusive BY InvExclusive
  <1> QED BY <1>1, HostSound, PTL
-----------------------------------------------------------------------------
(* Nobody waits in circles.                                                *)

\* Who waits for the mutex of a singleton waits for a thread whose innermost
\* call is for a plugin further down.
LEMMA InvNoCircle == HostInv => NoCircularWait
  <1> SUFFICES ASSUME HostInv, SingletonsOffCircles, NEW S \in SUBSET Threads, S # {},
                      \A t \in S : WaitsFor(t) \in S
               PROVE  FALSE
    BY DEF NoCircularWait
  <1>1. PICK level : Leads(level)
    <2>1. PICK level \in [Plugins -> 0 .. Cardinality(Plugins)] :
            \A p \in Plugins : \A q \in Scene.subs[p] \ {p} :
              /\ level[q] <= level[p]
              /\ "singleton" \in {Scene.model[p], Scene.model[q]} => level[q] < level[p]
      BY DEF SingletonsOffCircles
    <2>2. Cardinality(Plugins) \in Nat BY HostAssumption, FS_CardinalityType
    <2>3. level \in [Plugins -> Nat] BY <2>2
    <2> QED BY <2>1, <2>3 DEF Leads, Subscribers, Model
  <1>2. PICK A : Stacks(A) BY DEF HostInv, HostTypes
  <1>3. ASSUME NEW t \in S
        PROVE  /\ Depth(t) \in 1 .. Depth(t) /\ Top(t) = thr[t][Depth(t)] /\ Top(t).pc = "acq"
               /\ Top(t).pl \in Plugins /\ Model(Top(t).pl) = "singleton" /\ mu[Top(t).pl] \in S
    <2>1. WaitsFor(t) \in S /\ WaitsFor(t) # Nil BY <1>3, NilIsNothing
    <2>2. At(t, "acq") /\ Model(Top(t).pl) = "singleton" /\ mu[Top(t).pl] \in S
      BY <2>1 DEF WaitsFor, Model
    <2>3. Depth(t) > 0 /\ Top(t).pc = "acq" BY <2>2 DEF At
    <2>4. Depth(t) \in 1 .. Depth(t) /\ Top(t) = thr[t][Depth(t)] /\ Top(t) \in FrameOf(A)
      BY <2>3, <1>2, TopFrame
    <2> QED BY <2>2, <2>3, <2>4 DEF FrameOf
  <1>4. ASSUME NEW t \in S
        PROVE  \E v \in S : level[Top(v).pl] < level[Top(t).pl]
    <2> DEFINE p == Top(t).pl  v == mu[p]
    <2>1. v \in S /\ p \in Plugins /\ Model(p) = "singleton" /\ v # Nil BY <1>3, NilIsNothing
    <2>2. PICK d \in 1 .. Depth(v) : Works(v, d) /\ thr[v][d].pl = p
      BY <2>1 DEF HostInv, InOrder, MutexOwned
    <2>3. /\ Depth(v) \in 1 .. Depth(v) /\ Top(v) = thr[v][Depth(v)] /\ Top(v).pc = "acq"
          /\ Depth(v) \in Nat
      BY <1>2, <1>3, <2>1, TopFrame
    <2>4. d < Depth(v) BY <2>2, <2>3 DEF Works
    <2>5. level[thr[v][Depth(v)].pl] < level[thr[v][d].pl]
      BY <1>1, <2>1, <2>2, <2>3, <2>4 DEF HostInv, InOrder, Nested
    <2> QED BY <2>1, <2>2, <2>3, <2>5
  <1> DEFINE L == {level[Top(t).pl] : t \in S}
             R == {ss \in Nat \X Nat : ss[1] < ss[2]}
  <1>5. L \subseteq Nat /\ L # {} BY <1>1, <1>3 DEF Leads
  <1>6. \A n \in L : \E m \in L : m < n BY <1>4
  <1>7. IsWellFoundedOn(R, Nat) BY NatLessThanWellFounded DEF OpToRel
  <1>8. \A x, y \in Nat : y < x => <<y, x>> \in R OBVIOUS
  <1> HIDE DEF R, L
  <1>9. PICK n \in L : \A m \in L : ~(<<m, n>> \in R) BY <1>5, <1>7, WFMin
  <1> QED BY <1>5, <1>6, <1>8, <1>9

\* No threads wait for one another's singleton plugins for ever, however
\* guests publish events that call further guests: unless a singleton plugin
\* lies on a circle of subscriptions, the call that holds its mutex can come
\* to an end (src/internal/plugins/instance.go, acquire; events.go).
THEOREM NobodyWaitsInCircles == HostSpec => []NoCircularWait
  <1>1. HostInv => NoCircularWait BY InvNoCircle
  <1> QED BY <1>1, HostSound, PTL
=============================================================================
