---------------------------- MODULE PluginAdmin ----------------------------
(* Installing, upgrading, disabling and removing one plugin with ncgo-cli,  *)
(* while a server reconciles its running set with the registry.             *)
(*                                                                          *)
(* Database and disk: the registry row, the archives (one per version), the *)
(* registered routes and WebDAV properties (as the set of versions that     *)
(* registered them), and what the plugin stored: jobs, configuration, keys  *)
(* in Redis, its system files. Server process: the tracked plugin, its      *)
(* mounted routes, the job adapter, the attached plugin objects, the memory *)
(* cache. Each statement of a command and each stage of a reconcile pass is *)
(* one step, so the two processes interleave and a command may die between  *)
(* any two of its statements.                                               *)
EXTENDS Naturals, FiniteSets, Sequences

CONSTANTS
  Versions,      \* version numbers an archive may carry
  Caps,          \* capability sets a manifest may request
  Objs,          \* plugin objects of the server process, numbered
  MaxCmds,       \* bound on CLI commands
  MaxFails,      \* bound on statements, hooks and reads that fail
  MaxWrites,     \* bound on what the running plugin stores
  MaxBoots,      \* bound on server restarts
  MaxTurns,      \* bound on failures, writes and restarts together
  None

ASSUME AdminAssumption ==
  /\ Versions \subseteq Nat \ {0} /\ IsFiniteSet(Versions)
  /\ {MaxCmds, MaxFails, MaxWrites, MaxBoots, MaxTurns} \subseteq Nat
  /\ Objs \subseteq Nat /\ \E o, q \in Objs : o # q
  \* None stands for a row, an archive, a plugin or an object that is not there.
  /\ None \notin [ver : Versions, on : BOOLEAN, caps : Caps] \cup [caps : Caps, life : Nat]
  /\ None \notin [obj : Objs, ver : Versions, life : Nat, caps : Caps] \cup Objs

VARIABLES
  row,        \* the plugins row: version, enabled flag, granted capabilities
  archives,   \* <version>.ncplugin in the install directory
  routes,     \* versions with rows in plugin_routes and plugin_webdav_props
  data,       \* what the plugin keeps, by store: the life that wrote it, or 0
  life,       \* how many times the plugin was installed afresh
  approved,   \* capability sets the administrator let through in this life
  cli,        \* the running command
  tracked,    \* the reconciler's record of the running plugin
  router,     \* mounted routes: the version that registered it, the object
  attached,   \* plugin objects attached for delivery, with their life
  adapter,    \* the object behind the registered plugin.<id> job
  sync,       \* the reconcile pass under way
  memory,     \* plugin keys in the server's memory cache: their life, or 0
  flying,     \* lives of closed plugins with a call still in flight
  hist,       \* what happened that weakens a promise
  spent       \* how much of each bound is used

disk == <<row, archives, routes, data, life, approved>>
process == <<tracked, router, attached, adapter, sync, memory, flying>>
vars == <<disk, cli, process, hist, spent>>

Stores == {"jobs", "config", "redis", "sys"}
Idle == [op |-> "none", pc |-> "none", ver |-> 0, from |-> 0, caps |-> None]
NoPass == [stage |-> "none", seen |-> None, p |-> None]

Sigs == {"ok", "none", "bad"}

Count(k) == spent' = [spent EXCEPT ![k] = @ + 1]
Spare == spent.fails + spent.writes + spent.boots < MaxTurns
CanFail == spent.fails < MaxFails /\ Spare

(***************************************************************************)
(* ncgo-cli plugin install                                                 *)
(***************************************************************************)

(* VerifyMembers and ErrUnsigned: a signature must verify against a trusted *)
(* key; without one the administrator must force the installation.          *)
VerifyMembers(sig, force) == sig = "ok" \/ (sig = "none" /\ force)

NoCapsChanged(c) == FALSE

(* capsChanged compares the request with the snapshot in the row.           *)
CapsChanged(c) == row # None /\ row.caps # c

(* Reading, verifying and loading the archive and reading the row. Nothing  *)
(* is written when a gate refuses, so only the accepted command is a step.  *)
InstallGate(v, c, sig, force, approve) ==
  /\ cli = Idle /\ spent.cmds < MaxCmds
  /\ VerifyMembers(sig, force)
  /\ CapsChanged(c) => approve
  /\ cli' = [op |-> "install", ver |-> v, caps |-> c,
             pc |-> IF row = None THEN "store" ELSE "routes",
             from |-> IF row = None THEN 0 ELSE row.ver]
  /\ life' = IF row = None THEN life + 1 ELSE life
  /\ approved' = IF row = None THEN {c} ELSE approved \cup {x \in {c} : approve}
  /\ Count("cmds")
  /\ UNCHANGED <<row, archives, routes, data, process, hist>>

CmdStep(from, to) == cli.pc = from /\ cli' = [cli EXCEPT !.pc = to]

(* A statement of the command fails and the command returns the error; the  *)
(* same state is left by a command that is killed there.                    *)
CmdFails ==
  /\ cli.op # "none" /\ CanFail
  /\ cli.pc \notin {"store", "hook", "upsert"}
  /\ cli' = Idle /\ Count("fails")
  /\ hist' = [hist EXCEPT ![IF cli.op = "install" THEN "half" ELSE "cut"] = TRUE]
  /\ UNCHANGED <<disk, process>>

(* DeleteRoutesForPlugin and DeletePropsForPlugin, in an upgrade before the *)
(* hook and in an uninstallation. Both tables are registered and deleted    *)
(* together, so one set stands for both.                                    *)
DeleteRegistered ==
  /\ CmdStep("routes", IF cli.op = "install" THEN "hook" ELSE "jobs") /\ routes' = {}
  /\ UNCHANGED <<row, archives, data, life, approved, process, hist, spent>>

(* os.WriteFile of the archive; a write that fails has truncated the file.  *)
StoreArchive ==
  /\ cli.pc = "store"
  /\ \/ /\ archives' = [archives EXCEPT ![cli.ver] = [caps |-> cli.caps, life |-> life]]
        /\ cli' = [cli EXCEPT !.pc = IF cli.from = 0 THEN "hook" ELSE "upsert"]
        /\ UNCHANGED <<hist, spent>>
     \/ /\ CanFail /\ Count("fails")
        /\ archives' = [archives EXCEPT ![cli.ver] = None]
        /\ cli' = Idle
        /\ hist' = [hist EXCEPT !.half = TRUE,
                                !.wiped = @ \/ cli.from = cli.ver]
  /\ UNCHANGED <<row, routes, data, life, approved, process>>

(* A hook has no server around it: it stores files, jobs and configuration. *)
HookStores == [data EXCEPT !["jobs"] = life, !["config"] = life, !["sys"] = life]

(* Plugin.Install or Plugin.Upgrade: the hook registers routes and          *)
(* properties and may store something; it may fail after it registered      *)
(* them. A first installation whose hook fails removes its archive.         *)
RunHook ==
  /\ cli.pc = "hook"
  /\ \E ok, did \in BOOLEAN :
       /\ ok \/ CanFail
       /\ ok => did
       /\ routes' = IF did THEN routes \cup {cli.ver} ELSE routes
       /\ data' = IF did THEN HookStores ELSE data
       /\ cli' = IF ~ok THEN Idle
                 ELSE [cli EXCEPT !.pc = IF cli.from = 0 THEN "upsert" ELSE "store"]
       /\ archives' = IF ok \/ cli.from # 0 THEN archives
                      ELSE [archives EXCEPT ![cli.ver] = None]
       /\ hist' = [hist EXCEPT !.half = @ \/ ~ok]
       /\ IF ok THEN UNCHANGED spent ELSE Count("fails")
  /\ UNCHANGED <<row, life, approved, process>>

(* The server has not seen that the plugin was removed when the row of the  *)
(* next life appears.                                                       *)
Unseen == cli.from = 0 /\ ((tracked # None /\ tracked.life < life) \/ sync.stage \in {"stop", "purge"})

(* The server runs or starts the version the row is about to name, so it    *)
(* cannot tell that the archive and the routes changed under it.            *)
SameVersion == \E p \in {tracked, sync.seen, sync.p} \ {None} : p.ver = cli.ver

(* Registry.Upsert, which also enables the plugin; a failing statement      *)
(* removes the archive just stored.                                         *)
Upsert ==
  /\ cli.pc = "upsert"
  /\ \/ /\ row' = [ver |-> cli.ver, on |-> TRUE, caps |-> cli.caps]
        /\ cli' = IF cli.from \in {0, cli.ver} THEN Idle ELSE [cli EXCEPT !.pc = "gc"]
        /\ hist' = [hist EXCEPT !.unseen = @ \/ Unseen, !.same = @ \/ SameVersion]
        /\ UNCHANGED <<archives, spent>>
     \/ /\ CanFail /\ Count("fails")
        /\ archives' = [archives EXCEPT ![cli.ver] = None]
        /\ cli' = Idle
        /\ hist' = [hist EXCEPT !.half = TRUE,
                                !.wiped = @ \/ cli.from = cli.ver]
        /\ UNCHANGED row
  /\ UNCHANGED <<routes, data, life, approved, process>>

GCKeepsPrevious ==
  /\ cli.pc = "gc" /\ cli' = Idle
  /\ archives' = [v \in Versions |-> IF v = cli.from THEN archives[v] ELSE None]
  /\ UNCHANGED <<row, routes, data, life, approved, process, hist, spent>>

(* gcOldArchives keeps the current and the previous version.                *)
GcOldArchives ==
  /\ cli.pc = "gc" /\ cli' = Idle
  /\ archives' = [v \in Versions |-> IF v \in {cli.ver, cli.from} THEN archives[v] ELSE None]
  /\ UNCHANGED <<row, routes, data, life, approved, process, hist, spent>>

(***************************************************************************)
(* ncgo-cli plugin uninstall, enable and disable                           *)
(***************************************************************************)

(* The row is read and on_uninstall runs best-effort.                       *)
UninstallHook ==
  /\ cli = Idle /\ row # None /\ spent.cmds < MaxCmds
  /\ cli' = [Idle EXCEPT !.op = "uninstall", !.pc = "routes"]
  /\ data' \in {data} \cup {HookStores : v \in {row.ver} \cap {v \in Versions : archives[v] # None}}
  /\ Count("cmds")
  /\ UNCHANGED <<row, archives, routes, life, approved, process, hist>>

After == [jobs |-> "config", config |-> "redis", redis |-> "sys", sys |-> "row"]

KeepConfig ==
  /\ cli.pc \in Stores /\ cli' = [cli EXCEPT !.pc = After[cli.pc]]
  /\ data' = IF cli.pc = "config" THEN data ELSE [data EXCEPT ![cli.pc] = 0]
  /\ UNCHANGED <<row, archives, routes, life, approved, process, hist, spent>>

(* DeleteByName of the job rows, DeleteByPrefix of the configuration and of *)
(* the Redis keys, deleteTree of the system files, in this order.           *)
DeleteData ==
  /\ cli.pc \in Stores /\ cli' = [cli EXCEPT !.pc = After[cli.pc]]
  /\ data' = [data EXCEPT ![cli.pc] = 0]
  /\ UNCHANGED <<row, archives, routes, life, approved, process, hist, spent>>

(* The row goes. A server that does not run the plugin, because it was      *)
(* disabled before, has nothing to stop and so never purges its memory.     *)
DeleteRow ==
  /\ CmdStep("row", "dir") /\ row' = None /\ approved' = {}
  /\ hist' = [hist EXCEPT !.unseen = @ \/ (tracked = None /\ sync.stage # "purge" /\ memory # 0)]
  /\ UNCHANGED <<archives, routes, data, life, process, spent>>

RemoveDir ==
  /\ cli.pc = "dir" /\ cli' = Idle
  /\ archives' = [v \in Versions |-> None]
  /\ UNCHANGED <<row, routes, data, life, approved, process, hist, spent>>

SetEnabled ==
  /\ cli = Idle /\ row # None /\ spent.cmds < MaxCmds
  /\ row' = [row EXCEPT !.on = ~@]
  /\ Count("cmds")
  /\ UNCHANGED <<archives, routes, data, life, approved, cli, process, hist>>

(***************************************************************************)
(* The reconciler of the server                                            *)
(***************************************************************************)
NoObjs == [o \in Objs |-> 0]

(* Reconciler.Close, the process ends and another one starts. Until its     *)
(* first pass it runs nothing.                                              *)
Restart ==
  /\ spent.boots < MaxBoots /\ Spare
  /\ tracked' = None /\ router' = {} /\ attached' = NoObjs
  /\ adapter' = None /\ sync' = NoPass /\ memory' = 0 /\ flying' = {}
  /\ Count("boots")
  /\ UNCHANGED <<disk, cli, hist>>

(* ListEnabled. A read that fails ends the pass before it began.            *)
SyncRead ==
  /\ sync = NoPass
  /\ sync' = [stage |-> "stop", p |-> None,
              seen |-> IF row # None /\ row.on THEN row ELSE None]
  /\ UNCHANGED <<disk, cli, tracked, router, attached, adapter, memory, flying, hist, spent>>

UnmountKeepsAdapter ==
  /\ router' = {r \in router : r[2] # tracked.obj}
  /\ adapter' = adapter

UnmountKeepsRoutes == router' = router /\ adapter' = None

(* unmount takes the routes off the router and the adapter off the runner.  *)
Unmount ==
  /\ router' = {r \in router : r[2] # tracked.obj}
  /\ adapter' = None

StaleWhenGone == tracked # None /\ sync.seen = None

(* A plugin that is not enabled any more, or is enabled with another        *)
(* version, is unmounted and closed. Close detaches it and does not wait    *)
(* for calls under way.                                                     *)
Stale == tracked # None /\ (sync.seen # None => sync.seen.ver # tracked.ver)

StartSeen == IF Stale THEN "purge" ELSE IF sync.seen # None THEN "start" ELSE "none"

(* What follows: the purge after a stop, the start of an enabled plugin the *)
(* server does not run, or the end of the pass.                             *)
StopStage == IF Stale THEN "purge" ELSE IF tracked = None /\ sync.seen # None THEN "start" ELSE "none"

StopOne ==
  /\ sync.stage = "stop" /\ Stale
  /\ Unmount
  /\ attached' = [attached EXCEPT ![tracked.obj] = 0]
  /\ flying' \in {flying, flying \cup {tracked.life}}
  /\ tracked' = None
  /\ sync' = [sync EXCEPT !.stage = "purge"]
  /\ UNCHANGED <<disk, cli, memory, hist, spent>>

KeepRunning ==
  /\ sync.stage = "stop" /\ ~Stale
  /\ sync' = IF StopStage = "none" THEN NoPass ELSE [sync EXCEPT !.stage = StopStage]
  /\ UNCHANGED <<disk, cli, tracked, router, attached, adapter, memory, flying, hist, spent>>

AfterPurge == IF sync.seen = None THEN NoPass ELSE [sync EXCEPT !.stage = "start"]

PurgeNever ==
  /\ sync.stage = "purge" /\ sync' = AfterPurge
  /\ UNCHANGED <<disk, cli, tracked, router, attached, adapter, memory, flying, hist, spent>>

(* purgeCacheIfUninstalled asks the registry again: only a plugin whose row *)
(* is gone loses its cache keys. A failing read or purge is skipped.        *)
PurgeCacheIfUninstalled ==
  /\ sync.stage = "purge" /\ sync' = AfterPurge
  /\ \/ /\ memory' = IF row = None THEN 0 ELSE memory
        /\ data' = IF row = None THEN [data EXCEPT !["redis"] = 0] ELSE data
        /\ UNCHANGED <<hist, spent>>
     \/ /\ CanFail /\ Count("fails")
        /\ hist' = [hist EXCEPT !.unseen = TRUE]
        /\ UNCHANGED <<memory, data>>
  /\ UNCHANGED <<row, archives, routes, life, approved, cli,
                 tracked, router, attached, adapter, flying>>

(* Register of an adapter for a name that has one is refused and tolerated. *)
RegisterPluginJob(o) == adapter' = IF adapter = None THEN o ELSE adapter

(* A plugin object no one refers to.                                        *)
NewObject == CHOOSE o \in Objs : attached[o] = 0 /\ adapter # o

(* startOne of manager.go: read the archive, load, start, attach, register  *)
(* the job adapter. Any failure is logged and left to the next pass.        *)
StartOne ==
  /\ sync.stage = "start"
  /\ \/ LET o == NewObject
            a == archives[sync.seen.ver] IN
          /\ a # None
          /\ attached' = [attached EXCEPT ![o] = a.life]
          /\ RegisterPluginJob(o)
          /\ sync' = [sync EXCEPT !.stage = "routes",
                        !.p = [obj |-> o, ver |-> sync.seen.ver, life |-> a.life, caps |-> a.caps]]
          /\ UNCHANGED spent
     \/ /\ archives[sync.seen.ver] = None
        /\ sync' = NoPass
        /\ UNCHANGED <<attached, adapter, spent>>
     \/ /\ CanFail /\ Count("fails")
        /\ sync' = NoPass
        /\ UNCHANGED <<attached, adapter>>
  /\ UNCHANGED <<disk, cli, tracked, router, memory, flying, hist>>

(* RoutesForPlugin, mountRoutes and the record of the running plugin. When  *)
(* the routes cannot be listed the plugin is closed again; its job adapter  *)
(* stays registered.                                                        *)
MountRoutes ==
  /\ sync.stage = "routes" /\ sync' = NoPass
  /\ \/ /\ router' = router \cup {<<v, sync.p.obj>> : v \in routes}
        /\ tracked' = sync.p
        /\ UNCHANGED <<attached, hist, spent>>
     \/ /\ CanFail /\ Count("fails")
        /\ attached' = [attached EXCEPT ![sync.p.obj] = 0]
        /\ hist' = [hist EXCEPT !.unlisted = TRUE]
        /\ UNCHANGED <<router, tracked>>
  /\ UNCHANGED <<disk, cli, adapter, memory, flying>>

(***************************************************************************)
(* The running plugin                                                      *)
(***************************************************************************)

(* Something stored by a plugin of life l after the removal of that life    *)
(* has passed the store.                                                    *)
Passed(s) == cli.op = "uninstall" /\ cli.pc \in
  CASE s = "jobs" -> {"config", "redis", "sys", "row", "dir"}
    [] s = "config" -> {"redis", "sys", "row", "dir"}
    [] s = "redis" -> {"sys", "row", "dir"}
    [] s = "sys" -> {"row", "dir"}
Late(l, s) == row = None \/ life # l \/ Passed(s)

(* job_enqueue, config_set, cache_set and the storage functions, called by  *)
(* an attached plugin or by a call that was in flight when it was closed.   *)
(* The cache is two levels: memory and Redis.                               *)
PluginWrites(l, s) ==
  /\ spent.writes < MaxWrites /\ Spare
  /\ l \in flying \cup {attached[o] : o \in Objs} /\ l # 0
  /\ data' = [data EXCEPT ![s] = l]
  /\ memory' = IF s = "redis" THEN l ELSE memory
  /\ hist' = [hist EXCEPT !.late = @ \/ Late(l, s)]
  /\ Count("writes")
  /\ UNCHANGED <<row, archives, routes, life, approved, cli,
                 tracked, router, attached, adapter, sync, flying>>

CallEnds(l) ==
  /\ l \in flying /\ flying' = flying \ {l}
  /\ UNCHANGED <<disk, cli, tracked, router, attached, adapter, sync, memory, hist, spent>>

-----------------------------------------------------------------------------
Init ==
  /\ row = None /\ archives = [v \in Versions |-> None]
  /\ routes = {} /\ data = [s \in Stores |-> 0]
  /\ life = 0 /\ approved = {} /\ cli = Idle
  /\ tracked = None /\ router = {} /\ attached = NoObjs
  /\ adapter = None /\ sync = NoPass /\ memory = 0 /\ flying = {}
  /\ hist = [half |-> FALSE, cut |-> FALSE, same |-> FALSE, wiped |-> FALSE,
             unseen |-> FALSE, late |-> FALSE, unlisted |-> FALSE]
  /\ spent = [cmds |-> 0, fails |-> 0, writes |-> 0, boots |-> 0]

Command ==
  \/ \E v \in Versions, c \in Caps, sig \in Sigs, force, approve \in BOOLEAN :
       InstallGate(v, c, sig, force, approve)
  \/ UninstallHook \/ SetEnabled

CommandStep ==
  \/ DeleteRegistered \/ StoreArchive \/ RunHook
  \/ Upsert \/ GcOldArchives \/ DeleteData \/ DeleteRow \/ RemoveDir

SyncStep == SyncRead \/ StopOne \/ KeepRunning \/ PurgeCacheIfUninstalled \/ StartOne \/ MountRoutes

Next ==
  \/ Command \/ CommandStep \/ CmdFails
  \/ SyncStep \/ Restart
  \/ \E l \in 1..MaxCmds : (\E s \in Stores : PluginWrites(l, s)) \/ CallEnds(l)

Spec == Init /\ [][Next]_vars

(* A command runs to its end or fails; the server keeps polling.            *)
FairSpec == Spec /\ WF_vars(CommandStep) /\ WF_vars(SyncStep)

-----------------------------------------------------------------------------
Started == [obj : Objs, ver : Versions, life : Nat, caps : Caps]

TypeOK ==
  /\ row \in [ver : Versions, on : BOOLEAN, caps : Caps] \cup {None}
  /\ archives \in [Versions -> [caps : Caps, life : 1..life] \cup {None}]
  /\ routes \subseteq Versions
  /\ data \in [Stores -> 0..life] /\ life \in 0..MaxCmds /\ approved \subseteq Caps
  /\ cli.op \in {"none", "install", "uninstall"} /\ cli.caps \in Caps \cup {None}
  /\ tracked \in Started \cup {None} /\ sync.p \in Started \cup {None}
  /\ sync.stage \in {"none", "stop"} \/ (sync.stage \in {"purge", "start", "routes"} /\ tracked = None)
  /\ (sync.stage = "routes") = (sync.p # None)
  /\ router \subseteq Versions \X Objs
  /\ attached \in [Objs -> 0..life] /\ adapter \in Objs \cup {None}
  /\ memory \in 0..life /\ flying \subseteq 1..life

(* Whatever command died, the version in the registry can be started: its   *)
(* archive is on disk. (A reinstallation of the same version that fails     *)
(* removes the archive it was to replace.)                                  *)
ArchiveStartable == row # None /\ ~hist.wiped => archives[row.ver] # None

(* A running plugin holds capabilities the administrator approved in this   *)
(* life of the plugin, and none an earlier life or a refused archive asked  *)
(* for.                                                                     *)
Vetted ==
  \A p \in {tracked, sync.p} \ {None} : p.life = life /\ row # None => p.caps \in approved

(* A plugin installed again starts clean: nothing its earlier life stored   *)
(* is left, unless the earlier life stored it after the removal had passed, *)
(* the server never saw the plugin gone, or an installation ended half way. *)
CleanStart ==
  /\ tracked # None /\ tracked.life = life
  /\ ~hist.late /\ ~hist.unseen /\ ~hist.half
  => memory \in {0, life} /\ \A s \in Stores : data[s] \in {0, life}

(* The runner hands the running plugin's jobs to the running plugin and to  *)
(* no closed one, whatever upgrades and restarts went before, as long as no *)
(* listing of routes failed after a start.                                  *)
JobsReachPlugin == tracked # None /\ ~hist.unlisted => adapter = tracked.obj

(* Requests for plugin routes reach the running plugin only.                *)
RoutedToRunning == \A r \in router : tracked # None /\ r[2] = tracked.obj

(* What an installation leaves is sound: the variables have their types,    *)
(* the archive is there, it was approved, and a new life starts clean.      *)
InstallSound == TypeOK /\ ArchiveStartable /\ Vetted /\ CleanStart

(* Jobs and requests for the plugin reach the instance that runs.           *)
ReachesRunning == JobsReachPlugin /\ RoutedToRunning

(* What the server should run by now: the enabled version, with exactly the *)
(* routes that version registered; or nothing.                              *)
Matches ==
  cli = Idle =>
    IF row = None \/ ~row.on \/ archives[row.ver] = None
    THEN row = None \/ ~row.on => tracked = None /\ router = {}
    ELSE /\ tracked # None /\ tracked.ver = row.ver
         /\ hist.same \/ hist.half \/ hist.cut \/ {r[1] : r \in router} = {row.ver}

(* Once commands stop, the server comes to run what the registry says and   *)
(* stays there, after any interleaving of commands, passes and failures.    *)
Converges == <>[]Matches
=============================================================================
