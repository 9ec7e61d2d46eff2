# megaserver: verification

megaserver deploys services on one machine: a Rust host (`src/rust/src`) keeps
their state in SQLite, runs them as host processes or Linux sandboxes, and is
driven over HTTP or by a command line; a planner written in fzy (`src/src`)
turns requests into plans for the host. This directory holds TLA+ models of the
host, the TLC runs that check them on small instances, and theorems about them
checked by TLAPS.

## The system's parts

| part | state it keeps | operations | hard behaviour |
|---|---|---|---|
| service operations (`app.rs`) | locals of one call | deploy, start, stop, restart, destroy, rollback, snapshot | many steps, an error path at each, no lock between processes |
| reconcile loop (`daemon.rs`) | snapshots of two tables | one tick every 5 s | acts on rows read up to 10 s before |
| state store (`state.rs`) | services, sandboxes, routes, releases, events, ... | one SQL statement each, no transaction | several writers |
| process runtime (`runtime.rs`) | the system's processes | spawn, stop, probe, health check | zombies, pids that vanish |
| sandbox (`sandbox.rs`, `network.rs`) | cgroup, root directory, network namespace, process tree of a service | build command, init, set up, clean up | init starts late, clean-up fails while something lives |
| network (`network.rs`, `manifest.rs`) | bridge, iptables chains | build chains, refresh policies | rules are replaced one by one |
| DNS sidecar (`dns.rs`) | pid file, one UDP port, the sandbox rows | ensure running, stop if idle, answer | shared by all services, started and stopped from everywhere |
| control API (`host_abi.rs`, `http_host.rs`, `ffi.rs`, `planner.rs`, `controlplane.rs`) | dispatch lock, FZY_LOCK, environment, scratch files | HTTP or CLI request -> planner -> host call | two locks of two kinds, files of an earlier process, stalled clients |
| ingress and proxy (`proxy.rs`, `ingress.rs`, `tls.rs`) | routes, signed links | resolve a target, forward HTTP, tunnel a WebSocket | plan used after it changed |
| projects and releases (`projects.rs`, `app.rs`, `state.rs`) | project trees, releases, snapshots | import, upload, deploy, snapshot, rollback | partial failure, names by the second |
| fzy planner (`src/src/services`, `model`, `api`) | none: tables | request -> plan | table entries that must agree |
| fzweb (`src/src/fzweb`) | none | parses and prints HTTP text | - |

A client of the control API and the command line reach the same functions of
`app.rs`: the first inside the daemon process, where `http_host.rs` serves one
dispatch at a time, the second in a process of its own or, for most commands,
by `controlplane::dispatch_ok`. The reconcile loop is another thread of the
daemon. They meet only in the SQLite rows, in the system's processes and in the
kernel's sandbox resources.

### What makes each part correct

* Operations and loop: a row's status, its pid and the system's processes tell
  one story; a service has one instance; whatever an operation spawned is
  recorded or killed; a destroyed service leaves nothing and stays gone; a
  crash is noticed.
* Store: an address belongs to one service, for as long as it exists.
* Network: a packet between two services passes exactly when both manifests
  allow it, at all times and not only between refreshes.
* Sandbox: a workload runs in its cgroup and with its own network or not at all;
  its exit is noticed; what a failed start leaves disturbs nobody and what ends a
  service leaves nothing.
* DNS sidecar: while a sandbox runs there is a server; when the last one stops
  there is none.
* Control API: every request is answered, with its own answer, and nobody waits
  for ever for somebody else's client.
* Snapshots: a rollback ends in the old release or the new one, never between.

## Modules

### `Lifecycle.tla` (with `ServicePromise.tla`)

The service operations, the reconcile loop, and the tables, processes and
cgroups they share.

| variable | code |
|---|---|
| `svc` | rows of `services`: status and pid |
| `box` | rows of `sandboxes`: status ("up" for any but "stopped"), pid, address |
| `routed` | services with a row in `routes` |
| `proc` | processes: free, running, dying (killed, not gone yet), exited; whose they are; whether the daemon is their parent; of an isolated service, its `tree`: the init and workload behind `unshare`, by whether they are in the cgroup yet |
| `cgroup` | services whose cgroup directory exists |
| `cl` | a client: operation, step, and the values it read (`held`: the pid of the row that stop and destroy read; `child`: the pid a start spawned; `addr`: the sandbox address) |
| `rec` | the loop: step, snapshots of both tables, service at hand |
| `faults` | bound on injected faults |
| `lost` | history: processes that may live on when no row names them |

A client's operation is cut where another actor can observe it: one step per
SQL write or effect on the system. `deploy_only` is `DeployRegister`,
`DeployRoutes`; `start_only` is `StartLoad`, `StartAddress`, `StartPrepare`,
`StartSpawn` (or `StartSpawnFails`), `StartRow`, `StartBox`, `StartProbe`,
`StartFinish`, with `StartAborts`, `Kill`, `UndoClean`, `UndoRow`, `UndoBox` as
its error paths; `stop_only` is `StopLoad`, `Kill` (or `KillMisses`), `StopRow`,
`StopClean`, `StopBox`, `StopFinish`; `destroy_only` is `StopLoad`, `Kill`,
`DestroyClean`, `DestroyTables`, `DestroyRow`. One tick of the loop is
`RecSnapshot`, then for each row `RecDead`, `RecBox`, `RecFail` or `RecHealth`,
`RecWriteHealth` or `RecSkip`, then `RecSandboxes` and for each sandbox
`RecStale`, `RecReap` or `RecLiveBox`. An early return of the code is a
disjunct that goes back to idle or to sleep.

The recorded pid of an isolated service is that of `unshare --fork`
(`sandbox.rs:333`), and `stop_pid` signals it alone (`StopPid`): its tree, which
joins the cgroup late (`TreeJoins`), ends when it likes (`TreeEnds`). What that
does to the operations is in `CanClean`: the removal of a cgroup with a member
fails, which ends a stop with the row already "stopped", a destroy before it has
deleted anything, the next start before its spawn, and a tick.

The environment ends a service's process at any time (`Exit`), ends an operation half
way, by an error of SQLite or, for a command line, by a kill (`Breaks`), kills the
daemon (`DaemonRestart`), ends a tick by an error of SQLite (`RecBreaks`), and fails
a spawn, the DNS sidecar or a policy refresh (`FaultKinds`, `MaxFaults`).

Three things in this code put a process or a tree beyond recall, and `lost` has
them: an operation that ends between the spawn and the rows (`app.rs:373-408`); the
undo of a start, whose kill does not reach the tree, whose clean-up's error is
ignored, and whose row has no `cgroup_path` (`app.rs:383`, `app.rs:410`); and a
clean-up that removes a cgroup just before the tree joins it, which then ends, or
the next start's cgroup is there for it to join. What is not lost is `Kept`, and the
properties about instances speak of that. A `lost` process can be a second instance
beside a later one, and can be left by a destroy: the code promises nothing about
it, and nothing can be proved of it but that the rest is as it should be.

`ServicePromise.tla` is the abstract specification: a service is registered
before it runs, one instance at a time, each instance a new process, and its
name is given up only while nothing runs. `Promise` in `Lifecycle.tla` is the
mapping: what is registered, each service's kept process or tree, the pids spent.

What the model takes for granted: pids are not handed out again while a row
names them; the sandbox of a service is named after the
service. Left out
because no step modelled here reads them: the private hosts file, deployments,
releases, snapshots, volumes, secrets. A rollback also writes the service row by an
upsert (`app.rs:934`, `app.rs:1034`), which would bring back a row that another process
destroys meanwhile: it is in `Rollback.tla`, which has one call at a time, and not
among the writers that `NeverResurrected` is checked against.

### `Sandbox.tla` (with `DnsSidecar.tla`)

What the operations of `Lifecycle` do to the resources of an isolated service,
and the DNS sidecar that all sandboxes share. The status columns are left to
`Lifecycle`; here the tables are the pids that guards read, and every name counts
as deployed.

| variable | code |
|---|---|
| `svc`, `box` | the pid column of `services`; status and pid of `sandboxes` |
| `cgroup`, `root` | the directories of the service under `/sys/fs/cgroup/megaserver` and its sandbox root |
| `net` | how far `setup_sandbox_network` came: namespace, veth pair, addresses |
| `tree` | a spawned command: `unshare` (`parent`, the recorded pid), the sandbox's init, the workload, a process it left to init (`stray`), whether a SIGCHLD is pending (`chld`), whether the namespace it runs in is connected (`wired`) |
| `server`, `pidFile` | the sidecar processes; what `dns.pid` holds, `Torn` being the empty file |
| `cl` | a caller: operation, step, service, the pid it read, the children it spawned |
| `faults`, `overlap` | bound on disturbances; history: whether callers overlapped |

A start is `Start`, `CleanCgroup`, `CleanNetwork`, `PrepareCgroup`,
`PrepareRoot`, `NetName`, `NetPair`, `NetWire`, `Spawn`, `Ensure` (nine steps of
`ensure_running`), `Rows`, `BoxRow`, `Policy`; a stop is `Kill`, the clean-up,
`SettleBox`, `Policy`, `StopIfIdle`, `Leave`; a destroy and a tick have the same
steps in their own order, and the two undos of a start are operations of their
own (`undoDns`, `undoPolicy`), entered from the step that failed. `InitMounts`,
`InitJoins`, `InitSpawns`, `InitReaps` are `run_sandbox_init`. `ServeFails` is the
`?` of `serve_forever`. A tick is taken for one service, in either of its passes.

Three facts about the system are modelled from outside, and much hangs on them.
`unshare --fork` does not pass signals on and is not told to kill its child
(`sandbox.rs:333`): `stop_pid` ends the parent after its time limit, and init with
its workload lives on until the workload ends. A cgroup with a member cannot be
removed, so the clean-up of such a stop fails. Deleting a namespace or a link that a
process still uses succeeds and takes its network away.

What the model makes visible and no document speaks of: a stop of a service whose
workload runs on returns an error, with the row already stopped and no pid to
signal the next time; the undo of a start ignores the same error and records no
cgroup, so that the next start may run beside the old workload, in one cgroup;
an init that is slow to mount may join the cgroup of the next start; a pid file
that a crash left empty fails every later start and idle stop; a sidecar that
ended looks alive while the daemon that spawned it runs (`Haunted`); the pid file
outlives a reboot of the host, when its pid may be any process, which is taken for
the sidecar and killed when idle (pids are not handed out again in the model); a
limit below a hundredth of a core is refused by the kernel and the error ignored
(`sandbox.rs:681`), so that the workload runs without it; a query whose
look-up meets an error of the database ends the sidecar as a bad packet does.

### `Firewall.tla`

The chains of iptables that filter the sandbox network, and the callers that
build and refresh them beside one another. `Lifecycle` knows of a refresh only
that it succeeds or fails; what it does is here.

| variable | code |
|---|---|
| `man`, `up` | the manifest in `services`, the rows of `sandboxes` that are not stopped |
| `stuck` | those of them that have ended with something left in their cgroup, so that their clean-up fails |
| `installed` | the rules of MEGASERVER-FORWARD, MEGASERVER-INPUT and the jumps to them, in the order of their `-A` |
| `policy` | the rules of MEGASERVER-POLICY |
| `act` | a caller: operation, step, the fixed rule it is at, the compiled rules it still has to append |
| `deploys`, `faults` | bounds on repeated deploys and failing commands |
| `stale`, `listed` | history: services deployed since manifests were read; what each service's manifests, past ones too, admit |

`Compile` is `compile_policy_rules`: a set of rules whose `key` is the place the
loops give them; `Permits` is `policy_allows`. `Fixed` is what
`ensure_host_network` makes sure of, in its order; `Check` and `Add` are its
`-C` and `-A`, `Flush` and `AppendRule` the commands of
`refresh_sandbox_policies`, `Read` the rows that `refresh_linux_network_policies`
reads before it calls. `Start`, `StartRow`, `Stop`, `Deploy` and `Tick` are the
parts of operations and ticks that change what a refresh reads. A tick ends before
its refresh (`TickEnds`) when a clean-up fails, which `daemon.rs:72` and
`daemon.rs:132` return, or SQLite does: one service that cannot be cleaned up (`Hang`,
until `Release`) keeps the policies of all from being repaired. `CommandFails`
is the `?` behind every command. What netfilter does with the rules (`Blocked`:
the first rule that decides, a chain at a time) is modelled from outside.

Taken for granted: bridged packets pass FORWARD (`br_netfilter`), the host has
no rules of its own, a sandbox uses its own address (the rule against spoofing
is then without effect), addresses are not shared (`UniqueIPs`). A service
stands for its address, a CIDR list for the addresses in it; the rules of one
list have the same verdict and are appended as one; rules that `-C` finds one
after another are one step, since nothing removes them; the INPUT chain's four
rules are one entry, which needs no order against the FORWARD chain.

### `Rollback.tla`

Snapshots and rollbacks of one service, with the directories they move. One
call is under way at a time; beside it the service's process writes and ends,
and the loop notices or probes it.

| variable | code |
|---|---|
| `row`, `mounted`, `alive` | the row of `services`; the volumes the recorded process was started with; whether it runs |
| `stray`, `outlived` | the processes that run and that no row knows, by their volumes; history: whether any process has outlived its stop or a start that failed |
| `live` | `runtime/<service>` and `volumes/<name>`, each a set of files |
| `snaps`, `dirs` | the rows of `snapshots` and the directories under `snapshots/`, named by the second (`clock`) |
| `call` | the call under way: step, the row it loaded, `was_running`, volume names, trees still to move, backup; history: the trees whose removal failed (`mixed`) |
| `attic` | backups under `run/rollback-backups` that a killed call left |
| `owed` | history: what a service wrote to each volume and no report has given up |

`snapshot_value` is `SnapBegin`, `SnapTree` per directory, `SnapInsert`;
`rollback_only` is `RbBegin`, `RbStop`, `RbBackup`, then `Clear` and `Copy` per
directory, `RbRecord`, `RbStart`; its recovery is `RcStop`, the same `Clear`
and `Copy` from the backup, `RcRecord`, `RbStart`, `RcHealth`; `Finish` is the
report. Each `...Breaks` action is the error path of its step and `Crash` a kill
of the daemon within a call. `start_only` and `stop_only` are one step here with
every end they may leave: `Lifecycle` has their inside, and the loop's stale reads.

A stop may fail before its kill (`Missed`), and of an isolated service it ends
`unshare` alone (`Ends`), whether it is then reported as done or fails on the busy
cgroup (`StopBreaks`); a start may fail and leave its process (`Escapes`). The
recovery ignores the error of its stop (`app.rs:1056`, `RcStop`) and goes on, and
`restore_service_record` clears the pid of a process that may run (`Forgets`). So a
`stray` process writes while trees are removed and copied. `restore_service_files`
also ignores the error of `remove_dir_all` (`app.rs:912`, `app.rs:916`), which leaves
any part of the tree for the copy to be merged with (`ClearBreaks`).

Taken for granted: a service only adds files to its volumes; the source tree at an app path stays
as it was deployed, a release having a path of its own; no other service uses
the volumes (volume names are global, so a rollback does replace the files under
another service that lists the same name).

What the model makes visible and no document speaks of: a tree whose removal failed
is reported as rolled back with old files among the new ones; what a process that
outlived its stop writes during a rollback goes with what is replaced; a recovery
may report "restored" with that process running beside a stopped row; two snapshots in one
second share a directory, and the second merges its files into the first before
its insert is refused (`SnapshotsFrozen` excepts it); a snapshot copies the volumes
one by one while the service writes, and may hold a later write without an earlier
one; the error of the stop or
of the backup is returned without a recovery, with the service stopped; the
backup is removed even when the recovery failed; a killed call leaves its
backup, which nothing reads.

### `Gateway.tla`

The way of a request from a client to the fzy control plane and back: the tasks
of the control API and of the proxy on the worker threads of the daemon.

| variable | code |
|---|---|
| `client` | the other end of the connection: whether the body is sent, or the client gone |
| `task`, `slot`, `answer` | the step of the handler, the scratch directory it was given, what it answers |
| `dlock`, `flock` | `dispatch_lock` (asynchronous, held across awaits) and `FZY_LOCK` (blocks its thread) |
| `env`, `next` | the environment variables of the process, `FZY_SCRATCH_COUNTER` |
| `dir` | the scratch directories: control input, control output, whether the host's files are there |
| `broke`, `restarts` | history: whose files failed; bound on restarts |

`handle_fzy_http` is `Arrive`, `Lock`, then `Drop`, `Refuse` or the dispatch, and
`Respond`; `proxy_request` begins with the dispatch. `dispatch_control` is
`Begin`, `Enter`, `SetEnv`, `Prepare`, `Call`, `Read`, with `NoDirectory` and
`PrepareFails` as its error paths; `Call` is the `dispatch_host` of
`src/src/services/control.fzy`. Its output never has the `http_status` or the
`upstream_port` that the handlers look for: the control API answers 200, the
proxy 502 (`Code`), and neither the retry of `http_host.rs:88` nor the forwarding
after `proxy.rs:93` can be reached, so they have no action here. The nesting of
`FZY_DEPTH` is not reached either. Taken for granted: removing the old files of a
scratch directory succeeds (the code ignores the error).

## Runs

`MCLifecycle.tla` instantiates `Lifecycle`; processes, and in `serial` the services,
are symmetric in the runs without liveness properties. Bounds: two processes over the
whole run let a service be started, lose its process, and be started again while a
stale snapshot or a held pid still names the first one; one service is enough for the
races of a row, two for addresses and foreign pids, which `serial` has with one
address for both. Its two faults put one into the undo or the clean-up of what the
other caused, or one into each of two operations.

| run | instance | properties | shows |
|---|---|---|---|
| `race` | API client, command line, loop; one isolated service without a port, one process, a failing policy refresh | `TypeOK`, `RowsAgree`, `FailureIsReal`, `NeverResurrected` | rows stay coherent under free interleaving; no running process is reported as exited; no late write recreates a destroyed service |
| `serial` | one command line, two isolated services, one address, two instances, two faults of any kind | `PidOwnership`, `SingleInstance`, `NoOrphan`, `UniqueIPs`, `DestroyLeavesNothing`, `StableIp`, `PromiseKept` | a tree that outlives a stop stays named by the rows and refuses the next start and a destroy, whatever had failed; pids and addresses stay each service's own, and an address stays until its service is destroyed; a start without an address changes nothing; the operations implement `ServicePromise` |
| `heal` | command line and fair loop, host processes; a failed spawn, an error of SQLite or a kill | `RowsAgree`, `NeverResurrected`, `CrashIsNoticed`, `Settles` | late health writes over restarted and destroyed services; every crash is noticed; when operations cease the rows come to match reality |

The properties of `race`, and `PidOwnership`, are theorems for any number of
services, clients, processes and faults (below); the runs show them on the
instances where they are most easily lost: `race` has three actors and one
process, `heal` two processes over time, so that a snapshot names one and the row
another, and health checks that end late.

`serial` has one client and no daemon on purpose: with two clients, or with the loop
beside one, `SingleInstance`, `NoOrphan` and
`UniqueIPs` do not hold: two starts both read the row before either writes it
(`app.rs:340`), and both spawn, or take the same address. `heal` uses host
processes: with sandboxes the loop can be wedged, and `CrashIsNoticed` does not hold of
them. A process whose tree lives on keeps the cgroup busy; and a late health write puts a
dead pid over a restarted service, whose live tree does the same. Each tick then ends
in the error of its clean-up (`RecDead`, `daemon.rs:72`).

`MCSandbox.tla` instantiates `Sandbox` with one service, a command line and the
daemon. One disturbance is allowed in a run: a failing step, a packet that ends
the sidecar, a kill of the command line, a stray process, or one overlap of two
calls, which then interleave at every step. Two trees and two sidecars let one
outlive its row and meet the next. Other services would add only to `InUse`;
the names of their resources are their own. The system may stop when trees or
sidecars are used up.

| run | instance | properties | shows |
|---|---|---|---|
| `sandbox` | one service, two callers, two trees, two sidecars, one disturbance of any kind | `TypeOK`, `Confined`, `ExitIsPending`, `KeepsItsNetwork`, `SetupUndisturbed`, `NothingLeft`, `ServedInUse`, `IdleStops`, `StartServes` | workloads run in their cgroup only and their exits are reported, however calls interleave; set-ups find a clean network whatever failed before; no clean-up cuts a running service off; nothing is left behind, and a sidecar serves whoever needs it and stops when nobody does |

`Confined`, `ExitIsPending` and, for a start that nobody overlaps, `StartServes`
hold under any interleaving. The others say `overlap = "never"`: two callers
at once can undo each other's work on one service, since nothing locks it, and the
idle check of one can stop the sidecar that a start of the other has just found.
`NothingLeft` and `IdleStops` also say `faults = 0`: a start that fails before its
row leaves its resources to the next start, and a failing policy refresh skips the
idle check.

`MCFirewall.tla` instantiates `Firewall` with manifests that differ in each way
the rules tell apart: defaults, names, addresses, and denials inside what is
allowed.

| run | instance | properties | shows |
|---|---|---|---|
| `fw_policy` | fresh host, three services, any of five manifests each, one caller, one deploy over a running service | `TypeOK`, `Enforced` | after a completed refresh, exactly the connections pass that both manifests allow |
| `fw_converge` | a command line and the fair loop, two manifests, a deploy, a failing command or tick, services that cannot be cleaned up | `Fenced`, `Converges` | half-built chains admit nobody that no manifest admits; ticks repair what interleaved or failed refreshes left |

Three services make every pair and a third party; two callers suffice for the
races, since a caller's commands commute with its own. `Enforced` has one
caller on purpose: two interleaved refreshes can leave rules of both, until the
next tick. `Converges` has two premises: that operations cease, and that nothing stays
stuck, since a service that can never be cleaned up keeps every tick from its
refresh. `fw_converge` starts with the fixed chains built. Builders that race on a fresh
host find the same rules missing and add them twice, in an order of both their makings:
that the policies come first and no service runs before the fence is there
(`PolicyFirst`) has no run, because its instance is too large beside the others, and is
proved for any number of builders and failures (below), as `Fenced` is. `Fenced`
speaks of the manifests of services by name: that a service gets the
address of one whose destroy could not refresh, and with it the rules that are still
in the chain for that address, is outside the model.

`MCRollback.tla` instantiates `Rollback` with a release and its successor, which
adds a volume: rollbacks in both directions then meet a volume that only one
side lists. The instance is an isolated service's, whose behaviours include those of a
host process: every stop may end all of it. A process that outlives its stop, its
start or a destroy is no counted failure, so that with one failure or kill in the rollback
its recovery may still meet a process that it could not stop. One write, of any volume at
any moment, tells old, new and mixed states apart; one second in which snapshots are
taken, any number of them.

| run | instance | properties | shows |
|---|---|---|---|
| `rb_restore` | isolated service, one volume, one failure or kill, processes that outlive their stop at any time | `TypeOK`, `NothingLost`, `Quiesced`, `RolledBackIsNew`, `RestoredIsOld`, `SnapshotsFrozen` | no process that the row knows writes under the copies; a reported success is wholly the snapshot (but its code), a reported recovery wholly the old state; files stay within reach when a call is killed; rollbacks do not use snapshots up |

Failures are those of a copy, a removal, a start, a stop, a write of the row, and the
daemon itself, at every step. What the properties leave out is what the code does not
promise:

* `NothingLost` speaks of what is written while no rollback has the volume in its
  backup. What is written behind the backup, by the release on trial or by a
  process that has outlived its stop, is not owed: it is undone or replaced.
* `RolledBackIsNew` and `RestoredIsOld` ask for every file of the outcome, and for no
  older one in a tree whose removal went through. A removal that fails, or that
  somebody writes under, is not reported by the code, and such a tree (`mixed`) may
  hold more.
* `Quiesced`, and that a service which was stopped does not run after a recovery,
  except processes that have outlived their stop (`outlived`).
* `SnapshotsFrozen` excepts a second snapshot in the same second.

`MCGateway.tla` instantiates `Gateway` with two requests to the control API, one
to the proxy, and two workers, one of which a dispatch that waits for `FZY_LOCK`
can occupy while the other holds it. One restart puts a request into the scratch
directory of an earlier one. Every request is made at most once, so the system
may stop when all are done.

| run | instance | properties | shows |
|---|---|---|---|
| `gw_dispatch` | stalled and leaving clients, failing files of one request, a restart | `TypeOK`, `OwnAnswer`, `ErrorHasCause`, `IngressAnswered`, `ControlAnswered` | answers and errors are the request's own; a stalled client holds up the control API and nothing else, and every way out gives the lock back |

Four runs refute what a document or a test says:

| run | refuted | what happens |
|---|---|---|
| `zombie` | `FailureEndsInFailed` (`daemon.rs:628`) | a service started by the daemon is its child, which it never waits for; `kill(pid, 0)` finds the zombie alive |
| `gw_host` | `HostReached` (`ffi.rs:187`) | a dispatch succeeds with its own request as the output; the host has not been called |
| `fw_replies` | `RepliesPass` (`SPEC.md:227`) | the policy chain comes before the rule for established connections and drops the replies of a service that may be called but may not call |
| `rb_code` | `CodeRolledBack` (`SPEC.md:346`) | a rollback to a snapshot that holds the code of the release before succeeds, and its start stages the code of the current app path over it |

Other disagreements show on reading, without a run: the test at `daemon.rs:639` asserts
that a tick removes the cgroup of a sandbox whose recorded process was ended by
`stop_pid`, but the tree behind `unshare` stays in it, its removal fails
(`sandbox.rs:423`), and every tick ends with that error and the sandbox row up;
the loop changes a service
between healthy and degraded without the event `SPEC.md:356` speaks of
(`daemon.rs:120`); routes exist before the runtime does, unlike the order of
`SPEC.md:322` (`app.rs:121`); the last address of the pool is the bridge's own, so that the
service which gets it takes the gateway's (`state.rs:193`, `network.rs:6`); the INPUT
chain has no rule by which a sandbox's
answers reach the proxy on the host (`network.rs:396`); the fzy entry of the
control API calls no operation (`gw_host`), so the operations modelled in the
other modules are those that `dispatch_value` (`host_abi.rs:451`) runs when it is
reached, as the tests of `app.rs` and `daemon.rs` call them.

Fairness (`FairSpec`): weak fairness of the loop (a thread that sleeps five
seconds and has no other way to stop), of each client's operation under way
(plain code without waiting on anyone; its waits have time limits), and of the
end of a killed process. No request need ever be made, and no process and no tree
need ever exit. In `Firewall`, weak fairness of the loop and of each refresh under way. In
`Gateway`, weak fairness of each task, which the runtime polls when it can go on;
none of the clients, whom `ControlAnswered` names in its premise instead.
`Sandbox` states none: its properties are safety, and what its stops and ticks
come to is `Lifecycle`'s to say. A
request is made once, so that the locks need not be fair among those that wait.

## Proofs

`LifecycleProofs.tla` proves for every set of services, clients, processes and
addresses, both runtime kinds, and any number of faults, from
`ConstantsAssumption` alone:

* `TypeCorrect`: `TypeOK`;
* `PidsOwned`: `PidOwnership`;
* `RowsAlwaysAgree`: `RowsAgree`;
* `FailuresAreReal`: `FailureIsReal`;
* `NoResurrection`: `NeverResurrected`.

The inductive invariant `IInv` is the conjunction of `TypeOK`, `LocalsAgree`,
`PidOwnership`, `RowsAgree` and `FailureIsReal`. `RowsAgree` alone is not
inductive: `StartRow` writes the pid the client holds, and `RecWriteHealth` the
one of the snapshot, so the locals have to be known to hold a pid at those steps
(`LocalsAgree`); that a pid in a row is its service's own needs the same of the
snapshots and of what clients hold. `FailureIsReal` is stable because a process
that exited never runs again, whatever else happens between the probe and the
write.

The proof has one lemma per conjunct for a step (`TypeStep`, `LocalsStep`,
`OwnershipStep`, `RowsStep`, `FailureStep`) with one case per action that can
disturb it, over lemmas that say what a step may write to each variable
(`ProcWrites`, `RowWrites`, `BoxWrites`, `RecWrites`, `ClientWrites`).

`LifecycleSerial.tla` goes on from that invariant to what the operations promise
when nothing interferes, for any number of services, processes, addresses and
faults:

* `AddressesUnique`: `UniqueIPs`, and `AddressesStable`: `StableIp`;
* `NoSecondInstance`: `SingleInstance`, `ProcessesTracked`: `NoOrphan`,
  `DestroyComplete`: `DestroyLeavesNothing`, and `Refinement`: `PromiseKept`;
* `NothingForgotten`: without sandboxes, errors of SQLite and kills, nothing is
  ever beyond recall.

All are under `Alone` (at most one client, no reconcile loop), with both kinds of
runtime, and also when operations end half way at any step. `Alone` cannot be
dropped: two clients that start one service both find no process. Those of the
second line speak of what is not beyond recall; that this is all there is, for host
processes, is the last.

`UniqueIPs` needs `Tables`: a client past the choice of an address holds the one of
its service's sandbox row, or one that no row has (`Addressed`); the service it
works for stays registered until the last step of a destroy (`Working`); and a
name without a row has nothing else (`Forgotten`), so that a service deployed
again starts from nothing. `SingleInstance` needs `Processes`: what is kept is in the
rows, the process in the service's and the tree in the sandbox's, or it is the child
of a start that has yet to write them (`Tracked`, `Childless`); the row a stop was
given is still what it kills (`Recorded`); and at each step of an operation it is
known what may be kept of its service (`Phased`): nothing after a clean-up until the
spawn (`Halts`), at most a tree before the clean-up (`Quiets`), only the child from
the spawn on (`Tends`). The lemma `Sweeps` is why: a clean-up either fails, on a tree
in the cgroup, or leaves nothing that is kept, and there is a row to clean up by for
every tree that is kept. `Refinement` shows each of the actions that touch a row or a
process to be one step of `ServicePromise`, and that all others, those of the error
paths too, leave what it speaks of alone: `Instance`, defined by a choice, is well
determined because of `SingleInstance`.

Liveness is out of the prover's reach: `CrashIsNoticed` and `Settles` are
model-checked only.

`SandboxProofs.tla` proves for any number of services, callers, trees, sidecars and
disturbances of any kind, from no assumption:

* `TypeCorrect`: `TypeOK`;
* `WorkloadsConfined`: `Confined`;
* `ExitsPending`: `ExitIsPending`;
* `SetupsUndisturbed`: `SetupUndisturbed`.

Its `IInv` adds to `TypeOK` that a caller under way has a service (`AtWork`),
that without an overlap there is at most one (`Alone`), and that an init past
`joins` has a cgroup and alone has a workload, with a SIGCHLD pending once that
ended (`Joined`). `Joined` is what the refusal of `rmdir` preserves: whoever
removes a cgroup has found it without members, and an init that joins later
finds it gone and ends. `SetupUndisturbed` needs `Alone`, since another
caller's clean-up would undo the set-up between two of its commands; that it needs
nothing about what failed starts left is due to `NetName`, which cleans up first.

`SandboxSerial.tla` goes on to callers that work one after the other, for any number
of services, callers and processes, from `NullAssumption` (what stands for no
process is none):

* `NetworksKept`: `KeepsItsNetwork`;
* `InUseIsServed`: `ServedInUse`;
* `NothingStays`: `NothingLeft`;
* `IdleHasStopped`: `IdleStops`;
* `StartsServe`: `StartServes`, an action property.

The first two and the last hold whatever failed or was killed before, the other two
speak of runs without failures. The invariant, `LoneInv`, is what each step knows:

* `AllFit` and `Present`: an operation is at one of its own steps and has the child
  and the sidecar that it made before them; what the rows and the callers name has
  been spawned.
* `Kept`: a row whose tree lives agrees with the row of the service, and the tree is
  wired (`Rowed`); and from a start's first step to its sandbox row, and from the
  kill to the row in the others, the tree that the row names has ended (`Aware`). A
  start has that from the refusal of a live pid, a tick from finding a pid dead in
  either table, a stop and a destroy because the pid they were given is still the
  one in the sandbox row, and an undo because it kills the child that it recorded.
  So whoever cuts a network cuts nobody's.
* `Filed` and `Provides`: a caller that writes the pid file has seen that it names
  nobody alive, so a sandbox in use never loses the sidecar's name; and none is in
  use while a caller kills what the file names.
* `Unfailed`: where nothing failed, no start is undone. There is a tree for it, the
  sidecar that it waits for starts or another serves, and an empty pid file is
  that of a caller about to write it.
* `Cleared`: a service not in use has no cgroup and no network unless a caller is
  midway with them; a clean-up passes over a cgroup only when the row says that an
  earlier one removed it.
* `Known`: the only sidecar that lives is the one that the pid file names, or is
  about to, and one lives without a sandbox in use only under a start, or under an
  operation that has its idle check before it.

`StartServes` needs only that the callers beside the start are idle, so that no zombie
but a haunting one passes for alive.

`FirewallProofs.tla` proves for any number of services, manifests, callers and
failing commands, on a fresh or a built host, from `FirewallAssumption`:

* `TypeCorrect`: `TypeOK`;
* `PolicyAlwaysFirst`: `PolicyFirst`;
* `AlwaysFenced`: `Fenced`.

Its `IInv` adds to `TypeOK` that the installed rules are `Ordered` (where the
chains hold a rule, they hold all that precede it in `Fixed` before it),
`Progress` (a caller has found or made every rule before the one it is at, so
all of them once it writes a row) and `Guarded` (every accepting rule, in the
chain or in a caller's hands, admits only outside addresses that a manifest of
its target lists). `Ordered` is inductive only with `Progress`: it is the
caller's position that shows the earlier rules to be there when it appends. That
`Fenced` follows although the policy chain may hold any mixture of rules is the
point of `Guarded`: it is kept rule by rule, and the fence decides the rest.
`Converges` is liveness and model-checked only.

Its second part adds, for one caller at a time and no failing command (`Alone`:
overlapping refreshes mix their rules, and a failed one leaves half of them, until
the loop repairs it):

* `PoliciesEnforced`: `Enforced`.

Its invariant says what the policy chain is in the middle of everything:
`Faithful`, that there are manifests, the stored ones but for services deployed
since the last refresh read them, such that the chain has the rules compiled from
them for the services that run, each behind only rules that `compile_policy_rules`
puts before it (`Lists`); during a refresh, that it has those not in the plan,
and all of these come before all that are; and `Foremost`, that there is a first
jump to the policy chain. Then the first match of a packet is found by the keys of
the rules: a pair of services has one rule of its own (`PairDecides`); for an
address outside, denials precede permissions and these the default
(`EgressDecides`, `IngressDecides`), as in `policy_allows`. `PolicyDrops`,
`PolicyAdmits` and `FenceStops` carry the verdict through the fixed chains.

`RollbackProofs.tla` proves for any number of releases, volumes, failures and
kills, from `RollbackAssumption`:

* `TypeCorrect`: `TypeOK`;
* `NeverLost`: `NothingLost`;
* `SnapshotsStay`: `SnapshotsFrozen`.

Types need to know that a row, a listed snapshot and a call under way have a
release (`Registry`, `Shape`, `Catalog`). `NothingLost` is not inductive: a
volume is emptied, and only the backup can then have its files. `Kept` says that
while volumes are replaced the backup or an older one has all that is owed,
which holds whoever writes meanwhile, because what is written behind the backup is not
owed, because only the volumes at stake are touched and all of them were
backed up (`BackupHeld`), and a finished recovery has copied all of the backup
(`PutBack`). What a rollback's own start writes before the call can still fail
is not owed either: it is undone with the rollback.

`RollbackOutcome.tla` goes on from that invariant, for the same constants, to
what a report means:

* `NobodyWrites`: `Quiesced`;
* `Success`: `RolledBackIsNew`;
* `Recovered`: `RestoredIsOld`.

`Quiesced` needs `Quiet`: a process that runs is in the row, by its pid, until one has
outlived its stop (`Tracked`), so that a row that a rollback takes for stopped is one
without a process; and nothing of the row runs from the stop to the start (`Still`).

`OInv` adds to that. It dates the files: they are written with rising numbers (`Stamped`), and
what a call copies is no later than its backup (`Bounded`), so that a service
that writes again after the start does not spoil what is compared. The volumes
moved are those of either manifest (`Named`); those no longer to do hold what their
source has, and no other file that is as old unless they are `mixed`, all of them once
the row is written (`Put`); and the row and the
process are the snapshot's, or the old ones (`RowIsNew`, `RowIsOld`).

`GatewayProofs.tla` proves for any number of requests, workers, failing files and
restarts, from `GatewayAssumption`:

* `TypeCorrect`: `TypeOK`;
* `AnswersAreOwn`: `OwnAnswer`;
* `ErrorsHaveCauses`: `ErrorHasCause`.

Both depend on a chain: whoever is inside the dispatch holds `FZY_LOCK`
(`Holding`), so the environment stays the holder's; a directory is one
dispatch's at a time (`Placed`), which the counter sees to, though a restart sets
it back; so the holder's directory has its input and, until the call, no output
(`Prepared`), and what is read is its own or nothing. `IngressAnswered` and
`ControlAnswered` are liveness and model-checked only.

## Left to do

Every safety property of the passing runs is stated by a theorem. Those of a
lone caller have that as a hypothesis, because nothing in the code keeps two callers
apart (see Runs). What is left:

* liveness (`CrashIsNoticed`, `Settles`, `Converges`, `IngressAnswered`,
  `ControlAnswered`) is model-checked only: the prover has no rules for fairness
  and `ENABLED`;
* which of the lone caller's properties survive a weaker hypothesis, such as
  callers that overlap on different services only;
* the address pool at its last address, which is the bridge's, has no property.

## Not modelled

* The host side of a dispatch (`host_abi.rs`) and the forwarding of the proxy
  (`proxy.rs:93` on, `ingress.rs`): at this commit the fzy side never calls the
  first and never returns the plan that the second needs (run `gw_host`). A model
  of them would have no reachable step.
* Projects (`projects.rs`): an import copies a tree and writes a row, a project
  deploy is a deploy and a row that only a listing reads back. What could go
  wrong: releases are named by the second (`projects.rs:119`), so that two imports in
  one second are copied into one directory, as `Rollback` has it for snapshots; and
  the release that a deploy records is read back from the service's row
  (`projects.rs:72`), which another process may have deployed over by then.
* The values of limits and their parsing (`sandbox.rs:200-270`), user switching, the
  shell into a sandbox (which enters its namespaces and not its cgroup), file
  contents, secrets, TLS, HTTP parsing and printing (`fzweb`, `proxy.rs`), argument
  parsing (`cli.rs`), the route tables of `src/src`, build scripts: sequential
  input/output or pure functions with no state that another actor races for.
