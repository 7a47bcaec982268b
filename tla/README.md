# A TLA+ verification of the V2bX/Tox node server

The repository is a node server for a V2board panel. One process runs one or
more proxy cores (sing-box, xray, mieru), and for every configured
node a controller that pulls the node configuration and the user list from the
panel, pushes them into a core and into a limiter, and reports traffic and
online devices back. This directory holds TLA+ modules of the parts of that
program that have state shared between goroutines or a protocol with the panel,
the TLC configurations that check them, and TLAPS proofs.

Paths below are relative to `src/`. Vendored code (`sing-box_mod`,
`quic-go_mod`, `reality_mod`, `sing-vmess*`) is outside the project, with one
exception: the certificate watcher of `sing-box_mod/common/tls/std_server.go`,
which is half of what happens after a renewal. What the program needs of
libraries otherwise is modelled from how it uses them and marked external.

Contents: 1 the system, 2 the modules, 3 the runs, 4 bounds and fairness, 5 the
proofs, 6 where code and promises part, 7 what is not modelled.

## 1. The system

| Part | Source | State | Operations | Who runs them |
|------|--------|-------|------------|---------------|
| Periodic task | `common/task/task.go` | mutex, `running`, current timer | `Start`, `Close`, `checkedExecute` | callers, timer goroutines |
| Controller | `node/controller.go`, `node/task.go`, `node/user.go` | node info, user list, traffic settings, its tasks | `Start`, `Close`, `nodeInfoMonitor`, `reportUserTrafficTask`, `compareUserList` | main goroutine, timer goroutines |
| Panel client | `api/panel` | ETags, body hash | `GetNodeInfo`, `GetUserList`, `GetUserAlive`, `ReportUserTraffic`, `ReportNodeOnlineUsers` | the controller's tasks |
| Limiter | `limiter/limiter.go`, `limiter/dynamic.go`, `limiter/rule.go` | limits, online addresses, buckets per user | `AddLimiter`, `UpdateUser`, `CheckLimit`, `GetOnlineDevice`, `UpdateRule` | every connection, the monitor, the report |
| Traffic counters | `common/counter`, `core/sing/hook.go`, `core/sing/user.go`, `core/xray/user.go`, the xray dispatcher | counter per node and user, uid map | `GetCounter`, `Add`, `GetUserTrafficSlice`, `AddUsers`, `DelUsers` | every connection, the report, the monitor |
| Certificates | `node/cert.go`, `node/lego.go` | certificate, key and account file; the pair each inbound serves | `requestCert`, `CreateCert`, `RenewCert`, `writeCert`, the file watcher | the starting controller, a renewal task per node, one watcher per inbound |
| Mieru core | `core/mieru/mieru.go` | mux, `started`, node, uid map, counters and connection sets | `Start`, `Close`, `AddNode`, `DelNode`, `AddUsers`, `DelUsers`, `applyConfig`, `acceptLoop`, `handleConnection`, `GetUserTrafficSlice` | the controller, accept loops, every connection |
| Watcher and reload | `conf/watch.go`, `cmd/server.go`, `node/node.go`, `core/core.go` | time of the last accepted event, shared `*conf.Conf`, `nodes`, `vc` | the event loop, `LoadFromPath`, the reload function, `Node.Start`, `Node.Close` | watcher goroutine, one goroutine per accepted event |
| Core selector | `core/selector.go`, `core/interface.go` | cores, tag to core map, options of each node | `Start`, `Close`, `AddNode`, `DelNode`, `AddUsers`, `DelUsers` | one controller per node |
| Admission of connections | `core/sing/hook.go`, the xray dispatcher, `limiter/limiter.go`, `limiter/rule.go` | registered limiter of each tag, its users and rule slices | `GetLimiter`, `CheckLimit`, `CheckDomainRule`, `CheckProtocolRule`, `UpdateRule` | every connection; the controllers |
| Inbound and outbound builders | `core/sing/node.go`, `core/xray/inbound.go`, ... | none | translate a node configuration | inside `AddNode` |
| Sniffing and routing | `core/xray/app/dispatcher` | none shared | `sniffer`, `routedDispatch` | every connection |
| Rate limited connections | `common/rate` | a token bucket (the limiter's) | `Read`, `Write` | every connection |
| Command line | `cmd` | none | version, install, x25519, ... | the shell |
| Configuration records | `conf`, `common/json5` | none | decode | watcher, start |

How they meet:

* A controller owns three periodic tasks. `nodeInfoMonitor` runs inside
  `Execute` of the first, with that task's mutex held, and itself calls `Close`
  and `Start` of the first two when the panel changes the intervals.
* The monitor asks for the node, the users and the alive list in this order,
  returns on the first error, and then either replaces the node (DelNode,
  DeleteLimiter, AddLimiter, certificate, AddNode, AddUsers) or applies the
  difference of the user lists. The panel client decides with ETags and a hash
  of the body whether something is new, and it remembers before the caller used
  the answer.
* Connections run concurrently with all this: they pass `CheckLimit`, look up
  their counter, and add to it; the report reads and resets the counters.
* A connection finds its limiter by the tag of its inbound in a global map, from
  which a reload and `Controller.Close` delete it, and reads rules that
  `UpdateRule` is writing.
* A core is one of several behind the selector; a controller knows its tag only.
* A change of the configuration file tears down all controllers and cores and
  builds them anew, in a goroutine of its own.

What makes it hard: mutexes released between a test and its use; `sync.Map` calls
that are atomic one by one only; Load and Store in place of Swap; caches filled
before the answer is used; steps that fail half way through a sequence that
has no undo; timers, renewals and reloads that overlap; and two files that must
fit each other. The list, with its lines, is under "hazards" in `PROJECT.json`.

## 2. The modules

| Module | Models | Companions |
|--------|--------|-----------|
| `Task` | one periodic task | `MCTask` (fair specification), `TaskProofs` |
| `NodeTasks` | a controller's two tasks: extends `Task` and has a second instance of it | `MCNodeTasks`, `TaskProofs` |
| `NodeSync` | controller, panel client, core and limiter contents | `MCNodeSync`, `NodeSyncProofs` |
| `Traffic` | traffic accounting of the sing and the xray core | `MCTraffic`, `TrafficProofs` |
| `Limiter` | one node's limiter | `MCLimiter`, `LimiterProofs` |
| `Cert` | certificate files, renewal, inbound watchers | `MCCert`, `CertProofs` |
| `Mieru` | the mieru core | `MCMieru`, `MieruProofs` |
| `Reload` | file watcher and reload | `MCReload`, `ReloadProofs` |
| `Core` | abstract: what a controller relies on of a core | |
| `Ledger` | abstract: what becomes of a unit of traffic; `Traffic` and `Mieru` implement it | |
| `Selector` | the selector over several cores | `AdmissionProofs` |
| `Admission` | controllers and connections over `Selector` and the registry of limiters | `MCAdmission`, `AdmissionProofs` |

An action stands for what happens between two points where another goroutine
can get in: a critical section, one call on a `sync.Map`, one atomic, one
request, one write of a file. Every definition is tied to its lines by "map" in
`PROJECT.json`. A definition whose comment starts with "Mutant:" is not part of
the model: it is the plausible bug with which a property is shown to have teeth.

**Task.** `access`, `running`, `timer` are the fields of the struct; `armed` is
the set of timers that will still fire, which is not the same, because a
restarted task forgets a timer that is in flight. `hasClosed` and the section
of `checkedExecute` are two steps with the mutex free in between. `Execute` is
two steps with the mutex held in between, so that `Close` waits. Time is left
out: an armed timer fires at any moment.

**NodeTasks.** It extends `Task`, whose variables are those of the monitor's
task, and has a second instance of it, `Report`, with variables of its own
(`rAccess`, `rRunning`, ...). `at` is, per goroutine, the next call of its own
code. Initial states, steps and specification of the pair are `TasksInit`,
`TasksNext` and `TasksSpec`. The main goroutine runs `startTasks` and
later `Controller.Close`; the monitor runs inside `Execute`. `late` counts
monitor runs that began after the task was closed, `failed` records a reload
that gave up with the node removed, `refused` a core that failed to remove a
node it had (sing returns the error of closing an inbound it has deleted, mieru
that of `mux.Close`), `crashed` a panic. Here the content of the configuration
is just the two intervals.

**NodeSync.** `nodeSeen` and the user ETag are the client's caches, `info` and
`userList` the controller's fields, `coreNode` and `coreUsers` what the core
has, `lim` the limiter's `UserLimitInfo`. `FetchNode`, `FetchUsers`, then
`Reload` or `UpdateUsers` are the phases of one monitor run; the panel changes
between any two. `Fails(f)` is the failure of one kind of step, recorded in
`faulted`, so that a property can say which failures it tolerates; among them
are a core that fails to remove a node it has (`delNode`) and a rule on which
`MustCompile` panics (`rule`). `keeps` says that the core is mieru: its `uidMap`
survives `DelNode`, so that it may serve users beyond the list (`Kept`), and
"exactly these users" holds for sing and xray only. A node configuration is a
model value; its hash and ETag are itself, those of an error response are
`Failed`. A user list maps each uuid to its limits or to `None`.

**Traffic.** A counter is the set of packets it counted, not a number: a lost or
repeated packet then shows. `counterOf`, `store`, `storage` are the three levels
of pointers (node to TrafficCounter, user to TrafficStorage, connection to the
storage it captured); objects are named after the connection that created them,
which keeps overwritten ones apart. `rpc`, `rtodo`, `rcur`, `rctr`, `rsnap`,
`slice` are the locals of `GetUserTrafficSlice` and of the report task. `posted`
counts the reports a packet was in, `reported` how often the panel received it.
`KeyByTag` and `CloseLinks` switch between xray (uid map keyed by tag and uuid,
links closed with the user) and sing. `MinTraffic` is `ReportMinTraffic`, per
node and in packets: a counter that holds no more is left as it is.

**Ledger.** What counters and reports promise, with the counters left out: a
packet is counted when it is transferred, a reset takes packets of one account
(a user of a node) out, some of them on their way into a report (`taken`) and
the others lost, and what was taken is billed or dropped, once. `Traffic` and
`Mieru` map to it what is in any counter, in any slice, and in a report.

**Limiter.** One step per `sync.Map` call of `CheckLimit`, `UpdateUser` and
`GetOnlineDevice`. The inner map of addresses and the token bucket a connection
may create are named after it. `gen`, `began`, `raced` and `over` are ghosts:
which updates of a user overlapped a check, and which connections of new devices
above the limit were checked with no update, report or twin in the way.
`NewDeviceOverLimit` is where the limit applies: not to a device its user is
known on (`KnownDevice`), and, as the code has it, not to one whose address the
last report has under another user (`HeldByAnother`).

**Cert.** `certFile`, `keyFile`, the account file and the marker `Torn` for a
file that is truncated and not yet written. A certificate and its key are the
same number, in the order of issue. Each node goes through start (request if a
file is missing, `AddNode`), then its renewal task and its inbound's watcher,
which reads one file per event and pairs it with the bytes of the other it has
in memory. An account is looked for, registered and saved in three steps, so two
renewal tasks can register at once; this needs a certificate that was put there
without an account, with which the modes self and http may begin. The self mode
opens its files without truncating them: there `Torn` stands for a file between
its first write and its last. A crash forgets everything but the files.

**Mieru.** Muxes are numbered; every start of a mux launches one more accept
loop, as in the code. `DelUsers` is split at its map calls, a connection at each
point where it registers. Both bridges (TCP and UDP) are there because they
register in different orders.

**Reload.** Time is counted in units of 5 seconds, the wait of the watcher; its
window is two of them. Each accepted event has its own reload, with its own
program counter, on the shared `conf`, `nodes` and `vc`. `NewCore` returns an
error or, in xray, panics on a setting it does not understand.

**Selector and Core.** `Core` is one map from tag to users. `Selector` has
`nodes` (tag to core), `has` (core and tag to users), and the options of each
node: `text` is what the file says (`CoreName` and `Core`, each given, not given
or naming nothing, `Stray`), `optCore` and `raw` the fields `Core` and
`RawOptions` that `UnmarshalJSON` sets when the file is loaded and `AddNode`
changes, `decoded` the type the options were decoded for. The two names may
contradict each other, and `Decode` reads `Core` again from the text, as the
code does. What a core does with options not decoded for it (xray dereferences a
nil `XrayOptions`, sing does so for trojan, mieru ignores them) is the choice
between success and failure that `AddNode` has anyway. The refinement maps a tag
to the users its home core holds for it, from the moment the core has it and
while it is remembered.

**Admission.** A composition: it extends `Selector` and drives its actions. For
every tag a controller goes through `Start`, the reload and the user branch of
`nodeInfoMonitor`, and `Close`, one action per call (`life` and `step` say where
it is); `reg` is the global map of limiters, `held` the field `c.limiter`, and
limiters of a tag are numbered by generation, because a connection keeps the one
it looked up. `UpdateRule` is modelled write by write: it publishes a slice of
nil patterns, fills it, and then assigns the protocols, all without a lock. A
slice header is two words, so a write of it is two actions and a reader in
between sees the array of one slice with the length of the other; what lies behind
the end of an array is an arbitrary value. For every connection `cpc` goes
through lookup, `CheckLimit` and the two range loops, which take the length once
and read the field anew in each turn, as the Go code does with a slice that is a
field. `due` (the rules when the connection came) and `moved` (its node was
taken down since) are ghosts. A rule is the one destination or protocol it
matches, or `BadRule`, which does not compile. `crashed` records why the process
ended: a bad rule, an index or nil pointer in the rules, an error of the core or
of `Start`. Abstracted: the tag stays the same over a reload (the node's type and
id do not change); a user list fetched while a failed reload left the node out
of the core has no effect; a monitor that begins after `Controller.Close` closed
its task is in `NodeTasks`. The connections are those of xray and the TCP
connections of sing (`RoutedConnection`); its fallback skip of the check is a
connection without a user.

## 3. The runs

`expect: pass` runs finish without an error; a `violation` run has a
counterexample that shows what the code does against what its text says.

| Run | Module | States | Shows |
|-----|--------|--------|-------|
| `task` | `MCTask` | 31,149 | `Execute` is exclusive; a set `running` flag always has a successor (an armed timer or a goroutine on its way); a task that is left open runs again and again; a closed one comes to rest, forgotten timers included |
| `node_tasks` | `MCNodeTasks` | 87,628 | `Controller.Close` returns; the monitor is entered until then; at most one monitor run starts after the close; a panic needs such a late run, a failed reload, or a core that fails to remove a node it has |
| `node_tasks_pull` (violation) | `MCNodeTasks` | | a new pull interval makes the monitor close its own task from inside `Execute`: it waits for the mutex it holds |
| `sync` | `MCNodeSync` | 713,188 | controller, core and limiter agree while only requests fail; node and users converge; no reload without a change; a panic needs a failed certificate, rule, AddNode or DelNode |
| `sync_lost` (violation) | `MCNodeSync` | | a node change is lost when the user request after it fails |
| `traffic` | `MCTraffic` | 139,994 | xray keys: nothing is in two reports or billed to another user or node, nothing of a served user is thrown away, a counter above the threshold gets into a report with what earlier reports left in it; the accounting implements `Ledger` |
| `traffic_uid` (violation) | `MCTraffic` | | sing keys: deleting a user on one node drops the user's traffic on another |
| `limiter` | `MCLimiter` | 1.9 million | rejected devices leave no trace, connections of a user share one bucket of the least limit, one device above the limit is rejected and none below it |
| `cert` | `MCCert` | 596,924 | files are damaged only by a cut or overlapping write; orders to the authority have causes; otherwise all nodes end up serving a renewed certificate |
| `mieru` | `MCMieru` | 2.1 million | a started mux is served; it is open for exactly the users; connections stay where `DelUsers` finds them; traffic is kept |
| `reload` | `MCReload` | 1.7 million | the nodes of the file are up in the end; one core is open at a time; no node is left behind; crashes have causes |
| `admission` | `MCAdmission` | 3.7 million | a node is in the core the selector remembers; a core gets options of its type unless the file misleads; the selector implements `Core`; a TCP connection escapes the limiter or a rule only if its node is taken down meanwhile, and only then can rules that are being written bring the process down; the registered limiter is the one the controller updates |

The properties that have an exception in their premise (`raced`, `hurt`,
`failed`, `faulted`, ...) state the exception because the code really fails
there; section 6 lists these cases. The exceptions are as narrow as TLC lets
them be, and every property has a mutant of the mapped code that breaks it
("mutants" in `PROJECT.json`). A hazard for which the exception is the whole case
lists no property in `PROJECT.json`, and a note that says so.

How far some of them reach: `AppliedInSync` and `UsersConverge` allow mieru users
beside those of the list, and `ServedAreLimited` is about sing and xray, because
mieru can keep a user the list dropped in the poll that changed the node; the
limiter rejects that user. `UsersConverge` says nothing of an empty list and
`ServedAreLimited` nothing of a named node. `OnlineWasAdmitted` says that what is
online was admitted, not the converse: a rejected connection that created its
user's entry deletes the whole entry (`limiter/limiter.go:181`), the addresses of
others included, and no property forbids it. `OpenForItsUsers` compares the mux
with the `uidMap`, the users of an earlier node included; that a failed
`mux.Start` leaves `started` clear is part of `StartedIsServed`.

The type invariants of `Task`, `NodeTasks`, `NodeSync`, `Traffic`, `Limiter`,
`Selector` and `Admission` are proved, for every value of the constants, and so
not repeated in a run. `Cert`, `Mieru` and `Reload` state none: the properties
of their runs constrain the same variables more tightly, and their proofs carry
the types as a part of the inductive invariant.

To run one: `tlc -workers 2 -config MCTask.cfg MCTask`. To check the proofs of
one module: `tlapm TaskProofs.tla`.

## 4. Bounds and fairness

Bounds are constants with the prefix `Max`, or the size of a set:

* `task`: three goroutines and three timers. Two goroutines show every race of
  `Start`, `Close` and a fired timer; the third makes a restart during a race.
* `node_tasks`: one worker for the monitor (its mutex admits one), two for the
  report, two timers each, two changes of the configuration, so that a reload
  follows a failed one. The pull interval is fixed there, because changing it
  ends in the self-deadlock that `node_tasks_pull` shows.
* `sync`: two configurations, two users, two speeds, two edits and two faults:
  a fault before and one after a change, and a repair that meets another change.
  Device limits have one value, since `compareUserList` does not look at them.
  Both kinds of core are among the initial states. The node has no name.
* `traffic`: two nodes, two users, three connections and packets, two user
  operations: deletion and return of a user, a shared user, two connections
  racing for the first counter. The first node reports more than one packet
  only, so that a report finds a counter at the threshold and leaves it, and its
  two connections share a counter that can then grow; the second reports all. A
  POST is lost, or arrives four times (the client retries three times); how
  often it arrives changes nothing else in the model, so the two extremes are
  enough.
* `limiter`: one user, two
  devices, three connections (symmetric twins on the first device), device limit
  1, no limit of the node, speeds 0 (none) and 1, two operations among updates,
  reports and alive lists. Users share the loop of the report and, through
  `OldUserOnline`, their addresses; a second user makes the run seven times as
  large, so the case of an address held by another user is left to the proof,
  which is for any users.
* `cert`: two nodes on the same files, with or without a pair to begin with, one
  certificate comes due, one crash or failure at any step.
* `mieru`: two users, a TCP and a UDP connection, four calls of the controller:
  enough for add, delete, return, delete, with a mux replaced in between.
* `reload`: three changes of the file, one failing step, broken files. Three are
  needed for a crash two reloads after its cause. At most two reloads are under
  way at a time: once reloads overlap the properties claim nothing more.
* `admission`: one tag, an xray and a sing core that can both take the node, one
  connection (connections do not act on each other), three rule sets (one
  that rejects it by either kind of rule, one with a bad pattern, one without
  domain rules, so that a reload shortens, lengthens and empties the slices), two
  user lists, and six calls of the selector: start, a reload, a change of the
  users and a close. The node is named or not; its options give neither `CoreName`
  nor `Core`, a `Core` or a `CoreName` that does not exist, or two that contradict
  each other. Options that fit, and several tags, cores and connections, are
  covered by the proofs.

Fairness, and why the code justifies it:

* `task`: armed timers fire and a goroutine that can go on does (the Go
  runtime). `Execute` returns, because the panel client sets request timeouts
  (`api/panel/panel.go:43-47`).
* `node_tasks`: strong fairness per goroutine, because a `sync.Mutex` does not
  starve a waiter, and weak fairness of the timers. Nothing is assumed of the
  panel and of the caller of `Close`.
* `sync`: weak fairness of the monitor as a whole. It is what
  `MonitorKeepsRunning` of `node_tasks` establishes. Edits and `Close` are not
  fair.
* `traffic`: weak fairness of each node's report (a periodic task), none of
  connections and of the monitor.
* `cert`: weak fairness of each node's steps, of each watcher, and of the
  restart, which the service manager does (`install_custom.sh:203` says
  `Restart=always`).

`CHECK_DEADLOCK FALSE` is set where the system may stop: all bounded operations
done, the controller closed, or the process crashed.

## 5. What is proved

All theorems hold for any values of the constants that satisfy the named
assumptions (`NoProc` is not a goroutine, `None` is not a user, each connection
has a user and a node, bounds are naturals, and the like); each is an ASSUME of
the module that declares the constants and is evaluated in every run. Every
invariant of a passing run is the statement of a theorem.

* **`TaskProofs`**: `TaskTypeCorrect`, `ExecuteIsExclusive`,
  `RunningTaskHasSuccessor`. `ExecuteExclusive` is inductive, because it ties
  being in `Execute` to holding the mutex, rather than excluding pairs.
  `ChainAlive` is inductive with the type invariant: each action that takes away
  a successor (a timer that fires, a goroutine that returns) leaves another or
  clears the flag under the mutex. The second half is about `NodeTasks`, where
  the goroutines are the main one, the workers of the monitor and those of the
  report (`ProcsAssumption`), and no goroutine has two of these roles
  (`RolesAssumption`). `MonitorIsATask` and `ReportIsATask` show that each of
  the two tasks, with the controller's own code around it, implements the
  specification of `Task`, so the three theorems above hold of both.
  `TasksTypeCorrect` adds the types of the controller's own variables.
  `OneLateRunAtMost` and `PanicsAreCaused` are the invariants of the run, and
  neither is inductive. `OneChain` says that at most one thing of the monitor's
  task is under way: an armed timer, which is then `t.timer`, or a goroutine
  that serves one. (`Task` alone does not promise this, as a restarted task
  forgets timers; here the main goroutine starts the task once, and a monitor
  never gets as far as restarting it.) `LateInv` says that after the close
  neither a timer is armed nor the flag set, so a goroutine already past
  `hasClosed` is the last to run the monitor. `NodeInv` says that without a late
  run, a failed reload or a refusal of the core the node is in the core unless
  the monitor is about to add it again or `Close` has removed it; `StageInv`
  where each goroutine can be. `TaskInv` is the conjunction; TLC checked it with
  two workers and two pull intervals before it was proved.
  `RetimingBlocksForever` is an action property, the finding of
  `node_tasks_pull` for every value of the constants: a monitor that has begun
  to re-time itself stays there in every later step, because the mutex it waits
  for is released by nobody else, and from then on `Controller.Close` does not
  get past the task either.
* **`NodeSyncProofs`**: `NodeSyncTypeCorrect`, `PanicsNeedFatalFault`,
  `ControllerCoreLimiterAgree`, `LimiterKnowsServedUsers`, `ReloadsOnlyChanges`.
  The strengthening is `NodeThere` (a running controller's node is in the core
  unless a fault of a fatal kind came before); `faulted` only grows, so a
  premise about it holds before a step when it holds after. The lemma
  `CompareUserList` says that the added and deleted users partition the change;
  `UpdateInSync` that applying them to the limiter gives the new list.
  `LimiterKnowsServedUsers` is for nodes without a configured name and for sing
  and xray. `ReloadsOnlyChanges` is an action property; it rests on `SeenInv`:
  what the client has seen is what the controller runs, or what it has just been
  given.
* **`TrafficProofs`**: `TrafficTypeCorrect`, `TrafficBilledOnce`,
  `TrafficBilledToOwner`. Neither property is inductive: a packet is in at most
  one report because it is in at most one counter, and out of it when it gets
  into a slice. The invariant is the type, `MapsInv` (the maps point to storages
  of the right node and user), `RangeInv` (what the running report has captured
  is in the counter it is about to reset), `CountedInv` (a counted packet is in
  one counter, its owner's, and was not posted), `SliceInv` (a packet in a slice
  is its owner's, not posted before, and in no counter) and `ReportedInv`. A
  POST may arrive any number of times from none to `Attempts`.
  `ServedTrafficIsKept` (`ServedNotDiscarded`) has a hypothesis, `UidsApart`:
  the uid map is keyed by tag and user, as in xray, or there is one node. With
  two nodes and the keys of sing the property is false, which is what the run
  `traffic_uid` shows. `TrafficKeepsLedger` is the refinement of `Ledger`:
  `Transfer` is a `Count`, `ResetCounter` a `Reset` of the account of the user
  it visits, `Post` a `Bill`, and every other step leaves the ledger alone.
  Beyond the invariant above it needs `FreshInv`: the slice has nothing yet of
  the users a report still has to visit, so that an entry is never overwritten.
* **`LimiterProofs`**: `DetermineSpeedLimitIsLeast` (the comparison with its two
  special zeros computes the least non-zero limit), `LimiterTypeCorrect`,
  `RejectedLeavesNoTrace`, `OneBucketPerUser`, `BucketOfTheRightRate`,
  `DeviceLimitIsEnforced`. For the third, `TraceInv`
  says that every address in a map that is in use is that of a started
  connection working on this very map. For the next two, `BucketInv(u)` describes
  the bucket of a user who was never updated during a check: made for the limits
  the user has, gone with them, and the one every check under these limits was
  given. `GenInv` links the ghost generations to the limits.
  For the last, `OverInv` follows a connection in `over` through its check: what
  it loads and what is in the maps (`Refused`: the alive count is at the limit,
  the address is neither online, nor in the last report, nor being checked by a
  twin) sends it into the rejecting branch of each step. Its second half, that
  nobody is turned away below the limit, is an invariant of the rejecting branches
  themselves (`TurnedAway`). Here users are any number, so an address that is
  known under another one is covered, as the exemption it is.
* **`MieruProofs`**: `StartedMuxIsServed`, `MuxOpenForItsUsers`,
  `ConnectionsCanBeCut`, `MieruTrafficKept`, all four properties of the run, and
  `MieruKeepsLedger`. The
  muxes and the connections are two invariants that do not need each other.
  `MuxInv`: no accept loop waits for a mux that is neither current nor closed,
  and loops end only with the node, so one of them is left for a started mux.
  `ConnsInv` has `CutInv(c)` (from `GetConnSet` on a connection has the set of
  its user, or DelUsers has that set in hand), `CountInv` (it has the counter of
  its user as long as the user stays), `DropInv` (DelUsers drops a counter only
  when the uid is gone already, so that a connection in between is known as an
  orphan), and `TrafficInv` (a packet is in one
  counter, of its user, and in none once it is reported).
  `MieruKeepsLedger` is the refinement of `Ledger` by the mieru core, where Load,
  Store and the lookup of the uid are three steps: the second is the `Reset`, the
  third the `Bill` or, for want of a uid, the `Drop`. TLC checked it on the
  instance of the run `mieru` before it was proved; the run does not repeat it.
* **`AdmissionProofs`**, the selector: `SelectorTypeCorrect`, `NodeHasOneHome`,
  `OptionsOfTheRightType` and the refinement `SelectorImplementsCore`. The
  invariant `Inv` says where the node of each tag is for each place its call can
  be in (`CallInv`), that nothing is in a core before the start (`StateInv`),
  and that options are decoded for the type the file gives or, where it gives
  none, for that of the core `CoreName` names (`OptionInv`); for a file that
  contradicts itself or gives no type of core nothing is claimed. For the
  refinement every action is shown to be one abstract operation on its tag or a
  step that leaves `Served` alone.
* **`AdmissionProofs`**, the composition: `ControllersUseSelector`,
  `ConnectionsAreChecked`, `RulesPanicOnlyInReload`,
  `RegisteredLimiterIsCurrent`, for any number of tags, cores, connections and
  rules. The first says that the composition calls the selector only as
  its specification allows, so that what is shown of the selector, the refinement
  included, carries over. The inductive invariant `AInv` adds to the selector's
  two parts. `NodeInv(t)` follows the controller: at each
  `step` which limiter is registered and held, how far its rules are published
  (`Published`: both headers whole, of the newest array, all patterns
  compiled), that it knows the users (`Knows`), and that while any of this is
  not so the node is in no core (`NotInCore`), hence no connection arrives.
  `ConnInv(c)` follows a connection whose node was not taken down
  since it came: its limiter is the registered one, the rules there are those
  of `due`, and no rule before `pos` matched (`NoMatch`). Neither part is
  inductive alone: the rules a connection reads stay put because the controller
  cannot publish without taking the node down first, which sets `moved`.
* **`ReloadProofs`**: `OneCoreAtATime`, `NodesStayReachable`,
  `CrashesAreCaused` and `FileIsServed`, all four properties of the run
  `reload`, for any files, any number of changes, of reloads under way and of
  failing steps. None is inductive alone. `RInv` says that while no
  two reloads overlapped one reload at most is past its load (`Apart`), and for
  each of its steps what is left of the old core and controllers (`At`:
  `Closing`, no node up from `closeCore` on, no core open at `newCore`,
  `Starting`), between reloads what runs (`Rest`), and always that nodes are up
  in `n.controllers` on `vc` only (`Always`). The clauses that need success are
  conditional on `Fine`, no failure of a fatal kind so far, which is how the
  harmless failures (of Close and Start of the core) are told from the
  others. `Fresh` says that a change not loaded is still to be received, waits
  in a Sleep, or is known as dropped. `NoneAssumption` and the length of a file
  (`FileAssumption`) are all that is assumed of the constants.

* **`CertProofs`**: `DamageIsCaused` and `OrdersAreBounded`, for any number of
  nodes on one pair of files. For the first, `FilesInv` says that without a cut
  or overlapping write there is at most one writer, and the files are what it
  has made of them so far, and that a torn account has somebody saving it.
  `StartInv` says that nodes start one after the other and the files are there
  once one has started, `HeldInv` that a pair not yet written is nobody else's
  and not due. The second is a counting argument. `Orderers` are the nodes that
  may still order although nothing more goes wrong: one about to, the next one
  to start when a file is missing, and every one that has not yet replaced a
  certificate that is due. The inductive statement is `issued +
  Cardinality(Orderers) <= 1 + N * (ages + faults + crashes)`: an order takes
  its node out of the set, and only a certificate that comes due, a failure or a
  crash puts nodes in, which raises the right side by `N`.

Only model-checked: the liveness properties (`MonitorKeepsRunning`,
`CloseReturns`, `NodeConverges`, `RenewedAndServed` and the like). They need
fairness, and the prover has no ENABLED.

## 6. Where code and promises part

Shown by a run (`findings` in `PROJECT.json`):

* `node/task.go:157`: a changed pull interval blocks the monitor on its own
  mutex for good (`node_tasks_pull`).
* `core/sing/user.go:210`: with two nodes in one sing core, deleting a user from
  one drops the traffic of that user on the other (`traffic_uid`).
* `node/task.go:63`: a node change is lost when the user request after it fails
  (`sync_lost`).

Met while modelling, named as exceptions in the premises of properties, and not
made into runs of their own:

* Traffic: a `TrafficCounter` overwritten by a concurrent first connection takes
  its traffic with it (`core/sing/hook.go:71`); bytes between Load and Store of a
  report are lost; a POST whose answer is late is repeated up to three times by
  the client (`api/panel/panel.go:42`), and the panel adds it each time;
  xray's `CloseAll` ranges without the lock, and `LinkManagers` is filled by Load
  and Store.
* Controller: after a failed node request the next good one looks new and
  reloads the node; a body that breaks off after its ETag was stored is never
  asked for again; a configured node name keeps the old limiter over a reload;
  a changed device limit is not seen by `compareUserList`; an empty user list is
  never applied; the report's interval is compared with `PushInterval` and set
  to `PullInterval` (`node/task.go:162`); a core that returns an error after it
  removed the node, or a rule that does not compile, ends the process
  (`node/task.go:92`, `node/node.go:44`, `limiter/rule.go:33`).
* Limiter: a second connection of a device that is being checked skips the
  device limit (`limiter/limiter.go:162`); so does one whose address a report
  moves meanwhile, and one whose address the last report has under another user
  (`limiter/limiter.go:163-166`, `174-177`: the branch for `OldUserOnline` is
  taken whoever the address belongs to); a rejected connection that created its
  user's entry deletes the addresses others added to it
  (`limiter/limiter.go:181`); an update during a check leaves a bucket of the
  old rate; `AliveList` is a plain map with concurrent readers and writers.
* Certificates: a crash, or two renewals, between the two files leave a pair that
  does not fit and that nothing repairs, because only existence is tested; a torn
  account file is fatal, and two nodes that register at once can leave one;
  `CheckCert` swallows its parse error
  (`node/lego.go:114`); `{domain}` and `{email}` are replaced in the paths by
  `writeCert` only.
* Mieru: one core value holds one node; a connection can be added to a set that
  `DelUsers` already closed; `uidMap` survives `DelNode`; accept loops accumulate.
* Reload: a setting xray does not understand panics (`core/xray/xray.go:94`); a
  change between the load and the end of the 10 second window is not
  loaded; a broken file leaves `vc` nil for the next reload; a node that could
  not be started makes the next `Close` panic; slow reloads overlap; the
  deferred `vc.Close` of `serverHandle` binds the first core.
* Selector: the type chosen by the first `AddNode` stays in the options;
  `CoreName` and `Core` are never compared (`core/selector.go:71`), so a core
  can be given options of another type; an empty or unknown `Core` in the file
  is read again by the decode, which then sets it to "" and decodes nothing
  (`conf/node.go:139`), while `RawOptions` is dropped (`core/selector.go:98`)
  and the next `AddNode` fails; two nodes of the same name share a tag; a failed
  xray `AddNode` leaves its inbound.
* Admission: a connection on its way when its node is reloaded finds no limiter
  and, in sing, passes unchecked (`core/sing/hook.go:32`), or has a limiter
  whose rules are not compiled yet and brings the process down
  (`limiter/rule.go:31`); a pattern that does not compile ends the
  process (`limiter/rule.go:33`); after `Controller.Close` deleted the limiter
  the inbound still accepts until `DelNode`.

## 7. What is not modelled

* Inbound and outbound builders, configuration records and their decoding: pure
  translations without state. Whether a decode succeeds is a choice in the
  models that call it; which fields the decoding of a node's options sets is in
  `Selector`.
* Sniffing and routing, the SOCKS5 UDP framing of mieru, the json5 comment
  stripper: sequential functions of bytes without shared state, which a unit test
  reaches. What was sniffed is a constant of a connection in `Admission`.
* `common/rate`: a wait on a bucket before each read and write.
* The dynamic speed limit: its task is created and never started.
* sing's UDP hook, `RoutedPacketConnection`: it makes the same calls as
  `RoutedConnection`, but compares the protocol rules with
  `Destination.Network()` (`core/sing/hook.go:98`), not with the protocol that was
  sniffed. What `Admission` shows is about TCP for sing.
* The command line, logging, the clock synchronisation: input and output only.
* The vendored forks, with the exception of the certificate watcher. They are
  libraries of other projects (sing-box, quic-go, reality, sing-vmess), patched
  in few places, and make up 94 per cent of the lines under `src/`: of
  the whole the map covers two per cent, of the program's own 7,800
  lines a third, and of the packages where its state lives (`node`, `limiter`,
  `common/task`, `common/counter`, the selector, the mieru core) two thirds to
  nine tenths. The rest of the program's own code is the builders, records and
  commands above. A model of QUIC, TLS or of the proxy protocols would be one of
  another project's code.
* Memory-model effects below one map or atomic operation, and aborts of the Go
  runtime on concurrent map access.
