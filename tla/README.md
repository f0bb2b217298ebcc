# WinKube in TLA+

WinKube turns a Windows or Linux machine into a node of a Kubernetes cluster.
One Go process (`server.go`) serves a setup wizard and a monitor on port 8080,
keeps a configuration, runs the controller of the cluster (an address pool and
a REST API on port 9999), writes a Vagrantfile, boots up to two virtual
machines with vagrant, and announces its nodes to the local network by
UPnP/SSDP. This directory holds a model of its control and proofs about the
parts where several goroutines meet.

## 1. Inventory

### Components, state and operations

| component | state | operations | where it is hard |
|---|---|---|---|
| application lifecycle (`server.go`, `service/AppContainer.go`) | current and required status | `startup`, `manageState`, `switchToRunning`, `resetToSetupStatus` | lasts minutes and re-reads a configuration web pages edit; a panic ends the process |
| configuration (`service/configuration.go`) | the global `SystemConfiguration`, the file | constructors, predicates, `Validate`, `ReadConfig`, `WriteConfig` | shared by pointer with everybody, no lock |
| setup wizard (`service/setupapp.go`) | edits the configuration | steps 1 to 3, install | any order of pages, at any time; panics half way through an edit |
| monitor (`service/monitorapp.go`) | none | start, stop, enter-setup, displays | every request is a goroutine of its own |
| local controller (`service/clustermanager.go`) | delegate | `Start`, `startLocal`, `startRemote`, `configureMaster/Worker` | reserves addresses, joins remote clusters over HTTP |
| known clusters (`service/clustermanager.go`) | one entry per cluster: controller, masters, workers | `ServiceReceived`, `GetOrCreateClusterById`, `removeNode` | fed by datagrams that are lost, late or repeated; in memory only |
| cluster API (`service/clustermanager.go`) | none of its own | reserve and release an address, register and remove a node | a request is checked once and runs later; answers get lost; requests and the listener write the same maps |
| address pool (`service/netutil/cidr.go`) | `usedIps`, an `RWMutex` | `GetFreeIp`, `MarkIpUsed`, `MarkIpUnused`, `FreeIps`, `UsedIps` | writes under a read lock, takes the read lock twice, checks without a lock |
| CIDR arithmetic (`service/netutil/cidr.go`) | none | `hosts`, `Subnet`, `Host`, `AddressRange`, `Inc`, ... | ends of the address space |
| node manager (`service/nodemanager.go`) | copy of the configuration, flag `running`, Vagrantfile | `ConfigureNodes`, `StartNodes`, `StopNodes`, `publishServices`, `DestroyNodes` | a flag shared by callers and publish loops; partial failure |
| service registry (`service/netutil/ServiceRegistry.go`) | services by provider, advertisers | `Start`, `Stop`, `AddServices`, `RemoveServices`, the keep-alive loop, listeners | unlocked maps, loop on a copy, unreliable datagrams |
| action manager (`service/actionmanager.go`) | running and completed actions | start, log, complete | unlocked map and slice used by all goroutines |
| web framework (`webapp/`) | routes | `HandleRequest`: authenticate, look up, run | every request is a goroutine |
| translations, templates, utilities, installer, Ansible | mostly none | rendering, lookup, I/O | - |

### How they interact

* `manageState` calls, on one goroutine and in this order, the registry's
  `Start`, the controller's `Start`, and the node manager's `ConfigureNodes`
  and `StartNodes`. Everything it reads of the configuration is the object the
  wizard's pages edit on the request goroutines.
* The pages set the required status; `manageState` polls it every 10 s.
* `configureMaster/Worker` and the API's requests call the address pool.
* `StartNodes` starts a publish loop, which writes the registry's map of
  services; the registry's keep-alive loop reads it and speaks to the network.
* Received announcements go to the controller's `ServiceReceived`.

### What makes each component correct

* Lifecycle: a start ends somewhere, leaves nothing reserved if it fails, runs
  what was configured; a request to enter the setup is not lost.
* Configuration and wizard: what runs is ready; a finished wizard starts.
* Address pool: no address has two owners, one that is owned is not granted,
  calls return.
* Publishing: what is registered belongs to running nodes; what was announced
  and is gone gets a bye; a stop ends what a start began.
* Actions: each is listed once, found while it exists, and keeps its result.
* Arithmetic: agrees with sets of numbers at every size and at both ends of the
  address space.
* Known clusters: the view holds nodes of the own cluster, sees every node that
  stays, and shows a stopped one that was removed only for a known reason.
* API: no two machines have one address, and no address is lost, but for the
  causes the properties list; the start reserves before any client does, unless
  the client's request is one that passes without authentication.

`PROJECT.json` lists the hazards one by one with their lines.

## 2. Modules

| module | models | extends |
|---|---|---|
| `IpAllocator` | what the pool promises to a single caller: an abstract specification | - |
| `SharedPool` | what the pool promises to any number of concurrent callers: an abstract specification | - |
| `CidrPool` | the address pool with its callers | Naturals |
| `SystemConfig` | the configuration, its readiness and the wizard's edits, as operators | - |
| `AppLifecycle` | the process: `manageState` with everything it calls, the pages, crash and restart | `SystemConfig` |
| `NodePublisher` | node manager and service registry: publish loop and keep-alive loop | - |
| `ActionLog` | the action manager under concurrent owners and a page | - |
| `Binary` | shift and or of `math/big`, as recursive functions | Naturals |
| `CidrMath` | networks, subnets, neighbours and the overlap check of `cidr.go` | `Binary`, `FiniteSetsExt` |
| `ClusterView` | what the controller knows of the nodes in the network | - |
| `ClusterApi` | the controller's process: its REST API, its clients, pool and view through restarts | `ClusterView` |
| `CidrPoolProofs`, `AppLifecycleProofs`, `NodePublisherProofs`, `ActionLogProofs`, `ClusterApiProofs`, `CidrMathProofs` | theorems about the modules they extend | `TLAPS` |
| `BinaryProofs` | induction, recursive functions, division and the operators of `Binary` | `TLAPS` |
| `MCCidrPool`, `MCAppLifecycle`, `MCNodePublisher`, `MCActionLog`, `MCCidrMath`, `MCClusterApi` | roots of the TLC runs | the module they are named after |

A definition marked `Slip:` (or `Not the code:`) is not part of a
specification. It is a variant of the definition that follows it with a
plausible mistake; replacing the one by the other must break the property
`PROJECT.json` names, which shows that the property depends on that code.

### CidrPool

A goroutine is in one call at a time (`pc`, `op`). A call is split at every
operation on the mutex and around every access to the map, because another
goroutine may run there. The `RWMutex` is modelled after the `sync` package:
`Lock` announces the writer, which stops later readers (nested ones as well),
then waits for those inside; `Unlock` lets in all waiting readers at once.

| actions | code |
|---|---|
| `CallGetFreeIp`, `EnterFreeIps`, `BeginScan`, `EndScan`, `Ping`, `Grant` | `GetFreeIp` and the `FreeIps` inside it |
| `CallFreeIps`, `BeginScan`, `EndScan` | `FreeIps` and `UsedIps` |
| `CallMarkIpUsed`, `CheckIp`, `LockPool`, `DrainReaders`, `MarkUsed` | `MarkIpUsed` |
| `CallMarkIpUnused`, `LockPool`, `DrainReaders`, `MarkUnused` | `MarkIpUnused` |
| `MapRace` | the Go runtime stops the program on a concurrent map access |

`lease` is what the callers believe: the address `GetFreeIp` returned and that
was not given back. A node asks for no second address, and gives its address
back once. `MarkIpUsed` has no caller besides the tests; it is in the model
because it is part of the interface. A scan that overlaps an unlocked store
may see the store or not; the ping's answer is arbitrary.

`SharedPool` is what is left when several goroutines reserve at once: a call
looks once, stores an address it saw free then, and in between only other calls
like it change the pool. `Offer` is the refinement mapping: the addresses a
`GetFreeIp` may still return.

### SystemConfig and AppLifecycle

A configuration keeps the fields that readiness, roles, network type and
reservations depend on. The file may hold any number as the network type of the
cluster: `VMNetType` has the missing one (`"undefined"`), which the validator
refuses and a page turns into NAT, and an unknown one (`"other"`), which the
validator accepts. Of the text of the cluster's network it matters whether it can
be parsed (`cidr`). `ReadConfig` and its parts follow `readConfig` branch
by branch, including the nil dereferences on the way: net/http recovers the
panic of a handler, and the edits made before it stay. The requests are the
fields the forms of `templates/setup` can send.

`mpc` is the place of `manageState`; a step ends where the code reads the
shared configuration again after something slow. The node manager's copy of
the configuration is shallow: `shared` tells which node objects of the copy
are still those the wizard edits. `ReleaseIps` follows `releaseIPsOnError`, which
asks for the network type of the master when it releases the worker's address
(`WorkerUnreleased`). A panic of `manageState` is not recovered:
`crashed` holds until an operator restarts the process, which forgets pool and
status but finds the file and the Vagrantfile. `asked` and `disturbed` are
history variables. A page that changes the configuration while a start is under
way disturbs that start; most properties of what a start leaves behind are about
starts that were not disturbed, and hold beside those that were. Pages that
come later, while the nodes run, are not excused. `FailedStartFreesItsNodes` is
about the disturbed starts as well: an address that such a start loses belongs to
no node that is still configured, or to a worker whose network type is not the
master's.

`CrashesAreKnown` lists what ends the process in an undisturbed start: multicast
switched off (`Start` of the registry is not implemented without), a network
that `CreateCIDR` cannot parse, an unknown network type and a node to configure,
or a single node (`createVagrantConfig` dereferences both). The validator accepts
each of these configurations.

`ResubmittingTogglesNodes` compares a form with the same form sent once and twice
more, for every configuration a run reaches. A ticked worker comes and goes,
because `readNodeConfig` clears it in the else branch of its creation; on step 2
a master goes with it that the page had added for the worker of a controller.
Nothing else changes, and the third submission gives what the first gave.

### NodePublisher

Callers run `StartNodes` and `StopNodes`; each start spawns a publish loop;
the registry's keep-alive loop runs beside them. A publish loop sets the flag
in its first step, not in the call that spawned it. `Start` has a value
receiver, so the keep-alive loop tests a flag (`looping`) that is not the one
`Stop` clears (`advertizing`), while the maps are the same. `announced` is
what a listener on the network knows. `offered` is what `GetServices` returns:
nothing while the node manager's copy is not ready, and other services after a
page edited the node objects it shares (`Reconfigure`).

`asked`, `overtaken` and `stopped` are history variables. A stop that no start
follows (`asked`) may still leave services published, for good: when they were
removed, a start was in its vagrant run, its loop had not begun (a whole stop may
run between `go publishServices()` and the goroutine's first step), had set the
flag again, or was past its check. `PublishedOnlyAsAsked` says that there is no
other way.

### ActionLog

An owner (a request or `manageState`) starts an action, logs, and completes it
as often as its function does, which is more than once where a defer follows
an early completion. Every access to the map is a step, and two of them at
once may end the process (`MapRace`). The append to `completedActions` is
three steps, as it is compiled: it loads the slice, stores the new length, and
a new array when the old one is full, then the element. The length may go to
the array in place or bring back the one that was loaded; which of the two is
a choice, because the capacity is not modelled. A page that walks the list
between the last two steps meets a nil element. Entries behind the end of a
shortened list are taken as gone. `overlapped` is a history variable.

### ClusterView

The view is the entry of `knownClusters` for the own cluster: its masters,
workers and controller. Announcements are datagrams; `network` has the nodes of
which an alive message is under way, and receiving one may leave it there, so
that it comes again. Messages of a set have no order and any delay.

| actions | code |
|---|---|
| `NodeStarts`, `NodeStops`, `Announce` | `StartNodes`, `StopNodes` and the keep-alive loop, see `NodePublisher` |
| `LoseMessage` | the network |
| `ServiceReceived` | `Listen`, `onAlive`, `ServiceReceived` with `nodeFromService` and `GetOrCreateClusterById` |
| `RemoveStopped` | `getNode` and `removeNode`, called by `actionNodeStopped` |

`onBye` only logs and no entry expires, so that a stopped node leaves the view
by a request alone. A message of another cluster is entered into a new entry
that nobody stores. `onAlive` logs that it ignores the instance's own messages
and then handles them; the model does, too. `reported` and `late` are history
variables.

### ClusterApi

The process is off, starting, running or in the setup; `startLocal` makes a new
pool and a new entry and serves from then on, the start reserves the addresses
of its own nodes, and the controller listens at the end of its start. A start that
fails after that is `FAILING` while it releases the addresses its node objects
name; a page may have dropped or changed them, and then the address is lost. The
API accepts requests while the status is RUNNING only, but for those that are
`open`: with the text `/cluster/id` anywhere in the URI, also behind the question
mark, `controllerAuthAction` returns before it looks at the status and the
credentials. `EndProcess` stands for a panic, a
detected race on one of the maps, and the operator; pool, view and requests are
gone then, and the clients keep their addresses.

A request is accepted in one step (`HandleRequest`: credentials, status,
handler) and has its effect in a later one, by when the status may be another.
`GetFreeIp` is two steps, `Choose` and `Grant`, between which other requests
run, but no release, which waits for the lock (`NobodyChooses`). `CidrPool` has
the locks; that both implement `SharedPool` is the contract between the two.
`Choose` is the moment of the scan and knows already which address will not
answer its ping. An answer arrives or its connection is broken.

| actions | code |
|---|---|
| `SendReserve`, `SendRelease`, `SendNode` | requests of clients; `ReleaseNodeIP` of the remote controller names its parameter `ip` |
| `HandleRequest` | `HandleRequest` of `webapp/application.go` with `controllerAuthAction` |
| `actionReserveNodeIP`, `NoAddress`, `Grant`, `Answer` | `actionReserveNodeIP` with `ReserveNodeIP` and `GetFreeIp` |
| `actionReleaseNodeIP` | the same name; reads the parameter `address` |
| `actionNodeStarted` | the same name; decoding the body into a copy fails always |
| `actionNodeStopped` | the same name |
| `StartLocal`, `ReserveLocal`, `StoreLocal`, `Listen` | `localController.Start` |
| `Run`, `FailStart`, `ReleaseLocal`, `StartFailed`, `EnterSetup` | the rest of the start and the setup, see `AppLifecycle` |

The clients are any programs that know the cluster's credentials, or send open
requests (`Careless`): another
WinKube instance cannot be one, as its start fails before (section 6).
`excused` and `leaked` are history variables that record the causes
`AddressClashHasCause` and `LeakHasCause` allow.

### CidrMath

Addresses are sequences of bytes, shorter than the code's, with the carry and
the borrow of `Inc` and `Dec` byte by byte. A network is one `ParseCIDR` can
return. The number of `Subnet` is a Go `int` that is compared as `uint64`: both
have `WordBits` bits here, so that a negative number becomes a huge one, and a
prefix that grows by `WordBits` or more lets every number pass, as the shift
that computes the bound overflows. `newBits` is not negative: the code accepts
negative ones, too, and returns a network that is not masked. A user in `Next`
divides networks, visits neighbours and collects subnets; the properties compare
every function with sets of numbers for each network it meets. `hosts` follows
its loop; the loop of a network of prefix 0 does not end, which `HostsAreInner`
says. The program calls `AllIps` only.

## 3. Runs

| run | question | instance | result |
|---|---|---|---|
| `CidrPoolConcurrent` | what does the mutex still guarantee with everything at once? | 2 goroutines in `GetFreeIp`, 1 each marking, releasing, reading; 3 nodes; 2 hosts and the network's own address | holds: bookkeeping of the locks (a writer is alone), nothing released under a read lock, `SharedPool` implemented, a hang is final |
| `CidrPoolSerial` | is the pool right when only one goroutine reserves? | the same goroutine gets and marks, 2 release, 1 reads; 3 nodes; one address outside the network | holds: no double grant, `IpAllocator` implemented, every call returns unless the nested lock hangs or the runtime ends the program |
| `CidrPoolDouble` | do two calls return different addresses? (`cidr_test.go:207`) | 2 getters, 2 nodes, 2 addresses | violated |
| `CidrPoolHang` | do mixed reservations and releases return? (`cidr_test.go:230`) | 1 getter, 1 releaser | violated |
| `LifecycleWizard` | what does a start do with any configuration file and with the wizard open, and what do the pages do? | files: all combinations of controller, login, master, worker and multicast, and networks the code cannot use; pages: all 16 ticks of step 1, the fields of step 2, install, enter-setup; 2 addresses | holds: provisioned nodes, no address kept after a failure and crashes for the listed reasons only, if the start was not disturbed; a disturbed one keeps no address of a node that is left; every start concludes; a request for the setup is honoured; a form sent again toggles the listed nodes only |
| `ClusterApi` | who may share an address, which are lost, and what does the view say? | 2 clients, one of them with open requests, 2 own nodes, 2 addresses; or 2 of 4 nodes (a master, a worker of the own instance, one of another cluster, a controller) and who reports them; failed starts, restarts at any time | holds: clashes only after overlapping calls or a restart, leaks only by the listed causes, only open requests meet the start's reservations, removed nodes come back only by late announcements, a node that stays up is seen, `SharedPool` implemented |
| `LifecycleUnready` | does only a ready configuration run? (`server.go:115`) | 1 file, all requests | violated |
| `LifecycleInstall` | does the install page start the node? (`setupapp.go:442`) | 3 files, all requests | violated |
| `PublisherRuns` | are services published and announced when, and only when, nodes run? | 2 callers, 2 loops at a time, 3 services, 3 sets of them that may be offered | holds, with the late publications `PublishedOnlyAsAsked` lists as the only exceptions |
| `ActionLog` | what do the collections without a lock still guarantee? | 3 owners, 3 actions, 1 page; symmetric | holds: an action is listed once with its final status, and is lost only by an overlap of appends |
| `CidrMath` | does the arithmetic agree with sets of numbers? | all 31 networks on 2 bytes of 2 bits, integers of 3 bits; all lists of 2 subnets in all blocks | holds |
| `PublisherStop` | does `Stop` end the updates? (`ServiceRegistry.go:48`) | the same | violated |

The five violated properties are what a test, a message or a comment of the
repository says; `PROJECT.json` quotes the lines and says what the code does
instead.

Bounds. In `CidrPool` two getters, a writer and a reader are the roles that can
meet on one lock, and a third node makes the two addresses run out. In
`AppLifecycle` the process reserves at most two addresses per start; any step
may also get the empty answer of an exhausted pool. Each network that cannot be
used comes with a local controller and a worker, with and without a master (79
files in all). In `ClusterApi` the view and the pool share nothing but the
process, so that a behaviour has either nodes or clients (`Casts`, chosen at the
start; the proofs do not need it): two clients are an overlap, and two addresses
run out with them and the own nodes; two nodes meet in one view, one of them
removed while the other comes. One client may send open requests (`Careless`;
the proofs are for any number): it meets the start and the requests of the
other. In `NodePublisher` `Offers` has no service, a controller with a worker,
and the same with another name for the worker, so that a service is replaced in
one pass. Two callers and two loops are enough for a start overtaking a stop and
for two loops alive after a quick restart; `Loops` also bounds how many wait at
once (a third start waits in the model until one has ended; the code would start
a third loop, which behaves like the second). In `ActionLog` three owners let
two overlapping appends meet a third before, between and after them. In
`CidrMath` two bytes carry and borrow, two bits a byte put prefixes inside and
at the edges of bytes, integers of 3 bits are narrower than the addresses of 4,
so that `Subnet` overflows (in the code 64 bits are narrower than the 128 of
IPv6), and `VerifyNoOverlap` compares two subnets at a time. Nothing else is
bounded: no counter grows. Deadlock is checked in the lifecycle runs, whose
process always polls or can be restarted. It is not checked for the pool, which
hangs, for the publisher and the action manager, whose process may end, and for
the API, where nobody needs to start the process or send a request.

## 4. Fairness

* `CidrPool`: every goroutine that can go on does (`WF` of its steps). `SF` of
  taking the write lock: `sync.Mutex` hands itself to a waiter after a
  millisecond, so a writer is not passed over forever. Nothing makes a caller
  call.
* `AppLifecycle`: `WF` of `manageState`. Its sleeps end, `ping` has a timeout,
  an HTTP request to a host that does not answer fails, and vagrant is assumed
  to return. It assumes that the cluster's network has a prefix longer than 0:
  the list of the addresses of a network of prefix 0 never ends
  (`HostsAreInner`), nor does a start with it. No fairness of pages, users or restarts.
* `NodePublisher`: `WF` of each caller in a call, each loop and the keep-alive
  loop. Users need not start or stop anything.
* `ClusterApi`: `WF` of each node's announcement, which its keep-alive loop
  repeats every 15 s while the node runs; `SF` of receiving a node's message:
  the network may lose any message, but not every one of a node that goes on
  announcing itself. No fairness of the process, of clients or of requests.
* `ActionLog`, `CidrMath`: none; their properties are about states and steps.

## 5. Proofs

`tlapm` checks the seven proof modules for all values of the constants that
satisfy the named assumptions of the modules they extend: any number of
goroutines, nodes, addresses, clients, actions, configuration files and
requests. The assumptions say which constants are different from each other,
that `Actions` and `Services` are finite, that an instance may offer no service,
that files hold configurations and requests are forms, and that sizes are
positive numbers.

*The mutex.* `WriteExclusive` is not inductive: that nobody else is inside
follows from the locks each goroutine holds. `PoolInv` says how many read
locks a goroutine holds from where it is, one less while it is queued, and
that the announced writer is exactly the goroutine at `drain` or `write`.
It is preserved by every step (`NewCallPoolInv`, `StepPoolInv`) and gives
`PoolInvariant`, `WriterIsAlone`, `NoReleaseDuringGrant` (the only step that
frees an address is at `write`) and `NestedDeadlockIsFinal` (the two waiting
goroutines block each other and every step that could help either).

*The allocation.* Under `SerialGrants`, at most one goroutine in `GetFreeIp` and
`MarkIpUsed`, `GrantInv` holds relative to `PoolInv`: what the goroutine saw
free is free until it stores, an address being released has no owner and is
released by one goroutine only. `NoDoubleGrantWhenSerial` and
`PoolImplementsAllocator` follow: `Grant` and `MarkUsed` are `Allocate`,
`CallMarkIpUnused` is `Release`, all other steps leave `lease` alone. Without
`SerialGrants` the run `CidrPoolDouble` refutes it.

*The shared pool.* Without `SerialGrants` the pool implements `SharedPool`
(`PoolIsShared`): the scan is its `Look`, the end of the scan and the pings
narrow the offer, the store under the read lock is `Take`, and the two writes
under the write lock find no offer open (`NoOfferDuringWrite`), because an open
offer is a read lock. `RequestsShareThePool` is the same for `ClusterApi`, where
the end of the process restarts the pool, and a release, of a request or of a
failed start, waits until no call is between choice and store.

*The publisher.* `PublishInv` adds to the property all that may publish later
(`Ahead`): a start in its vagrant run, a loop that has not begun, the flag, a loop
past its check. They count like what is published. `AdvertiserInv` adds
that a pass has an advertiser for everything it used before it compares the
two lengths; a finite set is equal to a subset that is not smaller, so the
comparison misses nothing.

*The lifecycle.* `PageKeepsAddresses` follows the operators of the wizard one by
one: a page makes a configuration, and a node that is there before and after
keeps its network type and address. `StatusInv` adds to the types that
`manageState` is in a start exactly while the status is STARTING, that only a
fresh process with an empty pool begins one, and that the setup is required
once it is reached. `StartInv` says what each step of an
undisturbed start has established: which part of the configuration was
`Checked`, what is reserved and configured so far (`Within`, `Deployed`), and
that `Running` nodes are provisioned and still shared only with nodes that
exist, so that later edits change neither their addresses nor their network
type (`EditStart`). `RunningIsProvisioned`, `CrashesHaveCause` and
`FailureReleases` follow. `FailureFreesNodes` needs nothing of `StartInv`: it is
about disturbed starts as well. `CopyInv` says that, while the Vagrantfile is
generated, the nodes the manager's copy shares with the configuration are the same
in both, and that every configured node with an address is among them, so that the
release, which goes by the copy, finds it.

*A form that is sent again.* `ResubmittingToggles` follows `readConfig` stage by
stage. What a form says of the controller and the network is in the
configuration once a page has read it, or edited it before it panicked
(`Settled`), and a stage that reads it again changes nothing. Of the nodes, the
master that is `Selected` stays, also with the correction of step 2, and a
ticked worker is created if it is absent and cleared if not (`Toggled`); the
master that the correction adds for a worker goes with it when nothing selects a
master, and the third submission repeats the first. This holds for every
configuration of the type, so that the types, of `StatusInv`, are all it needs
of the behaviour.

*The action manager.* `SliceInv` is about every slice, the one in place and those
goroutines have loaded: each lists finished actions at most once and none whose
append is still to come. That makes a slice that is brought back by an
overlapping append harmless for `NothingListedTwice` and `ListedStatusIsFinal`.
`OverlapInv` relates the loaded slices to the one in place: they agree on every
action whose append did not overlap, so that storing either loses none of those
(`OnlyOverlapsLose`). `LengthInv` bounds the slices by the appends begun, and
`HoleInv` with `PageInv` says where a page may meet a nil (`LookupsSucceed`).

*The controller's process.* `Shape` says what a call holds at each of its stages.
`AloneInv`: while the process starts, no request but an open one got further than
being sent (`StartMeetsOnlyOpen`). `ClaimInv` gives each caller at most one claim, an
address it was given or is about to be given, and says that two claims meet only
on excused addresses (`ClashesAreExcused`). `LeaksAreKnown` is inductive beside
`Shape`. `GhostInv` strengthens `GhostsHaveCause`: of a removed node that is not
late, no message is under way.

*The arithmetic.* `BinaryProofs` starts from the order of the natural numbers:
a set of them that is not empty has a least member (`Least`), so a set that has
0 and every successor has all of them (`Induction`). In this form, about sets and
not about operators, induction is in the provers' reach, and `Recursion` and
`BoundedRecursion` derive that a recursive function exists and satisfies its
equation. Division follows (`Quotient`, `DivideTwice`, `BitSplits`), and that an
or of two numbers without a common bit is their sum (`OrOfParts`). `CidrMathProofs`
shows that bytes and integers are converted without loss, by induction over the
bytes; that a network is the interval of `2^h` addresses that starts at a multiple
of its size; and that the carry of `Inc` and the borrow of `Dec` add and subtract 1
around the address space. The six invariants of the run then hold for every
number of bytes, bits in a byte and bits in an integer: everything computed is a
network (`TypeCorrect`), `Subnet` partitions and refuses (`SubnetsArePartition`),
`Host` counts from both ends (`HostIsCounted`), `NextSubnet` and `PreviousSubnet`
are adjacent and inverse (`NextSubnetIsAdjacent`), `VerifyNoOverlap` accepts a
list exactly if its subnets are disjoint and inside (`VerifyIsExact`), and `AllIps`
lists the inner addresses in order (`HostsOfNetwork`).

Only model-checked: the liveness properties (`CallsReturnOrHang`,
`StartConcludes`, `SetupRequestHonoured`, `NodeSeen`, `RemovedAreUnannounced`,
`StartAnnounces`, `StopEndsLoops`), which need fairness and `ENABLED` and are out
of the prover's reach. Every invariant and every action property of a passing run
is stated by a theorem.

## 6. Not modelled

* Rendering, translations, logging, the text of messages, wording; pages that
  only display.
* The SSDP and HTTP libraries, vagrant and ping: each is a choice of results.
* Two instances of the whole program: joining a remote cluster always fails,
  because `loadRemoteConfig` asks for `/cluster/config`, which the API does not
  serve. The remote controller's requests are in `ClusterApi` as a client's.
* The requests of the API that only read. Their rule in `controllerAuthAction`
  is in the model, as it lets every other request through, too.
* Fields that only a request made by hand has, such as `master-Node-NodeAddress`,
  with which `readLocalNodeConfig` would overwrite a reserved address: the forms of
  `templates/setup` do not send them.
* The panic "Cluster is remotedly managed" of `startLocal`, which runs once in a
  process, when no cluster is known.
* A negative `newBits` of `Subnet`, for which it returns a network that is not
  masked: nothing in the program divides networks.
* The entries of clusters other than the own one: they are made, filled and
  forgotten.
* `Unlisten` of the registry and the text format of the USN.
* The IDLE status, `DestroyNode`, `DrainNode`, `CordonNode`, the controller's
  `Stop` and `clusterapp.go`: nothing reaches them.
* Word tearing in racing accesses to the status and configuration fields.
* `AddressCount`, and IPv4 networks built by hand from addresses of 16 bytes
  (`ParseCIDR` returns 4): neither occurs in the program. Nor do IPv6 networks
  inside `::ffff:0:0/96`, whose addresses `checkIPv4` shortens.
* The order of the running actions on the monitor's page
  (`actionmanager.go:129`), of which nothing says what it should be.

Facts of the code that the models contain and no property refutes, because no
line of the repository promises otherwise: `actionNodeStarted` enters no node,
its error text goes out with the status 200, as the body is written first; a
released address sent as `ip` is not released; a received bye changes nothing; a
cluster that is not the own one is never known; a process that has reached the
setup is not started again, as the install page never asks for it
(`LifecycleInstall`); a request with `/cluster/id` in its query needs no
credentials; a configuration that the validator accepts may end the process
(`CrashesAreKnown`); the services of stopped nodes may stay published
(`PublishedOnlyAsAsked`).

## 7. Plan

The order is by how much of the system depends on it. Done: all the modules of
section 2 and the proofs of section 5. Left:

1. An abstract sender, implemented by `NodePublisher` and assumed by
   `ClusterView`.
2. A theorem that reduces a double grant in `CidrPool` itself to overlapping
   calls, with the history `ClusterApi` keeps in `excused`.
