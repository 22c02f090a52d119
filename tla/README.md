# A TLA+ model of zylo

zylo is a container runtime in Go: a command line client, a daemon `zylod` that serves one
goroutine per request over a Unix socket, and the files and kernel objects those goroutines
share. Nothing in the daemon's memory is authoritative. Containers, names, volumes, networks
and images live in JSON files, directories, processes and iptables rules that every request
reads and rewrites, mostly without a lock, and that a daemon finds again when it boots. The
models here are about that: who may take what from whom, in which order, and what is left
after a death in the middle. All paths below are relative to `src/`.

## Inventory

| Part | State | Operations | Talks to |
|---|---|---|---|
| Container lifecycle (`internal/container/lifecycle.go`, `state.go`) | `/var/run/zylo/containers/<id>` (logs, `container.json`, `<id>.pid`), the init process, `/var/lib/zylo/containers/<id>` | `Up`, `run`, `cleanup`, `Down` | every registry below, as the caller |
| Runtime clean-up (`runtime_cleanup.go`) | the same | `RuntimeCleanup` (the *sweep* at the start of every request), `down` | names, volumes, IPAM, iptables |
| Boot clean-up (`daemon/cleanup.go`) | the same | `InitCleanUp` | the same |
| Request server (`daemon/server.go`) | none | `router` | lifecycle, image and volume requests |
| Names (`name/name.go`) | `names/registry.json` | `NameExists`, `RegisterName`, `UnregisterName`, lookups | called by `Up`, `cleanup`, `down`, boot |
| Volumes (`volume/`, `internal/container/volumes.go`, `setVolume`) | `volumes/registry.json`, data directories | register, unregister, mark used and unused, delete | called by the ZyloFile parser, `run`, `down`, boot, VOLUME_DELETE |
| Images (`api/image.go`, `image/`) | image directory, `.tmp` directory, `.lock` file | `PullImage`, `Delete` | containers mount the image |
| Networks and IPAM (`network/`) | one JSON file per network, bridges | `CreateNetwork`, `AllocateIP`, `ReleaseIP`, restore, clean | lifecycle, boot, hosts, DNS |
| Port forwarding (`network/iptables.go`) | the ZYLO chain | add, remove | `SetupNetwork`, `CleanupNetwork` |
| Hosts files (`hosts/`), DNS servers (`network/dns/`) | `hosts/<net>/hosts`, a cache | add, remove, resolve | IPAM, containers |
| Daemon control (`daemon/daemon.go`, `socket.go`) | socket, pid file | `Up`, `Down`, `Status` | the operator |
| Client, command line, heartbeat, listings | none | parse, send, print | the socket |

What is hard here:

* Every request runs the sweep first, so several goroutines may tear one container down at
  once, together with its own deferred `cleanup`.
* Registries are read-modify-write on a file. The two that have a mutex release it between
  the read and the write; the network files and the image directories have none.
* `zylod down` sends SIGKILL. A stop and a crash are the same event, goroutines vanish between
  any two steps, containers live on and are adopted by init.
* `kill(pid, 0)`, the only test of life, also succeeds for a zombie.
* The lifecycle acquires five resources one after another, and gives them back through code
  that works from `container.json`, which exists only for part of that time.

What makes each part correct: a running container that is on record keeps what it needs, and
its record; whatever a dead run left is reclaimed; names, volumes, addresses and subnets are unique
and track their users; an image directory holds a whole image; a boot gets to its end and makes every
network whole; a name leads to the container that has it; a query is answered; the daemon that
clients reach is the one `zylod down` stops.

## Modules

| Module | Models | Composition |
|---|---|---|
| `Lifecycle` | UP, DOWN, the sweep, the boot clean-up and the resources they share | a registry call is one step |
| `NameRegistry` | the load and the save inside a name call, file truncation included | opens `Lifecycle`'s `CheckName`, `Unname`, `Cleanup`, `BootPurge`; implements `Allocator` |
| `VolumeRegistry` | the load and the save inside a volume call, `setVolume`, VOLUME_DELETE, the data directories | opens `MarkVolumeUsed`, `Unmark`, `Cleanup` |
| `HostsFile` | the hosts file of one network: lines found and removed by substring | variables and operators of `NetworkFile`, which extends it |
| `NetworkFile` | one network's JSON file, byte length included, its unlocked readers and writers, and the hosts file they keep in step | opens `CheckNetwork`, `AllocateIP`, `AttachNetwork`, `BootRelease`; implements `Allocator` |
| `NetworkManager` | all networks: subnets, files, bridges, links, DNS servers; creation, clean-up and restoration at boot, reboots of the host | a file operation is one step, opened by `NetworkFile`; implements `Allocator` |
| `DnsServer` | one DNS server: queries, cache, local resolution, forwarding | what the resolver knows comes from `NetworkManager` |
| `DaemonControl` | `zylod up` and `down` over the socket and the pid file | its `boot` is what `Lifecycle`, `NetworkFile` and `NetworkManager` show of a boot |
| `ImageStore` | the directory, tmp directory and lock file of one image | opens the image part of `Setup` |
| `Allocator` | abstract: a thing only one client may have is taken, used, left and dropped | instantiated with a refinement mapping by three modules |
| `LifecycleProofs`, `NameRegistryProofs`, `VolumeRegistryProofs`, `ImageStoreProofs`, `NetworkFileProofs`, `NetworkManagerProofs`, `DnsServerProofs`, `DaemonControlProofs` | theorems | extend their module |
| `MC*` | small instances | extend their module |

Operators named "Mutant" in a comment are plausible mistakes in the code. Nothing in a
specification uses them; they show that a property can fail.

### How Lifecycle corresponds to the code

`pc[a]` is the next step of a goroutine. The goroutine of an UP request is the container
itself, the main goroutine is `Main`, every other request is one of `Clients`. One action is
one call into another package, one file operation or one signal, in the order of the code:

    Request  SweepVisit SweepNetwork SweepDir SweepDone          router, RuntimeCleanup
    CheckNetwork CheckPorts CheckVolumes Setup CheckName         Up
    NewManager MarkVolumeUsed AllocateIP PortForward Start
    Probe WriteJSON WritePID AttachNetwork Reap Cleanup          run, cleanup
    ReadJSON Terminate Timeout Dead Unmark DownNetwork Unname
    RemoveDir RemoveRootfs                                       down
    DownByHash DownByPath NextDown                               Down
    Boot*                                                        InitCleanUp

`proc[c]` is `none`, `running`, `zombie` or `gone`. A child of the living daemon becomes a
zombie when it ends and stays one until `cmd.Wait`; an orphan is reaped by init at once. `rt[c]`
is the set of files in the runtime directory, `nat` the chain in order, since the first rule
for a port wins. `Faults` names the steps whose system calls may fail; the failure is a
disjunct of the step's action.

Abstractions: an ID is the container (`identifiers.Hash` is random) and a pid is its process,
so a reused pid does not occur; the removal of a directory is one step; a container publishes at
most one port and uses at most one volume; a partly written `container.json` or pid file counts
as absent, which is how its readers treat it; a foreign listener on a port, a full disk and a
bad ZyloFile are the failure of `CheckNetwork` and `CheckPorts`; PS, LOGS and the image and
volume requests run the sweep and then leave these variables alone. `NetOf[c]` may be `MainNet`,
which `checkNetwork` refuses, and that is why the release from `zylo0` never releases anything.

### How the network modules correspond to the code

A container is the goroutine of its UP request; `Main` is the daemon's main goroutine. In the order of the code:

    NetworkFile     CheckNetwork Open CreateNetwork              checkNetwork, CreateNetwork, SaveConfig
                    ReadGateway AddHosts WriteBaseHosts          addResolv, addHosts
                    AllocateIP Open SaveAllocation EnterHosts    IPAM.AllocateIP
                    ReadGateway End                              AttachNetwork, CleanupNetwork
                    Release Open SaveRelease CleanNetworks       InitCleanUp
                    SyncAllHosts                                 SyncAllHosts
    NetworkManager  CheckNetwork FindFreeSubnet SaveConfig
                    RestoreNetwork StartDNS Join End             checkNetwork, CreateNetwork, SetupNetwork
                    Release StartClean CleanNetwork              InitCleanUp
                    EnsureDefaultNetwork FindFreeSubnet ...
                    RestoreNetworks Serve                        Up (of the daemon)
    DnsServer       Ask GetCache Resolve Forward SetCache Reply  handleDNS, forwardOrFail
                    DeleteCache                                  the goroutine getCache starts

`HostsFile` keeps of a name or an address only which others it occurs in (`NameIn`, `AddressIn`), for that is all a
removal by substring depends on; its edits are single steps, as `hostsMutex` makes them. `NetworkManager` abstracts an
address to the subnet of its gateway. `RestoreFails` is every early return of `restoreNetwork`, after what has been done
by then, and `faults` counts those the kernel causes. `Crash` is a death of the daemon, `Reboot` of the host: the kernel
forgets bridges, addresses and links, and `/var/lib` does not forget the files. `DnsServer` counts time back
(`age` of an answer, `left` of an entry); a handler takes no time next to the TTL unless it waits for 8.8.8.8, so
`Tick` happens only while every query waits there or none is under way.

### How DaemonControl corresponds to the code

A daemon and a `down` are processes, and every action is one of their system calls: `OpenPidFile`, `WritePid`
(`os.WriteFile`), `RemoveSocket`, `Listen`, `Chmod`, `CloseListener` of `zylod up`, and `DownRemoveSocket`, `ReadPid`, `Kill`,
`RemovePidFile` of `zylod down`. Each may be killed between any two. A pid is its process.

### Allocator and who implements it

`Allocator` is the promise the code makes again and again in different words: a name, an address, a subnet belongs to at
most one client; it is taken while free; it stays with a client that uses it. `sound` says until when.

| Module | client, thing | using | sound until |
|---|---|---|---|
| `NameRegistry` (`NamesAllocated`) | container, name | holders of a name that have not ended | calls overlap, or a daemon dies inside a write |
| `NetworkFile` (`AddressesAllocated`) | container, host number | containers with an address that run | UP requests overlap, or a daemon dies inside a write |
| `NetworkManager` (`SubnetsAllocated`) | network, subnet | networks in which a container runs | UP requests overlap |

The mapping reads a file that is being written as its writer will leave it. A step of the implementation is then one
`Take`, `Use`, `Leave` or `Drop`, or changes nothing: the specifications say that requests, deaths, boots and
reboots in any order do nothing else to what is allocated.

## Runs

Passing runs. `CHECK_DEADLOCK FALSE` is set in all but `DnsQueries`: a container is started once and the
bounds stop crashes, requests and commands, so every instance comes to an end (and the DOWN that hangs for
ever, below, is a liveness question). A DNS server never ends, and its run checks that it cannot.

| Run | Instance | Shows |
|---|---|---|
| `LifecycleRivals` | 2 containers with one port, volume and network, 1 client, all faults, 2 deaths; 1.0 M states | `Ownership` (the invariant of the proofs), `RecordedOwnsResources`, `ListedHasRootfs`, `RecordOutlivesProcess`, `BootReclaims` |
| `LifecycleLive` | 1 container, 2 clients that stop it, 1 death, fairness; 20 k states | `DownCompletes`, `ReapedIsReclaimed` |
| `NameRegistryCalls` | 3 containers (2 want one name, 1 has none), 1 client, up to 3 calls at once, 1 death; 253 k states | `UniqueNames`, `NoForeignEntries`, `LoadsAreWhole`; until the first overlap `NamesExclusive`, `NamesAllocated` |
| `VolumeRegistryCalls` | 2 containers on a named volume, 1 on a host path, 1 deleting client, disk faults, up to 3 requests at once; 2.0 M states | `UniqueVolumes`, `UsersHaveRun`; until the first overlap `NamedUseIsTracked` |
| `ImageRequests` | 2 starts, 1 pull, 1 deletion, 2 layers, faults, 1 death; 210 k states | `PublishedIsStable`; until the first overlap `LonePullIsComplete` |
| `NetworkFileStarts` | 3 starts of `mydb`, `db` and an unnamed container, entries of three lengths, two free addresses of which one is a prefix of the other, 2 deaths with boots, one of which may leave the hosts file empty; 457 k states | `AddressesDistinct`; until the first overlap `FileStaysWhole`, `HolderIsListed`, `StaleNamesReachNoStranger`, `AddressesAllocated` |
| `NetworkManagerBoots` | 3 containers in 2 networks, 3 subnets, 2 starts at once, 2 deaths or reboots, 1 failing kernel call; 188 k states | `MainSubnetIsOwn`; until the first overlap `ContainersKeepNetwork`, `NetworksAreWhole` (no failure), `SubnetsAllocated` |
| `DnsQueries` | 2 queries at a time, a container's name and a foreign one, types A and MX, TTL of one step, fairness; 682 k states, for ever | `KnownAreLocal`, `ServedWhileFresh`, `QueriesAreAnswered` |
| `DaemonCommands` | 3 daemons, 2 downs any number of times, 2 kills; 626 k states | `LoneUpTakesOver`, `LoneDownStops`, `LoneUpServes` |

Five modules carry a history variable `alone`: no two calls (requests, starts) have ever been inside
the component at one time. Nothing reads it except the properties that start with `alone =>`. They say
what the code gets right when requests come one after the other, through faults, deaths and boots, and
the properties without it say what survives any overlap. The difference is what the missing locks cost.
`DaemonControl` has `lone` and `stopped` in its place, since there it matters which command came last: they restart with every command, so that
its properties speak of an `up` on top of whatever overlapping, killed commands have left.

Why these bounds: every hazard in PROJECT.json that a property covers needs at most two containers that
compete and one goroutine that tears down; `LifecycleLive` has a third in the teardown. Two deaths
let a second boot meet the remainder of a first boot. Two free addresses for two containers
(`HostMax = 3`) make the second container reuse or exhaust; entries of different lengths leave a longer text
under a shorter one. Three subnets for zylo0 and two networks run out as soon as one is wasted. Two queries of one
name and type, one of another type and one of a foreign name make every pair that could meet in a cache entry; with a TTL of one step
entries expire under a query that waits. A third daemon starts on what two have left. Two layers tell a whole image from a part. The instances of `Lifecycle`
put every container on one user network; the refusals of the reserved network and of a container without NETWORK are
covered by the proofs, which hold for any `NetOf`.

Runs that end in a counterexample. Each checks one statement that a message, a comment or the project's
`README.md` makes and that the code does not keep; PROJECT.json has the quotation and the cause.

| Run | Statement that fails | Cause, in short |
|---|---|---|
| `LifecycleDownHangs` | `DownAlwaysCompletes` | `down` waits for a zombie whose parent is also in `down` |
| `DnsReplyRefused` | `ReplyIsForQuery` | a cached message goes out with the ID of the query it was made for |
| `NetworkResolverStale` | `RunningIsResolved` | the resolver looks into the configuration of the network's creation, or of the last boot |

Other behaviour of the code that differs from what it says, kept in the models and without a run of its own:

* `cleanup` passes the name to `UnregisterName`, which expects an ID (`internal/container/lifecycle.go:252`);
  the `down()` that follows repairs it unless a sweep has removed `container.json` first. Then the name stays taken.
* `CleanupNetwork` releases from `zylo0` only (`internal/container/network.go:219`), where no container may
  live: addresses come back at a boot, not at the end of a container.
* A port is checked against recorded containers and published seconds later (`internal/container/ports.go:14`):
  two starts in between share it.
* `addResolv` looks up the network `""` for a container without NETWORK (`internal/container/setup.go:138`), so the
  example ZyloFile of the project's `README.md:104` fails.
* `Up` returns when the container has ended (`internal/container/lifecycle.go:70`), and then the server
  answers "Container started successfully" (`daemon/server.go:79`).
* The name registry is unlocked between load and save (`name/name.go:98`, `:116`): overlapping calls give a name twice
  or lose an entry. Dropping `alone` from `NamesExclusive` or from the `sound` of `Allocator` shows how; likewise
  for `network/ipam.go:48`, where two containers get one address, and `network/manager.go:142`, where two networks
  get one subnet.
* A container whose daemon died between `cmd.Start` and the write of the pid file lives on without one, and the boot
  clean-up removes its rootfs under it as "dead" (`daemon/cleanup.go:49`).
* A start that fails after `AddPortForward` and before `container.json` leaves its rule, which shadows that of the next
  container with the port (`internal/container/runtime_cleanup.go:76`).
* A file of a network that a death has torn makes every later boot dereference nil (`daemon/cleanup.go:188`).
* VOLUME_DELETE looks at the users before `run` has marked the volume, and removes the data directory of a container
  that has mounted it (`internal/container/volumes.go:64`).
* The lock of a pull is looked for and written in two steps (`api/image.go:40`): two pulls share one tmp directory
  and publish a part of the image.
* The start of a container without NAME removes every line of its network's hosts file, for `""` occurs in each; the start or
  end of `db` removes the line of `mydb` (`hosts/manager.go:59`, `:101`).
* `cleanNetworks` deletes a bridge and leaves its veth pair; the bridge of a network of that name created later is
  never attached to `zylo0` (`network/utils.go:73`).
* `EnsureDefaultNetwork` leaves a `zylo0` alone whose bridge exists, be it without its address (`network/manager.go:60`).
* DNS replies of other types are cached and never looked up (`network/dns/resolver.go:57`).
* After two ups, `zylod down` stops the second daemon; the first runs on, out of reach of clients and of any later
  `down` (`daemon/socket.go:35`). A `down` killed after its first step leaves a daemon that no `down` stops, because the next one
  ends at the missing socket (`daemon/daemon.go:66`).
* Volumes given by a host path all have the name `""` (`volume/volume.go:15`): the second is never registered. Nor is a named volume whose
  directory is registered as a host path (`volume/volume.go:18`): its users are not tracked, and VOLUME_DELETE removes it under them.
* A daemon that dies in a pull leaves the lock file (`api/image.go:44`), and every later pull is refused.
* An image is deleted under a container that has mounted it and is not listed yet (`image/delete.go:28`).

### Fairness

`FairSpec` assumes weak fairness of each goroutine (`Step(a)`) and of the boot. The Go scheduler
runs every runnable goroutine, `time.After` and the ticker fire, and `cmd.Wait` returns once the child
has ended. No fairness is assumed of what nothing in the code forces: a request, the end of a container's
process (it may ignore SIGTERM for ever, and `Timeout` must do its work), the death of the
daemon, or an operator who starts it again. Hence `DownCompletes` allows for a death, which puts
the client back to `idle`, and it is limited to containers somebody will reap: `LifecycleDownHangs` is
the remaining case.

`DnsServer`'s `FairSpec` assumes weak fairness of each handler, a goroutine whose only wait is the exchange with 8.8.8.8, and that ends
within `client.Timeout` (5 s) with an answer or an error. Nothing is assumed of clients, of deletions or of time.

## Proofs

TLAPS checks these for all values of the constants, under the assumptions the modules state:
actors are distinct, the bounds are natural numbers, constants that stand for "none" or "absent" differ from all values (and, for names, no container is called by
another's ID), and the JSON text of a network has a positive length, whatever the length of its entries (`LengthOf`). One theorem has a hypothesis of its own,
`NamedOwnPath` of `VolumeRegistryProofs`.

*`LifecycleProofs`.* `TypeCorrect` is inductive by itself. `RecordedOwnsResources` is not: that a recorded running
container keeps its address depends on nobody being about to remove it. `Ownership` adds what every goroutine
knows at its control point:

* `Acquires`: a container before `Start` has all that the steps behind it acquired, and no process;
* `Keeps`: from `Start` to `cmd.Wait` the process exists and owns everything;
* `TakesFromGone`: whoever is about to remove something (a sweep that saw a dead pid, a `down` past
  its wait) works on a process that is `gone`, and `gone` is for ever;
* `BootsAlone`: the boot clean-up runs while no goroutine does, on containers without a live pid;
* `AddressesApart`: two containers of a network have different addresses, so that removing one's
  rule cannot remove the other's.

The proof has one step per action and under it one per conjunct the action can disturb. `CleanupKeepsOthers`,
`WorkIsServed` and `RuleAppended` are the lemmas used throughout. `RecordedContainersKeepResources` and
`ListedContainersHaveRootfs` are conjuncts of it; `RecordsOutliveProcesses`, an action property, follows because the only
steps that shorten `rt[c]` are those of `TakesFromGone` and `BootsAlone`.

`BootsReclaim` is an action property too: what must be true of the disk when the boot ends. It follows from `Reclamation`, proved on top of `Ownership`. Outside
the boot, whoever removes a rootfs has removed mark and name before (`UnmarksFirst`, `PurgesFirst`), so that both always have a rootfs (`TracesHaveRootfs`); that nobody
marks or names the container again in between is `TakesFromGone` (it is gone) against `Acquires` (who marks has no process yet). In the boot each pass
has left nothing behind among what it has visited (`RuntimePass`, `RootfsPass`). A process may end, and the daemon die, at any point of either pass.

*`NameRegistryProofs`.* `UniqueNames` looks hopeless without a lock across load and save, and holds all the same: each
saved copy is some earlier registry plus an entry that was absent from it, or minus some. To see that no entry
appears for a refused container one needs `Registering` (a call to register is made by the container itself
while it starts) and `EnteredBySelf` (while it starts, its ID occurs only once it has passed the check). `TornHasWriter` gives
`LoadsAreWhole`. Together they are `RegistryInvariant`, which `NameRegistryCalls` checks as well.

`NamesExclusive` and `NameStaysRegistered` need to know why no copy on its way to the file forgets a holder.
`SerialInvariant` says so: there is one call at a time (`OneCall`), one that removes entries works for a container that
has ended (`EndsTheEnded`), so the file and the copy contain every holder (`HoldersEntered`, `HoldersCopied`), and a
file torn by a death is never written again (`TornForGood`). `SerialRegistry` proves it on top of
`RegistryInvariant`; at the end of a save two holders of one name would be two entries of a copy whose names are unique.

`RegistryAllocatesNames` says that `NameRegistry` implements `Allocator`. The mapping sees the file as
the writer in progress will leave it (`Settled`), so the abstract step is the one that opens the file, and writing it,
ending the call and every read must be stutters. That needs one more invariant, `CopiesAreEdits`: while sound, a copy
on its way to the file is the file plus the entry of its own container, which has none and whose name is free, or the file without the
entries of one that has ended. `EditsPreserved` proves it, `PairsOfMore` and `PairsOfFewer` turn it into a `Take` or a
`Drop`, and `SoundBefore` lets every step assume the promise still stands. The proof of `StepAllocates` has one step per action.

`AllocatedNamesAreExclusive` then carries what any allocator guarantees (`Allocator`'s `Exclusive`) over to the registry.

*`VolumeRegistryProofs`.* As for names, uniqueness survives without a lock because it is a property of each copy: `Added`, `Removed`,
`MarkedEntries` and `UnmarkedEntries` say what the edits return, `CopyMade` and `CopySaved` what a step does with the result. `UsersHaveRun` needs more than
the registry: a stale copy is written at any later time, so a container that is a user must remain one that has run, which `PhaseFits`
(where a request is tells what its container has been through) and `StageMoves` show for every step.

`NamedUseIsTracked` is proved under `NamedOwnPath`: two volumes of which one is named have one path only if they have one name. `setVolume` derives the path of a
named volume from its name, so this says that nobody gives that directory as a host volume as well; the code does not refuse it, and then the
property is false without any overlap: the host volume is registered first, the named one is refused for its path, its users are never recorded, and a
deletion removes their data. The invariant is `SerialVolumes`: one request at a time, every user on the list in the file and in the
copy about to be saved (`UsersListed`), an UP that finds its volume registered when it marks it (`UpFit`), and a deletion past its first
look working on a volume that nobody runs with (`DeletesUnused`). `VolumesKnown`, which needs no serial requests, says where entries come from.

*`ImageStoreProofs`.* `LonePull` says what a pull without a rival knows: the image is absent from its second look to the rename, and tmp has exactly the layers before
the next one (`Before`). A death between two steps leaves a tmp directory of any contents, and `ClearTmp` is why that does not matter.
`FinalWriters` reduces both action properties to the rename and the deletion.

*`NetworkFileProofs`.* `FileInvariant` holds however the unlocked readers and writers overlap. Its heart is that an unreadable file gives no addresses and a readable one gives
one text of its writers, whole: so `AddressesDistinct`, of the file and of every copy, survives torn writes, because every copy starts as what was
read, plus a number that was free in it (`FreeIsDistinct`) or minus one. What overlap does lose is an allocation, which is why the rest is about starts one at a time.

`SerialFile` says what is true then, through deaths and boots. The file is whole or somebody has it open, and a copy on its way to it is an edit of what the file had
(`EditsFit`), so a container has the address it was given from the write to its end (`AddressesFit`); a file torn by a death is never written again
(`TornForGood`). `LinesFit` bounds what a line left behind may lead to, and `HoldersListed` follows the line of a container through its start, and through
the boot, which writes the hosts file anew. `FileIsWhole`, `HoldersAreListed` and `StaleNamesAreHarmless` are its consequences. `FileAllocatesAddresses` is the refinement
of `Allocator`: as for names the mapping sees the file as its writer will leave it, `OpenTakes` and `OpenDrops` turn the opening for an allocation or a release into a `Take` or
`Drop`, and `WriteSettles` and `SettledStays` make every other step a stutter.

*`NetworkManagerProofs`.* Three invariants. `NetInvariant` holds however creations overlap: nobody creates a network before the daemon
serves (`Booting`), and a subnet found free by an UP is not that of zylo0, one found by a boot is still free (`Picking`); `MainSubnetIsOwn` is
its last conjunct. `SerialNets` holds until the first overlap: one creation at a time (`OneStart`), distinct subnets (`SubnetsDistinct`),
bridges that answer for the subnet of the file or for none (`BridgesMatch`), a starting container that knows its network and a running one
that is in it (`StartKnows`, `RunningHas`). `NetworksAreKept` follows, and `NetworksTakeSubnets`, the refinement of `Allocator`: a saved file is a
`Take` of a pair that is free (`SaveTakes`), a deleted one a `Drop` of an unused pair (`DeleteDrops`), and boots, deaths and reboots are `Leave` or nothing.
`FaultFree` holds until the first overlap or failing call, on top of both: a bridge serves the subnet of its file and no other (`BridgesServe`), a DNS server that of its network
(`ServersMatch`), the boot has made whole every network it has got to (`RestoredAreWhole`), and a start the one it has made (`ServedAreWhole`). `ServedNetworksAreWhole` is its last part.

*`DnsServerProofs`.* `CacheInvariant` relates the cache to time. Only queries for an address look into the cache (`QuestionsAsked`); what is cached or
under way for a name the resolver knows is the resolver's answer (`LocalAnswers`); the age of an entry's answer and the time it has left add up to
at most the TTL (`FreshAnswers`), which `TickPreserves` shows for a step of time. A late deletion only removes, so it harms neither.

*`DaemonControlProofs`.* `LoneInvariant` says what socket and pid file hold at each step of an `up` (`LoneStart`) and of a `down` (`LoneDown`) beside which no other command
runs (`LoneCommands`), and after a `down` that succeeded (`Stopped`). It holds on top of any files earlier commands have left, so
`UpTakesOver`, `DownStopsIt` and `UpServes` are about every later lone command, not about the first.

Every invariant, action property and refinement that a passing run checks is proved. Only model-checked are the liveness properties `DownCompletes`,
`ReapedIsReclaimed` and `QueriesAreAnswered`, since TLAPS cannot reason about fairness and ENABLED. The invariants used in proofs were
checked by TLC on the instances above before they were proved. No module declares a RECURSIVE operator. The length of a network's file is a constant
function, `LengthOf`, whose instance adds up entries by a fold: the proofs need no fact about the sum.

## Not modelled

* Reuse of pids; a reboot of the host in `Lifecycle` (it empties `/var/run` but not `/var/lib`; `NetworkManager` has it); the
  veth pairs of containers.
* A full disk under the pid file, and pids of different lengths, in `DaemonControl`.
* The requests of two daemons at once on one set of files: `DaemonControl` shows when two serve, the registries have one daemon.
* UDP and TCP apart, the parsing of a question and a query without one; upper and lower case of names; iptables rules of
  networks, which every restoration sets again; failures of calls whose error the code ignores.
* `zylod status`, which only connects; `DNS.Stop` and `CreateDefaultNetwork`, which nothing calls.
* Client, command line, heartbeat, listings, exec, log files: they print, and change nothing that is shared.
* The ZyloFile parser beyond what it puts into the configuration. Two differences from the
  project's `README.md` were seen on the way: VOLUME is documented as `host:container` and parsed as
  `container:host` (`internal/container/zylo_file.go:136`), and `down -name` does not exist.

## Plan

1. Done: `Lifecycle`, `NameRegistry`, `VolumeRegistry`, `ImageStore`, `NetworkFile` with `HostsFile`, `NetworkManager`, `DnsServer`, `DaemonControl`;
   `Allocator` as what three of them implement; every safety property and refinement proved.
2. Safety facts behind the liveness properties: a container that has been reaped is in the list of somebody who will remove its directory.
3. Ports in `Lifecycle`: with a history variable as in the registries, one port has one container as long as starts come one at a time.
4. A container seen from outside (absent, starting, running, ended) that `Lifecycle` implements.
5. Two daemons that serve at once on one registry, the composition of `DaemonControl` and `NameRegistry`.
