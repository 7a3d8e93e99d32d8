# multibird: TLA+ models, TLC runs and TLAPS proofs

multibird runs several NetBird daemons side by side, one per mesh. It is a
command-line program without a lock and without a server: every command is a
process that reads a TOML file, talks to a detached `netbird service run` over a
unix socket and writes files, pid files and (on macOS) dynamic-store DNS keys.
What makes it hard is therefore not in any single function. It is what happens
when a command is killed between two system calls, when one of several calls
fails, and when two commands (or a command and the DNS watcher) interleave.
These modules model exactly that.

## Inventory

| component | state | operations | module |
|---|---|---|---|
| instance registry (`internal/instance`, `Load`/`List`/`Add` of `internal/ops`) | `<root>/<name>/instance.toml` | Add, Load, List (both migrate), Save, NextIndex, Remove, purge | `InstanceStore`, abstract `Registry` |
| lifecycle (`internal/ops/ops.go`, `set.go`) | TOML record, netbird's `config.json`, daemon, engine, DNS keys | Up, Down, Remove, Nuke, Set, Status | `Lifecycle` |
| daemon supervision (`internal/daemon`) | processes, pid file, socket | Start, Stop, Nuke, Running | `DaemonProc` |
| DNS watcher (`internal/ops/dns.go`) | two goroutines, channel, timers | DNSWatch, DNSSync | `DnsWatch` (and `Lifecycle` for its interplay with the commands) |
| DNS derivation and key layout (`internal/hostdns`, `platform/scutil.go`) | none | Derive, ResolverAddr, ReverseZone, batchDomains, hostDNSKeys | `HostDns` |
| DNS registration (`platform/platform_darwin.go`) | dynamic-store keys | ApplyHostDNS, RemoveHostDNS | `HostKeys` |
| preflight (`internal/preflight`, `ops/preflight.go`) | none; snapshots of running daemons | IPRangeConflicts, RouteConflicts, DNSConflicts, `up --strict` | `Preflight` |
| netbird | config.json, engine, event stream | external | in each module, marked external |
| self update (`internal/selfupdate`, `upgrade`) | the binary, `<binary>.new`, GitHub's releases | LatestRelease, Apply | `SelfUpdate` |
| versions (`internal/version`) | none | Compare, InTestedRange | `Versions` |
| boot persistence (`internal/persist`, `install`, `uninstall`) | unit files, what systemd or launchd has enabled, loaded and running | Install, Uninstall, InstallDNSWatch, UninstallDNSWatch | `BootUnits` |
| logs (`ops/logs.go`) | position in the daemon's log | Logs | `Logs` |
| doctor (`ops/doctor.go`) | none | Doctor | operators `Collide` (`InstanceStore`), `Leftovers` (`DaemonProc`), `InTestedRange` (`Versions`), `conflictsInvolving` (`Preflight`) |
| peers, nbcli, Linux platform, tui | | | not modelled (see the end) |

How they interact: commands share state only through files, the process table,
the daemon and the dynamic store. Nothing is locked. Each command loads the
record once and works on its copy; `Save` writes the whole copy back. The
watcher is a long-running command whose goroutines hold the copy they started
with. RPCs fail when the daemon is gone, and every multi-call operation has
error returns between its calls.

What correctness means here: indexes and ports are unique; a removal removes
only what it names; the engine never runs on netbird's defaults; a recorded
login is backed by `config.json`; keys exist only for a live daemon in multibird
mode, describe one mesh state, and stay inside the mesh; the pid file names the
only daemon; the watcher converges; strict ups never leave two overlapping
meshes up; the binary is complete, verified and never silently older; what
install promises holds at every boot and uninstall reverses it; a followed log is
printed once and in order. `PROJECT.json` lists the hazards at their lines, each with the
properties that would catch it.

## Modules and their correspondence to the code

Each process has a program counter `pc`; a label stands before a system call or
RPC and an action is the code from there to the next one. The actions carry the
names of the code's functions and `PROJECT.json` maps each to its lines. Operators
marked "Mutant" are wrong variants of the definition after them; no
specification uses them. They show that the properties can fail.

**InstanceStore** has the directories, for each name the file (`absent`, `empty`,
`corrupt`, `ok`) and what it decodes to. A save is two steps, `SaveOpen`
(O_TRUNC) and `SaveWrite`. An empty file decodes to the zero Instance, whose path
is the config root; paths come from the *loaded* name, as in `DeriveParams`.
Every error path that ends the command is `Exit`; a failing write is the same as
a kill (`Crash`); `mayCrash`, chosen at first, says whether there are any. **Registry** is
what callers expect, one atomic map; `IsRegistry` is the refinement, and speaks of stores
without kills (of the others the mapping shows nothing). The mapping reads the file being written as what is written, and
an unmigrated record as its migrated form.

**Lifecycle** has one instance and all commands, one action per call of the code.
The record is one value, `daemon.Start`/`Stop` one step (the other modules have
their details). `faults` says which calls may fail; an RPC that fails may have had its
effect, when the reply is lost or the daemon dies before it answers (`ReplyLost`).
`drift` is a history variable: it holds `settings` while config.json has changed since the
TOML last did, and `login` once config.json has lost the registration the TOML records. The
outcome of preflight is nondeterministic here. What is assumed of netbird comes from the comments in
`ops.go` and `client.go` and from the integration test: Login creates
`config.json` with the default port, SetConfig only updates one, Up needs a
registered one, a booting daemon creates a default one, an engine does not start
by itself. (The comment at `client.go:44-46` puts SetConfig before Login; `Up` does it
the other way round and says why. The model follows `Up`.) A set whose settings do not
change may or may not need the daemon: the code compares the raw override, so an
override equal to the derived port counts as a change.

**DaemonProc** has the process table (with zombies and strangers that get a freed
pid), the pid file and the owner of the socket path. A CLI that is alive is the
parent of what it spawned. The pid file is written in one step: reading it while it is
truncated is the same as having none, or as having a stale one whose process is gone. When `Nuke` may not kill, it may not remove the files of the daemon's
owner either, which is a `Crash`.

**DnsWatch** has the watcher loop, its receiver goroutine, the channel of capacity
`Cap`, debounce and poll timers, and a daemon with a numbered DNS state. From the states
in `Unusable` nothing can be derived (the engine has no address, or a nameserver group
claims all of DNS): a sync then leaves the keys alone, for as long as the mesh stays
so. The mesh may change without an event. `select` picks any ready case.

**HostDns** is pure: prefixes of `Width` bits, reverse zones in octets of `Octet`
bits, domain batching. **HostKeys** runs `ApplyHostDNS`/`RemoveHostDNS` over a
store of keys, one scutil command per step. **Preflight** runs several ups with
the three checks over snapshots taken one daemon at a time; when the instances cannot be
listed the check is skipped (`SkipPreflight`).

**SelfUpdate** has GitHub's releases (each an archive and a checksums.txt that are
uploaded one after the other), the files of the binary's directory as inodes, and
any number of `upgrade` processes. An archive is good, without a multibird in it,
or damaged; a digest is what it is the digest of. `os.WriteFile` is an open with
truncation and a write, so two upgrades meet in the `.new` file. Between the rename and
the message (`Report`) the process may still be killed. `overlap` (chosen at
first) says whether they may. **Versions** is the comparison; a version is its
numbers and whether a suffix follows.

**BootUnits** has the unit files, what the service manager has enabled and loaded,
and its jobs, for both systems. Names are sequences of their parts between hyphens,
because the paths are built by joining such parts: that is how two names can have
one unit. systemctl and launchctl calls are external: a call that succeeds has its
effect, one that fails may have it. `Reboot` may come at any moment; what was written
before it is on the disk, although the code does not fsync (a power cut that loses a
written unit file is not modelled). `want` is what
the last command has said about a unit (`yes`, `no`, or `unsure` while a command
changes it or after one that failed).

**Logs** has the log as an inode that grows, is truncated or renamed, and the
command's open file and position.

`doctor` changes nothing. Its checks are operators over the states of the other
modules, and the properties use them: what it reports about ports and leftovers is
what can really be there.

## Runs

`MC*` modules hold the small instances; DnsWatch and Logs need none. `pass` runs must
hold, a `violation` run shows a disagreement between the code and one of its own
comments or documents, quoted in the `findings` of `PROJECT.json`.

| run | question | result |
|---|---|---|
| StoreSerial | one command at a time: is the store the atomic registry while none is killed; with kills, are the complete files' indexes unique, the files where they belong and derived ports distinct, as doctor checks them? | holds |
| StorePurge | does a purge delete only its instance after a kill? | violated: the whole root |
| LifeSerial | one command at a time, three sets of faults: the engine never on the stock port; login ⇒ config = TOML unless config.json changed last; keys only with daemon and mode; a successful down is complete | holds |
| LifeProgress | commands end while daemons die, or hang in a call without a deadline; the watcher cleans up | holds |
| LifeResurrect | can only add create an instance? | violated: an up's save after a remove |
| DaemonSerial | pid file, socket, stop, nuke with reused pids, dying daemons and kills | holds |
| WatchSync | eventual convergence despite drops, restarts and failures | holds |
| KeysSerial | keys = one registration, within limits, inside the mesh; half-run scripts heal; reverse lookups arrive | holds |
| UpStrict | concurrent strict ups: no overlap of addresses, routes, group domains; no refusal without a reason; the probed address is contested | holds |
| Upgrade | upgrades with failures, kills, changing releases: the binary complete and verified, never older unless forced, the report true | holds |
| Boot | install and uninstall with failures, kills, power cuts, on systemd and launchd: install holds, uninstall reverses, dns-watch comes back | holds |
| Logs | tail and follow next to writes and truncations: order, no gap, keeps up | holds |

### What the properties assume, and what happens otherwise

What may go wrong is chosen in the initial state (`faults`, `flaky`, `mayCrash`,
`world.faults`) and never changes, so that one run covers several environments and a
property can say of which of them it speaks (`Never(...)`). The premises are kept
small. Taking one away, or setting `Serial = FALSE` with two processes, gives
a counterexample; two of these are `violation` runs:

- *Store.* Two adds at once list the same instances and take the same index
  (`UniqueIndex` with `Serial = FALSE`). A file cut short loads as index 0, so
  doctor may report a port collision that is none (`DerivedPortsDistinct` excepts it).
- *Lifecycle, kills.* RemoveAll may have removed config.json and not the TOML: the
  login is recorded, `up` never logs in again (`ConfigMatchesStore`). Nuke killed
  between daemon and keys leaves keys without a daemon (`KeysAreCurrent`).
- *Lifecycle, failing calls.* Set that cannot save after SetConfig, or whose SetConfig
  fails after it took effect, leaves config.json ahead of the TOML: `ConfigMatchesStore`
  speaks of config.json only while it has not changed after the TOML (`drift`), and says that
  there is no other way to disagree. An error after Set started a daemon leaves
  it running, although set.go:24 says that Set "stops it again"; keys that Set could not remove when it left
  multibird mode survive a successful down (`DownIsComplete`).
- *Lifecycle, netbird.* `EngineIsolated` assumes that a booting daemon does not start its
  engine by itself (it would run on whatever its config.json says at that moment), and
  that `set --wireguard-port 51820`, which the code accepts, is not used: `StockPort` is
  not in `Ports`.
- *Lifecycle, hanging calls.* Login, the SSO wait, SetConfig, Up, Status and the strict Down
  of `up`, and SetConfig of `set`, are sent with the command's own context and no
  deadline (`NoDeadline`): a daemon that lives and does not answer blocks the command.
  `CommandsFinish` says that there is no other place where a command can wait for ever.
- *Lifecycle, two processes.* An up past its login, while others purge, add and log in
  again, starts the engine on netbird's defaults (`EngineIsolated`); up or status write
  keys from an answer older than a down, and a watcher keeps the mode it started with
  (`KeysAreCurrent`); it removes keys once per outage and not those written
  afterwards, or that it could not remove (`WatcherCleansUp`). Save writes the whole
  record loaded at the start and creates the directory if it is gone (ops.go:327), so
  a status or up that overlaps a remove brings the instance back (run LifeResurrect;
  ops.go:254 says that Remove "deletes multibird state").
- *Lifecycle, strict.* up registers the host DNS keys (ops.go:193) before preflight,
  and a strict refusal only calls `c.Down` (ops.go:205): the keys stay and lead into a
  tunnel that is gone, although ops.go:108-109 says that a conflict "brings the instance
  back down".
- *DaemonProc.* Two ups spawn two daemons and record one; a kill between spawn and pid
  file leaves a daemon no command finds (`DaemonIsReachable`). A daemon that exits before
  the CLI that spawned it is a zombie, in spite of the comment at
  `daemon.go:65`, and counts as alive; so does whoever has a recorded pid, and gets the
  signals of stop and nuke.
- *DnsWatch.* A removal that fails is not tried again before the daemon is back
  (`EventuallyInSync`). While the mesh has no usable state the keys of an earlier one stay.
  The event dropped from a full channel may be the only one that
  asked for a sync, unlike the comment at `dns.go:177` says; the poll makes up for it.
- *HostKeys.* Two calls for one instance can leave keys of two registrations
  (`OneSpec`). The zone of a network that does not end at an octet covers a part of it
  (`PtrReachesMesh`). The resolver derived for a network of a single address is the
  address before it, outside the network (`KeysStayInMesh` excepts it).
- *Preflight.* An engine still connecting has no address and no routes yet, so a strict
  up passes, and nobody looks again; so it does when the instances cannot be listed or Status
  fails. `StrictKeepsApart` speaks of worlds without these. Peer domains are not compared. An instance without
  domains, or without an engine, counts as one that claims all of DNS, and a strict up
  next to it may be refused (the second disjunct of `RefusalIsJustified`); so may one
  next to an instance with `disable_dns` in a file that nobody has migrated since
  multibird was upgraded, because `Store.List` does not migrate. DNSDomains
  flattens the groups (client.go:183): a route-all group disappears behind any group
  that has domains, and two meshes that both claim all of DNS pass, although
  hostdns.go:38-39 says that preflight enforces "at most one".
- *SelfUpdate.* Two upgrades share `<binary>.new`: one empties what the other is about
  to rename, and binPath is a torn binary (`BinaryIsWhole` is about one at a time). Each
  decides by the version it was started with, so the slower of two may go back
  (`OnlyForward`). A pre-release such as 0.3.0-rc1 counts as 0.3.0 and is told that it is
  up to date (`CurrentIsNewest` excepts it); --force and versions that are not x.y.z
  are not compared.
- *BootUnits.* On Linux the boot unit of an instance `dnswatch-home` and the dns-watch
  unit of `home` are one file (`Shared`): installing or removing one replaces or removes
  the other. Remove and `set --dns-mode` do not look at the units. Under systemd a
  dns-watch that ended well (at boot the instance was in another mode) is not started
  again (`Watched`). A boot unit runs `up` once; nobody retries it.
- *Logs.* After a rotation by rename the follower goes back to the start of the file it
  has open, the old one, prints it again and never sees the new one, although
  logs.go:13-15 says that it reopens. A log that is truncated and grows past the
  old size within half a second is taken for the old one, and its first lines are not
  printed (that is why `NoGap` is about a log nobody rotates, and `KeepsUp` speaks of the
  position and not of lines).

### Bounds, and why they are enough

- Store: three names, so that an index can be freed below others and taken again;
  the seeds are the empty store and a pre-`dns_mode` one with both legacy values.
  The runs are serial; what holds without a lock is proved (`NamesMatch`).
- Lifecycle: two ports and the stock port; native and multibird modes (`disabled`
  differs from native only in the DNS switch). Serial commands need one process,
  the watcher a second. `LifeProgress` leaves out the commands that add no new wait
  (strict, sync, sweep, remove, purge) to keep the liveness graph small.
- DaemonProc: three pids, so that two daemons and a stranger coexist. One process:
  with one command at a time a second one differs in its name only.
- DnsWatch: `Cap` 2 for the code's 8 (full and non-full both occur), at most two
  changes of the mesh, one of its states unusable, two restarts, one failing call. `CHECK_DEADLOCK FALSE`: a
  cancelled watcher stops.
- HostKeys: 4-bit addresses in 2-bit octets, networks on and off the octet
  boundary, two domains or four bytes per key, so that one mesh needs several
  keys and another one. `BytesOf` counts labels, not characters; only the sums
  matter to the batching. Calls for one instance do not overlap, those for two do.
- Preflight: 3-bit addresses; equal, nested and disjoint
  ranges and routes, selected or not, in any spelling of a domain, enabled or not;
  an instance that is up since before its file had a `dns_mode`.
- SelfUpdate: two processes, three inodes (the binary, `.new`, and one a process
  still has open), two releases that strings would order the other way round, and
  starts from a pre-release, a two-part version and a source build; one change of
  the releases. Processes and inodes are symmetric. `CHECK_DEADLOCK FALSE`: a torn
  binary cannot be started any more. More of everything is proved.
- BootUnits: one name alone, and two that share a path under systemd.
- Logs: six lines, written one or two at a time, `--tail` 0 and 2; two inodes, the
  open one and a new one. `CHECK_DEADLOCK FALSE`: the command ends.

### Fairness

- `Lifecycle`: a process takes its next step (`GoesOn`) unless it is killed or is in one
  of the calls of `NoDeadline` while the daemon lives: the other calls have a deadline
  (WaitReady, Down, Status and the watcher's sync), and a dead daemon ends all of them.
  Nothing is assumed of the daemon, which may never finish booting.
- `DnsWatch`: the goroutines run; an error that is ready and the 60 s ticker are not
  passed over for ever (Go's select chooses uniformly). Nothing is assumed of the
  daemon: it may stay down.
- `BootUnits`: the service manager runs a job it has started (`RunJob`). Commands,
  boots and exits may never happen.
- `Logs`: timers fire and reads return (`LogsStep`); nothing is assumed of the daemon.

## What is proved

`InstanceStoreProofs` proves, for every finite set of names, every set of
processes, command lines and well-formed starting stores:

- `Types`: the type invariant, with any concurrency and kills;
- `SerialStore`, `Unique`, `PortsDistinct`: with one command at a time (`Serial`) and
  kills anywhere, indexes of completely written instances are unique, hence a
  collision of ports that doctor reports is one of a `--wireguard-port` or of a file
  that was cut short;
- `NamesMatch`: with any number of unlocked, killable processes, a file that parses
  holds the instance its directory is named after;
- `Refines`: with one command at a time and none killed, the store implements
  `Registry` (`Spec => IsRegistry`).

`UniqueIndex` is not inductive: it says nothing of the record a command is about
to write. `SerialInv` adds, for the one busy command, that its record's index
belongs to no other file (`OwnsIndex`), that the file it has open is the empty one
it truncated (`HasOpened`), that what `List` has loaded is still on disk
(`SeenIsCurrent`), and that an `add` has read, or still has to read, every file
(`AddSeesAll`) and found none of its own name, so that `NextIndex` of what it saw is
free. `NextIndex` is a CHOOSE; `LeastNatural` and `NextIndexFree` show by the
least-number argument that it chooses, and a free index. The proof has one step
per action, and under it one per conjunct the action can disturb. The assumptions
are those named in `InstanceStore`: names are finite and not empty strings, seeds
well-formed, command lines typed. TLC evaluates them in every Store run.

`Refines` maps `SaveOpen` to `Register`, `RecordLogin` or `Configure`, which changes nothing
when the record is only migrated; `ActRemove` and `ActPurge` to `Unregister`; `SaveWrite` and all
other steps to stutters (`AbstractStep`). It needs `RegInv` besides `SerialInv`: only the
file that is being written is empty (false once commands are killed, hence `~mayCrash`),
no command has the zero Instance in hand, and what is about to be written (`Proper`) is
a new instance with the lowest free index, or the one in the file with other settings or
with its login. That the index is the lowest is `NextIndexLowest`.

`SelfUpdateProofs` proves, for any number of upgrades, releases, archives and files,
`UpgradeInvariant` and from it `BinaryWhole`, `BinaryVerified` and the action properties
`Forward`, `Reports`, `Current`. `BinaryIsWhole` alone is not inductive: it says
nothing of the file that is about to be renamed. `UpgradeInv` adds that whole files
are good wherever they are (with overlap too: this is what verification before
writing gives), that a command past the comparison has chosen a newer release
(`Chosen`), and, without overlap, that the `.new` file belongs to the one command that
runs, empty while it is being written and whole from then on, and that binPath has the
version the command started from until the rename and the chosen one after it
(`OwnsNew`). Lemmas about
`cmp` show that comparing the first number that differs is the order `Newer`, which is
stated without it; `TestedRange` applies them to doctor's version check.

`BootUnitsProofs` proves `BootInvariant` and from it `Uninstall` and `Install`, for
every set of names and both systems. The invariant adds to the two properties what
the running command has established so far (`CommandInv`: the file it has written, the
unit it has disabled), that units name instances in use, and that without its file
no dns-watch runs (`NoFileNoWatch`), because `Uninstall` returns early when there is no
file. Assumed: names are sequences of strings; a successful systemctl or launchctl
call has its effect; install and uninstall commands do not overlap. That the two
units of one name have distinct paths is proved, not assumed.

`DnsWatchProofs` proves `WatchTypes` and `Cleaned` for every channel capacity and every
bound on changes. `CleanedMeansClean` needs that keys are written only while the
watcher does not believe in an outage: whenever it is past the check that the daemon
runs, `cleaned` is false.

`DaemonProcProofs` proves `DaemonTypes` for any number of unlocked commands, and with
one command at a time `Reachable`, `StoppedIsGone` and the action property `Forgets`, for
every number of pids and processes, with dying daemons, zombies, reused pids and, for
the types and `Forgets`, kills anywhere. `DaemonIsReachable` speaks of the time between
commands. `SerialInv` says what the one busy command knows at each of its labels: whose
label it is (`JobInv`), that what it is about to forget is dead or being killed
(`ForgetInv`, the part that survives kills), which daemons there can be besides the one
it spawned or stops (`KnownInv`), that the socket is that of the serving daemon
(`SockInv`), and what the last successful command has left (`RestInv`).

`LifecycleProofs` proves `LifeTypes` for any concurrency, and with one command at a time
(watchers may run next to it) `Isolated` and `ConfigMatches`, for
every set of ports, command lines, sets of faults and processes, RPCs included that
fail and have had their effect. `EngineIsolated` is not
inductive: it depends on the order Login, SetConfig, Save, Up. `StoreInv` says that a
recorded login makes a registered `config.json` an isolated one, `CopyInv` that the
busy command's copy is what the TOML holds (but for what it is about to save) and that
Up starts the engine only with a login on record. `ConfigInv` says that a config.json which
has not changed after the TOML agrees with it (`WholeInv`, `AgreeInv`), and that what Up
(`SaveInv`) and Set (`PushedInv`) are about to save has been pushed to config.json. `KeysCurrent` and `DownComplete`
also assume that no watcher runs (`NoWatch`), as in run LifeSerial: next to one they are
false, because it may write keys from an answer older than a down. Their invariant
`KeysInv` says at which labels keys must be gone already and the daemon still be there.

`LogsProofs` proves `LogsTypes`, `PrintsInOrder` and `PrintsAll` for logs, tails and
writes of any length. `FileInv` says that the open file holds the lines written last,
numbered from `Base`; `OrderInv` that what was printed is out of the file by now or before
the position, which is what the seek back to the start after a truncation needs;
`GapInv` that on a log that only grows the printed lines end at the position.

`HostDnsProofs` has the theorems about `HostDns` and about both modules that use it,
because they rest on the same lemmas. Of Preflight, for addresses of any width and any
set of instances, meshes and processes:

- `ProbeInBoth`, `Contested`: the first address of the narrower of two overlapping
  networks is an address of both, hence so is what `snapshotRunning`'s caller asks the OS
  about;
- `RefusesForCause`: a strict up is refused only for one of the reasons
  `RefusalIsJustified` lists, whatever fails and whoever else runs;
- `StrictApart`: if the meshes that are up at first are apart and nobody runs a plain up
  (`Strict`: a plain up only warns, so with one the property is false), then strict ups
  and downs in any number and interleaving leave only meshes up that are apart. The
  invariant `ApartInv` says why no order of the snapshots can miss a conflict: of two
  meshes that are up and not apart, at least one has a strict up that either has still
  to look at both or has seen all of them. The later of the two ups lists the instances after
  its engine is on, and what it has seen does not go stale: a mesh does not change while
  it is up, and migrating a file does not change what it manages (`ManagesSame`).

Of HostDns, for addresses of `Width` bits in octets of `Octet` bits:

- `ResolverInside`: the resolver is an address of the network, if that has more than one;
- `ZoneInside`: the reverse zone catches addresses of the network only, and all of them
  if the network ends at an octet. The nibble zones of IPv6 are the same
  computation with `Width` 128 and `Octet` 4;
- `BatchesFit`: for every finite set of domains, `batchDomains` puts every domain into
  a batch, nothing else into any, and each batch keeps to both limits or is one domain.

Of HostKeys, for every set of instances, writers and Status answers:

- `KeysTypes`: the types, for any number of calls for one instance at a time;
- `OneRegistration`: with one call at a time for an instance (`Serial`; the calls of other
  instances interleave with it command by command) and scripts cut off
  anywhere, a finished call leaves exactly the registration of its Status answer, or nothing
  after a removal, whatever an earlier call left behind;
- `StaysInMesh`, `PtrReaches`: what is then registered names a resolver and a reverse
  zone inside the network, and the zone catches the lookups of a network that ends at
  an octet.

`OneSpec` speaks of the time between calls. `KeysInv` follows the script: for each key of
the instance, the last command still to come about that key gives it the value it should
have, or there is none to come and it has that value (`Pending`; this needs that removals
precede the sets and that no key is set twice); two writers never have the same instance
(`Alone`); and keys are as they should be when nobody writes (`Settled`). A call
that was cut off leaves keys of any kind, and the next one starts from the keys it lists, so
nothing has to be known of them but that they are keys the model has (`KeysTypeInv`). TLC
has checked `KeysInv` as an invariant too, in full for one instance. Assumed (`MeshesAssumption`,
`KeysAssumption`): addresses have `Width` bits, answers have finitely many domains and
the bound `MaxKeys` is large enough for every registration.

Underneath are lemmas about prefixes: `Masked` cuts at a power of two, masking twice
is masking once with the shorter length, and `Overlaps` holds exactly if there is a
common address (`CommonOverlaps`, `OverlapsCommon`). The provers know nothing of `2^n`:
`TwoExp` takes it from the number of subsets of a set of n elements. Nor can they use the
library's induction theorems, which have an operator as a parameter. `PowerSum` and the
facts about `batchDomains` use induction in the form of least elements of sets of numbers
(`WFMin`, `Induction`): the loop is a recursive function of the number of domains
consumed, `LoopExists` shows that such a function exists, `BatchStep` that one
iteration (`addDomain`) keeps the loop's invariant. `Bytes`, by which `OneSpec` measures a batch,
is a cardinality and not the loop's own counter; `BytesAppend` relates them.

Only model-checked: liveness (`CommandsFinish`, `WatcherCleansUp`, `EventuallyInSync`,
`WatcherComesBack`, `KeepsUp`), which this prover does not do. Every invariant and every other action property of the passing runs is a theorem above.

## Plan

Done: store, lifecycle, daemon, watcher, DNS derivation and keys, preflight, self
update and versions, boot units, logs, doctor's checks; proofs of all safety properties.

Left: the IPv6 reverse zone of a dual-stack peer as a second zone of `Derive`.

## What is not modelled

peers (one Status call per instance, printed), the construction of the netbird
command line, the Linux platform (no host DNS, read-only look-ups) and the TUI
placeholder; of doctor the stray keys, the run directory and the report; formatting,
JSON, wording and permissions of files; the setup key and its uses; `set
--netbird-bin`; the interface name (only that recording it saves the whole record);
IPv6; the text of units and the HTTP of downloads.
