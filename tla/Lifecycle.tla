----------------------------- MODULE Lifecycle -----------------------------
(***************************************************************************)
(* The life of ONE instance under the commands of internal/ops: up, down,  *)
(* remove, nuke, set, status, dns sync and the dns watcher.  Each command  *)
(* is a program of system calls and RPCs; several processes may run their  *)
(* programs at once, each on its own in-memory copy of the instance that   *)
(* it loaded when it started.                                              *)
(*                                                                         *)
(* Abstractions.  instance.toml is one value (module InstanceStore has the *)
(* files and the two-step writes).  daemon.Start and daemon.Stop are one   *)
(* step each (module DaemonProc has pids, pid file and socket).  The host  *)
(* DNS keys of the instance are present or not.  netbird itself, the       *)
(* config.json it owns and its engine, is external: what its RPCs do is    *)
(* taken from the comments and the use of the RPCs in ops.go, client.go    *)
(* and integration_test.go.                                                *)
(***************************************************************************)
EXTENDS Naturals, FiniteSets

CONSTANTS
    Procs,      \* `multibird` processes
    Jobs,       \* the command lines they may be started with
    Ports,      \* WireGuard ports of the instance, derived or overridden
    StockPort,  \* the default port in netbird's own config, 51820
    Serial,     \* TRUE: apart from watchers, one command at a time
    FaultSets   \* what may go wrong: one of these sets of steps whose call
                \* may fail, "crash" and "daemon"

Modes == {"native", "multibird", "disabled"}

Commands == {"add", "up", "strict", "down", "remove", "purge", "nuke", "set",
             "status", "sync", "watch", "sweep"}

Labels == {"up.start", "up.ready", "up.login", "up.sso", "up.config", "up.save",
           "up.engine", "up.status", "up.iface", "up.dns", "up.check", "up.down",
           "down.engine", "down.keys", "down.stop", "rm.keys", "rm.toml", "rm.dir",
           "nuke.kill", "nuke.keys",
           "set.apply", "set.start", "set.ready", "set.config", "set.stop",
           "set.keys", "set.save",
           "st.status", "st.dns", "st.iface",
           "sync.check", "sync.status", "sync.dns", "watch",
           "sweep.owners", "sweep.list", "sweep.keys"}

AnyPort == Ports \cup {StockPort}

\* The instance as multibird records it: the fields of the TOML that decide
\* what the commands do.  port is Params.WGPort.
Instance == [present : BOOLEAN, loggedIn : BOOLEAN, mode : Modes, port : AnyPort]
NoInstance == [present |-> FALSE, loggedIn |-> FALSE, mode |-> "native", port |-> StockPort]

\* netbird's config.json: registered once a login succeeded for its key.
Config == [present : BOOLEAN, registered : BOOLEAN, port : AnyPort, dnsOff : BOOLEAN]
StockConfig == [present |-> TRUE, registered |-> FALSE, port |-> StockPort, dnsOff |-> FALSE]
NoConfig == [StockConfig EXCEPT !.present = FALSE]

\* The engine runs on the config it was started with; ip once it is connected.
Engine == [on : BOOLEAN, ip : BOOLEAN, port : AnyPort, dnsOff : BOOLEAN]
EngineOff == [on |-> FALSE, ip |-> FALSE, port |-> StockPort, dnsOff |-> FALSE]

Job == [cmd : Commands, mode : Modes, port : Ports]

ASSUME ParamsAssumption == /\ Jobs \subseteq Job
                           /\ StockPort \notin Ports
                           /\ Serial \in BOOLEAN
                           /\ FaultSets \subseteq SUBSET (Labels \cup {"crash", "daemon"})

VARIABLES
    store,      \* instance.toml
    config,     \* config.json
    daemon,     \* the daemon process: down, boot (serving, config not read yet) or up
    engine,     \* its WireGuard engine
    keys,       \* the instance has host DNS keys in the dynamic store
    cli,        \* cli[p]: the progress of process p
    last,       \* the command that finished last, and whether it returned nil
    faults,     \* what may go wrong, the same all the time
    drift       \* history: how config.json changed since the TOML last did

vars == <<store, config, daemon, engine, keys, cli, last, faults, drift>>

\* inst: the loaded copy.  ip: the Status answer had a local IP.  flag: Set's
\* wasRunning, the watcher's downCleaned, the sweep's `owned and unknown`.
\* prev: Set's prevMode.
CLI == [pc : Labels \cup {"idle"}, cmd : Commands \cup {"none"}, inst : Instance,
        ip : BOOLEAN, flag : BOOLEAN, prev : Modes, mode : Modes, port : AnyPort]

IdleCLI == [pc |-> "idle", cmd |-> "none", inst |-> NoInstance, ip |-> FALSE,
            flag |-> FALSE, prev |-> "native", mode |-> "native", port |-> StockPort]

Init == /\ store = NoInstance /\ config = NoConfig
        /\ daemon = "down" /\ engine = EngineOff /\ keys = FALSE
        /\ cli = [p \in Procs |-> IdleCLI]
        /\ last = [cmd |-> "none", ok |-> FALSE]
        /\ faults \in FaultSets /\ drift = {}

-----------------------------------------------------------------------------
At(p, l) == cli[p].pc = l
Goto(p, l) == cli' = [cli EXCEPT ![p].pc = l] /\ UNCHANGED <<last, faults>>
Return(p, ok) == /\ cli' = [cli EXCEPT ![p] = IdleCLI]
                 /\ last' = [cmd |-> cli[p].cmd, ok |-> ok]
                 /\ UNCHANGED faults

MayFail(p) == cli[p].pc \in faults      \* the step's system call may fail
Running == daemon # "down"              \* daemon.Running
RPCMayFail(p) == ~Running \/ MayFail(p)

\* An RPC that fails may have done its work: the reply is lost, or the daemon
\* dies before it sends one.
ReplyLost(p) == Running /\ (MayFail(p) \/ "daemon" \in faults)

\* The history: "settings" while config.json has changed since the TOML last
\* did, "login" once it lost the registration that the TOML records.
Drifts ==
    drift' = IF store' # store
             THEN IF store'.loggedIn /\ ~store.loggedIn THEN {} ELSE drift \ {"settings"}
             ELSE IF config' # config
             THEN drift \cup {"settings"} \cup (IF config'.registered THEN {} ELSE {"login"})
             ELSE drift

\* Mutant: the port field of the TOML, 0 without an override, as it is.
SettingsRaw(i) == [port |-> 0, dnsOff |-> i.mode # "native"]

\* What SetConfig is sent: Params.WGPort and DNSMode.DNSDisableSys().
Settings(i) == [port |-> i.port, dnsOff |-> i.mode # "native"]

\* daemon.Start then `next`; a failing Start may leave the process behind
\* (no socket within 10s) or not have spawned it.
Start(p, next) ==
    \/ /\ daemon' = IF Running THEN daemon ELSE "boot"
       /\ Goto(p, next)
    \/ /\ ~Running /\ MayFail(p)
       /\ daemon' \in {"down", "boot"}
       /\ Return(p, FALSE)

\* Platform.RemoveHostDNS: on failure (not root, scutil) the keys stay.
RemoveKeys(p) == keys' \in {FALSE} \cup (IF MayFail(p) THEN {keys} ELSE {})

\* applyHostDNSFromStatus: only in multibird mode and with an IP; a primary
\* claim is refused, and writing needs root, and then the keys stay as they were.
ApplyKeys(p) == IF cli[p].inst.mode = "multibird" /\ cli[p].ip
                THEN keys' \in {TRUE, keys}
                ELSE UNCHANGED keys

\* Store.Save of the in-memory copy: whatever the file holds by now, or
\* whether it still exists.
Save(p) == store' = [cli[p].inst EXCEPT !.present = TRUE]

Killed == daemon' = "down" /\ engine' = EngineOff

-----------------------------------------------------------------------------
(* Commands start: Env.Load, then the command's first step.                *)

First(c) == CASE c \in {"up", "strict"}               -> "up.start"
              [] c \in {"down", "remove", "purge"}    -> "down.engine"
              [] c = "nuke"                           -> "nuke.kill"
              [] c = "set"                            -> "set.apply"
              [] c = "status"                         -> "st.status"
              [] c = "sync"                           -> "sync.check"
              [] c = "watch"                          -> "watch"
              [] OTHER                                -> "sweep.owners"

\* A watcher in the background does not keep the user from typing commands.
MayBegin(p) == /\ At(p, "idle")
               /\ Serial => \A q \in Procs : cli[q].cmd \in {"none", "watch"}

\* Every command but add and the sweep of strays fails unless the instance
\* exists; a watch of an instance in another mode returns at once.
Begin(p, j) ==
    /\ MayBegin(p) /\ j.cmd # "add"
    /\ j.cmd # "sweep" => store.present
    /\ j.cmd = "watch" => store.mode = "multibird"
    /\ cli' = [cli EXCEPT ![p] = [IdleCLI EXCEPT !.pc = First(j.cmd), !.cmd = j.cmd,
                                                 !.inst = store,
                                                 !.mode = j.mode, !.port = j.port]]
    /\ UNCHANGED <<store, config, drift, daemon, engine, keys, last, faults>>

\* Env.Add (module InstanceStore): a fresh record, not logged in.
Add(p, j) ==
    /\ MayBegin(p) /\ j.cmd = "add" /\ ~store.present
    /\ store' = [present |-> TRUE, loggedIn |-> FALSE, mode |-> j.mode, port |-> j.port]
    /\ last' = [cmd |-> "add", ok |-> TRUE]
    /\ UNCHANGED <<config, daemon, engine, keys, cli, faults>>
    /\ Drifts

-----------------------------------------------------------------------------
(* Env.Up.                                                                 *)

UpStart(p) == /\ At(p, "up.start") /\ Start(p, "up.ready")
              /\ UNCHANGED <<store, config, drift, engine, keys>>

\* Mutant: WaitReady without its timeout.
UpReadyForEver(p) ==
    /\ At(p, "up.ready") /\ Running
    /\ Goto(p, IF cli[p].inst.loggedIn THEN "up.engine" ELSE "up.login")
    /\ UNCHANGED <<store, config, drift, daemon, engine, keys>>

\* WaitReady; the login part runs only for an instance not logged in yet.
UpReady(p) ==
    /\ At(p, "up.ready")
    /\ \/ Running /\ Goto(p, IF cli[p].inst.loggedIn THEN "up.engine" ELSE "up.login")
       \/ RPCMayFail(p) /\ Return(p, FALSE)
    /\ UNCHANGED <<store, config, drift, daemon, engine, keys>>

\* Login creates config.json if there is none.  A setup key registers the
\* peer; otherwise the server answers with an SSO challenge.
UpLogin(p) ==
    /\ At(p, "up.login")
    /\ LET c == IF config.present THEN config ELSE StockConfig
           done == [c EXCEPT !.registered = TRUE]
       IN \/ Running /\ config' = done /\ Goto(p, "up.config")
          \/ Running /\ config' = c /\ Goto(p, "up.sso")
          \/ RPCMayFail(p) /\ UNCHANGED config /\ Return(p, FALSE)
          \/ ReplyLost(p) /\ config' \in {c, done} /\ Return(p, FALSE)
    /\ UNCHANGED <<store, daemon, engine, keys>>
    /\ Drifts

\* WaitSSOLogin: the user finishes in the browser, or the wait is aborted,
\* be it that the user has just finished.
UpSSO(p) ==
    /\ At(p, "up.sso")
    /\ \/ /\ Running /\ config.present
          /\ config' = [config EXCEPT !.registered = TRUE]
          /\ Goto(p, "up.config") \/ Return(p, FALSE)
       \/ UNCHANGED config /\ Return(p, FALSE)
    /\ UNCHANGED <<store, daemon, engine, keys>>
    /\ Drifts

\* SetConfig updates an existing config.json and fails without one.
Push(p) == config' = [config EXCEPT !.port = Settings(cli[p].inst).port,
                                    !.dnsOff = Settings(cli[p].inst).dnsOff]
PushMayFail(p) == RPCMayFail(p) \/ ~config.present

\* Mutant: a failing SetConfig is only warned about.
UpSetConfigWarns(p) ==
    /\ At(p, "up.config")
    /\ \/ Running /\ config.present /\ Push(p)
       \/ PushMayFail(p) /\ UNCHANGED config
    /\ cli' = [cli EXCEPT ![p].pc = "up.save", ![p].inst.loggedIn = TRUE]
    /\ UNCHANGED <<store, daemon, engine, keys, last, faults>>
    /\ Drifts

UpSetConfig(p) ==
    /\ At(p, "up.config")
    /\ \/ /\ Running /\ config.present
          /\ Push(p)
          /\ cli' = [cli EXCEPT ![p].pc = "up.save", ![p].inst.loggedIn = TRUE]
          /\ UNCHANGED <<last, faults>>
       \/ PushMayFail(p) /\ UNCHANGED config /\ Return(p, FALSE)
       \/ ReplyLost(p) /\ config.present /\ Push(p) /\ Return(p, FALSE)
    /\ UNCHANGED <<store, daemon, engine, keys>>
    /\ Drifts

\* The login is recorded only now, after the isolation params are in place.
UpSave(p) ==
    /\ At(p, "up.save")
    /\ \/ Save(p) /\ Goto(p, "up.engine")
       \/ MayFail(p) /\ UNCHANGED store /\ Return(p, FALSE)
    /\ UNCHANGED <<config, daemon, engine, keys>>
    /\ Drifts

\* The engine starts on config.json as it is; a running engine stays.
UpEngine(p) ==
    /\ At(p, "up.engine")
    /\ \/ /\ Running /\ config.present /\ config.registered
          /\ engine' = IF engine.on THEN engine
                       ELSE [on |-> TRUE, ip |-> FALSE, port |-> config.port,
                             dnsOff |-> config.dnsOff]
          /\ Goto(p, "up.status") \/ (ReplyLost(p) /\ Return(p, FALSE))
       \/ /\ RPCMayFail(p) \/ ~config.registered
          /\ UNCHANGED engine /\ Return(p, FALSE)
    /\ UNCHANGED <<store, config, drift, daemon, keys>>

\* Status: the answer carries the IP the engine has at this moment.
UpStatus(p) ==
    /\ At(p, "up.status")
    /\ \/ /\ Running
          /\ cli' = [cli EXCEPT ![p].pc = "up.iface", ![p].ip = engine.ip]
          /\ UNCHANGED <<last, faults>>
       \/ RPCMayFail(p) /\ Return(p, FALSE)
    /\ UNCHANGED <<store, config, drift, daemon, engine, keys>>

\* DiscoverInterface: a new interface name is recorded with the whole record.
UpInterface(p) ==
    /\ At(p, "up.iface")
    /\ \/ UNCHANGED store /\ Goto(p, "up.dns")
       \/ cli[p].ip /\ Save(p) /\ Goto(p, "up.dns")
       \/ cli[p].ip /\ MayFail(p) /\ UNCHANGED store /\ Return(p, FALSE)
    /\ UNCHANGED <<config, daemon, engine, keys>>
    /\ Drifts

UpApplyDNS(p) == /\ At(p, "up.dns") /\ ApplyKeys(p) /\ Goto(p, "up.check")
                 /\ UNCHANGED <<store, config, drift, daemon, engine>>

\* conflictsInvolving: none, skipped with a warning, warned about, or, with
\* --strict, fatal.  The other instances decide, so any outcome is possible.
UpPreflight(p) ==
    /\ At(p, "up.check")
    /\ \/ Return(p, TRUE)
       \/ cli[p].cmd = "strict" /\ Goto(p, "up.down")
    /\ UNCHANGED <<store, config, drift, daemon, engine, keys>>

\* `_ = c.Down(ctx)`, and the error "was brought back down".
UpStrictDown(p) ==
    /\ At(p, "up.down")
    /\ \/ engine' = EngineOff
       \/ RPCMayFail(p) /\ UNCHANGED engine
    /\ Return(p, FALSE)
    /\ UNCHANGED <<store, config, drift, daemon, keys>>

-----------------------------------------------------------------------------
(* Env.Down, Env.Remove, Env.Nuke.                                         *)

\* Down asks a running daemon to stop its engine; failing is only a warning.
DownEngine(p) ==
    /\ At(p, "down.engine")
    /\ \/ engine' = EngineOff
       \/ MayFail(p) /\ UNCHANGED engine
    /\ Goto(p, "down.keys")
    /\ UNCHANGED <<store, config, drift, daemon, keys>>

\* Mutant: the keys are left behind.
DownKeysForgotten(p) == /\ At(p, "down.keys") /\ Goto(p, "down.stop")
                        /\ UNCHANGED <<store, config, drift, daemon, engine, keys>>

\* ... removes the host DNS keys if the LOADED mode is multibird ...
DownKeys(p) ==
    /\ At(p, "down.keys")
    /\ IF cli[p].inst.mode = "multibird" THEN RemoveKeys(p) ELSE UNCHANGED keys
    /\ Goto(p, "down.stop")
    /\ UNCHANGED <<store, config, drift, daemon, engine>>

\* Mutant: the error of daemon.Stop is dropped.
DownStopIgnores(p) ==
    /\ At(p, "down.stop")
    /\ Killed \/ (Running /\ MayFail(p) /\ UNCHANGED <<daemon, engine>>)
    /\ IF cli[p].cmd = "down" THEN Return(p, TRUE) ELSE Goto(p, "rm.keys")
    /\ UNCHANGED <<store, config, drift, keys>>

\* ... and stops the daemon.  Remove goes on whether or not that worked.
DownStop(p) ==
    /\ At(p, "down.stop")
    /\ \/ /\ Killed
          /\ IF cli[p].cmd = "down" THEN Return(p, TRUE) ELSE Goto(p, "rm.keys")
       \/ /\ Running /\ MayFail(p) /\ UNCHANGED <<daemon, engine>>
          /\ IF cli[p].cmd = "down" THEN Return(p, FALSE) ELSE Goto(p, "rm.keys")
    /\ UNCHANGED <<store, config, drift, keys>>

RemoveKeysAgain(p) ==
    /\ At(p, "rm.keys") /\ RemoveKeys(p)
    /\ Goto(p, IF cli[p].cmd = "purge" THEN "rm.dir" ELSE "rm.toml")
    /\ UNCHANGED <<store, config, drift, daemon, engine>>

\* Store.Remove: the TOML only, config.json is kept.
RemoveTOML(p) ==
    /\ At(p, "rm.toml")
    /\ \/ store' = NoInstance /\ Return(p, TRUE)
       \/ MayFail(p) /\ UNCHANGED store /\ Return(p, FALSE)
    /\ UNCHANGED <<config, daemon, engine, keys>>
    /\ Drifts

\* Store.Remove with purge: os.RemoveAll unlinks the files of the directory
\* one by one, in an order the directory decides.
RemoveDir(p) ==
    /\ At(p, "rm.dir")
    /\ \/ store.present /\ store' = NoInstance /\ UNCHANGED <<config, cli, last, faults>>
       \/ config.present /\ config' = NoConfig /\ UNCHANGED <<store, cli, last, faults>>
       \/ ~store.present /\ ~config.present /\ Return(p, TRUE) /\ UNCHANGED <<store, config>>
       \/ MayFail(p) /\ Return(p, FALSE) /\ UNCHANGED <<store, config>>
    /\ UNCHANGED <<daemon, engine, keys>>
    /\ Drifts

NukeKill(p) ==
    /\ At(p, "nuke.kill")
    /\ \/ Killed
       \/ Running /\ MayFail(p) /\ UNCHANGED <<daemon, engine>>
    /\ cli' = [cli EXCEPT ![p].pc = "nuke.keys", ![p].flag = (daemon' = "down")]
    /\ UNCHANGED <<store, config, drift, keys, last, faults>>

NukeKeys(p) ==
    /\ At(p, "nuke.keys") /\ RemoveKeys(p)
    /\ Return(p, cli[p].flag /\ ~keys')
    /\ UNCHANGED <<store, config, drift, daemon, engine>>

-----------------------------------------------------------------------------
(* Env.Set.                                                                *)

\* Mutant: a changed port does not count as a change of config.json.
SetApplyModeOnly(p) ==
    /\ At(p, "set.apply")
    /\ LET i == [cli[p].inst EXCEPT !.mode = cli[p].mode, !.port = cli[p].port]
           needsDaemon == i.mode # cli[p].inst.mode /\ i.loggedIn
       IN cli' = [cli EXCEPT ![p].inst = i, ![p].prev = cli[p].inst.mode,
                             ![p].pc = IF needsDaemon THEN "set.start" ELSE "set.keys"]
    /\ UNCHANGED <<store, config, drift, daemon, engine, keys, last, faults>>

\* The in-memory copy takes the changes; the daemon is needed when one of
\* them lives in config.json and there is a login to update.  An override that
\* spells out the port the instance has anyway counts as a change, too.
SetApply(p) ==
    /\ At(p, "set.apply")
    /\ LET i == [cli[p].inst EXCEPT !.mode = cli[p].mode, !.port = cli[p].port]
       IN \E needsDaemon \in {i # cli[p].inst /\ i.loggedIn, i.loggedIn} :
             cli' = [cli EXCEPT ![p].inst = i, ![p].prev = cli[p].inst.mode,
                                ![p].pc = IF needsDaemon THEN "set.start" ELSE "set.keys"]
    /\ UNCHANGED <<store, config, drift, daemon, engine, keys, last, faults>>

\* flag remembers wasRunning; daemon.Start is a no-op when it was.
SetStart(p) ==
    /\ At(p, "set.start")
    /\ \/ /\ daemon' = IF Running THEN daemon ELSE "boot"
          /\ cli' = [cli EXCEPT ![p].pc = "set.ready", ![p].flag = Running]
          /\ UNCHANGED <<last, faults>>
       \/ /\ ~Running /\ MayFail(p)
          /\ daemon' \in {"down", "boot"}
          /\ Return(p, FALSE)
    /\ UNCHANGED <<store, config, drift, engine, keys>>

SetReady(p) ==
    /\ At(p, "set.ready")
    /\ \/ Running /\ Goto(p, "set.config")
       \/ RPCMayFail(p) /\ Return(p, FALSE)
    /\ UNCHANGED <<store, config, drift, daemon, engine, keys>>

SetConfig(p) ==
    /\ At(p, "set.config")
    /\ \/ Running /\ config.present /\ Push(p) /\ Goto(p, "set.stop")
       \/ PushMayFail(p) /\ UNCHANGED config /\ Return(p, FALSE)
       \/ ReplyLost(p) /\ config.present /\ Push(p) /\ Return(p, FALSE)
    /\ UNCHANGED <<store, daemon, engine, keys>>
    /\ Drifts

\* A daemon Set started itself is stopped again; failing is only a warning.
SetStop(p) ==
    /\ At(p, "set.stop")
    /\ IF cli[p].flag
       THEN UNCHANGED <<daemon, engine>>
       ELSE Killed \/ (MayFail(p) /\ UNCHANGED <<daemon, engine>>)
    /\ Goto(p, "set.keys")
    /\ UNCHANGED <<store, config, drift, keys>>

\* Leaving multibird mode removes the keys; failing is only a warning.
SetKeys(p) ==
    /\ At(p, "set.keys")
    /\ IF cli[p].prev = "multibird" /\ cli[p].inst.mode # "multibird"
       THEN RemoveKeys(p) ELSE UNCHANGED keys
    /\ Goto(p, "set.save")
    /\ UNCHANGED <<store, config, drift, daemon, engine>>

SetSave(p) ==
    /\ At(p, "set.save")
    /\ \/ Save(p) /\ Return(p, TRUE)
       \/ MayFail(p) /\ UNCHANGED store /\ Return(p, FALSE)
    /\ UNCHANGED <<config, daemon, engine, keys>>
    /\ Drifts

-----------------------------------------------------------------------------
(* Env.Status, Env.DNSSync, Env.DNSCleanupStrays and the watcher.          *)

StatusRPC(p) ==
    /\ At(p, "st.status")
    /\ \/ /\ Running
          /\ cli' = [cli EXCEPT ![p].pc = "st.dns", ![p].ip = engine.ip]
          /\ UNCHANGED <<last, faults>>
       \/ RPCMayFail(p) /\ Return(p, TRUE)
    /\ UNCHANGED <<store, config, drift, daemon, engine, keys>>

StatusDNS(p) == /\ At(p, "st.dns") /\ ApplyKeys(p) /\ Goto(p, "st.iface")
                /\ UNCHANGED <<store, config, drift, daemon, engine>>

\* The backfill of the discovered interface saves the whole loaded record.
StatusInterface(p) ==
    /\ At(p, "st.iface")
    /\ \/ UNCHANGED store
       \/ cli[p].ip /\ Save(p)
    /\ Return(p, TRUE)
    /\ UNCHANGED <<config, daemon, engine, keys>>
    /\ Drifts

\* DNSSync is called by `dns sync`, which ends with it, and by the watcher.
SyncDone(p, ok) == IF cli[p].cmd = "watch" THEN Goto(p, "watch") ELSE Return(p, ok)

SyncCheck(p) ==
    /\ At(p, "sync.check")
    /\ IF cli[p].inst.mode # "multibird" \/ ~Running
       THEN RemoveKeys(p) /\ SyncDone(p, ~keys')
       ELSE UNCHANGED keys /\ Goto(p, "sync.status")
    /\ UNCHANGED <<store, config, drift, daemon, engine>>

SyncStatus(p) ==
    /\ At(p, "sync.status")
    /\ \/ /\ Running
          /\ cli' = [cli EXCEPT ![p].pc = "sync.dns", ![p].ip = engine.ip]
          /\ UNCHANGED <<last, faults>>
       \/ RPCMayFail(p) /\ SyncDone(p, FALSE)
    /\ UNCHANGED <<store, config, drift, daemon, engine, keys>>

SyncApply(p) == /\ At(p, "sync.dns") /\ ApplyKeys(p) /\ SyncDone(p, TRUE)
                /\ UNCHANGED <<store, config, drift, daemon, engine>>

\* Mutant: downCleaned is not reset when the daemon is back.
WatchOnce(p) ==
    /\ At(p, "watch")
    /\ IF Running
       THEN cli' = [cli EXCEPT ![p].pc = "sync.check"] /\ UNCHANGED keys
       ELSE /\ IF cli[p].flag THEN UNCHANGED keys ELSE RemoveKeys(p)
            /\ cli' = [cli EXCEPT ![p].flag = TRUE]
    /\ UNCHANGED <<store, config, drift, daemon, engine, last, faults>>

\* watchOne: remove the keys once when the daemon is down, sync (again and
\* again) while it is up.  flag is downCleaned.  Module DnsWatch has the
\* events and timers that trigger a sync.
Watch(p) ==
    /\ At(p, "watch")
    /\ IF Running
       THEN /\ cli' = [cli EXCEPT ![p].pc = "sync.check", ![p].flag = FALSE]
            /\ UNCHANGED keys
       ELSE /\ IF cli[p].flag THEN UNCHANGED keys ELSE RemoveKeys(p)
            /\ cli' = [cli EXCEPT ![p].flag = TRUE]
    /\ UNCHANGED <<store, config, drift, daemon, engine, last, faults>>

\* DNSCleanupStrays lists the owners of keys before it lists the instances.
SweepOwners(p) ==
    /\ At(p, "sweep.owners")
    /\ cli' = [cli EXCEPT ![p].pc = "sweep.list", ![p].flag = keys]
    /\ UNCHANGED <<store, config, drift, daemon, engine, keys, last, faults>>

SweepList(p) ==
    /\ At(p, "sweep.list")
    /\ IF cli[p].flag /\ ~store.present THEN Goto(p, "sweep.keys") ELSE Return(p, TRUE)
    /\ UNCHANGED <<store, config, drift, daemon, engine, keys>>

SweepKeys(p) ==
    /\ At(p, "sweep.keys") /\ RemoveKeys(p) /\ Return(p, ~keys')
    /\ UNCHANGED <<store, config, drift, daemon, engine>>

-----------------------------------------------------------------------------
(* netbird, and what goes wrong by itself.                                 *)

\* The daemon reads its config at startup, asynchronously to answering RPCs,
\* and creates the default one when there is none.
DaemonBoot ==
    /\ daemon = "boot" /\ daemon' = "up"
    /\ config' = IF config.present THEN config ELSE StockConfig
    /\ UNCHANGED <<store, engine, keys, cli, last, faults>>
    /\ Drifts

EngineConnects ==
    /\ engine.on /\ ~engine.ip
    /\ engine' = [engine EXCEPT !.ip = TRUE]
    /\ UNCHANGED <<store, config, drift, daemon, keys, cli, last, faults>>

DaemonDies ==
    /\ "daemon" \in faults /\ Running /\ Killed
    /\ UNCHANGED <<store, config, drift, keys, cli, last, faults>>

\* Ctrl-C, or the process is killed.
Crash(p) ==
    /\ "crash" \in faults /\ ~At(p, "idle")
    /\ cli' = [cli EXCEPT ![p] = IdleCLI]
    /\ last' = [cmd |-> "none", ok |-> FALSE]
    /\ UNCHANGED <<store, config, drift, daemon, engine, keys, faults>>

UpStep(p) == \/ UpStart(p) \/ UpReady(p) \/ UpLogin(p) \/ UpSetConfig(p)
             \/ UpSave(p) \/ UpEngine(p) \/ UpStatus(p) \/ UpInterface(p)
             \/ UpApplyDNS(p) \/ UpPreflight(p) \/ UpStrictDown(p)
DownStep(p) == \/ DownEngine(p) \/ DownKeys(p) \/ DownStop(p)
               \/ RemoveKeysAgain(p) \/ RemoveTOML(p) \/ RemoveDir(p)
               \/ NukeKill(p) \/ NukeKeys(p)
SetStep(p) == \/ SetApply(p) \/ SetStart(p) \/ SetReady(p) \/ SetConfig(p)
              \/ SetStop(p) \/ SetKeys(p) \/ SetSave(p)
SyncStep(p) == \/ StatusRPC(p) \/ StatusDNS(p) \/ StatusInterface(p)
               \/ SyncCheck(p) \/ SyncStatus(p) \/ SyncApply(p) \/ Watch(p)
               \/ SweepOwners(p) \/ SweepList(p) \/ SweepKeys(p)

\* The steps a process takes by itself, the user's SSO login left out.
Step(p) == UpStep(p) \/ DownStep(p) \/ SetStep(p) \/ SyncStep(p)

Next == \/ \E p \in Procs : \/ \E j \in Jobs : Begin(p, j) \/ Add(p, j)
                            \/ Step(p) \/ UpSSO(p) \/ Crash(p)
        \/ DaemonBoot \/ EngineConnects \/ DaemonDies

Spec == Init /\ [][Next]_vars

\* The RPCs that are sent with the command's own context, without a deadline, and
\* the wait for the SSO login: they may last as long as the daemon lives.
NoDeadline == {"up.login", "up.sso", "up.config", "up.engine", "up.status", "up.down",
               "set.config"}

\* A process runs on unless it is killed or a daemon does not answer such a call.
GoesOn(p) == (Step(p) \/ UpSSO(p)) /\ (cli[p].pc \in NoDeadline => ~Running)
Fairness == \A p \in Procs : WF_vars(GoesOn(p))
FairSpec == Spec /\ Fairness

-----------------------------------------------------------------------------
(* Properties.                                                             *)

\* The variables have the types of the code's values.
TypeOK == /\ store \in Instance /\ config \in Config
          /\ daemon \in {"down", "boot", "up"}
          /\ engine \in Engine /\ keys \in BOOLEAN
          /\ cli \in [Procs -> CLI]
          /\ last \in [cmd : Commands \cup {"none"}, ok : BOOLEAN]
          /\ faults \in FaultSets /\ drift \subseteq {"settings", "login"}

\* No command is in the middle of its work; a watcher is between two syncs.
Quiescent == \A p \in Procs : cli[p].pc \in {"idle", "watch"}

\* ops.go in Up: "the engine never runs on the defaults (utun100, port 51820)".
\* The order Login, SetConfig, Save, Up must guarantee it whichever call fails
\* and wherever a command dies.  (Assumed: a daemon that boots does not start its
\* engine by itself, and nobody asks for the stock port with --wireguard-port.)
EngineIsolated == engine.on => engine.port \in Ports

Never(steps) == faults \cap steps = {}

\* instance.go on LoggedIn: "records that a successful Login gRPC call
\* persisted the isolation params into netbird's config.json".  While it is
\* set `up` never logs in again, so without that config.json the instance
\* could not come up any more.  Whatever call fails, with its effect or without,
\* and wherever a command dies, what is written into the TOML agrees with
\* config.json, in the port and the DNS switch: only a config.json that changed
\* after it may differ (a Set that did not come to its Save), and only
\* RemoveAll, cut short, may leave a recorded login without its registration.
ConfigMatchesStore ==
    store.loggedIn =>
        /\ "login" \notin drift => config.present /\ config.registered /\ config.port \in Ports
        /\ "settings" \notin drift =>
              Settings(store) = [port |-> config.port, dnsOff |-> config.dnsOff]

\* The steps that remove keys.
KeySteps == {"down.keys", "rm.keys", "nuke.keys", "set.keys", "sync.check", "sweep.keys"}

\* set.go: "Leaving multibird mode orphans our dynamic-store keys - remove
\* them".  Between commands only an instance in multibird mode has keys,
\* wherever commands were killed.  docs/dns.md: "`down`/`remove`/`nuke` remove the
\* keys": and only while the daemon that serves them runs, unless it died by
\* itself, or nuke was cut off between daemon and keys.
KeysAreCurrent ==
    Never(KeySteps \cup {"daemon"}) /\ Quiescent /\ keys =>
        /\ store.present /\ store.mode = "multibird"
        /\ Never({"crash"}) => Running

\* A `down` or `nuke` that reports success has stopped the daemon and its
\* engine and removed the keys.  (Down does not report keys it could not
\* remove, and does not look for those that Set could not remove.)
DownIsComplete ==
    Never(KeySteps) /\ Quiescent /\ last.cmd \in {"down", "nuke"} /\ last.ok =>
        ~Running /\ ~engine.on /\ ~keys

\* ops.go on Remove: it "tears the instance down and deletes multibird state":
\* only `add` makes an instance that was removed (or never existed) exist.
OnlyAddCreates == [][~store.present /\ store'.present => cli' = cli]_vars

\* Every command comes to its end again and again, whatever fails on the way,
\* unless a living daemon leaves one of the calls without a deadline, always
\* the same, unanswered for ever.
CommandsFinish ==
    \A p \in Procs : \/ []<>(cli[p].cmd \in {"none", "watch"})
                      \/ \E l \in NoDeadline : <>[](At(p, l) /\ Running)

\* dns.go on DNSWatch: it "removes an instance's keys while its daemon is
\* down".  As long as a watcher runs, keys without a daemon do not last.  (It
\* tries once per outage: nothing is retried when that fails, nor when keys are
\* written later from an answer of a daemon that has died meanwhile.)
WatcherCleansUp ==
    \A p \in Procs :
        Never(KeySteps \cup {"watch", "daemon"}) /\ cli[p].cmd = "watch" /\ keys /\ ~Running
            ~> ~keys \/ Running \/ cli[p].cmd # "watch"
=============================================================================
