----------------------------- MODULE BootUnits -----------------------------
(***************************************************************************)
(* `multibird install` and `uninstall` (cmd/multibird, internal/persist):  *)
(* boot units and dns-watch units, systemd's on Linux and launchd's on     *)
(* macOS.  A command is a sequence of file operations and systemctl or     *)
(* launchctl calls, each of which may fail with or without its effect; the *)
(* command may be killed and the machine may lose power between any two.   *)
(* The service manager starts the units at boot and restarts dns-watch.    *)
(***************************************************************************)
EXTENDS Sequences

CONSTANTS
    NameSets,   \* the sets of instance names to consider; a name is the
                \* sequence of its parts between the hyphens
    MayBe       \* MayBe[n]: the states instance n may be in, of InstStates

AllNames == UNION NameSets
InstStates == {"absent", "native", "multibird"}
Kinds == {"up", "watch"}
Systems == {"linux", "darwin"}

ASSUME BootAssumption == /\ \A N \in NameSets : \A n \in N : n \in Seq(STRING)
                         /\ MayBe \in [AllNames -> SUBSET InstStates]

-----------------------------------------------------------------------------
(* Where units live.                                                       *)

SystemdUnitPath(n) == <<"multibird">> \o n
SystemdDNSWatchUnitPath(n) == <<"multibird", "dnswatch">> \o n
\* launchd labels separate their parts with dots, which no name contains.
LaunchdPlistPath(n) == <<"io.github.magnetrong.multibird", n>>
LaunchdDNSWatchPlistPath(n) == <<"io.github.magnetrong.multibird", "dnswatch", n>>

UnitPath(sys, n, k) ==
    CASE sys = "linux" /\ k = "up"     -> SystemdUnitPath(n)
      [] sys = "linux" /\ k = "watch"  -> SystemdDNSWatchUnitPath(n)
      [] sys = "darwin" /\ k = "up"    -> LaunchdPlistPath(n)
      [] sys = "darwin" /\ k = "watch" -> LaunchdDNSWatchPlistPath(n)

Paths == {UnitPath(s, n, k) : s \in Systems, n \in AllNames, k \in Kinds}

\* What a unit file says: run `multibird up n` or `multibird dns sync n --watch`.
Units == [kind : Kinds, name : AllNames]
None == [kind |-> "none", name |-> <<>>]      \* no file, nothing loaded
Cut == [kind |-> "cut", name |-> <<>>]        \* a file cut short: no unit in it

VARIABLES
    sys,        \* the operating system
    names,      \* the names in use
    inst,       \* inst[n]: instance n in the store: absent, or its DNS mode
    file,       \* file[p]: the unit file at path p
    enabled,    \* enabled[p]: systemd has the WantedBy link; launchd no override
    loaded,     \* loaded[p]: the unit the service manager knows as p
    job,        \* job[p]: what the service manager does about it
    cmd,        \* the install or uninstall command that runs
    want        \* want[n][k]: what the last such command has said about the unit

vars == <<sys, names, inst, file, enabled, loaded, job, cmd, want>>
manager == <<enabled, loaded, job>>

\* A boot unit ends as "active" or "exited"; dns-watch is "running" until it exits,
\* and back to "starting" when it is to be restarted.
Jobs == {"off", "starting", "running", "active", "exited"}
Cmd == [pc : {"idle", "load", "open", "write", "reload", "enable",
              "stat", "disable", "remove", "reloadGone"},
        name : AllNames \cup {<<>>}, kind : Kinds, watch : BOOLEAN,
        mode : InstStates]
NoCmd == [pc |-> "idle", name |-> <<>>, kind |-> "up", watch |-> FALSE, mode |-> "absent"]

Path == UnitPath(sys, cmd.name, cmd.kind)

Init ==
    /\ sys \in Systems /\ names \in NameSets
    /\ inst \in {f \in [AllNames -> InstStates] : \A n \in AllNames : f[n] \in MayBe[n]}
    /\ file = [p \in Paths |-> None]
    /\ enabled = [p \in Paths |-> sys = "darwin"]
    /\ loaded = [p \in Paths |-> None]
    /\ job = [p \in Paths |-> "off"]
    /\ cmd = NoCmd
    /\ want = [n \in AllNames |-> [k \in Kinds |-> "no"]]

-----------------------------------------------------------------------------
(* The service manager.                                                    *)

Readable(u) == u \in Units

\* The units that are started at boot.
AtBoot(p) == enabled[p] /\ Readable(file[p])

\* Starting a dns-watch unit of systemd starts the boot unit of its Wants=.
Pulled(S, known) ==
    IF sys = "darwin" THEN S
    ELSE S \cup {q \in Paths : /\ Readable(known[q])
                               /\ \E p \in S : /\ known[p].kind = "watch"
                                               /\ q = SystemdUnitPath(known[p].name)}

Started(S, known) ==
    [p \in Paths |-> IF p \in Pulled(S, known) /\ job[p] \in {"off", "exited"}
                     THEN "starting" ELSE job[p]]

\* systemctl daemon-reload, which enable and disable also do.
Reloaded == loaded' = [p \in Paths |-> IF Readable(file[p]) THEN file[p] ELSE None]

\* Mutant: launchctl load without -w.
EnableNoOverride(p, now) ==
    /\ Readable(file[p])
    /\ enabled' = IF sys = "linux" THEN [enabled EXCEPT ![p] = TRUE] ELSE enabled
    /\ Reloaded
    /\ job' = IF now THEN Started({p}, loaded') ELSE job

\* systemctl enable (--now for dns-watch); launchctl load -w, which leaves a job
\* alone that is already loaded.
Enable(p, now) ==
    /\ Readable(file[p])
    /\ enabled' = [enabled EXCEPT ![p] = TRUE]
    /\ \/ /\ sys = "linux" /\ Reloaded
          /\ job' = IF now THEN Started({p}, loaded') ELSE job
       \/ /\ sys = "darwin" /\ loaded[p] = None
          /\ loaded' = [loaded EXCEPT ![p] = file[p]]
          /\ job' = [job EXCEPT ![p] = "starting"]
       \/ sys = "darwin" /\ loaded[p] # None /\ UNCHANGED <<loaded, job>>

\* systemctl disable (--now for dns-watch); launchctl unload -w.
Disable(p, now) ==
    /\ enabled' = [enabled EXCEPT ![p] = FALSE]
    /\ \/ /\ sys = "linux" /\ Reloaded
          /\ job' = IF now THEN [job EXCEPT ![p] = "off"] ELSE job
       \/ /\ sys = "darwin"
          /\ loaded' = [loaded EXCEPT ![p] = None]
          /\ job' = [job EXCEPT ![p] = "off"]

\* Power is lost and comes back, in the middle of whatever command runs.  What
\* was written to the disk is there, although the code does not fsync it.
Reboot ==
    /\ loaded' = [p \in Paths |-> IF Readable(file[p]) /\ (sys = "linux" \/ enabled[p])
                                  THEN file[p] ELSE None]
    /\ LET S == {p \in Paths : AtBoot(p)}
       IN  job' = [p \in Paths |-> IF p \in Pulled(S, loaded') THEN "starting" ELSE "off"]
    /\ cmd' = NoCmd
    /\ UNCHANGED <<sys, names, inst, file, enabled, want>>

\* Mutant: no KeepAlive in the plist.
RestartsOnFailure(failed) == failed

\* KeepAlive of the plist; Restart=on-failure of the systemd unit.
Restarts(failed) == sys = "darwin" \/ failed

AfterExit(failed) == IF Restarts(failed) THEN "starting" ELSE "exited"

\* The command of a unit runs.  `up` and `dns sync --watch` fail without the
\* instance; dns sync --watch ends well at once if there is nothing to watch.
RunJob(p) ==
    /\ job[p] = "starting"
    /\ LET u == loaded[p]
           s == IF u = None THEN "absent" ELSE inst[u.name]
       IN  job' = [job EXCEPT ![p] =
                     CASE u = None -> "exited"
                       [] u.kind = "up" -> IF s = "absent" THEN "exited" ELSE "active"
                       [] u.kind = "watch" -> IF s = "multibird" THEN "running"
                                              ELSE AfterExit(s = "absent")]
    /\ UNCHANGED <<sys, names, inst, file, enabled, loaded, cmd, want>>

\* The watcher is killed, or told to end (SIGTERM: DNSWatch returns, exit 0).
WatchExits(p, failed) ==
    /\ job[p] = "running"
    /\ job' = [job EXCEPT ![p] = AfterExit(failed)]
    /\ UNCHANGED <<sys, names, inst, file, enabled, loaded, cmd, want>>

-----------------------------------------------------------------------------
(* add, set --dns-mode and remove: none of them looks at the units.        *)

Instance(n, s) ==
    /\ s \in MayBe[n] /\ s # inst[n]
    /\ inst' = [inst EXCEPT ![n] = s]
    /\ UNCHANGED <<sys, names, file, manager, cmd, want>>

-----------------------------------------------------------------------------
(* The commands.                                                           *)

Goto(l) == cmd' = [cmd EXCEPT !.pc = l]
End == cmd' = NoCmd
Says(w) == want' = [want EXCEPT ![cmd.name][cmd.kind] = w]

BeginInstall(n, watch) ==
    /\ cmd.pc = "idle"
    /\ cmd' = [NoCmd EXCEPT !.pc = "load", !.name = n, !.watch = watch]
    /\ UNCHANGED <<sys, names, inst, file, manager, want>>

BeginUninstall(n) ==
    /\ cmd.pc = "idle"
    /\ cmd' = [NoCmd EXCEPT !.pc = "stat", !.name = n, !.kind = "watch"]
    /\ UNCHANGED <<sys, names, inst, file, manager, want>>

\* env, Load and os.Executable.
Load ==
    /\ cmd.pc = "load"
    /\ \/ End
       \/ inst[cmd.name] # "absent" /\ cmd' = [cmd EXCEPT !.pc = "open", !.mode = inst[cmd.name]]
    /\ UNCHANGED <<sys, names, inst, file, manager, want>>

\* os.WriteFile of the unit: created or emptied, then written.
WriteOpen ==
    /\ cmd.pc = "open"
    /\ \/ End /\ UNCHANGED <<file, want>>
       \/ /\ file' = [file EXCEPT ![Path] = Cut]
          /\ Goto("write") /\ Says("unsure")
    /\ UNCHANGED <<sys, names, inst, manager>>

Write ==
    /\ cmd.pc = "write"
    /\ \/ End /\ UNCHANGED file
       \/ /\ file' = [file EXCEPT ![Path] = [kind |-> cmd.kind, name |-> cmd.name]]
          /\ Goto(IF sys = "linux" THEN "reload" ELSE "enable")
    /\ UNCHANGED <<sys, names, inst, manager, want>>

\* A call of the service manager: it works, or it fails with or without effect.
DaemonReload ==
    /\ cmd.pc = "reload"
    /\ \/ Reloaded /\ (End \/ Goto("enable"))
       \/ UNCHANGED loaded /\ End
    /\ UNCHANGED <<sys, names, inst, file, enabled, job, want>>

\* The unit is enabled, Install or InstallDNSWatch returns.  installCmd goes on to
\* the dns-watch unit if it is asked for, and fails if the mode is another.
InstallEnable ==
    /\ cmd.pc = "enable"
    /\ LET now == cmd.kind = "watch"
           more == cmd.kind = "up" /\ cmd.watch /\ cmd.mode = "multibird"
       IN  \/ Enable(Path, now) /\ End /\ UNCHANGED want
           \/ UNCHANGED <<manager, want>> /\ End
           \/ /\ Enable(Path, now) /\ Says("yes")
              /\ IF more THEN cmd' = [cmd EXCEPT !.pc = "open", !.kind = "watch"] ELSE End
    /\ UNCHANGED <<sys, names, inst, file>>

\* UninstallDNSWatch returns and uninstallCmd goes on to Uninstall, which is the
\* last one.
Uninstalled ==
    IF cmd.kind = "watch" THEN cmd' = [cmd EXCEPT !.pc = "stat", !.kind = "up"] ELSE End

Stat ==
    /\ cmd.pc = "stat"
    /\ IF file[Path] = None THEN Uninstalled /\ Says("no") ELSE Goto("disable") /\ UNCHANGED want
    /\ UNCHANGED <<sys, names, inst, file, manager>>

\* Mutant: an error of disable is passed over.
UninstallDisableIgnores ==
    /\ cmd.pc = "disable"
    /\ Says("unsure")
    /\ Disable(Path, cmd.kind = "watch") \/ UNCHANGED manager
    /\ Goto("remove")
    /\ UNCHANGED <<sys, names, inst, file>>

UninstallDisable ==
    /\ cmd.pc = "disable"
    /\ Says("unsure")
    /\ \/ Disable(Path, cmd.kind = "watch") /\ (End \/ Goto("remove"))
       \/ UNCHANGED manager /\ End
    /\ UNCHANGED <<sys, names, inst, file>>

\* os.Remove; somebody who took the file first is not an error.
UninstallRemove ==
    /\ cmd.pc = "remove"
    /\ \/ End /\ UNCHANGED <<file, want>>
       \/ /\ file' = [file EXCEPT ![Path] = None]
          /\ IF sys = "linux" THEN Goto("reloadGone") /\ UNCHANGED want
             ELSE Uninstalled /\ Says("no")
    /\ UNCHANGED <<sys, names, inst, manager>>

UninstallReload ==
    /\ cmd.pc = "reloadGone"
    /\ \/ Reloaded /\ End /\ UNCHANGED want
       \/ Reloaded /\ Uninstalled /\ Says("no")
       \/ UNCHANGED <<loaded, want>> /\ End
    /\ UNCHANGED <<sys, names, inst, file, enabled, job>>

Kill == cmd.pc # "idle" /\ End /\ UNCHANGED <<sys, names, inst, file, manager, want>>

Command == \/ Load \/ WriteOpen \/ Write \/ DaemonReload \/ InstallEnable
           \/ Stat \/ UninstallDisable \/ UninstallRemove \/ UninstallReload

Next == \/ \E n \in names, watch \in BOOLEAN : BeginInstall(n, watch)
        \/ \E n \in names : BeginUninstall(n)
        \/ Command \/ Kill \/ Reboot
        \/ \E p \in Paths : RunJob(p) \/ \E failed \in BOOLEAN : WatchExits(p, failed)
        \/ \E n \in names, s \in InstStates : Instance(n, s)

\* The service manager runs what it has started.
Spec == Init /\ [][Next]_vars /\ \A p \in Paths : WF_vars(RunJob(p))

-----------------------------------------------------------------------------
(* Properties.                                                             *)

TypeOK ==
    /\ sys \in Systems /\ names \in NameSets /\ inst \in [AllNames -> InstStates]
    /\ file \in [Paths -> Units \cup {None, Cut}]
    /\ enabled \in [Paths -> BOOLEAN]
    /\ loaded \in [Paths -> Units \cup {None}]
    /\ job \in [Paths -> Jobs]
    /\ cmd \in Cmd
    /\ want \in [AllNames -> [Kinds -> {"no", "yes", "unsure"}]]

\* A name in use whose units another name in use writes as well: on Linux the boot
\* unit of dnswatch-home is the dns-watch unit of home.
Shared(n) == \E m \in names \ {n}, j, k \in Kinds : UnitPath(sys, n, j) = UnitPath(sys, m, k)

\* docs/privileges.md: "`multibird uninstall <name>` reverses it": after a
\* successful uninstall nothing of the instance is started at boot and no dns-watch
\* of it runs or waits for its restart, whatever was installed before, whichever
\* earlier command was killed or failed half way, and however often the machine
\* has been restarted.
UninstallReverses ==
    \A n \in names, k \in Kinds :
        want[n][k] = "no" /\ ~Shared(n) =>
            LET p == UnitPath(sys, n, k)
            IN  ~AtBoot(p) /\ (k = "watch" => job[p] = "off")

\* "boot unit installed - instance comes up at boot": once install has said so,
\* the unit is started at every boot and runs the command of this instance, until
\* a command about the instance begins to change it.
InstallHolds ==
    \A n \in names, k \in Kinds :
        want[n][k] = "yes" /\ ~Shared(n) =>
            LET p == UnitPath(sys, n, k)
            IN  AtBoot(p) /\ file[p] = [kind |-> k, name |-> n]

\* The inductive invariant behind these two: what the command that runs has done
\* so far is known, it has said nothing about the unit it is changing, units are
\* those of names in use, and without its file a dns-watch does not run.
CommandInv ==
    /\ cmd.pc # "idle" => cmd.name \in names
    /\ cmd.pc \in {"write", "reload", "enable", "remove", "reloadGone"} =>
           want[cmd.name][cmd.kind] = "unsure"
    /\ cmd.pc \in {"reload", "enable"} => file[Path] = [kind |-> cmd.kind, name |-> cmd.name]
    /\ cmd.pc \in {"remove", "reloadGone"} =>
           ~enabled[Path] /\ (cmd.kind = "watch" => job[Path] = "off")

NamesInv == \A p \in Paths : /\ file[p] \in Units => file[p].name \in names
                             /\ loaded[p] \in Units => loaded[p].name \in names

NoFileNoWatch ==
    \A n \in names : LET p == UnitPath(sys, n, "watch")
                     IN  ~Shared(n) /\ file[p] = None => job[p] = "off"

BootInv == CommandInv /\ NamesInv /\ NoFileNoWatch /\ UninstallReverses /\ InstallHolds

\* The dns-watch of an instance that stays installed and in multibird mode runs
\* again and again after every crash and boot.  Under systemd only if it did not
\* end well: Restart=on-failure leaves it down then, as after a boot in another mode.
Watched(n) ==
    /\ n \in names /\ want[n]["watch"] = "yes" /\ inst[n] = "multibird" /\ ~Shared(n)
    /\ sys = "linux" => job[UnitPath(sys, n, "watch")] # "exited"
WatcherComesBack ==
    \A n \in AllNames :
        <>[]Watched(n) => []<>(job[UnitPath(sys, n, "watch")] = "running")
=============================================================================
