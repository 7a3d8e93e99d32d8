----------------------------- MODULE DaemonProc -----------------------------
(***************************************************************************)
(* internal/daemon: Start, Stop, Nuke and Running of one instance's        *)
(* `netbird service run` process, at the level of the kernel objects they  *)
(* touch: the process table, the pid file and the unix socket.  The CLI    *)
(* processes take no lock, a pid is just a number (the kernel may give it  *)
(* to somebody else once it is free), and a process that exits while the   *)
(* CLI that spawned it is alive stays as a zombie, because nobody waits    *)
(* for it.                                                                 *)
(***************************************************************************)
EXTENDS Naturals, FiniteSets

CONSTANTS
    Pids,       \* process ids
    NoPid,      \* no pid file, no socket
    Procs,      \* `multibird` processes
    Nobody,     \* the parent of a process whose CLI has gone (init)
    Jobs,       \* what the CLI processes may do
    Serial,     \* TRUE: one command at a time
    Reuse       \* TRUE: the kernel reuses pids for unrelated processes

\* start: Start, then a CLI that lives on for its RPCs (`up`).  update: Start
\* and, if that started it, Stop, in one CLI (`set`).  remove: Stop, working or
\* not, then the removal of the socket (`remove`).  stop, nuke: as named.
Calls == {"start", "update", "stop", "remove", "nuke"}

ASSUME ParamsAssumption == /\ NoPid \notin Pids /\ Nobody \notin Procs
                           /\ Jobs \subseteq Calls
                           /\ {Serial, Reuse} \subseteq BOOLEAN

\* boot: spawned, socket not bound.  leaving: got SIGTERM.  dying: got SIGKILL.
\* stranger: an unrelated process.
States == {"free", "boot", "serving", "leaving", "dying", "zombie", "stranger"}

Labels == {"idle", "check", "unlink", "spawn", "record", "wait", "linger",
           "read", "term", "poll", "forget", "unsock", "kill", "reaped", "rmsock"}

VARIABLES
    proc,       \* proc[i]: the process with pid i
    parent,     \* parent[i]: the CLI that spawned it, while that CLI is alive
    pidfile,    \* the pid in PIDFile, or NoPid
    sock,       \* the process that bound SocketPath, or NoPid if there is no file
    cli,        \* cli[p]: the progress of CLI process p
    last,       \* the call that returned last, and whether it returned nil
    mayCrash    \* a CLI may be killed, or one of its system calls refused

vars == <<proc, parent, pidfile, sock, cli, last, mayCrash>>

IdleCLI == [pc |-> "idle", job |-> "none", pid |-> NoPid]

Init == /\ proc = [i \in Pids |-> "free"]
        /\ parent = [i \in Pids |-> Nobody]
        /\ pidfile = NoPid /\ sock = NoPid
        /\ cli = [p \in Procs |-> IdleCLI]
        /\ last = [job |-> "none", ok |-> FALSE]
        /\ mayCrash \in BOOLEAN

-----------------------------------------------------------------------------
\* Alive: kill(pid, 0) succeeds or is not permitted.  A zombie is alive, and so
\* is whoever has the pid now.
Alive(i) == proc[i] # "free"

\* Running: the recorded pid is alive.
Running == pidfile # NoPid /\ Alive(pidfile)

\* The process table after i ends: its CLI, if still there, never waits for it.
Ended(i) == [proc EXCEPT ![i] = IF parent[i] = Nobody THEN "free" ELSE "zombie"]

Signalled(i, new) ==
    IF proc[i] \in {"boot", "serving", "leaving"} THEN [proc EXCEPT ![i] = new]
    ELSE IF proc[i] = "stranger" THEN [proc EXCEPT ![i] = "free"] ELSE proc

Goto(p, l) == cli' = [cli EXCEPT ![p].pc = l] /\ UNCHANGED <<parent, last, mayCrash>>

\* Mutant: the children of a CLI that exits have parent 0, not init.
ReturnUnparented(p, ok) ==
    /\ cli' = [cli EXCEPT ![p] = IdleCLI]
    /\ parent' = [i \in Pids |-> IF parent[i] = p THEN NoPid ELSE parent[i]]
    /\ last' = [job |-> cli[p].job, ok |-> ok]
    /\ UNCHANGED mayCrash

\* The call returns and the CLI exits: its children are handed to init, which
\* reaps the dead ones.
Return(p, ok) ==
    /\ cli' = [cli EXCEPT ![p] = IdleCLI]
    /\ parent' = [i \in Pids |-> IF parent[i] = p THEN Nobody ELSE parent[i]]
    /\ last' = [job |-> cli[p].job, ok |-> ok]
    /\ UNCHANGED mayCrash

Reaped(p, table) ==
    [i \in Pids |-> IF table[i] = "zombie" /\ parent[i] = p THEN "free" ELSE table[i]]

\* Return leaves the process table to its caller; most callers change nothing.
Leave(p, ok) == Return(p, ok) /\ proc' = Reaped(p, proc)

Begin(p, j) ==
    /\ cli[p].pc = "idle"
    /\ Serial => \A q \in Procs : cli[q].pc = "idle"
    /\ cli' = [cli EXCEPT ![p].job = j,
                          ![p].pc = CASE j \in {"start", "update"} -> "check"
                                      [] j \in {"stop", "remove"}  -> "read"
                                      [] OTHER                    -> "kill"]
    /\ UNCHANGED <<proc, parent, pidfile, sock, last, mayCrash>>

-----------------------------------------------------------------------------
(* Start.                                                                  *)

\* Mutant: the stale-socket removal before the check.
StartCheckLate(p) ==
    /\ cli[p].pc = "check" /\ sock' = NoPid
    /\ IF Running THEN Leave(p, TRUE) ELSE Goto(p, "spawn") /\ UNCHANGED proc
    /\ UNCHANGED pidfile

StartCheck(p) ==
    /\ cli[p].pc = "check"
    /\ IF Running THEN Leave(p, TRUE) ELSE Goto(p, "unlink") /\ UNCHANGED proc
    /\ UNCHANGED <<pidfile, sock>>

\* "A stale socket from a crashed daemon prevents the new one from binding."
StartUnlink(p) == /\ cli[p].pc = "unlink" /\ sock' = NoPid /\ Goto(p, "spawn")
                  /\ UNCHANGED <<proc, pidfile>>

\* exec fails when the process table is full.
StartSpawn(p) ==
    /\ cli[p].pc = "spawn"
    /\ \/ \E i \in Pids :
             /\ proc[i] = "free"
             /\ proc' = [proc EXCEPT ![i] = "boot"]
             /\ parent' = [parent EXCEPT ![i] = p]
             /\ cli' = [cli EXCEPT ![p].pc = "record", ![p].pid = i]
             /\ UNCHANGED <<last, mayCrash>>
       \/ (\A i \in Pids : proc[i] # "free") /\ Leave(p, FALSE)
    /\ UNCHANGED <<pidfile, sock>>

\* os.WriteFile, as one step: while the file is truncated it names nobody, like the
\* absent or stale one before it.
StartRecord(p) == /\ cli[p].pc = "record" /\ pidfile' = cli[p].pid /\ Goto(p, "wait")
                  /\ UNCHANGED <<proc, sock>>

\* Poll for the socket file (anybody's); give up when the process is gone or
\* after 10s.
StartWait(p) ==
    /\ cli[p].pc = "wait"
    /\ IF sock # NoPid THEN Goto(p, "linger") /\ UNCHANGED proc ELSE Leave(p, FALSE)
    /\ UNCHANGED <<pidfile, sock>>

\* The CLI has done its RPCs.  Set stops the daemon it started.
Linger(p) ==
    /\ cli[p].pc = "linger"
    /\ IF cli[p].job = "update" THEN Goto(p, "read") /\ UNCHANGED proc ELSE Leave(p, TRUE)
    /\ UNCHANGED <<pidfile, sock>>

-----------------------------------------------------------------------------
(* Stop and Nuke.                                                          *)

\* Stop returns nil; Env.Remove goes on.
StopDone(p) == IF cli[p].job = "remove" THEN Goto(p, "unsock") /\ UNCHANGED proc
                                        ELSE Leave(p, TRUE)

StopRead(p) ==
    /\ cli[p].pc = "read"
    /\ IF Running
       THEN /\ cli' = [cli EXCEPT ![p].pc = "term", ![p].pid = pidfile]
            /\ UNCHANGED <<proc, parent, pidfile, last, mayCrash>>
       ELSE pidfile' = NoPid /\ StopDone(p)
    /\ UNCHANGED sock

StopTerm(p) == /\ cli[p].pc = "term"
               /\ proc' = Signalled(cli[p].pid, "leaving")
               /\ Goto(p, "poll")
               /\ UNCHANGED <<pidfile, sock>>

\* Mutant: no SIGKILL after the wait.
StopPollGivesUp(p) == /\ cli[p].pc = "poll" /\ Goto(p, "forget")
                      /\ UNCHANGED <<proc, pidfile, sock>>

\* Wait until the pid is gone, or kill it after 10s and do not wait.
StopPoll(p) ==
    /\ cli[p].pc = "poll"
    /\ proc' = Signalled(cli[p].pid, "dying")
    /\ Goto(p, "forget")
    /\ UNCHANGED <<pidfile, sock>>

StopForget(p) == /\ cli[p].pc = "forget" /\ pidfile' = NoPid /\ StopDone(p)
                 /\ UNCHANGED sock

\* SIGTERM is refused: Stop's error is only a warning to Env.Remove ...
StopRefused(p) == /\ mayCrash /\ cli[p].pc = "term" /\ cli[p].job = "remove"
                  /\ Goto(p, "unsock")
                  /\ UNCHANGED <<proc, pidfile, sock>>

\* ... which removes the socket path in any case.
RemoveSocket(p) == /\ cli[p].pc = "unsock" /\ sock' = NoPid /\ Leave(p, TRUE)
                   /\ UNCHANGED pidfile

\* Mutant: SIGTERM instead of SIGKILL.
NukeTerminates(p) ==
    /\ cli[p].pc = "kill"
    /\ IF Running
       THEN /\ proc' = Signalled(pidfile, "leaving")
            /\ cli' = [cli EXCEPT ![p].pc = "reaped", ![p].pid = pidfile]
            /\ UNCHANGED <<parent, last, mayCrash>>
       ELSE Goto(p, "rmsock") /\ UNCHANGED proc
    /\ UNCHANGED <<pidfile, sock>>

NukeKill(p) ==
    /\ cli[p].pc = "kill"
    /\ IF Running
       THEN /\ proc' = Signalled(pidfile, "dying")
            /\ cli' = [cli EXCEPT ![p].pc = "reaped", ![p].pid = pidfile]
            /\ UNCHANGED <<parent, last, mayCrash>>
       ELSE Goto(p, "rmsock") /\ UNCHANGED proc
    /\ UNCHANGED <<pidfile, sock>>

\* Wait at most 5s for it to be gone, then go on.
NukeWait(p) == /\ cli[p].pc = "reaped" /\ Goto(p, "rmsock")
               /\ UNCHANGED <<proc, pidfile, sock>>

NukeSocket(p) == /\ cli[p].pc = "rmsock" /\ sock' = NoPid /\ Goto(p, "forget")
                 /\ UNCHANGED <<proc, pidfile>>

-----------------------------------------------------------------------------
(* The daemon and the kernel.                                              *)

\* The daemon binds its socket; it cannot when the path exists, and exits.
Bind(i) ==
    /\ proc[i] = "boot"
    /\ IF sock = NoPid
       THEN proc' = [proc EXCEPT ![i] = "serving"] /\ sock' = i
       ELSE proc' = Ended(i) /\ UNCHANGED sock
    /\ UNCHANGED <<parent, pidfile, cli, last, mayCrash>>

\* A daemon told to leave closes its listener, which unlinks the PATH.
Leaves(i) ==
    /\ proc[i] = "leaving"
    /\ proc' = Ended(i) /\ sock' \in {sock, NoPid}
    /\ UNCHANGED <<parent, pidfile, cli, last, mayCrash>>

\* A killed or crashing daemon leaves its socket file behind.
Dies(i) ==
    /\ proc[i] \in {"boot", "serving", "dying"}
    /\ proc' = Ended(i)
    /\ UNCHANGED <<parent, pidfile, sock, cli, last, mayCrash>>

\* The kernel gives a free pid to an unrelated process, which ends some day.
PidReused(i) ==
    /\ Reuse /\ proc[i] \in {"free", "stranger"}
    /\ proc' = [proc EXCEPT ![i] = IF @ = "free" THEN "stranger" ELSE "free"]
    /\ UNCHANGED <<parent, pidfile, sock, cli, last, mayCrash>>

\* The CLI is killed (Ctrl-C), or a call of it fails and it returns the error:
\* mkdir or spawn, the pid file's write, kill without permission (without which
\* Nuke may not remove the files of the daemon's owner either).
Crash(p) ==
    /\ mayCrash /\ cli[p].pc # "idle"
    /\ cli' = [cli EXCEPT ![p] = IdleCLI]
    /\ parent' = [i \in Pids |-> IF parent[i] = p THEN Nobody ELSE parent[i]]
    /\ last' = [job |-> "none", ok |-> FALSE]
    /\ proc' = Reaped(p, proc)
    /\ UNCHANGED <<pidfile, sock, mayCrash>>

\* doctor on leftover state: a pid file whose process is gone, a socket no daemon
\* stands behind.
Leftovers == {x \in {"pid", "socket"} :
                \/ x = "pid" /\ pidfile # NoPid /\ ~Alive(pidfile)
                \/ x = "socket" /\ sock # NoPid /\ ~Running}

Step(p) == \/ StartCheck(p) \/ StartUnlink(p) \/ StartSpawn(p) \/ StartRecord(p)
           \/ StartWait(p) \/ Linger(p) \/ StopRead(p) \/ StopTerm(p) \/ StopPoll(p)
           \/ StopForget(p) \/ StopRefused(p) \/ RemoveSocket(p) \/ NukeKill(p) \/ NukeWait(p)
           \/ NukeSocket(p)

Next == \/ \E p \in Procs : (\E j \in Jobs : Begin(p, j)) \/ Step(p) \/ Crash(p)
        \/ \E i \in Pids : Bind(i) \/ Leaves(i) \/ Dies(i) \/ PidReused(i)

Spec == Init /\ [][Next]_vars

-----------------------------------------------------------------------------
(* Properties.                                                             *)

\* The variables have the types of the code's values.
TypeOK == /\ proc \in [Pids -> States]
          /\ parent \in [Pids -> Procs \cup {Nobody}]
          /\ pidfile \in Pids \cup {NoPid} /\ sock \in Pids \cup {NoPid}
          /\ cli \in [Procs -> [pc : Labels, job : Calls \cup {"none"},
                                pid : Pids \cup {NoPid}]]
          /\ last \in [job : Calls \cup {"none"}, ok : BOOLEAN]
          /\ mayCrash \in BOOLEAN

\* Between commands, none of which was killed.  (A kill between the spawn and
\* the pid file leaves a daemon that no command finds.)
Quiescent == ~mayCrash /\ \A p \in Procs : cli[p].pc = "idle"

Daemons == {i \in Pids : proc[i] \in {"boot", "serving", "leaving"}}

\* daemon.go on Start: "No-op if the daemon is already running".  Between
\* commands the pid file names every daemon of the instance, so there is at most
\* one and Stop and Nuke can reach it; the socket path leads to it, because neither
\* Start's removal of a stale socket nor a leaving daemon's cleanup cuts off a
\* live one; and doctor, whose advice is to nuke what it reports, reports nothing.
DaemonIsReachable ==
    Quiescent => /\ Daemons \subseteq {pidfile}
                 /\ \A i \in Pids : proc[i] = "serving" => sock = i
                 /\ Daemons # {} => Leftovers = {}

\* daemon.go on Stop and Nuke: once one of them has returned nil no daemon is
\* left, and remove and nuke leave neither socket nor pid file.
StoppedMeansGone ==
    Quiescent /\ last.ok =>
        /\ last.job \in {"stop", "remove", "nuke"} => pidfile = NoPid /\ Daemons = {}
        /\ last.job \in {"remove", "nuke"} => sock = NoPid

\* A pid file goes away only when the process it names is no daemon any more,
\* or is already being killed: nobody forgets a live daemon, wherever commands
\* are killed.
ForgetOnlyDead == [][pidfile # NoPid /\ pidfile' = NoPid => pidfile \notin Daemons]_vars
=============================================================================
