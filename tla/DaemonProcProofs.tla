-------------------------- MODULE DaemonProcProofs --------------------------
(* Theorems about DaemonProc, for every set of pids and CLI processes.      *)
EXTENDS DaemonProc, TLAPS

\* A CLI process of the tuples of TypeOK.
CLI == [pc : Labels, job : Calls \cup {"none"}, pid : Pids \cup {NoPid}]

-----------------------------------------------------------------------------
(* The process table.  No call of the CLI but the spawn adds a daemon.      *)

LEMMA EndedIs ==
    ASSUME TypeOK, NEW i \in Pids, proc' = Ended(i)
    PROVE  /\ proc' \in [Pids -> States]
           /\ Daemons' \subseteq Daemons \ {i}
           /\ \A j \in Pids : proc'[j] = "serving" => proc[j] = "serving"
BY DEF TypeOK, Ended, States, Daemons

\* A signal: SIGTERM and SIGKILL differ in what becomes of the daemon.
LEMMA SignalledIs ==
    ASSUME TypeOK, NEW i \in Pids \cup {NoPid}, NEW new \in {"leaving", "dying"},
           proc' = Signalled(i, new)
    PROVE  /\ proc' \in [Pids -> States]
           /\ Daemons' \subseteq Daemons
           /\ new = "dying" => i \notin Daemons'
           /\ \A j \in Pids : proc'[j] = "serving" => proc[j] = "serving"
BY DEF TypeOK, Signalled, States, Daemons

LEMMA ReapedIs ==
    ASSUME TypeOK, NEW p \in Procs, proc' = Reaped(p, proc)
    PROVE  /\ proc' \in [Pids -> States]
           /\ Daemons' = Daemons
           /\ \A j \in Pids : proc'[j] = "serving" <=> proc[j] = "serving"
BY DEF TypeOK, Reaped, States, Daemons

\* The end of a command.
LEMMA LeaveIs ==
    ASSUME TypeOK, NEW p \in Procs, NEW ok \in BOOLEAN, Leave(p, ok)
    PROVE  /\ proc' \in [Pids -> States] /\ parent' \in [Pids -> Procs \cup {Nobody}]
           /\ cli' = [cli EXCEPT ![p] = IdleCLI] /\ cli' \in [Procs -> CLI]
           /\ last' = [job |-> cli[p].job, ok |-> ok]
           /\ last' \in [job : Calls \cup {"none"}, ok : BOOLEAN]
           /\ mayCrash' = mayCrash
           /\ Daemons' = Daemons
           /\ \A j \in Pids : proc'[j] = "serving" <=> proc[j] = "serving"
<1>1. proc' = Reaped(p, proc) /\ Return(p, ok)
  BY DEF Leave
<1>2. cli' = [cli EXCEPT ![p] = IdleCLI] /\ cli' \in [Procs -> CLI]
  BY <1>1 DEF Return, TypeOK, CLI, IdleCLI, Labels
<1>3. parent' \in [Pids -> Procs \cup {Nobody}]
  BY <1>1 DEF Return, TypeOK
<1>4. /\ last' = [job |-> cli[p].job, ok |-> ok]
      /\ last' \in [job : Calls \cup {"none"}, ok : BOOLEAN]
  BY <1>1 DEF Return, TypeOK
<1>5. mayCrash' = mayCrash
  BY <1>1 DEF Return
<1> QED BY <1>1, <1>2, <1>3, <1>4, <1>5, ReapedIs

\* A step inside a command.
LEMMA GotoIs ==
    ASSUME TypeOK, NEW p \in Procs, NEW l \in Labels, Goto(p, l)
    PROVE  /\ cli' \in [Procs -> CLI] /\ cli' = [cli EXCEPT ![p].pc = l]
           /\ UNCHANGED <<parent, last, mayCrash>>
BY DEF Goto, TypeOK, CLI

LEMMA CliIs ==
    ASSUME TypeOK, NEW p \in Procs, NEW l \in Labels, NEW i \in Pids \cup {NoPid},
           cli' = [cli EXCEPT ![p].pc = l, ![p].pid = i]
    PROVE  cli' \in [Procs -> CLI]
<1> DEFINE d == [cli[p] EXCEPT !.pc = l, !.pid = i]
<1>1. cli \in [Procs -> CLI]
  BY DEF TypeOK, CLI
<1>2. d \in CLI
  BY <1>1 DEF CLI
<1>3. cli' = [cli EXCEPT ![p] = d]
  BY <1>1
<1> HIDE DEF d
<1> QED BY <1>1, <1>2, <1>3

-----------------------------------------------------------------------------
(* Types.                                                                  *)

LEMMA TypeInit == Init => TypeOK
<1> SUFFICES ASSUME Init PROVE TypeOK
  OBVIOUS
<1>1. IdleCLI \in CLI
  BY DEF IdleCLI, CLI, Labels
<1>2. cli \in [Procs -> CLI]
  BY <1>1 DEF Init
<1>3. proc \in [Pids -> States] /\ parent \in [Pids -> Procs \cup {Nobody}]
  BY DEF Init, States
<1>4. last \in [job : Calls \cup {"none"}, ok : BOOLEAN]
  BY DEF Init
<1> QED BY <1>2, <1>3, <1>4 DEF Init, TypeOK, CLI

LEMMA TypeStep == TypeOK /\ [Next]_vars => TypeOK'
<1> SUFFICES ASSUME TypeOK, [Next]_vars PROVE TypeOK'
  OBVIOUS
<1>0. ASSUME NEW p \in Procs PROVE cli[p] \in CLI
  BY DEF TypeOK, CLI
<1> USE DEF CLI
<1>1. CASE UNCHANGED vars
  BY <1>1 DEF vars, TypeOK
<1>2. ASSUME NEW p \in Procs, NEW j \in Jobs, Begin(p, j) PROVE TypeOK'
  <2>1. cli' \in [Procs -> CLI]
    BY <1>2, ParamsAssumption DEF Begin, TypeOK, Labels
  <2> QED BY <1>2, <2>1 DEF Begin, TypeOK
<1>3. ASSUME NEW p \in Procs, Step(p) PROVE TypeOK'
  <2> USE DEF Labels
  <2>1. CASE StartCheck(p)
    <3>1. CASE Leave(p, TRUE)
      BY <2>1, <3>1, LeaveIs DEF StartCheck, TypeOK
    <3>2. CASE Goto(p, "unlink") /\ UNCHANGED proc
      BY <2>1, <3>2, GotoIs DEF StartCheck, TypeOK
    <3> QED BY <2>1, <3>1, <3>2 DEF StartCheck
  <2>2. CASE StartUnlink(p)
    BY <2>2, GotoIs DEF StartUnlink, TypeOK
  <2>3. CASE StartSpawn(p)
    <3>1. ASSUME NEW i \in Pids, proc' = [proc EXCEPT ![i] = "boot"],
                 parent' = [parent EXCEPT ![i] = p],
                 cli' = [cli EXCEPT ![p].pc = "record", ![p].pid = i],
                 UNCHANGED <<last, mayCrash, pidfile, sock>>
          PROVE  TypeOK'
      BY <3>1, CliIs DEF TypeOK, States
    <3>2. CASE Leave(p, FALSE)
      BY <2>3, <3>2, LeaveIs DEF StartSpawn, TypeOK
    <3> QED BY <2>3, <3>1, <3>2 DEF StartSpawn
  <2>4. CASE StartRecord(p)
    BY <1>0, <2>4, GotoIs DEF StartRecord, TypeOK
  <2>5. CASE StartWait(p)
    <3>1. CASE Leave(p, FALSE)
      BY <2>5, <3>1, LeaveIs DEF StartWait, TypeOK
    <3>2. CASE Goto(p, "linger") /\ UNCHANGED proc
      BY <2>5, <3>2, GotoIs DEF StartWait, TypeOK
    <3> QED BY <2>5, <3>1, <3>2 DEF StartWait
  <2>6. CASE Linger(p)
    <3>1. CASE Leave(p, TRUE)
      BY <2>6, <3>1, LeaveIs DEF Linger, TypeOK
    <3>2. CASE Goto(p, "read") /\ UNCHANGED proc
      BY <2>6, <3>2, GotoIs DEF Linger, TypeOK
    <3> QED BY <2>6, <3>1, <3>2 DEF Linger
  <2>7. ASSUME StopDone(p), pidfile' = NoPid, UNCHANGED sock PROVE TypeOK'
    <3>1. CASE Leave(p, TRUE)
      BY <2>7, <3>1, LeaveIs DEF TypeOK
    <3>2. CASE Goto(p, "unsock") /\ UNCHANGED proc
      BY <2>7, <3>2, GotoIs DEF TypeOK
    <3> QED BY <2>7, <3>1, <3>2 DEF StopDone
  <2>8. CASE StopRead(p)
    <3>1. CASE Running
      <4>1. cli' \in [Procs -> CLI]
        BY <2>8, <3>1, CliIs DEF StopRead, TypeOK
      <4> QED BY <2>8, <3>1, <4>1 DEF StopRead, TypeOK
    <3>2. CASE ~Running
      BY <2>7, <2>8, <3>2 DEF StopRead
    <3> QED BY <3>1, <3>2
  <2>9. CASE StopTerm(p)
    BY <1>0, <2>9, GotoIs, SignalledIs DEF StopTerm, TypeOK
  <2>10. CASE StopPoll(p)
    BY <1>0, <2>10, GotoIs, SignalledIs DEF StopPoll, TypeOK
  <2>11. CASE StopForget(p)
    BY <2>7, <2>11 DEF StopForget
  <2>12. CASE StopRefused(p)
    BY <2>12, GotoIs DEF StopRefused, TypeOK
  <2>13. CASE RemoveSocket(p)
    BY <2>13, LeaveIs DEF RemoveSocket, TypeOK
  <2>14. CASE NukeKill(p)
    <3>1. CASE Running
      <4>1. cli' \in [Procs -> CLI]
        BY <2>14, <3>1, CliIs DEF NukeKill, TypeOK
      <4>2. proc' \in [Pids -> States]
        BY <2>14, <3>1, SignalledIs DEF NukeKill, TypeOK
      <4> QED BY <2>14, <3>1, <4>1, <4>2 DEF NukeKill, TypeOK
    <3>2. CASE ~Running
      BY <2>14, <3>2, GotoIs DEF NukeKill, TypeOK
    <3> QED BY <3>1, <3>2
  <2>15. CASE NukeWait(p)
    BY <2>15, GotoIs DEF NukeWait, TypeOK
  <2>16. CASE NukeSocket(p)
    BY <2>16, GotoIs DEF NukeSocket, TypeOK
  <2> QED BY <1>3, <2>1, <2>2, <2>3, <2>4, <2>5, <2>6, <2>8, <2>9, <2>10, <2>11, <2>12,
             <2>13, <2>14, <2>15, <2>16 DEF Step
<1>4. ASSUME NEW p \in Procs, Crash(p) PROVE TypeOK'
  <2>1. cli' \in [Procs -> CLI]
    BY <1>4 DEF Crash, TypeOK, IdleCLI, Labels
  <2>2. proc' \in [Pids -> States]
    BY <1>4, ReapedIs DEF Crash
  <2> QED BY <1>4, <2>1, <2>2 DEF Crash, TypeOK
<1>5. ASSUME NEW i \in Pids, Bind(i) PROVE TypeOK'
  <2>1. proc' \in [Pids -> States] /\ sock' \in Pids \cup {NoPid}
    BY <1>5, EndedIs DEF Bind, TypeOK, States
  <2> QED BY <1>5, <2>1 DEF Bind, TypeOK
<1>6. ASSUME NEW i \in Pids, Leaves(i) PROVE TypeOK'
  BY <1>6, EndedIs DEF Leaves, TypeOK
<1>7. ASSUME NEW i \in Pids, Dies(i) PROVE TypeOK'
  BY <1>7, EndedIs DEF Dies, TypeOK
<1>8. ASSUME NEW i \in Pids, PidReused(i) PROVE TypeOK'
  BY <1>8 DEF PidReused, TypeOK, States
<1> QED BY <1>1, <1>2, <1>3, <1>4, <1>5, <1>6, <1>7, <1>8 DEF Next

-----------------------------------------------------------------------------
(* One command at a time.                                                  *)

Busy(p) == cli[p].pc # "idle"
OneBusy == \A p, q \in Procs : Busy(p) /\ Busy(q) => p = q

\* Whose step a label belongs to.
JobInv(p) == LET pc == cli[p].pc  job == cli[p].job
             IN /\ pc \in {"check", "unlink", "spawn", "record", "wait", "linger"}
                      => job \in {"start", "update"}
                /\ pc \in {"read", "term", "poll"} => job \in {"stop", "remove", "update"}
                /\ pc \in {"kill", "reaped", "rmsock"} => job = "nuke"
                /\ pc = "unsock" => job = "remove"
                /\ pc = "forget" => job \in {"stop", "remove", "update", "nuke"}

\* Stop signals the process the pid file names, and what is about to be forgotten
\* is no daemon any more; Start records a pid.
ForgetInv(p) == /\ cli[p].pc \in {"term", "poll"} => cli[p].pid = pidfile
                /\ cli[p].pc \in {"reaped", "rmsock", "forget"} => pidfile \notin Daemons
                /\ cli[p].pc = "record" => cli[p].pid # NoPid

\* What the busy command, if none was killed, knows about daemons: the only one is
\* that of the pid file, or the one it has just spawned; past Running's "no", and
\* past the kill, there is none.
KnownInv(p) ==
    /\ cli[p].pc = "record" => Daemons \subseteq {cli[p].pid}
    /\ cli[p].pc # "record" => Daemons \subseteq {pidfile}
    /\ cli[p].pc \in {"unlink", "spawn", "reaped", "rmsock", "forget", "unsock"} => Daemons = {}
    /\ cli[p].pc = "unsock" => pidfile = NoPid
    /\ cli[p].pc = "forget" /\ cli[p].job = "nuke" => sock = NoPid

\* The socket path leads to the daemon that serves.
SockInv == \A i \in Pids : proc[i] = "serving" => sock = i

\* Between commands.
RestInv == (\A p \in Procs : ~Busy(p)) =>
              /\ Daemons \subseteq {pidfile}
              /\ last.ok /\ last.job \in {"stop", "remove", "nuke"} => pidfile = NoPid
              /\ last.ok /\ last.job \in {"remove", "nuke"} => sock = NoPid

SerialInv == /\ OneBusy
             /\ \A p \in Procs : Busy(p) => JobInv(p) /\ ForgetInv(p)
             /\ ~mayCrash => /\ \A p \in Procs : Busy(p) => KnownInv(p)
                             /\ SockInv /\ RestInv

LEMMA SerialInit == Init => SerialInv
BY DEF Init, SerialInv, OneBusy, Busy, IdleCLI, SockInv, RestInv, Daemons

\* The others are idle while p is busy.
LEMMA Alone ==
    ASSUME SerialInv, NEW p \in Procs, Busy(p)
    PROVE  \A q \in Procs \ {p} : cli[q].pc = "idle"
BY DEF SerialInv, OneBusy, Busy

\* A step after which p is (still) the busy one.
LEMMA Moves ==
    ASSUME SerialInv, NEW p \in Procs, mayCrash' = mayCrash,
           \A q \in Procs \ {p} : cli[q].pc = "idle" /\ cli'[q] = cli[q],
           Busy(p)', JobInv(p)', ForgetInv(p)', ~mayCrash => KnownInv(p)' /\ SockInv'
    PROVE  SerialInv'
<1>1. \A q \in Procs \ {p} : ~Busy(q)'
  BY DEF Busy
<1>2. OneBusy'
  BY <1>1 DEF OneBusy
<1>3. RestInv'
  BY DEF RestInv
<1> QED BY <1>1, <1>2, <1>3 DEF SerialInv

\* A step after which nobody is busy.
LEMMA Returns ==
    ASSUME SerialInv, NEW p \in Procs, mayCrash' = mayCrash,
           \A q \in Procs \ {p} : cli[q].pc = "idle" /\ cli'[q] = cli[q],
           ~Busy(p)', ~mayCrash => RestInv' /\ SockInv'
    PROVE  SerialInv'
<1>1. \A q \in Procs : ~Busy(q)'
  BY DEF Busy
<1>2. OneBusy'
  BY <1>1 DEF OneBusy
<1> QED BY <1>1, <1>2 DEF SerialInv

\* Goto and Leave, as far as the invariant looks at them.
LEMMA GotoAt ==
    ASSUME TypeOK, SerialInv, NEW p \in Procs, Busy(p), NEW l \in Labels \ {"idle"}, Goto(p, l)
    PROVE  /\ \A q \in Procs \ {p} : cli[q].pc = "idle" /\ cli'[q] = cli[q]
           /\ cli'[p].pc = l /\ cli'[p].job = cli[p].job /\ cli'[p].pid = cli[p].pid
           /\ Busy(p)' /\ mayCrash' = mayCrash /\ last' = last
BY Alone DEF Goto, TypeOK, Busy

LEMMA LeaveAt ==
    ASSUME TypeOK, SerialInv, NEW p \in Procs, Busy(p), NEW ok \in BOOLEAN, Leave(p, ok)
    PROVE  /\ \A q \in Procs \ {p} : cli[q].pc = "idle" /\ cli'[q] = cli[q]
           /\ ~Busy(p)' /\ mayCrash' = mayCrash
           /\ last'.ok = ok /\ last'.job = cli[p].job
           /\ Daemons' = Daemons
           /\ \A j \in Pids : proc'[j] = "serving" <=> proc[j] = "serving"
<1>1. cli' = [cli EXCEPT ![p] = IdleCLI] /\ last' = [job |-> cli[p].job, ok |-> ok]
      /\ mayCrash' = mayCrash /\ Daemons' = Daemons
      /\ \A j \in Pids : proc'[j] = "serving" <=> proc[j] = "serving"
  BY LeaveIs
<1>2. cli'[p] = IdleCLI /\ \A q \in Procs \ {p} : cli'[q] = cli[q]
  BY <1>1 DEF TypeOK
<1> QED BY <1>1, <1>2, Alone DEF Busy, IdleCLI

\* The daemon and the kernel only ever end daemons; the socket of a daemon that
\* binds is its own.
LEMMA KernelInv ==
    ASSUME SerialInv, UNCHANGED <<cli, pidfile, last, mayCrash>>,
           Daemons' \subseteq Daemons, SockInv /\ ~mayCrash => SockInv',
           sock' \in {sock, NoPid} \/ Daemons # {}
    PROVE  SerialInv'
<1>1. OneBusy'
  BY DEF SerialInv, OneBusy, Busy
<1>2. ASSUME NEW p \in Procs, Busy(p)' PROVE JobInv(p)' /\ ForgetInv(p)'
  <2>1. Busy(p) /\ JobInv(p) /\ ForgetInv(p)
    BY <1>2 DEF SerialInv, Busy
  <2> QED BY <2>1 DEF JobInv, ForgetInv
<1>3. ASSUME ~mayCrash, NEW p \in Procs, Busy(p)' PROVE KnownInv(p)'
  <2>1. KnownInv(p)
    BY <1>3 DEF SerialInv, Busy
  <2> QED BY <2>1 DEF KnownInv
<1>4. ASSUME ~mayCrash PROVE RestInv'
  <2>1. RestInv
    BY <1>4 DEF SerialInv
  <2> QED BY <2>1, ParamsAssumption DEF RestInv, Busy, Daemons
<1> QED BY <1>1, <1>2, <1>3, <1>4 DEF SerialInv

\* After Running's "no" there is no daemon, if the pid file names them all.
LEMMA NotRunning ==
    ASSUME TypeOK, ~Running
    PROVE  /\ pidfile \notin Daemons
           /\ Daemons \subseteq {pidfile} => Daemons = {}
BY ParamsAssumption DEF TypeOK, Running, Alive, Daemons

-----------------------------------------------------------------------------
(* The steps of a command.                                                 *)

LEMMA BeginInv ==
    ASSUME Serial, TypeOK, SerialInv, NEW p \in Procs, NEW j \in Jobs, Begin(p, j)
    PROVE  SerialInv'
<1>1. /\ \A q \in Procs : cli[q].pc = "idle"
      /\ UNCHANGED <<proc, pidfile, sock, last, mayCrash>>
  BY DEF Begin
<1>2. \A q \in Procs \ {p} : cli'[q] = cli[q]
  BY DEF Begin, TypeOK
<1>3. /\ cli'[p].job = j /\ j \in Calls
      /\ cli'[p].pc = CASE j \in {"start", "update"} -> "check"
                        [] j \in {"stop", "remove"}  -> "read"
                        [] OTHER                     -> "kill"
  BY ParamsAssumption DEF Begin, TypeOK
<1>4. Busy(p)' /\ JobInv(p)'
  BY <1>3 DEF Busy, JobInv, Calls
<1>5. ForgetInv(p)'
  BY <1>3 DEF ForgetInv
<1>6. ASSUME ~mayCrash PROVE KnownInv(p)' /\ SockInv'
  <2>1. Daemons \subseteq {pidfile} /\ SockInv
    BY <1>1, <1>6 DEF SerialInv, RestInv, Busy
  <2>2. Daemons' = Daemons
    BY <1>1 DEF Daemons
  <2> QED BY <1>1, <1>3, <2>1, <2>2 DEF KnownInv, SockInv
<1> QED BY <1>1, <1>2, <1>4, <1>5, <1>6, Moves

\* Start and Linger as far as they return: nothing is known of the daemons but
\* what the pid file says.
LEMMA StartReturns ==
    ASSUME TypeOK, SerialInv, NEW p \in Procs, NEW ok \in BOOLEAN, Leave(p, ok),
           cli[p].pc \in {"check", "spawn", "wait", "linger"}, UNCHANGED <<pidfile, sock>>
    PROVE  SerialInv'
<1>1. Busy(p)
  BY DEF Busy
<1>2. ASSUME ~mayCrash PROVE RestInv' /\ SockInv'
  <2>1. Daemons \subseteq {pidfile} /\ SockInv /\ cli[p].job \in {"start", "update"}
    BY <1>1, <1>2 DEF SerialInv, KnownInv, JobInv
  <2> QED BY <1>1, <2>1, LeaveAt DEF RestInv, SockInv
<1> QED BY <1>1, <1>2, LeaveAt, Returns

\* A step that leaves the process table, the pid file and the socket alone and
\* learns nothing new.
LEMMA PlainGoto ==
    ASSUME TypeOK, SerialInv, NEW p \in Procs, Busy(p), NEW l \in Labels \ {"idle"},
           Goto(p, l), UNCHANGED <<proc, pidfile, sock>>,
           JobInv(p)', ForgetInv(p)', ~mayCrash => KnownInv(p)'
    PROVE  SerialInv'
<1>1. SockInv => SockInv'
  BY DEF SockInv
<1>2. ~mayCrash => SockInv'
  BY <1>1 DEF SerialInv
<1> QED BY <1>2, GotoAt, Moves

LEMMA StartCheckInv ==
    ASSUME TypeOK, SerialInv, NEW p \in Procs, StartCheck(p) PROVE SerialInv'
<1>1. cli[p].pc = "check" /\ UNCHANGED <<pidfile, sock>> /\ Busy(p)
  BY DEF StartCheck, Busy
<1>2. CASE Running
  BY <1>1, <1>2, StartReturns DEF StartCheck
<1>3. CASE ~Running
  <2>1. Goto(p, "unlink") /\ UNCHANGED proc
    BY <1>3 DEF StartCheck
  <2>2. cli'[p].pc = "unlink" /\ cli'[p].job = cli[p].job
    BY <1>1, <2>1, GotoAt DEF Labels
  <2>3. JobInv(p)' /\ ForgetInv(p)'
    BY <1>1, <2>2 DEF SerialInv, JobInv, ForgetInv
  <2>4. ASSUME ~mayCrash PROVE KnownInv(p)'
    <3>1. Daemons = {}
      BY <1>1, <1>3, <2>4, NotRunning DEF SerialInv, KnownInv
    <3>2. Daemons' = Daemons
      BY <2>1 DEF Daemons
    <3> QED BY <2>2, <3>1, <3>2 DEF KnownInv
  <2> QED BY <1>1, <2>1, <2>3, <2>4, PlainGoto DEF Labels
<1> QED BY <1>2, <1>3

LEMMA StartUnlinkInv ==
    ASSUME TypeOK, SerialInv, NEW p \in Procs, StartUnlink(p) PROVE SerialInv'
<1>1. cli[p].pc = "unlink" /\ Goto(p, "spawn") /\ UNCHANGED <<proc, pidfile>> /\ Busy(p)
  BY DEF StartUnlink, Busy
<1>2. cli'[p].pc = "spawn" /\ cli'[p].job = cli[p].job
  BY <1>1, GotoAt DEF Labels
<1>3. JobInv(p)' /\ ForgetInv(p)'
  BY <1>1, <1>2 DEF SerialInv, JobInv, ForgetInv
<1>4. ASSUME ~mayCrash PROVE KnownInv(p)' /\ SockInv'
  <2>1. Daemons = {}
    BY <1>1, <1>4 DEF SerialInv, KnownInv
  <2>2. Daemons' = Daemons
    BY <1>1 DEF Daemons
  <2>3. SockInv'
    BY <2>1, <2>2 DEF SockInv, Daemons
  <2> QED BY <1>2, <2>1, <2>2, <2>3 DEF KnownInv
<1> QED BY <1>1, <1>3, <1>4, GotoAt, Moves DEF Labels

LEMMA StartSpawnInv ==
    ASSUME TypeOK, SerialInv, NEW p \in Procs, StartSpawn(p) PROVE SerialInv'
<1>1. cli[p].pc = "spawn" /\ UNCHANGED <<pidfile, sock>> /\ Busy(p)
  BY DEF StartSpawn, Busy
<1>2. ASSUME NEW i \in Pids, proc[i] = "free", proc' = [proc EXCEPT ![i] = "boot"],
             cli' = [cli EXCEPT ![p].pc = "record", ![p].pid = i], mayCrash' = mayCrash
      PROVE  SerialInv'
  <2>1. cli'[p].pc = "record" /\ cli'[p].job = cli[p].job /\ cli'[p].pid = i
        /\ \A q \in Procs \ {p} : cli'[q] = cli[q]
    BY <1>2 DEF TypeOK
  <2>2. Busy(p)' /\ JobInv(p)' /\ ForgetInv(p)'
    BY <1>1, <2>1, ParamsAssumption DEF SerialInv, Busy, JobInv, ForgetInv
  <2>3. ASSUME ~mayCrash PROVE KnownInv(p)' /\ SockInv'
    <3>1. Daemons = {}
      BY <1>1, <2>3 DEF SerialInv, KnownInv
    <3>2. Daemons' = {i}
      BY <1>2, <3>1 DEF Daemons, TypeOK
    <3>3. SockInv'
      BY <1>2, <3>1 DEF SockInv, Daemons, TypeOK
    <3> QED BY <2>1, <3>2, <3>3 DEF KnownInv
  <2> QED BY <1>1, <1>2, <2>1, <2>2, <2>3, Alone, Moves
<1>3. CASE Leave(p, FALSE)
  BY <1>1, <1>3, StartReturns
<1> QED BY <1>2, <1>3 DEF StartSpawn

LEMMA StartRecordInv ==
    ASSUME TypeOK, SerialInv, NEW p \in Procs, StartRecord(p) PROVE SerialInv'
<1>1. /\ cli[p].pc = "record" /\ pidfile' = cli[p].pid /\ Goto(p, "wait")
      /\ UNCHANGED <<proc, sock>> /\ Busy(p)
  BY DEF StartRecord, Busy
<1>2. cli'[p].pc = "wait" /\ cli'[p].job = cli[p].job
  BY <1>1, GotoAt DEF Labels
<1>3. JobInv(p)' /\ ForgetInv(p)'
  BY <1>1, <1>2 DEF SerialInv, JobInv, ForgetInv
<1>4. ASSUME ~mayCrash PROVE KnownInv(p)' /\ SockInv'
  <2>1. Daemons \subseteq {pidfile'} /\ SockInv
    BY <1>1, <1>4 DEF SerialInv, KnownInv
  <2>2. Daemons' = Daemons /\ SockInv'
    BY <1>1, <2>1 DEF Daemons, SockInv
  <2> QED BY <1>2, <2>1, <2>2 DEF KnownInv
<1> QED BY <1>1, <1>3, <1>4, GotoAt, Moves DEF Labels

\* StartWait, Linger, NukeWait: on to a label that promises no more.
LEMMA OnwardInv ==
    ASSUME TypeOK, SerialInv, NEW p \in Procs, NEW l \in Labels \ {"idle"}, Goto(p, l),
           UNCHANGED <<proc, pidfile, sock>>,
           \/ cli[p].pc = "wait" /\ l = "linger"
           \/ cli[p].pc = "linger" /\ cli[p].job = "update" /\ l = "read"
           \/ cli[p].pc = "reaped" /\ l = "rmsock"
    PROVE  SerialInv'
<1>1. Busy(p) /\ Daemons' = Daemons
  BY DEF Busy, Daemons
<1>2. cli'[p].pc = l /\ cli'[p].job = cli[p].job
  BY <1>1, GotoAt
<1>3. JobInv(p)' /\ ForgetInv(p)'
  BY <1>1, <1>2 DEF SerialInv, JobInv, ForgetInv
<1>4. ASSUME ~mayCrash PROVE KnownInv(p)'
  BY <1>1, <1>2, <1>4 DEF SerialInv, KnownInv
<1> QED BY <1>1, <1>3, <1>4, PlainGoto

\* Stop, and Nuke's last step: the pid file goes, and with it the last that is
\* known of a daemon, so there must be none.
LEMMA StopDoneInv ==
    ASSUME TypeOK, SerialInv, NEW p \in Procs, StopDone(p), pidfile' = NoPid, UNCHANGED sock,
           cli[p].pc \in {"read", "forget"}, ~mayCrash => Daemons = {}
    PROVE  SerialInv'
<1>1. Busy(p) /\ JobInv(p)
  BY DEF Busy, SerialInv
<1>2. CASE cli[p].job = "remove"
  <2>1. Goto(p, "unsock") /\ UNCHANGED proc
    BY <1>2 DEF StopDone
  <2>2. cli'[p].pc = "unsock" /\ cli'[p].job = "remove"
    BY <1>1, <1>2, <2>1, GotoAt DEF Labels
  <2>3. JobInv(p)' /\ ForgetInv(p)'
    BY <2>2 DEF JobInv, ForgetInv
  <2>4. ~mayCrash => KnownInv(p)' /\ SockInv'
    BY <2>1, <2>2 DEF KnownInv, SockInv, SerialInv, Daemons
  <2> QED BY <1>1, <2>1, <2>3, <2>4, GotoAt, Moves DEF Labels
<1>3. CASE cli[p].job # "remove"
  <2>1. Leave(p, TRUE)
    BY <1>3 DEF StopDone
  <2>2. ASSUME ~mayCrash PROVE RestInv' /\ SockInv'
    <3>1. SockInv /\ KnownInv(p)
      BY <1>1, <2>2 DEF SerialInv
    <3>2. cli[p].job = "nuke" => sock = NoPid
      BY <1>1, <3>1 DEF JobInv, KnownInv
    <3> QED BY <1>1, <1>3, <2>1, <2>2, <3>1, <3>2, LeaveAt DEF RestInv, SockInv
  <2> QED BY <1>1, <2>1, <2>2, LeaveAt, Returns
<1> QED BY <1>2, <1>3

LEMMA StopReadInv ==
    ASSUME TypeOK, SerialInv, NEW p \in Procs, StopRead(p) PROVE SerialInv'
<1>1. cli[p].pc = "read" /\ UNCHANGED sock /\ Busy(p)
  BY DEF StopRead, Busy
<1>2. CASE Running
  <2>1. /\ cli' = [cli EXCEPT ![p].pc = "term", ![p].pid = pidfile]
        /\ UNCHANGED <<proc, pidfile, last, mayCrash>>
    BY <1>2 DEF StopRead
  <2>2. cli'[p].pc = "term" /\ cli'[p].job = cli[p].job /\ cli'[p].pid = pidfile
        /\ \A q \in Procs \ {p} : cli'[q] = cli[q]
    BY <2>1 DEF TypeOK
  <2>3. Busy(p)' /\ JobInv(p)' /\ ForgetInv(p)'
    BY <1>1, <2>1, <2>2 DEF SerialInv, Busy, JobInv, ForgetInv
  <2>4. ~mayCrash => KnownInv(p)' /\ SockInv'
    BY <1>1, <2>1, <2>2 DEF SerialInv, KnownInv, SockInv, Daemons
  <2> QED BY <1>1, <2>1, <2>2, <2>3, <2>4, Alone, Moves
<1>3. CASE ~Running
  <2>1. pidfile' = NoPid /\ StopDone(p)
    BY <1>3 DEF StopRead
  <2>2. ~mayCrash => Daemons = {}
    BY <1>1, <1>3, NotRunning DEF SerialInv, KnownInv
  <2> QED BY <1>1, <2>1, <2>2, StopDoneInv
<1> QED BY <1>2, <1>3

\* A signal to the process of the pid file.
LEMMA SignalInv ==
    ASSUME TypeOK, SerialInv, NEW p \in Procs, Goto(p, "poll") \/ Goto(p, "forget"),
           NEW new \in {"leaving", "dying"}, proc' = Signalled(cli[p].pid, new),
           UNCHANGED <<pidfile, sock>>,
           \/ cli[p].pc = "term" /\ new = "leaving" /\ Goto(p, "poll")
           \/ cli[p].pc = "poll" /\ new = "dying" /\ Goto(p, "forget")
    PROVE  SerialInv'
<1>1. Busy(p) /\ cli[p].pid = pidfile /\ JobInv(p) /\ cli[p].pid \in Pids \cup {NoPid}
  BY DEF Busy, SerialInv, ForgetInv, TypeOK
<1>2. PICK l \in {"poll", "forget"} : Goto(p, l) /\ (l = "forget" <=> new = "dying")
  OBVIOUS
<1>3. /\ cli'[p].pc = l /\ cli'[p].job = cli[p].job /\ cli'[p].pid = cli[p].pid
      /\ \A q \in Procs \ {p} : cli[q].pc = "idle" /\ cli'[q] = cli[q]
      /\ Busy(p)' /\ mayCrash' = mayCrash
  BY <1>1, <1>2, GotoAt DEF Labels
<1>4. /\ Daemons' \subseteq Daemons
      /\ new = "dying" => pidfile \notin Daemons'
      /\ \A j \in Pids : proc'[j] = "serving" => proc[j] = "serving"
  BY <1>1, SignalledIs
<1>5. JobInv(p)' /\ ForgetInv(p)'
  BY <1>1, <1>2, <1>3, <1>4 DEF JobInv, ForgetInv
<1>6. ASSUME ~mayCrash PROVE KnownInv(p)' /\ SockInv'
  <2>1. Daemons \subseteq {pidfile} /\ SockInv
    BY <1>1, <1>6 DEF SerialInv, KnownInv
  <2>2. cli[p].job # "nuke"
    BY <1>1 DEF JobInv
  <2> QED BY <1>2, <1>3, <1>4, <2>1, <2>2 DEF KnownInv, SockInv
<1> QED BY <1>3, <1>5, <1>6, Moves

LEMMA StopForgetInv ==
    ASSUME TypeOK, SerialInv, NEW p \in Procs, StopForget(p) PROVE SerialInv'
<1>1. cli[p].pc = "forget" /\ pidfile' = NoPid /\ StopDone(p) /\ UNCHANGED sock
  BY DEF StopForget
<1>2. ~mayCrash => Daemons = {}
  BY <1>1 DEF SerialInv, Busy, KnownInv
<1> QED BY <1>1, <1>2, StopDoneInv

LEMMA StopRefusedInv ==
    ASSUME TypeOK, SerialInv, NEW p \in Procs, StopRefused(p) PROVE SerialInv'
<1>1. /\ mayCrash /\ cli[p].job = "remove" /\ Goto(p, "unsock") /\ Busy(p)
      /\ UNCHANGED <<proc, pidfile, sock>>
  BY DEF StopRefused, Busy
<1>2. cli'[p].pc = "unsock" /\ cli'[p].job = "remove"
  BY <1>1, GotoAt DEF Labels
<1>3. JobInv(p)' /\ ForgetInv(p)'
  BY <1>2 DEF JobInv, ForgetInv
<1> QED BY <1>1, <1>3, PlainGoto DEF Labels

LEMMA RemoveSocketInv ==
    ASSUME TypeOK, SerialInv, NEW p \in Procs, RemoveSocket(p) PROVE SerialInv'
<1>1. cli[p].pc = "unsock" /\ sock' = NoPid /\ Leave(p, TRUE) /\ UNCHANGED pidfile /\ Busy(p)
  BY DEF RemoveSocket, Busy
<1>2. ASSUME ~mayCrash PROVE RestInv' /\ SockInv'
  <2>1. Daemons = {} /\ pidfile = NoPid
    BY <1>1, <1>2 DEF SerialInv, KnownInv
  <2>2. Daemons' = {}
    BY <1>1, <2>1, LeaveAt
  <2>3. SockInv'
    BY <2>2 DEF SockInv, Daemons
  <2> QED BY <1>1, <2>1, <2>2, <2>3 DEF RestInv
<1> QED BY <1>1, <1>2, LeaveAt, Returns

LEMMA NukeKillInv ==
    ASSUME TypeOK, SerialInv, NEW p \in Procs, NukeKill(p) PROVE SerialInv'
<1>1. cli[p].pc = "kill" /\ UNCHANGED <<pidfile, sock>> /\ Busy(p) /\ JobInv(p)
  BY DEF NukeKill, Busy, SerialInv
<1>2. CASE Running
  <2>1. /\ proc' = Signalled(pidfile, "dying")
        /\ cli' = [cli EXCEPT ![p].pc = "reaped", ![p].pid = pidfile]
        /\ UNCHANGED <<last, mayCrash>>
    BY <1>2 DEF NukeKill
  <2>2. cli'[p].pc = "reaped" /\ cli'[p].job = cli[p].job /\ cli'[p].pid = pidfile
        /\ \A q \in Procs \ {p} : cli'[q] = cli[q]
    BY <2>1 DEF TypeOK
  <2>3. /\ Daemons' \subseteq Daemons /\ pidfile \notin Daemons'
        /\ \A j \in Pids : proc'[j] = "serving" => proc[j] = "serving"
    <3>1. pidfile \in Pids \cup {NoPid}
      BY DEF TypeOK
    <3> QED BY <2>1, <3>1, SignalledIs
  <2>4. Busy(p)' /\ JobInv(p)' /\ ForgetInv(p)'
    BY <1>1, <2>2, <2>3 DEF Busy, JobInv, ForgetInv
  <2>5. ASSUME ~mayCrash PROVE KnownInv(p)' /\ SockInv'
    <3>1. Daemons \subseteq {pidfile} /\ SockInv
      BY <1>1, <2>5 DEF SerialInv, KnownInv
    <3> QED BY <1>1, <2>2, <2>3, <3>1 DEF KnownInv, SockInv
  <2> QED BY <1>1, <2>1, <2>2, <2>4, <2>5, Alone, Moves
<1>3. CASE ~Running
  <2>1. Goto(p, "rmsock") /\ UNCHANGED proc
    BY <1>3 DEF NukeKill
  <2>2. cli'[p].pc = "rmsock" /\ cli'[p].job = cli[p].job
    BY <1>1, <2>1, GotoAt DEF Labels
  <2>3. Daemons' = Daemons
    BY <2>1 DEF Daemons
  <2>4. JobInv(p)' /\ ForgetInv(p)'
    BY <1>1, <1>3, <2>2, <2>3, NotRunning DEF JobInv, ForgetInv
  <2>5. ~mayCrash => KnownInv(p)'
    BY <1>1, <1>3, <2>2, <2>3, NotRunning DEF SerialInv, KnownInv
  <2> QED BY <1>1, <2>1, <2>4, <2>5, PlainGoto DEF Labels
<1> QED BY <1>2, <1>3

LEMMA NukeSocketInv ==
    ASSUME TypeOK, SerialInv, NEW p \in Procs, NukeSocket(p) PROVE SerialInv'
<1>1. /\ cli[p].pc = "rmsock" /\ sock' = NoPid /\ Goto(p, "forget") /\ UNCHANGED <<proc, pidfile>>
      /\ Busy(p) /\ Daemons' = Daemons
  BY DEF NukeSocket, Busy, Daemons
<1>2. cli'[p].pc = "forget" /\ cli'[p].job = cli[p].job
  BY <1>1, GotoAt DEF Labels
<1>3. JobInv(p)' /\ ForgetInv(p)'
  BY <1>1, <1>2 DEF SerialInv, JobInv, ForgetInv
<1>4. ASSUME ~mayCrash PROVE KnownInv(p)' /\ SockInv'
  <2>1. Daemons' = {}
    BY <1>1, <1>4 DEF SerialInv, KnownInv
  <2>2. SockInv'
    BY <2>1 DEF SockInv, Daemons
  <2> QED BY <1>1, <1>2, <2>1, <2>2 DEF KnownInv
<1> QED BY <1>1, <1>3, <1>4, GotoAt, Moves DEF Labels

\* A killed command leaves nothing behind but what it had done.
LEMMA CrashInv ==
    ASSUME TypeOK, SerialInv, NEW p \in Procs, Crash(p) PROVE SerialInv'
<1>1. Busy(p) /\ mayCrash /\ mayCrash' = mayCrash /\ cli' = [cli EXCEPT ![p] = IdleCLI]
  BY DEF Crash, Busy
<1>2. ~Busy(p)' /\ \A q \in Procs \ {p} : cli'[q] = cli[q]
  BY <1>1 DEF TypeOK, Busy, IdleCLI
<1> QED BY <1>1, <1>2, Alone, Returns

-----------------------------------------------------------------------------
(* The daemon and the kernel.                                              *)

LEMMA BindInv ==
    ASSUME TypeOK, SerialInv, NEW i \in Pids, Bind(i) PROVE SerialInv'
<1>1. i \in Daemons /\ UNCHANGED <<pidfile, cli, last, mayCrash>>
  BY DEF Bind, Daemons
<1>2. CASE sock = NoPid
  <2>1. proc' = [proc EXCEPT ![i] = "serving"] /\ sock' = i
    BY <1>2 DEF Bind
  <2>2. Daemons' \subseteq Daemons
    BY <1>1, <2>1 DEF Daemons, TypeOK
  <2>3. SockInv => SockInv'
    BY <1>2, <2>1, ParamsAssumption DEF SockInv, TypeOK
  <2> QED BY <1>1, <2>2, <2>3, KernelInv
<1>3. CASE sock # NoPid
  <2>1. proc' = Ended(i) /\ UNCHANGED sock
    BY <1>3 DEF Bind
  <2>2. Daemons' \subseteq Daemons /\ (SockInv => SockInv')
    BY <2>1, EndedIs DEF SockInv
  <2> QED BY <1>1, <2>1, <2>2, KernelInv
<1> QED BY <1>2, <1>3

\* A leaving daemon unlinks the path, whoever has bound it by then: it is the only
\* daemon, if no command was killed.
LEMMA LeavesInv ==
    ASSUME TypeOK, SerialInv, NEW i \in Pids, Leaves(i) PROVE SerialInv'
<1>1. /\ i \in Daemons /\ proc[i] = "leaving" /\ proc' = Ended(i) /\ sock' \in {sock, NoPid}
      /\ UNCHANGED <<pidfile, cli, last, mayCrash>>
  BY DEF Leaves, Daemons
<1>2. /\ Daemons' \subseteq Daemons
      /\ \A j \in Pids : proc'[j] = "serving" => proc[j] = "serving"
  BY <1>1, EndedIs
<1>3. ASSUME ~mayCrash PROVE \A j \in Daemons : j = i
  <2>1. CASE \E p \in Procs : Busy(p)
    <3>1. PICK p \in Procs : Busy(p)
      BY <2>1
    <3>2. KnownInv(p)
      BY <1>3, <3>1 DEF SerialInv
    <3> QED BY <1>1, <3>2 DEF KnownInv
  <2>2. CASE \A p \in Procs : ~Busy(p)
    BY <1>1, <1>3, <2>2 DEF SerialInv, RestInv
  <2> QED BY <2>1, <2>2
<1>4. ASSUME ~mayCrash, SockInv PROVE SockInv'
  BY <1>1, <1>2, <1>3, <1>4 DEF SockInv, Daemons
<1> QED BY <1>1, <1>2, <1>4, KernelInv

LEMMA DiesInv ==
    ASSUME TypeOK, SerialInv, NEW i \in Pids, Dies(i) PROVE SerialInv'
<1>1. proc' = Ended(i) /\ UNCHANGED <<pidfile, sock, cli, last, mayCrash>>
  BY DEF Dies
<1>2. Daemons' \subseteq Daemons /\ (SockInv => SockInv')
  BY <1>1, EndedIs DEF SockInv
<1> QED BY <1>1, <1>2, KernelInv

LEMMA PidReusedInv ==
    ASSUME TypeOK, SerialInv, NEW i \in Pids, PidReused(i) PROVE SerialInv'
<1>1. UNCHANGED <<pidfile, sock, cli, last, mayCrash>>
  BY DEF PidReused
<1>2. Daemons' \subseteq Daemons /\ (SockInv => SockInv')
  BY <1>1 DEF PidReused, Daemons, SockInv, TypeOK
<1> QED BY <1>1, <1>2, KernelInv

LEMMA SerialStep == Serial /\ TypeOK /\ SerialInv /\ [Next]_vars => SerialInv'
<1> SUFFICES ASSUME Serial, TypeOK, SerialInv, [Next]_vars PROVE SerialInv'
  OBVIOUS
<1>1. CASE UNCHANGED vars
  BY <1>1 DEF vars, SerialInv, OneBusy, Busy, JobInv, ForgetInv, KnownInv, SockInv, RestInv, Daemons
<1>2. ASSUME NEW p \in Procs, Step(p) PROVE SerialInv'
  <2>1. CASE StartWait(p)
    BY <2>1, StartReturns, OnwardInv DEF StartWait, Labels
  <2>2. CASE Linger(p)
    BY <2>2, StartReturns, OnwardInv DEF Linger, Labels
  <2>3. CASE NukeWait(p)
    BY <2>3, OnwardInv DEF NukeWait, Labels
  <2>4. CASE StopTerm(p)
    BY <2>4, SignalInv DEF StopTerm
  <2>5. CASE StopPoll(p)
    BY <2>5, SignalInv DEF StopPoll
  <2> QED BY <1>2, <2>1, <2>2, <2>3, <2>4, <2>5, StartCheckInv, StartUnlinkInv, StartSpawnInv,
             StartRecordInv, StopReadInv, StopForgetInv, StopRefusedInv, RemoveSocketInv,
             NukeKillInv, NukeSocketInv DEF Step
<1> QED BY <1>1, <1>2, BeginInv, CrashInv, BindInv, LeavesInv, DiesInv, PidReusedInv DEF Next

-----------------------------------------------------------------------------
(* Theorems.                                                               *)

\* The variables of daemon.go's calls keep their types, with any number of unlocked
\* commands, kills and reused pids.
THEOREM DaemonTypes == Spec => []TypeOK
BY TypeInit, TypeStep, PTL DEF Spec

\* With one command at a time SerialInv is inductive.
THEOREM DaemonSerial == Serial => (Spec => [](TypeOK /\ SerialInv))
<1> SUFFICES ASSUME Serial PROVE Spec => [](TypeOK /\ SerialInv)
  OBVIOUS
<1>1. TypeOK /\ SerialInv /\ [Next]_vars => (TypeOK /\ SerialInv)'
  BY TypeStep, SerialStep
<1> QED BY <1>1, TypeInit, SerialInit, PTL DEF Spec

\* With one command at a time, none of them killed, the pid file names every daemon
\* of the instance and the socket leads to it, after any sequence of Start, Stop,
\* Nuke, dying daemons and reused pids.
THEOREM Reachable == Serial => (Spec => []DaemonIsReachable)
<1> SUFFICES ASSUME Serial PROVE Spec => []DaemonIsReachable
  OBVIOUS
<1>1. TypeOK /\ SerialInv => DaemonIsReachable
  <2> SUFFICES ASSUME TypeOK, SerialInv, Quiescent
               PROVE  /\ Daemons \subseteq {pidfile}
                      /\ \A i \in Pids : proc[i] = "serving" => sock = i
                      /\ Daemons # {} => Leftovers = {}
    BY DEF DaemonIsReachable
  <2>1. Daemons \subseteq {pidfile} /\ SockInv
    BY DEF Quiescent, SerialInv, RestInv, Busy
  <2>2. ASSUME Daemons # {} PROVE Leftovers = {}
    <3>1. pidfile \in Pids /\ proc[pidfile] # "free"
      BY <2>1, <2>2 DEF Daemons
    <3>2. Running
      BY <3>1, ParamsAssumption DEF Running, Alive
    <3> QED BY <3>1, <3>2 DEF Leftovers, Alive
  <2> QED BY <2>1, <2>2 DEF SockInv
<1> QED BY <1>1, DaemonSerial, PTL

\* With one command at a time, none of them killed, a Stop, remove or Nuke that
\* returned nil has left no daemon and no pid file, and the latter two no socket.
THEOREM StoppedIsGone == Serial => (Spec => []StoppedMeansGone)
<1> SUFFICES ASSUME Serial PROVE Spec => []StoppedMeansGone
  OBVIOUS
<1>1. TypeOK /\ SerialInv => StoppedMeansGone
  BY ParamsAssumption DEF StoppedMeansGone, Quiescent, SerialInv, RestInv, Busy, Daemons
<1> QED BY <1>1, DaemonSerial, PTL

\* With one command at a time, wherever commands are killed, the pid file of a live
\* daemon is never removed.
THEOREM Forgets == Serial => (Spec => ForgetOnlyDead)
<1> SUFFICES ASSUME Serial PROVE Spec => ForgetOnlyDead
  OBVIOUS
<1>1. TypeOK /\ SerialInv /\ [Next]_vars
        => [pidfile # NoPid /\ pidfile' = NoPid => pidfile \notin Daemons]_vars
  <2> SUFFICES ASSUME TypeOK, SerialInv, Next, pidfile # NoPid, pidfile' = NoPid
               PROVE  pidfile \notin Daemons
    OBVIOUS
  <2>1. ASSUME NEW p \in Procs, StopRead(p) PROVE pidfile \notin Daemons
    <3>1. ~Running
      BY <2>1 DEF StopRead
    <3> QED BY <3>1, NotRunning
  <2>2. ASSUME NEW p \in Procs, StopForget(p) PROVE pidfile \notin Daemons
    BY <2>2 DEF StopForget, SerialInv, ForgetInv, Busy
  <2>3. ASSUME NEW p \in Procs, StartRecord(p) PROVE pidfile \notin Daemons
    BY <2>3 DEF StartRecord, SerialInv, ForgetInv, Busy
  <2>4. ASSUME NEW p \in Procs, Step(p) PROVE pidfile \notin Daemons
    BY <2>1, <2>2, <2>3, <2>4 DEF Step, StartCheck, StartUnlink, StartSpawn, StartWait, Linger,
       StopTerm, StopPoll, StopRefused, RemoveSocket, NukeKill, NukeWait, NukeSocket
  <2>5. ASSUME NEW p \in Procs, (\E j \in Jobs : Begin(p, j)) \/ Crash(p)
        PROVE  pidfile \notin Daemons
    BY <2>5 DEF Begin, Crash
  <2>6. ASSUME NEW i \in Pids, Bind(i) \/ Leaves(i) \/ Dies(i) \/ PidReused(i)
        PROVE  pidfile \notin Daemons
    BY <2>6 DEF Bind, Leaves, Dies, PidReused
  <2> QED BY <2>4, <2>5, <2>6 DEF Next
<1> QED BY <1>1, DaemonSerial, PTL DEF Spec, ForgetOnlyDead
=============================================================================
