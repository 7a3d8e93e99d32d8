--------------------------- MODULE LifecycleProofs ---------------------------
(* Theorems about Lifecycle, for every set of processes, command lines, ports *)
(* and faults.                                                               *)
EXTENDS Lifecycle, TLAPS

-----------------------------------------------------------------------------
(* The labels of the commands, and the records the steps build.            *)

UpLabels == {"up.start", "up.ready", "up.login", "up.sso", "up.config", "up.save",
             "up.engine", "up.status", "up.iface", "up.dns", "up.check", "up.down"}
DownLabels == {"down.engine", "down.keys", "down.stop"}
RemoveLabels == {"rm.keys", "rm.toml", "rm.dir"}
SetLabels == {"set.apply", "set.start", "set.ready", "set.config", "set.stop", "set.keys",
              "set.save"}
StatusLabels == {"st.status", "st.dns", "st.iface"}
SyncLabels == {"sync.check", "sync.status", "sync.dns"}
SweepLabels == {"sweep.owners", "sweep.list", "sweep.keys"}

\* Whose step a label is.
CmdInv(c) == /\ c.pc = "idle" <=> c.cmd = "none"
             /\ c.pc \in UpLabels => c.cmd \in {"up", "strict"}
             /\ c.pc \in DownLabels => c.cmd \in {"down", "remove", "purge"}
             /\ c.pc \in RemoveLabels => c.cmd \in {"remove", "purge"}
             /\ c.pc \in {"nuke.kill", "nuke.keys"} => c.cmd = "nuke"
             /\ c.pc \in SetLabels => c.cmd = "set"
             /\ c.pc \in StatusLabels => c.cmd = "status"
             /\ c.pc \in SyncLabels => c.cmd \in {"sync", "watch"}
             /\ c.pc = "watch" => c.cmd = "watch"
             /\ c.pc \in SweepLabels => c.cmd = "sweep"

TypeInv == TypeOK /\ \A p \in Procs : CmdInv(cli[p])

\* Every step of process p replaces its own record and no other.
Only(p) == /\ \A q \in Procs \ {p} : cli'[q] = cli[q]
           /\ cli' \in [Procs -> CLI] /\ CmdInv(cli'[p])
           /\ last' \in [cmd : Commands \cup {"none"}, ok : BOOLEAN] /\ faults' = faults

LEMMA GotoIs ==
    ASSUME TypeInv, NEW p \in Procs, NEW l \in Labels, Goto(p, l),
           CmdInv([cli[p] EXCEPT !.pc = l])
    PROVE  /\ Only(p) /\ last' = last
           /\ cli'[p] = [cli[p] EXCEPT !.pc = l]
           /\ cli'[p].pc = l /\ cli'[p].cmd = cli[p].cmd /\ cli'[p].inst = cli[p].inst
           /\ cli'[p].ip = cli[p].ip /\ cli'[p].flag = cli[p].flag
           /\ cli'[p].prev = cli[p].prev /\ cli'[p].mode = cli[p].mode
           /\ cli'[p].port = cli[p].port
BY DEF TypeInv, TypeOK, Goto, Only, CLI

LEMMA ReturnIs ==
    ASSUME TypeInv, NEW p \in Procs, NEW ok \in BOOLEAN, Return(p, ok)
    PROVE  /\ Only(p) /\ cli'[p] = IdleCLI /\ cli'[p].pc = "idle" /\ cli'[p].cmd = "none"
           /\ last'.cmd = cli[p].cmd /\ last'.ok = ok
<1>1. IdleCLI \in CLI
  BY DEF IdleCLI, CLI, NoInstance, Instance, Modes, AnyPort
<1>2. CmdInv(IdleCLI)
  BY DEF IdleCLI, CmdInv, UpLabels, DownLabels, RemoveLabels, SetLabels, StatusLabels, SyncLabels,
     SweepLabels
<1>3. cli'[p] = IdleCLI /\ cli' \in [Procs -> CLI] /\ \A q \in Procs \ {p} : cli'[q] = cli[q]
  BY <1>1 DEF Return, TypeInv, TypeOK
<1>4. cli[p].cmd \in Commands \cup {"none"}
  BY DEF TypeInv, TypeOK, CLI
<1> QED BY <1>2, <1>3, <1>4 DEF Return, Only, IdleCLI

\* The definitions that a step between labels needs to see.
LEMMA LabelsOf ==
    /\ UpLabels \cup DownLabels \cup RemoveLabels \cup SetLabels \cup StatusLabels
          \cup SyncLabels \cup SweepLabels \cup {"nuke.kill", "nuke.keys", "watch"} = Labels
    /\ "idle" \notin Labels
BY DEF UpLabels, DownLabels, RemoveLabels, SetLabels, StatusLabels, SyncLabels, SweepLabels, Labels

\* A label of the same command.
Together == {UpLabels, DownLabels, RemoveLabels, SetLabels, StatusLabels, SyncLabels, SweepLabels,
             {"nuke.kill", "nuke.keys"}, {"watch"}}
LEMMA Kin ==
    \A L \in {UpLabels, SetLabels, StatusLabels, SyncLabels, SweepLabels, {"nuke.kill", "nuke.keys"}} :
        L \in Together /\ L \subseteq Labels
<1>1. \A L \in {UpLabels, SetLabels, StatusLabels, SyncLabels, SweepLabels, {"nuke.kill", "nuke.keys"}} :
         L \in Together
  BY DEF Together
<1> QED BY <1>1, LabelsOf

LEMMA SameCmd ==
    ASSUME NEW c, NEW d, CmdInv(c), d.cmd = c.cmd, NEW L \in Together, c.pc \in L, d.pc \in L
    PROVE  CmdInv(d)
BY DEF CmdInv, Together, UpLabels, DownLabels, RemoveLabels, SetLabels, StatusLabels, SyncLabels,
   SweepLabels

\* A step inside a command that replaces p's record by c.
LEMMA WritesIs ==
    ASSUME TypeInv, NEW p \in Procs, NEW c \in CLI, cli' = [cli EXCEPT ![p] = c],
           UNCHANGED <<last, faults>>, CmdInv(c)
    PROVE  Only(p) /\ cli'[p] = c
BY DEF TypeInv, TypeOK, Only

\* Status answers, and what Set, nuke, the watcher and the sweep remember.
LEMMA AnswerIs ==
    ASSUME TypeInv, NEW p \in Procs, NEW l \in Labels, NEW b \in BOOLEAN,
           cli' = [cli EXCEPT ![p].pc = l, ![p].ip = b], UNCHANGED <<last, faults>>,
           NEW L \in Together, cli[p].pc \in L, l \in L
    PROVE  /\ Only(p) /\ last' = last
           /\ cli'[p].pc = l /\ cli'[p].cmd = cli[p].cmd /\ cli'[p].inst = cli[p].inst
           /\ cli'[p].ip = b /\ cli'[p].flag = cli[p].flag
           /\ cli'[p].prev = cli[p].prev /\ cli'[p].port = cli[p].port
<1> DEFINE c == [cli[p] EXCEPT !.pc = l, !.ip = b]
<1>1. cli[p] \in CLI /\ CmdInv(cli[p])
  BY DEF TypeInv, TypeOK
<1>2. c \in CLI
  BY <1>1 DEF CLI
<1>3. cli' = [cli EXCEPT ![p] = c]
  BY DEF TypeInv, TypeOK
<1>4. CmdInv(c)
  BY <1>1, SameCmd DEF CLI
<1>5. /\ c.pc = l /\ c.cmd = cli[p].cmd /\ c.inst = cli[p].inst /\ c.ip = b
      /\ c.flag = cli[p].flag /\ c.prev = cli[p].prev /\ c.port = cli[p].port
  BY <1>1 DEF CLI
<1> HIDE DEF c
<1>6. Only(p) /\ cli'[p] = c
  BY <1>2, <1>3, <1>4, WritesIs
<1> QED BY <1>5, <1>6

LEMMA FlagIs ==
    ASSUME TypeInv, NEW p \in Procs, NEW l \in Labels, NEW b \in BOOLEAN,
           cli' = [cli EXCEPT ![p].pc = l, ![p].flag = b], UNCHANGED <<last, faults>>,
           NEW L \in Together, cli[p].pc \in L, l \in L
    PROVE  /\ Only(p) /\ last' = last
           /\ cli'[p].pc = l /\ cli'[p].cmd = cli[p].cmd /\ cli'[p].inst = cli[p].inst
           /\ cli'[p].ip = cli[p].ip /\ cli'[p].flag = b
           /\ cli'[p].prev = cli[p].prev /\ cli'[p].port = cli[p].port
<1> DEFINE c == [cli[p] EXCEPT !.pc = l, !.flag = b]
<1>1. cli[p] \in CLI /\ CmdInv(cli[p])
  BY DEF TypeInv, TypeOK
<1>2. c \in CLI
  BY <1>1 DEF CLI
<1>3. cli' = [cli EXCEPT ![p] = c]
  BY DEF TypeInv, TypeOK
<1>4. CmdInv(c)
  BY <1>1, SameCmd DEF CLI
<1>5. /\ c.pc = l /\ c.cmd = cli[p].cmd /\ c.inst = cli[p].inst /\ c.ip = cli[p].ip
      /\ c.flag = b /\ c.prev = cli[p].prev /\ c.port = cli[p].port
  BY <1>1 DEF CLI
<1> HIDE DEF c
<1>6. Only(p) /\ cli'[p] = c
  BY <1>2, <1>3, <1>4, WritesIs
<1> QED BY <1>5, <1>6

\* UpSetConfig's success.
LEMMA LoggedInIs ==
    ASSUME TypeInv, NEW p \in Procs, cli[p].pc = "up.config",
           cli' = [cli EXCEPT ![p].pc = "up.save", ![p].inst.loggedIn = TRUE],
           UNCHANGED <<last, faults>>
    PROVE  /\ Only(p) /\ cli'[p].pc = "up.save" /\ cli'[p].cmd = cli[p].cmd
           /\ cli'[p].inst = [cli[p].inst EXCEPT !.loggedIn = TRUE]
<1> DEFINE c == [cli[p] EXCEPT !.pc = "up.save", !.inst = [cli[p].inst EXCEPT !.loggedIn = TRUE]]
<1>1. cli[p] \in CLI /\ CmdInv(cli[p]) /\ cli[p].inst \in Instance
  BY DEF TypeInv, TypeOK, CLI
<1>2. [cli[p].inst EXCEPT !.loggedIn = TRUE] \in Instance
  BY <1>1 DEF Instance
<1>3. c \in CLI
  BY <1>1, <1>2 DEF CLI, Labels
<1>4. cli' = [cli EXCEPT ![p] = c]
  BY DEF TypeInv, TypeOK
<1>5. CmdInv(c)
  BY <1>1, SameCmd DEF CLI, Together, UpLabels
<1>6. c.pc = "up.save" /\ c.cmd = cli[p].cmd /\ c.inst = [cli[p].inst EXCEPT !.loggedIn = TRUE]
  BY <1>1 DEF CLI
<1> HIDE DEF c
<1>7. Only(p) /\ cli'[p] = c
  BY <1>3, <1>4, <1>5, WritesIs
<1> QED BY <1>6, <1>7

\* The history: it moves with the files only, and says when config.json moved last.
Recorded == Drifts \/ UNCHANGED <<store, config, drift>>

LEMMA DriftIs ==
    ASSUME TypeInv, Recorded
    PROVE  /\ drift' \subseteq {"settings", "login"}
           /\ UNCHANGED <<store, config>> => drift' = drift
           /\ UNCHANGED store => drift \subseteq drift'
           /\ UNCHANGED store /\ "settings" \notin drift' => UNCHANGED config
           /\ UNCHANGED store /\ config' # config /\ ~config'.registered => "login" \in drift'
           /\ store'.loggedIn = store.loggedIn /\ "login" \notin drift' => "login" \notin drift
BY DEF Recorded, Drifts, TypeInv, TypeOK

\* A step of p, as far as TypeInv goes.
LEMMA TypesOf ==
    ASSUME TypeInv, NEW p \in Procs, Only(p), store' \in Instance, config' \in Config,
           daemon' \in {"down", "boot", "up"}, engine' \in Engine, keys' \in BOOLEAN, Recorded
    PROVE  TypeInv'
BY DriftIs DEF TypeInv, TypeOK, Only

-----------------------------------------------------------------------------
(* Types: one lemma per command.                                           *)

\* The values the steps assign.
LEMMA Values ==
    ASSUME TypeInv, NEW p \in Procs
    PROVE  /\ cli[p] \in CLI /\ CmdInv(cli[p])
           /\ cli[p].inst \in Instance /\ [cli[p].inst EXCEPT !.present = TRUE] \in Instance
           /\ [cli[p].inst EXCEPT !.loggedIn = TRUE] \in Instance
           /\ EngineOff \in Engine /\ NoInstance \in Instance
           /\ NoConfig \in Config /\ StockConfig \in Config
           /\ [config EXCEPT !.registered = TRUE] \in Config
           /\ [StockConfig EXCEPT !.registered = TRUE] \in Config
           /\ (Push(p) => config' \in Config)
<1>1. cli[p] \in CLI /\ CmdInv(cli[p])
  BY DEF TypeInv, TypeOK
<1>2. cli[p].inst \in Instance
  BY <1>1 DEF CLI
<1>3. /\ [cli[p].inst EXCEPT !.present = TRUE] \in Instance
      /\ [cli[p].inst EXCEPT !.loggedIn = TRUE] \in Instance
  BY <1>2 DEF Instance
<1>4. EngineOff \in Engine /\ NoInstance \in Instance
  BY DEF EngineOff, Engine, NoInstance, Instance, AnyPort, Modes
<1>5. NoConfig \in Config /\ StockConfig \in Config
      /\ [StockConfig EXCEPT !.registered = TRUE] \in Config
  BY DEF NoConfig, StockConfig, Config, AnyPort
<1>6. config \in Config
  BY DEF TypeInv, TypeOK
<1>7. [config EXCEPT !.registered = TRUE] \in Config
  BY <1>6 DEF Config
<1>8. Push(p) => config' \in Config
  BY <1>2, <1>6 DEF Push, Settings, Config, Instance
<1> QED BY <1>1, <1>2, <1>3, <1>4, <1>5, <1>7, <1>8

LEMMA UpTypes == ASSUME TypeInv, NEW p \in Procs, UpStep(p) \/ UpSSO(p) PROVE TypeInv'
<1> USE Values DEF Recorded
<1>0. /\ store \in Instance /\ config \in Config /\ daemon \in {"down", "boot", "up"}
      /\ engine \in Engine /\ keys \in BOOLEAN
  BY DEF TypeInv, TypeOK
<1>1. ASSUME NEW l \in UpLabels, Goto(p, l), cli[p].pc \in UpLabels PROVE Only(p)
  <2>1. CmdInv([cli[p] EXCEPT !.pc = l])
    BY <1>1 DEF CmdInv, CLI, UpLabels, DownLabels, RemoveLabels, SetLabels, StatusLabels, SyncLabels,
       SweepLabels
  <2> QED BY <1>1, <2>1, GotoIs, LabelsOf
<1>2. ASSUME Return(p, TRUE) \/ Return(p, FALSE) PROVE Only(p)
  BY <1>2, ReturnIs
<1> USE DEF At, UpLabels
<1>3. CASE UpStart(p)
  BY <1>0, <1>1, <1>2, <1>3, TypesOf DEF UpStart, Start, Running
<1>4. CASE UpReady(p)
  BY <1>0, <1>1, <1>2, <1>4, TypesOf DEF UpReady
<1>5. CASE UpLogin(p)
  <2>1. config' \in Config /\ Only(p)
    BY <1>0, <1>1, <1>2, <1>5 DEF UpLogin
  <2> QED BY <1>0, <1>5, <2>1, TypesOf DEF UpLogin
<1>6. CASE UpSSO(p)
  BY <1>0, <1>1, <1>2, <1>6, TypesOf DEF UpSSO
<1>7. CASE UpSetConfig(p)
  <2>1. CASE /\ Push(p)
             /\ cli' = [cli EXCEPT ![p].pc = "up.save", ![p].inst.loggedIn = TRUE]
             /\ UNCHANGED <<last, faults>>
    <3>6. Only(p)
      BY <1>7, <2>1, LoggedInIs DEF UpSetConfig
    <3> QED BY <1>0, <1>7, <2>1, <3>6, TypesOf DEF UpSetConfig
  <2>2. CASE (UNCHANGED config \/ Push(p)) /\ Return(p, FALSE)
    BY <1>0, <1>2, <1>7, <2>2, TypesOf DEF UpSetConfig
  <2> QED BY <1>7, <2>1, <2>2 DEF UpSetConfig
<1>8. CASE UpSave(p)
  BY <1>0, <1>1, <1>2, <1>8, TypesOf DEF UpSave, Save
<1>9. CASE UpEngine(p)
  <2>1. Only(p)
    BY <1>1, <1>2, <1>9 DEF UpEngine
  <2>2. [on |-> TRUE, ip |-> FALSE, port |-> config.port, dnsOff |-> config.dnsOff] \in Engine
    BY <1>0 DEF Engine, Config
  <2> QED BY <1>0, <1>9, <2>1, <2>2, TypesOf DEF UpEngine
<1>10. CASE UpStatus(p)
  <2>1. CASE cli' = [cli EXCEPT ![p].pc = "up.iface", ![p].ip = engine.ip] /\ UNCHANGED <<last, faults>>
    <3>4. Only(p)
      BY <1>0, <1>10, <2>1, AnswerIs, LabelsOf DEF UpStatus, Together, Engine
    <3> QED BY <1>0, <1>10, <3>4, TypesOf DEF UpStatus
  <2>2. CASE Return(p, FALSE)
    BY <1>0, <1>2, <1>10, <2>2, TypesOf DEF UpStatus
  <2> QED BY <1>10, <2>1, <2>2 DEF UpStatus
<1>11. CASE UpInterface(p)
  BY <1>0, <1>1, <1>2, <1>11, TypesOf DEF UpInterface, Save
<1>12. CASE UpApplyDNS(p)
  BY <1>0, <1>1, <1>12, TypesOf DEF UpApplyDNS, ApplyKeys
<1>13. CASE UpPreflight(p)
  BY <1>0, <1>1, <1>2, <1>13, TypesOf DEF UpPreflight
<1>14. CASE UpStrictDown(p)
  BY <1>0, <1>2, <1>14, TypesOf DEF UpStrictDown
<1> QED BY <1>3, <1>4, <1>5, <1>6, <1>7, <1>8, <1>9, <1>10, <1>11, <1>12, <1>13, <1>14 DEF UpStep

\* The end of any step, and a step to another label of the same command.
LEMMA EndIs == ASSUME TypeInv, NEW p \in Procs, Return(p, TRUE) \/ Return(p, FALSE) PROVE Only(p)
BY ReturnIs

LEMMA OnIs ==
    ASSUME TypeInv, NEW p \in Procs, NEW L \in Together, NEW l \in L, l \in Labels, Goto(p, l),
           cli[p].pc \in L
    PROVE  /\ Only(p) /\ last' = last
           /\ cli'[p].pc = l /\ cli'[p].cmd = cli[p].cmd /\ cli'[p].inst = cli[p].inst
           /\ cli'[p].ip = cli[p].ip /\ cli'[p].flag = cli[p].flag
           /\ cli'[p].prev = cli[p].prev /\ cli'[p].port = cli[p].port
<1>1. CmdInv([cli[p] EXCEPT !.pc = l])
  BY Values, SameCmd DEF CLI
<1> QED BY <1>1, GotoIs

\* Remove goes on where Down ends.
LEMMA RemoveIs ==
    ASSUME TypeInv, NEW p \in Procs, cli[p].pc = "down.stop", cli[p].cmd # "down", Goto(p, "rm.keys")
    PROVE  /\ Only(p) /\ last' = last
           /\ cli'[p].pc = "rm.keys" /\ cli'[p].cmd = cli[p].cmd /\ cli'[p].inst = cli[p].inst
           /\ cli'[p].ip = cli[p].ip /\ cli'[p].flag = cli[p].flag
           /\ cli'[p].prev = cli[p].prev /\ cli'[p].port = cli[p].port
<1>1. CmdInv([cli[p] EXCEPT !.pc = "rm.keys"])
  BY Values DEF CLI, CmdInv, UpLabels, DownLabels, RemoveLabels, SetLabels, StatusLabels, SyncLabels,
     SweepLabels
<1> QED BY <1>1, GotoIs DEF Labels

LEMMA DownTypes == ASSUME TypeInv, NEW p \in Procs, DownStep(p) PROVE TypeInv'
<1> USE Values DEF Recorded
<1>0. /\ store \in Instance /\ config \in Config /\ daemon \in {"down", "boot", "up"}
      /\ engine \in Engine /\ keys \in BOOLEAN
  BY DEF TypeInv, TypeOK
<1> USE DEF At, Together, DownLabels, RemoveLabels, Labels
<1>1. CASE DownEngine(p)
  BY <1>0, <1>1, OnIs, TypesOf DEF DownEngine
<1>2. CASE DownKeys(p)
  BY <1>0, <1>2, OnIs, TypesOf DEF DownKeys, RemoveKeys
<1>3. CASE DownStop(p)
  <2>1. Only(p)
    BY <1>3, EndIs, RemoveIs DEF DownStop
  <2> QED BY <1>0, <1>3, <2>1, TypesOf DEF DownStop, Killed
<1>4. CASE RemoveKeysAgain(p)
  BY <1>0, <1>4, OnIs, TypesOf DEF RemoveKeysAgain, RemoveKeys
<1>5. CASE RemoveTOML(p)
  BY <1>0, <1>5, EndIs, TypesOf DEF RemoveTOML
<1>6. CASE RemoveDir(p)
  <2>1. Only(p)
    <3>1. CASE UNCHANGED <<cli, last, faults>>
      BY <3>1 DEF Only, TypeInv, TypeOK
    <3>2. CASE Return(p, TRUE) \/ Return(p, FALSE)
      BY <3>2, EndIs
    <3> QED BY <1>6, <3>1, <3>2 DEF RemoveDir
  <2> QED BY <1>0, <1>6, <2>1, TypesOf DEF RemoveDir
<1>7. CASE NukeKill(p)
  <2>1. Only(p)
    BY <1>7, FlagIs DEF NukeKill
  <2> QED BY <1>0, <1>7, <2>1, TypesOf DEF NukeKill, Killed
<1>8. CASE NukeKeys(p)
  <2>1. Only(p)
    BY <1>0, <1>8, ReturnIs DEF NukeKeys, RemoveKeys, CLI
  <2> QED BY <1>0, <1>8, <2>1, TypesOf DEF NukeKeys, RemoveKeys
<1> QED BY <1>1, <1>2, <1>3, <1>4, <1>5, <1>6, <1>7, <1>8 DEF DownStep

\* SetApply: the copy takes the new mode and port.
LEMMA AppliedIs ==
    ASSUME TypeInv, NEW p \in Procs, SetApply(p)
    PROVE  /\ Only(p) /\ last' = last /\ cli[p].pc = "set.apply"
           /\ cli'[p].pc \in {"set.start", "set.keys"} /\ cli'[p].cmd = "set"
           /\ cli'[p].inst = [cli[p].inst EXCEPT !.mode = cli[p].mode, !.port = cli[p].port]
           /\ cli'[p].inst.loggedIn = cli[p].inst.loggedIn /\ cli'[p].inst.mode = cli[p].mode
           /\ cli'[p].inst.port = cli[p].port /\ cli'[p].prev = cli[p].inst.mode
           /\ cli'[p].port = cli[p].port
           /\ cli'[p].pc = "set.start" => cli[p].inst.loggedIn
           /\ cli'[p].pc = "set.keys" /\ cli[p].inst.loggedIn => cli'[p].inst = cli[p].inst
<1> DEFINE i == [cli[p].inst EXCEPT !.mode = cli[p].mode, !.port = cli[p].port]
<1>0. PICK needsDaemon \in {i # cli[p].inst /\ i.loggedIn, i.loggedIn} :
         cli' = [cli EXCEPT ![p].inst = i, ![p].prev = cli[p].inst.mode,
                            ![p].pc = IF needsDaemon THEN "set.start" ELSE "set.keys"]
  BY DEF SetApply
<1> DEFINE l == IF needsDaemon THEN "set.start" ELSE "set.keys"
           c == [cli[p] EXCEPT !.inst = i, !.prev = cli[p].inst.mode, !.pc = l]
<1>1. cli[p] \in CLI /\ CmdInv(cli[p]) /\ cli[p].inst \in Instance /\ cli[p].pc = "set.apply"
      /\ cli[p].cmd = "set"
  BY Values DEF SetApply, At, CmdInv, SetLabels
<1>2. i \in Instance /\ i.loggedIn = cli[p].inst.loggedIn /\ i.mode = cli[p].mode
      /\ i.port = cli[p].port
  BY <1>1 DEF Instance, CLI
<1>3. cli' = [cli EXCEPT ![p] = c] /\ UNCHANGED <<last, faults>>
  BY <1>0 DEF SetApply, TypeInv, TypeOK
<1>4. /\ l \in {"set.start", "set.keys"}
      /\ l = "set.start" => cli[p].inst.loggedIn
      /\ l = "set.keys" /\ cli[p].inst.loggedIn => i = cli[p].inst
  BY <1>0, <1>2
<1> HIDE DEF i, l
<1>5. c \in CLI
  BY <1>1, <1>2, <1>4 DEF CLI, Labels, Instance
<1>6. c.pc = l /\ c.cmd = cli[p].cmd /\ c.inst = i /\ c.prev = cli[p].inst.mode /\ c.port = cli[p].port
  BY <1>1 DEF CLI
<1> HIDE DEF c
<1>7. CmdInv(c)
  BY <1>1, <1>4, <1>6, SameCmd DEF Together, SetLabels
<1>8. Only(p) /\ cli'[p] = c
  BY <1>3, <1>5, <1>7, WritesIs
<1> QED BY <1>1, <1>2, <1>3, <1>4, <1>6, <1>8 DEF i

LEMMA SetTypes == ASSUME TypeInv, NEW p \in Procs, SetStep(p) PROVE TypeInv'
<1> USE Values DEF Recorded
<1>0. /\ store \in Instance /\ config \in Config /\ daemon \in {"down", "boot", "up"}
      /\ engine \in Engine /\ keys \in BOOLEAN
  BY DEF TypeInv, TypeOK
<1>1. CASE SetApply(p)
  BY <1>0, <1>1, AppliedIs, TypesOf DEF SetApply
<1> USE DEF At, Together, SetLabels, Labels
<1>2. CASE SetStart(p)
  <2>1. Only(p)
    <3>1. Running \in BOOLEAN
      BY DEF Running
    <3>2. CASE cli' = [cli EXCEPT ![p].pc = "set.ready", ![p].flag = Running] /\ UNCHANGED <<last, faults>>
      BY <1>2, <3>1, <3>2, FlagIs DEF SetStart
    <3>3. CASE Return(p, FALSE)
      BY <3>3, EndIs
    <3> QED BY <1>2, <3>2, <3>3 DEF SetStart
  <2> QED BY <1>0, <1>2, <2>1, TypesOf DEF SetStart
<1>3. CASE SetReady(p)
  BY <1>0, <1>3, OnIs, EndIs, TypesOf DEF SetReady
<1>4. CASE SetConfig(p)
  BY <1>0, <1>4, OnIs, EndIs, TypesOf DEF SetConfig
<1>5. CASE SetStop(p)
  BY <1>0, <1>5, OnIs, TypesOf DEF SetStop, Killed
<1>6. CASE SetKeys(p)
  BY <1>0, <1>6, OnIs, TypesOf DEF SetKeys, RemoveKeys
<1>7. CASE SetSave(p)
  BY <1>0, <1>7, EndIs, TypesOf DEF SetSave, Save
<1> QED BY <1>1, <1>2, <1>3, <1>4, <1>5, <1>6, <1>7 DEF SetStep

\* DNSSync ends for its caller.
LEMMA SyncDoneIs ==
    ASSUME TypeInv, NEW p \in Procs, NEW ok \in BOOLEAN, SyncDone(p, ok), cli[p].pc \in SyncLabels
    PROVE  /\ Only(p)
           /\ cli[p].cmd = "watch" => cli'[p].pc = "watch" /\ cli'[p].cmd = "watch" /\ last' = last
           /\ cli[p].cmd = "sync" => /\ cli'[p] = IdleCLI /\ cli'[p].pc = "idle" /\ cli'[p].cmd = "none"
                                     /\ last'.cmd = "sync"
           /\ cli[p].cmd \in {"sync", "watch"}
<1>1. cli[p].cmd \in {"sync", "watch"} /\ cli[p] \in CLI
  BY Values DEF CmdInv
<1>2. CASE cli[p].cmd = "watch"
  <2>1. CmdInv([cli[p] EXCEPT !.pc = "watch"])
    BY <1>1, <1>2 DEF CLI, CmdInv, UpLabels, DownLabels, RemoveLabels, SetLabels, StatusLabels,
       SyncLabels, SweepLabels
  <2>2. Goto(p, "watch")
    BY <1>2 DEF SyncDone
  <2> QED BY <1>2, <2>1, <2>2, GotoIs DEF Labels
<1>3. CASE cli[p].cmd = "sync"
  BY <1>3, ReturnIs DEF SyncDone
<1> QED BY <1>1, <1>2, <1>3

\* The watcher looks at its daemon.
LEMMA WatchIs ==
    ASSUME TypeInv, NEW p \in Procs, Watch(p)
    PROVE  /\ Only(p) /\ last' = last /\ cli[p].cmd = "watch" /\ cli'[p].cmd = "watch"
           /\ cli'[p].pc \in {"watch", "sync.check"}
<1>1. cli[p].pc = "watch" /\ cli[p].cmd = "watch" /\ cli[p] \in CLI /\ UNCHANGED <<last, faults>>
  BY Values DEF Watch, At, CmdInv
<1> USE DEF CmdInv, UpLabels, DownLabels, RemoveLabels, SetLabels, StatusLabels, SyncLabels,
            SweepLabels
<1>2. CASE Running
  <2> DEFINE c == [cli[p] EXCEPT !.pc = "sync.check", !.flag = FALSE]
  <2>1. cli' = [cli EXCEPT ![p] = c]
    BY <1>2 DEF Watch, TypeInv, TypeOK
  <2>2. c \in CLI /\ c.pc = "sync.check" /\ c.cmd = "watch"
    BY <1>1 DEF CLI, Labels
  <2>3. CmdInv(c)
    BY <2>2
  <2> QED BY <1>1, <2>1, <2>2, <2>3, WritesIs
<1>3. CASE ~Running
  <2> DEFINE c == [cli[p] EXCEPT !.flag = TRUE]
  <2>1. cli' = [cli EXCEPT ![p] = c]
    BY <1>3 DEF Watch, TypeInv, TypeOK
  <2>2. c \in CLI /\ c.pc = "watch" /\ c.cmd = "watch"
    BY <1>1 DEF CLI
  <2>3. CmdInv(c)
    BY <2>2
  <2> QED BY <1>1, <2>1, <2>2, <2>3, WritesIs
<1> QED BY <1>2, <1>3

LEMMA SyncTypes == ASSUME TypeInv, NEW p \in Procs, SyncStep(p) PROVE TypeInv'
<1> USE Values DEF Recorded
<1>0. /\ store \in Instance /\ config \in Config /\ daemon \in {"down", "boot", "up"}
      /\ engine \in Engine /\ keys \in BOOLEAN
  BY DEF TypeInv, TypeOK
<1>1. CASE Watch(p)
  BY <1>0, <1>1, WatchIs, TypesOf DEF Watch, RemoveKeys
<1> USE DEF At, Together, StatusLabels, SyncLabels, SweepLabels, Labels
<1>2. CASE StatusRPC(p)
  <2>0. engine.ip \in BOOLEAN
    BY <1>0 DEF Engine
  <2>1. Only(p)
    <3>1. CASE cli' = [cli EXCEPT ![p].pc = "st.dns", ![p].ip = engine.ip] /\ UNCHANGED <<last, faults>>
      BY <1>2, <2>0, <3>1, AnswerIs DEF StatusRPC
    <3>2. CASE Return(p, TRUE)
      BY <3>2, EndIs
    <3> QED BY <1>2, <3>1, <3>2 DEF StatusRPC
  <2> QED BY <1>0, <1>2, <2>1, TypesOf DEF StatusRPC
<1>3. CASE StatusDNS(p)
  BY <1>0, <1>3, OnIs, TypesOf DEF StatusDNS, ApplyKeys
<1>4. CASE StatusInterface(p)
  BY <1>0, <1>4, EndIs, TypesOf DEF StatusInterface, Save
<1>5. CASE SyncCheck(p)
  <2>1. keys' \in BOOLEAN
    BY <1>0, <1>5 DEF SyncCheck, RemoveKeys
  <2>2. ASSUME Goto(p, "sync.status") PROVE Only(p)
    BY <1>5, <2>2, OnIs DEF SyncCheck
  <2>3. ASSUME SyncDone(p, ~keys') PROVE Only(p)
    BY <1>5, <2>1, <2>3, SyncDoneIs DEF SyncCheck
  <2>4. Only(p)
    BY <1>5, <2>2, <2>3 DEF SyncCheck
  <2> QED BY <1>0, <1>5, <2>1, <2>4, TypesOf DEF SyncCheck
<1>6. CASE SyncStatus(p)
  <2>1. CASE SyncDone(p, FALSE)
    BY <1>0, <1>6, <2>1, SyncDoneIs, TypesOf DEF SyncStatus
  <2>2. CASE cli' = [cli EXCEPT ![p].pc = "sync.dns", ![p].ip = engine.ip] /\ UNCHANGED <<last, faults>>
    <3>1. Only(p)
      BY <1>0, <1>6, <2>2, AnswerIs DEF SyncStatus, Engine
    <3> QED BY <1>0, <1>6, <3>1, TypesOf DEF SyncStatus
  <2> QED BY <1>6, <2>1, <2>2 DEF SyncStatus
<1>7. CASE SyncApply(p)
  BY <1>0, <1>7, SyncDoneIs, TypesOf DEF SyncApply, ApplyKeys
<1>8. CASE SweepOwners(p)
  <2>1. Only(p)
    BY <1>0, <1>8, FlagIs DEF SweepOwners
  <2> QED BY <1>0, <1>8, <2>1, TypesOf DEF SweepOwners
<1>9. CASE SweepList(p)
  BY <1>0, <1>9, OnIs, EndIs, TypesOf DEF SweepList
<1>10. CASE SweepKeys(p)
  <2>1. keys' \in BOOLEAN
    BY <1>0, <1>10 DEF SweepKeys, RemoveKeys
  <2> QED BY <1>0, <1>10, <2>1, ReturnIs, TypesOf DEF SweepKeys
<1> QED BY <1>1, <1>2, <1>3, <1>4, <1>5, <1>6, <1>7, <1>8, <1>9, <1>10 DEF SyncStep

\* A command starts with a copy of the store.
LEMMA BeginIs ==
    ASSUME TypeInv, NEW p \in Procs, NEW j \in Jobs, Begin(p, j)
    PROVE  /\ Only(p) /\ last' = last
           /\ cli'[p].pc = First(j.cmd) /\ cli'[p].cmd = j.cmd /\ cli'[p].inst = store
           /\ cli'[p].port = j.port /\ ~cli'[p].flag /\ j.port \in Ports
           /\ First(j.cmd) \in Labels /\ j.cmd \in Commands \ {"add"}
<1> DEFINE c == [IdleCLI EXCEPT !.pc = First(j.cmd), !.cmd = j.cmd, !.inst = store,
                                !.mode = j.mode, !.port = j.port]
<1>1. j \in Job /\ store \in Instance
  BY ParamsAssumption DEF TypeInv, TypeOK
<1>2. j.cmd \in Commands \ {"add"} /\ j.mode \in Modes /\ j.port \in Ports
  BY <1>1 DEF Job, Begin
<1>0. IdleCLI \in CLI
  BY DEF IdleCLI, CLI, NoInstance, Instance, Modes, AnyPort
<1>3. c.pc = First(j.cmd) /\ c.cmd = j.cmd /\ c.inst = store /\ c.port = j.port /\ c.flag = FALSE
  BY DEF IdleCLI
<1>4. First(j.cmd) \in Labels
  BY <1>2 DEF First, Commands, Labels
<1>5. CmdInv(c)
  BY <1>2, <1>3 DEF First, Commands, CmdInv, UpLabels, DownLabels, RemoveLabels, SetLabels,
     StatusLabels, SyncLabels, SweepLabels
<1>6. c \in CLI
  BY <1>0, <1>1, <1>2, <1>4 DEF CLI, AnyPort
<1>7. cli' = [cli EXCEPT ![p] = c] /\ UNCHANGED <<last, faults>>
  BY DEF Begin
<1> HIDE DEF c
<1>8. Only(p) /\ cli'[p] = c
  BY <1>5, <1>6, <1>7, WritesIs
<1> QED BY <1>2, <1>3, <1>4, <1>7, <1>8

LEMMA TypeInit == Init => TypeInv
<1> SUFFICES ASSUME Init PROVE TypeInv
  OBVIOUS
<1>1. IdleCLI \in CLI /\ CmdInv(IdleCLI)
  BY DEF IdleCLI, CLI, NoInstance, Instance, Modes, AnyPort, CmdInv, UpLabels, DownLabels,
     RemoveLabels, SetLabels, StatusLabels, SyncLabels, SweepLabels
<1>2. EngineOff \in Engine /\ NoInstance \in Instance /\ NoConfig \in Config
  BY DEF EngineOff, Engine, NoInstance, Instance, AnyPort, Modes, NoConfig, StockConfig, Config
<1> QED BY <1>1, <1>2 DEF Init, TypeInv, TypeOK

LEMMA TypeStep == TypeInv /\ [Next]_vars => TypeInv'
<1> SUFFICES ASSUME TypeInv, [Next]_vars PROVE TypeInv'
  OBVIOUS
<1> USE DEF Recorded
<1>0. /\ store \in Instance /\ config \in Config /\ daemon \in {"down", "boot", "up"}
      /\ engine \in Engine /\ keys \in BOOLEAN
  BY DEF TypeInv, TypeOK
<1>1. CASE UNCHANGED vars
  BY <1>1 DEF vars, TypeInv, TypeOK
<1>2. ASSUME NEW p \in Procs, NEW j \in Jobs, Begin(p, j) PROVE TypeInv'
  BY <1>0, <1>2, BeginIs, TypesOf DEF Begin
<1>3. ASSUME NEW p \in Procs, NEW j \in Jobs, Add(p, j) PROVE TypeInv'
  <2>1. store' \in Instance
    BY <1>3, ParamsAssumption DEF Add, Instance, Job, AnyPort
  <2> QED BY <1>3, <2>1, DriftIs DEF Add, TypeInv, TypeOK, Commands
<1>4. ASSUME NEW p \in Procs, Crash(p) PROVE TypeInv'
  <2>1. IdleCLI \in CLI /\ CmdInv(IdleCLI)
    BY DEF IdleCLI, CLI, NoInstance, Instance, Modes, AnyPort, CmdInv, UpLabels, DownLabels,
       RemoveLabels, SetLabels, StatusLabels, SyncLabels, SweepLabels
  <2>2. Only(p)
    BY <1>4, <2>1 DEF Crash, Only, TypeInv, TypeOK
  <2> QED BY <1>0, <1>4, <2>2, TypesOf DEF Crash
<1>5. CASE DaemonBoot
  <2>1. config' \in Config
    BY <1>0, <1>5 DEF DaemonBoot, StockConfig, Config, AnyPort
  <2> QED BY <1>5, <2>1, DriftIs DEF DaemonBoot, TypeInv, TypeOK
<1>6. CASE EngineConnects
  <2>1. engine' \in Engine
    BY <1>0, <1>6 DEF EngineConnects, Engine
  <2> QED BY <1>6, <2>1 DEF EngineConnects, TypeInv, TypeOK
<1>7. CASE DaemonDies
  <2>1. EngineOff \in Engine
    BY DEF EngineOff, Engine, AnyPort
  <2> QED BY <1>7, <2>1 DEF DaemonDies, Killed, TypeInv, TypeOK
<1> QED BY <1>1, <1>2, <1>3, <1>4, <1>5, <1>6, <1>7, UpTypes, DownTypes, SetTypes, SyncTypes
        DEF Next, Step

-----------------------------------------------------------------------------
(* One command at a time, watchers apart.                                  *)

Busy(p) == cli[p].cmd \notin {"none", "watch"}
OneBusy == \A p, q \in Procs : Busy(p) /\ Busy(q) => p = q

\* config.json of a peer that can be brought up, with the isolation params.
Whole == config.present /\ config.registered /\ config.port \in Ports

\* A recorded login means that a registered config.json is an isolated one: the
\* order of Login, SetConfig and Save.  The engine needs its daemon.
StoreInv == /\ store.present => store.port \in Ports
            /\ ~store.present => ~store.loggedIn
            /\ store.loggedIn /\ config.present /\ config.registered => config.port \in Ports
            /\ engine.on => Running /\ engine.port \in Ports

\* The steps at which the loaded copy is what instance.toml holds.
Copying == (UpLabels \ {"up.save"}) \cup DownLabels \cup StatusLabels \cup SyncLabels
           \cup {"rm.keys", "rm.toml", "nuke.kill", "nuke.keys", "set.apply"}

\* What the busy command knows: its copy is current, but for what Up and Set are
\* about to save; Up logs in only without a recorded login, and starts the engine
\* only with one.
CopyInv(c) ==
    /\ c.pc \in Copying => store.present /\ c.inst = store
    /\ c.pc \in {"up.login", "up.sso", "up.config"} => ~store.loggedIn
    /\ c.pc = "up.config" => config.present /\ config.registered
    /\ c.pc = "up.save" => /\ store.present /\ c.inst = [store EXCEPT !.loggedIn = TRUE]
                           /\ Whole
    /\ c.pc \in {"up.engine", "up.status", "up.iface", "up.dns", "up.check", "up.down"}
          => store.loggedIn
    /\ c.pc \in SetLabels => c.port \in Ports
    /\ c.pc \in SetLabels \ {"set.apply"} =>
          /\ store.present /\ c.inst.loggedIn = store.loggedIn /\ c.inst.port \in Ports
          /\ c.prev = store.mode
    /\ c.pc \in {"set.start", "set.ready", "set.config"} => store.loggedIn

SerialInv == /\ OneBusy /\ StoreInv
             /\ \A p \in Procs : Busy(p) => CopyInv(cli[p])

\* config.json is that of the recorded instance, unless it changed later.  What Up
\* and Set are about to save, they have pushed.
Agrees(i) == config.port = i.port /\ config.dnsOff = (i.mode # "native")
Pushed == {"set.stop", "set.keys", "set.save"}

WholeInv == store.loggedIn /\ "login" \notin drift => Whole
AgreeInv == store.loggedIn /\ "settings" \notin drift => Agrees(store)
SaveInv == \A p \in Procs : cli[p].pc = "up.save" => Agrees(cli[p].inst)
PushedInv == \A p \in Procs : cli[p].pc \in Pushed /\ cli[p].inst.loggedIn /\ cli[p].inst # store
                => config.present /\ Agrees(cli[p].inst)

ConfigInv == WholeInv /\ AgreeInv /\ SaveInv /\ PushedInv

\* Without watchers: keys belong to an instance in multibird mode, and are gone
\* before the daemon is stopped or the instance is removed.
NoWatch == \A j \in Jobs : j.cmd # "watch"

KeyedInv ==
    /\ keys => store.present /\ store.mode = "multibird"
    /\ \A p \in Procs : /\ cli[p].pc \in {"down.stop", "rm.toml", "rm.dir"} => ~keys
                        /\ cli[p].pc = "set.save" /\ keys => cli[p].inst.mode = "multibird"

\* What a down or nuke has done so far.
GoneInv ==
    /\ (\A p \in Procs : cli[p].pc = "idle") /\ last.cmd \in {"down", "nuke"} /\ last.ok
          => ~Running /\ ~keys
    /\ \A p \in Procs : cli[p].pc = "nuke.keys" /\ cli[p].flag => ~Running

\* If daemons do not die by themselves, one that was ready is there, and keys have
\* their daemon, but between the two halves of nuke.
Ready == (UpLabels \ {"up.start"}) \cup {"st.dns", "st.iface", "sync.status", "sync.dns"}
UsingLabels == {"set.ready", "set.config", "set.stop"}
ServedInv ==
    /\ keys /\ (\A p \in Procs : cli[p].pc # "nuke.keys") => Running
    /\ \A p \in Procs : /\ cli[p].pc \in Ready \cup UsingLabels => Running
                        /\ cli[p].pc \in UsingLabels /\ ~cli[p].flag => ~keys

KeysInv == /\ \A p \in Procs : cli[p].cmd # "watch"
           /\ Never(KeySteps) => /\ KeyedInv /\ GoneInv
                                 /\ Never({"daemon", "crash"}) => ServedInv

-----------------------------------------------------------------------------
(* SerialInv.                                                              *)

LEMMA SerialInit == Init => SerialInv
BY DEF Init, SerialInv, OneBusy, StoreInv, Busy, IdleCLI, NoInstance, EngineOff

\* A step after which p, and nobody else, may be busy.
LEMMA Serially ==
    ASSUME TypeInv, SerialInv, NEW p \in Procs, Only(p), \A q \in Procs \ {p} : ~Busy(q),
           StoreInv', Busy(p)' => CopyInv(cli[p])'
    PROVE  SerialInv'
<1>1. \A q \in Procs \ {p} : ~Busy(q)'
  BY DEF Only, Busy
<1>2. OneBusy'
  BY <1>1 DEF OneBusy
<1> QED BY <1>1, <1>2 DEF SerialInv

LEMMA Alone ==
    ASSUME SerialInv, NEW p \in Procs, Busy(p)
    PROVE  CopyInv(cli[p]) /\ \A q \in Procs \ {p} : ~Busy(q)
BY DEF SerialInv, OneBusy

\* A step of a watcher, or of nobody, which leaves instance.toml and config.json alone.
LEMMA Unseen ==
    ASSUME TypeInv, SerialInv, UNCHANGED <<store, config>>, StoreInv',
           \A q \in Procs : cli'[q] = cli[q] \/ (~Busy(q) /\ ~Busy(q)')
    PROVE  SerialInv'
<1>1. \A q \in Procs : Busy(q)' => Busy(q) /\ cli'[q] = cli[q]
  BY DEF Busy
<1>2. OneBusy'
  BY <1>1 DEF OneBusy, SerialInv
<1>3. ASSUME NEW q \in Procs, Busy(q)' PROVE CopyInv(cli[q])'
  <2>1. CopyInv(cli[q]) /\ cli'[q] = cli[q]
    BY <1>1, <1>3 DEF SerialInv
  <2> QED BY <2>1 DEF CopyInv, Whole
<1> QED BY <1>2, <1>3 DEF SerialInv

\* The labels at which a command is busy.
LEMMA BusyAt ==
    ASSUME TypeInv, NEW p \in Procs, cli[p].pc \notin SyncLabels \cup {"idle", "watch"}
    PROVE  Busy(p)
<1>1. cli[p] \in CLI /\ CmdInv(cli[p])
  BY Values
<1>2. cli[p].pc \in Labels
  BY <1>1 DEF CLI
<1> QED BY <1>1, <1>2, LabelsOf DEF Busy, CmdInv

\* What StoreInv says of a step that only stops or keeps the engine.
LEMMA StoreKept ==
    ASSUME SerialInv, UNCHANGED <<store, config>>,
           engine' = EngineOff \/ (engine' = engine /\ (Running => Running'))
    PROVE  StoreInv'
BY DEF SerialInv, StoreInv, EngineOff

\* The step ends the command.
LEMMA EndsSerially ==
    ASSUME TypeInv, SerialInv, NEW p \in Procs, Busy(p), Return(p, TRUE) \/ Return(p, FALSE), StoreInv'
    PROVE  SerialInv'
BY Serially, Alone, ReturnIs DEF Busy

LEMMA UpSerial == ASSUME TypeInv, SerialInv, NEW p \in Procs, UpStep(p) \/ UpSSO(p) PROVE SerialInv'
<1>0. cli[p].pc \in UpLabels
  BY DEF UpStep, UpStart, UpReady, UpLogin, UpSSO, UpSetConfig, UpSave, UpEngine, UpStatus,
     UpInterface, UpApplyDNS, UpPreflight, UpStrictDown, At, UpLabels
<1>1. Busy(p) /\ CopyInv(cli[p]) /\ \A q \in Procs \ {p} : ~Busy(q)
  BY <1>0, BusyAt, Alone DEF UpLabels, SyncLabels
<1>2. cli[p].inst \in Instance /\ store \in Instance /\ config \in Config
  BY Values DEF TypeInv, TypeOK
<1>3. ASSUME NEW l \in UpLabels, Goto(p, l), StoreInv', CopyInv(cli[p])' PROVE SerialInv'
  BY <1>0, <1>1, <1>3, OnIs, LabelsOf, Serially DEF Together
<1>4. ASSUME Return(p, TRUE) \/ Return(p, FALSE), StoreInv' PROVE SerialInv'
  BY <1>1, <1>4, EndsSerially
<1>5. ASSUME NEW l \in UpLabels, Goto(p, l)
      PROVE  cli'[p].pc = l /\ cli'[p].inst = cli[p].inst
  BY <1>0, <1>5, OnIs, LabelsOf DEF Together
<1> USE DEF At
<1>6. CASE UpStart(p)
  <2>1. StoreInv'
    BY <1>6, StoreKept DEF UpStart, Start, Running
  <2>2. CASE Goto(p, "up.ready")
    <3>1. CopyInv(cli[p])'
      BY <1>1, <1>5, <1>6, <2>2 DEF UpStart, CopyInv, Copying, UpLabels, SetLabels, Whole
    <3> QED BY <1>3, <2>1, <2>2, <3>1 DEF UpLabels
  <2> QED BY <1>4, <1>6, <2>1, <2>2 DEF UpStart, Start
<1>7. CASE UpReady(p)
  <2>1. StoreInv'
    BY <1>7, StoreKept DEF UpReady, Running
  <2>2. ASSUME Goto(p, IF cli[p].inst.loggedIn THEN "up.engine" ELSE "up.login") PROVE SerialInv'
    <3>1. CopyInv(cli[p])'
      BY <1>1, <1>5, <1>7, <2>2 DEF UpReady, CopyInv, Copying, UpLabels, SetLabels, Whole
    <3> QED BY <1>3, <2>1, <2>2, <3>1 DEF UpLabels
  <2> QED BY <1>4, <1>7, <2>1, <2>2 DEF UpReady
<1>8. CASE UpLogin(p) \/ UpSSO(p)
  <2>1. ~store.loggedIn /\ UNCHANGED <<store, engine, daemon>>
    BY <1>1, <1>8 DEF UpLogin, UpSSO, CopyInv
  <2>2. StoreInv'
    BY <2>1 DEF SerialInv, StoreInv, Running
  <2>3. ASSUME Goto(p, "up.config"), config'.present, config'.registered PROVE SerialInv'
    <3>1. CopyInv(cli[p])'
      BY <1>0, <1>1, <1>5, <1>8, <2>1, <2>3
         DEF UpLogin, UpSSO, CopyInv, Copying, UpLabels, SetLabels
    <3> QED BY <1>3, <2>2, <2>3, <3>1 DEF UpLabels
  <2>4. ASSUME Goto(p, "up.sso") PROVE SerialInv'
    <3>1. CopyInv(cli[p])'
      BY <1>0, <1>1, <1>5, <1>8, <2>1, <2>4
         DEF UpLogin, UpSSO, CopyInv, Copying, UpLabels, SetLabels
    <3> QED BY <1>3, <2>2, <2>4, <3>1 DEF UpLabels
  <2>5. CASE UpLogin(p)
    <3>1. CASE config' = [IF config.present THEN config ELSE StockConfig EXCEPT !.registered = TRUE]
               /\ Goto(p, "up.config")
      <4>1. config'.present /\ config'.registered
        BY <1>2, <3>1 DEF Config, StockConfig
      <4> QED BY <2>3, <3>1, <4>1
    <3> QED BY <1>4, <2>2, <2>4, <2>5, <3>1 DEF UpLogin
  <2>6. CASE UpSSO(p)
    <3>1. CASE config.present /\ config' = [config EXCEPT !.registered = TRUE] /\ Goto(p, "up.config")
      <4>1. config'.present /\ config'.registered
        BY <1>2, <3>1 DEF Config
      <4> QED BY <2>3, <3>1, <4>1
    <3> QED BY <1>4, <2>2, <2>6, <3>1 DEF UpSSO
  <2> QED BY <1>8, <2>5, <2>6
<1>9. CASE UpSetConfig(p)
  <2>1. UNCHANGED <<store, daemon, engine>> /\ ~store.loggedIn /\ cli[p].pc = "up.config"
    BY <1>1, <1>9 DEF UpSetConfig, CopyInv
  <2>2. StoreInv'
    BY <2>1 DEF SerialInv, StoreInv, Running
  <2>3. CASE /\ config.present /\ Push(p)
             /\ cli' = [cli EXCEPT ![p].pc = "up.save", ![p].inst.loggedIn = TRUE]
             /\ UNCHANGED <<last, faults>>
    <3>1. /\ Only(p) /\ cli'[p].pc = "up.save"
          /\ cli'[p].inst = [cli[p].inst EXCEPT !.loggedIn = TRUE]
      BY <2>1, <2>3, LoggedInIs
    <3>2. store.present /\ cli[p].inst = store /\ store.port \in Ports /\ config.registered
      BY <1>1, <2>1 DEF CopyInv, Copying, UpLabels, SerialInv, StoreInv
    <3>3. Whole'
      BY <1>2, <2>3, <3>2 DEF Whole, Push, Settings, Config
    <3>4. CopyInv(cli[p])'
      BY <2>1, <3>1, <3>2, <3>3 DEF CopyInv, Copying, UpLabels, DownLabels, StatusLabels, SyncLabels,
         SetLabels
    <3> QED BY <1>1, <2>2, <3>1, <3>4, Serially
  <2>4. CASE Return(p, FALSE)
    BY <1>4, <2>2, <2>4
  <2> QED BY <1>9, <2>3, <2>4 DEF UpSetConfig
<1>10. CASE UpSave(p)
  <2>1. UNCHANGED <<config, daemon, engine>> /\ cli[p].pc = "up.save"
    BY <1>10 DEF UpSave
  <2>2. CASE Save(p) /\ Goto(p, "up.engine")
    <3>1. /\ store.present /\ cli[p].inst = [store EXCEPT !.loggedIn = TRUE] /\ Whole
          /\ store.port \in Ports
      BY <1>1, <2>1 DEF CopyInv, SerialInv, StoreInv
    <3>2. store' = cli[p].inst /\ store'.loggedIn /\ store'.present /\ store'.port \in Ports
      BY <1>2, <2>2, <3>1 DEF Save, Instance
    <3>3. StoreInv'
      BY <2>1, <3>1, <3>2 DEF SerialInv, StoreInv, Whole, Running
    <3>4. CopyInv(cli[p])'
      BY <1>5, <2>2, <3>2 DEF CopyInv, Copying, UpLabels, SetLabels
    <3> QED BY <1>3, <2>2, <3>3, <3>4 DEF UpLabels
  <2>3. CASE UNCHANGED store /\ Return(p, FALSE)
    BY <1>4, <2>1, <2>3, StoreKept DEF Running
  <2> QED BY <1>10, <2>2, <2>3 DEF UpSave
<1>11. CASE UpEngine(p)
  <2>1. UNCHANGED <<store, config, daemon>> /\ cli[p].pc = "up.engine" /\ store.loggedIn
    BY <1>1, <1>11 DEF UpEngine, CopyInv
  <2>2. CASE /\ Running /\ config.present /\ config.registered
             /\ engine' = IF engine.on THEN engine
                          ELSE [on |-> TRUE, ip |-> FALSE, port |-> config.port,
                                dnsOff |-> config.dnsOff]
             /\ Goto(p, "up.status") \/ Return(p, FALSE)
    <3>1. StoreInv'
      BY <2>1, <2>2 DEF SerialInv, StoreInv, Running
    <3>2. CASE Goto(p, "up.status")
      <4>1. CopyInv(cli[p])'
        BY <1>1, <1>5, <2>1, <3>2 DEF CopyInv, Copying, UpLabels, SetLabels
      <4> QED BY <1>3, <3>1, <3>2, <4>1 DEF UpLabels
    <3> QED BY <1>4, <2>2, <3>1, <3>2
  <2>3. CASE UNCHANGED engine /\ Return(p, FALSE)
    BY <1>4, <2>1, <2>3, StoreKept DEF Running
  <2> QED BY <1>11, <2>2, <2>3 DEF UpEngine
<1>12. CASE UpStatus(p)
  <2>1. UNCHANGED <<store, config, daemon, engine>> /\ cli[p].pc = "up.status" /\ StoreInv'
    BY <1>12, StoreKept DEF UpStatus, Running
  <2>2. CASE cli' = [cli EXCEPT ![p].pc = "up.iface", ![p].ip = engine.ip] /\ UNCHANGED <<last, faults>>
    <3>1. engine.ip \in BOOLEAN
      BY DEF TypeInv, TypeOK, Engine
    <3>2. Only(p) /\ cli'[p].pc = "up.iface" /\ cli'[p].inst = cli[p].inst
      <4>1. cli[p].pc \in UpLabels /\ "up.iface" \in UpLabels
        BY <2>1 DEF UpLabels
      <4> QED BY <2>2, <3>1, <4>1, AnswerIs, Kin
    <3>3. CopyInv(cli[p])'
      BY <1>1, <2>1, <3>2 DEF CopyInv, Copying, UpLabels, SetLabels
    <3> QED BY <1>1, <2>1, <3>2, <3>3, Serially
  <2>3. CASE Return(p, FALSE)
    BY <1>4, <2>1, <2>3
  <2> QED BY <1>12, <2>2, <2>3 DEF UpStatus
<1>13. CASE UpInterface(p)
  <2>1. /\ UNCHANGED <<config, daemon, engine>> /\ cli[p].pc = "up.iface" /\ cli[p].inst = store
        /\ store.present
    BY <1>1, <1>13 DEF UpInterface, CopyInv, Copying, UpLabels
  <2>2. Save(p) => store' = store
    BY <1>2, <2>1 DEF Save, Instance
  <2>3. store' = store
    BY <1>13, <2>2 DEF UpInterface
  <2>4. StoreInv'
    BY <2>1, <2>3, StoreKept DEF Running
  <2>5. CASE Goto(p, "up.dns")
    <3>1. CopyInv(cli[p])'
      BY <1>1, <1>5, <2>1, <2>3, <2>5 DEF CopyInv, Copying, UpLabels, SetLabels
    <3> QED BY <1>3, <2>4, <2>5, <3>1 DEF UpLabels
  <2> QED BY <1>4, <1>13, <2>4, <2>5 DEF UpInterface
<1>14. CASE UpApplyDNS(p)
  <2>1. UNCHANGED <<store, config, daemon, engine>> /\ cli[p].pc = "up.dns" /\ StoreInv'
        /\ Goto(p, "up.check")
    BY <1>14, StoreKept DEF UpApplyDNS, Running
  <2>2. CopyInv(cli[p])'
    BY <1>1, <1>5, <2>1 DEF CopyInv, Copying, UpLabels, SetLabels
  <2> QED BY <1>3, <2>1, <2>2 DEF UpLabels
<1>15. CASE UpPreflight(p)
  <2>1. UNCHANGED <<store, config, daemon, engine>> /\ cli[p].pc = "up.check" /\ StoreInv'
    BY <1>15, StoreKept DEF UpPreflight, Running
  <2>2. CASE Goto(p, "up.down")
    <3>1. CopyInv(cli[p])'
      BY <1>1, <1>5, <2>1, <2>2 DEF CopyInv, Copying, UpLabels, SetLabels
    <3> QED BY <1>3, <2>1, <2>2, <3>1 DEF UpLabels
  <2> QED BY <1>4, <1>15, <2>1, <2>2 DEF UpPreflight
<1>16. CASE UpStrictDown(p)
  BY <1>4, <1>16, StoreKept DEF UpStrictDown, Running
<1> QED BY <1>6, <1>7, <1>8, <1>9, <1>10, <1>11, <1>12, <1>13, <1>14, <1>15, <1>16 DEF UpStep

LEMMA Nothing == /\ NoInstance.present = FALSE /\ NoInstance.loggedIn = FALSE
                 /\ NoConfig.present = FALSE /\ NoConfig.registered = FALSE
                 /\ StockConfig.present = TRUE /\ StockConfig.registered = FALSE
BY DEF NoInstance, NoConfig, StockConfig

LEMMA DownSerial == ASSUME TypeInv, SerialInv, NEW p \in Procs, DownStep(p) PROVE SerialInv'
<1>0. cli[p].pc \in DownLabels \cup RemoveLabels \cup {"nuke.kill", "nuke.keys"}
  BY DEF DownStep, DownEngine, DownKeys, DownStop, RemoveKeysAgain, RemoveTOML, RemoveDir, NukeKill,
     NukeKeys, At, DownLabels, RemoveLabels
<1>1. Busy(p) /\ CopyInv(cli[p]) /\ \A q \in Procs \ {p} : ~Busy(q)
  BY <1>0, BusyAt, Alone DEF DownLabels, RemoveLabels, SyncLabels
<1>2. ASSUME NEW L \in Together, NEW l \in L, Goto(p, l), cli[p].pc \in L, StoreInv',
             UNCHANGED <<store, config>>, cli[p].pc \in Copying, l \in Copying \cup {"rm.dir"},
             l \in DownLabels \cup RemoveLabels
      PROVE  SerialInv'
  <2>1. Only(p) /\ cli'[p].pc = l /\ cli'[p].inst = cli[p].inst
    BY <1>2, OnIs, LabelsOf
  <2>2. CopyInv(cli[p])'
    BY <1>1, <1>2, <2>1
       DEF CopyInv, Copying, DownLabels, RemoveLabels, UpLabels, SetLabels, StatusLabels, SyncLabels
  <2> QED BY <1>1, <1>2, <2>1, <2>2, Serially
<1>3. ASSUME Return(p, TRUE) \/ Return(p, FALSE), StoreInv' PROVE SerialInv'
  BY <1>1, <1>3, EndsSerially
<1> USE DEF At
<1>4. CASE DownEngine(p)
  <2>1. StoreInv'
    BY <1>4, StoreKept DEF DownEngine, Running
  <2> QED BY <1>2, <1>4, <2>1 DEF DownEngine, Together, DownLabels, Copying
<1>5. CASE DownKeys(p)
  <2>1. StoreInv'
    BY <1>5, StoreKept DEF DownKeys, Running
  <2> QED BY <1>2, <1>5, <2>1 DEF DownKeys, Together, DownLabels, Copying
<1>6. CASE DownStop(p)
  <2>1. StoreInv'
    BY <1>6, StoreKept DEF DownStop, Killed, Running
  <2>2. CASE Goto(p, "rm.keys") /\ cli[p].cmd # "down"
    <3>1. Only(p) /\ cli'[p].pc = "rm.keys" /\ cli'[p].inst = cli[p].inst
      BY <1>6, <2>2, RemoveIs DEF DownStop
    <3>2. CopyInv(cli[p])'
      BY <1>1, <1>6, <3>1 DEF DownStop, CopyInv, Copying, DownLabels, UpLabels, SetLabels
    <3> QED BY <1>1, <2>1, <3>1, <3>2, Serially
  <2> QED BY <1>3, <1>6, <2>1, <2>2 DEF DownStop
<1>7. CASE RemoveKeysAgain(p)
  <2>1. StoreInv'
    BY <1>7, StoreKept DEF RemoveKeysAgain, Running
  <2> QED BY <1>2, <1>7, <2>1 DEF RemoveKeysAgain, Together, RemoveLabels, Copying
<1>8. CASE RemoveTOML(p)
  <2>1. StoreInv'
    BY <1>8, Nothing DEF RemoveTOML, SerialInv, StoreInv, Running
  <2> QED BY <1>3, <1>8, <2>1 DEF RemoveTOML
<1>9. CASE RemoveDir(p)
  <2>1. StoreInv'
    BY <1>9, Nothing DEF RemoveDir, SerialInv, StoreInv, Running
  <2>2. CASE UNCHANGED <<cli, last, faults>>
    <3>1. Only(p) /\ cli[p].pc = "rm.dir" /\ cli' = cli
      BY <1>9, <2>2 DEF RemoveDir, Only, TypeInv, TypeOK
    <3>2. CopyInv(cli[p])'
      BY <3>1 DEF CopyInv, Copying, DownLabels, UpLabels, SetLabels, StatusLabels, SyncLabels
    <3> QED BY <1>1, <2>1, <3>1, <3>2, Serially
  <2> QED BY <1>3, <1>9, <2>1, <2>2 DEF RemoveDir
<1>10. CASE NukeKill(p)
  <2>1. StoreInv'
    BY <1>10, StoreKept DEF NukeKill, Killed, Running
  <2>2. Only(p) /\ cli'[p].pc = "nuke.keys" /\ cli'[p].inst = cli[p].inst
    BY <1>10, FlagIs DEF NukeKill, Together, Labels
  <2>3. CopyInv(cli[p])'
    BY <1>1, <1>10, <2>2 DEF NukeKill, CopyInv, Copying, UpLabels, SetLabels
  <2> QED BY <1>1, <2>1, <2>2, <2>3, Serially
<1>11. CASE NukeKeys(p)
  <2>1. StoreInv' /\ keys' \in BOOLEAN /\ cli[p].flag \in BOOLEAN
    BY <1>11, StoreKept, Values DEF NukeKeys, RemoveKeys, Running, TypeInv, TypeOK, CLI
  <2> QED BY <1>3, <1>11, <2>1 DEF NukeKeys
<1> QED BY <1>4, <1>5, <1>6, <1>7, <1>8, <1>9, <1>10, <1>11 DEF DownStep

LEMMA SetSerial == ASSUME TypeInv, SerialInv, NEW p \in Procs, SetStep(p) PROVE SerialInv'
<1>0. cli[p].pc \in SetLabels
  BY DEF SetStep, SetApply, SetStart, SetReady, SetConfig, SetStop, SetKeys, SetSave, At, SetLabels
<1>1. Busy(p) /\ CopyInv(cli[p]) /\ \A q \in Procs \ {p} : ~Busy(q)
  BY <1>0, BusyAt, Alone DEF SetLabels, SyncLabels
<1>2. cli[p].inst \in Instance /\ store \in Instance /\ config \in Config
  BY Values DEF TypeInv, TypeOK
<1>3. ASSUME NEW l \in SetLabels \ {"set.apply", "set.start"}, Goto(p, l), StoreInv', UNCHANGED store,
             cli[p].pc # "set.apply", l \in {"set.ready", "set.config"} => store.loggedIn
      PROVE  SerialInv'
  <2>1. /\ Only(p) /\ cli'[p].pc = l /\ cli'[p].inst = cli[p].inst /\ cli'[p].prev = cli[p].prev
        /\ cli'[p].port = cli[p].port
    BY <1>0, <1>3, OnIs, LabelsOf DEF Together
  <2>2. CopyInv(cli[p])'
    BY <1>0, <1>1, <1>3, <2>1
       DEF CopyInv, Copying, DownLabels, UpLabels, SetLabels, StatusLabels, SyncLabels
  <2> QED BY <1>1, <1>3, <2>1, <2>2, Serially
<1>4. ASSUME Return(p, TRUE) \/ Return(p, FALSE), StoreInv' PROVE SerialInv'
  BY <1>1, <1>4, EndsSerially
<1> USE DEF At
<1>5. CASE SetApply(p)
  <2>1. StoreInv' /\ UNCHANGED <<store, config>>
    BY <1>5, StoreKept DEF SetApply, Running
  <2>2. store.present /\ cli[p].inst = store /\ cli[p].port \in Ports
    BY <1>1, <1>5 DEF SetApply, CopyInv, Copying, SetLabels
  <2>3. CopyInv(cli[p])'
    BY <1>5, <2>1, <2>2, AppliedIs
       DEF CopyInv, Copying, DownLabels, UpLabels, SetLabels, StatusLabels, SyncLabels
  <2> QED BY <1>1, <1>5, <2>1, <2>3, AppliedIs, Serially
<1>6. CASE SetStart(p)
  <2>1. StoreInv' /\ UNCHANGED <<store, config>> /\ cli[p].pc = "set.start"
    BY <1>6, StoreKept DEF SetStart, Running
  <2>2. CASE cli' = [cli EXCEPT ![p].pc = "set.ready", ![p].flag = Running] /\ UNCHANGED <<last, faults>>
    <3>1. /\ Only(p) /\ cli'[p].pc = "set.ready" /\ cli'[p].inst = cli[p].inst
          /\ cli'[p].prev = cli[p].prev /\ cli'[p].port = cli[p].port
      BY <2>1, <2>2, FlagIs DEF Together, SetLabels, Labels, Running
    <3>2. CopyInv(cli[p])'
      BY <1>1, <2>1, <3>1
         DEF CopyInv, Copying, DownLabels, UpLabels, SetLabels, StatusLabels, SyncLabels
    <3> QED BY <1>1, <2>1, <3>1, <3>2, Serially
  <2> QED BY <1>4, <1>6, <2>1, <2>2 DEF SetStart
<1>7. CASE SetReady(p)
  <2>1. StoreInv' /\ store.loggedIn
    BY <1>1, <1>7, StoreKept DEF SetReady, Running, CopyInv
  <2> QED BY <1>3, <1>4, <1>7, <2>1 DEF SetReady, SetLabels
<1>8. CASE SetConfig(p)
  <2>1. CASE Push(p) /\ (Goto(p, "set.stop") \/ Return(p, FALSE))
    <3>1. cli[p].inst.port \in Ports
      BY <1>1, <1>8 DEF SetConfig, CopyInv, SetLabels
    <3>2. config'.port \in Ports
      BY <1>2, <2>1, <3>1 DEF Push, Settings, Config
    <3>3. StoreInv'
      BY <1>8, <3>2 DEF SetConfig, SerialInv, StoreInv, Running
    <3> QED BY <1>3, <1>4, <1>8, <2>1, <3>3 DEF SetConfig, SetLabels
  <2>2. CASE UNCHANGED config /\ Return(p, FALSE)
    BY <1>4, <1>8, <2>2, StoreKept DEF SetConfig, Running
  <2> QED BY <1>8, <2>1, <2>2 DEF SetConfig
<1>9. CASE SetStop(p)
  <2>1. StoreInv'
    BY <1>9, StoreKept DEF SetStop, Killed, Running
  <2> QED BY <1>3, <1>9, <2>1 DEF SetStop, SetLabels
<1>10. CASE SetKeys(p)
  <2>1. StoreInv'
    BY <1>10, StoreKept DEF SetKeys, Running
  <2> QED BY <1>3, <1>10, <2>1 DEF SetKeys, SetLabels
<1>11. CASE SetSave(p)
  <2>1. CASE Save(p)
    <3>1. cli[p].inst.loggedIn = store.loggedIn /\ cli[p].inst.port \in Ports
      BY <1>1, <1>11 DEF SetSave, CopyInv, SetLabels
    <3>2. store'.loggedIn = store.loggedIn /\ store'.port \in Ports /\ store'.present
      BY <1>2, <2>1, <3>1 DEF Save, Instance
    <3>3. StoreInv'
      BY <1>11, <3>2 DEF SetSave, SerialInv, StoreInv, Running
    <3> QED BY <1>4, <1>11, <3>3 DEF SetSave
  <2>2. CASE UNCHANGED store /\ Return(p, FALSE)
    BY <1>4, <1>11, <2>2, StoreKept DEF SetSave, Running
  <2> QED BY <1>11, <2>1, <2>2 DEF SetSave
<1> QED BY <1>5, <1>6, <1>7, <1>8, <1>9, <1>10, <1>11 DEF SetStep

\* status, sync, the watcher and the sweep change neither file.
LEMMA SyncSerial == ASSUME TypeInv, SerialInv, NEW p \in Procs, SyncStep(p) PROVE SerialInv'
<1>0. cli[p].inst \in Instance /\ store \in Instance
  BY Values DEF TypeInv, TypeOK
<1>1. UNCHANGED <<store, config, daemon, engine>>
  <2>1. CASE StatusInterface(p)
    <3>1. Busy(p)
      BY <2>1, BusyAt DEF StatusInterface, At, SyncLabels
    <3>2. cli[p].inst = store /\ store.present
      BY <2>1, <3>1, Alone DEF StatusInterface, At, CopyInv, Copying, StatusLabels
    <3> QED BY <1>0, <2>1, <3>2 DEF StatusInterface, Save, Instance
  <2> QED BY <2>1 DEF SyncStep, StatusRPC, StatusDNS, SyncCheck, SyncStatus, SyncApply, Watch,
       SweepOwners, SweepList, SweepKeys
<1>2. StoreInv'
  BY <1>1, StoreKept DEF Running
<1>3. ASSUME Only(p), cli'[p].cmd = "none" PROVE SerialInv'
  <2>1. CASE Busy(p)
    BY <1>2, <1>3, <2>1, Alone, Serially DEF Busy
  <2>2. CASE ~Busy(p)
    BY <1>1, <1>2, <1>3, <2>2, Unseen DEF Only, Busy
  <2> QED BY <2>1, <2>2
<1>4. ASSUME Only(p), cli[p].cmd = "watch", cli'[p].cmd = "watch" PROVE SerialInv'
  BY <1>1, <1>2, <1>4, Unseen DEF Only, Busy
<1>5. ASSUME NEW L \in {StatusLabels, SyncLabels, SweepLabels}, Only(p), cli[p].pc \in L,
             cli'[p].pc \in L, cli'[p].cmd = cli[p].cmd, cli'[p].inst = cli[p].inst
      PROVE  SerialInv'
  <2>1. CASE cli[p].cmd = "watch"
    BY <1>4, <1>5, <2>1
  <2>2. CASE Busy(p)
    <3>1. CopyInv(cli[p])'
      BY <1>1, <1>5, <2>2, Alone DEF CopyInv, Copying, UpLabels, DownLabels, SetLabels, StatusLabels,
         SyncLabels, SweepLabels
    <3> QED BY <1>2, <1>5, <2>2, <3>1, Alone, Serially
  <2>3. CASE cli[p].cmd = "none"
    BY <1>3, <1>5, <2>3
  <2> QED BY <2>1, <2>2, <2>3 DEF Busy
<1>6. ASSUME NEW L \in {StatusLabels, SyncLabels, SweepLabels}, NEW l \in L, Goto(p, l), cli[p].pc \in L
      PROVE  SerialInv'
  BY <1>5, <1>6, OnIs, LabelsOf DEF Together
<1>7. ASSUME NEW ok \in BOOLEAN, Return(p, ok) PROVE SerialInv'
  BY <1>3, <1>7, ReturnIs
<1>8. ASSUME NEW ok \in BOOLEAN, SyncDone(p, ok), cli[p].pc \in SyncLabels PROVE SerialInv'
  BY <1>3, <1>4, <1>8, SyncDoneIs
<1>9. keys' \in BOOLEAN /\ engine.ip \in BOOLEAN
  BY SyncTypes DEF TypeInv, TypeOK, Engine
<1> USE DEF At
<1>10. CASE StatusRPC(p)
  <2>1. ASSUME cli' = [cli EXCEPT ![p].pc = "st.dns", ![p].ip = engine.ip], UNCHANGED <<last, faults>>
        PROVE  SerialInv'
    BY <1>5, <1>9, <1>10, <2>1, AnswerIs DEF StatusRPC, Together, StatusLabels, Labels
  <2> QED BY <1>7, <1>10, <2>1 DEF StatusRPC
<1>11. CASE StatusDNS(p)
  BY <1>6, <1>11 DEF StatusDNS, StatusLabels
<1>12. CASE StatusInterface(p)
  BY <1>7, <1>12 DEF StatusInterface
<1>13. CASE SyncCheck(p)
  <2>1. ASSUME Goto(p, "sync.status") PROVE SerialInv'
    BY <1>6, <1>13, <2>1 DEF SyncCheck, SyncLabels
  <2>2. ASSUME SyncDone(p, ~keys') PROVE SerialInv'
    BY <1>8, <1>9, <1>13, <2>2 DEF SyncCheck, SyncLabels
  <2> QED BY <1>13, <2>1, <2>2 DEF SyncCheck
<1>14. CASE SyncStatus(p)
  <2>1. ASSUME cli' = [cli EXCEPT ![p].pc = "sync.dns", ![p].ip = engine.ip], UNCHANGED <<last, faults>>
        PROVE  SerialInv'
    BY <1>5, <1>9, <1>14, <2>1, AnswerIs DEF SyncStatus, Together, SyncLabels, Labels
  <2>2. ASSUME SyncDone(p, FALSE) PROVE SerialInv'
    BY <1>8, <1>14, <2>2 DEF SyncStatus, SyncLabels
  <2> QED BY <1>14, <2>1, <2>2 DEF SyncStatus
<1>15. CASE SyncApply(p)
  BY <1>8, <1>15 DEF SyncApply, SyncLabels
<1>16. CASE Watch(p)
  BY <1>4, <1>16, WatchIs
<1>17. CASE SweepOwners(p)
  <2>1. keys \in BOOLEAN
    BY DEF TypeInv, TypeOK
  <2> QED BY <1>5, <1>17, <2>1, FlagIs DEF SweepOwners, Together, SweepLabels, Labels
<1>18. CASE SweepList(p)
  BY <1>6, <1>7, <1>18 DEF SweepList, SweepLabels
<1>19. CASE SweepKeys(p)
  BY <1>7, <1>9, <1>19 DEF SweepKeys
<1> QED BY <1>10, <1>11, <1>12, <1>13, <1>14, <1>15, <1>16, <1>17, <1>18, <1>19 DEF SyncStep

LEMMA SerialStep == Serial /\ TypeInv /\ SerialInv /\ [Next]_vars => SerialInv'
<1> SUFFICES ASSUME Serial, TypeInv, SerialInv, [Next]_vars PROVE SerialInv'
  OBVIOUS
<1>1. CASE UNCHANGED vars
  BY <1>1, Unseen, StoreKept DEF vars, Running
<1>2. ASSUME NEW p \in Procs, NEW j \in Jobs, Begin(p, j) PROVE SerialInv'
  <2>1. \A q \in Procs : ~Busy(q)
    BY <1>2 DEF Begin, MayBegin, Busy
  <2>2. StoreInv' /\ UNCHANGED <<store, config>>
    BY <1>2, StoreKept DEF Begin, Running
  <2>3. Busy(p)' => CopyInv(cli[p])'
    <3>1. /\ cli'[p].pc = First(j.cmd) /\ cli'[p].inst = store /\ cli'[p].port \in Ports
          /\ cli'[p].cmd = j.cmd /\ j.cmd \in Commands \ {"add"}
          /\ (j.cmd # "sweep" => store.present)
      BY <1>2, BeginIs DEF Begin
    <3>2. First(j.cmd) \in Copying => j.cmd # "sweep"
      BY DEF First, Copying, UpLabels, DownLabels, StatusLabels, SyncLabels
    <3>3. First(j.cmd) \in {"up.start", "down.engine", "nuke.kill", "set.apply", "st.status",
                            "sync.check", "watch", "sweep.owners"}
      BY <3>1 DEF First, Commands
    <3> QED BY <2>2, <3>1, <3>2, <3>3 DEF CopyInv, SetLabels
  <2> QED BY <1>2, <2>1, <2>2, <2>3, BeginIs, Serially
<1>3. ASSUME NEW p \in Procs, NEW j \in Jobs, Add(p, j) PROVE SerialInv'
  <2>1. \A q \in Procs : ~Busy(q)
    BY <1>3 DEF Add, MayBegin, Busy
  <2>2. j.port \in Ports
    BY ParamsAssumption DEF Job
  <2>3. StoreInv'
    BY <1>3, <2>2 DEF Add, SerialInv, StoreInv, Running
  <2>4. Only(p) /\ ~Busy(p)'
    BY <1>3, <2>1 DEF Add, Only, Busy, TypeInv, TypeOK, Commands
  <2> QED BY <2>1, <2>3, <2>4, Serially
<1>4. ASSUME NEW p \in Procs, Crash(p) PROVE SerialInv'
  <2>1. cli'[p] = IdleCLI /\ \A q \in Procs \ {p} : cli'[q] = cli[q]
    BY <1>4 DEF Crash, TypeInv, TypeOK
  <2>2. \A q \in Procs : Busy(q)' => Busy(q) /\ q # p
    BY <2>1 DEF Busy, IdleCLI
  <2>3. StoreInv' /\ UNCHANGED <<store, config>>
    BY <1>4, StoreKept DEF Crash, Running
  <2>4. OneBusy'
    BY <2>2 DEF OneBusy, SerialInv
  <2>5. ASSUME NEW q \in Procs, Busy(q)' PROVE CopyInv(cli[q])'
    <3>1. CopyInv(cli[q]) /\ cli'[q] = cli[q]
      BY <2>1, <2>2, <2>5 DEF SerialInv
    <3> QED BY <2>3, <3>1 DEF CopyInv, Whole
  <2> QED BY <2>3, <2>4, <2>5 DEF SerialInv
<1>5. CASE DaemonBoot
  <2>1. UNCHANGED <<store, engine, cli>> /\ daemon = "boot" /\ daemon' = "up"
        /\ config' = IF config.present THEN config ELSE StockConfig
    BY <1>5 DEF DaemonBoot
  <2>2. StoreInv'
    BY <2>1 DEF SerialInv, StoreInv, Running, StockConfig
  <2>3. OneBusy'
    BY <2>1 DEF SerialInv, OneBusy, Busy
  <2>4. ASSUME NEW q \in Procs, Busy(q)' PROVE CopyInv(cli[q])'
    <3>1. CopyInv(cli[q])
      BY <2>1, <2>4 DEF SerialInv, Busy
    <3> QED BY <2>1, <3>1 DEF CopyInv, Whole
  <2> QED BY <2>2, <2>3, <2>4 DEF SerialInv
<1>6. CASE EngineConnects
  <2>1. StoreInv'
    BY <1>6 DEF EngineConnects, SerialInv, StoreInv, Running, TypeInv, TypeOK, Engine
  <2> QED BY <1>6, <2>1, Unseen DEF EngineConnects
<1>7. CASE DaemonDies
  BY <1>7, Unseen, StoreKept DEF DaemonDies, Killed
<1> QED BY <1>1, <1>2, <1>3, <1>4, <1>5, <1>6, <1>7, UpSerial, DownSerial, SetSerial, SyncSerial
        DEF Next, Step

-----------------------------------------------------------------------------
(* ConfigInv.                                                              *)

Special == Pushed \cup {"up.save"}

\* ConfigInv, while nobody but the process of record c is at a special label.
ConfigOf(c) ==
    /\ WholeInv /\ AgreeInv
    /\ c.pc = "up.save" => Agrees(c.inst)
    /\ c.pc \in Pushed /\ c.inst.loggedIn /\ c.inst # store => config.present /\ Agrees(c.inst)

LEMMA ConfigFrom ==
    ASSUME TypeInv, SerialInv, ConfigInv, NEW p \in Procs, Busy(p)
    PROVE  ConfigOf(cli[p])
<1>1. \A q \in Procs \ {p} : cli[q].cmd \in {"none", "watch"} /\ CmdInv(cli[q])
  BY Alone, Values DEF Busy
<1>2. \A q \in Procs \ {p} : cli[q].pc \notin Special
  BY <1>1 DEF CmdInv, Special, Pushed, UpLabels, SetLabels, RemoveLabels
<1> QED BY <1>2 DEF ConfigInv, SaveInv, PushedInv, ConfigOf, Special

LEMMA ConfigTo ==
    ASSUME TypeInv, SerialInv, NEW p \in Procs, Busy(p), Only(p), ConfigOf(cli[p])'
    PROVE  ConfigInv'
<1>1. \A q \in Procs \ {p} : cli[q].cmd \in {"none", "watch"} /\ CmdInv(cli[q])
  BY Alone, Values DEF Busy
<1>2. \A q \in Procs \ {p} : cli[q].pc \notin Special
  BY <1>1 DEF CmdInv, Special, Pushed, UpLabels, SetLabels, RemoveLabels
<1>3. \A q \in Procs \ {p} : cli'[q].pc \notin Special
  BY <1>2 DEF Only
<1> QED BY <1>3 DEF ConfigInv, SaveInv, PushedInv, ConfigOf, Special

\* A step that changes neither file, to labels that promise nothing of their own.
LEMMA ConfigSame ==
    ASSUME TypeInv, ConfigInv, UNCHANGED <<store, config>>, Recorded,
           \A q \in Procs : cli'[q] = cli[q] \/ cli'[q].pc \notin Special
    PROVE  ConfigInv'
<1>1. drift' = drift
  BY DriftIs
<1>2. WholeInv' /\ AgreeInv'
  BY <1>1 DEF ConfigInv, WholeInv, AgreeInv, Whole, Agrees
<1>3. SaveInv' /\ PushedInv'
  BY DEF ConfigInv, SaveInv, PushedInv, Special, Agrees
<1> QED BY <1>2, <1>3 DEF ConfigInv

LEMMA ConfigInit == Init => ConfigInv
BY DEF Init, ConfigInv, SaveInv, WholeInv, AgreeInv, PushedInv, IdleCLI, NoInstance, Pushed

\* Saving a discovered interface saves the record as it is.
LEMMA InterfaceKeeps ==
    ASSUME TypeInv, SerialInv, NEW p \in Procs, UpInterface(p) \/ StatusInterface(p)
    PROVE  store' = store
<1>1. cli[p].pc \in {"up.iface", "st.iface"}
  BY DEF UpInterface, StatusInterface, At
<1>2. Busy(p)
  BY <1>1, BusyAt DEF SyncLabels
<1>3. cli[p].inst = store /\ store.present /\ store \in Instance
  BY <1>1, <1>2, Alone DEF CopyInv, Copying, UpLabels, StatusLabels, TypeInv, TypeOK
<1> QED BY <1>3 DEF UpInterface, StatusInterface, Save, Instance

\* A step of p to a label that promises nothing of its own.
LEMMA ConfigOn ==
    ASSUME TypeInv, ConfigInv, NEW p \in Procs, Only(p), UNCHANGED <<store, config>>, Recorded,
           cli'[p].pc \notin Special
    PROVE  ConfigInv'
BY ConfigSame DEF Only

LEMMA UpConfig == ASSUME TypeInv, SerialInv, ConfigInv, NEW p \in Procs, UpStep(p) \/ UpSSO(p) PROVE ConfigInv'
<1>0. cli[p].pc \in UpLabels
  BY DEF UpStep, UpStart, UpReady, UpLogin, UpSSO, UpSetConfig, UpSave, UpEngine, UpStatus,
     UpInterface, UpApplyDNS, UpPreflight, UpStrictDown, At, UpLabels
<1>1. Busy(p) /\ CopyInv(cli[p]) /\ ConfigOf(cli[p])
  BY <1>0, BusyAt, Alone, ConfigFrom DEF UpLabels, SyncLabels
<1>2. cli[p].inst \in Instance /\ store \in Instance /\ config \in Config /\ engine.ip \in BOOLEAN
  BY Values DEF TypeInv, TypeOK, Engine
<1>3. ASSUME NEW l \in UpLabels, Goto(p, l) PROVE Only(p) /\ cli'[p].pc = l /\ cli'[p].inst = cli[p].inst
  BY <1>0, <1>3, OnIs, LabelsOf DEF Together
<1>4. ASSUME Return(p, TRUE) \/ Return(p, FALSE) PROVE Only(p) /\ cli'[p].pc = "idle"
  BY <1>4, ReturnIs
<1> USE DEF At, Recorded
<1>5. ASSUME UNCHANGED <<store, config>>, Recorded, NEW l \in UpLabels \ {"up.save"},
             Goto(p, l) \/ Return(p, TRUE) \/ Return(p, FALSE)
      PROVE  ConfigInv'
  <2>1. cli'[p].pc \in {l, "idle"} /\ Only(p)
    BY <1>3, <1>4, <1>5
  <2> QED BY <1>0, <1>5, <2>1, ConfigOn DEF Special, Pushed, UpLabels
<1>6. CASE UpLogin(p) \/ UpSSO(p)
  <2>1. ~store.loggedIn /\ UNCHANGED store
    BY <1>1, <1>6 DEF UpLogin, UpSSO, CopyInv
  <2>2. Only(p) /\ cli'[p].pc \in {"up.sso", "up.config", "idle"}
    BY <1>3, <1>4, <1>6 DEF UpLogin, UpSSO, UpLabels
  <2>3. ConfigOf(cli[p])'
    BY <2>1, <2>2 DEF ConfigOf, WholeInv, AgreeInv, Pushed
  <2> QED BY <1>1, <2>2, <2>3, ConfigTo
<1>7. CASE UpSetConfig(p)
  <2>1. CASE /\ Push(p)
             /\ cli' = [cli EXCEPT ![p].pc = "up.save", ![p].inst.loggedIn = TRUE]
             /\ UNCHANGED <<last, faults>>
    <3>1. ~store.loggedIn /\ UNCHANGED store /\ cli[p].pc = "up.config"
      BY <1>1, <1>7 DEF UpSetConfig, CopyInv
    <3>2. /\ Only(p) /\ cli'[p].pc = "up.save"
          /\ cli'[p].inst = [cli[p].inst EXCEPT !.loggedIn = TRUE]
      BY <2>1, <3>1, LoggedInIs
    <3>3. Agrees(cli[p].inst)'
      BY <1>2, <2>1, <3>2 DEF Agrees, Push, Settings, Config, Instance
    <3>4. ConfigOf(cli[p])'
      BY <3>1, <3>2, <3>3 DEF ConfigOf, WholeInv, AgreeInv, Pushed
    <3> QED BY <1>1, <3>2, <3>4, ConfigTo
  <2>2. CASE UNCHANGED config /\ Return(p, FALSE)
    BY <1>5, <1>7, <2>2 DEF UpSetConfig, UpLabels
  <2>3. CASE Push(p) /\ Return(p, FALSE)
    <3>1. ~store.loggedIn /\ UNCHANGED store /\ Only(p) /\ cli'[p].pc = "idle"
      BY <1>1, <1>4, <1>7, <2>3 DEF UpSetConfig, CopyInv
    <3>2. ConfigOf(cli[p])'
      BY <3>1 DEF ConfigOf, WholeInv, AgreeInv, Pushed
    <3> QED BY <1>1, <3>1, <3>2, ConfigTo
  <2> QED BY <1>7, <2>1, <2>2, <2>3 DEF UpSetConfig
<1>8. CASE UpSave(p)
  <2>1. UNCHANGED config /\ cli[p].pc = "up.save" /\ Whole
    BY <1>1, <1>8 DEF UpSave, CopyInv
  <2>2. CASE Save(p) /\ Goto(p, "up.engine")
    <3>1. store'.port = cli[p].inst.port /\ store'.mode = cli[p].inst.mode
      BY <1>2, <2>2 DEF Save, Instance
    <3>2. Agrees(store)' /\ Whole'
      BY <1>1, <2>1, <3>1 DEF ConfigOf, Agrees, Whole
    <3>3. Only(p) /\ cli'[p].pc = "up.engine"
      BY <1>3, <2>2 DEF UpLabels
    <3>4. ConfigOf(cli[p])'
      BY <3>2, <3>3 DEF ConfigOf, WholeInv, AgreeInv, Pushed
    <3> QED BY <1>1, <3>3, <3>4, ConfigTo
  <2>3. CASE UNCHANGED store /\ Return(p, FALSE)
    BY <1>4, <1>8, <2>1, <2>3, ConfigOn DEF UpSave, Special, Pushed
  <2> QED BY <1>8, <2>2, <2>3 DEF UpSave
<1>9. CASE UpStatus(p)
  <2>1. CASE cli' = [cli EXCEPT ![p].pc = "up.iface", ![p].ip = engine.ip] /\ UNCHANGED <<last, faults>>
    <3>1. Only(p) /\ cli'[p].pc = "up.iface" /\ cli[p].pc = "up.status"
      <4>1. cli[p].pc = "up.status" /\ cli[p].pc \in UpLabels /\ "up.iface" \in UpLabels
        BY <1>9 DEF UpStatus, UpLabels
      <4> QED BY <1>2, <2>1, <4>1, AnswerIs, Kin
    <3> QED BY <1>9, <3>1, ConfigOn DEF UpStatus, Special, Pushed
  <2>2. CASE Return(p, FALSE)
    BY <1>5, <1>9, <2>2 DEF UpStatus, UpLabels
  <2> QED BY <1>9, <2>1, <2>2 DEF UpStatus
<1>10. CASE UpInterface(p)
  BY <1>5, <1>10, InterfaceKeeps DEF UpInterface, UpLabels
<1>11. CASE UpStart(p) \/ UpReady(p) \/ UpEngine(p) \/ UpApplyDNS(p) \/ UpPreflight(p) \/ UpStrictDown(p)
  BY <1>5, <1>11 DEF UpStart, Start, UpReady, UpEngine, UpApplyDNS, UpPreflight, UpStrictDown, UpLabels
<1> QED BY <1>6, <1>7, <1>8, <1>9, <1>10, <1>11 DEF UpStep

LEMMA DownConfig == ASSUME TypeInv, SerialInv, ConfigInv, NEW p \in Procs, DownStep(p) PROVE ConfigInv'
<1>0. cli[p].pc \in DownLabels \cup RemoveLabels \cup {"nuke.kill", "nuke.keys"}
  BY DEF DownStep, DownEngine, DownKeys, DownStop, RemoveKeysAgain, RemoveTOML, RemoveDir, NukeKill,
     NukeKeys, At, DownLabels, RemoveLabels
<1>1. Busy(p) /\ ConfigOf(cli[p]) /\ Only(p)
  <2>1. Busy(p) /\ ConfigOf(cli[p])
    BY <1>0, BusyAt, ConfigFrom DEF DownLabels, RemoveLabels, SyncLabels
  <2> USE DEF At, Together, DownLabels, RemoveLabels, Labels
  <2>2. CASE NukeKill(p)
    BY <2>1, <2>2, FlagIs DEF NukeKill
  <2>3. CASE NukeKeys(p)
    <3>1. keys' \in BOOLEAN /\ cli[p].flag \in BOOLEAN
      BY <2>3, Values DEF NukeKeys, RemoveKeys, TypeInv, TypeOK, CLI
    <3> QED BY <2>1, <2>3, <3>1, EndIs DEF NukeKeys
  <2>4. CASE RemoveDir(p)
    BY <2>1, <2>4, EndIs DEF RemoveDir, Only, TypeInv, TypeOK
  <2>5. CASE DownEngine(p) \/ DownKeys(p) \/ RemoveKeysAgain(p)
    BY <2>1, <2>5, OnIs DEF DownEngine, DownKeys, RemoveKeysAgain
  <2>6. CASE DownStop(p) \/ RemoveTOML(p)
    BY <2>1, <2>6, RemoveIs, EndIs DEF DownStop, RemoveTOML
  <2> QED BY <2>2, <2>3, <2>4, <2>5, <2>6 DEF DownStep
<1> USE DEF At, Recorded
<1>3. CASE RemoveDir(p)
  <2>1. Recorded /\ cli'[p].pc \in {"rm.dir", "idle"}
    BY <1>3, ReturnIs DEF RemoveDir
  <2>2. CASE UNCHANGED <<store, config>>
    BY <1>1, <2>1, <2>2, ConfigOn DEF Special, Pushed
  <2>3. CASE store' = NoInstance
    <3>1. ConfigOf(cli[p])'
      BY <2>1, <2>3, Nothing DEF ConfigOf, WholeInv, AgreeInv, Pushed
    <3> QED BY <1>1, <3>1, ConfigTo
  <2>4. CASE config.present /\ config' = NoConfig /\ UNCHANGED store
    <3>1. "login" \in drift' /\ "settings" \in drift'
      BY <2>1, <2>4, DriftIs, Nothing
    <3>2. ConfigOf(cli[p])'
      BY <2>1, <3>1 DEF ConfigOf, WholeInv, AgreeInv, Pushed
    <3> QED BY <1>1, <3>2, ConfigTo
  <2> QED BY <1>3, <2>2, <2>3, <2>4 DEF RemoveDir
<1>4. CASE RemoveTOML(p)
  <2>1. cli'[p].pc = "idle" /\ cli[p].pc = "rm.toml" /\ UNCHANGED config
    BY <1>4, ReturnIs DEF RemoveTOML
  <2>2. CASE store' = NoInstance
    <3>1. ConfigOf(cli[p])'
      BY <2>1, <2>2, Nothing DEF ConfigOf, WholeInv, AgreeInv, Pushed
    <3> QED BY <1>1, <3>1, ConfigTo
  <2>3. CASE UNCHANGED store
    BY <1>1, <1>4, <2>1, <2>3, ConfigOn DEF RemoveTOML, Special, Pushed
  <2> QED BY <1>4, <2>2, <2>3 DEF RemoveTOML
<1>5. CASE RemoveKeysAgain(p)
  <2>1. cli[p].pc = "rm.keys" /\ cli'[p].pc \in {"rm.dir", "rm.toml"} /\ UNCHANGED <<store, config>>
    BY <1>5, OnIs DEF RemoveKeysAgain, Together, RemoveLabels, Labels
  <2> QED BY <1>1, <1>5, <2>1, ConfigOn DEF RemoveKeysAgain, Special, Pushed
<1>6. CASE DownEngine(p) \/ DownKeys(p) \/ DownStop(p) \/ NukeKill(p) \/ NukeKeys(p)
  <2>1. UNCHANGED <<store, config>> /\ Recorded
    BY <1>6 DEF DownEngine, DownKeys, DownStop, NukeKill, NukeKeys
  <2>2. cli'[p].pc \in {"down.keys", "down.stop", "rm.keys", "nuke.keys", "idle"}
    <3> USE DEF Together, DownLabels, RemoveLabels, Labels
    <3>1. CASE NukeKill(p)
      BY <3>1, FlagIs DEF NukeKill
    <3>2. CASE NukeKeys(p)
      <4>1. keys' \in BOOLEAN /\ cli[p].flag \in BOOLEAN
        BY <3>2, Values DEF NukeKeys, RemoveKeys, TypeInv, TypeOK, CLI
      <4> QED BY <3>2, <4>1, ReturnIs DEF NukeKeys
    <3>3. CASE DownEngine(p) \/ DownKeys(p)
      BY <3>3, OnIs DEF DownEngine, DownKeys
    <3>4. CASE DownStop(p)
      BY <3>4, RemoveIs, ReturnIs DEF DownStop
    <3> QED BY <1>6, <3>1, <3>2, <3>3, <3>4
  <2> QED BY <1>1, <2>1, <2>2, ConfigOn DEF Special, Pushed
<1> QED BY <1>3, <1>4, <1>5, <1>6 DEF DownStep

LEMMA SetConfigInv == ASSUME TypeInv, SerialInv, ConfigInv, NEW p \in Procs, SetStep(p) PROVE ConfigInv'
<1>0. cli[p].pc \in SetLabels
  BY DEF SetStep, SetApply, SetStart, SetReady, SetConfig, SetStop, SetKeys, SetSave, At, SetLabels
<1>1. Busy(p) /\ CopyInv(cli[p]) /\ ConfigOf(cli[p])
  BY <1>0, BusyAt, Alone, ConfigFrom DEF SetLabels, SyncLabels
<1>2. cli[p].inst \in Instance /\ store \in Instance /\ config \in Config
  BY Values DEF TypeInv, TypeOK
<1>3. ASSUME NEW l \in SetLabels, Goto(p, l) PROVE Only(p) /\ cli'[p].pc = l /\ cli'[p].inst = cli[p].inst
  BY <1>0, <1>3, OnIs, LabelsOf DEF Together
<1>4. ASSUME Return(p, TRUE) \/ Return(p, FALSE) PROVE Only(p) /\ cli'[p].pc = "idle"
  BY <1>4, ReturnIs
<1> USE DEF At, Recorded
<1>5. CASE SetApply(p)
  <2>1. UNCHANGED <<store, config, drift>> /\ cli[p].pc = "set.apply" /\ cli[p].inst = store
    BY <1>1, <1>5 DEF SetApply, CopyInv, Copying, SetLabels
  <2>2. /\ Only(p) /\ cli'[p].pc \in {"set.start", "set.keys"}
        /\ cli'[p].inst.loggedIn = store.loggedIn
        /\ cli'[p].pc = "set.keys" /\ store.loggedIn => cli'[p].inst = store
    BY <1>5, <2>1, AppliedIs
  <2>3. ConfigOf(cli[p])'
    BY <1>1, <2>1, <2>2 DEF ConfigOf, WholeInv, AgreeInv, Pushed, Agrees, Whole
  <2> QED BY <1>1, <2>2, <2>3, ConfigTo
<1>6. CASE SetStart(p)
  <2>1. UNCHANGED <<store, config>> /\ Recorded /\ cli[p].pc = "set.start"
    BY <1>6 DEF SetStart
  <2>2. Only(p) /\ cli'[p].pc \in {"set.ready", "idle"}
    <3>1. Running \in BOOLEAN /\ cli[p].pc \in SetLabels /\ "set.ready" \in SetLabels
      BY <2>1 DEF Running, SetLabels
    <3>2. CASE cli' = [cli EXCEPT ![p].pc = "set.ready", ![p].flag = Running] /\ UNCHANGED <<last, faults>>
      BY <3>1, <3>2, FlagIs, Kin
    <3>3. CASE Return(p, FALSE)
      BY <1>4, <3>3
    <3> QED BY <1>6, <3>2, <3>3 DEF SetStart
  <2> QED BY <2>1, <2>2, ConfigOn DEF Special, Pushed
<1>7. CASE SetReady(p)
  <2>1. Only(p) /\ cli'[p].pc \in {"set.config", "idle"}
    BY <1>3, <1>4, <1>7 DEF SetReady, SetLabels
  <2> QED BY <1>7, <2>1, ConfigOn DEF SetReady, Special, Pushed
<1>8. CASE SetConfig(p)
  <2>1. /\ cli[p].pc = "set.config" /\ UNCHANGED store /\ Recorded
        /\ cli[p].inst.port \in Ports
    BY <1>1, <1>8 DEF SetConfig, CopyInv, SetLabels
  <2>2. CASE config.present /\ Push(p) /\ (Goto(p, "set.stop") \/ Return(p, FALSE))
    <3>1. Only(p) /\ cli'[p].pc \in {"set.stop", "idle"}
          /\ (cli'[p].pc = "set.stop" => cli'[p].inst = cli[p].inst)
      BY <1>3, <1>4, <2>2 DEF SetLabels
    <3>2. (Whole => Whole') /\ config'.present
      BY <1>2, <2>1, <2>2 DEF Whole, Push, Settings, Config
    <3>3. config'.port = cli[p].inst.port /\ config'.dnsOff = (cli[p].inst.mode # "native")
      BY <1>2, <2>2 DEF Push, Settings, Config
    <3>4. WholeInv'
      BY <1>1, <2>1, <3>2, DriftIs DEF ConfigOf, WholeInv
    <3>5. AgreeInv'
      <4>1. ASSUME "settings" \notin drift' PROVE UNCHANGED config /\ "settings" \notin drift
        BY <2>1, <4>1, DriftIs
      <4> QED BY <1>1, <2>1, <4>1 DEF ConfigOf, AgreeInv, Agrees
    <3>6. ConfigOf(cli[p])'
      BY <3>1, <3>2, <3>3, <3>4, <3>5 DEF ConfigOf, Pushed, Agrees
    <3> QED BY <1>1, <3>1, <3>6, ConfigTo
  <2>3. CASE UNCHANGED config /\ Return(p, FALSE)
    BY <1>4, <2>1, <2>3, ConfigOn DEF Special, Pushed
  <2> QED BY <1>8, <2>2, <2>3 DEF SetConfig
<1>9. CASE SetStop(p) \/ SetKeys(p)
  <2>1. /\ Only(p) /\ cli'[p].pc \in {"set.keys", "set.save"} /\ cli'[p].inst = cli[p].inst
        /\ cli[p].pc \in Pushed /\ UNCHANGED <<store, config, drift>>
    BY <1>3, <1>9 DEF SetStop, SetKeys, SetLabels, Pushed
  <2>2. ConfigOf(cli[p])'
    BY <1>1, <2>1 DEF ConfigOf, WholeInv, AgreeInv, Pushed, Agrees, Whole
  <2> QED BY <1>1, <2>1, <2>2, ConfigTo
<1>10. CASE SetSave(p)
  <2>1. Only(p) /\ cli'[p].pc = "idle" /\ cli[p].pc = "set.save" /\ UNCHANGED config /\ Recorded
    BY <1>4, <1>10 DEF SetSave
  <2>2. CASE UNCHANGED store
    BY <2>1, <2>2, ConfigOn DEF Special, Pushed
  <2>3. CASE Save(p) /\ store' # store
    <3>1. /\ store'.loggedIn = store.loggedIn /\ cli[p].inst.loggedIn = store.loggedIn
          /\ store'.port = cli[p].inst.port /\ store'.mode = cli[p].inst.mode
          /\ cli[p].inst # store
      BY <1>1, <1>2, <2>1, <2>3 DEF Save, Instance, CopyInv, SetLabels
    <3>2. WholeInv'
      BY <1>1, <2>1, <3>1, DriftIs DEF ConfigOf, WholeInv, Whole
    <3>3. AgreeInv'
      BY <1>1, <2>1, <3>1 DEF ConfigOf, AgreeInv, Agrees, Pushed
    <3>4. ConfigOf(cli[p])'
      BY <2>1, <3>2, <3>3 DEF ConfigOf, Pushed
    <3> QED BY <1>1, <2>1, <3>4, ConfigTo
  <2> QED BY <1>10, <2>2, <2>3 DEF SetSave
<1> QED BY <1>5, <1>6, <1>7, <1>8, <1>9, <1>10 DEF SetStep

\* Where the steps of status, sync, the watcher and the sweep lead.
LEMMA SyncGoes ==
    ASSUME TypeInv, SerialInv, NEW p \in Procs, SyncStep(p)
    PROVE  /\ Only(p) /\ UNCHANGED <<store, config, daemon, engine>> /\ Recorded
           /\ cli[p].pc \in StatusLabels \cup SyncLabels \cup SweepLabels \cup {"watch"}
           /\ cli'[p].pc \in StatusLabels \cup SyncLabels \cup SweepLabels \cup {"watch", "idle"}
<1>1. keys \in BOOLEAN /\ keys' \in BOOLEAN /\ engine.ip \in BOOLEAN
  BY SyncTypes DEF TypeInv, TypeOK, Engine
<1>2. ASSUME NEW ok \in BOOLEAN, Return(p, ok) PROVE Only(p) /\ cli'[p].pc = "idle"
  BY <1>2, ReturnIs
<1>3. ASSUME NEW ok \in BOOLEAN, SyncDone(p, ok), cli[p].pc \in SyncLabels
      PROVE  Only(p) /\ cli'[p].pc \in {"idle", "watch"}
  BY <1>3, SyncDoneIs
<1> USE DEF At, Recorded
<1>4. CASE Watch(p)
  BY <1>4, WatchIs DEF Watch, SyncLabels
<1> USE DEF Together, Labels, StatusLabels, SyncLabels, SweepLabels
<1>5. CASE StatusRPC(p)
  <2>1. CASE cli' = [cli EXCEPT ![p].pc = "st.dns", ![p].ip = engine.ip] /\ UNCHANGED <<last, faults>>
    BY <1>1, <1>5, <2>1, AnswerIs DEF StatusRPC
  <2> QED BY <1>2, <1>5, <2>1 DEF StatusRPC
<1>6. CASE StatusDNS(p)
  BY <1>6, OnIs DEF StatusDNS
<1>7. CASE StatusInterface(p)
  BY <1>2, <1>7, InterfaceKeeps DEF StatusInterface
<1>8. CASE SyncCheck(p)
  <2>1. CASE Goto(p, "sync.status")
    BY <1>8, <2>1, OnIs DEF SyncCheck
  <2>2. CASE SyncDone(p, ~keys')
    BY <1>1, <1>3, <1>8, <2>2 DEF SyncCheck
  <2> QED BY <1>8, <2>1, <2>2 DEF SyncCheck
<1>9. CASE SyncStatus(p)
  <2>1. CASE cli' = [cli EXCEPT ![p].pc = "sync.dns", ![p].ip = engine.ip] /\ UNCHANGED <<last, faults>>
    BY <1>1, <1>9, <2>1, AnswerIs DEF SyncStatus
  <2>2. CASE SyncDone(p, FALSE)
    BY <1>3, <1>9, <2>2 DEF SyncStatus
  <2> QED BY <1>9, <2>1, <2>2 DEF SyncStatus
<1>10. CASE SyncApply(p)
  BY <1>3, <1>10 DEF SyncApply
<1>11. CASE SweepOwners(p)
  BY <1>1, <1>11, FlagIs DEF SweepOwners
<1>12. CASE SweepList(p)
  BY <1>2, <1>12, OnIs DEF SweepList
<1>13. CASE SweepKeys(p)
  BY <1>1, <1>2, <1>13 DEF SweepKeys
<1> QED BY <1>4, <1>5, <1>6, <1>7, <1>8, <1>9, <1>10, <1>11, <1>12, <1>13 DEF SyncStep

LEMMA ConfigStep == Serial /\ TypeInv /\ SerialInv /\ ConfigInv /\ [Next]_vars => ConfigInv'
<1> SUFFICES ASSUME Serial, TypeInv, SerialInv, ConfigInv, [Next]_vars PROVE ConfigInv'
  OBVIOUS
<1> USE DEF Recorded
<1>1. CASE UNCHANGED vars
  BY <1>1, ConfigSame DEF vars
<1>2. ASSUME NEW p \in Procs, NEW j \in Jobs, Begin(p, j) PROVE ConfigInv'
  <2>1. Only(p) /\ cli'[p].pc = First(j.cmd) /\ Recorded /\ UNCHANGED <<store, config>>
    BY <1>2, BeginIs DEF Begin, MayBegin, At
  <2>2. First(j.cmd) \notin Special
    BY DEF First, Special, Pushed
  <2> QED BY <2>1, <2>2, ConfigOn DEF Special, Pushed
<1>3. ASSUME NEW p \in Procs, NEW j \in Jobs, Add(p, j) PROVE ConfigInv'
  <2>1. \A q \in Procs : cli[q].cmd \in {"none", "watch"} /\ CmdInv(cli[q]) /\ cli' = cli
    BY <1>3, Values DEF Add, MayBegin
  <2>2. \A q \in Procs : cli'[q].pc \notin Special
    BY <2>1 DEF CmdInv, Special, Pushed, UpLabels, SetLabels, RemoveLabels
  <2>3. store'.loggedIn = FALSE
    BY <1>3 DEF Add
  <2> QED BY <2>2, <2>3 DEF ConfigInv, SaveInv, WholeInv, AgreeInv, PushedInv, Special
<1>4. ASSUME NEW p \in Procs, Crash(p) PROVE ConfigInv'
  <2>1. /\ UNCHANGED <<store, config>> /\ Recorded
        /\ \A q \in Procs : cli'[q] = cli[q] \/ cli'[q].pc = "idle"
    BY <1>4 DEF Crash, IdleCLI, TypeInv, TypeOK
  <2> QED BY <2>1, ConfigSame DEF Special, Pushed
<1>5. CASE DaemonBoot
  <2>1. /\ UNCHANGED <<store, cli>> /\ Recorded
        /\ config' = IF config.present THEN config ELSE StockConfig
    BY <1>5 DEF DaemonBoot
  <2>2. CASE config.present
    BY <2>1, <2>2, ConfigSame
  <2>3. CASE ~config.present
    <3>1. \A p \in Procs : cli[p].pc # "up.save"
      <4>1. ASSUME NEW p \in Procs, cli[p].pc = "up.save" PROVE CopyInv(cli[p])
        BY <4>1, BusyAt, Alone DEF SyncLabels
      <4> QED BY <2>3, <4>1 DEF CopyInv, Whole
    <3>2. SaveInv' /\ PushedInv'
      BY <2>1, <2>3, <3>1 DEF ConfigInv, SaveInv, PushedInv
    <3>3. "login" \in drift' /\ "settings" \in drift'
      BY <2>1, <2>3, DriftIs, Nothing
    <3> QED BY <3>2, <3>3 DEF ConfigInv, WholeInv, AgreeInv
  <2> QED BY <2>2, <2>3
<1>6. CASE EngineConnects \/ DaemonDies
  BY <1>6, ConfigSame DEF EngineConnects, DaemonDies
<1>7. ASSUME NEW p \in Procs, SyncStep(p) PROVE ConfigInv'
  BY <1>7, SyncGoes, ConfigOn DEF Special, Pushed, StatusLabels, SyncLabels, SweepLabels
<1> QED BY <1>1, <1>2, <1>3, <1>4, <1>5, <1>6, <1>7, UpConfig, DownConfig, SetConfigInv
        DEF Next, Step

-----------------------------------------------------------------------------
(* KeysInv.                                                                *)

\* KeysInv, while nobody but the process of record c runs.
KeysOf(c) ==
    Never(KeySteps) =>
      /\ keys => store.present /\ store.mode = "multibird"
      /\ c.pc \in {"down.stop", "rm.toml", "rm.dir"} => ~keys
      /\ c.pc = "set.save" /\ keys => c.inst.mode = "multibird"
      /\ c.pc = "idle" /\ last.cmd \in {"down", "nuke"} /\ last.ok => ~Running /\ ~keys
      /\ c.pc = "nuke.keys" /\ c.flag => ~Running
      /\ Never({"daemon", "crash"}) => /\ keys /\ c.pc # "nuke.keys" => Running
                                       /\ c.pc \in Ready \cup UsingLabels => Running
                                       /\ c.pc \in UsingLabels /\ ~c.flag => ~keys

LEMMA KeysInit == Init => KeysInv
BY DEF Init, KeysInv, KeyedInv, GoneInv, ServedInv, IdleCLI, Ready, UpLabels, UsingLabels

\* Without watchers the others are idle.
LEMMA OthersIdle ==
    ASSUME TypeInv, SerialInv, KeysInv, NEW p \in Procs, Busy(p)
    PROVE  \A q \in Procs \ {p} : cli[q].pc = "idle" /\ cli[q].cmd = "none"
<1>1. \A q \in Procs \ {p} : ~Busy(q) /\ cli[q].cmd # "watch" /\ CmdInv(cli[q])
  BY Alone, Values DEF KeysInv
<1> QED BY <1>1 DEF Busy, CmdInv

LEMMA KeysFrom ==
    ASSUME TypeInv, SerialInv, KeysInv, NEW p \in Procs, Busy(p)
    PROVE  KeysOf(cli[p])
<1>1. \A q \in Procs \ {p} : cli[q].pc = "idle"
  BY OthersIdle
<1> QED BY <1>1 DEF KeysInv, KeyedInv, GoneInv, ServedInv, KeysOf

LEMMA KeysTo ==
    ASSUME TypeInv, NEW p \in Procs, Only(p), cli'[p].cmd # "watch", KeysOf(cli[p])',
           \A q \in Procs \ {p} : cli[q].pc = "idle" /\ cli[q].cmd = "none"
    PROVE  KeysInv'
<1>1. \A q \in Procs \ {p} : cli'[q].pc = "idle" /\ cli'[q].cmd = "none"
  BY DEF Only
<1>2. \A q \in Procs : cli'[q].cmd # "watch"
  BY <1>1
<1>3. Never(KeySteps)' => KeyedInv' /\ GoneInv'
  BY <1>1 DEF KeysOf, KeyedInv, GoneInv
<1>4. Never(KeySteps)' /\ Never({"daemon", "crash"})' => ServedInv'
  BY <1>1 DEF KeysOf, ServedInv, Ready, UpLabels, UsingLabels
<1> QED BY <1>2, <1>3, <1>4 DEF KeysInv

\* A step that keeps keys, mode and daemon, and ends the command or goes to a label
\* that promises nothing of its own.
Promising == {"down.stop", "rm.toml", "rm.dir", "set.save", "nuke.keys"}
LEMMA KeysKept ==
    ASSUME TypeInv, SerialInv, KeysInv, NEW p \in Procs, Busy(p), Only(p), cli'[p].cmd # "watch",
           UNCHANGED keys, store'.present = store.present, store'.mode = store.mode,
           Running => Running', cli[p].pc # "nuke.keys", cli'[p].pc \notin Promising,
           cli'[p].pc = "idle" => last'.cmd \notin {"down", "nuke"} \/ ~last'.ok,
           cli'[p].pc \in Ready \cup UsingLabels =>
              cli[p].pc \in Ready \cup UsingLabels \/ Running',
           cli'[p].pc \in UsingLabels =>
              \/ cli[p].pc \in UsingLabels /\ cli'[p].flag = cli[p].flag
              \/ cli'[p].flag = Running
    PROVE  KeysInv'
<1>1. KeysOf(cli[p]) /\ faults' = faults
  BY KeysFrom DEF Only
<1>2. KeysOf(cli[p])'
  BY <1>1 DEF KeysOf, Never, Promising
<1> QED BY <1>2, KeysTo, OthersIdle

LEMMA UpKeys == ASSUME TypeInv, SerialInv, KeysInv, NEW p \in Procs, UpStep(p) \/ UpSSO(p) PROVE KeysInv'
<1>0. cli[p].pc \in UpLabels
  BY DEF UpStep, UpStart, UpReady, UpLogin, UpSSO, UpSetConfig, UpSave, UpEngine, UpStatus,
     UpInterface, UpApplyDNS, UpPreflight, UpStrictDown, At, UpLabels
<1>1. Busy(p) /\ CopyInv(cli[p]) /\ cli[p].cmd \in {"up", "strict"}
  BY <1>0, BusyAt, Alone, Values DEF UpLabels, SyncLabels, CmdInv
<1>2. cli[p].inst \in Instance /\ store \in Instance /\ engine.ip \in BOOLEAN
  BY Values DEF TypeInv, TypeOK, Engine
<1>3. ASSUME NEW l \in UpLabels, Goto(p, l)
      PROVE  Only(p) /\ cli'[p].pc = l /\ cli'[p].cmd = cli[p].cmd
  BY <1>0, <1>3, OnIs, LabelsOf DEF Together
<1>4. ASSUME Return(p, TRUE) \/ Return(p, FALSE)
      PROVE  /\ Only(p) /\ cli'[p].pc = "idle" /\ cli'[p].cmd = "none"
             /\ last'.cmd \in {"up", "strict"}
  BY <1>1, <1>4, ReturnIs
<1>5. ASSUME Only(p), cli'[p].cmd \in {"up", "strict", "none"}, cli'[p].pc \in UpLabels \cup {"idle"},
             cli'[p].pc \in UpLabels => cli'[p].pc # "up.start",
             cli'[p].pc = "idle" => last'.cmd \in {"up", "strict"},
             UNCHANGED keys, store'.present = store.present, store'.mode = store.mode,
             Running => Running', cli[p].pc = "up.start" /\ cli'[p].pc # "idle" => Running'
      PROVE  KeysInv'
  <2>1. cli'[p].pc \notin Promising /\ cli'[p].pc \notin UsingLabels /\ cli[p].pc # "nuke.keys"
    BY <1>0, <1>5 DEF Promising, UsingLabels, UpLabels
  <2>2. cli'[p].pc = "idle" => last'.cmd \notin {"down", "nuke"}
    BY <1>5
  <2>3. cli'[p].pc \in Ready => cli[p].pc \in Ready \/ Running'
    <3>1. CASE cli[p].pc = "up.start"
      BY <1>5, <3>1 DEF Ready, UpLabels
    <3>2. CASE cli[p].pc # "up.start"
      BY <1>0, <3>2 DEF Ready
    <3> QED BY <3>1, <3>2
  <2>4. cli'[p].cmd # "watch"
    BY <1>5
  <2> QED BY <1>1, <1>5, <2>1, <2>2, <2>3, <2>4, KeysKept
<1> USE DEF At
<1>6. ASSUME NEW l \in UpLabels \ {"up.start"}, Goto(p, l) \/ Return(p, TRUE) \/ Return(p, FALSE),
             UNCHANGED <<keys, store>>,
             Running => Running', cli[p].pc = "up.start" /\ Goto(p, l) => Running'
      PROVE  KeysInv'
  <2>1. CASE Goto(p, l)
    BY <1>1, <1>3, <1>5, <1>6, <2>1 DEF UpLabels
  <2>2. CASE Return(p, TRUE) \/ Return(p, FALSE)
    BY <1>4, <1>5, <1>6, <2>2 DEF UpLabels
  <2> QED BY <1>6, <2>1, <2>2
<1>7. CASE UpStart(p)
  <2>1. UNCHANGED <<store, keys>> /\ (Running => Running')
    BY <1>7 DEF UpStart, Start, Running
  <2>2. CASE Goto(p, "up.ready") /\ daemon' = IF Running THEN daemon ELSE "boot"
    <3>1. Running'
      BY <2>2 DEF Running
    <3> QED BY <1>6, <2>1, <2>2, <3>1 DEF UpLabels
  <2>3. CASE Return(p, FALSE)
    BY <1>4, <1>5, <2>1, <2>3
  <2> QED BY <1>7, <2>2, <2>3 DEF UpStart, Start
<1>8. CASE UpReady(p) \/ UpLogin(p) \/ UpSSO(p) \/ UpEngine(p) \/ UpPreflight(p) \/ UpStrictDown(p)
  BY <1>6, <1>8 DEF UpReady, UpLogin, UpSSO, UpEngine, UpPreflight, UpStrictDown, Running, UpLabels
<1>9. CASE UpSetConfig(p)
  <2>1. CASE /\ cli' = [cli EXCEPT ![p].pc = "up.save", ![p].inst.loggedIn = TRUE]
             /\ UNCHANGED <<last, faults>>
    <3>1. Only(p) /\ cli'[p].pc = "up.save" /\ cli'[p].cmd = cli[p].cmd
      BY <1>9, <2>1, LoggedInIs DEF UpSetConfig
    <3> QED BY <1>1, <1>5, <1>9, <3>1 DEF UpSetConfig, UpLabels, Running
  <2>2. CASE Return(p, FALSE)
    BY <1>6, <1>9, <2>2 DEF UpSetConfig, UpLabels, Running
  <2> QED BY <1>9, <2>1, <2>2 DEF UpSetConfig
<1>10. CASE UpSave(p)
  <2>1. CASE Save(p) /\ Goto(p, "up.engine")
    <3>1. store'.present = store.present /\ store'.mode = store.mode
      BY <1>1, <1>2, <1>10, <2>1 DEF UpSave, Save, CopyInv, Instance
    <3> QED BY <1>1, <1>3, <1>5, <1>10, <2>1, <3>1 DEF UpSave, UpLabels, Running
  <2>2. CASE UNCHANGED store /\ Return(p, FALSE)
    BY <1>6, <1>10, <2>2 DEF UpSave, UpLabels, Running
  <2> QED BY <1>10, <2>1, <2>2 DEF UpSave
<1>11. CASE UpStatus(p)
  <2>1. CASE cli' = [cli EXCEPT ![p].pc = "up.iface", ![p].ip = engine.ip] /\ UNCHANGED <<last, faults>>
    <3>1. Only(p) /\ cli'[p].pc = "up.iface" /\ cli'[p].cmd = cli[p].cmd
      <4>1. cli[p].pc \in UpLabels /\ "up.iface" \in UpLabels
        BY <1>11 DEF UpStatus, UpLabels
      <4> QED BY <1>2, <2>1, <4>1, AnswerIs, Kin
    <3> QED BY <1>1, <1>5, <1>11, <3>1 DEF UpStatus, UpLabels, Running
  <2>2. CASE Return(p, FALSE)
    BY <1>6, <1>11, <2>2 DEF UpStatus, UpLabels, Running
  <2> QED BY <1>11, <2>1, <2>2 DEF UpStatus
<1>12. CASE UpInterface(p)
  BY <1>6, <1>12, InterfaceKeeps DEF UpInterface, UpLabels, Running
<1>13. CASE UpApplyDNS(p)
  <2>1. /\ Goto(p, "up.check") /\ cli[p].pc = "up.dns" /\ UNCHANGED <<store, daemon>>
        /\ ApplyKeys(p) /\ cli[p].inst = store /\ store.present
    BY <1>1, <1>13 DEF UpApplyDNS, CopyInv, Copying, UpLabels
  <2>2. CASE UNCHANGED keys
    BY <1>6, <2>1, <2>2 DEF UpLabels, Running
  <2>3. CASE keys' = TRUE /\ store.mode = "multibird"
    <3>1. Only(p) /\ cli'[p].pc = "up.check" /\ cli'[p].cmd = cli[p].cmd /\ faults' = faults
      BY <1>3, <2>1 DEF UpLabels, Only
    <3>2. KeysOf(cli[p])'
      BY <1>1, <2>1, <2>3, <3>1, KeysFrom DEF KeysOf, Never, Ready, UpLabels, UsingLabels, Running
    <3> QED BY <1>1, <3>1, <3>2, KeysTo, OthersIdle
  <2> QED BY <2>1, <2>2, <2>3 DEF ApplyKeys
<1> QED BY <1>7, <1>8, <1>9, <1>10, <1>11, <1>12, <1>13 DEF UpStep

\* A removal of keys that cannot fail.
LEMMA KeysRemoved ==
    ASSUME NEW p \in Procs, RemoveKeys(p), cli[p].pc \in KeySteps, Never(KeySteps)
    PROVE  keys' = FALSE
BY DEF RemoveKeys, MayFail, Never

LEMMA DownKeysInv == ASSUME TypeInv, SerialInv, KeysInv, NEW p \in Procs, DownStep(p) PROVE KeysInv'
<1>0. cli[p].pc \in DownLabels \cup RemoveLabels \cup {"nuke.kill", "nuke.keys"}
  BY DEF DownStep, DownEngine, DownKeys, DownStop, RemoveKeysAgain, RemoveTOML, RemoveDir, NukeKill,
     NukeKeys, At, DownLabels, RemoveLabels
<1>1. Busy(p) /\ CopyInv(cli[p]) /\ KeysOf(cli[p]) /\ CmdInv(cli[p])
  BY <1>0, BusyAt, Alone, KeysFrom, Values DEF DownLabels, RemoveLabels, SyncLabels
<1>2. ASSUME Only(p), cli'[p].cmd \in {cli[p].cmd, "none"}, KeysOf(cli[p])' PROVE KeysInv'
  BY <1>1, <1>2, KeysTo, OthersIdle DEF KeysInv
<1>3. keys \in BOOLEAN /\ cli[p].flag \in BOOLEAN
  BY Values DEF TypeInv, TypeOK, CLI
<1> USE DEF At
<1>4. CASE DownEngine(p)
  <2>1. Only(p) /\ cli'[p].pc = "down.keys" /\ cli'[p].cmd = cli[p].cmd
    BY <1>4, OnIs DEF DownEngine, Together, DownLabels, Labels
  <2> QED BY <1>1, <1>4, <2>1, KeysKept
       DEF DownEngine, Running, KeysInv, Promising, Ready, UpLabels, UsingLabels
<1>5. CASE DownKeys(p)
  <2>1. /\ Only(p) /\ cli'[p].pc = "down.stop" /\ cli'[p].cmd = cli[p].cmd /\ faults' = faults
        /\ cli[p].pc = "down.keys" /\ UNCHANGED <<store, daemon>> /\ cli[p].inst = store
    BY <1>1, <1>5, OnIs DEF DownKeys, Together, DownLabels, Labels, Only, CopyInv, Copying
  <2>2. Never(KeySteps) => keys' = FALSE
    <3>1. CASE cli[p].inst.mode = "multibird"
      BY <1>5, <2>1, <3>1, KeysRemoved DEF DownKeys, KeySteps
    <3>2. CASE cli[p].inst.mode # "multibird"
      BY <1>1, <1>3, <1>5, <2>1, <3>2 DEF DownKeys, KeysOf
    <3> QED BY <3>1, <3>2
  <2>3. KeysOf(cli[p])'
    BY <1>1, <2>1, <2>2 DEF KeysOf, Never, Ready, UpLabels, UsingLabels
  <2> QED BY <1>2, <2>1, <2>3
<1>6. CASE DownStop(p)
  <2>1. cli[p].pc = "down.stop" /\ UNCHANGED <<store, keys>>
    BY <1>6 DEF DownStop
  <2>2. CASE Goto(p, "rm.keys") /\ cli[p].cmd # "down"
    <3>1. Only(p) /\ cli'[p].pc = "rm.keys" /\ cli'[p].cmd = cli[p].cmd /\ faults' = faults
      BY <2>1, <2>2, RemoveIs DEF Only
    <3>2. KeysOf(cli[p])'
      BY <1>1, <2>1, <3>1 DEF KeysOf, Never, Ready, UpLabels, UsingLabels
    <3> QED BY <1>2, <3>1, <3>2
  <2>3. CASE Return(p, TRUE) \/ Return(p, FALSE)
    <3>1. Only(p) /\ cli'[p].pc = "idle" /\ cli'[p].cmd = "none" /\ faults' = faults
      BY <2>3, ReturnIs DEF Only
    <3>2. last'.ok => ~Running'
      <4>1. CASE Killed
        BY <4>1 DEF Killed, Running
      <4>2. CASE Return(p, FALSE)
        BY <4>2, ReturnIs
      <4>3. CASE Goto(p, "rm.keys")
        BY <2>1, <3>1, <4>3 DEF Goto, TypeInv, TypeOK, CLI
      <4> QED BY <1>6, <4>1, <4>2, <4>3 DEF DownStop
    <3>3. KeysOf(cli[p])'
      BY <1>1, <2>1, <3>1, <3>2 DEF KeysOf, Never, Ready, UpLabels, UsingLabels
    <3> QED BY <1>2, <3>1, <3>3
  <2> QED BY <1>6, <2>2, <2>3 DEF DownStop
<1>7. CASE RemoveKeysAgain(p)
  <2>1. /\ Only(p) /\ cli'[p].pc \in {"rm.toml", "rm.dir"} /\ cli'[p].cmd = cli[p].cmd
        /\ faults' = faults /\ cli[p].pc = "rm.keys" /\ UNCHANGED <<store, daemon>>
    BY <1>7, OnIs DEF RemoveKeysAgain, Together, RemoveLabels, Labels, Only
  <2>2. Never(KeySteps) => keys' = FALSE
    BY <1>7, <2>1, KeysRemoved DEF RemoveKeysAgain, KeySteps
  <2>3. KeysOf(cli[p])'
    BY <2>1, <2>2 DEF KeysOf, Never, Ready, UpLabels, UsingLabels
  <2> QED BY <1>2, <2>1, <2>3
<1>8. CASE RemoveTOML(p) \/ RemoveDir(p)
  <2>1. cli[p].pc \in {"rm.toml", "rm.dir"} /\ UNCHANGED <<keys, daemon>> /\ cli[p].cmd \in {"remove", "purge"}
    BY <1>1, <1>8 DEF RemoveTOML, RemoveDir, CmdInv, RemoveLabels
  <2>2. /\ Only(p) /\ cli'[p].cmd \in {cli[p].cmd, "none"} /\ faults' = faults
        /\ cli'[p].pc \in {cli[p].pc, "idle"}
        /\ cli'[p].pc = "idle" => last'.cmd \in {"remove", "purge"}
    <3>1. CASE UNCHANGED <<cli, last, faults>>
      BY <2>1, <3>1 DEF Only, TypeInv, TypeOK
    <3>2. CASE Return(p, TRUE) \/ Return(p, FALSE)
      BY <2>1, <3>2, ReturnIs DEF Only
    <3> QED BY <1>8, <3>1, <3>2 DEF RemoveTOML, RemoveDir
  <2>3. KeysOf(cli[p])'
    BY <1>1, <2>1, <2>2 DEF KeysOf, Never, Ready, UpLabels, UsingLabels
  <2> QED BY <1>2, <2>2, <2>3
<1>9. CASE NukeKill(p)
  <2>1. /\ Only(p) /\ cli'[p].pc = "nuke.keys" /\ cli'[p].cmd = cli[p].cmd /\ faults' = faults
        /\ cli'[p].flag = (daemon' = "down") /\ UNCHANGED <<store, keys>>
    <3>1. /\ cli[p].pc \in {"nuke.kill", "nuke.keys"} /\ (daemon' = "down") \in BOOLEAN
          /\ cli' = [cli EXCEPT ![p].pc = "nuke.keys", ![p].flag = (daemon' = "down")]
          /\ UNCHANGED <<store, keys, last, faults>>
      BY <1>9 DEF NukeKill
    <3>2. {"nuke.kill", "nuke.keys"} \in Together /\ "nuke.keys" \in Labels
      BY Kin
    <3>3. "nuke.keys" \in {"nuke.kill", "nuke.keys"}
      OBVIOUS
    <3> HIDE DEF At
    <3> QED BY <3>1, <3>2, <3>3, FlagIs
  <2>2. KeysOf(cli[p])'
    BY <1>1, <2>1 DEF KeysOf, Never, Ready, UpLabels, UsingLabels, Running
  <2> QED BY <1>2, <2>1, <2>2
<1>10. CASE NukeKeys(p)
  <2>1. keys' \in BOOLEAN /\ cli[p].pc = "nuke.keys" /\ UNCHANGED <<store, daemon>>
    BY <1>3, <1>10 DEF NukeKeys, RemoveKeys
  <2>2. /\ Only(p) /\ cli'[p].pc = "idle" /\ cli'[p].cmd = "none" /\ faults' = faults
        /\ last'.ok = (cli[p].flag /\ ~keys')
    BY <1>3, <1>10, <2>1, ReturnIs DEF NukeKeys, Only
  <2>3. Never(KeySteps) => keys' = FALSE
    BY <1>10, <2>1, KeysRemoved DEF NukeKeys, KeySteps
  <2>4. KeysOf(cli[p])'
    BY <1>1, <2>1, <2>2, <2>3 DEF KeysOf, Never, Ready, UpLabels, UsingLabels, Running
  <2> QED BY <1>2, <2>2, <2>4
<1> QED BY <1>4, <1>5, <1>6, <1>7, <1>8, <1>9, <1>10 DEF DownStep

LEMMA SetKeysInv == ASSUME TypeInv, SerialInv, KeysInv, NEW p \in Procs, SetStep(p) PROVE KeysInv'
<1>0. cli[p].pc \in SetLabels
  BY DEF SetStep, SetApply, SetStart, SetReady, SetConfig, SetStop, SetKeys, SetSave, At, SetLabels
<1>1. Busy(p) /\ CopyInv(cli[p]) /\ KeysOf(cli[p]) /\ cli[p].cmd = "set"
  BY <1>0, BusyAt, Alone, KeysFrom, Values DEF SetLabels, SyncLabels, CmdInv
<1>2. cli[p].inst \in Instance /\ store \in Instance /\ config \in Config
  BY Values DEF TypeInv, TypeOK
<1>3. ASSUME NEW l \in SetLabels, Goto(p, l)
      PROVE  /\ Only(p) /\ cli'[p].pc = l /\ cli'[p].inst = cli[p].inst /\ cli'[p].cmd = "set"
             /\ cli'[p].flag = cli[p].flag /\ faults' = faults
  BY <1>0, <1>1, <1>3, OnIs, LabelsOf DEF Together, Only
<1>4. ASSUME Return(p, TRUE) \/ Return(p, FALSE)
      PROVE  Only(p) /\ cli'[p].pc = "idle" /\ cli'[p].cmd = "none" /\ last'.cmd = "set" /\ faults' = faults
  BY <1>1, <1>4, ReturnIs DEF Only
<1>5. ASSUME Only(p), cli'[p].cmd \in {"set", "none"}, KeysOf(cli[p])' PROVE KeysInv'
  BY <1>1, <1>5, KeysTo, OthersIdle
<1> USE DEF At
<1>6. CASE SetApply(p)
  <2>1. UNCHANGED <<store, keys, daemon, faults>> /\ cli[p].pc = "set.apply"
    BY <1>6 DEF SetApply
  <2>2. KeysOf(cli[p])'
    BY <1>1, <1>6, <2>1, AppliedIs DEF KeysOf, Never, Ready, UpLabels, UsingLabels, Running
  <2> QED BY <1>5, <1>6, <2>2, AppliedIs
<1>7. CASE SetStart(p)
  <2>1. UNCHANGED <<store, keys>> /\ cli[p].pc = "set.start" /\ (Running => Running')
    BY <1>7 DEF SetStart, Running
  <2>2. CASE /\ daemon' = IF Running THEN daemon ELSE "boot"
             /\ cli' = [cli EXCEPT ![p].pc = "set.ready", ![p].flag = Running]
             /\ UNCHANGED <<last, faults>>
    <3>0. Running \in BOOLEAN
      BY DEF Running
    <3>1. Only(p) /\ cli'[p].pc = "set.ready" /\ cli'[p].cmd = "set" /\ cli'[p].flag = Running
      <4>1. cli[p].pc \in SetLabels /\ "set.ready" \in SetLabels
        BY <2>1 DEF SetLabels
      <4> QED BY <1>1, <2>2, <3>0, <4>1, FlagIs, Kin
    <3>2. Running'
      BY <2>2 DEF Running
    <3> QED BY <1>1, <2>1, <3>1, <3>2, KeysKept DEF Promising
  <2>3. CASE Return(p, FALSE)
    BY <1>1, <1>4, <2>1, <2>3, KeysKept DEF Promising, Ready, UpLabels, UsingLabels
  <2> QED BY <1>7, <2>2, <2>3 DEF SetStart
<1>8. CASE SetReady(p) \/ SetConfig(p)
  <2>1. UNCHANGED <<store, keys, daemon>> /\ cli[p].pc \in {"set.ready", "set.config"}
    BY <1>8 DEF SetReady, SetConfig
  <2>2. CASE Goto(p, "set.config") \/ Goto(p, "set.stop")
    BY <1>1, <1>3, <2>1, <2>2, KeysKept DEF Promising, UsingLabels, SetLabels, Running
  <2>3. CASE Return(p, FALSE)
    BY <1>1, <1>4, <2>1, <2>3, KeysKept DEF Promising, Ready, UpLabels, UsingLabels, Running
  <2> QED BY <1>8, <2>2, <2>3 DEF SetReady, SetConfig
<1>9. CASE SetStop(p)
  <2>1. /\ Only(p) /\ cli'[p].pc = "set.keys" /\ cli'[p].cmd = "set" /\ faults' = faults
        /\ cli[p].pc = "set.stop" /\ UNCHANGED <<store, keys>>
    BY <1>3, <1>9 DEF SetStop, SetLabels
  <2>2. cli[p].flag => daemon' = daemon
    BY <1>9 DEF SetStop
  <2>3. KeysOf(cli[p])'
    BY <1>1, <2>1, <2>2 DEF KeysOf, Never, Ready, UpLabels, UsingLabels, Running
  <2> QED BY <1>5, <2>1, <2>3
<1>10. CASE SetKeys(p)
  <2>1. /\ Only(p) /\ cli'[p].pc = "set.save" /\ cli'[p].cmd = "set" /\ faults' = faults
        /\ cli'[p].inst = cli[p].inst
        /\ cli[p].pc = "set.keys" /\ UNCHANGED <<store, daemon>> /\ cli[p].prev = store.mode
    BY <1>1, <1>3, <1>10 DEF SetKeys, SetLabels, CopyInv
  <2>2. Never(KeySteps) => keys' \in {FALSE, keys} /\ (keys' => cli[p].inst.mode = "multibird")
    <3>1. CASE cli[p].prev = "multibird" /\ cli[p].inst.mode # "multibird"
      BY <1>10, <2>1, <3>1, KeysRemoved DEF SetKeys, KeySteps
    <3>2. CASE ~(cli[p].prev = "multibird" /\ cli[p].inst.mode # "multibird")
      BY <1>1, <1>10, <2>1, <3>2 DEF SetKeys, KeysOf
    <3> QED BY <3>1, <3>2
  <2>3. KeysOf(cli[p])'
    BY <1>1, <2>1, <2>2 DEF KeysOf, Never, Ready, UpLabels, UsingLabels, Running
  <2> QED BY <1>5, <2>1, <2>3
<1>11. CASE SetSave(p)
  <2>1. /\ Only(p) /\ cli'[p].pc = "idle" /\ cli'[p].cmd = "none" /\ last'.cmd = "set"
        /\ faults' = faults /\ cli[p].pc = "set.save" /\ UNCHANGED <<keys, daemon>>
    BY <1>4, <1>11 DEF SetSave
  <2>2. UNCHANGED store \/ (store'.present /\ store'.mode = cli[p].inst.mode)
    BY <1>2, <1>11 DEF SetSave, Save, Instance
  <2>3. KeysOf(cli[p])'
    BY <1>1, <2>1, <2>2 DEF KeysOf, Never, Ready, UpLabels, UsingLabels, Running
  <2> QED BY <1>5, <2>1, <2>3
<1> QED BY <1>6, <1>7, <1>8, <1>9, <1>10, <1>11 DEF SetStep

LEMMA SyncKeysInv == ASSUME TypeInv, SerialInv, KeysInv, NEW p \in Procs, SyncStep(p) PROVE KeysInv'
<1>0. /\ Only(p) /\ UNCHANGED <<store, config, daemon, engine>> /\ faults' = faults
      /\ cli[p].pc \in StatusLabels \cup SyncLabels \cup SweepLabels
      /\ cli[p].cmd \in {"status", "sync", "sweep"}
  <2>1. /\ Only(p) /\ UNCHANGED <<store, config, daemon, engine>>
        /\ cli[p].pc \in StatusLabels \cup SyncLabels \cup SweepLabels \cup {"watch"}
    BY SyncGoes
  <2>2. CmdInv(cli[p]) /\ cli[p].cmd # "watch"
    BY Values DEF KeysInv
  <2> QED BY <2>1, <2>2 DEF CmdInv, Only
<1>1. Busy(p) /\ KeysOf(cli[p]) /\ CopyInv(cli[p])
  BY <1>0, KeysFrom, Alone DEF Busy
<1>2. keys \in BOOLEAN /\ keys' \in BOOLEAN /\ engine.ip \in BOOLEAN
  BY SyncTypes DEF TypeInv, TypeOK, Engine
<1>3. ASSUME NEW ok \in BOOLEAN, Return(p, ok)
      PROVE  cli'[p].pc = "idle" /\ cli'[p].cmd = "none" /\ last'.cmd \in {"status", "sync", "sweep"}
  BY <1>0, <1>3, ReturnIs
<1>4. ASSUME NEW ok \in BOOLEAN, SyncDone(p, ok), cli[p].pc \in SyncLabels
      PROVE  cli'[p].pc = "idle" /\ cli'[p].cmd = "none" /\ last'.cmd \in {"status", "sync", "sweep"}
  <2>1. cli[p].cmd = "sync"
    BY <1>0, <1>4, SyncDoneIs
  <2> QED BY <1>4, <2>1, SyncDoneIs
<1>5. ASSUME cli'[p].cmd # "watch", KeysOf(cli[p])' PROVE KeysInv'
  BY <1>0, <1>1, <1>5, KeysTo, OthersIdle
<1>6. ASSUME cli'[p].pc = "idle", cli'[p].cmd = "none", last'.cmd \in {"status", "sync", "sweep"},
             keys' \in {FALSE, keys}
      PROVE  KeysInv'
  <2>1. KeysOf(cli[p])'
    BY <1>0, <1>1, <1>6 DEF KeysOf, Never, Ready, UpLabels, UsingLabels, Running, StatusLabels,
       SyncLabels, SweepLabels
  <2> QED BY <1>5, <1>6, <2>1
<1>7. ASSUME cli'[p].pc \in StatusLabels \cup SyncLabels \cup SweepLabels, cli'[p].cmd = cli[p].cmd,
             keys' = keys, cli'[p].pc \in Ready => Running \/ cli[p].pc \in Ready
      PROVE  KeysInv'
  <2>1. KeysOf(cli[p])'
    BY <1>0, <1>1, <1>7 DEF KeysOf, Never, Ready, UpLabels, UsingLabels, Running, StatusLabels,
       SyncLabels, SweepLabels
  <2> QED BY <1>0, <1>5, <1>7, <2>1
\* ApplyKeys: the copy is current, and the daemon that answered is still there.
<1>8. ASSUME ApplyKeys(p), cli[p].pc \in {"st.dns", "sync.dns"}, cli'[p].cmd # "watch",
             \/ cli'[p].pc = "st.iface"
             \/ cli'[p].pc = "idle" /\ last'.cmd \in {"status", "sync", "sweep"}
      PROVE  KeysInv'
  <2>1. store.present /\ cli[p].inst = store
    BY <1>1, <1>8 DEF CopyInv, Copying, StatusLabels, SyncLabels
  <2>2. keys' = keys \/ (keys' = TRUE /\ store.mode = "multibird")
    BY <1>8, <2>1 DEF ApplyKeys
  <2>3. KeysOf(cli[p])'
    BY <1>0, <1>1, <1>8, <2>1, <2>2 DEF KeysOf, Never, Ready, UpLabels, UsingLabels, Running
  <2> QED BY <1>5, <1>8, <2>3
<1> USE DEF At
<1>9. CASE Watch(p)
  BY <1>0, <1>9 DEF Watch, StatusLabels, SyncLabels, SweepLabels
<1>10. CASE StatusRPC(p)
  <2>1. CASE cli' = [cli EXCEPT ![p].pc = "st.dns", ![p].ip = engine.ip] /\ UNCHANGED <<last, faults>> /\ Running
    <3>1. cli'[p].pc = "st.dns" /\ cli'[p].cmd = cli[p].cmd
      BY <1>2, <1>10, <2>1, AnswerIs DEF StatusRPC, Together, StatusLabels, Labels
    <3> QED BY <1>7, <1>10, <2>1, <3>1 DEF StatusRPC, StatusLabels
  <2>2. CASE Return(p, TRUE)
    BY <1>3, <1>6, <1>10, <2>2 DEF StatusRPC
  <2> QED BY <1>10, <2>1, <2>2 DEF StatusRPC
<1>11. CASE StatusDNS(p)
  <2>1. cli'[p].pc = "st.iface" /\ cli'[p].cmd = cli[p].cmd
    BY <1>11, OnIs DEF StatusDNS, Together, StatusLabels, Labels
  <2> QED BY <1>0, <1>8, <1>11, <2>1 DEF StatusDNS
<1>12. CASE StatusInterface(p)
  BY <1>3, <1>6, <1>12 DEF StatusInterface
<1>13. CASE SyncCheck(p)
  <2>1. CASE Goto(p, "sync.status") /\ Running /\ UNCHANGED keys
    <3>1. cli'[p].pc = "sync.status" /\ cli'[p].cmd = cli[p].cmd
      BY <1>13, <2>1, OnIs DEF SyncCheck, Together, SyncLabels, Labels
    <3> QED BY <1>7, <2>1, <3>1 DEF SyncLabels
  <2>2. CASE SyncDone(p, ~keys') /\ RemoveKeys(p)
    BY <1>2, <1>4, <1>6, <1>13, <2>2 DEF SyncCheck, RemoveKeys, SyncLabels
  <2> QED BY <1>13, <2>1, <2>2 DEF SyncCheck
<1>14. CASE SyncStatus(p)
  <2>1. CASE cli' = [cli EXCEPT ![p].pc = "sync.dns", ![p].ip = engine.ip] /\ UNCHANGED <<last, faults>>
    <3>1. cli'[p].pc = "sync.dns" /\ cli'[p].cmd = cli[p].cmd /\ cli[p].pc = "sync.status"
      BY <1>2, <1>14, <2>1, AnswerIs DEF SyncStatus, Together, SyncLabels, Labels
    <3> QED BY <1>7, <1>14, <3>1 DEF SyncStatus, SyncLabels, Ready
  <2>2. CASE SyncDone(p, FALSE)
    BY <1>4, <1>6, <1>14, <2>2 DEF SyncStatus, SyncLabels
  <2> QED BY <1>14, <2>1, <2>2 DEF SyncStatus
<1>15. CASE SyncApply(p)
  BY <1>4, <1>8, <1>15 DEF SyncApply, SyncLabels
<1>16. CASE SweepOwners(p)
  <2>1. cli'[p].pc = "sweep.list" /\ cli'[p].cmd = cli[p].cmd
    BY <1>2, <1>16, FlagIs DEF SweepOwners, Together, SweepLabels, Labels
  <2> QED BY <1>7, <1>16, <2>1 DEF SweepOwners, SweepLabels, Ready, UpLabels
<1>17. CASE SweepList(p)
  <2>1. CASE Goto(p, "sweep.keys")
    <3>1. cli'[p].pc = "sweep.keys" /\ cli'[p].cmd = cli[p].cmd
      BY <1>17, <2>1, OnIs DEF SweepList, Together, SweepLabels, Labels
    <3> QED BY <1>7, <1>17, <3>1 DEF SweepList, SweepLabels, Ready, UpLabels
  <2>2. CASE Return(p, TRUE)
    BY <1>3, <1>6, <1>17, <2>2 DEF SweepList
  <2> QED BY <1>17, <2>1, <2>2 DEF SweepList
<1>18. CASE SweepKeys(p)
  BY <1>2, <1>3, <1>6, <1>18 DEF SweepKeys, RemoveKeys
<1> QED BY <1>9, <1>10, <1>11, <1>12, <1>13, <1>14, <1>15, <1>16, <1>17, <1>18 DEF SyncStep

LEMMA KeysStep == NoWatch /\ Serial /\ TypeInv /\ SerialInv /\ KeysInv /\ [Next]_vars => KeysInv'
<1> SUFFICES ASSUME NoWatch, Serial, TypeInv, SerialInv, KeysInv, [Next]_vars PROVE KeysInv'
  OBVIOUS
<1>1. CASE UNCHANGED vars
  BY <1>1 DEF vars, KeysInv, KeyedInv, GoneInv, ServedInv, Never, Running
<1>2. ASSUME NEW p \in Procs, NEW j \in Jobs, Begin(p, j) PROVE KeysInv'
  <2>1. \A q \in Procs : cli[q].pc = "idle" /\ cli[q].cmd = "none"
    <3>1. \A q \in Procs : cli[q].cmd = "none" /\ CmdInv(cli[q])
      BY <1>2, Values DEF Begin, MayBegin, KeysInv
    <3> QED BY <3>1 DEF CmdInv
  <2>2. /\ Only(p) /\ cli'[p].pc = First(j.cmd) /\ cli'[p].cmd # "watch" /\ last' = last
        /\ UNCHANGED <<store, daemon, keys, faults>>
    BY <1>2, BeginIs DEF Begin, NoWatch
  <2>3. First(j.cmd) \in {"up.start", "down.engine", "nuke.kill", "set.apply", "st.status",
                          "sync.check", "watch", "sweep.owners"}
    BY DEF First
  <2>4. KeysOf(cli[p])
    BY <2>1 DEF KeysInv, KeyedInv, GoneInv, ServedInv, KeysOf
  <2>5. KeysOf(cli[p])'
    BY <2>1, <2>2, <2>3, <2>4 DEF KeysOf, Never, Ready, UpLabels, UsingLabels, Running
  <2> QED BY <2>1, <2>2, <2>5, KeysTo
<1>3. ASSUME NEW p \in Procs, NEW j \in Jobs, Add(p, j) PROVE KeysInv'
  <2>1. \A q \in Procs : cli[q].pc = "idle"
    <3>1. \A q \in Procs : cli[q].cmd = "none" /\ CmdInv(cli[q])
      BY <1>3, Values DEF Add, MayBegin, KeysInv
    <3> QED BY <3>1 DEF CmdInv
  <2>2. /\ UNCHANGED <<cli, keys, faults>> /\ ~store.present /\ last'.cmd = "add"
    BY <1>3 DEF Add
  <2>3. Never(KeySteps) => keys = FALSE
    BY <2>2 DEF KeysInv, KeyedInv, TypeInv, TypeOK
  <2> QED BY <2>1, <2>2, <2>3 DEF KeysInv, KeyedInv, GoneInv, ServedInv, Never, Ready, UpLabels,
       UsingLabels
<1>4. ASSUME NEW p \in Procs, Crash(p) PROVE KeysInv'
  <2>1. /\ "crash" \in faults /\ UNCHANGED <<store, daemon, keys, faults>>
        /\ last'.ok = FALSE
        /\ \A q \in Procs : cli'[q] = cli[q] \/ (cli'[q].pc = "idle" /\ cli'[q].cmd = "none")
    BY <1>4 DEF Crash, IdleCLI, TypeInv, TypeOK
  <2>2. \A q \in Procs : cli'[q].cmd # "watch"
    BY <2>1 DEF KeysInv
  <2>3. Never(KeySteps) => KeyedInv' /\ GoneInv'
    BY <2>1 DEF KeysInv, KeyedInv, GoneInv, Running
  <2> QED BY <2>1, <2>2, <2>3 DEF KeysInv, Never
<1>5. CASE DaemonBoot
  BY <1>5 DEF DaemonBoot, KeysInv, KeyedInv, GoneInv, ServedInv, Never, Running
<1>6. CASE EngineConnects
  BY <1>6 DEF EngineConnects, KeysInv, KeyedInv, GoneInv, ServedInv, Never, Running
<1>7. CASE DaemonDies
  BY <1>7 DEF DaemonDies, Killed, KeysInv, KeyedInv, GoneInv, Never, Running
<1> QED BY <1>1, <1>2, <1>3, <1>4, <1>5, <1>6, <1>7, UpKeys, DownKeysInv, SetKeysInv, SyncKeysInv
        DEF Next, Step

-----------------------------------------------------------------------------
(* The theorems.                                                           *)

\* The types of the variables, whoever runs with whom.
THEOREM LifeTypes == Spec => []TypeOK
<1>1. Spec => []TypeInv
  BY TypeInit, TypeStep, PTL DEF Spec
<1>2. TypeInv => TypeOK
  BY DEF TypeInv
<1> QED BY <1>1, <1>2, PTL

\* One command at a time keeps the inductive invariants, whichever call fails, with its
\* effect or without, and wherever a command is killed: a command's copy of the instance
\* is current, and what it is about to save it has pushed into config.json.
THEOREM LifeSerial == Serial => (Spec => [](TypeInv /\ SerialInv /\ ConfigInv))
<1> SUFFICES ASSUME Serial PROVE Spec => [](TypeInv /\ SerialInv /\ ConfigInv)
  OBVIOUS
<1>1. TypeInv /\ SerialInv /\ ConfigInv /\ [Next]_vars => (TypeInv /\ SerialInv /\ ConfigInv)'
  BY TypeStep, SerialStep, ConfigStep
<1>2. Init => TypeInv /\ SerialInv /\ ConfigInv
  BY TypeInit, SerialInit, ConfigInit
<1> QED BY <1>1, <1>2, PTL DEF Spec

\* ops.go in Up: "the engine never runs on the defaults (utun100, port 51820)".
\* Whatever calls fail, whatever commands are killed and watchers run, the engine's
\* port is one of multibird's.
THEOREM Isolated == Serial => (Spec => []EngineIsolated)
<1>1. SerialInv => EngineIsolated
  BY DEF SerialInv, StoreInv, EngineIsolated
<1> QED BY <1>1, LifeSerial, PTL

\* What is written into instance.toml agrees with config.json: the login it records is
\* there unless RemoveAll took config.json away, and port and DNS switch are the same
\* unless config.json changed later, by a Set that did not come to its Save.
THEOREM ConfigMatches == Serial => (Spec => []ConfigMatchesStore)
<1>1. ConfigInv => ConfigMatchesStore
  BY DEF ConfigInv, WholeInv, AgreeInv, Whole, Agrees, Settings, ConfigMatchesStore
<1> QED BY <1>1, LifeSerial, PTL

\* Without watchers the keys follow mode and daemon, step by step.
THEOREM LifeKeys == Serial /\ NoWatch => (Spec => [](TypeInv /\ SerialInv /\ KeysInv))
<1> SUFFICES ASSUME Serial, NoWatch PROVE Spec => [](TypeInv /\ SerialInv /\ KeysInv)
  OBVIOUS
<1>1. TypeInv /\ SerialInv /\ KeysInv /\ [Next]_vars => (TypeInv /\ SerialInv /\ KeysInv)'
  BY TypeStep, SerialStep, KeysStep
<1>2. Init => TypeInv /\ SerialInv /\ KeysInv
  BY TypeInit, SerialInit, KeysInit
<1> QED BY <1>1, <1>2, PTL DEF Spec

\* set.go: "Leaving multibird mode orphans our dynamic-store keys - remove them".
\* Without watchers, between commands only an instance in multibird mode has keys, and
\* only with its daemon, as long as removing keys does not fail and the daemon does not
\* die by itself.
THEOREM KeysCurrent == Serial /\ NoWatch => (Spec => []KeysAreCurrent)
<1>1. ASSUME TypeInv, KeysInv, Never(KeySteps \cup {"daemon"}), Quiescent, keys
      PROVE  /\ store.present /\ store.mode = "multibird"
             /\ Never({"crash"}) => Running
  <2>1. Never(KeySteps) /\ (Never({"crash"}) => Never({"daemon", "crash"}))
    BY <1>1 DEF Never
  <2>2. \A p \in Procs : cli[p].pc # "nuke.keys"
    BY <1>1 DEF Quiescent
  <2> QED BY <1>1, <2>1, <2>2 DEF KeysInv, KeyedInv, ServedInv
<1>2. TypeInv /\ KeysInv => KeysAreCurrent
  BY <1>1 DEF KeysAreCurrent
<1> QED BY <1>2, LifeKeys, PTL

\* A `down` or `nuke` that reports success has stopped the daemon and its engine and
\* removed the keys, without watchers and as long as removing keys does not fail.
THEOREM DownComplete == Serial /\ NoWatch => (Spec => []DownIsComplete)
<1>1. ASSUME TypeInv, SerialInv, KeysInv, Never(KeySteps), Quiescent, last.cmd \in {"down", "nuke"},
             last.ok
      PROVE  ~Running /\ ~engine.on /\ ~keys
  <2>1. \A p \in Procs : cli[p].pc = "idle"
    <3>1. \A p \in Procs : CmdInv(cli[p]) /\ cli[p].cmd # "watch" /\ cli[p].pc \in {"idle", "watch"}
      BY <1>1 DEF TypeInv, KeysInv, Quiescent
    <3> QED BY <3>1 DEF CmdInv
  <2>2. ~Running /\ ~keys
    BY <1>1, <2>1 DEF KeysInv, GoneInv
  <2> QED BY <1>1, <2>2 DEF SerialInv, StoreInv
<1>2. TypeInv /\ SerialInv /\ KeysInv => DownIsComplete
  BY <1>1 DEF DownIsComplete
<1> QED BY <1>2, LifeKeys, PTL
=============================================================================
