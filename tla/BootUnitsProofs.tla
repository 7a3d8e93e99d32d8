-------------------------- MODULE BootUnitsProofs --------------------------
(* Theorems about BootUnits, for every set of names.                        *)
EXTENDS BootUnits, SequenceTheorems, TLAPS

-----------------------------------------------------------------------------
(* Paths.                                                                  *)

LEMMA PathIsPath ==
    ASSUME NEW s \in Systems, NEW n \in AllNames, NEW k \in Kinds
    PROVE  UnitPath(s, n, k) \in Paths
BY DEF Paths

LEMMA NamesAreNames == ASSUME NEW N \in NameSets PROVE N \subseteq AllNames
BY DEF AllNames

\* The two units of one instance are different files.
LEMMA TwoUnits ==
    ASSUME NEW s \in Systems, NEW n \in AllNames
    PROVE  UnitPath(s, n, "up") # UnitPath(s, n, "watch")
<1>1. n \in Seq(STRING)
  BY BootAssumption DEF AllNames
<1>2. CASE s = "linux"
  <2>1. UnitPath(s, n, "up") = <<"multibird">> \o n
    BY <1>2 DEF UnitPath, SystemdUnitPath
  <2>2. UnitPath(s, n, "watch") = <<"multibird", "dnswatch">> \o n
    BY <1>2 DEF UnitPath, SystemdDNSWatchUnitPath
  <2>3. Len(<<"multibird">> \o n) = 1 + Len(n)
    BY <1>1
  <2>4. Len(<<"multibird", "dnswatch">> \o n) = 2 + Len(n)
    BY <1>1
  <2>5. Len(n) \in Nat
    BY <1>1
  <2> QED BY <2>1, <2>2, <2>3, <2>4, <2>5
<1>3. CASE s = "darwin"
  <2>1. UnitPath(s, n, "up") = <<"io.github.magnetrong.multibird", n>>
    BY <1>3 DEF UnitPath, LaunchdPlistPath
  <2>2. UnitPath(s, n, "watch") = <<"io.github.magnetrong.multibird", "dnswatch", n>>
    BY <1>3 DEF UnitPath, LaunchdDNSWatchPlistPath
  <2>3. Len(UnitPath(s, n, "up")) = 2 /\ Len(UnitPath(s, n, "watch")) = 3
    BY <2>1, <2>2
  <2> QED BY <2>3
<1> QED BY <1>2, <1>3 DEF Systems

\* A unit of a name that shares none is the unit of that name only.
LEMMA OwnPath ==
    ASSUME sys \in Systems, names \in NameSets,
           NEW n \in names, NEW m \in names, NEW j \in Kinds, NEW k \in Kinds,
           ~Shared(n), UnitPath(sys, n, k) = UnitPath(sys, m, j)
    PROVE  m = n /\ j = k
<1>1. m = n
  BY DEF Shared
<1>2. n \in AllNames
  BY NamesAreNames
<1> QED BY <1>1, <1>2, TwoUnits DEF Kinds

\* Starting units never pulls in the dns-watch of such a name.
LEMMA PullsNoWatch ==
    ASSUME sys \in Systems, names \in NameSets, NEW n \in names, ~Shared(n),
           NEW S \in SUBSET Paths, NEW known,
           \A p \in Paths : known[p] \in Units \cup {None},
           \A p \in Paths : known[p] \in Units => known[p].name \in names,
           UnitPath(sys, n, "watch") \notin S
    PROVE  UnitPath(sys, n, "watch") \notin Pulled(S, known)
<1> SUFFICES ASSUME UnitPath(sys, n, "watch") \in Pulled(S, known) PROVE FALSE
  OBVIOUS
<1>1. sys # "darwin"
  BY DEF Pulled
<1>2. sys = "linux"
  BY <1>1 DEF Systems
<1>3. PICK p \in S : known[p].kind = "watch" /\ UnitPath(sys, n, "watch") = SystemdUnitPath(known[p].name)
  BY <1>1 DEF Pulled
<1>4. known[p] \in Units
  BY <1>3 DEF None
<1>5. known[p].name \in names
  BY <1>4
<1>6. UnitPath(sys, known[p].name, "up") = SystemdUnitPath(known[p].name)
  BY <1>2 DEF UnitPath
<1> QED BY <1>3, <1>5, <1>6, OwnPath DEF Kinds

-----------------------------------------------------------------------------
(* The invariant.                                                          *)

\* What the invariant says about one unit, given its file, link, job and promise.
UnitInv(k, n, f, e, j, w) ==
    /\ w = "no" => ~(e /\ f \in Units) /\ (k = "watch" => j = "off")
    /\ w = "yes" => e /\ f = [kind |-> k, name |-> n]
    /\ k = "watch" /\ f = None => j = "off"

AllUnits ==
    \A n \in names, k \in Kinds :
        ~Shared(n) => LET p == UnitPath(sys, n, k)
                      IN  UnitInv(k, n, file[p], enabled[p], job[p], want[n][k])

LEMMA Pieces ==
    ASSUME names \in NameSets
    PROVE  BootInv <=> CommandInv /\ NamesInv /\ AllUnits
<1>1. ASSUME AllUnits PROVE NoFileNoWatch /\ UninstallReverses
  BY <1>1 DEF AllUnits, UnitInv, NoFileNoWatch, UninstallReverses, AtBoot, Readable, Kinds
<1>2. ASSUME AllUnits PROVE InstallHolds
  <2> SUFFICES ASSUME NEW n \in names, NEW k \in Kinds, want[n][k] = "yes", ~Shared(n)
               PROVE  LET p == UnitPath(sys, n, k)
                      IN  AtBoot(p) /\ file[p] = [kind |-> k, name |-> n]
    BY DEF InstallHolds
  <2>1. [kind |-> k, name |-> n] \in Units
    BY NamesAreNames DEF Units
  <2> QED BY <1>2, <2>1 DEF AllUnits, UnitInv, AtBoot, Readable
<1>3. ASSUME BootInv PROVE AllUnits
  BY <1>3 DEF AllUnits, UnitInv, BootInv, NoFileNoWatch, UninstallReverses, InstallHolds,
              AtBoot, Readable, Kinds
<1> QED BY <1>1, <1>2, <1>3 DEF BootInv

Inv == TypeOK /\ CommandInv /\ NamesInv /\ AllUnits

LEMMA InitInv == Init => Inv
<1> SUFFICES ASSUME Init PROVE Inv
  OBVIOUS
<1> USE DEF Init
<1>1. TypeOK
  <2>1. NoCmd \in Cmd
    BY DEF NoCmd, Cmd, Kinds, InstStates
  <2>2. /\ inst \in [AllNames -> InstStates] /\ file \in [Paths -> Units \cup {None, Cut}]
        /\ enabled \in [Paths -> BOOLEAN] /\ loaded \in [Paths -> Units \cup {None}]
    OBVIOUS
  <2>3. job \in [Paths -> Jobs] /\ want \in [AllNames -> [Kinds -> {"no", "yes", "unsure"}]]
    BY DEF Jobs
  <2> QED BY <2>1, <2>2, <2>3 DEF TypeOK
<1>2. None \notin Units
  BY DEF None, Units, Kinds
<1>3. CommandInv
  BY DEF CommandInv, NoCmd
<1>4. NamesInv
  BY <1>2 DEF NamesInv
<1>5. AllUnits
  <2> SUFFICES ASSUME NEW n \in names, NEW k \in Kinds
               PROVE  LET p == UnitPath(sys, n, k)
                      IN  UnitInv(k, n, file[p], enabled[p], job[p], want[n][k])
    BY DEF AllUnits
  <2>1. n \in AllNames
    BY NamesAreNames
  <2>2. UnitPath(sys, n, k) \in Paths
    BY <2>1, PathIsPath
  <2> QED BY <1>2, <2>1, <2>2 DEF UnitInv
<1> QED BY <1>1, <1>3, <1>4, <1>5 DEF Inv

\* A step of the command that changes no unit but the one it is about: the others
\* are as they were.
LEMMA OneUnit ==
    ASSUME Inv, sys' = sys, names' = names, cmd.name \in names,
           \A p \in Paths : p # Path => file'[p] = file[p] /\ enabled'[p] = enabled[p],
           \A n \in names : ~Shared(n) =>
               LET p == UnitPath(sys, n, "watch")
               IN  p # Path /\ job[p] = "off" => job'[p] = "off",
           \A n \in names, k \in Kinds :
               n # cmd.name \/ k # cmd.kind => want'[n][k] = want[n][k],
           ~Shared(cmd.name) => UnitInv(cmd.kind, cmd.name, file'[Path], enabled'[Path],
                                        job'[Path], want'[cmd.name][cmd.kind])
    PROVE  AllUnits'
<1> SUFFICES ASSUME NEW n \in names, NEW k \in Kinds, ~Shared(n)
             PROVE  LET p == UnitPath(sys, n, k)
                    IN  UnitInv(k, n, file'[p], enabled'[p], job'[p], want'[n][k])
  BY DEF AllUnits, Shared
<1> DEFINE p == UnitPath(sys, n, k)
<1>1. names \in NameSets /\ sys \in Systems /\ cmd.kind \in Kinds
  BY DEF Inv, TypeOK, Cmd
<1>2. p \in Paths
  BY <1>1, PathIsPath, NamesAreNames
<1>3. CASE p = Path
  <2>1. cmd.name = n /\ cmd.kind = k
    BY <1>1, <1>3, OwnPath DEF Path
  <2> QED BY <1>3, <2>1
<1>4. CASE p # Path
  <2>1. n # cmd.name \/ k # cmd.kind
    BY <1>4 DEF Path
  <2>2. UnitInv(k, n, file[p], enabled[p], job[p], want[n][k])
    BY DEF Inv, AllUnits
  <2>3. file'[p] = file[p] /\ enabled'[p] = enabled[p] /\ want'[n][k] = want[n][k]
    BY <1>2, <1>4, <2>1
  <2>4. k = "watch" /\ job[p] = "off" => job'[p] = "off"
    BY <1>4
  <2> QED BY <2>2, <2>3, <2>4 DEF UnitInv
<1> QED BY <1>3, <1>4

\* A step that leaves the units and what was said about them alone.
LEMMA NoUnit ==
    ASSUME Inv, UNCHANGED <<sys, names, file, enabled, want>>,
           \A n \in names : ~Shared(n) =>
               LET p == UnitPath(sys, n, "watch") IN job[p] = "off" => job'[p] = "off"
    PROVE  AllUnits'
<1> SUFFICES ASSUME NEW n \in names, NEW k \in Kinds, ~Shared(n)
             PROVE  LET p == UnitPath(sys, n, k)
                    IN  UnitInv(k, n, file[p], enabled[p], job'[p], want[n][k])
  BY DEF AllUnits, Shared
<1>1. LET p == UnitPath(sys, n, k)
      IN  UnitInv(k, n, file[p], enabled[p], job[p], want[n][k])
  BY DEF Inv, AllUnits
<1> QED BY <1>1 DEF UnitInv

\* What the steps of the command make of its state.
LEMMA EndInv == ASSUME cmd' = NoCmd PROVE CommandInv' /\ cmd' \in Cmd
<1>1. NoCmd \in Cmd /\ NoCmd.pc = "idle"
  BY DEF NoCmd, Cmd, Kinds, InstStates
<1> QED BY <1>1 DEF CommandInv

Labels == {"idle", "load", "open", "write", "reload", "enable", "stat", "disable", "remove", "reloadGone"}

LEMMA GotoIs ==
    ASSUME TypeOK, sys' = sys, NEW l \in Labels, Goto(l)
    PROVE  /\ cmd' \in Cmd /\ cmd'.pc = l /\ cmd'.name = cmd.name /\ cmd'.kind = cmd.kind
           /\ Path' = Path
<1>1. cmd \in Cmd
  BY DEF TypeOK
<1>2. cmd' \in Cmd /\ cmd'.pc = l /\ cmd'.name = cmd.name /\ cmd'.kind = cmd.kind
  BY <1>1 DEF Goto, Cmd, Labels
<1> QED BY <1>2 DEF Path

LEMMA UninstalledInv ==
    ASSUME TypeOK, Uninstalled, names' = names, cmd.name \in names
    PROVE  CommandInv' /\ cmd' \in Cmd
<1>1. cmd \in Cmd
  BY DEF TypeOK
<1>2. CASE cmd.kind = "watch"
  <2>1. cmd' = [cmd EXCEPT !.pc = "stat", !.kind = "up"]
    BY <1>2 DEF Uninstalled
  <2>2. cmd' \in Cmd /\ cmd'.pc = "stat" /\ cmd'.name = cmd.name
    BY <1>1, <2>1 DEF Cmd, Kinds
  <2> QED BY <2>2 DEF CommandInv
<1>3. CASE cmd.kind # "watch"
  BY <1>3, EndInv DEF Uninstalled, End
<1> QED BY <1>2, <1>3

LEMMA SaysIs ==
    ASSUME TypeOK, cmd.name \in AllNames, NEW w \in {"no", "yes", "unsure"}, Says(w)
    PROVE  /\ want' \in [AllNames -> [Kinds -> {"no", "yes", "unsure"}]]
           /\ want'[cmd.name][cmd.kind] = w
           /\ \A n \in AllNames, k \in Kinds :
                 n # cmd.name \/ k # cmd.kind => want'[n][k] = want[n][k]
<1>1. want \in [AllNames -> [Kinds -> {"no", "yes", "unsure"}]] /\ cmd.kind \in Kinds
  BY DEF TypeOK, Cmd
<1>2. want' = [want EXCEPT ![cmd.name] = [want[cmd.name] EXCEPT ![cmd.kind] = w]]
  BY <1>1 DEF Says
<1>3. [want[cmd.name] EXCEPT ![cmd.kind] = w] \in [Kinds -> {"no", "yes", "unsure"}]
  BY <1>1
<1> QED BY <1>1, <1>2, <1>3

LEMMA ReloadedIs ==
    ASSUME Inv, Reloaded
    PROVE  /\ loaded' \in [Paths -> Units \cup {None}]
           /\ \A p \in Paths : loaded'[p] \in Units => loaded'[p].name \in names
<1>1. None \notin Units
  BY DEF None, Units, Kinds
<1>2. \A p \in Paths : loaded'[p] = IF file[p] \in Units THEN file[p] ELSE None
  BY DEF Reloaded, Readable
<1> QED BY <1>1, <1>2 DEF Inv, NamesInv, Reloaded, Readable

\* A step that changes the state of the command only.
LEMMA CommandOnly ==
    ASSUME Inv, UNCHANGED <<sys, names, inst, file, manager, want>>, cmd' \in Cmd,
           cmd'.pc \in {"idle", "load", "open", "stat", "disable"},
           cmd'.pc # "idle" => cmd'.name \in names
    PROVE  Inv'
<1>1. UNCHANGED <<sys, names, inst, file, enabled, loaded, job, want>>
  BY DEF manager
<1>2. TypeOK'
  BY <1>1 DEF Inv, TypeOK
<1>3. CommandInv'
  BY <1>1 DEF CommandInv
<1>4. NamesInv'
  BY <1>1 DEF Inv, NamesInv
<1>5. AllUnits'
  BY <1>1, NoUnit
<1> QED BY <1>2, <1>3, <1>4, <1>5 DEF Inv

LEMMA Ends ==
    ASSUME Inv, UNCHANGED <<sys, names, inst, file, manager, want>>, End
    PROVE  Inv'
<1>1. cmd' \in Cmd /\ cmd'.pc = "idle"
  BY EndInv DEF End, NoCmd
<1> QED BY <1>1, CommandOnly

-----------------------------------------------------------------------------
(* The steps.                                                              *)

LEMMA NotUnits == None \notin Units /\ Cut \notin Units /\ Cut # None
BY DEF None, Cut, Units, Kinds

\* The unit that the command is about.
LEMMA Here ==
    ASSUME Inv, cmd.pc # "idle"
    PROVE  /\ cmd.name \in names /\ cmd.name \in AllNames /\ cmd.kind \in Kinds
           /\ Path \in Paths
           /\ [kind |-> cmd.kind, name |-> cmd.name] \in Units
           /\ ~Shared(cmd.name) => UnitInv(cmd.kind, cmd.name, file[Path], enabled[Path],
                                           job[Path], want[cmd.name][cmd.kind])
<1>1. cmd.name \in names
  BY DEF Inv, CommandInv
<1>2. sys \in Systems /\ names \in NameSets /\ cmd.kind \in Kinds
  BY DEF Inv, TypeOK, Cmd
<1>3. cmd.name \in AllNames
  BY <1>1, <1>2, NamesAreNames
<1>4. Path \in Paths
  BY <1>2, <1>3, PathIsPath DEF Path
<1>5. ~Shared(cmd.name) => UnitInv(cmd.kind, cmd.name, file[Path], enabled[Path],
                                   job[Path], want[cmd.name][cmd.kind])
  BY <1>1, <1>2 DEF Inv, AllUnits, Path
<1> QED BY <1>1, <1>2, <1>3, <1>4, <1>5 DEF Units

LEMMA JobOnly ==
    ASSUME Inv, NEW p \in Paths, NEW x \in Jobs, job[p] # "off",
           job' = [job EXCEPT ![p] = x],
           UNCHANGED <<sys, names, inst, file, enabled, loaded, cmd, want>>
    PROVE  Inv'
<1>1. TypeOK'
  <2>1. job' \in [Paths -> Jobs]
    BY DEF Inv, TypeOK
  <2> QED BY <2>1 DEF Inv, TypeOK
<1>2. \A q : q \in Paths /\ job[q] = "off" => job'[q] = "off"
  BY DEF Inv, TypeOK
<1>3. CommandInv'
  <2>1. Path' = Path
    BY DEF Path
  <2>2. cmd.pc # "idle" => Path \in Paths
    BY Here
  <2> QED BY <1>2, <2>1, <2>2 DEF Inv, CommandInv
<1>4. NamesInv'
  BY DEF Inv, NamesInv
<1>5. AllUnits'
  <2>1. \A n \in names : UnitPath(sys, n, "watch") \in Paths
    BY NamesAreNames, PathIsPath DEF Inv, TypeOK, Kinds
  <2> QED BY <1>2, <2>1, NoUnit
<1> QED BY <1>1, <1>3, <1>4, <1>5 DEF Inv

LEMMA RunJobInv == ASSUME Inv, NEW p \in Paths, RunJob(p) PROVE Inv'
<1> DEFINE u == loaded[p]
           s == IF u = None THEN "absent" ELSE inst[u.name]
           y == AfterExit(s = "absent")
           x == CASE u = None -> "exited"
                  [] u.kind = "up" -> IF s = "absent" THEN "exited" ELSE "active"
                  [] u.kind = "watch" -> IF s = "multibird" THEN "running" ELSE y
<1>1. u = None \/ u.kind \in Kinds
  BY DEF Inv, TypeOK, Units
<1>2. x \in Jobs
  <2>1. y \in Jobs
    BY DEF AfterExit, Jobs
  <2> HIDE DEF y, s
  <2>2. CASE u = None
    <3>1. u.kind # "up" /\ u.kind # "watch"
      BY <2>2 DEF None
    <3> QED BY <2>2, <3>1 DEF Jobs
  <2>3. CASE u # None /\ u.kind = "up"
    BY <2>3 DEF Jobs
  <2>4. CASE u # None /\ u.kind = "watch"
    BY <2>1, <2>4 DEF Jobs
  <2> QED BY <1>1, <2>2, <2>3, <2>4 DEF Kinds
<1>3. job' = [job EXCEPT ![p] = x]
  BY DEF RunJob
<1>4. job[p] # "off" /\ UNCHANGED <<sys, names, inst, file, enabled, loaded, cmd, want>>
  BY DEF RunJob
<1> HIDE DEF x
<1> QED BY <1>2, <1>3, <1>4, JobOnly

LEMMA WatchExitsInv ==
    ASSUME Inv, NEW p \in Paths, NEW failed \in BOOLEAN, WatchExits(p, failed) PROVE Inv'
<1>1. AfterExit(failed) \in Jobs
  BY DEF AfterExit, Jobs
<1> QED BY <1>1, JobOnly DEF WatchExits

LEMMA InstanceInv == ASSUME Inv, NEW n \in names, NEW s \in InstStates, Instance(n, s) PROVE Inv'
<1>1. UNCHANGED <<sys, names, file, enabled, loaded, job, cmd, want>>
  BY DEF Instance, manager
<1>2. inst' \in [AllNames -> InstStates]
  BY DEF Inv, TypeOK, Instance
<1>3. TypeOK'
  BY <1>1, <1>2 DEF Inv, TypeOK
<1>4. CommandInv' /\ NamesInv'
  BY <1>1 DEF Inv, CommandInv, NamesInv, Path
<1>5. AllUnits'
  BY <1>1, NoUnit
<1> QED BY <1>3, <1>4, <1>5 DEF Inv

LEMMA RebootInv == ASSUME Inv, Reboot PROVE Inv'
<1> DEFINE S == {p \in Paths : AtBoot(p)}
<1>1. /\ loaded' = [p \in Paths |-> IF Readable(file[p]) /\ (sys = "linux" \/ enabled[p])
                                    THEN file[p] ELSE None]
      /\ job' = [p \in Paths |-> IF p \in Pulled(S, loaded') THEN "starting" ELSE "off"]
      /\ cmd' = NoCmd /\ UNCHANGED <<sys, names, inst, file, enabled, want>>
  BY DEF Reboot
<1>2. /\ loaded' \in [Paths -> Units \cup {None}]
      /\ \A p \in Paths : loaded'[p] \in Units => loaded'[p] = file[p]
  BY <1>1, NotUnits DEF Readable
<1>3. job' \in [Paths -> Jobs]
  BY <1>1 DEF Jobs
<1>4. CommandInv' /\ cmd' \in Cmd
  BY <1>1, EndInv
<1>5. TypeOK'
  BY <1>1, <1>2, <1>3, <1>4 DEF Inv, TypeOK
<1>6. \A p \in Paths : loaded'[p] \in Units => loaded'[p].name \in names
  BY <1>2 DEF Inv, NamesInv
<1>7. NamesInv'
  BY <1>1, <1>6 DEF Inv, NamesInv
<1>8. AllUnits'
  <2>0. UNCHANGED <<sys, names, file, enabled, want>>
    BY <1>1
  <2> SUFFICES ASSUME NEW n \in names, NEW k \in Kinds, ~Shared(n)
               PROVE  LET p == UnitPath(sys, n, k)
                      IN  UnitInv(k, n, file[p], enabled[p], job'[p], want[n][k])
    BY <2>0 DEF AllUnits, Shared
  <2> DEFINE p == UnitPath(sys, n, k)
  <2>1. sys \in Systems /\ names \in NameSets
    BY DEF Inv, TypeOK
  <2>2. p \in Paths
    BY <2>1, NamesAreNames, PathIsPath
  <2>3. UnitInv(k, n, file[p], enabled[p], job[p], want[n][k])
    BY DEF Inv, AllUnits
  <2>4. ASSUME k = "watch", ~AtBoot(p) PROVE job'[p] = "off"
    <3>1. p \notin S
      BY <2>4
    <3>2. \A q \in Paths : loaded'[q] \in Units \cup {None}
      BY <1>2
    <3>3. p \notin Pulled(S, loaded')
      BY <1>6, <2>1, <2>4, <3>1, <3>2, PullsNoWatch
    <3> QED BY <1>1, <2>2, <3>3
  <2>5. want[n][k] = "no" \/ file[p] = None => ~AtBoot(p)
    BY <2>3, NotUnits DEF UnitInv, AtBoot, Readable
  <2> QED BY <2>3, <2>4, <2>5 DEF UnitInv
<1> QED BY <1>4, <1>5, <1>7, <1>8 DEF Inv

LEMMA WriteOpenInv == ASSUME Inv, WriteOpen PROVE Inv'
<1>1. cmd.pc = "open" /\ UNCHANGED <<sys, names, inst, enabled, loaded, job>>
  BY DEF WriteOpen, manager
<1>2. /\ cmd.name \in names /\ cmd.name \in AllNames /\ cmd.kind \in Kinds /\ Path \in Paths
  BY <1>1, Here
<1>3. CASE End /\ UNCHANGED <<file, want>>
  BY <1>1, <1>3, Ends DEF manager
<1>4. CASE file' = [file EXCEPT ![Path] = Cut] /\ Goto("write") /\ Says("unsure")
  <2>1. cmd' \in Cmd /\ cmd'.pc = "write" /\ cmd'.name = cmd.name /\ cmd'.kind = cmd.kind
    BY <1>1, <1>4, GotoIs DEF Inv, Labels
  <2>2. /\ want' \in [AllNames -> [Kinds -> {"no", "yes", "unsure"}]]
        /\ want'[cmd.name][cmd.kind] = "unsure"
        /\ \A n \in AllNames, k \in Kinds :
              n # cmd.name \/ k # cmd.kind => want'[n][k] = want[n][k]
    BY <1>2, <1>4, SaysIs DEF Inv
  <2>3. /\ file' \in [Paths -> Units \cup {None, Cut}] /\ file'[Path] = Cut
        /\ \A p \in Paths : p # Path => file'[p] = file[p]
    BY <1>2, <1>4 DEF Inv, TypeOK
  <2>4. TypeOK'
    BY <1>1, <2>1, <2>2, <2>3 DEF Inv, TypeOK
  <2>5. CommandInv'
    BY <1>1, <1>2, <2>1, <2>2 DEF CommandInv
  <2>6. NamesInv'
    BY <1>1, <2>3, NotUnits DEF Inv, NamesInv
  <2>7. AllUnits'
    <3>1. UnitInv(cmd.kind, cmd.name, file'[Path], enabled'[Path], job'[Path],
                  want'[cmd.name][cmd.kind])
      BY <2>2, <2>3, NotUnits DEF UnitInv
    <3>2. names \subseteq AllNames
      BY NamesAreNames DEF Inv, TypeOK
    <3> QED BY <1>1, <1>2, <2>2, <2>3, <3>1, <3>2, OneUnit
  <2> QED BY <2>4, <2>5, <2>6, <2>7 DEF Inv
<1> QED BY <1>3, <1>4 DEF WriteOpen

LEMMA WriteInv == ASSUME Inv, Write PROVE Inv'
<1>1. cmd.pc = "write" /\ UNCHANGED <<sys, names, inst, enabled, loaded, job, want>>
  BY DEF Write, manager
<1> DEFINE own == [kind |-> cmd.kind, name |-> cmd.name]
           l == IF sys = "linux" THEN "reload" ELSE "enable"
<1>2. cmd.name \in names /\ cmd.kind \in Kinds /\ Path \in Paths /\ own \in Units
  BY <1>1, Here
<1>3. CASE End /\ UNCHANGED file
  BY <1>1, <1>3, Ends DEF manager
<1>4. CASE file' = [file EXCEPT ![Path] = own] /\ Goto(l)
  <2>1. /\ cmd' \in Cmd /\ cmd'.pc = l /\ cmd'.name = cmd.name /\ cmd'.kind = cmd.kind
        /\ Path' = Path
    BY <1>1, <1>4, GotoIs DEF Inv, Labels
  <2>2. want[cmd.name][cmd.kind] = "unsure"
    BY <1>1 DEF Inv, CommandInv
  <2>3. /\ file' \in [Paths -> Units \cup {None, Cut}] /\ file'[Path] = own
        /\ \A p \in Paths : p # Path => file'[p] = file[p]
    BY <1>2, <1>4 DEF Inv, TypeOK
  <2>4. TypeOK'
    BY <1>1, <2>1, <2>3 DEF Inv, TypeOK
  <2>5. CommandInv'
    BY <1>1, <1>2, <2>1, <2>2, <2>3 DEF CommandInv
  <2>6. NamesInv'
    <3>1. \A p \in Paths : file'[p] \in Units => file'[p].name \in names
      BY <1>2, <2>3 DEF Inv, NamesInv
    <3> QED BY <1>1, <3>1 DEF Inv, NamesInv
  <2>7. AllUnits'
    <3>1. UnitInv(cmd.kind, cmd.name, file'[Path], enabled'[Path], job'[Path],
                  want'[cmd.name][cmd.kind])
      BY <1>1, <1>2, <2>2, <2>3, NotUnits DEF UnitInv
    <3> QED BY <1>1, <1>2, <2>3, <3>1, OneUnit
  <2> QED BY <2>4, <2>5, <2>6, <2>7 DEF Inv
<1> QED BY <1>3, <1>4 DEF Write

\* daemon-reload when the command goes on with the unit it has written.
LEMMA DaemonReloadInv == ASSUME Inv, DaemonReload PROVE Inv'
<1>1. cmd.pc = "reload" /\ UNCHANGED <<sys, names, inst, file, enabled, job, want>>
  BY DEF DaemonReload
<1>2. cmd.name \in names
  BY <1>1, Here
<1>3. /\ loaded' \in [Paths -> Units \cup {None}]
      /\ \A p \in Paths : loaded'[p] \in Units => loaded'[p].name \in names
  BY ReloadedIs DEF DaemonReload, Inv, TypeOK, NamesInv
<1>4. cmd' \in Cmd /\ CommandInv'
  <2>1. CASE End
    BY <2>1, EndInv DEF End
  <2>2. CASE Goto("enable")
    <3>1. /\ cmd' \in Cmd /\ cmd'.pc = "enable" /\ cmd'.name = cmd.name
          /\ cmd'.kind = cmd.kind /\ Path' = Path
      BY <1>1, <2>2, GotoIs DEF Inv, Labels
    <3> QED BY <1>1, <1>2, <3>1 DEF Inv, CommandInv
  <2> QED BY <2>1, <2>2 DEF DaemonReload
<1>5. TypeOK'
  BY <1>1, <1>3, <1>4 DEF Inv, TypeOK
<1>6. NamesInv'
  BY <1>1, <1>3 DEF Inv, NamesInv
<1>7. AllUnits'
  BY <1>1, NoUnit
<1> QED BY <1>4, <1>5, <1>6, <1>7 DEF Inv

\* What enabling the unit does to the service manager.
LEMMA EnableIs ==
    ASSUME Inv, cmd.pc # "idle", Enable(Path, cmd.kind = "watch")
    PROVE  /\ enabled' \in [Paths -> BOOLEAN] /\ enabled'[Path]
           /\ \A p \in Paths : p # Path => enabled'[p] = enabled[p]
           /\ loaded' \in [Paths -> Units \cup {None}]
           /\ \A p \in Paths : loaded'[p] \in Units => loaded'[p].name \in names
           /\ job' \in [Paths -> Jobs]
           /\ \A n \in names : ~Shared(n) =>
                 LET p == UnitPath(sys, n, "watch")
                 IN  p # Path /\ job[p] = "off" => job'[p] = "off"
<1> DEFINE Quiet == \A n \in names : ~Shared(n) =>
                       LET p == UnitPath(sys, n, "watch")
                       IN  p # Path /\ job[p] = "off" => job'[p] = "off"
<1>1. Path \in Paths /\ file[Path] \in Units
  BY Here DEF Enable, Readable
<1>2. /\ enabled' \in [Paths -> BOOLEAN] /\ enabled'[Path]
      /\ \A p \in Paths : p # Path => enabled'[p] = enabled[p]
  BY <1>1 DEF Enable, Inv, TypeOK
<1>3. \A n \in names : UnitPath(sys, n, "watch") \in Paths
  BY NamesAreNames, PathIsPath DEF Inv, TypeOK, Kinds
<1>4. job \in [Paths -> Jobs] /\ loaded \in [Paths -> Units \cup {None}]
  BY DEF Inv, TypeOK
<1>5. CASE /\ sys = "linux" /\ Reloaded
           /\ job' = IF cmd.kind = "watch" THEN Started({Path}, loaded') ELSE job
  <2>1. /\ loaded' \in [Paths -> Units \cup {None}]
        /\ \A p \in Paths : loaded'[p] \in Units => loaded'[p].name \in names
    BY <1>5, ReloadedIs
  <2>2. CASE job' = job
    BY <1>4, <2>1, <2>2, <1>2
  <2>3. CASE job' = Started({Path}, loaded')
    <3>1. job' \in [Paths -> Jobs]
      BY <1>4, <2>3 DEF Started, Jobs
    <3>2. ASSUME NEW n \in names, ~Shared(n), UnitPath(sys, n, "watch") # Path
          PROVE  job'[UnitPath(sys, n, "watch")] = job[UnitPath(sys, n, "watch")]
      <4>1. UnitPath(sys, n, "watch") \notin Pulled({Path}, loaded')
        <5>1. \A p \in Paths : loaded'[p] \in Units \cup {None}
          BY <2>1
        <5>2. {Path} \in SUBSET Paths /\ UnitPath(sys, n, "watch") \notin {Path}
          BY <1>1, <3>2
        <5>3. sys \in Systems /\ names \in NameSets
          BY DEF Inv, TypeOK
        <5> QED BY <2>1, <3>2, <5>1, <5>2, <5>3, PullsNoWatch
      <4> QED BY <1>3, <2>3, <4>1 DEF Started
    <3>3. Quiet
      BY <3>2
    <3> QED BY <1>2, <2>1, <3>1, <3>3
  <2> QED BY <1>5, <2>2, <2>3
<1>6. CASE /\ sys = "darwin" /\ loaded[Path] = None
           /\ loaded' = [loaded EXCEPT ![Path] = file[Path]]
           /\ job' = [job EXCEPT ![Path] = "starting"]
  <2>1. loaded' \in [Paths -> Units \cup {None}] /\ job' \in [Paths -> Jobs]
    BY <1>1, <1>4, <1>6 DEF Jobs
  <2>2. \A p \in Paths : loaded'[p] \in Units => loaded'[p].name \in names
    BY <1>1, <1>4, <1>6 DEF Inv, NamesInv
  <2>3. Quiet
    BY <1>3, <1>4, <1>6
  <2> QED BY <1>2, <2>1, <2>2, <2>3
<1>7. CASE sys = "darwin" /\ loaded[Path] # None /\ UNCHANGED <<loaded, job>>
  <2>1. \A p \in Paths : loaded'[p] \in Units => loaded'[p].name \in names
    BY <1>7 DEF Inv, NamesInv
  <2> QED BY <1>2, <1>4, <1>7, <2>1
<1> QED BY <1>5, <1>6, <1>7 DEF Enable

LEMMA InstallEnableInv == ASSUME Inv, InstallEnable PROVE Inv'
<1>1. cmd.pc = "enable" /\ UNCHANGED <<sys, names, inst, file>>
  BY DEF InstallEnable
<1> DEFINE own == [kind |-> cmd.kind, name |-> cmd.name]
           more == cmd.kind = "up" /\ cmd.watch /\ cmd.mode = "multibird"
<1>2. /\ cmd.name \in names /\ cmd.name \in AllNames /\ cmd.kind \in Kinds
      /\ Path \in Paths /\ own \in Units
  BY <1>1, Here
<1>3. want[cmd.name][cmd.kind] = "unsure" /\ file[Path] = own
  BY <1>1 DEF Inv, CommandInv
<1>4. CASE UNCHANGED <<manager, want>> /\ End
  BY <1>1, <1>4, Ends
<1>5. ASSUME Enable(Path, cmd.kind = "watch"), CommandInv', cmd' \in Cmd,
             want' \in [AllNames -> [Kinds -> {"no", "yes", "unsure"}]],
             want'[cmd.name][cmd.kind] # "no",
             \A n \in AllNames, k \in Kinds :
                n # cmd.name \/ k # cmd.kind => want'[n][k] = want[n][k]
      PROVE  Inv'
  <2>1. /\ enabled' \in [Paths -> BOOLEAN] /\ enabled'[Path]
        /\ \A p \in Paths : p # Path => enabled'[p] = enabled[p]
        /\ loaded' \in [Paths -> Units \cup {None}]
        /\ \A p \in Paths : loaded'[p] \in Units => loaded'[p].name \in names
        /\ job' \in [Paths -> Jobs]
        /\ \A n \in names : ~Shared(n) =>
              LET p == UnitPath(sys, n, "watch")
              IN  p # Path /\ job[p] = "off" => job'[p] = "off"
    BY <1>1, <1>5, EnableIs
  <2>2. TypeOK'
    BY <1>1, <1>5, <2>1 DEF Inv, TypeOK
  <2>3. NamesInv'
    BY <1>1, <2>1 DEF Inv, NamesInv
  <2>4. AllUnits'
    <3>1. UnitInv(cmd.kind, cmd.name, file'[Path], enabled'[Path], job'[Path],
                  want'[cmd.name][cmd.kind])
      BY <1>1, <1>2, <1>3, <1>5, <2>1, NotUnits DEF UnitInv
    <3>2. names \subseteq AllNames
      BY NamesAreNames DEF Inv, TypeOK
    <3> QED BY <1>1, <1>2, <1>5, <2>1, <3>1, <3>2, OneUnit
  <2> QED BY <1>5, <2>2, <2>3, <2>4 DEF Inv
<1>6. CASE Enable(Path, cmd.kind = "watch") /\ End /\ UNCHANGED want
  <2>1. CommandInv' /\ cmd' \in Cmd
    BY <1>6, EndInv DEF End
  <2>2. want' = want /\ want \in [AllNames -> [Kinds -> {"no", "yes", "unsure"}]]
    BY <1>6 DEF Inv, TypeOK
  <2> QED BY <1>3, <1>5, <1>6, <2>1, <2>2
<1>7. CASE /\ Enable(Path, cmd.kind = "watch") /\ Says("yes")
           /\ IF more THEN cmd' = [cmd EXCEPT !.pc = "open", !.kind = "watch"] ELSE End
  <2>1. CommandInv' /\ cmd' \in Cmd
    <3>1. CASE End
      BY <3>1, EndInv DEF End
    <3>2. CASE cmd' = [cmd EXCEPT !.pc = "open", !.kind = "watch"]
      <4>1. cmd \in Cmd
        BY DEF Inv, TypeOK
      <4>2. cmd' \in Cmd /\ cmd'.pc = "open" /\ cmd'.name = cmd.name
        BY <3>2, <4>1 DEF Cmd, Kinds
      <4> QED BY <1>1, <1>2, <4>2 DEF CommandInv
    <3> QED BY <1>7, <3>1, <3>2
  <2>2. /\ want' \in [AllNames -> [Kinds -> {"no", "yes", "unsure"}]]
        /\ want'[cmd.name][cmd.kind] = "yes"
        /\ \A n \in AllNames, k \in Kinds :
              n # cmd.name \/ k # cmd.kind => want'[n][k] = want[n][k]
    BY <1>2, <1>7, SaysIs DEF Inv
  <2> QED BY <1>5, <1>7, <2>1, <2>2
<1> QED BY <1>4, <1>6, <1>7 DEF InstallEnable

\* A step of uninstall that says the unit is gone, and is right.
LEMMA SaysGone ==
    ASSUME Inv, cmd.pc # "idle", Uninstalled, Says("no"),
           UNCHANGED <<sys, names, inst, enabled, job>>,
           file' \in [Paths -> Units \cup {None, Cut}], loaded' \in [Paths -> Units \cup {None}],
           \A p \in Paths : p # Path => file'[p] = file[p],
           NamesInv', ~enabled[Path] \/ file'[Path] = None,
           cmd.kind = "watch" /\ ~Shared(cmd.name) => job[Path] = "off"
    PROVE  Inv'
<1>1. cmd.name \in names /\ cmd.name \in AllNames /\ cmd.kind \in Kinds /\ Path \in Paths
  BY Here
<1>2. CommandInv' /\ cmd' \in Cmd
  BY <1>1, UninstalledInv DEF Inv
<1>3. /\ want' \in [AllNames -> [Kinds -> {"no", "yes", "unsure"}]]
      /\ want'[cmd.name][cmd.kind] = "no"
      /\ \A n \in AllNames, k \in Kinds :
            n # cmd.name \/ k # cmd.kind => want'[n][k] = want[n][k]
  BY <1>1, SaysIs DEF Inv
<1>4. TypeOK'
  BY <1>2, <1>3 DEF Inv, TypeOK
<1>5. AllUnits'
  <2>1. ~Shared(cmd.name) => UnitInv(cmd.kind, cmd.name, file'[Path], enabled'[Path],
                                     job'[Path], want'[cmd.name][cmd.kind])
    BY <1>3, NotUnits DEF UnitInv
  <2>2. names \subseteq AllNames
    BY NamesAreNames DEF Inv, TypeOK
  <2> QED BY <1>1, <1>3, <2>1, <2>2, OneUnit
<1> QED BY <1>2, <1>4, <1>5 DEF Inv

LEMMA StatInv == ASSUME Inv, Stat PROVE Inv'
<1>1. cmd.pc = "stat" /\ UNCHANGED <<sys, names, inst, file, enabled, loaded, job>>
  BY DEF Stat, manager
<1>2. CASE file[Path] = None /\ Uninstalled /\ Says("no")
  <2>1. ~Shared(cmd.name) /\ cmd.kind = "watch" => job[Path] = "off"
    BY <1>1, <1>2, Here DEF UnitInv
  <2>2. NamesInv'
    BY <1>1 DEF Inv, NamesInv
  <2>3. /\ file' \in [Paths -> Units \cup {None, Cut}]
        /\ loaded' \in [Paths -> Units \cup {None}]
    BY <1>1 DEF Inv, TypeOK
  <2>4. \A p \in Paths : p # Path => file'[p] = file[p]
    BY <1>1
  <2>5. file'[Path] = None
    BY <1>1, <1>2
  <2> QED BY <1>1, <1>2, <2>1, <2>2, <2>3, <2>4, <2>5, SaysGone
<1>3. CASE Goto("disable") /\ UNCHANGED want
  <2>1. cmd' \in Cmd /\ cmd'.pc = "disable" /\ cmd'.name = cmd.name
    BY <1>1, <1>3, GotoIs DEF Inv, Labels
  <2>2. cmd.name \in names
    BY <1>1, Here
  <2> QED BY <1>1, <1>3, <2>1, <2>2, CommandOnly DEF manager
<1> QED BY <1>2, <1>3 DEF Stat

LEMMA UninstallDisableInv == ASSUME Inv, UninstallDisable PROVE Inv'
<1>1. cmd.pc = "disable" /\ Says("unsure") /\ UNCHANGED <<sys, names, inst, file>>
  BY DEF UninstallDisable
<1>2. /\ cmd.name \in names /\ cmd.name \in AllNames /\ cmd.kind \in Kinds /\ Path \in Paths
      /\ ~Shared(cmd.name) => UnitInv(cmd.kind, cmd.name, file[Path], enabled[Path],
                                      job[Path], want[cmd.name][cmd.kind])
  BY <1>1, Here
<1>3. /\ want' \in [AllNames -> [Kinds -> {"no", "yes", "unsure"}]]
      /\ want'[cmd.name][cmd.kind] = "unsure"
      /\ \A n \in AllNames, k \in Kinds :
            n # cmd.name \/ k # cmd.kind => want'[n][k] = want[n][k]
  BY <1>1, <1>2, SaysIs DEF Inv
<1>4. ASSUME /\ enabled' \in [Paths -> BOOLEAN] /\ job' \in [Paths -> Jobs]
             /\ loaded' \in [Paths -> Units \cup {None}]
             /\ \A p \in Paths : loaded'[p] \in Units => loaded'[p].name \in names
             /\ \A p \in Paths : p # Path => enabled'[p] = enabled[p] /\ job'[p] = job[p]
             /\ cmd.kind = "watch" => job'[Path] \in {"off", job[Path]}
             /\ CommandInv' /\ cmd' \in Cmd
      PROVE  Inv'
  <2>1. TypeOK'
    BY <1>1, <1>3, <1>4 DEF Inv, TypeOK
  <2>2. NamesInv'
    BY <1>1, <1>4 DEF Inv, NamesInv
  <2>3. AllUnits'
    <3>1. ~Shared(cmd.name) => UnitInv(cmd.kind, cmd.name, file'[Path], enabled'[Path],
                                       job'[Path], want'[cmd.name][cmd.kind])
      BY <1>1, <1>2, <1>3, <1>4 DEF UnitInv
    <3>2. names \subseteq AllNames
      BY NamesAreNames DEF Inv, TypeOK
    <3>3. \A n \in names : UnitPath(sys, n, "watch") \in Paths
      BY NamesAreNames, PathIsPath DEF Inv, TypeOK, Kinds
    <3> QED BY <1>1, <1>2, <1>3, <1>4, <3>1, <3>2, <3>3, OneUnit
  <2> QED BY <1>4, <2>1, <2>2, <2>3 DEF Inv
<1>5. ASSUME End PROVE CommandInv' /\ cmd' \in Cmd
  BY <1>5, EndInv DEF End
<1>6. CASE UNCHANGED manager /\ End
  <2>1. /\ enabled' = enabled /\ job' = job /\ loaded' = loaded
        /\ enabled \in [Paths -> BOOLEAN] /\ job \in [Paths -> Jobs]
        /\ loaded \in [Paths -> Units \cup {None}]
        /\ \A p \in Paths : loaded[p] \in Units => loaded[p].name \in names
    BY <1>6 DEF manager, Inv, TypeOK, NamesInv
  <2> QED BY <1>4, <1>5, <1>6, <2>1
<1>7. CASE Disable(Path, cmd.kind = "watch") /\ (End \/ Goto("remove"))
  <2>1. /\ enabled' \in [Paths -> BOOLEAN] /\ ~enabled'[Path]
        /\ \A p \in Paths : p # Path => enabled'[p] = enabled[p]
    BY <1>2, <1>7 DEF Disable, Inv, TypeOK
  <2>2. /\ job' \in [Paths -> Jobs] /\ (cmd.kind = "watch" => job'[Path] = "off")
        /\ \A p \in Paths : p # Path => job'[p] = job[p]
    BY <1>2, <1>7 DEF Disable, Inv, TypeOK, Jobs, Systems
  <2>3. /\ loaded' \in [Paths -> Units \cup {None}]
        /\ \A p \in Paths : loaded'[p] \in Units => loaded'[p].name \in names
    <3>1. CASE Reloaded
      BY <3>1, ReloadedIs
    <3>2. CASE loaded' = [loaded EXCEPT ![Path] = None]
      BY <1>2, <3>2, NotUnits DEF Inv, TypeOK, NamesInv
    <3> QED BY <1>7, <3>1, <3>2 DEF Disable
  <2>4. CommandInv' /\ cmd' \in Cmd
    <3>1. CASE Goto("remove")
      <4>1. /\ cmd' \in Cmd /\ cmd'.pc = "remove" /\ cmd'.name = cmd.name
            /\ cmd'.kind = cmd.kind /\ Path' = Path
        BY <1>1, <3>1, GotoIs DEF Inv, Labels
      <4> QED BY <1>1, <1>2, <1>3, <2>1, <2>2, <4>1 DEF CommandInv
    <3> QED BY <1>5, <1>7, <3>1
  <2> QED BY <1>4, <2>1, <2>2, <2>3, <2>4
<1> QED BY <1>6, <1>7 DEF UninstallDisable

LEMMA UninstallRemoveInv == ASSUME Inv, UninstallRemove PROVE Inv'
<1>1. cmd.pc = "remove" /\ UNCHANGED <<sys, names, inst, enabled, loaded, job>>
  BY DEF UninstallRemove, manager
<1>2. cmd.name \in names /\ cmd.kind \in Kinds /\ Path \in Paths
  BY <1>1, Here
<1>3. /\ want[cmd.name][cmd.kind] = "unsure" /\ ~enabled[Path]
      /\ cmd.kind = "watch" => job[Path] = "off"
  BY <1>1 DEF Inv, CommandInv
<1>4. CASE End /\ UNCHANGED <<file, want>>
  BY <1>1, <1>4, Ends DEF manager
<1>5. CASE /\ file' = [file EXCEPT ![Path] = None]
           /\ IF sys = "linux" THEN Goto("reloadGone") /\ UNCHANGED want
              ELSE Uninstalled /\ Says("no")
  <2>1. /\ file' \in [Paths -> Units \cup {None, Cut}] /\ file'[Path] = None
        /\ \A p \in Paths : p # Path => file'[p] = file[p]
    BY <1>2, <1>5 DEF Inv, TypeOK
  <2>2. NamesInv'
    BY <1>1, <2>1, NotUnits DEF Inv, NamesInv
  <2>3. CASE Uninstalled /\ Says("no")
    <3>1. loaded' \in [Paths -> Units \cup {None}]
      BY <1>1 DEF Inv, TypeOK
    <3> QED BY <1>1, <1>3, <2>1, <2>2, <2>3, <3>1, SaysGone
  <2>4. CASE Goto("reloadGone") /\ UNCHANGED want
    <3>1. /\ cmd' \in Cmd /\ cmd'.pc = "reloadGone" /\ cmd'.name = cmd.name
          /\ cmd'.kind = cmd.kind /\ Path' = Path
      BY <1>1, <2>4, GotoIs DEF Inv, Labels
    <3>2. TypeOK'
      BY <1>1, <2>1, <2>4, <3>1 DEF Inv, TypeOK
    <3>3. CommandInv'
      BY <1>1, <1>2, <1>3, <2>4, <3>1 DEF CommandInv
    <3>4. AllUnits'
      <4>1. UnitInv(cmd.kind, cmd.name, file'[Path], enabled'[Path], job'[Path],
                    want'[cmd.name][cmd.kind])
        BY <1>1, <1>3, <2>1, <2>4 DEF UnitInv
      <4> QED BY <1>1, <1>2, <2>1, <2>4, <4>1, OneUnit
    <3> QED BY <2>2, <3>2, <3>3, <3>4 DEF Inv
  <2> QED BY <1>5, <2>3, <2>4
<1> QED BY <1>4, <1>5 DEF UninstallRemove

LEMMA UninstallReloadInv == ASSUME Inv, UninstallReload PROVE Inv'
<1>1. cmd.pc = "reloadGone" /\ UNCHANGED <<sys, names, inst, file, enabled, job>>
  BY DEF UninstallReload
<1>2. ~enabled[Path] /\ (cmd.kind = "watch" => job[Path] = "off")
  BY <1>1 DEF Inv, CommandInv
<1>3. CASE UNCHANGED <<loaded, want>> /\ End
  BY <1>1, <1>3, Ends DEF manager
<1>4. ASSUME Reloaded
      PROVE  loaded' \in [Paths -> Units \cup {None}] /\ NamesInv'
  BY <1>1, <1>4, ReloadedIs DEF Inv, NamesInv
<1>5. CASE Reloaded /\ End /\ UNCHANGED want
  <2>1. CommandInv' /\ cmd' \in Cmd
    BY <1>5, EndInv DEF End
  <2>2. TypeOK'
    BY <1>1, <1>4, <1>5, <2>1 DEF Inv, TypeOK
  <2>3. AllUnits'
    BY <1>1, <1>5, NoUnit
  <2> QED BY <1>4, <1>5, <2>1, <2>2, <2>3 DEF Inv
<1>6. CASE Reloaded /\ Uninstalled /\ Says("no")
  <2>1. file' \in [Paths -> Units \cup {None, Cut}]
    BY <1>1 DEF Inv, TypeOK
  <2>2. \A p \in Paths : p # Path => file'[p] = file[p]
    BY <1>1
  <2> QED BY <1>1, <1>2, <1>4, <1>6, <2>1, <2>2, SaysGone
<1> QED BY <1>3, <1>5, <1>6 DEF UninstallReload

LEMMA BeginInv ==
    ASSUME Inv, NEW n \in names,
           (\E watch \in BOOLEAN : BeginInstall(n, watch)) \/ BeginUninstall(n)
    PROVE  Inv'
<1>1. UNCHANGED <<sys, names, inst, file, manager, want>>
  BY DEF BeginInstall, BeginUninstall
<1>2. n \in AllNames
  BY NamesAreNames DEF Inv, TypeOK
<1>3. cmd' \in Cmd /\ cmd'.pc \in {"load", "stat"} /\ cmd'.name \in names
  BY <1>2 DEF BeginInstall, BeginUninstall, NoCmd, Cmd, Kinds, InstStates
<1> QED BY <1>1, <1>3, CommandOnly

LEMMA LoadInv == ASSUME Inv, Load PROVE Inv'
<1>1. cmd.pc = "load" /\ UNCHANGED <<sys, names, inst, file, manager, want>>
  BY DEF Load
<1>2. CASE End
  BY <1>1, <1>2, Ends
<1>3. CASE cmd' = [cmd EXCEPT !.pc = "open", !.mode = inst[cmd.name]]
  <2>1. cmd \in Cmd /\ cmd.name \in names /\ inst[cmd.name] \in InstStates
    BY <1>1, Here DEF Inv, TypeOK
  <2>2. cmd' \in Cmd /\ cmd'.pc = "open" /\ cmd'.name \in names
    BY <1>3, <2>1 DEF Cmd
  <2> QED BY <1>1, <2>2, CommandOnly
<1> QED BY <1>2, <1>3 DEF Load

LEMMA StepInv == Inv /\ [Next]_vars => Inv'
<1> SUFFICES ASSUME Inv, [Next]_vars PROVE Inv'
  OBVIOUS
<1>1. CASE UNCHANGED vars
  <2>1. UNCHANGED <<sys, names, inst, file, enabled, loaded, job, cmd, want>>
    BY <1>1 DEF vars
  <2>2. TypeOK' /\ CommandInv' /\ NamesInv'
    BY <2>1 DEF Inv, TypeOK, CommandInv, NamesInv, Path
  <2>3. AllUnits'
    BY <2>1, NoUnit
  <2> QED BY <2>2, <2>3 DEF Inv
<1>2. CASE Command
  BY <1>2, LoadInv, WriteOpenInv, WriteInv, DaemonReloadInv, InstallEnableInv, StatInv,
     UninstallDisableInv, UninstallRemoveInv, UninstallReloadInv DEF Command
<1>3. CASE Kill
  BY <1>3, Ends DEF Kill
<1> QED BY <1>1, <1>2, <1>3, BeginInv, RebootInv, RunJobInv, WatchExitsInv, InstanceInv DEF Next

-----------------------------------------------------------------------------
(* Theorems.                                                               *)

\* The inductive invariant of install and uninstall, with every call of the
\* service manager failing or not, the command killed and the machine restarted
\* at any step.
THEOREM BootInvariant == Spec => [](TypeOK /\ BootInv)
<1>1. Inv => TypeOK /\ BootInv
  BY Pieces DEF Inv, TypeOK
<1> QED BY <1>1, InitInv, StepInv, PTL DEF Spec

\* Unit files hold one unit, none, or a file cut short; the service manager never
\* has a unit loaded that was cut short.
THEOREM BootTypes == Spec => []TypeOK
BY BootInvariant, PTL

\* After a successful uninstall nothing of the instance starts at boot and its
\* dns-watch neither runs nor waits to be restarted.
THEOREM Uninstall == Spec => []UninstallReverses
<1>1. BootInv => UninstallReverses
  BY DEF BootInv
<1> QED BY <1>1, BootInvariant, PTL

\* A unit whose installation was reported is started at every boot and is the unit
\* of its instance, until a command about that instance changes it.
THEOREM Install == Spec => []InstallHolds
<1>1. BootInv => InstallHolds
  BY DEF BootInv
<1> QED BY <1>1, BootInvariant, PTL
=============================================================================
