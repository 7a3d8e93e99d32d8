--------------------------- MODULE InstanceStore ---------------------------
(***************************************************************************)
(* The registry of instances: one instance.toml per instance directory     *)
(* under the config root, read and written by any number of `multibird`    *)
(* processes without a lock.  internal/instance (instance.go, store.go)    *)
(* and the parts of internal/ops that load, add, change and remove the     *)
(* records.  What the commands do to daemons, config.json and host DNS is  *)
(* module Lifecycle.                                                       *)
(*                                                                         *)
(* A file is written in two system calls, open(O_TRUNC) and one write(), so*)
(* a reader or a crash can meet the empty file in between; an empty file   *)
(* decodes WITHOUT error to the zero Instance (Name "", Index 0).          *)
(***************************************************************************)
EXTENDS Integers, FiniteSets

CONSTANTS
    Names,          \* instance names, all accepted by ValidateName
    NoName,         \* the Name "" of the zero Instance
    Procs,          \* `multibird` processes
    Jobs,           \* the command lines the processes may be started with
    Seeds,          \* the stores the system may start from
    BasePort,       \* DefaultBasePort
    DefaultMode,    \* Platform.DefaultDNSMode()
    Serial          \* TRUE: a command starts only when no other is running

Modes == {"native", "multibird", "disabled"}
NilPort == -1       \* SetChanges.WireguardPort == nil
Commands == {"add", "list", "set", "mark", "remove", "purge"}
Labels == {"idle", "exists", "readdir", "read", "load", "act", "open", "write"}

(***************************************************************************)
(* The persisted fields the registry's properties tell apart.  mode        *)
(* "unset" is DNSMode "", a file written before dns_mode existed.          *)
(***************************************************************************)
Record == [name : Names \cup {NoName}, index : Nat, port : Nat,
           mode : Modes \cup {"unset"}, legacy : BOOLEAN, loggedIn : BOOLEAN]

\* What toml.DecodeFile leaves in `var i Instance` for an empty file.
Zero == [name |-> NoName, index |-> 0, port |-> 0, mode |-> "unset",
         legacy |-> FALSE, loggedIn |-> FALSE]

(***************************************************************************)
(* A command line.  For "add", mode "unset" is no --dns-mode; for "set",   *)
(* mode "unset" and port NilPort are the nil pointers of SetChanges.       *)
(***************************************************************************)
Job == {j \in [cmd : Commands, name : Names, port : Nat \cup {NilPort},
                mode : Modes \cup {"unset"}] : j.cmd = "add" => j.port # NilPort}
NoJob == [cmd |-> "none", name |-> NoName, port |-> NilPort, mode |-> "unset"]

VARIABLES
    dirs,   \* the instance directories that exist
    file,   \* file[n]: what is at <root>/n/instance.toml
    rec,    \* rec[n]: what it decodes to when it decodes
    cli,    \* cli[p]: the progress of process p
    mayCrash    \* whether a command may be killed, or a write may fail

vars == <<dirs, file, rec, cli, mayCrash>>

IdleCLI == [pc |-> "idle", job |-> NoJob, inst |-> Zero, todo |-> {},
            seen |-> {}, back |-> "idle", linked |-> FALSE]

CLI == [pc : Labels,                \* where the command is
        job : Job \cup {NoJob},     \* its command line
        inst : Record,              \* its in-memory *Instance
        todo : SUBSET Names,        \* directories List has still to visit
        seen : SUBSET Record,       \* instances List has loaded
        back : {"idle", "act", "read"},   \* where Save returns to
        linked : BOOLEAN]           \* the file it has open is still linked

\* The files Load accepts: a parsed record, or nothing at all.
Decodes(f) == f \in {"ok", "empty"}

(***************************************************************************)
(* Properties of a store, as predicates of its files.                      *)
(***************************************************************************)
IndexUnique(f, r) ==
    \A m, n \in Names : f[m] = "ok" /\ f[n] = "ok" /\ r[m].index = r[n].index => m = n

WellFormed(d, f, r) ==
    /\ \A n \in Names : f[n] # "absent" => n \in d
    /\ \A n \in Names : IF f[n] = "ok" THEN r[n].name = n ELSE r[n] = Zero
    /\ IndexUnique(f, r)

ASSUME NamesAssumption == IsFiniteSet(Names) /\ NoName \notin Names
ASSUME JobsAssumption == Jobs \subseteq Job
ASSUME SeedsAssumption ==
    \A s \in Seeds : /\ s.dirs \subseteq Names
                     /\ s.file \in [Names -> {"absent", "ok"}]
                     /\ s.rec \in [Names -> Record]
                     /\ WellFormed(s.dirs, s.file, s.rec)
ASSUME ParamsAssumption == /\ BasePort \in Nat
                           /\ DefaultMode \in Modes
                           /\ Serial \in BOOLEAN

-----------------------------------------------------------------------------
(* Operators of the code.                                                  *)

\* Instance.Normalize: the migration of the pre-dns_mode files.
Normalize(i) ==
    IF i.mode # "unset" THEN i
    ELSE [i EXCEPT !.mode = IF i.legacy THEN "disabled" ELSE "native", !.legacy = FALSE]

\* Mutant: the index is forgotten.
WGPortFixed(i) == IF i.port = 0 THEN BasePort ELSE i.port

\* Params.WGPort of DeriveParams: the override, or the base port plus Index.
WGPort(i) == IF i.port = 0 THEN BasePort + i.index ELSE i.port

\* Mutant: as many instances, that high an index.
NextIndexCounts(used) == Cardinality(used)

\* Store.NextIndex: the lowest index no listed instance uses.
NextIndex(used) ==
    CHOOSE n \in 0..Cardinality(used) :
        n \notin used /\ \A m \in 0..(n - 1) : m \in used

\* Mutant: a change of settings forgets the login.
ChangedLogsOut(i, j) == [i EXCEPT !.port = IF j.port = NilPort THEN @ ELSE j.port,
                                  !.loggedIn = FALSE]

\* Env.Set's changes to the in-memory instance: nil leaves a field alone.
Changed(i, j) ==
    [i EXCEPT !.port = IF j.port = NilPort THEN @ ELSE j.port,
              !.mode = IF j.mode = "unset" THEN @ ELSE j.mode]

\* The instance `add` builds from its flags; Env.Add gives it index and mode.
NewInstance(j, seen) ==
    [name |-> j.name, index |-> NextIndex({r.index : r \in seen}), port |-> j.port,
     mode |-> IF j.mode = "unset" THEN DefaultMode ELSE j.mode,
     legacy |-> FALSE, loggedIn |-> FALSE]

-----------------------------------------------------------------------------
Init == /\ \E s \in Seeds : dirs = s.dirs /\ file = s.file /\ rec = s.rec
        /\ cli = [p \in Procs |-> IdleCLI]
        /\ mayCrash \in BOOLEAN

Busy(p) == cli[p].pc # "idle"

\* The process ends, with or without an error.
Exit(p) == cli' = [cli EXCEPT ![p] = IdleCLI]

\* The command starts.  `add` and the commands that take every instance go to
\* their own first step, the others load the instance they name.
Begin(p, j) ==
    /\ ~Busy(p)
    /\ Serial => \A q \in Procs : ~Busy(q)
    /\ cli' = [cli EXCEPT ![p].job = j,
                          ![p].pc = CASE j.cmd = "add"  -> "exists"
                                      [] j.cmd = "list" -> "readdir"
                                      [] OTHER          -> "load"]
    /\ UNCHANGED <<dirs, file, rec, mayCrash>>

\* Env.Add: an instance that loads exists already; ANY load error, a file
\* that does not parse included, means it may be added.
AddExists(p) ==
    /\ cli[p].pc = "exists"
    /\ IF Decodes(file[cli[p].job.name])
       THEN Exit(p)
       ELSE cli' = [cli EXCEPT ![p].pc = "readdir"]
    /\ UNCHANGED <<dirs, file, rec, mayCrash>>

\* Store.List: os.ReadDir of the config root.
ReadDir(p) ==
    /\ cli[p].pc = "readdir"
    /\ cli' = [cli EXCEPT ![p].pc = "read", ![p].todo = dirs]
    /\ UNCHANGED <<dirs, file, rec, mayCrash>>

\* Store.List: one directory.  No instance.toml skips it; one that does not
\* parse, or that another process removes between the Stat and the Load, fails
\* the whole list.
ReadOne(p) ==
    /\ cli[p].pc = "read"
    /\ \E n \in cli[p].todo :
          \/ /\ file[n] = "corrupt" \/ (file[n] = "absent" /\ ~Serial)
             /\ Exit(p)
          \/ /\ file[n] # "corrupt"
             /\ cli' = [cli EXCEPT ![p].todo = @ \ {n},
                                   ![p].seen = IF file[n] = "absent" THEN @ ELSE @ \cup {rec[n]}]
    /\ UNCHANGED <<dirs, file, rec, mayCrash>>

\* Env.Add: every directory has been read; allocate the index and save.
AddChoose(p) ==
    /\ cli[p].pc = "read" /\ cli[p].todo = {} /\ cli[p].job.cmd = "add"
    /\ cli' = [cli EXCEPT ![p].pc = "open", ![p].back = "idle",
                          ![p].inst = NewInstance(cli[p].job, cli[p].seen)]
    /\ UNCHANGED <<dirs, file, rec, mayCrash>>

\* Env.List: one instance that Normalize changes is saved ...
ListMigrate(p) ==
    /\ cli[p].pc = "read" /\ cli[p].todo = {} /\ cli[p].job.cmd = "list"
    /\ \E r \in cli[p].seen :
          /\ Normalize(r) # r
          /\ cli' = [cli EXCEPT ![p].pc = "open", ![p].back = "read",
                                ![p].inst = Normalize(r), ![p].seen = @ \ {r}]
    /\ UNCHANGED <<dirs, file, rec, mayCrash>>

\* ... until none is left.
ListDone(p) ==
    /\ cli[p].pc = "read" /\ cli[p].todo = {} /\ cli[p].job.cmd = "list"
    /\ \A r \in cli[p].seen : Normalize(r) = r
    /\ Exit(p)
    /\ UNCHANGED <<dirs, file, rec, mayCrash>>

\* Env.Load: read one record and migrate it, saving it if that changed it.
Load(p) ==
    /\ cli[p].pc = "load"
    /\ LET n == cli[p].job.name
           i == Normalize(rec[n])
       IN IF ~Decodes(file[n])
          THEN Exit(p)
          ELSE cli' = [cli EXCEPT ![p].inst = i, ![p].back = "act",
                                  ![p].pc = IF i # rec[n] THEN "open" ELSE "act"]
    /\ UNCHANGED <<dirs, file, rec, mayCrash>>

\* Env.Set always saves the instance it was handed.
ActSet(p) ==
    /\ cli[p].pc = "act" /\ cli[p].job.cmd = "set"
    /\ cli' = [cli EXCEPT ![p].inst = Changed(@, cli[p].job),
                          ![p].pc = "open", ![p].back = "idle"]
    /\ UNCHANGED <<dirs, file, rec, mayCrash>>

\* Env.Up: the first successful login is recorded, later ones are not.
ActMark(p) ==
    /\ cli[p].pc = "act" /\ cli[p].job.cmd = "mark"
    /\ IF cli[p].inst.loggedIn
       THEN Exit(p)
       ELSE cli' = [cli EXCEPT ![p].inst.loggedIn = TRUE,
                               ![p].pc = "open", ![p].back = "idle"]
    /\ UNCHANGED <<dirs, file, rec, mayCrash>>

\* The processes that hold one of the unlinked files open write into nothing.
Unlink(gone, p) ==
    cli' = [q \in Procs |->
              IF q = p THEN IdleCLI
              ELSE [cli[q] EXCEPT !.linked = @ /\ cli[q].inst.name \notin gone]]

\* Store.Remove without purge: os.Remove(TOMLPath).  The path is built from the
\* LOADED name, so for the zero Instance it is <root>/instance.toml.
ActRemove(p) ==
    /\ cli[p].pc = "act" /\ cli[p].job.cmd = "remove"
    /\ LET gone == {cli[p].inst.name} \cap Names
       IN /\ file' = [n \in Names |-> IF n \in gone THEN "absent" ELSE file[n]]
          /\ rec' = [n \in Names |-> IF n \in gone THEN Zero ELSE rec[n]]
          /\ Unlink(gone, p)
    /\ UNCHANGED <<dirs, mayCrash>>

\* Store.Remove with purge: os.RemoveAll(Dir), and Dir is <root>/<loaded name>:
\* the root itself for the zero Instance.
PurgedBy(i) == IF i.name = NoName THEN Names ELSE {i.name}

ActPurge(p) ==
    /\ cli[p].pc = "act" /\ cli[p].job.cmd = "purge"
    /\ LET gone == PurgedBy(cli[p].inst)
       IN /\ file' = [n \in Names |-> IF n \in gone THEN "absent" ELSE file[n]]
          /\ rec' = [n \in Names |-> IF n \in gone THEN Zero ELSE rec[n]]
          /\ dirs' = dirs \ gone
          /\ Unlink(gone, p)
    /\ UNCHANGED mayCrash

\* Store.Save, first half: MkdirAll and open with O_CREATE|O_TRUNC.  The zero
\* Instance's path is a file no Load ever reads.
SaveOpen(p) ==
    /\ cli[p].pc = "open"
    /\ LET n == cli[p].inst.name
       IN /\ dirs' = dirs \cup ({n} \cap Names)
          /\ file' = [m \in Names |-> IF m = n THEN "empty" ELSE file[m]]
          /\ rec' = [m \in Names |-> IF m = n THEN Zero ELSE rec[m]]
    /\ cli' = [cli EXCEPT ![p].pc = "write", ![p].linked = TRUE]
    /\ UNCHANGED mayCrash

\* Where Save hands the instance back to its caller.
SaveReturn(p) ==
    IF cli[p].back = "idle"
    THEN Exit(p)
    ELSE cli' = [cli EXCEPT ![p].pc = cli[p].back, ![p].linked = FALSE]

\* Mutant: the path is built from the requested, not from the loaded name.
SaveWriteAsked(p) ==
    /\ cli[p].pc = "write"
    /\ file' = [file EXCEPT ![cli[p].job.name] = "ok"]
    /\ rec' = [rec EXCEPT ![cli[p].job.name] = cli[p].inst]
    /\ SaveReturn(p)
    /\ UNCHANGED <<dirs, mayCrash>>

\* Store.Save, second half: the encoder's single write and close.  It replaces
\* what a concurrent writer put there since our truncation when it is at least
\* as long, and otherwise leaves that file's tail behind it.
SaveWrite(p) ==
    /\ cli[p].pc = "write"
    /\ LET i == cli[p].inst
           n == i.name
       IN IF n \notin Names \/ ~cli[p].linked
          THEN UNCHANGED <<file, rec>>
          ELSE \E garbled \in (IF file[n] = "empty" \/ rec[n] = i THEN {FALSE} ELSE BOOLEAN) :
                  /\ file' = [file EXCEPT ![n] = IF garbled THEN "corrupt" ELSE "ok"]
                  /\ rec' = [rec EXCEPT ![n] = IF garbled THEN Zero ELSE i]
    /\ SaveReturn(p)
    /\ UNCHANGED <<dirs, mayCrash>>

\* The process is killed, or Save's open or write fails and the command
\* returns the error: the file stays as the last system call left it.
Crash(p) ==
    /\ mayCrash /\ Busy(p)
    /\ Exit(p)
    /\ UNCHANGED <<dirs, file, rec, mayCrash>>

Step(p) == \/ AddExists(p) \/ ReadDir(p) \/ ReadOne(p) \/ AddChoose(p)
           \/ ListMigrate(p) \/ ListDone(p) \/ Load(p)
           \/ ActSet(p) \/ ActMark(p) \/ ActRemove(p) \/ ActPurge(p)
           \/ SaveOpen(p) \/ SaveWrite(p)

Next == \E p \in Procs : (\E j \in Jobs : Begin(p, j)) \/ Step(p) \/ Crash(p)

Spec == Init /\ [][Next]_vars

-----------------------------------------------------------------------------
\* doctor's check of the WireGuard ports: the instances that List returns, a file
\* cut short included, two of which use the same port.  Nothing is checked if a
\* file does not parse, because List fails.
Collide(m, n) ==
    /\ m # n /\ \A k \in Names : file[k] # "corrupt"
    /\ Decodes(file[m]) /\ Decodes(file[n]) /\ WGPort(rec[m]) = WGPort(rec[n])

-----------------------------------------------------------------------------
(* Properties.                                                             *)

\* The variables have the types of the code's values.
TypeOK == /\ dirs \subseteq Names
          /\ file \in [Names -> {"absent", "empty", "corrupt", "ok"}]
          /\ rec \in [Names -> Record]
          /\ cli \in [Procs -> CLI]
          /\ mayCrash \in BOOLEAN

\* Whoever writes, whenever: a file that parses holds the instance its
\* directory is named after, so no command ever acts on instance m when it was
\* asked for n.  (A file the code writes for the nameless zero Instance must
\* therefore never land in an instance's directory.)
NameMatchesDir == \A n \in Names : file[n] = "ok" => rec[n].name = n

\* One command at a time, but killed at any point: two instances whose files
\* were written completely never have the same Index.
UniqueIndex == IndexUnique(file, rec)

\* ... and therefore never derive the same WireGuard port: whenever doctor is run
\* next to a command, a collision it reports is one of a --wireguard-port, or of a
\* file that is being written.
DerivedPortsDistinct ==
    \A m, n \in Names : Collide(m, n) =>
        \/ file[m] = "empty" \/ file[n] = "empty"
        \/ rec[m].port # 0 \/ rec[n].port # 0

\* store.go on Remove: "deletes multibird's state for the instance".  A file
\* disappears only in the remove or purge of the instance it belongs to.
RemoveOnlyNamed ==
    [][\A n \in Names : file[n] # "absent" /\ file'[n] = "absent" =>
          \E p \in Procs : /\ cli[p].pc = "act" /\ cli[p].job.name = n
                           /\ cli[p].job.cmd \in {"remove", "purge"}]_vars

(***************************************************************************)
(* Why UniqueIndex holds: an inductive invariant of the serial store.      *)
(***************************************************************************)

\* The index of the instance a command has in hand belongs to no other file.
OwnsIndex(c) ==
    c.pc \in {"act", "open", "write"} /\ c.inst.name \in Names =>
        \A m \in Names \ {c.inst.name} : file[m] = "ok" => rec[m].index # c.inst.index

\* The file being written is the empty one SaveOpen left.
HasOpened(c) ==
    c.pc = "write" => /\ c.linked
                      /\ c.inst.name \in Names => file[c.inst.name] = "empty"

Listing(c) == \/ c.pc \in {"exists", "readdir", "read"}
              \/ c.pc \in {"open", "write"} /\ c.back = "read"

\* What List has loaded is still what the files hold, and a migration in
\* progress concerns none of the instances List will hand out next.
SeenIsCurrent(c) ==
    Listing(c) => \A r \in c.seen : r.name \in Names =>
        file[r.name] = "ok" /\ rec[r.name] = r /\ (c.pc \in {"open", "write"} => r.name # c.inst.name)

\* An add lists for a name without a file, and misses no index.
AddSeesAll(c) ==
    c.job.cmd = "add" =>
        /\ c.pc \in {"readdir", "read"} => file[c.job.name] = "absent"
        /\ c.pc = "read" => \A n \in Names : file[n] = "ok" => n \in c.todo \/ rec[n] \in c.seen
        /\ c.pc \in {"open", "write"} => c.back # "read"

SerialProc(c) == /\ c.pc = "idle" => c = IdleCLI
                 /\ OwnsIndex(c) /\ HasOpened(c) /\ SeenIsCurrent(c) /\ AddSeesAll(c)

\* One command at a time: files are whole or empty, the indexes are unique, and
\* the one busy command knows what it needs to know to keep them so.
SerialInv == /\ WellFormed(dirs, file, rec)
             /\ \A n \in Names : file[n] # "corrupt"
             /\ \A p, q \in Procs : Busy(p) /\ Busy(q) => p = q
             /\ \A p \in Procs : SerialProc(cli[p])

(***************************************************************************)
(* The settings a reader of the registry sees, with the file a command is  *)
(* in the middle of writing replaced by what it writes.  Old and migrated  *)
(* files with the same effective settings look the same.                   *)
(***************************************************************************)
Writing(n) == {p \in Procs : cli[p].pc = "write" /\ cli[p].inst.name = n}

Contents(n) == IF Writing(n) # {} THEN cli[CHOOSE p \in Writing(n) : TRUE].inst ELSE rec[n]

Visible(n) ==
    LET i == Normalize(Contents(n))
    IN [index |-> i.index, port |-> i.port, mode |-> i.mode, loggedIn |-> i.loggedIn]

NotRegistered == [index |-> -1]

Abstract == INSTANCE Registry WITH
    NotRegistered <- NotRegistered,
    reg <- [n \in Names |-> IF mayCrash \/ file[n] = "absent" THEN NotRegistered
                            ELSE Visible(n)]

\* One command at a time and none killed, the files, the migrations and the
\* two-step writes are invisible: the store is a registry.  (Of a store whose
\* commands may be killed the mapping shows nothing.)
IsRegistry == Abstract!Spec
=============================================================================
