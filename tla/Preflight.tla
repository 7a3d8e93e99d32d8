----------------------------- MODULE Preflight -----------------------------
(***************************************************************************)
(* `up --strict` of several instances at once: preflight (internal/        *)
(* preflight and internal/ops/preflight.go) looks at the meshes only AFTER *)
(* the engine is up, asking one running daemon after the other, and takes  *)
(* the engine down again when it finds a conflict.  What up does before    *)
(* its engine runs, and all of down, is in module Lifecycle; a Status      *)
(* answer is that of module HostDns.                                       *)
(***************************************************************************)
EXTENDS HostDns

CONSTANTS
    Names,      \* instances
    Worlds,     \* [mode : Names -> mode, mesh : Names -> what the daemon answers
                \*  when connected, faults : SUBSET Faults]: what to start from
    Procs,      \* `multibird` processes
    Jobs        \* the commands they may be started with

Commands == {"up", "strict", "down"}
Modes == {"native", "multibird", "disabled", "legacy"}

\* slow: the engine may still be connecting when Up returns; the calls that
\* may fail.
Faults == {"slow", "list", "status", "networks", "down"}

ASSUME ParamsAssumption == /\ Jobs \subseteq Commands
                           /\ \A w \in Worlds : w.faults \subseteq Faults
ASSUME WorldsAssumption ==
    \A w \in Worlds :
        /\ w.mode \in [Names -> Modes]
        /\ \A n \in Names :
              /\ w.mesh[n].ip \in [addr : Address, bits : {Bare} \cup 0..Width]
              /\ w.mesh[n].routes \subseteq [prefix : Prefix, selected : BOOLEAN]

VARIABLES
    world,      \* the meshes and faults, which do not change here, and the first modes
    mode,       \* mode[n]: the DNS mode in the file of n; legacy: the file is one from
                \* before dns_mode, with disable_dns, that nobody has migrated yet
    daemon,     \* daemon[n]: the daemon of n runs
    engine,     \* engine[n]: off, connecting or on
    cli         \* cli[p]: the progress of process p

vars == <<world, mode, daemon, engine, cli>>

IdleCLI == [pc |-> "idle", cmd |-> "none", name |-> "none", todo |-> {}, snaps |-> {}]

\* An instance with an old file may be up since before multibird was upgraded.
Init == /\ world \in Worlds
        /\ mode = world.mode
        /\ daemon = [n \in Names |-> mode[n] = "legacy"]
        /\ engine = [n \in Names |-> IF mode[n] = "legacy" THEN "on" ELSE "off"]
        /\ cli = [p \in Procs |-> IdleCLI]

-----------------------------------------------------------------------------
(* The checks, over a set of snapshots.  net is a set of at most one       *)
(* prefix, empty as long as the daemon has no address.                     *)

\* DNSDomains: the match domains of the enabled groups, as one flat list, in
\* which a group without domains leaves nothing.
DNSDomains(st) == UNION {g.domains : g \in Enabled(st)}

\* DNSIntent.primary.
primary(s) == s.manages /\ (s.domains = {} \/ \E d \in s.domains : canon(d) = Root)

\* What DNSConflicts compares: lower case, without the trailing dot.
Serves(s) == IF s.manages THEN {canon(d) : d \in s.domains} \ {Root} ELSE {}

\* Mutants: deselected networks count as well; spelling matters.
RouteConflictsAll(s, t) == {c \in s.routes \X t.routes : Overlaps(c[1].prefix, c[2].prefix)}
DNSConflictsExact(s, t) == \/ primary(s) /\ primary(t)
                           \/ s.manages /\ t.manages /\ s.domains \cap t.domains # {}

\* IPRangeConflicts, RouteConflicts and DNSConflicts between two instances.
IPRangeConflicts(s, t) == \E p \in s.net, q \in t.net : Overlaps(p, q)
RouteConflicts(s, t) ==
    {c \in s.routes \X t.routes :
        c[1].selected /\ c[2].selected /\ Overlaps(c[1].prefix, c[2].prefix)}
DNSConflicts(s, t) == \/ primary(s) /\ primary(t)
                      \/ Serves(s) \cap Serves(t) # {}

\* conflictsInvolving: the instances in conflict with n.
conflictsInvolving(n, snaps) ==
    {m \in Names \ {n} :
        \E s, t \in snaps : /\ s.name = n /\ t.name = m
                            /\ \/ IPRangeConflicts(s, t)
                               \/ RouteConflicts(s, t) # {}
                               \/ DNSConflicts(s, t)}

\* Mutant: the wider one.
probeWide(r, u) == IF u.prefix.bits > r.prefix.bits THEN r.prefix.addr ELSE u.prefix.addr

\* The address whose OS route names the winner: the first of the narrower
\* prefix.
probe(r, u) == IF u.prefix.bits > r.prefix.bits THEN u.prefix.addr ELSE r.prefix.addr

-----------------------------------------------------------------------------
Normalize(m) == IF m = "legacy" THEN "disabled" ELSE m

\* The command loads the instance it is about, which migrates the file.
Begin(p, c, n) ==
    /\ cli[p].pc = "idle"
    /\ mode' = [mode EXCEPT ![n] = Normalize(@)]
    /\ cli' = [cli EXCEPT ![p] = [IdleCLI EXCEPT !.pc = c, !.cmd = c, !.name = n]]
    /\ UNCHANGED <<world, daemon, engine>>

\* Env.Up as far as c.Up; a running engine stays.  Then Store.List.
UpEngine(p) ==
    /\ cli[p].pc \in {"up", "strict"}
    /\ LET n == cli[p].name
       IN /\ daemon' = [daemon EXCEPT ![n] = TRUE]
          /\ engine' \in {[engine EXCEPT ![n] = e] :
                e \in IF engine[n] # "off" THEN {engine[n]}
                      ELSE {"on"} \cup (IF "slow" \in world.faults THEN {"connecting"} ELSE {})}
    /\ cli' = [cli EXCEPT ![p].pc = "snapshot", ![p].todo = Names]
    /\ UNCHANGED <<world, mode>>

\* What snapshotRunning records of a daemon that answers.  A daemon whose
\* engine is not connected has no address, no groups and no networks.  Store.List
\* does not migrate: an old file has no mode, which is not "disabled".
Snapshot(n, networks) ==
    LET on == engine[n] = "on"
        st == world.mesh[n]
    IN [name |-> n,
        manages |-> mode[n] # "disabled",
        domains |-> IF on THEN DNSDomains(st) ELSE {},
        net |-> IF on THEN {ParseAddr(st.ip)} ELSE {},
        routes |-> IF on /\ networks
                   THEN {[prefix |-> Masked(r.prefix), selected |-> r.selected] : r \in st.routes}
                   ELSE {}]

\* Store.List fails: the check is skipped, with --strict too.
SkipPreflight(p) ==
    /\ cli[p].pc = "snapshot" /\ cli[p].todo = Names /\ "list" \in world.faults
    /\ cli' = [cli EXCEPT ![p] = IdleCLI]
    /\ UNCHANGED <<world, mode, daemon, engine>>

\* One instance of snapshotRunning: a daemon that does not run, or whose Status
\* fails, is skipped; failing Networks costs the routes.
SnapshotOne(p) ==
    /\ cli[p].pc = "snapshot"
    /\ \E n \in cli[p].todo :
          \/ /\ ~daemon[n] \/ "status" \in world.faults
             /\ cli' = [cli EXCEPT ![p].todo = @ \ {n}]
          \/ /\ daemon[n]
             /\ \E networks \in {TRUE} \cup (IF "networks" \in world.faults THEN {FALSE} ELSE {}) :
                   cli' = [cli EXCEPT ![p].todo = @ \ {n},
                                      ![p].snaps = @ \cup {Snapshot(n, networks)}]
    /\ UNCHANGED <<world, mode, daemon, engine>>

\* No conflict, or only a warning: the command is done.
Pass(p) ==
    /\ cli[p].pc = "snapshot" /\ cli[p].todo = {}
    /\ cli[p].cmd = "strict" => conflictsInvolving(cli[p].name, cli[p].snaps) = {}
    /\ cli' = [cli EXCEPT ![p] = IdleCLI]
    /\ UNCHANGED <<world, mode, daemon, engine>>

\* --strict: `_ = c.Down(ctx)`.  The daemon keeps running.
Refuse(p) ==
    /\ cli[p].pc = "snapshot" /\ cli[p].todo = {} /\ cli[p].cmd = "strict"
    /\ conflictsInvolving(cli[p].name, cli[p].snaps) # {}
    /\ \/ engine' = [engine EXCEPT ![cli[p].name] = "off"]
       \/ "down" \in world.faults /\ UNCHANGED engine
    /\ cli' = [cli EXCEPT ![p] = IdleCLI]
    /\ UNCHANGED <<world, mode, daemon>>

Down(p) ==
    /\ cli[p].pc = "down"
    /\ daemon' = [daemon EXCEPT ![cli[p].name] = FALSE]
    /\ engine' = [engine EXCEPT ![cli[p].name] = "off"]
    /\ cli' = [cli EXCEPT ![p] = IdleCLI]
    /\ UNCHANGED <<world, mode>>

Connects(n) ==
    /\ engine[n] = "connecting"
    /\ engine' = [engine EXCEPT ![n] = "on"]
    /\ UNCHANGED <<world, mode, daemon, cli>>

Next == \/ \E p \in Procs : \/ \E c \in Jobs, n \in Names : Begin(p, c, n)
                            \/ UpEngine(p) \/ SkipPreflight(p) \/ SnapshotOne(p)
                            \/ Pass(p) \/ Refuse(p) \/ Down(p)
        \/ \E n \in Names : Connects(n)

Spec == Init /\ [][Next]_vars

-----------------------------------------------------------------------------
(* Properties.                                                             *)

\* The variables have the types of the code's values.
TypeOK == /\ world \in Worlds /\ mode \in [Names -> Modes]
          /\ daemon \in [Names -> BOOLEAN]
          /\ engine \in [Names -> {"off", "connecting", "on"}]
          /\ \A p \in Procs : /\ cli[p].pc \in Commands \cup {"idle", "snapshot"}
                              /\ cli[p].todo \subseteq Names
                              /\ \A s \in cli[p].snaps : s.net \cup {r.prefix : r \in s.routes} \subseteq Prefix

\* No command runs, and no call has failed or answered too early.
Quiescent == world.faults = {} /\ \A p \in Procs : cli[p].pc = "idle"
Manages(n) == Normalize(mode[n]) # "disabled"
IsUp(n) == engine[n] # "off"

\* The addresses of the mesh itself, and those it routes.
MeshAddresses(n) == Addresses(ParseAddr(world.mesh[n].ip))
RoutedAddresses(n) == UNION {Addresses(r.prefix) : r \in {s \in world.mesh[n].routes : s.selected}}

\* ROADMAP.md: bringing up a second mesh that overlaps is refused by --strict
\* (not so if an engine is still connecting when preflight looks at it).
\* However many strict ups run at the same time and whatever each of them saw
\* of the others, once they have returned no address belongs to, or is routed
\* into, two meshes that are up.  docs/dns.md: "Domain-set overlaps between meshes
\* are still detected": nor is a domain served by nameserver groups of both.
StrictKeepsApart ==
    Quiescent => \A m, n \in Names : m # n /\ IsUp(m) /\ IsUp(n) =>
        /\ MeshAddresses(m) \cap MeshAddresses(n) = {}
        /\ RoutedAddresses(m) \cap RoutedAddresses(n) = {}
        /\ Manages(m) /\ Manages(n) =>
              GroupDomains(world.mesh[m]) \cap GroupDomains(world.mesh[n]) \subseteq {Root}

\* ops/preflight.go: "who actually wins for the narrower prefix".  The address
\* asked about is one that both meshes route.
ProbeIsContested ==
    \A p \in Procs : \A s, t \in cli[p].snaps :
        s # t => \A c \in RouteConflicts(s, t) :
            probe(c[1], c[2]) \in Addresses(c[1].prefix) \cap Addresses(c[2].prefix)

\* docs/dns.md: "Safe: each mesh handles only its own DNS domains (split DNS),
\* disjoint domain sets".  A strict up is refused only because of an instance
\* whose mesh does conflict, or for lack of domains: without a group, or without
\* an engine, an instance counts as one that claims all of DNS; or because of one
\* with disable_dns in a file that had not been migrated when preflight looked.
Conflict(m, n) ==
    \/ MeshAddresses(m) \cap MeshAddresses(n) # {}
    \/ RoutedAddresses(m) \cap RoutedAddresses(n) # {}
    \/ /\ Manages(m) /\ Manages(n)
       /\ \/ ~(GroupDomains(world.mesh[m]) \cap GroupDomains(world.mesh[n]) \subseteq {Root})
          \/ PrimaryClaim(world.mesh[m]) /\ PrimaryClaim(world.mesh[n])
          \/ world.mesh[m].peer \cap world.mesh[n].peer # {}
RefusalIsJustified ==
    [][\A p \in Procs : Refuse(p) =>
          \/ \E m \in Names \ {cli[p].name} : Conflict(m, cli[p].name)
          \/ \E s \in cli[p].snaps : s.domains = {} \/ (s.manages /\ ~Manages(s.name))]_vars
=============================================================================
