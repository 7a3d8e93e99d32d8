------------------------------ MODULE HostKeys ------------------------------
(***************************************************************************)
(* The dynamic store of macOS under the processes that register and remove *)
(* host DNS: Platform.ApplyHostDNS and RemoveHostDNS, as `up`, `status`,   *)
(* `dns sync`, the watcher, `down`, `remove` and `nuke` call them, from    *)
(* Status answers that change with the meshes.  Either lists the           *)
(* instance's keys first and then runs a scutil script, one command at a   *)
(* time, without a lock.                                                   *)
(***************************************************************************)
EXTENDS HostDns

CONSTANTS
    Instances,  \* instances, all in multibird mode
    Meshes,     \* the Status answers their daemons may give
    Writers,    \* processes (or goroutines of the watcher)
    MaxKeys,    \* bound: keys of one kind an instance needs
    None,       \* no Status answer: a removal, or nothing registered yet
    Unknown,    \* nor known: a writer was cut off
    Serial,     \* TRUE: one of them at a time for each instance
    MayCrash    \* TRUE: a process may be killed, or scutil may fail

KeyIds == Instances \X {"Search", "Match"} \X (0..(MaxKeys - 1))
NoKey == [domains |-> <<>>, listen |-> 0]

VARIABLES
    mesh,       \* mesh[n]: what the daemon of n answers
    keys,       \* the dynamic store
    writer,     \* writer[p]: the progress of process p
    applied     \* history: the answer the last finished call for n registered

keyVars == <<mesh, keys, writer, applied>>

Resting == [pc |-> "idle", name |-> None, for |-> None, script |-> <<>>]

ASSUME MeshesAssumption ==
    \A st \in Meshes :
        /\ st.ip \in [addr : Address, bits : {Bare} \cup 0..Width]
        /\ \A domains \in {st.peer, GroupDomains(st)} :
              IsFiniteSet(domains) /\ domains \subseteq Seq(STRING)
ASSUME KeysAssumption ==
    /\ \A st \in Meshes, n \in Instances : Derives(st) =>
          {k.id : k \in hostDNSKeys(n, Derive(st))} \subseteq KeyIds
    /\ MaxKeys \in Nat /\ {Serial, MayCrash} \subseteq BOOLEAN
    /\ None \notin Instances \cup Meshes /\ Unknown \notin Meshes \cup {None}

KeysInit == /\ mesh \in [Instances -> Meshes]
            /\ keys = [k \in KeyIds |-> NoKey]
            /\ writer = [p \in Writers |-> Resting]
            /\ applied = [n \in Instances |-> None]

-----------------------------------------------------------------------------
\* Mutant: there is never anything stale.
keysOfInstanceNone(n) == {}

\* keysOfInstance of the listed keys.
keysOfInstance(n) == {k \in KeyIds : k[1] = n /\ keys[k] # NoKey}

MayBegin(p, n) == writer[p].pc = "idle" /\ (Serial => \A q \in Writers : writer[q].name # n)

\* applyHostDNSFromStatus: a Status answer from which a spec can be derived;
\* otherwise nothing is touched.
ApplyBegin(p, n) ==
    /\ MayBegin(p, n) /\ Derives(mesh[n])
    /\ writer' = [writer EXCEPT ![p] = [pc |-> "list", name |-> n, for |-> mesh[n], script |-> <<>>]]
    /\ UNCHANGED <<mesh, keys, applied>>

RemoveBegin(p, n) ==
    /\ MayBegin(p, n)
    /\ writer' = [writer EXCEPT ![p] = [pc |-> "list", name |-> n, for |-> None, script |-> <<>>]]
    /\ UNCHANGED <<mesh, keys, applied>>

\* renderApplyScript and renderRemoveScript, from the keys listed now: remove
\* the stale ones, then set the new ones.
List(p) ==
    /\ writer[p].pc = "list"
    /\ LET removes == {[id |-> k, val |-> NoKey] : k \in keysOfInstance(writer[p].name)}
           sets == IF writer[p].for = None THEN {}
                   ELSE hostDNSKeys(writer[p].name, Derive(writer[p].for))
       IN writer' = [writer EXCEPT ![p].pc = "run", ![p].script = SetToSeq(removes) \o SetToSeq(sets)]
    /\ UNCHANGED <<mesh, keys, applied>>

\* scutil executes one command of the script.
Run(p) ==
    /\ writer[p].pc = "run" /\ writer[p].script # <<>>
    /\ LET c == Head(writer[p].script) IN keys' = [keys EXCEPT ![c.id] = c.val]
    /\ writer' = [writer EXCEPT ![p].script = Tail(@)]
    /\ UNCHANGED <<mesh, applied>>

Done(p) ==
    /\ writer[p].pc = "run" /\ writer[p].script = <<>>
    /\ applied' = [applied EXCEPT ![writer[p].name] = writer[p].for]
    /\ writer' = [writer EXCEPT ![p] = Resting]
    /\ UNCHANGED <<mesh, keys>>

\* The caller is not root, scutil fails, or the process is killed with its
\* script half run.
Crash(p) ==
    /\ MayCrash /\ writer[p].pc # "idle"
    /\ applied' = [applied EXCEPT ![writer[p].name] = Unknown]
    /\ writer' = [writer EXCEPT ![p] = Resting]
    /\ UNCHANGED <<mesh, keys>>

MeshChanges(n) ==
    /\ \E st \in Meshes \ {mesh[n]} : mesh' = [mesh EXCEPT ![n] = st]
    /\ UNCHANGED <<keys, writer, applied>>

KeysNext == \/ \E p \in Writers : \/ \E n \in Instances : ApplyBegin(p, n) \/ RemoveBegin(p, n)
                                 \/ List(p) \/ Run(p) \/ Done(p) \/ Crash(p)
            \/ \E n \in Instances : MeshChanges(n)

KeysSpec == KeysInit /\ [][KeysNext]_keyVars

-----------------------------------------------------------------------------
(* Properties.                                                             *)

Quiet(n) == \A p \in Writers : writer[p].name # n
Known(n) == Quiet(n) /\ applied[n] \in Meshes
Owned(n) == {k \in KeyIds : k[1] = n /\ keys[k] # NoKey}
Domains(n, kind) == UNION {Range(keys[k].domains) : k \in {i \in Owned(n) : i[2] = kind}}

\* The variables have the types of the code's values.
KeysTypeOK == /\ mesh \in [Instances -> Meshes]
              /\ DOMAIN keys = KeyIds
              /\ \A k \in KeyIds : keys[k].listen \in Address
              /\ applied \in [Instances -> Meshes \cup {None, Unknown}]
              /\ \A p \in Writers : /\ writer[p].pc \in {"idle", "list", "run"}
                                    /\ writer[p].name \in Instances \cup {None}

\* The instance's keys are the registration of st: every domain of it and no
\* other, at its resolver, in batches scutil accepts.
Registers(n, st) ==
    LET spec == Derive(st)
    IN /\ Domains(n, "Match") = spec.match /\ Domains(n, "Search") = spec.search
       /\ \A k \in Owned(n) :
             /\ keys[k].listen = spec.listen
             /\ \/ Len(keys[k].domains) = 1
                \/ /\ Len(keys[k].domains) <= MaxPerKey
                   /\ Bytes(keys[k].domains) <= MaxBytes

\* platform_darwin.go on ApplyHostDNS: "remove its stale keys, set the new
\* ones".  When a call has finished and no other for the instance runs, its keys are
\* the registration of the last Status answer applied, and none at all after a
\* removal.  A writer cut off earlier leaves no traces.
OneSpec ==
    \A n \in Instances : Quiet(n) => /\ applied[n] = None => Owned(n) = {}
                                     /\ applied[n] \in Meshes => Registers(n, applied[n])

\* hostdns.go: the resolver is "reachable only through the tunnel", and the
\* reverse zones are "for the mesh's own ranges".  The resolver derived for a network
\* of more than one address is one of them, and rounding to octets never makes
\* the zone derived catch lookups of addresses outside the network.
Named(st) == st.peer \cup GroupDomains(st)
KeysStayInMesh ==
    \A n \in Instances : Known(n) =>
        LET net == ParseAddr(applied[n].ip)
        IN \A k \in Owned(n) :
              /\ net.bits < Width => keys[k].listen \in Addresses(net)
              /\ \A d \in Range(keys[k].domains) \ Named(applied[n]) :
                    IsZone(d) /\ ZoneAddresses(d) \subseteq Addresses(net)

\* hostdns.go in Derive: "Reverse zones for the mesh's own ranges, so PTR
\* lookups reach the mesh": the lookup of every address of a network that ends
\* at an octet does.  (The zone of any other one covers a part of it only.)
PtrReachesMesh ==
    \A n \in Instances : Known(n) /\ applied[n].ip.bits % Octet = 0 =>
        Addresses(ParseAddr(applied[n].ip))
            \subseteq UNION {ZoneAddresses(d) : d \in {z \in Domains(n, "Match") : IsZone(z)}}
=============================================================================
