------------------------------ MODULE HostDns ------------------------------
(***************************************************************************)
(* The pure logic of the DNS arbiter: what multibird registers with the    *)
(* host for a mesh (internal/hostdns), and how the registration is laid    *)
(* out in dynamic-store keys (internal/platform/scutil.go).                *)
(*                                                                         *)
(* Addresses are numbers of Width bits in octets of Octet bits, a domain   *)
(* name is the sequence of its labels (the empty one is the root, route-all*)
(* DNS).  The IPv6 zone of a dual-stack peer, the same computation over    *)
(* nibbles, is left out.                                                   *)
(***************************************************************************)
EXTENDS Integers, Sequences, FiniteSets, SequencesExt

CONSTANTS
    Width,          \* bits of an address (32 in the code)
    Octet,          \* bits of an octet (8)
    DefaultBits,    \* the network size a bare address is assumed to have (16)
    MaxPerKey,      \* maxDomainsPerKey
    MaxBytes        \* maxDomainBytesPerKey

ASSUME WidthAssumption == /\ Octet \in Nat \ {0} /\ Width \in Nat \ {0} /\ Width % Octet = 0
                          /\ DefaultBits \in 0..Width
ASSUME BatchAssumption == MaxPerKey \in Nat \ {0} /\ MaxBytes \in Nat \ {0}

Bare == -1                              \* an address without "/bits"
Address == 0..(2^Width - 1)
Prefix == [addr : Address, bits : 0..Width]

(***************************************************************************)
(* A Status answer: the local peer's address as reported, its peer domain  *)
(* (the fqdn without its first label, if it has more than one), the        *)
(* nameserver groups and the networks.  A domain of a group comes in any   *)
(* spelling: form is everything canon drops.                               *)
(***************************************************************************)
Root == <<>>
canon(d) == d.name

-----------------------------------------------------------------------------
(* Prefixes: netip, preflight.ParseAddr.                                   *)

Masked(p) == [addr |-> p.addr - (p.addr % 2^(Width - p.bits)), bits |-> p.bits]

\* Mutant: a bare address is taken as it is.
ParseAddrBare(ip) == Masked(ip)

\* ParseAddr: the network of a reported address.
ParseAddr(ip) == Masked([addr |-> ip.addr, bits |-> IF ip.bits = Bare THEN DefaultBits ELSE ip.bits])

\* Prefix.Overlaps: equal in the bits both prefixes fix.
Overlaps(p, q) ==
    LET bits == IF p.bits < q.bits THEN p.bits ELSE q.bits
    IN Masked([p EXCEPT !.bits = bits]) = Masked([q EXCEPT !.bits = bits])

\* The addresses of a network.
Addresses(p) == {a \in Address : Masked([addr |-> a, bits |-> p.bits]) = Masked(p)}

-----------------------------------------------------------------------------
(* hostdns.                                                                *)

\* Mutant: counted from the peer's own address.
ResolverAddrUnmasked(ip) == ip.addr + (2^(Width - ip.bits) - 1) - 1

\* ResolverAddr: the last address of the network minus one, in Width bits.
ResolverAddr(ip) ==
    (Masked(ip).addr + (2^(Width - ip.bits) - 1) - 1) % 2^Width

\* Mutant: rounded down to whole octets.
ReverseZoneDown(ip) ==
    LET net == ParseAddr(ip)
        octets == net.bits \div Octet
    IN <<"arpa", octets, net.addr \div 2^(Width - octets * Octet)>>

\* ReverseZone: the leading octets of the network address, rounded up.
ReverseZone(ip) ==
    LET net == ParseAddr(ip)
        octets == (net.bits + Octet - 1) \div Octet
    IN <<"arpa", octets, net.addr \div 2^(Width - octets * Octet)>>

\* The addresses whose reverse lookups a zone catches.
IsZone(d) == Len(d) = 3 /\ d[1] = "arpa"
ZoneAddresses(z) == {a \in Address : a \div 2^(Width - z[2] * Octet) = z[3]}

Enabled(st) == {g \in st.groups : g.enabled}

\* ErrPrimaryClaim: an enabled group for all domains.
PrimaryClaim(st) ==
    \E g \in Enabled(st) : g.domains = {} \/ \E d \in g.domains : canon(d) = Root

GroupDomains(st) == UNION {{canon(d) : d \in g.domains} : g \in Enabled(st)}

\* Derive fails for a bare address and for a primary claim.
Derives(st) == st.ip.bits # Bare /\ ~PrimaryClaim(st)

\* Mutant: no reverse zone.
DeriveNoZone(st) == [listen |-> ResolverAddr(st.ip),
                     search |-> st.peer,
                     match |-> st.peer \cup GroupDomains(st)]

Derive(st) == [listen |-> ResolverAddr(st.ip),
               search |-> st.peer,
               match |-> st.peer \cup GroupDomains(st) \cup {ReverseZone(st.ip)}]

-----------------------------------------------------------------------------
(* scutil.go.                                                              *)

BytesOf(d) == Len(d)

\* The body of the loop of batchDomains: a batch is closed when it is full or
\* the next domain would take it past the byte limit.
addDomain(b, d) ==
    IF b.cur # <<>> /\ (Len(b.cur) >= MaxPerKey \/ b.bytes + BytesOf(d) > MaxBytes)
    THEN [out |-> Append(b.out, b.cur), cur |-> <<d>>, bytes |-> BytesOf(d)]
    ELSE [out |-> b.out, cur |-> Append(b.cur, d), bytes |-> b.bytes + BytesOf(d)]

\* batchDomains, batch[k] being what it has after k domains.
batchDomains(ds) ==
    LET batch[k \in 0..Len(ds)] ==
            IF k = 0 THEN [out |-> <<>>, cur |-> <<>>, bytes |-> 0]
                     ELSE addDomain(batch[k - 1], ds[k])
        end == batch[Len(ds)]
    IN IF end.cur = <<>> THEN end.out ELSE Append(end.out, end.cur)

\* The bytes of the domains of a batch, counted one by one.
Bytes(ds) == Cardinality(UNION {{i} \X (1..BytesOf(ds[i])) : i \in DOMAIN ds})

\* hostDNSKeys: batch n of a kind goes to the key number n - 1 of that kind.
\* Which domains share a batch depends on their order (sort.Strings) only; any
\* fixed order of a set will do.
hostDNSKeys(owner, spec) ==
    LET keysOf(kind, domains) ==
            LET batches == batchDomains(SetToSeq(domains))
            IN {[id |-> <<owner, kind, n - 1>>,
                 val |-> [domains |-> batches[n], listen |-> spec.listen]] : n \in DOMAIN batches}
    IN keysOf("Search", spec.search) \cup keysOf("Match", spec.match)
=============================================================================
