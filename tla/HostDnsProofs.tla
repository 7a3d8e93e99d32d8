--------------------------- MODULE HostDnsProofs ---------------------------
(* Theorems about HostDns (prefixes, resolver and reverse zone, batches) and *)
(* the two modules that use it, Preflight and HostKeys, for every number of  *)
(* instances and processes, every mesh and every width of addresses.         *)
EXTENDS Preflight, HostKeys, FiniteSetTheorems, SequenceTheorems,
        WellFoundedInduction, TLAPS

-----------------------------------------------------------------------------
(* Powers of two.  The provers know 2^n only as the number of subsets of a *)
(* set of n elements.                                                      *)

LEMMA TwoExp ==
    ASSUME NEW n \in Nat
    PROVE  2^n \in Nat \ {0} /\ 2^(n + 1) = 2^n + 2^n
<1> DEFINE S == 1..n
           x == n + 1
           P == SUBSET S
           Q == {A \cup {x} : A \in P}
           g == [A \in P |-> A \cup {x}]
<1>1. IsFiniteSet(S) /\ Cardinality(S) = n
  BY FS_Interval
<1>2. IsFiniteSet(P) /\ Cardinality(P) = 2^n
  BY <1>1, FS_SUBSET
<1>3. x \notin S
  OBVIOUS
<1>4. IsFiniteSet(S \cup {x}) /\ Cardinality(S \cup {x}) = n + 1
  BY <1>1, <1>3, FS_AddElement
<1>5. Cardinality(SUBSET (S \cup {x})) = 2^(n + 1)
  BY <1>4, FS_SUBSET
<1> HIDE DEF S, x
<1>6. g \in Bijection(P, Q)
  <2>1. g \in [P -> Q]
    OBVIOUS
  <2>2. \A A, B \in P : g[A] = g[B] => A = B
    BY <1>3
  <2>3. \A C \in Q : \E A \in P : g[A] = C
    OBVIOUS
  <2> HIDE DEF P, Q, g
  <2>4. g \in Injection(P, Q)
    BY <2>1, <2>2 DEF Injection, IsInjective
  <2>5. g \in Surjection(P, Q)
    BY <2>1, <2>3 DEF Surjection
  <2> QED BY <2>4, <2>5 DEF Bijection
<1>7. IsFiniteSet(Q) /\ Cardinality(Q) = 2^n
  BY <1>2, <1>6, FS_Bijection DEF ExistsBijection
<1>8. P \cap Q = {}
  BY <1>3
<1>9. P \cup Q = SUBSET (S \cup {x})
  <2>1. ASSUME NEW A \in SUBSET (S \cup {x}) PROVE A \in P \cup Q
    <3>1. CASE x \in A
      <4>1. A = (A \ {x}) \cup {x} /\ A \ {x} \in P
        BY <3>1
      <4> QED BY <4>1
    <3>2. CASE x \notin A
      BY <3>2
    <3> QED BY <3>1, <3>2
  <2> QED BY <2>1
<1> HIDE DEF P, Q
<1>10. Cardinality(P \cup Q) = Cardinality(P) + Cardinality(Q) - Cardinality(P \cap Q)
  BY <1>2, <1>7, FS_Union
<1>11. Cardinality(P \cap Q) = 0 /\ 2^n \in Nat
  BY <1>2, <1>8, FS_EmptySet, FS_CardinalityType
<1>12. 2^n # 0
  BY <1>2, FS_EmptySet DEF P
<1>13. 2^(n + 1) = 2^n + 2^n - 0
  BY <1>2, <1>5, <1>7, <1>9, <1>10, <1>11
<1> QED BY <1>11, <1>12, <1>13

\* A set of naturals with 0 and every successor has them all.
LEMMA Induction ==
    ASSUME NEW S \in SUBSET Nat, 0 \in S, \A n \in S : n + 1 \in S
    PROVE  S = Nat
<1> SUFFICES ASSUME Nat \ S # {} PROVE FALSE
  OBVIOUS
<1>1. PICK n \in Nat \ S : \A m \in Nat \ S : ~(<<m, n>> \in OpToRel(<, Nat))
  BY NatLessThanWellFounded, WFMin, Zenon
<1>2. n # 0 /\ n - 1 \in Nat /\ n - 1 < n /\ (n - 1) + 1 = n
  OBVIOUS
<1>3. n - 1 \notin S
  BY <1>2
<1>4. <<n - 1, n>> \in OpToRel(<, Nat)
  BY <1>2 DEF OpToRel
<1> QED BY <1>1, <1>2, <1>3, <1>4

LEMMA PowerSum ==
    ASSUME NEW m \in Nat, NEW n \in Nat
    PROVE  2^(m + n) = 2^m * 2^n
<1> DEFINE S == {k \in Nat : 2^(m + k) = 2^m * 2^k}
<1>1. 0 \in S
  <2>1. 2^0 = 1 /\ 2^m \in Nat /\ m + 0 = m
    BY TwoExp
  <2> QED BY <2>1
<1>2. ASSUME NEW k \in S PROVE k + 1 \in S
  <2>1. /\ 2^(k + 1) = 2^k + 2^k /\ 2^((m + k) + 1) = 2^(m + k) + 2^(m + k)
        /\ 2^m \in Nat /\ 2^k \in Nat /\ m + (k + 1) = (m + k) + 1
    BY TwoExp
  <2>2. 2^m * (2^k + 2^k) = 2^m * 2^k + 2^m * 2^k
    BY <2>1
  <2> QED BY <2>1, <2>2
<1>3. S = Nat
  <2> HIDE DEF S
  <2>1. S \in SUBSET Nat
    BY DEF S
  <2> QED BY <1>1, <1>2, <2>1, Induction
<1> QED BY <1>3

-----------------------------------------------------------------------------
(* Prefixes.                                                               *)

\* Division with remainder.
LEMMA Remainder ==
    ASSUME NEW a \in Nat, NEW m \in Nat \ {0}
    PROVE  /\ a \div m \in Nat /\ a % m \in Nat /\ a % m < m
           /\ a = (m * (a \div m)) + (a % m)
           /\ a - (a % m) \in Nat /\ a - (a % m) <= a
OBVIOUS

LEMMA RemainderIs ==
    ASSUME NEW q \in Nat, NEW r \in Nat, NEW m \in Nat \ {0}, r < m
    PROVE  ((m * q) + r) % m = r
OBVIOUS

\* Cutting off fewer bits first changes nothing.
LEMMA CutTwice ==
    ASSUME NEW a \in Nat, NEW n \in Nat \ {0}, NEW k \in Nat \ {0}
    PROVE  (a - (a % n)) - ((a - (a % n)) % (n * k)) = a - (a % (n * k))
<1> DEFINE m == n * k
           q == a \div m
           r == a % m
           s == r \div n
           t == r % n
<1>1. m \in Nat \ {0}
  OBVIOUS
<1> HIDE DEF m
<1>2. q \in Nat /\ r \in Nat /\ r < m /\ a = (m * q) + r
  BY <1>1, Remainder
<1> HIDE DEF q, r
<1>3. s \in Nat /\ t \in Nat /\ t < n /\ r = (n * s) + t
  BY <1>2, Remainder
<1> HIDE DEF s, t
<1>4. a = (n * ((k * q) + s)) + t
  BY <1>2, <1>3 DEF m
<1>5. a % n = t
  <2>1. (k * q) + s \in Nat
    BY <1>2, <1>3
  <2> QED BY <1>3, <1>4, <2>1, RemainderIs
<1>6. a - (a % n) = (m * q) + (n * s) /\ n * s \in Nat /\ n * s < m
  <2> DEFINE u == m * q
             v == n * s
  <2>1. u \in Nat /\ v \in Nat
    BY <1>1, <1>2, <1>3
  <2>2. a = u + r /\ r = v + t
    BY <1>2, <1>3
  <2> HIDE DEF u, v
  <2>3. a - t = u + v /\ v < m
    BY <1>1, <1>2, <1>3, <2>1, <2>2
  <2> QED BY <1>5, <2>1, <2>3 DEF u, v
<1>7. (a - (a % n)) % m = n * s
  <2> DEFINE v == n * s
  <2>1. v \in Nat /\ v < m /\ a - (a % n) = (m * q) + v
    BY <1>6
  <2> HIDE DEF v
  <2>2. ((m * q) + v) % m = v
    BY <1>1, <1>2, <2>1, RemainderIs
  <2> QED BY <2>1, <2>2 DEF v
<1>8. a - r = m * q /\ m * q \in Nat
  BY <1>1, <1>2
<1>9. (a - (a % n)) - ((a - (a % n)) % m) = m * q
  BY <1>6, <1>7, <1>8
<1> QED BY <1>8, <1>9 DEF m, r

\* The number of addresses of a network with b bits.
Size(b) == 2^(Width - b)

LEMMA Sizes ==
    ASSUME NEW b \in 0..Width
    PROVE  /\ Size(b) \in Nat \ {0}
           /\ \A c \in b..Width : \E k \in Nat \ {0} : Size(b) = Size(c) * k
<1>0. Width \in Nat
  BY WidthAssumption
<1>1. Width - b \in Nat
  BY <1>0
<1>2. ASSUME NEW c \in b..Width PROVE \E k \in Nat \ {0} : Size(b) = Size(c) * k
  <2>1. Width - c \in Nat /\ c - b \in Nat /\ (Width - c) + (c - b) = Width - b
    BY <1>0
  <2>2. 2^((Width - c) + (c - b)) = 2^(Width - c) * 2^(c - b) /\ 2^(c - b) \in Nat \ {0}
    BY <2>1, PowerSum, TwoExp
  <2> QED BY <2>1, <2>2 DEF Size
<1> QED BY <1>1, <1>2, TwoExp DEF Size

LEMMA MaskedIs ==
    ASSUME NEW p \in [addr : Nat, bits : 0..Width]
    PROVE  /\ Masked(p) = [addr |-> p.addr - (p.addr % Size(p.bits)), bits |-> p.bits]
           /\ p.addr - (p.addr % Size(p.bits)) \in Nat
           /\ p.addr - (p.addr % Size(p.bits)) <= p.addr
<1>1. Size(p.bits) \in Nat \ {0}
  BY Sizes
<1> QED BY <1>1, Remainder DEF Masked, Size

LEMMA AddressIs == 2^Width \in Nat \ {0} /\ Address = 0..(2^Width - 1)
BY TwoExp, WidthAssumption DEF Address

LEMMA MaskedType == ASSUME NEW p \in Prefix PROVE Masked(p) \in Prefix
<1>1. p \in [addr : Nat, bits : 0..Width] /\ p.addr \in Address
  BY AddressIs DEF Prefix
<1> QED BY <1>1, MaskedIs, AddressIs DEF Prefix

\* A prefix cut to fewer bits: the same whether it was masked before or not.
LEMMA MaskShorter ==
    ASSUME NEW p \in [addr : Nat, bits : 0..Width], NEW b \in 0..Width, b <= p.bits
    PROVE  Masked([addr |-> Masked(p).addr, bits |-> b]) = Masked([addr |-> p.addr, bits |-> b])
<1>1. p.addr \in Nat /\ p.bits \in b..Width
  OBVIOUS
<1>2. PICK k \in Nat \ {0} : Size(b) = Size(p.bits) * k
  BY <1>1, Sizes
<1>3. Size(p.bits) \in Nat \ {0}
  BY Sizes
<1> DEFINE a == p.addr
           n == Size(p.bits)
           c == a - (a % n)
<1>4. c - (c % (n * k)) = a - (a % (n * k))
  BY <1>1, <1>2, <1>3, CutTwice
<1>5. Masked(p).addr = c
  BY MaskedIs
<1>6. /\ Masked([addr |-> c, bits |-> b]) = [addr |-> c - (c % Size(b)), bits |-> b]
      /\ Masked([addr |-> a, bits |-> b]) = [addr |-> a - (a % Size(b)), bits |-> b]
  BY DEF Masked, Size
<1> QED BY <1>2, <1>4, <1>5, <1>6

\* Overlaps, for a prefix q no longer than p: they agree in q's bits.
LEMMA OverlapsIs ==
    ASSUME NEW p \in Prefix, NEW q \in Prefix, q.bits <= p.bits
    PROVE  /\ Overlaps(p, q) <=> Masked([addr |-> p.addr, bits |-> q.bits]) = Masked(q)
           /\ Overlaps(q, p) <=> Masked([addr |-> p.addr, bits |-> q.bits]) = Masked(q)
<1>1. p.bits \in Int /\ q.bits \in Int
  BY WidthAssumption DEF Prefix
<1>2. \A b : [p EXCEPT !.bits = b] = [addr |-> p.addr, bits |-> b]
  BY DEF Prefix
<1>3. [q EXCEPT !.bits = q.bits] = q
  BY DEF Prefix
<1>4. (IF p.bits < q.bits THEN p.bits ELSE q.bits) = q.bits
  BY <1>1
<1>5. Overlaps(p, q) <=> Masked([p EXCEPT !.bits = q.bits]) = Masked([q EXCEPT !.bits = q.bits])
  BY <1>4 DEF Overlaps
<1>6. (IF q.bits < p.bits THEN q.bits ELSE p.bits) = q.bits
  BY <1>1
<1>7. Overlaps(q, p) <=> Masked([q EXCEPT !.bits = q.bits]) = Masked([p EXCEPT !.bits = q.bits])
  BY <1>6 DEF Overlaps
<1> QED BY <1>2, <1>3, <1>5, <1>7

LEMMA PrefixIs ==
    ASSUME NEW p \in Prefix
    PROVE  /\ p \in [addr : Nat, bits : 0..Width] /\ p.addr \in Address /\ p.bits \in 0..Width
           /\ [addr |-> p.addr, bits |-> p.bits] = p
BY AddressIs DEF Prefix

\* A common address of two networks, the narrower first.
LEMMA CommonNarrower ==
    ASSUME NEW p \in Prefix, NEW q \in Prefix, q.bits <= p.bits, NEW a \in Addresses(p) \cap Addresses(q)
    PROVE  Masked([addr |-> p.addr, bits |-> q.bits]) = Masked(q)
<1> DEFINE c == [addr |-> a, bits |-> p.bits]
<1>1. /\ a \in Nat /\ Masked(c) = Masked(p)
      /\ Masked([addr |-> a, bits |-> q.bits]) = Masked(q)
  BY AddressIs DEF Addresses
<1>2. c \in [addr : Nat, bits : 0..Width] /\ c.addr = a /\ c.bits = p.bits /\ q.bits \in 0..Width
  BY <1>1, PrefixIs
<1> HIDE DEF c
<1>3. Masked([addr |-> Masked(c).addr, bits |-> q.bits]) = Masked([addr |-> a, bits |-> q.bits])
  BY <1>2, MaskShorter
<1>4. Masked([addr |-> Masked(p).addr, bits |-> q.bits]) = Masked([addr |-> p.addr, bits |-> q.bits])
  BY <1>2, PrefixIs, MaskShorter
<1> QED BY <1>1, <1>3, <1>4

\* netip's Prefix.Overlaps is what it should be: the networks have an address in common.
LEMMA CommonOverlaps ==
    ASSUME NEW p \in Prefix, NEW q \in Prefix, Addresses(p) \cap Addresses(q) # {}
    PROVE  Overlaps(p, q)
<1>1. PICK a : a \in Addresses(p) \cap Addresses(q)
  OBVIOUS
<1>2. CASE q.bits <= p.bits
  <2>1. Masked([addr |-> p.addr, bits |-> q.bits]) = Masked(q)
    BY <1>1, <1>2, CommonNarrower
  <2> QED BY <1>2, <2>1, OverlapsIs
<1>3. CASE p.bits <= q.bits
  <2>1. Masked([addr |-> q.addr, bits |-> p.bits]) = Masked(p)
    BY <1>1, <1>3, CommonNarrower
  <2> QED BY <1>3, <2>1, OverlapsIs
<1>4. p.bits \in Int /\ q.bits \in Int
  BY PrefixIs, WidthAssumption
<1> QED BY <1>2, <1>3, <1>4

\* The address of the narrower one is common to both.
LEMMA NarrowerCommon ==
    ASSUME NEW p \in Prefix, NEW q \in Prefix, q.bits <= p.bits, Overlaps(p, q) \/ Overlaps(q, p)
    PROVE  p.addr \in Addresses(p) \cap Addresses(q)
<1>1. Masked([addr |-> p.addr, bits |-> q.bits]) = Masked(q)
  BY OverlapsIs
<1> QED BY <1>1, PrefixIs DEF Addresses

LEMMA OverlapsCommon ==
    ASSUME NEW p \in Prefix, NEW q \in Prefix, Overlaps(p, q)
    PROVE  Addresses(p) \cap Addresses(q) # {}
<1>1. p.bits \in Int /\ q.bits \in Int
  BY PrefixIs, WidthAssumption
<1>2. CASE q.bits <= p.bits
  BY <1>2, NarrowerCommon
<1>3. CASE p.bits <= q.bits
  BY <1>3, NarrowerCommon
<1> QED BY <1>1, <1>2, <1>3

\* Masking a prefix keeps its addresses.
LEMMA MaskedAddresses == ASSUME NEW p \in Prefix PROVE Addresses(Masked(p)) = Addresses(p)
<1>1. p \in [addr : Nat, bits : 0..Width] /\ p.bits \in 0..Width /\ p.bits <= p.bits
      /\ [addr |-> p.addr, bits |-> p.bits] = p
  BY PrefixIs, WidthAssumption
<1>2. Masked([addr |-> Masked(p).addr, bits |-> p.bits]) = Masked(p)
  BY <1>1, MaskShorter
<1>3. Masked(p) = [addr |-> Masked(p).addr, bits |-> p.bits] /\ Masked(p).bits = p.bits
  BY <1>1, MaskedIs
<1>4. Masked(Masked(p)) = Masked(p)
  BY <1>2, <1>3
<1> QED BY <1>3, <1>4 DEF Addresses

LEMMA ParseType ==
    ASSUME NEW ip \in [addr : Address, bits : {Bare} \cup 0..Width]
    PROVE  ParseAddr(ip) \in Prefix
<1>1. [addr |-> ip.addr, bits |-> IF ip.bits = Bare THEN DefaultBits ELSE ip.bits] \in Prefix
  BY WidthAssumption DEF Prefix
<1> QED BY <1>1, MaskedType DEF ParseAddr

-----------------------------------------------------------------------------
(* The resolver and the reverse zone of a network.                         *)

LEMMA Multiples ==
    ASSUME NEW m \in Nat \ {0}, NEW x \in Nat, NEW y \in Nat
    PROVE  /\ m * x \in Nat
           /\ x < y <=> m * x < m * y
           /\ x < y => (m * x) + m <= m * y
           /\ m * x = m * y => x = y
<1>1. m * x \in Nat /\ m * y \in Nat
  OBVIOUS
<1>2. ASSUME NEW u \in Nat, NEW v \in Nat, u < v PROVE (m * u) + m <= m * v
  <2>1. PICK d \in Nat : v = (u + 1) + d
    <3>1. v - (u + 1) \in Nat /\ v = (u + 1) + (v - (u + 1))
      BY <1>2
    <3> QED BY <3>1
  <2>2. m * v = ((m * u) + m) + (m * d) /\ m * d \in Nat /\ m * u \in Nat
    BY <2>1
  <2> QED BY <2>2
<1>3. x < y => (m * x) + m <= m * y
  BY <1>2
<1>4. y < x => (m * y) + m <= m * x
  BY <1>2
<1> QED BY <1>1, <1>3, <1>4

\* The addresses of a network are consecutive.
LEMMA InNetwork ==
    ASSUME NEW p \in Prefix, NEW r \in Nat, r < Size(p.bits)
    PROVE  Masked(p).addr + r \in Addresses(p) /\ Masked(p).addr \in Nat
<1> DEFINE a == p.addr
           m == Size(p.bits)
           q == a \div m
<1>1. a \in Nat /\ a < 2^Width /\ p.bits \in 0..Width /\ 0 \in 0..Width
      /\ p \in [addr : Nat, bits : 0..Width] /\ Width \in Nat
  BY PrefixIs, AddressIs, WidthAssumption
<1>2. m \in Nat \ {0} /\ r \in Nat /\ r < m
  BY <1>1, Sizes
<1>3. PICK k \in Nat \ {0} : Size(0) = m * k
  BY <1>1, Sizes
<1>4. Size(0) = 2^Width
  BY <1>1 DEF Size
<1> HIDE DEF a, m
<1>5. q \in Nat /\ a % m \in Nat /\ a % m < m /\ a = (m * q) + (a % m)
  BY <1>1, <1>2, Remainder
<1> HIDE DEF q
<1>6. m * q \in Nat /\ m * q <= a /\ a - (a % m) = m * q
  BY <1>2, <1>5
<1>7. Masked(p).addr = m * q
  BY <1>1, <1>6, MaskedIs DEF a, m
<1>8. (m * q) + m <= m * k
  <2>1. m * q < m * k
    BY <1>1, <1>3, <1>4, <1>6
  <2> QED BY <1>2, <1>5, <2>1, Multiples
<1>9. (m * q) + r \in Address
  BY <1>2, <1>3, <1>4, <1>6, <1>8, AddressIs
<1>10. ((m * q) + r) % m = r
  BY <1>2, <1>5, RemainderIs
<1>11. Masked([addr |-> (m * q) + r, bits |-> p.bits]) = [addr |-> m * q, bits |-> p.bits]
  BY <1>2, <1>6, <1>10 DEF Masked, Size, m
<1>12. Masked(p) = [addr |-> m * q, bits |-> p.bits]
  BY <1>1, <1>6, MaskedIs DEF a, m
<1> QED BY <1>6, <1>7, <1>9, <1>11, <1>12 DEF Addresses

LEMMA ResolverType ==
    ASSUME NEW ip \in Prefix
    PROVE  ResolverAddr(ip) \in Address
<1>1. Masked(ip).addr \in Nat /\ 2^Width \in Nat \ {0} /\ 2^(Width - ip.bits) \in Nat
  BY PrefixIs, MaskedIs, AddressIs, Sizes DEF Size
<1>2. ASSUME NEW x \in Int, NEW n \in Nat \ {0} PROVE x % n \in 0..(n - 1)
  OBVIOUS
<1>3. Masked(ip).addr + ((2^(Width - ip.bits) - 1) - 1) \in Int
  BY <1>1
<1>4. ResolverAddr(ip) \in 0..(2^Width - 1)
  BY <1>1, <1>2, <1>3 DEF ResolverAddr
<1> QED BY <1>4, AddressIs

\* hostdns.go: "LAST IP of the mesh network minus one": an address of the network,
\* in any network of more than one address.
THEOREM ResolverInside ==
    ASSUME NEW ip \in Prefix, ip.bits < Width
    PROVE  ResolverAddr(ip) \in Addresses(ip)
<1> DEFINE m == Size(ip.bits)
           b == Masked(ip).addr
<1>1. Width \in Nat /\ ip.bits \in 0..Width
  BY PrefixIs, WidthAssumption
<1>2. PICK n \in Nat : Width - ip.bits = n + 1
  <2>1. Width - ip.bits - 1 \in Nat /\ Width - ip.bits = (Width - ip.bits - 1) + 1
    BY <1>1
  <2> QED BY <2>1
<1>3. m = 2^n + 2^n /\ 2^n \in Nat \ {0}
  BY <1>2, TwoExp DEF Size
<1>4. m \in Nat /\ m - 2 \in Nat /\ m - 2 < m
  BY <1>3
<1>5. b + (m - 2) \in Addresses(ip) /\ b \in Nat
  BY <1>4, InNetwork
<1>6. b + (m - 2) \in Address /\ 2^Width \in Nat \ {0}
  BY <1>5, AddressIs DEF Addresses
<1> HIDE DEF b, m
<1>7. b + ((m - 1) - 1) = b + (m - 2)
  BY <1>4, <1>5
<1>8. (b + (m - 2)) % 2^Width = b + (m - 2)
  BY <1>6, AddressIs
<1>9. ResolverAddr(ip) = (b + ((m - 1) - 1)) % 2^Width
  BY DEF ResolverAddr, b, m, Size
<1> QED BY <1>5, <1>7, <1>8, <1>9

\* The lengths ReverseZone rounds to: whole octets, at least the bits of the network.
LEMMA Octets ==
    ASSUME NEW b \in 0..Width
    PROVE  LET o == (b + Octet - 1) \div Octet
           IN o \in Nat /\ o * Octet \in b..Width /\ (b % Octet = 0 => o * Octet = b)
<1> DEFINE x == b + Octet - 1
           o == x \div Octet
           w == Width \div Octet
           c == b \div Octet
<1>1. Octet \in Nat \ {0} /\ Width \in Nat /\ Width % Octet = 0 /\ b \in Nat /\ b <= Width
  BY WidthAssumption
<1>2. x \in Nat /\ x = b + (Octet - 1)
  BY <1>1
<1>3. w \in Nat /\ Width = Octet * w
  <2>1. w \in Nat /\ Width = (Octet * w) + (Width % Octet)
    BY <1>1, Remainder
  <2> QED BY <1>1, <2>1
<1>4. c \in Nat /\ b % Octet \in Nat /\ b = (Octet * c) + (b % Octet)
  BY <1>1, Remainder
<1> HIDE DEF x, w, c
<1>5. o \in Nat /\ x % Octet \in Nat /\ x % Octet < Octet /\ x = (Octet * o) + (x % Octet)
  BY <1>1, <1>2, Remainder
<1> HIDE DEF o
<1>6. Octet * o \in Nat /\ Octet * o >= b /\ Octet * o <= b + (Octet - 1)
  BY <1>1, <1>2, <1>5
<1>7. Octet * o <= Width
  <2>1. CASE w < o
    <3>1. (Octet * w) + Octet <= Octet * o
      BY <1>1, <1>3, <1>5, <2>1, Multiples
    <3> QED BY <1>1, <1>3, <1>6, <3>1
  <2>2. CASE o < w
    <3>1. Octet * o < Octet * w
      BY <1>1, <1>3, <1>5, <2>2, Multiples
    <3> QED BY <1>1, <1>3, <1>6, <3>1
  <2>3. CASE o = w
    BY <1>1, <1>3, <2>3
  <2> QED BY <1>3, <1>5, <2>1, <2>2, <2>3
<1>8. ASSUME b % Octet = 0 PROVE Octet * o = b
  <2>1. b = Octet * c
    BY <1>1, <1>4, <1>8
  <2>2. ~(c < o)
    <3> SUFFICES ASSUME c < o PROVE FALSE
      OBVIOUS
    <3>1. (Octet * c) + Octet <= Octet * o
      BY <1>1, <1>4, <1>5, Multiples
    <3> QED BY <1>1, <1>6, <2>1, <3>1
  <2>3. ~(o < c)
    <3> SUFFICES ASSUME o < c PROVE FALSE
      OBVIOUS
    <3>1. Octet * o < Octet * c
      BY <1>1, <1>4, <1>5, Multiples
    <3> QED BY <1>1, <1>6, <2>1, <3>1
  <2> QED BY <1>4, <1>5, <2>1, <2>2, <2>3
<1>9. o * Octet = Octet * o
  BY <1>1, <1>5
<1>10. o \in Nat /\ o * Octet \in b..Width /\ (b % Octet = 0 => o * Octet = b)
  BY <1>1, <1>5, <1>6, <1>7, <1>8, <1>9
<1> QED BY <1>10 DEF o, x

\* The quotients compared by ZoneAddresses are the addresses cut to the zone's length.
LEMMA Quotients ==
    ASSUME NEW a \in Nat, NEW c \in Nat, NEW b \in 0..Width
    PROVE  a \div Size(b) = c \div Size(b)
             <=> Masked([addr |-> a, bits |-> b]) = Masked([addr |-> c, bits |-> b])
<1> DEFINE m == Size(b)
           x == a \div m
           y == c \div m
<1>1. m \in Nat \ {0}
  BY Sizes
<1>2. x \in Nat /\ y \in Nat /\ a = (m * x) + (a % m) /\ c = (m * y) + (c % m)
      /\ a % m \in Nat /\ c % m \in Nat
  BY <1>1, Remainder
<1>3. /\ Masked([addr |-> a, bits |-> b]) = [addr |-> a - (a % m), bits |-> b]
      /\ Masked([addr |-> c, bits |-> b]) = [addr |-> c - (c % m), bits |-> b]
  BY DEF Masked, Size
<1> HIDE DEF m, x, y
<1>4. a - (a % m) = m * x /\ c - (c % m) = m * y
  <2>1. m * x \in Nat /\ m * y \in Nat
    BY <1>1, <1>2
  <2> QED BY <1>2, <2>1
<1>5. m * x = m * y <=> x = y
  BY <1>1, <1>2, Multiples
<1> QED BY <1>3, <1>4, <1>5 DEF m, x, y

\* hostdns.go: reverse zones "for the mesh's own ranges": the zone catches addresses of the
\* network only, and all of them if the network ends at an octet.
THEOREM ZoneInside ==
    ASSUME NEW ip \in Prefix
    PROVE  /\ IsZone(ReverseZone(ip))
           /\ ZoneAddresses(ReverseZone(ip)) \subseteq Addresses(ParseAddr(ip))
           /\ ip.bits % Octet = 0 =>
                 Addresses(ParseAddr(ip)) \subseteq ZoneAddresses(ReverseZone(ip))
<1> DEFINE net == ParseAddr(ip)
           o == (net.bits + Octet - 1) \div Octet
           b == o * Octet
           z == ReverseZone(ip)
<1>1. net = Masked(ip) /\ ip.bits \in 0..Width
  <2>1. ip.bits \in 0..Width /\ ip.bits # Bare
    BY PrefixIs, WidthAssumption DEF Bare
  <2>2. [addr |-> ip.addr, bits |-> IF ip.bits = Bare THEN DefaultBits ELSE ip.bits] = ip
    BY <2>1, PrefixIs
  <2> QED BY <2>1, <2>2 DEF ParseAddr
<1>2. net \in Prefix /\ net.bits = ip.bits /\ net.addr \in Nat /\ net.bits \in 0..Width
  BY <1>1, PrefixIs, MaskedIs, MaskedType
<1>3. z = <<"arpa", o, net.addr \div Size(b)>>
  BY DEF ReverseZone, Size
<1> HIDE DEF net, z
<1>4. o \in Nat /\ b \in net.bits..Width /\ (net.bits % Octet = 0 => b = net.bits)
  BY <1>2, Octets
<1>5. b \in 0..Width /\ net.bits <= b
  BY <1>2, <1>4, WidthAssumption
<1>6. IsZone(z) /\ ZoneAddresses(z) = {a \in Address : a \div Size(b) = net.addr \div Size(b)}
  <2>1. Len(z) = 3 /\ z[1] = "arpa" /\ z[2] = o /\ z[3] = net.addr \div Size(b)
    BY <1>3
  <2> QED BY <2>1 DEF IsZone, ZoneAddresses, Size
<1> HIDE DEF o
<1>7. ASSUME NEW a \in Address
      PROVE  a \in ZoneAddresses(z) <=>
                Masked([addr |-> a, bits |-> b]) = Masked([addr |-> net.addr, bits |-> b])
  <2>1. a \in Nat
    BY AddressIs
  <2> QED BY <1>2, <1>5, <1>6, <2>1, Quotients
<1> HIDE DEF b
<1>8. [addr |-> net.addr, bits |-> net.bits] = net
  BY <1>2, PrefixIs
<1>9. ASSUME NEW a \in ZoneAddresses(z) PROVE a \in Addresses(net)
  <2>1. a \in Address /\ a \in Nat
    BY <1>6, AddressIs
  <2>2. Masked([addr |-> a, bits |-> b]) = Masked([addr |-> net.addr, bits |-> b])
    BY <1>7, <1>9, <2>1
  <2>3. ASSUME NEW x \in Nat
        PROVE  Masked([addr |-> Masked([addr |-> x, bits |-> b]).addr, bits |-> net.bits])
                 = Masked([addr |-> x, bits |-> net.bits])
    <3>1. [addr |-> x, bits |-> b] \in [addr : Nat, bits : 0..Width]
      BY <1>5
    <3>2. [addr |-> x, bits |-> b].addr = x /\ [addr |-> x, bits |-> b].bits = b
      OBVIOUS
    <3> QED BY <1>2, <1>5, <3>1, <3>2, MaskShorter
  <2>4. Masked([addr |-> a, bits |-> net.bits]) = Masked(net)
    BY <1>2, <1>8, <2>1, <2>2, <2>3
  <2> QED BY <2>1, <2>4 DEF Addresses
<1>10. ASSUME ip.bits % Octet = 0, NEW a \in Addresses(net) PROVE a \in ZoneAddresses(z)
  <2>1. a \in Address /\ Masked([addr |-> a, bits |-> net.bits]) = Masked(net)
    BY <1>10 DEF Addresses
  <2>2. b = net.bits
    BY <1>2, <1>4, <1>10
  <2> QED BY <1>7, <1>8, <2>1, <2>2
<1> QED BY <1>6, <1>9, <1>10 DEF net, z

-----------------------------------------------------------------------------
(* Preflight.                                                              *)

\* ops/preflight.go: "who actually wins for the narrower prefix".  The address the probe
\* asks about belongs to both networks, for any two routes that overlap.
THEOREM ProbeInBoth ==
    ASSUME NEW r \in [prefix : Prefix, selected : BOOLEAN],
           NEW u \in [prefix : Prefix, selected : BOOLEAN], Overlaps(r.prefix, u.prefix)
    PROVE  probe(r, u) \in Addresses(r.prefix) \cap Addresses(u.prefix)
<1>1. r.prefix \in Prefix /\ u.prefix \in Prefix /\ r.prefix.bits \in Int /\ u.prefix.bits \in Int
  BY PrefixIs, WidthAssumption
<1>2. CASE u.prefix.bits > r.prefix.bits
  <2>1. r.prefix.bits <= u.prefix.bits
    BY <1>1, <1>2
  <2> QED BY <1>1, <1>2, <2>1, NarrowerCommon DEF probe
<1>3. CASE ~(u.prefix.bits > r.prefix.bits)
  <2>1. u.prefix.bits <= r.prefix.bits
    BY <1>1, <1>3
  <2> QED BY <1>1, <1>3, <2>1, NarrowerCommon DEF probe
<1> QED BY <1>2, <1>3

-----------------------------------------------------------------------------
(* Types.                                                                  *)

\* What snapshotRunning may record of instance n: manages, connected and networks
\* decide how much.
Shot(n, manages, on, networks) ==
    [name |-> n,
     manages |-> manages,
     domains |-> IF on THEN DNSDomains(world.mesh[n]) ELSE {},
     net |-> IF on THEN {ParseAddr(world.mesh[n].ip)} ELSE {},
     routes |-> IF on /\ networks
                THEN {[prefix |-> Masked(r.prefix), selected |-> r.selected] : r \in world.mesh[n].routes}
                ELSE {}]
Shots == {Shot(x[1], x[2], x[3], x[4]) : x \in Names \X BOOLEAN \X BOOLEAN \X BOOLEAN}

CLI == [pc : Commands \cup {"idle", "snapshot"}, cmd : Commands \cup {"none"},
        name : Names \cup {"none"}, todo : SUBSET Names, snaps : SUBSET Shots]

\* A running command has an instance; an old file stays one for a mode nobody manages.
TypeInv == /\ world \in Worlds /\ mode \in [Names -> Modes]
           /\ daemon \in [Names -> BOOLEAN]
           /\ engine \in [Names -> {"off", "connecting", "on"}]
           /\ cli \in [Procs -> CLI]
           /\ \A p \in Procs : cli[p].pc # "idle" => cli[p].name \in Names

LEMMA MeshIs ==
    ASSUME world \in Worlds, NEW n \in Names
    PROVE  /\ world.mesh[n].ip \in [addr : Address, bits : {Bare} \cup 0..Width]
           /\ world.mesh[n].routes \subseteq [prefix : Prefix, selected : BOOLEAN]
           /\ ParseAddr(world.mesh[n].ip) \in Prefix
BY WorldsAssumption, ParseType

LEMMA ShotIs ==
    ASSUME NEW s \in Shots
    PROVE  \E n \in Names, manages, on, networks \in BOOLEAN : s = Shot(n, manages, on, networks)
BY DEF Shots

LEMMA ShotType ==
    ASSUME world \in Worlds, NEW s \in Shots
    PROVE  /\ s.name \in Names /\ s.net \subseteq Prefix
           /\ s.routes \subseteq [prefix : Prefix, selected : BOOLEAN]
<1>1. PICK n \in Names, manages, on, networks \in BOOLEAN : s = Shot(n, manages, on, networks)
  BY ShotIs
<1>2. \A r \in world.mesh[n].routes :
         [prefix |-> Masked(r.prefix), selected |-> r.selected] \in [prefix : Prefix, selected : BOOLEAN]
  BY MeshIs, MaskedType
<1>3. ParseAddr(world.mesh[n].ip) \in Prefix
  BY MeshIs
<1> QED BY <1>1, <1>2, <1>3 DEF Shot

LEMMA SnapshotIs ==
    ASSUME NEW n \in Names, NEW networks \in BOOLEAN
    PROVE  /\ Snapshot(n, networks) = Shot(n, mode[n] # "disabled", engine[n] = "on", networks)
           /\ Snapshot(n, networks) \in Shots
<1>1. Snapshot(n, networks) = Shot(n, mode[n] # "disabled", engine[n] = "on", networks)
  BY DEF Snapshot, Shot
<1> DEFINE x == <<n, mode[n] # "disabled", engine[n] = "on", networks>>
<1>2. x \in Names \X BOOLEAN \X BOOLEAN \X BOOLEAN
      /\ x[1] = n /\ x[2] = (mode[n] # "disabled") /\ x[3] = (engine[n] = "on") /\ x[4] = networks
  OBVIOUS
<1> QED BY <1>1, <1>2 DEF Shots

LEMMA IdleType == IdleCLI \in CLI
BY DEF IdleCLI, CLI

LEMMA TypeInit == Init => TypeInv
<1> SUFFICES ASSUME Init PROVE TypeInv
  OBVIOUS
<1>1. mode \in [Names -> Modes]
  BY WorldsAssumption DEF Init
<1>2. engine \in [Names -> {"off", "connecting", "on"}] /\ daemon \in [Names -> BOOLEAN]
  BY DEF Init
<1>3. \A p \in Procs : cli[p] = IdleCLI /\ cli[p].pc = "idle"
  BY DEF Init, IdleCLI
<1>4. cli \in [Procs -> CLI]
  BY IdleType DEF Init
<1> QED BY <1>1, <1>2, <1>3, <1>4 DEF Init, TypeInv

\* The record of a process after its step.
LEMMA Writes ==
    ASSUME TypeInv, NEW p \in Procs, NEW c, c \in CLI, cli' = [cli EXCEPT ![p] = c], world' = world,
           c.pc # "idle" => c.name \in Names,
           mode' \in [Names -> Modes], daemon' \in [Names -> BOOLEAN],
           engine' \in [Names -> {"off", "connecting", "on"}]
    PROVE  TypeInv' /\ cli'[p] = c /\ \A q \in Procs \ {p} : cli'[q] = cli[q]
<1>1. CLI' = CLI
  BY DEF CLI, Shots, Shot
<1>2. cli' \in [Procs -> CLI] /\ cli'[p] = c /\ \A q \in Procs \ {p} : cli'[q] = cli[q]
  BY DEF TypeInv
<1> QED BY <1>1, <1>2 DEF TypeInv

\* What each step makes of the record of its process.
LEMMA BeginIs ==
    ASSUME TypeInv, NEW p \in Procs, NEW c \in Jobs, NEW n \in Names, Begin(p, c, n)
    PROVE  /\ TypeInv' /\ cli'[p].pc = c /\ cli'[p].cmd = c /\ \A q \in Procs \ {p} : cli'[q] = cli[q]
<1> DEFINE d == [IdleCLI EXCEPT !.pc = c, !.cmd = c, !.name = n]
<1>1. c \in Commands
  BY ParamsAssumption
<1>2. d \in CLI /\ d.pc = c /\ d.cmd = c /\ d.name = n
  BY <1>1 DEF IdleCLI, CLI
<1>3. cli' = [cli EXCEPT ![p] = d] /\ UNCHANGED <<world, daemon, engine>>
  BY DEF Begin
<1>4. mode' \in [Names -> Modes]
  BY DEF Begin, TypeInv, Normalize, Modes
<1> HIDE DEF d
<1> QED BY <1>2, <1>3, <1>4, Writes DEF TypeInv

LEMMA EndIs ==
    ASSUME TypeInv, NEW p \in Procs, cli' = [cli EXCEPT ![p] = IdleCLI], world' = world, mode' = mode,
           daemon' \in [Names -> BOOLEAN], engine' \in [Names -> {"off", "connecting", "on"}]
    PROVE  TypeInv' /\ cli'[p].pc = "idle" /\ \A q \in Procs \ {p} : cli'[q] = cli[q]
<1>1. IdleCLI.pc = "idle"
  BY DEF IdleCLI
<1> QED BY <1>1, IdleType, Writes DEF TypeInv

LEMMA UpEngineIs ==
    ASSUME TypeInv, NEW p \in Procs, UpEngine(p)
    PROVE  /\ TypeInv' /\ cli[p].name \in Names
           /\ cli'[p] = [cli[p] EXCEPT !.pc = "snapshot", !.todo = Names]
           /\ cli'[p].pc = "snapshot" /\ cli'[p].todo = Names
           /\ cli'[p].cmd = cli[p].cmd /\ cli'[p].name = cli[p].name
           /\ \A q \in Procs \ {p} : cli'[q] = cli[q]
           /\ daemon' = [daemon EXCEPT ![cli[p].name] = TRUE]
           /\ \E e \in {"on", "connecting"} :
                 /\ engine' = [engine EXCEPT ![cli[p].name] = e]
                 /\ e = "connecting" => "slow" \in world.faults \/ engine[cli[p].name] = "connecting"
<1> DEFINE d == [cli[p] EXCEPT !.pc = "snapshot", !.todo = Names]
           n == cli[p].name
<1>1. cli[p] \in CLI /\ n \in Names
  BY DEF UpEngine, TypeInv
<1>2. /\ d \in CLI /\ d.pc = "snapshot" /\ d.todo = Names /\ d.cmd = cli[p].cmd /\ d.name = n
  BY <1>1 DEF CLI
<1>3. cli' = [cli EXCEPT ![p] = d] /\ UNCHANGED <<world, mode>>
  BY DEF UpEngine, TypeInv
<1>4. PICK e \in IF engine[n] # "off" THEN {engine[n]}
                 ELSE {"on"} \cup (IF "slow" \in world.faults THEN {"connecting"} ELSE {}) :
         engine' = [engine EXCEPT ![n] = e]
  BY DEF UpEngine
<1>5. engine[n] \in {"off", "connecting", "on"}
  BY <1>1 DEF TypeInv
<1>6. /\ e \in {"on", "connecting"}
      /\ e = "connecting" => "slow" \in world.faults \/ engine[n] = "connecting"
  BY <1>4, <1>5
<1>7. daemon' = [daemon EXCEPT ![n] = TRUE]
  BY DEF UpEngine
<1>8. engine' \in [Names -> {"off", "connecting", "on"}] /\ daemon' \in [Names -> BOOLEAN]
  BY <1>4, <1>6, <1>7 DEF TypeInv
<1> HIDE DEF d
<1>9. TypeInv' /\ cli'[p] = d /\ \A q \in Procs \ {p} : cli'[q] = cli[q]
  BY <1>1, <1>2, <1>3, <1>8, Writes DEF TypeInv
<1> QED BY <1>1, <1>2, <1>4, <1>6, <1>7, <1>9 DEF d

\* One answer more, or none for an instance that is skipped.
LEMMA SnapshotOneIs ==
    ASSUME TypeInv, NEW p \in Procs, SnapshotOne(p)
    PROVE  /\ TypeInv' /\ UNCHANGED <<world, mode, daemon, engine>>
           /\ cli'[p].pc = "snapshot" /\ cli'[p].cmd = cli[p].cmd /\ cli'[p].name = cli[p].name
           /\ cli[p].pc = "snapshot"
           /\ \A q \in Procs \ {p} : cli'[q] = cli[q]
           /\ \E n \in cli[p].todo, networks \in BOOLEAN :
                 /\ cli'[p].todo = cli[p].todo \ {n}
                 /\ \/ (~daemon[n] \/ "status" \in world.faults) /\ cli'[p].snaps = cli[p].snaps
                    \/ /\ cli'[p].snaps = cli[p].snaps \cup {Snapshot(n, networks)}
                       /\ ~networks => "networks" \in world.faults
<1>1. PICK n \in cli[p].todo :
         \/ /\ ~daemon[n] \/ "status" \in world.faults
            /\ cli' = [cli EXCEPT ![p].todo = @ \ {n}]
         \/ /\ daemon[n]
            /\ \E networks \in {TRUE} \cup (IF "networks" \in world.faults THEN {FALSE} ELSE {}) :
                  cli' = [cli EXCEPT ![p].todo = @ \ {n},
                                     ![p].snaps = @ \cup {Snapshot(n, networks)}]
  BY DEF SnapshotOne
<1>2. /\ cli[p] \in CLI /\ cli[p].todo \subseteq Names /\ cli[p].snaps \subseteq Shots
      /\ cli[p].pc = "snapshot" /\ cli[p].name \in Names /\ UNCHANGED <<world, mode, daemon, engine>>
  BY DEF SnapshotOne, TypeInv, CLI
<1>3. CASE /\ ~daemon[n] \/ "status" \in world.faults
           /\ cli' = [cli EXCEPT ![p].todo = @ \ {n}]
  <2> DEFINE d == [cli[p] EXCEPT !.todo = cli[p].todo \ {n}]
  <2>1. /\ d \in CLI /\ d.pc = "snapshot" /\ d.cmd = cli[p].cmd /\ d.name = cli[p].name
        /\ d.todo = cli[p].todo \ {n} /\ d.snaps = cli[p].snaps
    BY <1>2 DEF CLI
  <2>2. cli' = [cli EXCEPT ![p] = d]
    BY <1>3 DEF TypeInv
  <2> HIDE DEF d
  <2>3. TypeInv' /\ cli'[p] = d /\ \A q \in Procs \ {p} : cli'[q] = cli[q]
    BY <1>2, <2>1, <2>2, Writes DEF TypeInv
  <2> QED BY <1>2, <1>3, <2>1, <2>3
<1>4. ASSUME NEW networks \in {TRUE} \cup (IF "networks" \in world.faults THEN {FALSE} ELSE {}),
             cli' = [cli EXCEPT ![p].todo = @ \ {n}, ![p].snaps = @ \cup {Snapshot(n, networks)}]
      PROVE  /\ TypeInv' /\ cli'[p].pc = "snapshot" /\ cli'[p].cmd = cli[p].cmd
             /\ cli'[p].name = cli[p].name /\ \A q \in Procs \ {p} : cli'[q] = cli[q]
             /\ cli'[p].todo = cli[p].todo \ {n}
             /\ cli'[p].snaps = cli[p].snaps \cup {Snapshot(n, networks)}
             /\ networks \in BOOLEAN /\ (~networks => "networks" \in world.faults)
  <2> DEFINE t == cli[p].snaps \cup {Snapshot(n, networks)}
             d == [cli[p] EXCEPT !.todo = cli[p].todo \ {n}, !.snaps = t]
  <2>0. networks \in BOOLEAN /\ (~networks => "networks" \in world.faults)
    BY <1>4
  <2>1. t \subseteq Shots
    BY <1>2, <2>0, SnapshotIs
  <2>2. cli' = [cli EXCEPT ![p] = d]
    BY <1>4 DEF TypeInv
  <2> HIDE DEF t
  <2>3. /\ d \in CLI /\ d.pc = "snapshot" /\ d.cmd = cli[p].cmd /\ d.name = cli[p].name
        /\ d.todo = cli[p].todo \ {n} /\ d.snaps = t
    BY <1>2, <2>1 DEF CLI
  <2> HIDE DEF d
  <2>4. TypeInv' /\ cli'[p] = d /\ \A q \in Procs \ {p} : cli'[q] = cli[q]
    BY <1>2, <2>2, <2>3, Writes DEF TypeInv
  <2> QED BY <2>0, <2>3, <2>4 DEF t
<1> QED BY <1>1, <1>2, <1>3, <1>4

LEMMA TypeStep == TypeInv /\ [Next]_vars => TypeInv'
<1> SUFFICES ASSUME TypeInv, [Next]_vars PROVE TypeInv'
  OBVIOUS
<1>1. CASE UNCHANGED vars
  BY <1>1 DEF vars, TypeInv, CLI, Shots, Shot
<1>2. ASSUME NEW p \in Procs, NEW c \in Jobs, NEW n \in Names, Begin(p, c, n) PROVE TypeInv'
  BY <1>2, BeginIs
<1>3. ASSUME NEW p \in Procs, UpEngine(p) \/ SnapshotOne(p) PROVE TypeInv'
  BY <1>3, UpEngineIs, SnapshotOneIs
<1>4. ASSUME NEW p \in Procs, SkipPreflight(p) \/ Pass(p) \/ Refuse(p) \/ Down(p)
      PROVE  TypeInv'
  <2>1. /\ cli' = [cli EXCEPT ![p] = IdleCLI] /\ world' = world /\ mode' = mode
        /\ daemon' \in [Names -> BOOLEAN] /\ engine' \in [Names -> {"off", "connecting", "on"}]
    BY <1>4 DEF SkipPreflight, Pass, Refuse, Down, TypeInv
  <2> QED BY <2>1, EndIs
<1>5. ASSUME NEW n \in Names, Connects(n) PROVE TypeInv'
  BY <1>5 DEF Connects, TypeInv, CLI, Shots, Shot
<1> QED BY <1>1, <1>2, <1>3, <1>4, <1>5 DEF Next

\* The types of the variables; above all, what a snapshot holds are prefixes.
THEOREM PreflightTypes == Spec => []TypeOK
<1>1. Spec => []TypeInv
  BY TypeInit, TypeStep, PTL DEF Spec
<1>2. TypeInv => TypeOK
  <2> SUFFICES ASSUME TypeInv PROVE TypeOK
    OBVIOUS
  <2>1. ASSUME NEW p \in Procs, NEW s \in cli[p].snaps
        PROVE  s.net \cup {r.prefix : r \in s.routes} \subseteq Prefix
    <3>1. s \in Shots /\ world \in Worlds
      BY DEF TypeInv, CLI
    <3> QED BY <3>1, ShotType
  <2> QED BY <2>1 DEF TypeInv, TypeOK, CLI
<1> QED BY <1>1, <1>2, PTL

\* ops/preflight.go: "who actually wins for the narrower prefix".  Whatever answers a
\* command has collected, the address it asks the OS about is one that both meshes route.
THEOREM Contested == Spec => []ProbeIsContested
<1>1. Spec => []TypeInv
  BY TypeInit, TypeStep, PTL DEF Spec
<1>2. TypeInv => ProbeIsContested
  <2> SUFFICES ASSUME TypeInv, NEW p \in Procs, NEW s \in cli[p].snaps, NEW t \in cli[p].snaps,
                      NEW c \in RouteConflicts(s, t)
               PROVE  probe(c[1], c[2]) \in Addresses(c[1].prefix) \cap Addresses(c[2].prefix)
    BY DEF ProbeIsContested
  <2>1. s \in Shots /\ t \in Shots /\ world \in Worlds
    BY DEF TypeInv, CLI
  <2>2. c[1] \in s.routes /\ c[2] \in t.routes /\ Overlaps(c[1].prefix, c[2].prefix)
    BY DEF RouteConflicts
  <2> QED BY <2>1, <2>2, ShotType, ProbeInBoth
<1> QED BY <1>1, <1>2, PTL

-----------------------------------------------------------------------------
(* What the snapshots tell about the meshes.                               *)

\* Two meshes that may be up at the same time.
Apart(m, n) ==
    /\ MeshAddresses(m) \cap MeshAddresses(n) = {}
    /\ RoutedAddresses(m) \cap RoutedAddresses(n) = {}
    /\ Manages(m) /\ Manages(n) =>
          GroupDomains(world.mesh[m]) \cap GroupDomains(world.mesh[n]) \subseteq {Root}

Conflicting(s, t) == \/ IPRangeConflicts(s, t)
                     \/ RouteConflicts(s, t) # {}
                     \/ DNSConflicts(s, t)

LEMMA DomainsIs == ASSUME NEW st PROVE GroupDomains(st) = {canon(d) : d \in DNSDomains(st)}
BY DEF GroupDomains, DNSDomains

\* The route of a snapshot, and the addresses it routes.
LEMMA RouteAddresses ==
    ASSUME world \in Worlds, NEW n \in Names, NEW r \in world.mesh[n].routes
    PROVE  /\ r.prefix \in Prefix /\ Masked(r.prefix) \in Prefix
           /\ Addresses(Masked(r.prefix)) = Addresses(r.prefix)
BY MeshIs, MaskedType, MaskedAddresses

\* The checks find a conflict between full snapshots of two meshes that are not apart.
LEMMA NotApartSeen ==
    ASSUME TypeInv, NEW m \in Names, NEW n \in Names, ~Apart(m, n),
           NEW i \in BOOLEAN, NEW j \in BOOLEAN, Manages(m) => i, Manages(n) => j
    PROVE  Conflicting(Shot(m, i, TRUE, TRUE), Shot(n, j, TRUE, TRUE))
<1> DEFINE s == Shot(m, i, TRUE, TRUE)
           t == Shot(n, j, TRUE, TRUE)
<1>0. world \in Worlds
  BY DEF TypeInv
<1>1. /\ s.manages = i /\ s.domains = DNSDomains(world.mesh[m])
      /\ s.net = {ParseAddr(world.mesh[m].ip)}
      /\ s.routes = {[prefix |-> Masked(r.prefix), selected |-> r.selected] : r \in world.mesh[m].routes}
      /\ t.manages = j /\ t.domains = DNSDomains(world.mesh[n])
      /\ t.net = {ParseAddr(world.mesh[n].ip)}
      /\ t.routes = {[prefix |-> Masked(r.prefix), selected |-> r.selected] : r \in world.mesh[n].routes}
  BY DEF Shot
<1> HIDE DEF s, t
<1>2. CASE MeshAddresses(m) \cap MeshAddresses(n) # {}
  <2>1. Overlaps(ParseAddr(world.mesh[m].ip), ParseAddr(world.mesh[n].ip))
    BY <1>0, <1>2, MeshIs, CommonOverlaps DEF MeshAddresses
  <2> QED BY <1>1, <2>1 DEF Conflicting, IPRangeConflicts, s, t
<1>3. CASE RoutedAddresses(m) \cap RoutedAddresses(n) # {}
  <2>1. PICK a : a \in RoutedAddresses(m) \cap RoutedAddresses(n)
    BY <1>3
  <2>2. PICK r \in world.mesh[m].routes : r.selected /\ a \in Addresses(r.prefix)
    BY <2>1 DEF RoutedAddresses
  <2>3. PICK u \in world.mesh[n].routes : u.selected /\ a \in Addresses(u.prefix)
    BY <2>1 DEF RoutedAddresses
  <2> DEFINE rs == [prefix |-> Masked(r.prefix), selected |-> r.selected]
             us == [prefix |-> Masked(u.prefix), selected |-> u.selected]
  <2>4. Overlaps(Masked(r.prefix), Masked(u.prefix))
    BY <1>0, <2>2, <2>3, RouteAddresses, CommonOverlaps
  <2>5. rs \in s.routes /\ us \in t.routes
    BY <1>1
  <2>6. rs.selected /\ us.selected /\ Overlaps(rs.prefix, us.prefix)
    BY <2>2, <2>3, <2>4
  <2> HIDE DEF rs, us
  <2>7. <<rs, us>> \in RouteConflicts(s, t)
    BY <2>5, <2>6 DEF RouteConflicts
  <2> QED BY <2>7 DEF Conflicting, s, t
<1>4. CASE /\ Manages(m) /\ Manages(n)
           /\ ~(GroupDomains(world.mesh[m]) \cap GroupDomains(world.mesh[n]) \subseteq {Root})
  <2>1. PICK d : d \in GroupDomains(world.mesh[m]) /\ d \in GroupDomains(world.mesh[n]) /\ d # Root
    BY <1>4
  <2>2. d \in Serves(s) /\ d \in Serves(t)
    BY <1>1, <1>4, <2>1, DomainsIs DEF Serves
  <2> QED BY <2>2 DEF Conflicting, DNSConflicts, s, t
<1> QED BY <1>2, <1>3, <1>4 DEF Apart, s, t

\* And they find nothing else: an address in both, a domain in both, two claims of all
\* of DNS, or an instance they know too little of.
LEMMA SeenConflict ==
    ASSUME TypeInv, NEW s \in Shots, NEW t \in Shots, Conflicting(s, t)
    PROVE  \/ Conflict(t.name, s.name)
           \/ s.domains = {} \/ t.domains = {}
           \/ s.manages /\ ~Manages(s.name)
           \/ t.manages /\ ~Manages(t.name)
<1>1. PICK m \in Names, i, k, x \in BOOLEAN : s = Shot(m, i, k, x)
  BY ShotIs
<1>2. PICK n \in Names, j, l, y \in BOOLEAN : t = Shot(n, j, l, y)
  BY ShotIs
<1>0. world \in Worlds /\ s.name = m /\ t.name = n /\ s.manages = i /\ t.manages = j
  BY <1>1, <1>2 DEF TypeInv, Shot
<1>3. /\ s.domains = (IF k THEN DNSDomains(world.mesh[m]) ELSE {})
      /\ s.net = (IF k THEN {ParseAddr(world.mesh[m].ip)} ELSE {})
      /\ \A r \in s.routes : \E v \in world.mesh[m].routes :
            r = [prefix |-> Masked(v.prefix), selected |-> v.selected]
  BY <1>1 DEF Shot
<1>4. /\ t.domains = (IF l THEN DNSDomains(world.mesh[n]) ELSE {})
      /\ t.net = (IF l THEN {ParseAddr(world.mesh[n].ip)} ELSE {})
      /\ \A r \in t.routes : \E v \in world.mesh[n].routes :
            r = [prefix |-> Masked(v.prefix), selected |-> v.selected]
  BY <1>2 DEF Shot
<1>5. CASE IPRangeConflicts(s, t)
  <2>1. Overlaps(ParseAddr(world.mesh[m].ip), ParseAddr(world.mesh[n].ip))
    BY <1>3, <1>4, <1>5 DEF IPRangeConflicts
  <2>2. MeshAddresses(n) \cap MeshAddresses(m) # {}
    BY <1>0, <2>1, MeshIs, OverlapsCommon DEF MeshAddresses
  <2> QED BY <1>0, <2>2 DEF Conflict
<1>6. CASE RouteConflicts(s, t) # {}
  <2>1. PICK r \in s.routes, u \in t.routes : r.selected /\ u.selected /\ Overlaps(r.prefix, u.prefix)
    BY <1>6 DEF RouteConflicts
  <2>2. PICK v \in world.mesh[m].routes : r = [prefix |-> Masked(v.prefix), selected |-> v.selected]
    BY <1>3
  <2>3. PICK w \in world.mesh[n].routes : u = [prefix |-> Masked(w.prefix), selected |-> w.selected]
    BY <1>4
  <2>4. PICK a : a \in Addresses(v.prefix) /\ a \in Addresses(w.prefix)
    BY <1>0, <2>1, <2>2, <2>3, RouteAddresses, OverlapsCommon
  <2>5. a \in RoutedAddresses(m) /\ a \in RoutedAddresses(n)
    BY <2>1, <2>2, <2>3, <2>4 DEF RoutedAddresses
  <2> QED BY <1>0, <2>5 DEF Conflict
<1>7. CASE DNSConflicts(s, t)
  <2> SUFFICES ASSUME s.domains # {}, t.domains # {}, i => Manages(m), j => Manages(n)
               PROVE  Conflict(n, m)
    BY <1>0
  <2>1. /\ s.domains = DNSDomains(world.mesh[m]) /\ t.domains = DNSDomains(world.mesh[n])
    BY <1>3, <1>4
  <2>2. i /\ j
    BY <1>0, <1>7 DEF DNSConflicts, primary, Serves
  <2>3. CASE primary(s) /\ primary(t)
    <3>1. PrimaryClaim(world.mesh[m]) /\ PrimaryClaim(world.mesh[n])
      BY <2>1, <2>3 DEF primary, PrimaryClaim, DNSDomains
    <3> QED BY <2>2, <3>1 DEF Conflict
  <2>4. CASE Serves(s) \cap Serves(t) # {}
    <3>1. PICK d : d \in Serves(s) /\ d \in Serves(t)
      BY <2>4
    <3>2. d \in GroupDomains(world.mesh[m]) /\ d \in GroupDomains(world.mesh[n]) /\ d # Root
      BY <1>0, <2>1, <2>2, <3>1, DomainsIs DEF Serves
    <3> QED BY <2>2, <3>2 DEF Conflict
  <2> QED BY <1>7, <2>3, <2>4 DEF DNSConflicts
<1> QED BY <1>5, <1>6, <1>7 DEF Conflicting

\* docs/dns.md: "Safe: each mesh handles only its own DNS domains (split DNS), disjoint
\* domain sets".  A strict up is refused only for a mesh that does conflict, or for an
\* instance without domains or with an old file, whatever fails and whoever else runs.
THEOREM RefusesForCause == Spec => RefusalIsJustified
<1>1. Spec => []TypeInv
  BY TypeInit, TypeStep, PTL DEF Spec
<1> DEFINE A == \A p \in Procs : Refuse(p) =>
                   \/ \E m \in Names \ {cli[p].name} : Conflict(m, cli[p].name)
                   \/ \E s \in cli[p].snaps : s.domains = {} \/ (s.manages /\ ~Manages(s.name))
<1>2. TypeInv => A
  <2> SUFFICES ASSUME TypeInv, NEW p \in Procs, Refuse(p)
               PROVE  \/ \E m \in Names \ {cli[p].name} : Conflict(m, cli[p].name)
                      \/ \E s \in cli[p].snaps : s.domains = {} \/ (s.manages /\ ~Manages(s.name))
    OBVIOUS
  <2>1. PICK m \in Names \ {cli[p].name}, s \in cli[p].snaps, t \in cli[p].snaps :
           s.name = cli[p].name /\ t.name = m /\ Conflicting(s, t)
    BY DEF Refuse, conflictsInvolving, Conflicting
  <2>2. s \in Shots /\ t \in Shots
    BY DEF TypeInv, CLI
  <2> QED BY <2>1, <2>2, SeenConflict
<1>3. TypeInv /\ [Next]_vars => [A]_vars
  BY <1>2
<1> HIDE DEF A
<1>4. Spec => [][A]_vars
  BY <1>1, <1>3, PTL DEF Spec
<1> QED BY <1>4 DEF A, RefusalIsJustified

-----------------------------------------------------------------------------
(* Strict ups keep the meshes apart.                                       *)

\* Nobody runs `up` without --strict: a plain up warns and leaves the engine on.
Strict == "up" \notin Jobs

\* The command of p has still to look at c, or has seen all of it.
Awaits(p, c) ==
    \/ c \in cli[p].todo
    \/ \E i \in BOOLEAN : Shot(c, i, TRUE, TRUE) \in cli[p].snaps /\ (Manages(c) => i)

\* The strict up of a by p will compare a with b.
Checks(p, a, b) == /\ cli[p].pc = "snapshot" /\ cli[p].cmd = "strict" /\ cli[p].name = a
                   /\ Awaits(p, a) /\ Awaits(p, b)

\* Every up that runs is a strict one.
CmdInv == \A p \in Procs : /\ cli[p].pc # "up"
                           /\ cli[p].pc \in {"strict", "snapshot"} => cli[p].cmd = "strict"

\* Without faults an engine that is up is connected, and its daemon answers.
EngineInv == \A n \in Names : engine[n] # "connecting" /\ (IsUp(n) => daemon[n])

\* Two meshes that are up and not apart: some strict up of one of them is still to find out.
ApartInv == \A m, n \in Names :
    m # n /\ IsUp(m) /\ IsUp(n) /\ ~Apart(m, n) => \E p \in Procs : Checks(p, m, n) \/ Checks(p, n, m)

StrictInv == TypeInv /\ CmdInv /\ (world.faults = {} => EngineInv /\ ApartInv)

\* Migrating a file does not change what the instance manages.
LEMMA ManagesSame ==
    ASSUME TypeInv, [Next]_vars
    PROVE  world' = world /\ \A n \in Names : Manages(n)' <=> Manages(n)
<1>1. CASE UNCHANGED mode /\ world' = world
  BY <1>1 DEF Manages
<1>2. ASSUME NEW p \in Procs, NEW c \in Jobs, NEW n \in Names, Begin(p, c, n)
      PROVE  world' = world /\ \A k \in Names : Manages(k)' <=> Manages(k)
  BY <1>2 DEF Begin, Manages, Normalize, TypeInv
<1>3. ASSUME NEW p \in Procs,
             \/ UpEngine(p) \/ SkipPreflight(p) \/ SnapshotOne(p)
             \/ Pass(p) \/ Refuse(p) \/ Down(p)
      PROVE  UNCHANGED mode /\ world' = world
  BY <1>3 DEF UpEngine, SkipPreflight, SnapshotOne, Pass, Refuse, Down
<1>4. ASSUME NEW n \in Names, Connects(n) PROVE UNCHANGED mode /\ world' = world
  BY <1>4 DEF Connects
<1>5. CASE UNCHANGED vars
  BY <1>5, <1>1 DEF vars
<1> QED BY <1>1, <1>2, <1>3, <1>4, <1>5 DEF Next

LEMMA ApartSame ==
    ASSUME world' = world, \A k \in Names : Manages(k)' <=> Manages(k), NEW m \in Names, NEW n \in Names
    PROVE  Apart(m, n)' <=> Apart(m, n)
BY DEF Apart, MeshAddresses, RoutedAddresses

LEMMA ApartSymmetric ==
    ASSUME NEW m \in Names, NEW n \in Names
    PROVE  Apart(m, n) <=> Apart(n, m)
BY DEF Apart

\* What a command has seen of c, or will see, it keeps.
LEMMA AwaitsKept ==
    ASSUME world' = world, \A k \in Names : Manages(k)' <=> Manages(k),
           NEW p \in Procs, NEW c \in Names, Awaits(p, c),
           c \in cli[p].todo => c \in cli'[p].todo, cli[p].snaps \subseteq cli'[p].snaps
    PROVE  Awaits(p, c)'
<1>1. ASSUME NEW i \in BOOLEAN PROVE Shot(c, i, TRUE, TRUE)' = Shot(c, i, TRUE, TRUE)
  BY DEF Shot
<1> QED BY <1>1 DEF Awaits

LEMMA ChecksKept ==
    ASSUME world' = world, \A k \in Names : Manages(k)' <=> Manages(k),
           NEW p \in Procs, NEW a \in Names, NEW b \in Names, Checks(p, a, b), cli'[p] = cli[p]
    PROVE  Checks(p, a, b)'
BY AwaitsKept DEF Checks

\* A command that checks two meshes which are not apart, and has looked at all
\* instances, has found the conflict.
LEMMA ChecksFinds ==
    ASSUME TypeInv, NEW p \in Procs, NEW a \in Names, NEW b \in Names, a # b,
           Checks(p, a, b), ~Apart(a, b), cli[p].todo = {}
    PROVE  conflictsInvolving(cli[p].name, cli[p].snaps) # {}
<1>1. PICK i \in BOOLEAN : Shot(a, i, TRUE, TRUE) \in cli[p].snaps /\ (Manages(a) => i)
  BY DEF Checks, Awaits
<1>2. PICK j \in BOOLEAN : Shot(b, j, TRUE, TRUE) \in cli[p].snaps /\ (Manages(b) => j)
  BY DEF Checks, Awaits
<1> DEFINE s == Shot(a, i, TRUE, TRUE)
           t == Shot(b, j, TRUE, TRUE)
<1>3. Conflicting(s, t)
  BY <1>1, <1>2, NotApartSeen
<1>4. s.name = a /\ t.name = b
  BY DEF Shot
<1> HIDE DEF s, t
<1>5. cli[p].name = a /\ s \in cli[p].snaps /\ t \in cli[p].snaps
  BY <1>1, <1>2 DEF Checks, s, t
<1> QED BY <1>3, <1>4, <1>5 DEF conflictsInvolving, Conflicting

LEMMA StrictInit == Init /\ StrictKeepsApart => StrictInv
<1> SUFFICES ASSUME Init, StrictKeepsApart PROVE StrictInv
  OBVIOUS
<1>1. TypeInv
  BY TypeInit
<1>2. \A p \in Procs : cli[p].pc = "idle"
  BY DEF Init, IdleCLI
<1>3. EngineInv
  BY DEF Init, EngineInv, IsUp
<1>4. world.faults = {} => ApartInv
  BY <1>2 DEF StrictKeepsApart, Quiescent, ApartInv, Apart
<1> QED BY <1>1, <1>2, <1>3, <1>4 DEF StrictInv, CmdInv

LEMMA CmdStep == Strict /\ StrictInv /\ [Next]_vars => CmdInv'
<1> SUFFICES ASSUME Strict, StrictInv, [Next]_vars PROVE CmdInv'
  OBVIOUS
<1>0. TypeInv /\ CmdInv
  BY DEF StrictInv
<1>1. CASE UNCHANGED cli
  BY <1>0, <1>1 DEF CmdInv
<1>2. ASSUME NEW p \in Procs, NEW c \in Jobs, NEW n \in Names, Begin(p, c, n) PROVE CmdInv'
  <2>1. c # "up" /\ c # "snapshot"
    BY ParamsAssumption DEF Strict, Commands
  <2>2. cli'[p].pc = c /\ cli'[p].cmd = c /\ \A q \in Procs \ {p} : cli'[q] = cli[q]
    BY <1>0, <1>2, BeginIs
  <2> QED BY <1>0, <2>1, <2>2 DEF CmdInv
<1>3. ASSUME NEW p \in Procs, UpEngine(p) PROVE CmdInv'
  <2>1. cli[p].cmd = "strict"
    BY <1>0, <1>3 DEF UpEngine, CmdInv
  <2>2. /\ cli'[p].pc = "snapshot" /\ cli'[p].cmd = cli[p].cmd
        /\ \A q \in Procs \ {p} : cli'[q] = cli[q]
    BY <1>0, <1>3, UpEngineIs
  <2> QED BY <1>0, <2>1, <2>2 DEF CmdInv
<1>4. ASSUME NEW p \in Procs, SnapshotOne(p) PROVE CmdInv'
  BY <1>0, <1>4, SnapshotOneIs DEF CmdInv
<1>5. ASSUME NEW p \in Procs, SkipPreflight(p) \/ Pass(p) \/ Refuse(p) \/ Down(p)
      PROVE  CmdInv'
  <2>1. /\ cli' = [cli EXCEPT ![p] = IdleCLI] /\ world' = world /\ mode' = mode
        /\ daemon' \in [Names -> BOOLEAN] /\ engine' \in [Names -> {"off", "connecting", "on"}]
    BY <1>0, <1>5 DEF SkipPreflight, Pass, Refuse, Down, TypeInv
  <2>2. cli'[p].pc = "idle" /\ \A q \in Procs \ {p} : cli'[q] = cli[q]
    BY <1>0, <2>1, EndIs
  <2> QED BY <1>0, <2>2 DEF CmdInv
<1>6. ASSUME NEW n \in Names, Connects(n) PROVE UNCHANGED cli
  BY <1>6 DEF Connects
<1>7. CASE UNCHANGED vars
  BY <1>1, <1>7 DEF vars
<1> QED BY <1>1, <1>2, <1>3, <1>4, <1>5, <1>6, <1>7 DEF Next

LEMMA EngineStep ==
    ASSUME TypeInv, EngineInv, [Next]_vars, world.faults = {}
    PROVE  EngineInv'
<1>1. CASE UNCHANGED <<daemon, engine>>
  BY <1>1 DEF EngineInv, IsUp
<1>2. ASSUME NEW p \in Procs, UpEngine(p) PROVE EngineInv'
  <2>1. PICK e \in {"on", "connecting"} :
           /\ engine' = [engine EXCEPT ![cli[p].name] = e]
           /\ e = "connecting" => "slow" \in world.faults \/ engine[cli[p].name] = "connecting"
    BY <1>2, UpEngineIs
  <2>2. daemon' = [daemon EXCEPT ![cli[p].name] = TRUE] /\ cli[p].name \in Names
    BY <1>2, UpEngineIs
  <2>3. e = "on"
    BY <2>1, <2>2 DEF EngineInv
  <2> QED BY <2>1, <2>2, <2>3 DEF EngineInv, IsUp, TypeInv
<1>3. ASSUME NEW p \in Procs, Refuse(p) \/ Down(p) PROVE EngineInv'
  <2>1. cli[p].name \in Names
    BY <1>3 DEF Refuse, Down, TypeInv
  <2> QED BY <1>3, <2>1 DEF Refuse, Down, EngineInv, IsUp, TypeInv
<1>4. ASSUME NEW n \in Names, Connects(n) PROVE FALSE
  BY <1>4 DEF Connects, EngineInv
<1>5. ASSUME NEW p \in Procs, SkipPreflight(p) \/ SnapshotOne(p) \/ Pass(p)
      PROVE  UNCHANGED <<daemon, engine>>
  BY <1>5 DEF SkipPreflight, SnapshotOne, Pass
<1>6. ASSUME NEW p \in Procs, NEW c \in Jobs, NEW n \in Names, Begin(p, c, n)
      PROVE  UNCHANGED <<daemon, engine>>
  BY <1>6 DEF Begin
<1>7. CASE UNCHANGED vars
  BY <1>1, <1>7 DEF vars
<1> QED BY <1>1, <1>2, <1>3, <1>4, <1>5, <1>6, <1>7 DEF Next

\* Each action keeps a command that checks m and n, or makes one, or one of them is not up
\* any more.
LEMMA ApartStep ==
    ASSUME TypeInv, CmdInv, EngineInv, ApartInv, [Next]_vars, world.faults = {}
    PROVE  ApartInv'
<1>0. world' = world /\ \A k \in Names : Manages(k)' <=> Manages(k)
  BY ManagesSame
<1> SUFFICES ASSUME NEW m \in Names, NEW n \in Names, m # n, IsUp(m)', IsUp(n)', ~Apart(m, n)'
             PROVE  \E p \in Procs : Checks(p, m, n)' \/ Checks(p, n, m)'
  BY DEF ApartInv
<1>1. ~Apart(m, n) /\ ~Apart(n, m)
  BY <1>0, ApartSame, ApartSymmetric
\* A command p that checked them before is somewhere in its loop.
<1>2. ASSUME IsUp(m), IsUp(n)
      PROVE  \E p \in Procs, a, b \in {m, n} : a # b /\ Checks(p, a, b)
  BY <1>1, <1>2 DEF ApartInv
<1>3. ASSUME NEW q \in Procs, IsUp(m), IsUp(n), \A r \in Procs \ {q} : cli'[r] = cli[r],
             \A a, b \in {m, n} : a # b => ~Checks(q, a, b)
      PROVE  \E p \in Procs : Checks(p, m, n)' \/ Checks(p, n, m)'
  <2>1. PICK p \in Procs, a \in {m, n}, b \in {m, n} : a # b /\ Checks(p, a, b)
    BY <1>2, <1>3
  <2>2. p # q /\ cli'[p] = cli[p] /\ a \in Names /\ b \in Names
    BY <1>3, <2>1
  <2>3. Checks(p, a, b)'
    BY <1>0, <2>1, <2>2, ChecksKept
  <2> QED BY <2>1, <2>3
<1>4. CASE UNCHANGED <<cli, engine>>
  <2>1. IsUp(m) /\ IsUp(n)
    BY <1>4 DEF IsUp
  <2>2. PICK p \in Procs, a \in {m, n}, b \in {m, n} : a # b /\ Checks(p, a, b)
    BY <1>2, <2>1
  <2>3. Checks(p, a, b)'
    BY <1>0, <1>4, <2>2, ChecksKept
  <2> QED BY <2>2, <2>3
<1>5. ASSUME NEW p \in Procs, NEW c \in Jobs, NEW k \in Names, Begin(p, c, k)
      PROVE  \E q \in Procs : Checks(q, m, n)' \/ Checks(q, n, m)'
  <2>1. engine' = engine /\ cli[p].pc = "idle"
    BY <1>5 DEF Begin
  <2>2. \A r \in Procs \ {p} : cli'[r] = cli[r]
    BY <1>5, BeginIs
  <2>3. IsUp(m) /\ IsUp(n) /\ \A a, b \in {m, n} : ~Checks(p, a, b)
    BY <2>1 DEF IsUp, Checks
  <2> QED BY <1>3, <2>2, <2>3
\* The engine of a just came up, or p is about to look at it again.
<1>6. ASSUME NEW p \in Procs, UpEngine(p)
      PROVE  \E q \in Procs : Checks(q, m, n)' \/ Checks(q, n, m)'
  <2>1. /\ cli'[p].pc = "snapshot" /\ cli'[p].todo = Names /\ cli'[p].cmd = cli[p].cmd
        /\ cli'[p].name = cli[p].name /\ \A q \in Procs \ {p} : cli'[q] = cli[q]
        /\ cli[p].name \in Names
    BY <1>6, UpEngineIs
  <2>2. cli[p].cmd = "strict" /\ cli[p].pc # "snapshot"
    BY <1>6 DEF UpEngine, CmdInv
  <2>3. Awaits(p, m)' /\ Awaits(p, n)'
    BY <2>1 DEF Awaits
  <2>4. CASE cli[p].name \in {m, n}
    BY <2>1, <2>2, <2>3, <2>4 DEF Checks
  <2>5. CASE cli[p].name \notin {m, n}
    <3>0. \E e : engine' = [engine EXCEPT ![cli[p].name] = e]
      BY <1>6, UpEngineIs
    <3>1. engine'[m] = engine[m] /\ engine'[n] = engine[n]
      BY <2>5, <3>0 DEF TypeInv
    <3>2. IsUp(m) /\ IsUp(n) /\ \A a, b \in {m, n} : ~Checks(p, a, b)
      BY <2>2, <3>1 DEF IsUp, Checks
    <3> QED BY <1>3, <2>1, <3>2
  <2> QED BY <2>4, <2>5
\* One answer of a daemon that runs, its engine connected, is all there is to see.
<1>7. ASSUME NEW q \in Procs, SnapshotOne(q)
      PROVE  \E p \in Procs : Checks(p, m, n)' \/ Checks(p, n, m)'
  <2>1. /\ UNCHANGED <<world, mode, daemon, engine>>
        /\ cli'[q].pc = "snapshot" /\ cli'[q].cmd = cli[q].cmd /\ cli'[q].name = cli[q].name
        /\ \A r \in Procs \ {q} : cli'[r] = cli[r]
    BY <1>7, SnapshotOneIs
  <2>2. PICK k \in cli[q].todo, networks \in BOOLEAN :
           /\ cli'[q].todo = cli[q].todo \ {k}
           /\ \/ (~daemon[k] \/ "status" \in world.faults) /\ cli'[q].snaps = cli[q].snaps
              \/ /\ cli'[q].snaps = cli[q].snaps \cup {Snapshot(k, networks)}
                 /\ ~networks => "networks" \in world.faults
    BY <1>7, SnapshotOneIs
  <2>3. IsUp(m) /\ IsUp(n)
    BY <2>1 DEF IsUp
  <2>4. ASSUME NEW c \in {m, n}, Awaits(q, c) PROVE Awaits(q, c)'
    <3>1. c \in Names /\ cli[q].snaps \subseteq cli'[q].snaps
      BY <2>2
    <3>2. CASE c # k
      <4>1. c \in cli[q].todo => c \in cli'[q].todo
        BY <2>2, <3>2
      <4> QED BY <1>0, <2>4, <3>1, <4>1, AwaitsKept
    <3>3. CASE c = k
      <4>1. engine[c] = "on" /\ daemon[c]
        BY <2>3, <3>1 DEF EngineInv, IsUp, TypeInv
      <4>2. networks = TRUE /\ cli'[q].snaps = cli[q].snaps \cup {Snapshot(c, networks)}
        BY <2>2, <3>3, <4>1
      <4> DEFINE i == mode[c] # "disabled"
      <4>3. Snapshot(c, networks) = Shot(c, i, TRUE, TRUE)
        BY <3>1, <4>1, <4>2, SnapshotIs
      <4>4. Manages(c)' => i
        BY <1>0, <3>1 DEF Manages, Normalize
      <4>5. Shot(c, i, TRUE, TRUE)' = Shot(c, i, TRUE, TRUE)
        BY <2>1 DEF Shot
      <4>6. i \in BOOLEAN /\ i' = i
        BY <2>1
      <4>7. \E j \in BOOLEAN : Shot(c, j, TRUE, TRUE)' \in cli'[q].snaps /\ (Manages(c)' => j)
        <5>1. Shot(c, i, TRUE, TRUE) \in cli'[q].snaps
          BY <4>2, <4>3
        <5>2. ASSUME NEW j \in BOOLEAN PROVE Shot(c, j, TRUE, TRUE)' = Shot(c, j, TRUE, TRUE)
          BY <2>1 DEF Shot
        <5> HIDE DEF i
        <5> QED BY <4>4, <4>6, <5>1, <5>2
      <4> QED BY <4>7 DEF Awaits
    <3> QED BY <3>2, <3>3
  <2>5. PICK p \in Procs, a \in {m, n}, b \in {m, n} : a # b /\ Checks(p, a, b)
    BY <1>2, <2>3
  <2>6. CASE p = q
    <3>1. Checks(q, a, b)'
      BY <2>1, <2>4, <2>5, <2>6 DEF Checks
    <3> QED BY <2>5, <3>1
  <2>7. CASE p # q
    <3>1. Checks(p, a, b)'
      BY <1>0, <2>1, <2>5, <2>7, ChecksKept
    <3> QED BY <2>5, <3>1
  <2> QED BY <2>6, <2>7
\* The command returns: it found nothing, or its engine is off, so it did not check m and n.
<1>8. ASSUME NEW p \in Procs, Pass(p) \/ Refuse(p) \/ Down(p)
      PROVE  \E q \in Procs : Checks(q, m, n)' \/ Checks(q, n, m)'
  <2>1. /\ cli' = [cli EXCEPT ![p] = IdleCLI] /\ cli[p].name \in Names
        /\ engine' = engine \/ engine' = [engine EXCEPT ![cli[p].name] = "off"]
        /\ ~Pass(p) => engine' = [engine EXCEPT ![cli[p].name] = "off"]
    BY <1>8 DEF Pass, Refuse, Down, TypeInv
  <2>2. \A r \in Procs \ {p} : cli'[r] = cli[r]
    BY <2>1 DEF TypeInv
  <2>3. IsUp(m) /\ IsUp(n)
    BY <2>1 DEF IsUp, TypeInv
  <2>4. ASSUME NEW a \in {m, n}, NEW b \in {m, n}, a # b, Checks(p, a, b) PROVE FALSE
    <3>1. a \in Names /\ b \in Names /\ ~Apart(a, b) /\ cli[p].name = a /\ cli[p].cmd = "strict"
      BY <1>1, <2>4 DEF Checks
    <3>2. CASE Pass(p)
      <4>1. cli[p].todo = {} /\ conflictsInvolving(cli[p].name, cli[p].snaps) = {}
        BY <3>1, <3>2 DEF Pass
      <4> QED BY <2>4, <3>1, <4>1, ChecksFinds
    <3>3. CASE ~Pass(p)
      <4>1. engine'[a] = "off"
        BY <2>1, <3>1, <3>3 DEF TypeInv
      <4> QED BY <4>1 DEF IsUp
    <3> QED BY <3>2, <3>3
  <2> QED BY <1>3, <2>2, <2>3, <2>4
<1>9. ASSUME NEW k \in Names, Connects(k) PROVE FALSE
  BY <1>9 DEF Connects, EngineInv
<1>10. CASE UNCHANGED vars
  BY <1>4, <1>10 DEF vars
<1>11. ASSUME NEW p \in Procs, SkipPreflight(p) PROVE FALSE
  BY <1>11 DEF SkipPreflight
<1> QED BY <1>5, <1>6, <1>7, <1>8, <1>9, <1>10, <1>11 DEF Next

LEMMA StrictStep == Strict /\ StrictInv /\ [Next]_vars => StrictInv'
<1> SUFFICES ASSUME Strict, StrictInv, [Next]_vars PROVE StrictInv'
  OBVIOUS
<1>1. TypeInv /\ CmdInv /\ TypeInv' /\ CmdInv' /\ world' = world
  BY TypeStep, CmdStep, ManagesSame DEF StrictInv
<1>2. ASSUME world.faults = {} PROVE EngineInv' /\ ApartInv'
  BY <1>1, <1>2, EngineStep, ApartStep DEF StrictInv
<1> QED BY <1>1, <1>2 DEF StrictInv

\* ROADMAP.md: bringing up a second mesh that overlaps is refused by --strict.  If the
\* instances that were up before the upgrade are apart and nobody runs a plain up, then
\* whatever number of strict ups and downs run at once, and in whatever order each of them
\* looks at the others, the meshes that are up once they have returned are apart.
THEOREM StrictApart == Strict => (StrictKeepsApart /\ Spec => []StrictKeepsApart)
<1> SUFFICES ASSUME Strict PROVE StrictKeepsApart /\ Spec => []StrictKeepsApart
  OBVIOUS
<1>1. StrictInv /\ [Next]_vars => StrictInv'
  BY StrictStep
<1>2. StrictInv => StrictKeepsApart
  <2> SUFFICES ASSUME StrictInv, Quiescent, NEW m \in Names, NEW n \in Names, m # n, IsUp(m), IsUp(n)
               PROVE  Apart(m, n)
    BY DEF StrictKeepsApart, Apart
  <2>1. \A p \in Procs : ~Checks(p, m, n) /\ ~Checks(p, n, m)
    BY DEF Quiescent, Checks
  <2> QED BY <2>1 DEF StrictInv, ApartInv, Quiescent
<1> QED BY <1>1, <1>2, StrictInit, PTL DEF Spec

-----------------------------------------------------------------------------
(* Batches of domains.                                                     *)

\* SetToSeq lists every element of a finite set once.
LEMMA SeqOfSet ==
    ASSUME NEW S, IsFiniteSet(S)
    PROVE  /\ SetToSeq(S) \in Seq(S) /\ Range(SetToSeq(S)) = S
           /\ \A i, j \in DOMAIN SetToSeq(S) : SetToSeq(S)[i] = SetToSeq(S)[j] => i = j
<1> DEFINE c == Cardinality(S)
           f == SetToSeq(S)
<1>1. c \in Nat /\ ExistsBijection(1..c, S)
  BY FS_CardinalityType
<1>2. PICK g : g \in Bijection(1..c, S)
  BY <1>1 DEF ExistsBijection
<1>3. g \in [1..c -> S] /\ IsInjective(g)
  BY <1>2 DEF Bijection, Injection
<1>4. f \in [1..c -> S] /\ IsInjective(f)
  BY <1>3 DEF SetToSeq
<1> HIDE DEF f
<1>5. f \in Injection(1..c, S)
  BY <1>4 DEF Injection
<1>6. IsFiniteSet(1..c) /\ Cardinality(1..c) = c
  BY <1>1, FS_Interval
<1>7. f \in Surjection(1..c, S)
  BY <1>5, <1>6, FS_Injection
<1>8. \A x \in S : \E i \in 1..c : f[i] = x
  BY <1>7 DEF Surjection
<1>9. Range(f) = S
  BY <1>4, <1>8 DEF Range
<1>10. f \in Seq(S)
  BY <1>1, <1>4
<1> QED BY <1>4, <1>9, <1>10 DEF f, IsInjective

\* The loop of batchDomains has a result: the state after k domains is a function of k.
Start == [out |-> <<>>, cur |-> <<>>, bytes |-> 0]
Loop(f, ds, n) == f = [k \in 0..n |-> IF k = 0 THEN Start ELSE addDomain(f[k - 1], ds[k])]

LEMMA LoopIs ==
    ASSUME NEW f, NEW ds, NEW n \in Nat, Loop(f, ds, n)
    PROVE  /\ f[0] = Start
           /\ \A k \in 0..n : k # n => f[k + 1] = addDomain(f[k], ds[k + 1])
<1>1. \A k \in 0..n : f[k] = IF k = 0 THEN Start ELSE addDomain(f[k - 1], ds[k])
  BY DEF Loop
<1>2. ASSUME NEW k \in 0..n, k # n PROVE f[k + 1] = addDomain(f[k], ds[k + 1])
  <2>1. k + 1 \in 0..n /\ k + 1 # 0 /\ (k + 1) - 1 = k
    BY <1>2
  <2> QED BY <1>1, <2>1
<1> QED BY <1>1, <1>2

LEMMA LoopExists ==
    ASSUME NEW ds, NEW n \in Nat
    PROVE  \E f : Loop(f, ds, n)
<1> DEFINE S == {m \in Nat : \E f : Loop(f, ds, m)}
<1>1. 0 \in S
  <2> DEFINE f == [k \in 0..0 |-> Start]
  <2>1. f = [k \in 0..0 |-> IF k = 0 THEN Start ELSE addDomain(f[k - 1], ds[k])]
    OBVIOUS
  <2> QED BY <2>1 DEF Loop
<1>2. ASSUME NEW m \in S PROVE m + 1 \in S
  <2>1. PICK f : Loop(f, ds, m)
    OBVIOUS
  <2> DEFINE g == [k \in 0..(m + 1) |-> IF k = m + 1 THEN addDomain(f[m], ds[m + 1]) ELSE f[k]]
  <2>2. \A k \in 0..m : f[k] = IF k = 0 THEN Start ELSE addDomain(f[k - 1], ds[k])
    BY <2>1 DEF Loop
  <2>3. ASSUME NEW k \in 0..(m + 1)
        PROVE  g[k] = IF k = 0 THEN Start ELSE addDomain(g[k - 1], ds[k])
    <3>1. CASE k = m + 1
      <4>1. g[k - 1] = f[m] /\ k # 0
        BY <3>1
      <4> QED BY <3>1, <4>1
    <3>2. CASE k # m + 1
      <4>1. k \in 0..m /\ g[k] = f[k]
        BY <3>2
      <4>2. k # 0 => k - 1 \in 0..(m + 1) /\ k - 1 # m + 1
        BY <3>2
      <4>3. k # 0 => g[k - 1] = f[k - 1]
        BY <4>2
      <4> QED BY <2>2, <4>1, <4>3
    <3> QED BY <3>1, <3>2
  <2>4. Loop(g, ds, m + 1)
    <3> DEFINE h == [k \in 0..(m + 1) |-> IF k = 0 THEN Start ELSE addDomain(g[k - 1], ds[k])]
    <3>1. DOMAIN g = 0..(m + 1) /\ DOMAIN h = 0..(m + 1) /\ g = [k \in 0..(m + 1) |-> g[k]]
      OBVIOUS
    <3>2. \A k \in 0..(m + 1) : g[k] = h[k]
      BY <2>3
    <3>3. h = [k \in 0..(m + 1) |-> h[k]]
      OBVIOUS
    <3> HIDE DEF g, h
    <3>4. g = h
      BY <3>1, <3>2, <3>3
    <3> QED BY <3>4 DEF Loop, h
  <2> QED BY <2>4
<1>3. S = Nat
  <2> HIDE DEF S
  <2>1. S \in SUBSET Nat
    BY DEF S
  <2> QED BY <1>1, <1>2, <2>1, Induction
<1> QED BY <1>3

LEMMA BatchLoop ==
    ASSUME NEW ds, Len(ds) \in Nat
    PROVE  \E f : /\ Loop(f, ds, Len(ds))
                  /\ batchDomains(ds) = IF f[Len(ds)].cur = <<>> THEN f[Len(ds)].out
                                        ELSE Append(f[Len(ds)].out, f[Len(ds)].cur)
<1> DEFINE f == CHOOSE batch :
                   batch = [k \in 0..Len(ds) |->
                              IF k = 0 THEN [out |-> <<>>, cur |-> <<>>, bytes |-> 0]
                                       ELSE addDomain(batch[k - 1], ds[k])]
<1>1. Loop(f, ds, Len(ds))
  <2>1. \E batch : batch = [k \in 0..Len(ds) |->
                              IF k = 0 THEN [out |-> <<>>, cur |-> <<>>, bytes |-> 0]
                                       ELSE addDomain(batch[k - 1], ds[k])]
    BY LoopExists DEF Loop, Start
  <2> QED BY <2>1 DEF Loop, Start
<1>2. batchDomains(ds) = IF f[Len(ds)].cur = <<>> THEN f[Len(ds)].out
                         ELSE Append(f[Len(ds)].out, f[Len(ds)].cur)
  BY Zenon DEF batchDomains
<1> QED BY <1>1, <1>2

BytesIn(ds) == UNION {{i} \X (1..BytesOf(ds[i])) : i \in DOMAIN ds}

LEMMA AppendRange ==
    ASSUME NEW D, NEW s \in Seq(D), NEW d \in D
    PROVE  /\ Append(s, d) \in Seq(D) /\ Append(s, d) # <<>>
           /\ Len(Append(s, d)) = Len(s) + 1
           /\ \A x : x \in Range(Append(s, d)) <=> x \in Range(s) \/ x = d
<1>1. /\ Append(s, d) \in Seq(D) /\ Len(s) \in Nat /\ Len(Append(s, d)) = Len(s) + 1
      /\ DOMAIN s = 1..Len(s) /\ DOMAIN Append(s, d) = 1..(Len(s) + 1)
      /\ \A i \in 1..Len(s) : Append(s, d)[i] = s[i]
      /\ Append(s, d)[Len(s) + 1] = d
  OBVIOUS
<1>2. Append(s, d) # <<>>
  BY <1>1
<1>3. ASSUME NEW x, x \in Range(Append(s, d)) PROVE x \in Range(s) \/ x = d
  <2>1. PICK i \in 1..(Len(s) + 1) : x = Append(s, d)[i]
    BY <1>1, <1>3 DEF Range
  <2>2. CASE i = Len(s) + 1
    BY <1>1, <2>1, <2>2
  <2>3. CASE i # Len(s) + 1
    <3>1. i \in 1..Len(s)
      BY <1>1, <2>3
    <3> QED BY <1>1, <2>1, <3>1 DEF Range
  <2> QED BY <2>2, <2>3
<1>4. ASSUME NEW x, x \in Range(s) \/ x = d PROVE x \in Range(Append(s, d))
  <2>1. CASE x = d
    <3>1. Len(s) + 1 \in 1..(Len(s) + 1)
      BY <1>1
    <3> QED BY <1>1, <2>1, <3>1 DEF Range
  <2>2. CASE x \in Range(s)
    <3>1. PICK i \in 1..Len(s) : x = s[i]
      BY <1>1, <2>2 DEF Range
    <3>2. i \in 1..(Len(s) + 1) /\ x = Append(s, d)[i]
      BY <1>1, <3>1
    <3> QED BY <1>1, <3>2 DEF Range
  <2> QED BY <1>4, <2>1, <2>2
<1> QED BY <1>1, <1>2, <1>3, <1>4

\* The bytes of a batch add up.
LEMMA BytesEmpty == IsFiniteSet(BytesIn(<<>>)) /\ Cardinality(BytesIn(<<>>)) = 0
<1>1. BytesIn(<<>>) = {}
  BY DEF BytesIn
<1> QED BY <1>1, FS_EmptySet

LEMMA BytesAppend ==
    ASSUME NEW D, \A d \in D : Len(d) \in Nat, NEW s \in Seq(D), NEW d \in D,
           IsFiniteSet(BytesIn(s))
    PROVE  /\ IsFiniteSet(BytesIn(Append(s, d)))
           /\ Cardinality(BytesIn(Append(s, d))) = Cardinality(BytesIn(s)) + BytesOf(d)
<1> DEFINE n == Len(s) + 1
           t == Append(s, d)
           A == BytesIn(s)
           B == {n} \X (1..BytesOf(d))
<1>1. /\ Len(s) \in Nat /\ DOMAIN s = 1..Len(s) /\ DOMAIN t = 1..n /\ n \in Nat
      /\ \A i \in 1..Len(s) : t[i] = s[i]
      /\ t[n] = d /\ 1..n = (1..Len(s)) \cup {n} /\ n \notin 1..Len(s)
  OBVIOUS
<1>2. BytesOf(d) \in Nat
  BY DEF BytesOf
<1> HIDE DEF n, t
<1>3. BytesIn(t) = A \cup B
  <2>1. ASSUME NEW x, x \in BytesIn(t) PROVE x \in A \cup B
    <3>1. PICK i \in 1..n : x \in {i} \X (1..BytesOf(t[i]))
      BY <1>1, <2>1 DEF BytesIn
    <3>2. CASE i = n
      BY <1>1, <3>1, <3>2
    <3>3. CASE i \in 1..Len(s)
      BY <1>1, <3>1, <3>3 DEF BytesIn
    <3> QED BY <1>1, <3>2, <3>3
  <2>2. ASSUME NEW x, x \in A PROVE x \in BytesIn(t)
    <3>1. PICK i \in 1..Len(s) : x \in {i} \X (1..BytesOf(s[i]))
      BY <1>1, <2>2 DEF BytesIn
    <3>2. i \in 1..n /\ x \in {i} \X (1..BytesOf(t[i]))
      BY <1>1, <3>1
    <3> QED BY <1>1, <3>2 DEF BytesIn
  <2>3. ASSUME NEW x, x \in B PROVE x \in BytesIn(t)
    <3>1. n \in 1..n /\ x \in {n} \X (1..BytesOf(t[n]))
      BY <1>1, <2>3
    <3> QED BY <1>1, <3>1 DEF BytesIn
  <2> QED BY <2>1, <2>2, <2>3
<1>4. A \cap B = {}
  <2> SUFFICES ASSUME NEW x, x \in A, x \in B PROVE FALSE
    OBVIOUS
  <2>1. PICK i \in 1..Len(s) : x \in {i} \X (1..BytesOf(s[i]))
    BY <1>1 DEF BytesIn
  <2>2. x[1] = i /\ x[1] = n
    BY <2>1
  <2> QED BY <1>1, <2>1, <2>2
<1>5. IsFiniteSet(B) /\ Cardinality(B) = BytesOf(d)
  <2>1. IsFiniteSet({n}) /\ Cardinality({n}) = 1
    BY FS_Singleton
  <2>2. IsFiniteSet(1..BytesOf(d)) /\ Cardinality(1..BytesOf(d)) = BytesOf(d)
    BY <1>2, FS_Interval
  <2> DEFINE one == {n}
             all == 1..BytesOf(d)
  <2> HIDE DEF one, all
  <2>3. IsFiniteSet(one) /\ IsFiniteSet(all)
    BY <2>1, <2>2 DEF one, all
  <2>4. IsFiniteSet(one \X all) /\ Cardinality(one \X all) = Cardinality(one) * Cardinality(all)
    BY <2>3, FS_Product
  <2>5. B = one \X all /\ Cardinality(one) = 1 /\ Cardinality(all) = BytesOf(d)
    BY <2>1, <2>2 DEF one, all
  <2>6. 1 * BytesOf(d) = BytesOf(d)
    BY <1>2
  <2> QED BY <2>4, <2>5, <2>6
<1> HIDE DEF A, B
<1>6. IsFiniteSet(A)
  BY DEF A
<1>7. IsFiniteSet(A \cup B) /\ Cardinality(A \cup B) = Cardinality(A) + Cardinality(B) - Cardinality(A \cap B)
  BY <1>5, <1>6, FS_Union
<1>8. Cardinality(A \cap B) = 0 /\ Cardinality(A) \in Nat
  BY <1>4, <1>6, FS_EmptySet, FS_CardinalityType
<1> QED BY <1>2, <1>3, <1>5, <1>7, <1>8 DEF A, t

\* scutil accepts the batch, or it is one domain.
Fits(b) == Len(b) = 1 \/ (Len(b) <= MaxPerKey /\ Cardinality(BytesIn(b)) <= MaxBytes)

\* What batchDomains has after the domains of the set seen.
BatchInv(b, D, seen) ==
    /\ b.out \in Seq(Seq(D)) /\ b.cur \in Seq(D)
    /\ IsFiniteSet(BytesIn(b.cur)) /\ b.bytes = Cardinality(BytesIn(b.cur))
    /\ \A s \in Range(b.out) : s # <<>> /\ Fits(s)
    /\ b.cur # <<>> => Fits(b.cur)
    /\ \A x : x \in seen <=> x \in Range(b.cur) \/ \E s \in Range(b.out) : x \in Range(s)

LEMMA BatchStart == ASSUME NEW D PROVE BatchInv(Start, D, {})
<1>1. Start.out = <<>> /\ Start.cur = <<>> /\ Start.bytes = 0
  BY DEF Start
<1>2. <<>> \in Seq(D) /\ <<>> \in Seq(Seq(D)) /\ Range(<<>>) = {}
  BY DEF Range
<1> QED BY <1>1, <1>2, BytesEmpty DEF BatchInv

LEMMA BatchStep ==
    ASSUME NEW D, \A d \in D : Len(d) \in Nat, NEW d \in D, NEW b, NEW seen, BatchInv(b, D, seen)
    PROVE  BatchInv(addDomain(b, d), D, seen \cup {d})
<1> DEFINE e == addDomain(b, d)
<1>0. BytesOf(d) \in Nat
  BY DEF BytesOf
<1>1. CASE b.cur # <<>> /\ (Len(b.cur) >= MaxPerKey \/ b.bytes + BytesOf(d) > MaxBytes)
  <2>1. e.out = Append(b.out, b.cur) /\ e.cur = <<d>> /\ e.bytes = BytesOf(d)
    BY <1>1 DEF addDomain
  <2> HIDE DEF e
  <2>2. b.out \in Seq(Seq(D)) /\ b.cur \in Seq(D)
    BY DEF BatchInv
  <2>3. /\ e.out \in Seq(Seq(D))
        /\ \A s : s \in Range(e.out) <=> s \in Range(b.out) \/ s = b.cur
    BY <2>1, <2>2, AppendRange
  <2>4. <<>> \in Seq(D) /\ <<d>> = Append(<<>>, d) /\ Range(<<>>) = {} /\ Len(<<>>) = 0
    BY DEF Range
  <2>5. e.cur \in Seq(D) /\ Len(e.cur) = 1 /\ \A x : x \in Range(e.cur) <=> x = d
    <3>1. PICK o \in Seq(D) : o = <<>> /\ Range(o) = {} /\ Len(o) = 0 /\ <<d>> = Append(o, d)
      BY <2>4
    <3>2. /\ Append(o, d) \in Seq(D) /\ Len(Append(o, d)) = Len(o) + 1
          /\ \A x : x \in Range(Append(o, d)) <=> x \in Range(o) \/ x = d
      BY AppendRange
    <3> QED BY <2>1, <3>1, <3>2
  <2>6. IsFiniteSet(BytesIn(e.cur)) /\ Cardinality(BytesIn(e.cur)) = 0 + BytesOf(d)
    BY <2>1, <2>4, BytesEmpty, BytesAppend
  <2>7. \A s \in Range(e.out) : s # <<>> /\ Fits(s)
    BY <1>1, <2>3 DEF BatchInv
  <2>8. Fits(e.cur)
    BY <2>5 DEF Fits
  <2>9. \A x : x \in seen \cup {d} <=> x \in Range(e.cur) \/ \E s \in Range(e.out) : x \in Range(s)
    BY <2>3, <2>5 DEF BatchInv
  <2>10. e.bytes = Cardinality(BytesIn(e.cur))
    BY <1>0, <2>1, <2>6
  <2>11. BatchInv(e, D, seen \cup {d})
    BY <2>3, <2>5, <2>6, <2>7, <2>8, <2>9, <2>10 DEF BatchInv
  <2> QED BY <2>11 DEF e
<1>2. CASE ~(b.cur # <<>> /\ (Len(b.cur) >= MaxPerKey \/ b.bytes + BytesOf(d) > MaxBytes))
  <2>1. e.out = b.out /\ e.cur = Append(b.cur, d) /\ e.bytes = b.bytes + BytesOf(d)
    BY <1>2 DEF addDomain
  <2> HIDE DEF e
  <2>2. b.out \in Seq(Seq(D)) /\ b.cur \in Seq(D) /\ Len(b.cur) \in Nat
    BY DEF BatchInv
  <2>3. /\ e.cur \in Seq(D) /\ Len(e.cur) = Len(b.cur) + 1
        /\ \A x : x \in Range(e.cur) <=> x \in Range(b.cur) \/ x = d
    BY <2>1, <2>2, AppendRange
  <2>4. /\ IsFiniteSet(BytesIn(e.cur))
        /\ Cardinality(BytesIn(e.cur)) = Cardinality(BytesIn(b.cur)) + BytesOf(d)
    BY <2>1, <2>2, BytesAppend DEF BatchInv
  <2>5. Fits(e.cur)
    <3>1. CASE b.cur = <<>>
      <4>1. Len(e.cur) = 1
        BY <2>3, <3>1
      <4> QED BY <4>1 DEF Fits
    <3>2. CASE b.cur # <<>>
      <4>1. b.bytes = Cardinality(BytesIn(b.cur)) /\ b.bytes \in Nat
        BY FS_CardinalityType DEF BatchInv
      <4>2. MaxPerKey \in Nat /\ MaxBytes \in Nat
        BY BatchAssumption
      <4>3. Len(b.cur) < MaxPerKey /\ b.bytes + BytesOf(d) <= MaxBytes
        BY <1>0, <1>2, <2>2, <3>2, <4>1, <4>2
      <4>4. Len(e.cur) <= MaxPerKey /\ Cardinality(BytesIn(e.cur)) <= MaxBytes
        BY <2>2, <2>3, <2>4, <4>1, <4>2, <4>3
      <4> QED BY <4>4 DEF Fits
    <3> QED BY <3>1, <3>2
  <2>6. \A x : x \in seen \cup {d} <=> x \in Range(e.cur) \/ \E s \in Range(e.out) : x \in Range(s)
    BY <2>1, <2>3 DEF BatchInv
  <2>7. e.bytes = Cardinality(BytesIn(e.cur))
    BY <2>1, <2>4 DEF BatchInv
  <2>8. BatchInv(e, D, seen \cup {d})
    BY <2>1, <2>2, <2>3, <2>4, <2>5, <2>6, <2>7 DEF BatchInv
  <2> QED BY <2>8 DEF e
<1> QED BY <1>1, <1>2

\* batchDomains: "splits domains into chunks of at most maxDomainsPerKey entries and
\* maxDomainBytesPerKey total bytes" (a longer domain gets a chunk of its own), every
\* domain is in a chunk, and nothing else is.
THEOREM BatchesFit ==
    ASSUME NEW D, \A d \in D : Len(d) \in Nat, NEW ds \in Seq(D)
    PROVE  /\ batchDomains(ds) \in Seq(Seq(D))
           /\ \A s \in Range(batchDomains(ds)) : s # <<>> /\ Fits(s)
           /\ \A x : x \in Range(ds) <=> \E s \in Range(batchDomains(ds)) : x \in Range(s)
<1> DEFINE n == Len(ds)
           first(k) == {ds[j] : j \in 1..k}
<1>0. n \in Nat /\ DOMAIN ds = 1..n
  OBVIOUS
<1>1. PICK f : /\ Loop(f, ds, n)
               /\ batchDomains(ds) = IF f[n].cur = <<>> THEN f[n].out ELSE Append(f[n].out, f[n].cur)
  BY <1>0, BatchLoop
<1> DEFINE S == {k \in Nat : k <= n => BatchInv(f[k], D, first(k))}
<1>2. 0 \in S
  <2>1. first(0) = {} /\ f[0] = Start
    BY <1>0, <1>1, LoopIs
  <2> QED BY <2>1, BatchStart
<1>3. ASSUME NEW k \in S PROVE k + 1 \in S
  <2> SUFFICES ASSUME k + 1 <= n PROVE BatchInv(f[k + 1], D, first(k + 1))
    OBVIOUS
  <2>1. k \in 0..n /\ k # n /\ k <= n /\ k + 1 \in 1..n /\ ds[k + 1] \in D
    BY <1>0
  <2>2. f[k + 1] = addDomain(f[k], ds[k + 1])
    BY <1>0, <1>1, <2>1, LoopIs
  <2>3. first(k + 1) = first(k) \cup {ds[k + 1]}
    <3>1. 1..(k + 1) = (1..k) \cup {k + 1}
      OBVIOUS
    <3> QED BY <3>1
  <2>4. BatchInv(f[k], D, first(k))
    BY <2>1
  <2> HIDE DEF first, S, n
  <2>5. BatchInv(addDomain(f[k], ds[k + 1]), D, first(k) \cup {ds[k + 1]})
    BY <2>1, <2>4, BatchStep
  <2> QED BY <2>2, <2>3, <2>5
<1>4. S = Nat
  <2> HIDE DEF S
  <2>1. S \in SUBSET Nat
    BY DEF S
  <2> QED BY <1>2, <1>3, <2>1, Induction
<1>5. BatchInv(f[n], D, first(n)) /\ Range(ds) = first(n)
  <2>1. ASSUME NEW m \in Nat, m = n PROVE BatchInv(f[m], D, first(m))
    <3>1. m \in S
      BY <1>4
    <3> QED BY <1>0, <2>1, <3>1
  <2>2. BatchInv(f[n], D, first(n))
    BY <1>0, <2>1
  <2> QED BY <1>0, <2>2 DEF Range
<1> DEFINE e == f[n]
           bs == batchDomains(ds)
<1> HIDE DEF first, S, e
<1>6. CASE e.cur = <<>>
  <2>1. bs = e.out /\ Range(e.cur) = {}
    BY <1>1, <1>6 DEF Range, e
  <2> QED BY <1>5, <2>1 DEF BatchInv, e
<1>7. CASE e.cur # <<>>
  <2>1. e.out \in Seq(Seq(D)) /\ e.cur \in Seq(D) /\ bs = Append(e.out, e.cur)
    BY <1>1, <1>5, <1>7 DEF BatchInv, e
  <2>2. bs \in Seq(Seq(D)) /\ \A s : s \in Range(bs) <=> s \in Range(e.out) \/ s = e.cur
    BY <2>1, AppendRange
  <2>3. BatchInv(e, D, first(n))
    BY <1>5 DEF e
  <2> HIDE DEF bs
  <2>4. \A s \in Range(bs) : s # <<>> /\ Fits(s)
    BY <1>7, <2>2, <2>3 DEF BatchInv
  <2>5. \A x : x \in Range(ds) <=> \E s \in Range(bs) : x \in Range(s)
    BY <1>5, <2>2, <2>3 DEF BatchInv
  <2> QED BY <2>2, <2>4, <2>5 DEF bs
<1> QED BY <1>6, <1>7

-----------------------------------------------------------------------------
(* The keys of a registration.                                             *)

Domain == Seq(STRING) \cup {ReverseZone(st.ip) : st \in Meshes}
Key == [domains : Seq(Domain), listen : Address]
Command == [id : KeyIds, val : Key]

LEMMA DomainIs == \A d \in Domain : Len(d) \in Nat
<1>1. \A ip : Len(ReverseZone(ip)) = 3
  BY DEF ReverseZone
<1> QED BY <1>1 DEF Domain

\* The keys of one kind.
KindKeys(owner, kind, domains, listen) ==
    LET batches == batchDomains(SetToSeq(domains))
    IN {[id |-> <<owner, kind, n - 1>>,
         val |-> [domains |-> batches[n], listen |-> listen]] : n \in DOMAIN batches}

LEMMA LayoutIs ==
    ASSUME NEW owner, NEW spec
    PROVE  hostDNSKeys(owner, spec) = KindKeys(owner, "Search", spec.search, spec.listen)
                                        \cup KindKeys(owner, "Match", spec.match, spec.listen)
BY DEF hostDNSKeys, KindKeys

\* They have a number each, fit scutil, and are the domains.
LEMMA KindIs ==
    ASSUME NEW owner, NEW kind, NEW domains, NEW listen \in Address,
           IsFiniteSet(domains), domains \subseteq Domain
    PROVE  LET K == KindKeys(owner, kind, domains, listen)
           IN /\ IsFiniteSet(K)
              /\ \A c \in K : /\ c.id[1] = owner /\ c.id[2] = kind
                             /\ c = [id |-> c.id, val |-> c.val]
                             /\ c.val \in Key /\ c.val.listen = listen
                             /\ c.val.domains # <<>> /\ Fits(c.val.domains)
              /\ \A c, d \in K : c.id = d.id => c = d
              /\ \A x : x \in domains <=> \E c \in K : x \in Range(c.val.domains)
<1> DEFINE ds == SetToSeq(domains)
           bs == batchDomains(ds)
           key(n) == [id |-> <<owner, kind, n - 1>>, val |-> [domains |-> bs[n], listen |-> listen]]
           K == KindKeys(owner, kind, domains, listen)
<1>1. ds \in Seq(domains) /\ Range(ds) = domains
  BY SeqOfSet
<1>2. ds \in Seq(Domain)
  <2>1. Len(ds) \in Nat /\ ds \in [1..Len(ds) -> Domain]
    BY <1>1
  <2> QED BY <2>1
<1> HIDE DEF ds
<1>3. /\ bs \in Seq(Seq(Domain))
      /\ \A s \in Range(bs) : s # <<>> /\ Fits(s)
      /\ \A x : x \in Range(ds) <=> \E s \in Range(bs) : x \in Range(s)
  BY <1>2, DomainIs, BatchesFit
<1>4. K = {key(n) : n \in DOMAIN bs}
  BY DEF KindKeys, ds
<1> HIDE DEF bs, K
<1>5. Len(bs) \in Nat /\ DOMAIN bs = 1..Len(bs) /\ \A n \in 1..Len(bs) : bs[n] \in Seq(Domain)
  BY <1>3
<1>6. \A n \in 1..Len(bs) : bs[n] \in Range(bs)
  BY <1>5 DEF Range
<1>7. IsFiniteSet(K)
  <2> DEFINE f == [n \in 1..Len(bs) |-> key(n)]
  <2>1. f \in [1..Len(bs) -> K] /\ \A c \in K : \E n \in 1..Len(bs) : f[n] = c
    BY <1>4, <1>5
  <2> HIDE DEF f
  <2>2. f \in Surjection(1..Len(bs), K)
    BY <2>1 DEF Surjection
  <2>3. IsFiniteSet(1..Len(bs))
    BY <1>5, FS_Interval
  <2> QED BY <2>2, <2>3, FS_Surjection
<1>8. ASSUME NEW c \in K
      PROVE  /\ c.id[1] = owner /\ c.id[2] = kind
             /\ c = [id |-> c.id, val |-> c.val]
             /\ c.val \in Key /\ c.val.listen = listen
             /\ c.val.domains # <<>> /\ Fits(c.val.domains)
  <2>1. PICK n \in 1..Len(bs) : c = key(n)
    BY <1>4, <1>5
  <2>2. c.id = <<owner, kind, n - 1>> /\ c.val = [domains |-> bs[n], listen |-> listen]
        /\ c.id[1] = owner /\ c.id[2] = kind
    BY <2>1
  <2>3. bs[n] \in Seq(Domain) /\ bs[n] # <<>> /\ Fits(bs[n])
    BY <1>3, <1>5, <1>6
  <2>4. c = [id |-> c.id, val |-> c.val]
    BY <2>1
  <2>5. c.val \in Key /\ c.val.domains = bs[n] /\ c.val.listen = listen
    BY <2>2, <2>3 DEF Key
  <2> QED BY <2>2, <2>3, <2>4, <2>5
<1>9. ASSUME NEW c \in K, NEW d \in K, c.id = d.id PROVE c = d
  <2>1. PICK n \in 1..Len(bs) : c = key(n)
    BY <1>4, <1>5
  <2>2. PICK m \in 1..Len(bs) : d = key(m)
    BY <1>4, <1>5
  <2>3. c.id[3] = n - 1 /\ d.id[3] = m - 1
    BY <2>1, <2>2
  <2>4. n = m
    BY <1>5, <1>9, <2>3
  <2> QED BY <2>1, <2>2, <2>4
<1>10. ASSUME NEW x PROVE x \in domains <=> \E c \in K : x \in Range(c.val.domains)
  <2>1. x \in domains <=> \E n \in 1..Len(bs) : x \in Range(bs[n])
    <3>1. \A s : s \in Range(bs) <=> \E n \in 1..Len(bs) : s = bs[n]
      BY <1>5 DEF Range
    <3> QED BY <1>1, <1>3, <3>1
  <2>2. \A n \in 1..Len(bs) : key(n) \in K /\ key(n).val.domains = bs[n]
    BY <1>4, <1>5
  <2>3. \A c \in K : \E n \in 1..Len(bs) : c = key(n)
    BY <1>4, <1>5
  <2> HIDE DEF key
  <2> QED BY <2>1, <2>2, <2>3
<1> QED BY <1>7, <1>8, <1>9, <1>10 DEF K

\* What a call for the answer st (None: a removal) has to leave in the store.
Wanted(n, st) == IF st = None THEN {} ELSE hostDNSKeys(n, Derive(st))

LEMMA DeriveIs ==
    ASSUME NEW st \in Meshes, Derives(st)
    PROVE  /\ st.ip \in Prefix /\ Derive(st).listen = ResolverAddr(st.ip)
           /\ Derive(st).listen \in Address
           /\ Derive(st).search = st.peer
           /\ Derive(st).match = Named(st) \cup {ReverseZone(st.ip)}
           /\ \A domains \in {Derive(st).search, Derive(st).match} :
                 IsFiniteSet(domains) /\ domains \subseteq Domain
<1>1. st.ip \in Prefix
  BY MeshesAssumption DEF Derives, Prefix
<1>2. /\ IsFiniteSet(st.peer) /\ IsFiniteSet(GroupDomains(st))
      /\ st.peer \subseteq Seq(STRING) /\ GroupDomains(st) \subseteq Seq(STRING)
  BY MeshesAssumption
<1>3. IsFiniteSet(Named(st) \cup {ReverseZone(st.ip)})
  <2>1. IsFiniteSet(Named(st))
    BY <1>2, FS_Union DEF Named
  <2> QED BY <2>1, FS_AddElement
<1>4. /\ Derive(st).listen = ResolverAddr(st.ip) /\ Derive(st).search = st.peer
      /\ Derive(st).match = Named(st) \cup {ReverseZone(st.ip)}
  BY DEF Derive, Named
<1>5. st.peer \subseteq Domain /\ Named(st) \cup {ReverseZone(st.ip)} \subseteq Domain
  BY <1>2 DEF Named, Domain
<1> QED BY <1>1, <1>2, <1>3, <1>4, <1>5, ResolverType

LEMMA WantedIs ==
    ASSUME NEW n \in Instances, NEW st \in Meshes \cup {None}, st # None => Derives(st)
    PROVE  /\ IsFiniteSet(Wanted(n, st))
           /\ \A c \in Wanted(n, st) :
                 /\ c \in Command /\ c.id[1] = n /\ c.val # NoKey
                 /\ c = [id |-> c.id, val |-> c.val]
           /\ \A c, d \in Wanted(n, st) : c.id = d.id => c = d
           /\ st # None =>
                 /\ \A c \in Wanted(n, st) : c.val.listen = Derive(st).listen /\ Fits(c.val.domains)
                 /\ \A x : /\ x \in Derive(st).search <=>
                                \E c \in Wanted(n, st) : c.id[2] = "Search" /\ x \in Range(c.val.domains)
                           /\ x \in Derive(st).match <=>
                                \E c \in Wanted(n, st) : c.id[2] = "Match" /\ x \in Range(c.val.domains)
                 /\ \A c \in Wanted(n, st) : c.id[2] \in {"Search", "Match"}
<1>1. CASE st = None
  BY <1>1, FS_EmptySet DEF Wanted
<1>2. CASE st # None
  <2> DEFINE spec == Derive(st)
             S == KindKeys(n, "Search", spec.search, spec.listen)
             M == KindKeys(n, "Match", spec.match, spec.listen)
             W == Wanted(n, st)
  <2>1. st \in Meshes /\ Derives(st)
    BY <1>2
  <2>2. /\ spec.listen \in Address
        /\ IsFiniteSet(spec.search) /\ spec.search \subseteq Domain
        /\ IsFiniteSet(spec.match) /\ spec.match \subseteq Domain
    BY <2>1, DeriveIs
  <2>3. W = S \cup M
    BY <1>2, LayoutIs DEF Wanted
  <2>4. {c.id : c \in W} \subseteq KeyIds
    BY <1>2, <2>1, KeysAssumption DEF Wanted
  <2> HIDE DEF spec
  <2>5. /\ IsFiniteSet(S)
        /\ \A c \in S : /\ c.id[1] = n /\ c.id[2] = "Search"
                       /\ c = [id |-> c.id, val |-> c.val]
                       /\ c.val \in Key /\ c.val.listen = spec.listen
                       /\ c.val.domains # <<>> /\ Fits(c.val.domains)
        /\ \A c, d \in S : c.id = d.id => c = d
        /\ \A x : x \in spec.search <=> \E c \in S : x \in Range(c.val.domains)
    BY <2>2, KindIs
  <2>6. /\ IsFiniteSet(M)
        /\ \A c \in M : /\ c.id[1] = n /\ c.id[2] = "Match"
                       /\ c = [id |-> c.id, val |-> c.val]
                       /\ c.val \in Key /\ c.val.listen = spec.listen
                       /\ c.val.domains # <<>> /\ Fits(c.val.domains)
        /\ \A c, d \in M : c.id = d.id => c = d
        /\ \A x : x \in spec.match <=> \E c \in M : x \in Range(c.val.domains)
    BY <2>2, KindIs
  <2> HIDE DEF S, M, W
  <2>7. IsFiniteSet(W)
    BY <2>3, <2>5, <2>6, FS_Union
  <2>8. ASSUME NEW c \in W
        PROVE  /\ c \in Command /\ c.id[1] = n /\ c.val # NoKey
               /\ c = [id |-> c.id, val |-> c.val]
               /\ c.val.listen = spec.listen /\ Fits(c.val.domains)
               /\ c.id[2] \in {"Search", "Match"}
    <3>1. c \in S \/ c \in M
      BY <2>3
    <3>2. /\ c.id[1] = n /\ c.id[2] \in {"Search", "Match"}
          /\ c = [id |-> c.id, val |-> c.val]
          /\ c.val \in Key /\ c.val.listen = spec.listen
          /\ c.val.domains # <<>> /\ Fits(c.val.domains)
      BY <2>5, <2>6, <3>1
    <3>3. c.id \in KeyIds
      BY <2>4
    <3>4. c.val # NoKey
      BY <3>2 DEF NoKey
    <3>5. [id |-> c.id, val |-> c.val] \in Command
      BY <3>2, <3>3 DEF Command
    <3> QED BY <3>2, <3>4, <3>5
  <2>9. ASSUME NEW c \in W, NEW d \in W, c.id = d.id PROVE c = d
    <3>1. (c \in S \/ c \in M) /\ (d \in S \/ d \in M) /\ c.id[2] = d.id[2]
      BY <2>3, <2>9
    <3>2. "Search" # "Match"
      OBVIOUS
    <3> QED BY <2>5, <2>6, <2>9, <3>1, <3>2
  <2>10. ASSUME NEW x
         PROVE  /\ x \in spec.search <=> \E c \in W : c.id[2] = "Search" /\ x \in Range(c.val.domains)
                /\ x \in spec.match <=> \E c \in W : c.id[2] = "Match" /\ x \in Range(c.val.domains)
    <3>1. "Search" # "Match"
      OBVIOUS
    <3>2. \A c \in W : (c \in S <=> c.id[2] = "Search") /\ (c \in M <=> c.id[2] = "Match")
      BY <2>3, <2>5, <2>6, <3>1
    <3> QED BY <2>3, <2>5, <2>6, <3>2
  <2> QED BY <2>7, <2>8, <2>9, <2>10 DEF W, spec
<1> QED BY <1>1, <1>2

-----------------------------------------------------------------------------
(* Scripts.                                                                *)

KeysOf(n) == {k \in KeyIds : k[1] = n}

\* v is what key k of instance n has to be after a call for st.
IsFinal(n, st, k, v) ==
    \/ [id |-> k, val |-> v] \in Wanted(n, st)
    \/ v = NoKey /\ \A c \in Wanted(n, st) : c.id # k

\* Key k, now v, will be: the last command of the script about it sees to that, or
\* it is, and no command is about it.
Pending(n, st, s, k, v) ==
    \/ \E i \in DOMAIN s : /\ s[i].id = k /\ IsFinal(n, st, k, s[i].val)
                           /\ \A j \in DOMAIN s : j > i => s[j].id # k
    \/ IsFinal(n, st, k, v) /\ \A i \in DOMAIN s : s[i].id # k

\* scutil executes a command.
LEMMA RunsOne ==
    ASSUME NEW n, NEW st, NEW s \in Seq(Command), s # <<>>, NEW k, NEW v, Pending(n, st, s, k, v)
    PROVE  Pending(n, st, Tail(s), k, IF Head(s).id = k THEN Head(s).val ELSE v)
<1> DEFINE t == Tail(s)
           u == IF Head(s).id = k THEN Head(s).val ELSE v
<1>1. /\ Len(s) \in Nat \ {0} /\ DOMAIN s = 1..Len(s) /\ Head(s) = s[1]
      /\ DOMAIN t = 1..(Len(s) - 1) /\ \A i \in 1..(Len(s) - 1) : t[i] = s[i + 1]
  OBVIOUS
<1> HIDE DEF t
<1>2. CASE \E i \in DOMAIN s : /\ s[i].id = k /\ IsFinal(n, st, k, s[i].val)
                               /\ \A j \in DOMAIN s : j > i => s[j].id # k
  <2>1. PICK i \in 1..Len(s) : /\ s[i].id = k /\ IsFinal(n, st, k, s[i].val)
                               /\ \A j \in 1..Len(s) : j > i => s[j].id # k
    BY <1>1, <1>2
  <2>2. CASE i = 1
    <3>1. IsFinal(n, st, k, u)
      BY <1>1, <2>1, <2>2
    <3>2. ASSUME NEW j \in DOMAIN t PROVE t[j].id # k
      <4>1. t[j] = s[j + 1] /\ j + 1 \in 1..Len(s) /\ j + 1 > i
        BY <1>1, <2>2
      <4> QED BY <2>1, <4>1
    <3> QED BY <3>1, <3>2 DEF Pending, t
  <2>3. CASE i # 1
    <3>1. i - 1 \in DOMAIN t /\ t[i - 1] = s[i]
      <4>1. i - 1 \in 1..(Len(s) - 1) /\ (i - 1) + 1 = i
        BY <1>1, <2>3
      <4> QED BY <1>1, <4>1
    <3>2. ASSUME NEW j \in DOMAIN t, j > i - 1 PROVE t[j].id # k
      <4>1. t[j] = s[j + 1] /\ j + 1 \in 1..Len(s) /\ j + 1 > i
        BY <1>1, <3>2
      <4> QED BY <2>1, <4>1
    <3> QED BY <2>1, <3>1, <3>2 DEF Pending, t
  <2> QED BY <2>2, <2>3
<1>3. CASE IsFinal(n, st, k, v) /\ \A i \in DOMAIN s : s[i].id # k
  <2>1. u = v
    BY <1>1, <1>3
  <2>2. ASSUME NEW j \in DOMAIN t PROVE t[j].id # k
    <3>1. t[j] = s[j + 1] /\ j + 1 \in DOMAIN s
      BY <1>1
    <3> QED BY <1>3, <3>1
  <2> QED BY <1>3, <2>1, <2>2 DEF Pending, t
<1> QED BY <1>2, <1>3 DEF Pending

\* The two halves of a script.
LEMMA Halves ==
    ASSUME NEW C, NEW R \in Seq(C), NEW T \in Seq(C)
    PROVE  /\ R \o T \in Seq(C) /\ DOMAIN R = 1..Len(R) /\ DOMAIN T = 1..Len(T)
           /\ Len(R) \in Nat /\ Len(T) \in Nat
           /\ \A i \in DOMAIN R : i \in DOMAIN (R \o T) /\ (R \o T)[i] = R[i]
           /\ \A i \in DOMAIN T : Len(R) + i \in DOMAIN (R \o T) /\ (R \o T)[Len(R) + i] = T[i]
           /\ \A i \in DOMAIN (R \o T) :
                 /\ i \in Nat
                 /\ \/ i \in DOMAIN R
                    \/ i - Len(R) \in DOMAIN T /\ i > Len(R) /\ (R \o T)[i] = T[i - Len(R)]
<1>1. /\ R \o T \in Seq(C) /\ Len(R) \in Nat /\ Len(T) \in Nat
      /\ DOMAIN R = 1..Len(R) /\ DOMAIN T = 1..Len(T)
      /\ DOMAIN (R \o T) = 1..(Len(R) + Len(T))
  OBVIOUS
<1>2. \A i \in 1..Len(R) : i \in 1..(Len(R) + Len(T)) /\ (R \o T)[i] = R[i]
  BY <1>1
<1>3. \A i \in 1..Len(T) : Len(R) + i \in 1..(Len(R) + Len(T)) /\ (R \o T)[Len(R) + i] = T[i]
  BY <1>1
<1>4. ASSUME NEW i \in 1..(Len(R) + Len(T)), i \notin 1..Len(R)
      PROVE  i - Len(R) \in 1..Len(T) /\ i > Len(R) /\ (R \o T)[i] = T[i - Len(R)]
  <2>1. i - Len(R) \in 1..Len(T) /\ i > Len(R) /\ Len(R) + (i - Len(R)) = i
    BY <1>1, <1>4
  <2> QED BY <1>3, <2>1
<1> QED BY <1>1, <1>2, <1>3, <1>4

\* The keys of an instance, and the commands that remove them, are finitely many.
LEMMA FewKeys ==
    ASSUME NEW n, NEW O \in SUBSET KeysOf(n)
    PROVE  IsFiniteSet({[id |-> k, val |-> NoKey] : k \in O})
<1> DEFINE P == {"Search", "Match"} \X (0..(MaxKeys - 1))
           f == [k \in O |-> <<k[2], k[3]>>]
           R == {[id |-> k, val |-> NoKey] : k \in O}
           g == [k \in O |-> [id |-> k, val |-> NoKey]]
<1>1. IsFiniteSet(P)
  <2>1. IsFiniteSet(0..(MaxKeys - 1))
    BY KeysAssumption, FS_Interval
  <2>2. IsFiniteSet({"Search"}) /\ {"Search", "Match"} = {"Search"} \cup {"Match"}
    BY FS_Singleton
  <2>3. IsFiniteSet({"Search", "Match"})
    BY <2>2, FS_AddElement
  <2> QED BY <2>1, <2>3, FS_Product
<1>2. \A k \in O : k = <<k[1], k[2], k[3]>> /\ k[1] = n /\ <<k[2], k[3]>> \in P
  BY DEF KeysOf, KeyIds
<1>3. f \in [O -> P]
  BY <1>2
<1>4. ASSUME NEW k \in O, NEW l \in O, f[k] = f[l] PROVE k = l
  <2>1. k[2] = l[2] /\ k[3] = l[3]
    BY <1>4
  <2> QED BY <1>2, <2>1
<1>5. IsFiniteSet(O)
  <2> HIDE DEF f, P
  <2>1. f \in Injection(O, P)
    BY <1>3, <1>4 DEF Injection, IsInjective
  <2> QED BY <1>1, <2>1, FS_Injection
<1>6. g \in [O -> R] /\ \A c \in R : \E k \in O : g[k] = c
  OBVIOUS
<1> HIDE DEF g, R
<1>7. g \in Surjection(O, R)
  BY <1>6 DEF Surjection
<1>8. IsFiniteSet(R)
  BY <1>5, <1>7, FS_Surjection
<1> QED BY <1>8 DEF R

LEMMA NoKeyIs == NoKey \in Key /\ NoKey.listen \in Address
<1>1. 0 \in Address /\ <<>> \in Seq(Domain)
  BY AddressIs
<1> QED BY <1>1 DEF NoKey, Key

\* renderApplyScript: removing what is stale and then setting what is wanted gives every
\* key of the instance its value, and touches no other.
LEMMA ScriptIs ==
    ASSUME NEW n \in Instances, NEW st \in Meshes \cup {None}, st # None => Derives(st),
           NEW ks \in [KeyIds -> Key]
    PROVE  LET O == {k \in KeyIds : k[1] = n /\ ks[k] # NoKey}
               s == SetToSeq({[id |-> k, val |-> NoKey] : k \in O}) \o SetToSeq(Wanted(n, st))
           IN /\ s \in Seq(Command)
              /\ \A i \in DOMAIN s : s[i].id[1] = n
              /\ \A k \in KeysOf(n) : Pending(n, st, s, k, ks[k])
<1> DEFINE O == {k \in KeyIds : k[1] = n /\ ks[k] # NoKey}
           removes == {[id |-> k, val |-> NoKey] : k \in O}
           W == Wanted(n, st)
           R == SetToSeq(removes)
           T == SetToSeq(W)
           s == R \o T
<1>1. IsFiniteSet(removes)
  <2>1. O \in SUBSET KeysOf(n)
    BY DEF KeysOf
  <2> QED BY <2>1, FewKeys
<1>2. /\ IsFiniteSet(W)
      /\ \A c \in W : c \in Command /\ c.id[1] = n /\ c = [id |-> c.id, val |-> c.val]
      /\ \A c, d \in W : c.id = d.id => c = d
  BY WantedIs
<1>3. /\ \A c \in removes : c \in Command /\ c.id[1] = n /\ c.val = NoKey /\ c.id \in O
      /\ \A k \in O : [id |-> k, val |-> NoKey] \in removes
      /\ \A c, d \in removes : c.id = d.id => c = d
  BY NoKeyIs DEF Command
<1> HIDE DEF removes, W
<1>4. /\ R \in Seq(removes) /\ Range(R) = removes
      /\ \A i, j \in DOMAIN R : R[i] = R[j] => i = j
  BY <1>1, SeqOfSet
<1>5. /\ T \in Seq(W) /\ Range(T) = W
      /\ \A i, j \in DOMAIN T : T[i] = T[j] => i = j
  BY <1>2, SeqOfSet
<1> HIDE DEF R, T
<1>6. /\ \A i \in DOMAIN R : R[i] \in removes
      /\ \A c \in removes : \E i \in DOMAIN R : R[i] = c
      /\ \A i \in DOMAIN T : T[i] \in W
      /\ \A c \in W : \E i \in DOMAIN T : T[i] = c
  BY <1>4, <1>5 DEF Range
<1>7. R \in Seq(Command) /\ T \in Seq(Command)
  <2>1. Len(R) \in Nat /\ R \in [1..Len(R) -> Command]
    BY <1>3, <1>4
  <2>2. Len(T) \in Nat /\ T \in [1..Len(T) -> Command]
    BY <1>2, <1>5
  <2> QED BY <2>1, <2>2
<1>8. /\ s \in Seq(Command) /\ Len(R) \in Nat
      /\ DOMAIN R = 1..Len(R) /\ DOMAIN T = 1..Len(T) /\ Len(T) \in Nat
      /\ \A i \in DOMAIN R : i \in DOMAIN s /\ s[i] = R[i]
      /\ \A i \in DOMAIN T : Len(R) + i \in DOMAIN s /\ s[Len(R) + i] = T[i]
      /\ \A i \in DOMAIN s :
            /\ i \in Nat
            /\ i \in DOMAIN R \/ (i - Len(R) \in DOMAIN T /\ i > Len(R) /\ s[i] = T[i - Len(R)])
  BY <1>7, Halves
<1> HIDE DEF s
<1>9. ASSUME NEW i \in DOMAIN s PROVE s[i].id[1] = n
  <2>1. s[i] \in removes \/ s[i] \in W
    BY <1>6, <1>8
  <2> QED BY <1>2, <1>3, <2>1
<1>10. ASSUME NEW k \in KeysOf(n) PROVE Pending(n, st, s, k, ks[k])
  <2>1. CASE \E c \in W : c.id = k
    <3>1. PICK c \in W : c.id = k
      BY <2>1
    <3>2. PICK i \in DOMAIN T : T[i] = c
      BY <1>6
    <3>3. IsFinal(n, st, k, c.val)
      BY <1>2, <3>1 DEF IsFinal, W
    <3>4. Len(R) + i \in DOMAIN s /\ s[Len(R) + i] = c
      BY <1>8, <3>2
    <3>5. ASSUME NEW j \in DOMAIN s, j > Len(R) + i, s[j].id = k PROVE FALSE
      <4>1. i \in Nat /\ j \notin DOMAIN R
        BY <1>8, <3>5
      <4>2. j - Len(R) \in DOMAIN T /\ s[j] = T[j - Len(R)]
        BY <1>8, <4>1
      <4>3. s[j] = c
        BY <1>2, <1>6, <3>1, <3>5, <4>2
      <4>4. j - Len(R) = i
        BY <1>5, <3>2, <4>2, <4>3
      <4> QED BY <1>8, <3>5, <4>1, <4>4
    <3> QED BY <3>1, <3>3, <3>4, <3>5 DEF Pending
  <2>2. CASE (\A c \in W : c.id # k) /\ k \in O
    <3>1. PICK i \in DOMAIN R : R[i] = [id |-> k, val |-> NoKey]
      BY <1>3, <1>6, <2>2
    <3>2. i \in DOMAIN s /\ s[i] = [id |-> k, val |-> NoKey] /\ R[i] \in removes
      BY <1>6, <1>8, <3>1
    <3>3. IsFinal(n, st, k, NoKey)
      BY <2>2 DEF IsFinal, W
    <3>4. ASSUME NEW j \in DOMAIN s, j > i, s[j].id = k PROVE FALSE
      <4>1. CASE j \in DOMAIN R
        <5>1. s[j] = R[j] /\ R[j] \in removes
          BY <1>6, <1>8, <4>1
        <5>2. R[j] = R[i]
          BY <1>3, <3>1, <3>2, <3>4, <5>1
        <5>3. j = i
          BY <1>4, <4>1, <5>2
        <5> QED BY <1>8, <3>4, <5>3
      <4>2. CASE j - Len(R) \in DOMAIN T /\ s[j] = T[j - Len(R)]
        BY <1>6, <2>2, <3>4, <4>2
      <4> QED BY <1>8, <4>1, <4>2
    <3> QED BY <3>2, <3>3, <3>4 DEF Pending
  <2>3. CASE (\A c \in W : c.id # k) /\ k \notin O
    <3>1. ks[k] = NoKey
      BY <2>3 DEF KeysOf
    <3>2. IsFinal(n, st, k, ks[k])
      BY <2>3, <3>1 DEF IsFinal, W
    <3>3. ASSUME NEW i \in DOMAIN s PROVE s[i].id # k
      <4>1. s[i] \in removes \/ s[i] \in W
        BY <1>6, <1>8
      <4> QED BY <1>3, <2>3, <4>1
    <3> QED BY <3>2, <3>3 DEF Pending
  <2> QED BY <2>1, <2>2, <2>3
<1> QED BY <1>8, <1>9, <1>10 DEF s, R, T, removes, W

-----------------------------------------------------------------------------
(* The invariant of HostKeys.                                              *)

Progress == [pc : {"idle", "list", "run"}, name : Instances \cup {None},
             for : Meshes \cup {None}, script : Seq(Command)]

WriterInv(w) ==
    /\ w.pc = "idle" <=> w.name = None
    /\ w.for # None => Derives(w.for)
    /\ \A i \in DOMAIN w.script : w.script[i].id[1] = w.name

KeysTypeInv ==
    /\ mesh \in [Instances -> Meshes]
    /\ keys \in [KeyIds -> Key]
    /\ writer \in [Writers -> Progress]
    /\ applied \in [Instances -> Meshes \cup {None, Unknown}]
    /\ \A p \in Writers : WriterInv(writer[p])
    /\ \A n \in Instances : applied[n] \in Meshes => Derives(applied[n])

LEMMA RestingIs == Resting \in Progress /\ WriterInv(Resting) /\ Resting.name = None /\ Resting.pc = "idle"
<1>1. <<>> \in Seq(Command) /\ DOMAIN <<>> = {}
  OBVIOUS
<1> QED BY <1>1 DEF Resting, Progress, WriterInv

LEMMA KeysTypeInit == KeysInit => KeysTypeInv
<1> SUFFICES ASSUME KeysInit PROVE KeysTypeInv
  OBVIOUS
<1>1. \A n \in Instances : applied[n] = None /\ None \notin Meshes
  BY KeysAssumption DEF KeysInit
<1> QED BY <1>1, RestingIs, NoKeyIs DEF KeysInit, KeysTypeInv

\* What a step does to the process that takes it.
LEMMA BeginsIs ==
    ASSUME KeysTypeInv, NEW p \in Writers, NEW n \in Instances, ApplyBegin(p, n) \/ RemoveBegin(p, n)
    PROVE  \E w \in Progress :
              /\ writer' = [writer EXCEPT ![p] = w] /\ WriterInv(w)
              /\ w.pc = "list" /\ w.name = n /\ MayBegin(p, n)
              /\ UNCHANGED <<mesh, keys, applied>>
<1> DEFINE w(st) == [pc |-> "list", name |-> n, for |-> st, script |-> <<>>]
<1>1. ASSUME NEW st \in Meshes \cup {None}, st # None => Derives(st)
      PROVE  w(st) \in Progress /\ WriterInv(w(st)) /\ w(st).pc = "list" /\ w(st).name = n
  <2>1. <<>> \in Seq(Command) /\ DOMAIN <<>> = {} /\ n # None
    BY KeysAssumption
  <2> QED BY <1>1, <2>1 DEF Progress, WriterInv
<1>2. CASE ApplyBegin(p, n)
  <2>1. /\ mesh[n] \in Meshes /\ Derives(mesh[n]) /\ MayBegin(p, n)
        /\ writer' = [writer EXCEPT ![p] = w(mesh[n])] /\ UNCHANGED <<mesh, keys, applied>>
    BY <1>2 DEF ApplyBegin, KeysTypeInv
  <2>2. w(mesh[n]) \in Progress /\ WriterInv(w(mesh[n])) /\ w(mesh[n]).pc = "list" /\ w(mesh[n]).name = n
    BY <1>1, <2>1
  <2> QED BY <2>1, <2>2
<1>3. CASE RemoveBegin(p, n)
  <2>1. /\ MayBegin(p, n) /\ writer' = [writer EXCEPT ![p] = w(None)]
        /\ UNCHANGED <<mesh, keys, applied>>
    BY <1>3 DEF RemoveBegin
  <2>2. w(None) \in Progress /\ WriterInv(w(None)) /\ w(None).pc = "list" /\ w(None).name = n
    BY <1>1
  <2> QED BY <2>1, <2>2
<1> QED BY <1>2, <1>3

LEMMA ListIs ==
    ASSUME KeysTypeInv, NEW p \in Writers, List(p)
    PROVE  \E w \in Progress :
              /\ writer' = [writer EXCEPT ![p] = w] /\ WriterInv(w)
              /\ w.pc = "run" /\ w.name = writer[p].name /\ w.name \in Instances
              /\ \A k \in KeysOf(w.name) : Pending(w.name, w.for, w.script, k, keys[k])
              /\ UNCHANGED <<mesh, keys, applied>>
<1> DEFINE v == writer[p]
           n == v.name
           O == {k \in KeyIds : k[1] = n /\ keys[k] # NoKey}
           s == SetToSeq({[id |-> k, val |-> NoKey] : k \in O}) \o SetToSeq(Wanted(n, v.for))
           w == [v EXCEPT !.pc = "run", !.script = s]
<1>1. v \in Progress /\ WriterInv(v) /\ v.pc = "list" /\ keys \in [KeyIds -> Key]
  BY DEF KeysTypeInv, List
<1>2. n \in Instances /\ v.for \in Meshes \cup {None} /\ (v.for # None => Derives(v.for))
  BY <1>1 DEF Progress, WriterInv
<1>3. /\ writer' = [writer EXCEPT ![p].pc = "run", ![p].script = s]
      /\ UNCHANGED <<mesh, keys, applied>>
  BY DEF List, keysOfInstance, Wanted
<1> HIDE DEF n
<1>4. /\ s \in Seq(Command)
      /\ \A i \in DOMAIN s : s[i].id[1] = n
      /\ \A k \in KeysOf(n) : Pending(n, v.for, s, k, keys[k])
  BY <1>1, <1>2, ScriptIs
<1> HIDE DEF s
<1>5. writer' = [writer EXCEPT ![p] = w]
  BY <1>3 DEF KeysTypeInv
<1>6. w \in Progress /\ w.pc = "run" /\ w.name = v.name /\ w.for = v.for /\ w.script = s
  BY <1>1, <1>4 DEF Progress
<1>7. WriterInv(w)
  BY <1>1, <1>2, <1>4, <1>6 DEF WriterInv, n
<1> HIDE DEF w
<1> QED BY <1>2, <1>3, <1>4, <1>5, <1>6, <1>7 DEF n

LEMMA RunIs ==
    ASSUME KeysTypeInv, NEW p \in Writers, Run(p)
    PROVE  \E w \in Progress, c \in Command :
              /\ writer' = [writer EXCEPT ![p] = w] /\ WriterInv(w)
              /\ keys' = [keys EXCEPT ![c.id] = c.val] /\ c.id[1] = w.name
              /\ w.pc = "run" /\ w.name = writer[p].name /\ w.name \in Instances
              /\ \A k, v : Pending(w.name, w.for, writer[p].script, k, v) =>
                     Pending(w.name, w.for, w.script, k, IF c.id = k THEN c.val ELSE v)
              /\ w.for = writer[p].for
              /\ UNCHANGED <<mesh, applied>>
<1> DEFINE v == writer[p]
           s == v.script
           c == Head(s)
           w == [v EXCEPT !.script = Tail(s)]
<1>1. v \in Progress /\ WriterInv(v) /\ v.pc = "run" /\ s \in Seq(Command) /\ s # <<>>
  BY DEF KeysTypeInv, Run, Progress
<1>2. v.name \in Instances
  BY <1>1 DEF Progress, WriterInv
<1>3. /\ writer' = [writer EXCEPT ![p].script = Tail(s)] /\ keys' = [keys EXCEPT ![c.id] = c.val]
      /\ UNCHANGED <<mesh, applied>>
  BY DEF Run
<1> HIDE DEF s
<1>4. /\ Tail(s) \in Seq(Command) /\ c \in Command /\ c = s[1] /\ 1 \in DOMAIN s
      /\ \A i \in DOMAIN Tail(s) : i + 1 \in DOMAIN s /\ Tail(s)[i] = s[i + 1]
  BY <1>1
<1>5. writer' = [writer EXCEPT ![p] = w]
  BY <1>3 DEF KeysTypeInv, s
<1>6. w \in Progress /\ w.pc = v.pc /\ w.name = v.name /\ w.for = v.for /\ w.script = Tail(s)
  BY <1>1, <1>4 DEF Progress
<1>7. WriterInv(w) /\ c.id[1] = w.name
  <2>1. \A i \in DOMAIN s : s[i].id[1] = v.name
    BY <1>1 DEF WriterInv, s
  <2> QED BY <1>1, <1>2, <1>4, <1>6, <2>1 DEF WriterInv
<1>8. \A k, x : Pending(w.name, w.for, s, k, x) =>
             Pending(w.name, w.for, Tail(s), k, IF c.id = k THEN c.val ELSE x)
  BY <1>1, RunsOne
<1>9. /\ keys' = [keys EXCEPT ![c.id] = c.val] /\ UNCHANGED <<mesh, applied>>
      /\ c \in Command /\ w.name \in Instances /\ w.pc = "run"
  BY <1>1, <1>2, <1>3, <1>4, <1>6
<1>10. \A k, x : Pending(w.name, w.for, v.script, k, x) =>
             Pending(w.name, w.for, w.script, k, IF c.id = k THEN c.val ELSE x)
  BY <1>6, <1>8 DEF s
<1> HIDE DEF w, c
<1> USE <1>6, <1>9
<1> WITNESS w \in Progress, c \in Command
<1> QED BY <1>5, <1>6, <1>7, <1>9, <1>10

LEMMA EndsIs ==
    ASSUME KeysTypeInv, NEW p \in Writers, Done(p) \/ Crash(p)
    PROVE  /\ writer[p].name \in Instances /\ writer[p] \in Progress /\ WriterInv(writer[p])
           /\ writer' = [writer EXCEPT ![p] = Resting] /\ UNCHANGED <<mesh, keys>>
<1>1. writer[p] \in Progress /\ WriterInv(writer[p]) /\ writer[p].pc # "idle"
  BY DEF KeysTypeInv, Done, Crash
<1>2. writer[p].name \in Instances
  BY <1>1 DEF Progress, WriterInv
<1> QED BY <1>1, <1>2 DEF Done, Crash

LEMMA KeysTypeStep == KeysTypeInv /\ [KeysNext]_keyVars => KeysTypeInv'
<1> SUFFICES ASSUME KeysTypeInv, [KeysNext]_keyVars PROVE KeysTypeInv'
  OBVIOUS
<1>0. /\ mesh \in [Instances -> Meshes] /\ keys \in [KeyIds -> Key]
      /\ writer \in [Writers -> Progress] /\ applied \in [Instances -> Meshes \cup {None, Unknown}]
      /\ \A p \in Writers : WriterInv(writer[p])
      /\ \A n \in Instances : applied[n] \in Meshes => Derives(applied[n])
  BY DEF KeysTypeInv
<1>a. ASSUME NEW p \in Writers, NEW w \in Progress, WriterInv(w), writer' = [writer EXCEPT ![p] = w]
      PROVE  writer' \in [Writers -> Progress] /\ \A q \in Writers : WriterInv(writer'[q])
  <2>1. writer' \in [Writers -> Progress] /\ \A q \in Writers : writer'[q] = IF q = p THEN w ELSE writer[q]
    BY <1>0, <1>a
  <2> QED BY <1>0, <1>a, <2>1
<1>1. CASE UNCHANGED keyVars
  BY <1>0, <1>1 DEF keyVars, KeysTypeInv
<1>2. ASSUME NEW p \in Writers, NEW n \in Instances, ApplyBegin(p, n) \/ RemoveBegin(p, n)
      PROVE  KeysTypeInv'
  <2>1. PICK w \in Progress : /\ writer' = [writer EXCEPT ![p] = w] /\ WriterInv(w)
                              /\ UNCHANGED <<mesh, keys, applied>>
    BY <1>2, BeginsIs
  <2>2. writer' \in [Writers -> Progress] /\ \A q \in Writers : WriterInv(writer'[q])
    BY <1>a, <2>1
  <2> QED BY <1>0, <2>1, <2>2 DEF KeysTypeInv
<1>3. ASSUME NEW p \in Writers, List(p) PROVE KeysTypeInv'
  <2>1. PICK w \in Progress : /\ writer' = [writer EXCEPT ![p] = w] /\ WriterInv(w)
                              /\ UNCHANGED <<mesh, keys, applied>>
    BY <1>3, ListIs
  <2>2. writer' \in [Writers -> Progress] /\ \A q \in Writers : WriterInv(writer'[q])
    BY <1>a, <2>1
  <2> QED BY <1>0, <2>1, <2>2 DEF KeysTypeInv
<1>4. ASSUME NEW p \in Writers, Run(p) PROVE KeysTypeInv'
  <2>1. PICK w \in Progress, c \in Command :
              /\ writer' = [writer EXCEPT ![p] = w] /\ WriterInv(w)
              /\ keys' = [keys EXCEPT ![c.id] = c.val] /\ UNCHANGED <<mesh, applied>>
    BY <1>4, RunIs
  <2>2. writer' \in [Writers -> Progress] /\ \A q \in Writers : WriterInv(writer'[q])
    BY <1>a, <2>1
  <2>3. keys' \in [KeyIds -> Key]
    BY <1>0, <2>1 DEF Command
  <2> QED BY <1>0, <2>1, <2>2, <2>3 DEF KeysTypeInv
<1>5. ASSUME NEW p \in Writers, Done(p) \/ Crash(p) PROVE KeysTypeInv'
  <2>1. /\ writer[p].name \in Instances /\ writer[p] \in Progress /\ WriterInv(writer[p])
        /\ writer' = [writer EXCEPT ![p] = Resting] /\ UNCHANGED <<mesh, keys>>
    BY <1>5, EndsIs
  <2>2. writer' \in [Writers -> Progress] /\ \A q \in Writers : WriterInv(writer'[q])
    BY <1>a, <2>1, RestingIs
  <2>3. PICK st \in Meshes \cup {None, Unknown} :
           /\ applied' = [applied EXCEPT ![writer[p].name] = st]
           /\ st \in Meshes => Derives(st)
    <3>1. CASE Done(p)
      <4>1. writer[p].for \in Meshes \cup {None} /\ (writer[p].for # None => Derives(writer[p].for))
        BY <2>1 DEF Progress, WriterInv
      <4>2. writer[p].for \in Meshes => Derives(writer[p].for)
        BY <4>1, KeysAssumption
      <4> QED BY <3>1, <4>1, <4>2 DEF Done
    <3>2. CASE Crash(p)
      BY <3>2, KeysAssumption DEF Crash
    <3> QED BY <1>5, <3>1, <3>2
  <2>4. /\ applied' \in [Instances -> Meshes \cup {None, Unknown}]
        /\ \A n \in Instances : applied'[n] \in Meshes => Derives(applied'[n])
    BY <1>0, <2>1, <2>3
  <2> QED BY <1>0, <2>1, <2>2, <2>4 DEF KeysTypeInv
<1>6. ASSUME NEW n \in Instances, MeshChanges(n) PROVE KeysTypeInv'
  <2>1. mesh' \in [Instances -> Meshes] /\ UNCHANGED <<keys, writer, applied>>
    BY <1>0, <1>6 DEF MeshChanges
  <2> QED BY <1>0, <2>1 DEF KeysTypeInv
<1> QED BY <1>1, <1>2, <1>3, <1>4, <1>5, <1>6 DEF KeysNext

\* The dynamic store, the scripts and the answers keep their types, for any number of
\* writers of the same instance, with scutil failing anywhere.
THEOREM KeysTypes == KeysSpec => []KeysTypeOK
<1>1. KeysTypeInv => KeysTypeOK
  BY DEF KeysTypeInv, KeysTypeOK, Key, Progress
<1> QED BY <1>1, KeysTypeInit, KeysTypeStep, PTL DEF KeysSpec

\* With one writer at a time for an instance: each has it for itself, what it has to do
\* is what is left of its script, and what is done stays.
Alone == \A p, q \in Writers : p # q /\ writer[p].name = writer[q].name => writer[p].name = None
Scripts ==
    \A p \in Writers : writer[p].pc = "run" =>
        \A k \in KeysOf(writer[p].name) :
            Pending(writer[p].name, writer[p].for, writer[p].script, k, keys[k])
Settled ==
    \A n \in Instances : Quiet(n) /\ applied[n] \in Meshes \cup {None} =>
        \A k \in KeysOf(n) : IsFinal(n, applied[n], k, keys[k])
KeysInv == KeysTypeInv /\ Alone /\ Scripts /\ Settled

LEMMA KeysInvInit == KeysInit => KeysInv
<1> SUFFICES ASSUME KeysInit PROVE KeysInv
  OBVIOUS
<1>1. \A p \in Writers : writer[p] = Resting
  BY DEF KeysInit
<1>2. Alone /\ Scripts
  BY <1>1, RestingIs DEF Alone, Scripts
<1>3. Settled
  <2>1. \A n \in Instances : applied[n] = None
    BY DEF KeysInit
  <2>2. \A k \in KeyIds : keys[k] = NoKey
    BY DEF KeysInit
  <2>3. \A n, k : IsFinal(n, None, k, NoKey)
    BY DEF IsFinal, Wanted
  <2> QED BY <2>1, <2>2, <2>3 DEF Settled, KeysOf
<1> QED BY <1>2, <1>3, KeysTypeInit DEF KeysInv

LEMMA KeysInvStep == Serial /\ KeysInv /\ [KeysNext]_keyVars => KeysInv'
<1> SUFFICES ASSUME Serial, KeysInv, [KeysNext]_keyVars PROVE KeysInv'
  OBVIOUS
<1>0. /\ KeysTypeInv /\ KeysTypeInv' /\ Alone /\ Scripts /\ Settled
      /\ writer \in [Writers -> Progress] /\ keys \in [KeyIds -> Key]
      /\ applied \in [Instances -> Meshes \cup {None, Unknown}] /\ None \notin Instances
  BY KeysTypeStep, KeysAssumption DEF KeysInv, KeysTypeInv
<1>1. CASE UNCHANGED keyVars
  BY <1>0, <1>1 DEF keyVars, KeysInv, Alone, Scripts, Settled, Quiet
<1>2. ASSUME NEW p \in Writers, NEW n \in Instances, ApplyBegin(p, n) \/ RemoveBegin(p, n)
      PROVE  KeysInv'
  <2>1. PICK w \in Progress : /\ writer' = [writer EXCEPT ![p] = w]
                              /\ w.pc = "list" /\ w.name = n /\ MayBegin(p, n)
                              /\ UNCHANGED <<mesh, keys, applied>>
    BY <1>0, <1>2, BeginsIs
  <2>2. \A q \in Writers : writer'[q] = IF q = p THEN w ELSE writer[q]
    BY <1>0, <2>1
  <2>3. writer[p].name = None /\ \A q \in Writers : writer[q].name # n
    BY <1>0, <2>1 DEF MayBegin, KeysTypeInv, WriterInv
  <2>4. Alone'
    BY <1>0, <2>1, <2>2, <2>3 DEF Alone
  <2>5. Scripts'
    BY <1>0, <2>1, <2>2 DEF Scripts
  <2>6. Settled'
    <3>1. \A m \in Instances : Quiet(m)' => Quiet(m)
      BY <1>0, <2>2, <2>3 DEF Quiet
    <3> QED BY <1>0, <2>1, <3>1 DEF Settled
  <2> QED BY <1>0, <2>4, <2>5, <2>6 DEF KeysInv
<1>3. ASSUME NEW p \in Writers, List(p) PROVE KeysInv'
  <2>1. PICK w \in Progress :
              /\ writer' = [writer EXCEPT ![p] = w] /\ w.name = writer[p].name
              /\ \A k \in KeysOf(w.name) : Pending(w.name, w.for, w.script, k, keys[k])
              /\ UNCHANGED <<mesh, keys, applied>>
    BY <1>0, <1>3, ListIs
  <2>2. \A q \in Writers : /\ writer'[q] = IF q = p THEN w ELSE writer[q]
                           /\ writer'[q].name = writer[q].name
    BY <1>0, <2>1
  <2>3. Alone'
    BY <1>0, <2>2 DEF Alone
  <2>4. Scripts'
    BY <1>0, <2>1, <2>2 DEF Scripts
  <2>5. Settled'
    <3>1. \A m \in Instances : Quiet(m)' => Quiet(m)
      BY <2>2 DEF Quiet
    <3> QED BY <1>0, <2>1, <3>1 DEF Settled
  <2> QED BY <1>0, <2>3, <2>4, <2>5 DEF KeysInv
<1>4. ASSUME NEW p \in Writers, Run(p) PROVE KeysInv'
  <2>1. PICK w \in Progress, c \in Command :
              /\ writer' = [writer EXCEPT ![p] = w]
              /\ keys' = [keys EXCEPT ![c.id] = c.val] /\ c.id[1] = w.name
              /\ w.name = writer[p].name /\ w.name \in Instances
              /\ \A k, v : Pending(w.name, w.for, writer[p].script, k, v) =>
                     Pending(w.name, w.for, w.script, k, IF c.id = k THEN c.val ELSE v)
              /\ w.for = writer[p].for
              /\ UNCHANGED <<mesh, applied>>
    BY <1>0, <1>4, RunIs
  <2>2. \A q \in Writers : /\ writer'[q] = IF q = p THEN w ELSE writer[q]
                           /\ writer'[q].name = writer[q].name
    BY <1>0, <2>1
  <2>3. c.id \in KeyIds /\ \A k \in KeyIds : keys'[k] = IF c.id = k THEN c.val ELSE keys[k]
    BY <1>0, <2>1 DEF Command
  <2>4. ASSUME NEW m, m # w.name, NEW k \in KeysOf(m) PROVE k \in KeyIds /\ keys'[k] = keys[k]
    BY <2>1, <2>3, <2>4 DEF KeysOf
  <2>5. Alone'
    BY <1>0, <2>2 DEF Alone
  <2>6. Scripts'
    <3> SUFFICES ASSUME NEW q \in Writers, writer'[q].pc = "run", NEW k \in KeysOf(writer'[q].name)
                 PROVE  Pending(writer'[q].name, writer'[q].for, writer'[q].script, k, keys'[k])
      BY DEF Scripts, KeysOf
    <3>1. CASE q = p
      <4>1. k \in KeysOf(writer[p].name) /\ k \in KeyIds /\ writer[p].pc = "run"
        BY <1>4, <2>1, <2>2, <3>1 DEF Run, KeysOf
      <4>2. Pending(writer[p].name, writer[p].for, writer[p].script, k, keys[k])
        BY <1>0, <4>1 DEF Scripts
      <4>3. Pending(w.name, w.for, w.script, k, IF c.id = k THEN c.val ELSE keys[k])
        BY <2>1, <4>2
      <4>4. keys'[k] = IF c.id = k THEN c.val ELSE keys[k]
        BY <2>3, <4>1
      <4> QED BY <2>2, <3>1, <4>3, <4>4
    <3>2. CASE q # p
      <4>1. writer'[q] = writer[q]
        BY <2>2, <3>2
      <4>2. writer[q].name # w.name
        BY <1>0, <2>1, <3>2 DEF Alone
      <4>3. keys'[k] = keys[k] /\ k \in KeysOf(writer[q].name)
        BY <2>4, <4>1, <4>2
      <4>4. Pending(writer[q].name, writer[q].for, writer[q].script, k, keys[k])
        BY <1>0, <4>1, <4>3 DEF Scripts
      <4> QED BY <4>1, <4>3, <4>4
    <3> QED BY <3>1, <3>2
  <2>7. Settled'
    <3>1. \A m \in Instances : Quiet(m)' => Quiet(m) /\ m # w.name
      BY <2>1, <2>2 DEF Quiet
    <3> QED BY <1>0, <2>1, <2>4, <3>1 DEF Settled, KeysOf
  <2> QED BY <1>0, <2>5, <2>6, <2>7 DEF KeysInv
<1>5. ASSUME NEW p \in Writers, Done(p) \/ Crash(p) PROVE KeysInv'
  <2>1. /\ writer[p].name \in Instances
        /\ writer' = [writer EXCEPT ![p] = Resting] /\ UNCHANGED <<mesh, keys>>
    BY <1>0, <1>5, EndsIs
  <2>2. \A q \in Writers : writer'[q] = IF q = p THEN Resting ELSE writer[q]
    BY <1>0, <2>1
  <2>3. Alone'
    BY <1>0, <2>2, RestingIs DEF Alone
  <2>4. Scripts'
    BY <1>0, <2>1, <2>2, RestingIs DEF Scripts
  <2>5. \A m \in Instances : m # writer[p].name => applied'[m] = applied[m]
    BY <1>0, <1>5, <2>1 DEF Done, Crash
  <2>6. Settled'
    <3> SUFFICES ASSUME NEW m \in Instances, Quiet(m)', applied'[m] \in Meshes \cup {None},
                        NEW k \in KeysOf(m)
                 PROVE  IsFinal(m, applied'[m], k, keys[k])
      BY <2>1 DEF Settled, KeysOf
    <3>1. CASE m # writer[p].name
      <4>1. Quiet(m) /\ applied'[m] = applied[m]
        BY <2>2, <2>5, <3>1 DEF Quiet
      <4> QED BY <1>0, <4>1 DEF Settled
    <3>2. CASE m = writer[p].name /\ Done(p)
      <4>1. applied'[m] = writer[p].for /\ writer[p].pc = "run" /\ writer[p].script = <<>>
        BY <1>0, <3>2 DEF Done
      <4>2. Pending(m, writer[p].for, <<>>, k, keys[k])
        BY <1>0, <3>2, <4>1 DEF Scripts
      <4>3. DOMAIN <<>> = {}
        OBVIOUS
      <4>4. IsFinal(m, writer[p].for, k, keys[k])
        BY <4>2, <4>3 DEF Pending
      <4> QED BY <4>1, <4>4
    <3>3. CASE m = writer[p].name /\ Crash(p)
      <4>1. applied'[m] = Unknown
        BY <1>0, <3>3 DEF Crash
      <4> QED BY <4>1, KeysAssumption
    <3> QED BY <1>5, <3>1, <3>2, <3>3
  <2> QED BY <1>0, <2>3, <2>4, <2>6 DEF KeysInv
<1>6. ASSUME NEW n \in Instances, MeshChanges(n) PROVE KeysInv'
  <2>1. UNCHANGED <<keys, writer, applied>>
    BY <1>6 DEF MeshChanges
  <2> QED BY <1>0, <2>1 DEF KeysInv, Alone, Scripts, Settled, Quiet
<1> QED BY <1>1, <1>2, <1>3, <1>4, <1>5, <1>6 DEF KeysNext

\* Between calls the keys of an instance are those of the last answer applied.
LEMMA OwnedIs ==
    ASSUME KeysInv, NEW n \in Instances, Quiet(n), NEW st \in Meshes \cup {None}, st = applied[n]
    PROVE  /\ st # None => Derives(st)
           /\ \A k \in Owned(n) : [id |-> k, val |-> keys[k]] \in Wanted(n, st)
           /\ \A c \in Wanted(n, st) : c.id \in Owned(n) /\ keys[c.id] = c.val
<1>1. st # None => Derives(st)
  BY DEF KeysInv, KeysTypeInv
<1>2. \A k \in KeysOf(n) : IsFinal(n, st, k, keys[k])
  BY DEF KeysInv, Settled
<1>3. ASSUME NEW k \in Owned(n) PROVE [id |-> k, val |-> keys[k]] \in Wanted(n, st)
  <2>1. k \in KeysOf(n) /\ keys[k] # NoKey
    BY DEF Owned, KeysOf
  <2> QED BY <1>2, <2>1 DEF IsFinal
<1>4. ASSUME NEW c \in Wanted(n, st) PROVE c.id \in Owned(n) /\ keys[c.id] = c.val
  <2>1. c \in Command /\ c.id[1] = n /\ c.val # NoKey
    BY <1>1, WantedIs
  <2>2. c.id \in KeysOf(n) /\ c.id \in KeyIds
    BY <2>1 DEF Command, KeysOf
  <2>3. [id |-> c.id, val |-> keys[c.id]] \in Wanted(n, st)
    BY <1>2, <2>2 DEF IsFinal
  <2>4. [id |-> c.id, val |-> keys[c.id]] = c
    <3> DEFINE d == [id |-> c.id, val |-> keys[c.id]]
    <3>1. d \in Wanted(n, st) /\ d.id = c.id
      BY <2>3
    <3> HIDE DEF d
    <3>2. d = c
      BY <1>1, <3>1, WantedIs
    <3> QED BY <3>2 DEF d
  <2>5. keys[c.id] = c.val
    BY <2>4
  <2> QED BY <2>1, <2>2, <2>5 DEF Owned
<1> QED BY <1>1, <1>3, <1>4

\* The same for the domains.
LEMMA DomainsAre ==
    ASSUME KeysInv, NEW n \in Instances, Quiet(n), NEW st \in Meshes, st = applied[n]
    PROVE  /\ Domains(n, "Match") = Derive(st).match /\ Domains(n, "Search") = Derive(st).search
           /\ \A k \in Owned(n) : /\ keys[k].listen = Derive(st).listen /\ Fits(keys[k].domains)
                                  /\ Range(keys[k].domains) \subseteq Derive(st).match \cup Derive(st).search
<1> DEFINE W == Wanted(n, st)
<1>0. st # None /\ st \in Meshes \cup {None}
  BY KeysAssumption
<1>1. /\ Derives(st)
      /\ \A k \in Owned(n) : [id |-> k, val |-> keys[k]] \in W
      /\ \A c \in W : c.id \in Owned(n) /\ keys[c.id] = c.val
  BY <1>0, OwnedIs
<1>2. /\ \A c \in W : c.val.listen = Derive(st).listen /\ Fits(c.val.domains)
      /\ \A x : /\ x \in Derive(st).search <=> \E c \in W : c.id[2] = "Search" /\ x \in Range(c.val.domains)
                /\ x \in Derive(st).match <=> \E c \in W : c.id[2] = "Match" /\ x \in Range(c.val.domains)
      /\ \A c \in W : c.id[2] \in {"Search", "Match"}
  BY <1>0, <1>1, WantedIs
<1> HIDE DEF W
<1>3. ASSUME NEW kind, NEW x
      PROVE  x \in Domains(n, kind) <=> \E c \in W : c.id[2] = kind /\ x \in Range(c.val.domains)
  <2>1. ASSUME x \in Domains(n, kind) PROVE \E c \in W : c.id[2] = kind /\ x \in Range(c.val.domains)
    <3>1. PICK k \in Owned(n) : k[2] = kind /\ x \in Range(keys[k].domains)
      BY <2>1 DEF Domains
    <3> DEFINE c == [id |-> k, val |-> keys[k]]
    <3>2. c \in W /\ c.id = k /\ c.val = keys[k]
      BY <1>1
    <3> HIDE DEF c
    <3> QED BY <3>1, <3>2
  <2>2. ASSUME NEW c \in W, c.id[2] = kind, x \in Range(c.val.domains) PROVE x \in Domains(n, kind)
    <3>1. c.id \in Owned(n) /\ keys[c.id] = c.val
      BY <1>1
    <3> QED BY <2>2, <3>1 DEF Domains
  <2> QED BY <2>1, <2>2
<1>4. Domains(n, "Match") = Derive(st).match /\ Domains(n, "Search") = Derive(st).search
  BY <1>2, <1>3
<1>5. ASSUME NEW k \in Owned(n)
      PROVE  /\ keys[k].listen = Derive(st).listen /\ Fits(keys[k].domains)
             /\ Range(keys[k].domains) \subseteq Derive(st).match \cup Derive(st).search
  <2> DEFINE c == [id |-> k, val |-> keys[k]]
  <2>1. c \in W /\ c.val = keys[k]
    BY <1>1
  <2> HIDE DEF c
  <2> QED BY <1>2, <2>1
<1> QED BY <1>4, <1>5

LEMMA InvOneSpec == KeysInv => OneSpec
<1> SUFFICES ASSUME KeysInv, NEW n \in Instances, Quiet(n)
             PROVE  /\ applied[n] = None => Owned(n) = {}
                    /\ applied[n] \in Meshes => Registers(n, applied[n])
  BY DEF OneSpec
<1>1. ASSUME applied[n] = None PROVE Owned(n) = {}
  <2>1. \A k \in Owned(n) : [id |-> k, val |-> keys[k]] \in Wanted(n, None)
    BY <1>1, OwnedIs
  <2> QED BY <2>1 DEF Wanted
<1>2. ASSUME applied[n] \in Meshes PROVE Registers(n, applied[n])
  <2>1. PICK st \in Meshes : st = applied[n]
    BY <1>2
  <2>2. /\ Domains(n, "Match") = Derive(st).match /\ Domains(n, "Search") = Derive(st).search
        /\ \A k \in Owned(n) : keys[k].listen = Derive(st).listen /\ Fits(keys[k].domains)
    BY <2>1, DomainsAre
  <2>3. \A b : Bytes(b) = Cardinality(BytesIn(b))
    BY DEF Bytes, BytesIn
  <2> QED BY <2>1, <2>2, <2>3 DEF Registers, Fits
<1> QED BY <1>1, <1>2

LEMMA InvStayInMesh == KeysInv => KeysStayInMesh
<1> SUFFICES ASSUME KeysInv, NEW n \in Instances, Known(n), NEW k \in Owned(n)
             PROVE  LET net == ParseAddr(applied[n].ip)
                    IN /\ net.bits < Width => keys[k].listen \in Addresses(net)
                       /\ \A d \in Range(keys[k].domains) \ Named(applied[n]) :
                             IsZone(d) /\ ZoneAddresses(d) \subseteq Addresses(net)
  BY DEF KeysStayInMesh
<1>1. PICK st \in Meshes : st = applied[n] /\ Quiet(n)
  BY DEF Known
<1>2. /\ keys[k].listen = Derive(st).listen
      /\ Range(keys[k].domains) \subseteq Derive(st).match \cup Derive(st).search
  BY <1>1, DomainsAre
<1>3. Derives(st)
  BY <1>1 DEF KeysInv, KeysTypeInv
<1>4. /\ st.ip \in Prefix /\ Derive(st).listen = ResolverAddr(st.ip)
      /\ Derive(st).search = st.peer
      /\ Derive(st).match = Named(st) \cup {ReverseZone(st.ip)}
  BY <1>3, DeriveIs
<1>5. ParseAddr(st.ip) = Masked(st.ip)
  BY <1>3, <1>4, PrefixIs DEF ParseAddr, Derives
<1>6. Addresses(ParseAddr(st.ip)) = Addresses(st.ip) /\ ParseAddr(st.ip).bits = st.ip.bits
  BY <1>4, <1>5, MaskedAddresses, MaskedIs, PrefixIs
<1>7. ASSUME ParseAddr(st.ip).bits < Width PROVE keys[k].listen \in Addresses(ParseAddr(st.ip))
  BY <1>2, <1>4, <1>6, <1>7, ResolverInside
<1>8. ASSUME NEW d \in Range(keys[k].domains) \ Named(st)
      PROVE  IsZone(d) /\ ZoneAddresses(d) \subseteq Addresses(ParseAddr(st.ip))
  <2>1. d = ReverseZone(st.ip)
    BY <1>2, <1>4 DEF Named
  <2> QED BY <1>4, <2>1, ZoneInside
<1> QED BY <1>1, <1>7, <1>8

LEMMA InvPtr == KeysInv => PtrReachesMesh
<1> SUFFICES ASSUME KeysInv, NEW n \in Instances, Known(n), applied[n].ip.bits % Octet = 0
             PROVE  Addresses(ParseAddr(applied[n].ip))
                      \subseteq UNION {ZoneAddresses(d) : d \in {z \in Domains(n, "Match") : IsZone(z)}}
  BY DEF PtrReachesMesh
<1>1. PICK st \in Meshes : st = applied[n] /\ Quiet(n)
  BY DEF Known
<1>2. Derives(st) /\ Domains(n, "Match") = Derive(st).match
  BY <1>1, DomainsAre DEF KeysInv, KeysTypeInv
<1>3. st.ip \in Prefix /\ ReverseZone(st.ip) \in Domains(n, "Match")
  BY <1>2, DeriveIs
<1>4. IsZone(ReverseZone(st.ip)) /\ Addresses(ParseAddr(st.ip)) \subseteq ZoneAddresses(ReverseZone(st.ip))
  BY <1>1, <1>3, ZoneInside
<1> QED BY <1>1, <1>3, <1>4

LEMMA KeysInvariant == Serial => (KeysSpec => []KeysInv)
<1> SUFFICES ASSUME Serial PROVE KeysSpec => []KeysInv
  OBVIOUS
<1>1. KeysInv /\ [KeysNext]_keyVars => KeysInv'
  BY KeysInvStep
<1> QED BY <1>1, KeysInvInit, PTL DEF KeysSpec

\* platform_darwin.go on ApplyHostDNS: "remove its stale keys, set the new ones".  With one
\* call at a time for an instance, calls of other instances interleaved command by
\* command and scutil cut off anywhere, the keys of an instance are, when a call has
\* finished, the registration of the Status answer it applied, in batches scutil accepts,
\* and none after a removal.
THEOREM OneRegistration == ASSUME Serial PROVE KeysSpec => []OneSpec
BY InvOneSpec, KeysInvariant, PTL

\* hostdns.go: the resolver is "reachable only through the tunnel", reverse zones are "for
\* the mesh's own ranges": what is registered leads to addresses of the network only.
THEOREM StaysInMesh == ASSUME Serial PROVE KeysSpec => []KeysStayInMesh
BY InvStayInMesh, KeysInvariant, PTL

\* hostdns.go: "so PTR lookups reach the mesh": a domain registered catches the lookup of
\* every address of a network that ends at an octet.
THEOREM PtrReaches == ASSUME Serial PROVE KeysSpec => []PtrReachesMesh
BY InvPtr, KeysInvariant, PTL
=============================================================================
