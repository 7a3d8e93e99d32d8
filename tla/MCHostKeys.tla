----------------------------- MODULE MCHostKeys -----------------------------
(* Small instances of HostKeys for TLC: addresses of 4 bits in octets of 2,  *)
(* at most two domains or four bytes per key.                                *)
EXTENDS HostKeys, TLC

Domain(name, form) == [name |-> name, form |-> form]
Corp == Domain(<<"corp">>, "lower")
CorpToo == Domain(<<"corp">>, "Upper.")
Lab == Domain(<<"lab">>, "lower")
Home == Domain(<<"home">>, "lower")

Status(addr, bits, groups) ==
    [ip |-> [addr |-> addr, bits |-> bits], peer |-> {<<"mesh">>}, groups |-> groups, routes |-> {}]
Group(domains) == [enabled |-> TRUE, domains |-> domains]
Off(domains) == [enabled |-> FALSE, domains |-> domains]

\* Several batches; one batch, in a network that does not end at an octet; and
\* two answers nothing is derived from, a bare address and a primary claim.
Large == Status(14, 2, {Group({Corp, Lab}), Group({CorpToo, Home})})
Small == Status(13, 3, {Off({})})
NotCIDR == Status(6, Bare, {})
RouteAll == Status(6, 2, {Group({})})

MCMeshes == {Large, Small, NotCIDR, RouteAll}
=============================================================================
