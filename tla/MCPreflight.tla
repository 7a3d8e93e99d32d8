---------------------------- MODULE MCPreflight ----------------------------
(* Small instances of Preflight for TLC: addresses of 3 bits.               *)
EXTENDS Preflight, TLC

Domain(name, form) == [name |-> name, form |-> form]
Corp == Domain(<<"corp">>, "lower")
CorpToo == Domain(<<"corp">>, "Upper.")
Lab == Domain(<<"lab">>, "lower")

Group(domains) == [enabled |-> TRUE, domains |-> domains]
Off(domains) == [enabled |-> FALSE, domains |-> domains]
Route(addr, bits, selected) == [prefix |-> [addr |-> addr, bits |-> bits], selected |-> selected]

Mesh(addr, bits, peer, groups, routes) ==
    [ip |-> [addr |-> addr, bits |-> bits], peer |-> {peer}, groups |-> groups, routes |-> routes]

World(modes, meshes) ==
    [mode |-> ("n1" :> modes[1]) @@ ("n2" :> modes[2]),
     mesh |-> ("n1" :> meshes[1]) @@ ("n2" :> meshes[2]), faults |-> {}]

\* Networks that are equal, nested and apart, their DNS claims disjoint.
MCRanges ==
    {World(<<"native", "native">>, <<Mesh(5, i, <<"one">>, {Group({Corp})}, {}),
                                     Mesh(j, k, <<"two">>, {Group({Lab})}, {})>>) :
        i \in {Bare} \cup 1..Width, j \in {1, 4, 5}, k \in {Bare, 2, Width}}

\* Disjoint networks, pairs of routes and of nameserver groups.
Routes == {{}, {Route(0, 1, TRUE)}, {Route(6, 1, TRUE)}, {Route(6, 3, TRUE)}, {Route(6, 2, FALSE)}}
Claims == {{Group({Corp})}, {Group({CorpToo, Lab})}, {Off({Corp})}, {Group({}), Group({Lab})}, {}}
Apart(modes, claims, routes) ==
    {World(m, <<Mesh(1, 2, <<"one">>, c[1], r[1]), Mesh(3, 2, <<"two">>, c[2], r[2])>>) :
        m \in modes, c \in claims, r \in routes \X routes}
MCRoutes == Apart({<<"native", "native">>}, {<<{Group({Corp})}, {Group({Lab})}>>}, Routes)
MCClaims == Apart({<<"multibird", "native">>, <<"multibird", "disabled">>, <<"multibird", "legacy">>}, Claims \X Claims, {{}})

\* Some of these routes with slow engines and failing calls.
MCFaulty == {[w EXCEPT !.faults = Faults] :
                w \in {v \in MCRoutes : v.mesh["n1"].routes = {Route(6, 1, TRUE)}}}

MCWorlds == MCRanges \cup MCRoutes \cup MCClaims \cup MCFaulty
=============================================================================
