------------------------------ MODULE MCDiscoverRoles ------------------------------
\* Two versions of the code, each with a role of its own and one in common; two roles
\* of one domain, so that the best of the other domain is picked before the second one.
EXTENDS DiscoverRoles, TLC
CONSTANTS r1, r2, r3, v1, v2
MCSeeds == v1 :> {r1, r2} @@ v2 :> {r2, r3}
MCScore == r1 :> 3 @@ r2 :> 2 @@ r3 :> 1
MCDomain == r1 :> "a" @@ r2 :> "a" @@ r3 :> "b"
\* The shortlist shares nothing with the rest; the recommendations only the catalog.
MCTogether == {{"discover"}, {"job", "put", "clear"}, {"save"}}
Symmetric == Permutations(Actors) \cup Permutations(Processes)
=============================================================================
