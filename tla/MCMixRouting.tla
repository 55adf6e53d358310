---------------------------- MODULE MCMixRouting ----------------------------
(* MixRouting with two hosts on one graph: two clients and two clips of one *)
(* host, a client of the other, and two groups.                             *)
EXTENDS MixRouting, TLC

CONSTANTS a, b, c, k1, k2, g1, g2

TwoHosts == a :> "h1" @@ b :> "h1" @@ c :> "h2" @@ k1 :> "h1" @@ k2 :> "h1"

Symmetric == Permutations({a, b}) \union Permutations({g1, g2}) \union Permutations({k1, k2})

=============================================================================
