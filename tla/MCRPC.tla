------------------------------- MODULE MCRPC -------------------------------
(* The values of the constants of RPC's runs.                              *)
EXTENDS RPC, TLC

CONSTANTS a1, a2, a3, a4

SeedId    == {}
Alice     == {0}
Nobody    == {}
JustAlice == {Alice}

\* The seed sees the two others in one bucket, they see each other in another.
Peers  == {{}, {0}, {1}}
Behind == {{0}, {1}}
Homes  == {} :> a1 @@ {0} :> a2 @@ {1} :> a3

\* Alice and Bob bootstrap and look someone up.
BootAndFind == {} :> 0 @@ {0} :> 2 @@ {1} :> 2

\* Bob bootstraps, and the seed looks someone up.
SeedFinds == {} :> 1 @@ {0} :> 0 @@ {1} :> 1

=============================================================================
