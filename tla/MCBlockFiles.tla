---------------------------- MODULE MCBlockFiles ----------------------------
(* The values of the constants of BlockFiles's runs.                       *)
EXTENDS BlockFiles, TLC

CONSTANTS t1, t2, t3, k1, k2

\* Transfers are alike.
Alike == Permutations({t1, t2, t3})

=============================================================================
