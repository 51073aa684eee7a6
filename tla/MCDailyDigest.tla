---------------------------- MODULE MCDailyDigest ----------------------------
(* TLC instance of DailyDigest: symmetry of the workers.                    *)
EXTENDS DailyDigest, TLC

Symmetry == Permutations(Workers)
=============================================================================
