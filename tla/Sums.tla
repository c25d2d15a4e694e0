-------------------------------- MODULE Sums --------------------------------
(***************************************************************************)
(* Finite sums over 0 .. n-1, the shape of every total the program keeps:  *)
(* the stakes of one miner over the grid, the stakes of all players on one *)
(* square, the outstanding entitlement of all rounds.  The sum is the last *)
(* entry of the function of prefix sums, a recursive function rather than  *)
(* a fold, so that SumsTheorems can prove facts about it.                  *)
(***************************************************************************)
EXTENDS Integers

(* below[i] = f[0] + ... + f[i-1] *)
SumBelow(f, n) ==
  LET below[i \in 0..n] == IF i = 0 THEN 0 ELSE below[i-1] + f[i-1]
  IN  below[n]
=============================================================================
