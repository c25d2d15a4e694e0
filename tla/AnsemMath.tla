------------------------------ MODULE AnsemMath ------------------------------
(***************************************************************************)
(* The payout arithmetic of programs/ansem-miner/src/math.rs.  All of it   *)
(* is integer arithmetic that floors, in u128 intermediates wide enough    *)
(* for its u64 inputs, so plain naturals lose nothing.                     *)
(*                                                                         *)
(* A draw stands for the 32 bytes of randomness.  The program only looks   *)
(* at three hashes of them, so a draw is the record of what it reads off:  *)
(*   square   the jackpot square (jackpot_block),                          *)
(*   x        per square, the u16 that picks its return fraction,          *)
(*   trigger  the number whose residue decides the jackpot trigger.        *)
(***************************************************************************)
EXTENDS Sums

CONSTANT GRID_SIZE            \* squares on the board: 25 in the program

ASSUME GridAssumption == GRID_SIZE \in Nat \ {0}

Square == 0 .. GRID_SIZE - 1
BPS    == 10000

NoStake == [s \in Square |-> 0]

(* Lamports one stake vector holds over the whole grid. *)
Total(stake) == SumBelow(stake, GRID_SIZE)

(* The fraction square s returns, uniform in lo .. hi basis points. *)
multiplier_bps(draw, s, lo, hi) == lo + (draw.x[s] % (hi - lo + 1))

(* Stake times fraction over the squares that did not win the jackpot. *)
return_weight(stake, draw, lo, hi) ==
  SumBelow([s \in Square |-> IF s = draw.square THEN 0
                             ELSE stake[s] * multiplier_bps(draw, s, lo, hi)],
           GRID_SIZE)

nonjackpot_payout(weight, pot, proceeds) ==
  IF pot = 0 THEN 0 ELSE (proceeds * weight) \div (pot * BPS)

jackpot_share(pool, mine, total) ==
  IF total = 0 THEN 0 ELSE (pool * mine) \div total

jackpot_triggered(draw, odds) == odds <= 1 \/ draw.trigger % odds = 0
=============================================================================
