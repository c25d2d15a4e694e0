------------------------------ MODULE BeefMath -------------------------------
(***************************************************************************)
(* The BEEF arithmetic of programs/ansem-miner/src/math.rs.  Every quotient *)
(* is a floor, as there.                                                   *)
(***************************************************************************)
EXTENDS Integers

BPS == 10000

Least(a, b) == IF a <= b THEN a ELSE b
Minus(a, b) == IF b <= a THEN a - b ELSE 0        \* saturating_sub

(* One tick per secs_per_tick up to the end of the activity window. *)
beef_ticks(now, last_tick_ts, last_active_ts, window_secs, secs_per_tick) ==
  Minus(Least(now, last_active_ts + window_secs), last_tick_ts) \div secs_per_tick

beef_bonus_delta(ticks, tick_bps, bonus_bps, cap_bps) ==
  Least(ticks * tick_bps, Minus(cap_bps, bonus_bps))

beef_owed_delta(unclaimed, delta_bps) == (unclaimed * delta_bps) \div BPS

(* The weighted-average bonus once share joins what was held at bonus_bps. *)
beef_dilute(bonus_bps, unclaimed, share) ==
  IF unclaimed + share = 0 THEN 0 ELSE (bonus_bps * unclaimed) \div (unclaimed + share)

beef_share(emission, stake_sum, pot) ==
  IF pot = 0 THEN 0 ELSE (emission * stake_sum) \div pot

beef_payout(unclaimed, bonus_bps) == (unclaimed * (BPS + bonus_bps)) \div BPS

(* The saturating curve of the pot, thinned by what is left under the cap. *)
beef_emission(pot, max_round_mint, sat_lamports, minted_total, hard_cap) ==
  IF pot = 0 \/ max_round_mint = 0 \/ hard_cap = 0 \/ minted_total >= hard_cap THEN 0
  ELSE (((max_round_mint * pot) \div (pot + sat_lamports)) * (hard_cap - minted_total))
         \div hard_cap
=============================================================================
