----------------------------- MODULE MCBeefLayer -----------------------------
(***************************************************************************)
(* Instances of BeefLayer for TLC: a cap of a few BEEF, emissions that the *)
(* cap cuts and that do not divide among the stakers, and settings with    *)
(* and without a bonus.                                                    *)
(***************************************************************************)
EXTENDS BeefLayer, TLC

Flat == [max_round_mint |-> 12, sat_lamports |-> 1, tick_bps |-> 0,
         bonus_cap_bps |-> 10000, activity_window_secs |-> 1, secs_per_tick |-> 1]
Richer == [Flat EXCEPT !.max_round_mint = 40]

(* The bonus runs for one second past the last roll, at +50% a second.     *)
Growing == [Flat EXCEPT !.tick_bps = 5000]

(* The last one is refused: it would divide by zero. *)
FlatChoices    == {Flat, Richer, [Flat EXCEPT !.secs_per_tick = 0]}
GrowingChoices == {Growing, [Growing EXCEPT !.tick_bps = 3000, !.bonus_cap_bps = 4000]}
=============================================================================
