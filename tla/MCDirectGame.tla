---------------------------- MODULE MCDirectGame ----------------------------
(***************************************************************************)
(* Instances of DirectGame for TLC.  Lamports and ANSEM come in single     *)
(* units, so that every division in the payout arithmetic really rounds.   *)
(***************************************************************************)
EXTENDS DirectGame, TLC

(* A 2-square board: each square as the winner, a fraction that rounds, an *)
(* extreme one, and draws that pass and fail the 1-in-2 trigger.           *)
TwoSquareDraws ==
  { [square |-> 0, x |-> [s \in 0..1 |-> 3333], trigger |-> 0],
    [square |-> 1, x |-> [s \in 0..1 |-> 5000], trigger |-> 1] }

(* A 3-square board, for rounding over several losing squares at once. *)
ThreeSquareDraws ==
  { [square |-> 0, x |-> 0 :> 0 @@ 1 :> 3333 @@ 2 :> 1250, trigger |-> 0],
    [square |-> 2, x |-> 0 :> 4999 @@ 1 :> 777 @@ 2 :> 1, trigger |-> 1] }

Base ==
  [round_duration_secs |-> 1, claim_window_secs |-> 1, fee_bps |-> 1000,
   mult_min_bps |-> 0, mult_max_bps |-> 5000, min_stake |-> 1,
   max_stake_per_round |-> 3, min_swap_rate |-> 1, trigger_odds |-> 2,
   cap_mult |-> 2]

(* Two bands for the admin to move between, the second giving back less. *)
TwoBands == {Base, [Base EXCEPT !.mult_min_bps = 1000, !.mult_max_bps = 2000]}

(* At most one unit each: many rounds on a sparse board. *)
Sparse == {[Base EXCEPT !.max_stake_per_round = 1]}
SparseBase == [Base EXCEPT !.max_stake_per_round = 1]

(* A second setting that differs in every field, and a band and a fee the  *)
(* setters refuse.                                                         *)
Settings ==
  { SparseBase,
    [round_duration_secs |-> 0, claim_window_secs |-> 0, fee_bps |-> 0,
     mult_min_bps |-> 5000, mult_max_bps |-> 9000, min_stake |-> 0,
     max_stake_per_round |-> 2, min_swap_rate |-> 0, trigger_odds |-> 0,
     cap_mult |-> 0],
    [SparseBase EXCEPT !.fee_bps = 5000, !.mult_min_bps = 4000] }

=============================================================================
