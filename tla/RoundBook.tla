------------------------------ MODULE RoundBook ------------------------------
(***************************************************************************)
(* The part of the game other layers build on, with the money left out:    *)
(* rounds one after another, what each player has staked in the round the  *)
(* player's one position is stamped with, and each round's pot.  The draw, *)
(* the clock and the limits on a stake are chosen freely.  DirectGame      *)
(* implements it; BeefLayer runs on top of it.                             *)
(***************************************************************************)
EXTENDS Sums

CONSTANTS NumPlayers, MaxRounds, Amounts

Player  == 0 .. NumPlayers - 1
RoundId == 0 .. MaxRounds

VARIABLES cursor,   \* the newest round
          phase,    \* RoundId -> where the round is in its life
          pot,      \* RoundId -> lamports staked in it
          stamp,    \* Player -> the round the position is stamped with
          held      \* Player -> lamports the position holds there

bookVars == <<cursor, phase, pot, stamp, held>>

Live == {"open", "drawing"}

Init ==
  /\ cursor = 0
  /\ phase = [r \in RoundId |-> "absent"] /\ pot = [r \in RoundId |-> 0]
  /\ stamp = [p \in Player |-> 0] /\ held = [p \in Player |-> 0]

Open ==
  /\ cursor < MaxRounds
  /\ phase[cursor] \notin Live
  /\ cursor' = cursor + 1
  /\ phase' = [phase EXCEPT ![cursor + 1] = "open"]
  /\ UNCHANGED <<pot, stamp, held>>

(* A stake joins what the position holds in this round; what it held in an *)
(* earlier one is forgotten.                                               *)
Carried(p, amount) == held[p] + amount                      \* mutant of Joined
Joined(p, amount) == amount + (IF stamp[p] = cursor THEN held[p] ELSE 0)

Stake(p, amount) ==
  /\ phase[cursor] = "open"
  /\ pot' = [pot EXCEPT ![cursor] = @ + amount]
  /\ stamp' = [stamp EXCEPT ![p] = cursor]
  /\ held' = [held EXCEPT ![p] = Joined(p, amount)]
  /\ UNCHANGED <<cursor, phase>>

Moves(from, to) ==
  /\ phase[cursor] \in from
  /\ phase' = [phase EXCEPT ![cursor] = to]
  /\ UNCHANGED <<cursor, pot, stamp, held>>

Draw   == Moves({"open"}, "drawing")
Swap   == Moves({"drawing"}, "claimable")
Cancel == Moves(Live, "closed")

(* A claim or a refund: the position keeps its stamp and loses its stakes. *)
Spend(p) ==
  /\ phase[stamp[p]] \in {"claimable", "closed"}
  /\ held' = [held EXCEPT ![p] = 0]
  /\ UNCHANGED <<cursor, phase, pot, stamp>>

Reap(r) ==
  /\ phase[r] = "claimable" \/ (phase[r] = "closed" /\ pot[r] = 0)
  /\ phase' = [phase EXCEPT ![r] = "absent"]
  /\ pot' = [pot EXCEPT ![r] = 0]
  /\ UNCHANGED <<cursor, stamp, held>>

Next ==
  \/ Open
  \/ \E p \in Player, a \in Amounts : Stake(p, a)
  \/ Draw
  \/ Swap
  \/ Cancel
  \/ \E p \in Player : Spend(p)
  \/ \E r \in RoundId : Reap(r)

Spec == Init /\ [][Next]_bookVars

(* The stakes the positions hold in a round never exceed its pot: whatever *)
(* is shared out pro rata of the pot is shared out at most once.           *)
StakesFit ==
  \A r \in RoundId : phase[r] # "absent" =>
     SumBelow([p \in Player |-> IF stamp[p] = r THEN held[p] ELSE 0], NumPlayers) <= pot[r]
=============================================================================
