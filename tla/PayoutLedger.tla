---------------------------- MODULE PayoutLedger ----------------------------
(***************************************************************************)
(* What the ANSEM side of the game promises, with the game left out: the   *)
(* vault holds a rollover that belongs to future winners and, per round,   *)
(* an amount owed to that round's claimants.  Proceeds are earmarked in    *)
(* full when they arrive, a payment comes out of its own round's earmark   *)
(* only, and what a round forfeits joins the rollover.  Nothing else moves *)
(* ANSEM or an earmark.  DirectGame implements this.                       *)
(***************************************************************************)
EXTENDS Integers

CONSTANT RoundId

VARIABLES rollover,   \* ANSEM no round owns yet
          owed,       \* RoundId -> ANSEM its claimants can still draw
          vault       \* ANSEM held

vars == <<rollover, owed, vault>>

Init == rollover = 0 /\ owed = [r \in RoundId |-> 0] /\ vault = 0

OnlyOwed(r) == owed' = [owed EXCEPT ![r] = owed'[r]] /\ owed'[r] >= 0

(* vault' - vault comes in; it and part of the rollover go to round r, or  *)
(* part of it to the rollover.  What is earmarked grows by what came in.   *)
Fund(r) ==
  /\ vault' >= vault
  /\ OnlyOwed(r)
  /\ owed[r] = 0
  /\ rollover' >= 0
  /\ rollover' + owed'[r] = rollover + (vault' - vault)

Pay(r) ==
  /\ vault' <= vault
  /\ OnlyOwed(r)
  /\ owed[r] - owed'[r] = vault - vault'
  /\ UNCHANGED rollover

Forfeit(r) ==
  /\ owed' = [owed EXCEPT ![r] = 0]
  /\ rollover' = rollover + owed[r]
  /\ UNCHANGED vault

Next == \E r \in RoundId : Fund(r) \/ Pay(r) \/ Forfeit(r)

Spec == Init /\ [][Next]_vars
=============================================================================
