------------------------------ MODULE StakeClient ------------------------------
(***************************************************************************)
(* The app's client of the escrow game (app/src/lib/writes.ts): enterRound *)
(* sends one transaction that joins the round and mints a session token,   *)
(* and gaslessStake, signed by that session, adds one amount to a square   *)
(* on the rollup.  Both send without preflight, so what became of a        *)
(* transaction is found out by reading, and reads fail.                    *)
(*                                                                         *)
(* A stake that is sent takes effect before the next read (2.5 s later on  *)
(* a rollup) or never.                                                     *)
(***************************************************************************)
EXTENDS Naturals

CONSTANTS
  VerifyTries, BaselineTries, StakeTries,    \* bounds of the retry loops: 8, 8 and 12
  MaxCalls                                   \* bound: calls of gaslessStake

Unknown == [round |-> "unknown", staked |-> 0]

VARIABLES
  entry,              \* the entry transaction: "none", "sent", "landed", "failed" or "expired"
  session,            \* the page keeps the session key for this round
  er,                 \* the square of the miner position on the rollup, in amounts
  begun,              \* calls of gaslessStake so far
  step,               \* where the client is
  tries,
  target, sent        \* of the running call

svars == <<entry, session, er, begun, step, tries, target, sent>>

Init ==
  /\ entry = "none" /\ session = FALSE
  /\ er \in {[round |-> "last", staked |-> 1], [round |-> "this", staked |-> 0]}
  /\ begun = 0 /\ step = "enter" /\ tries = 0
  /\ target = 0 /\ sent = FALSE

-----------------------------------------------------------------------------
(* enterRound *)

Stays == UNCHANGED <<er, begun, target, sent>>

SendEntry ==
  /\ step = "enter"
  /\ entry' = "sent" /\ step' = "confirm"
  /\ Stays /\ UNCHANGED <<session, tries>>

EntryResolves ==
  /\ entry = "sent"
  /\ entry' \in {"landed", "failed", "expired"}
  /\ Stays /\ UNCHANGED <<session, step, tries>>

Persist == session' = TRUE /\ step' = "wait" /\ UNCHANGED tries

(* confirmTransaction answers with or without an error, or throws on a     *)
(* transaction that may have landed.                                       *)
Confirm ==
  /\ step = "confirm"
  /\ \/ entry = "landed" /\ Persist
     \/ entry = "failed" /\ step' = "threw" /\ UNCHANGED <<session, tries>>
     \/ step' = "verify" /\ tries' = 0 /\ UNCHANGED session
  /\ Stays /\ UNCHANGED entry

Hopeful(seen) == TRUE                                       \* mutant of Minted
Minted(seen) == seen

(* verifyLanded looks for the session token; a read that fails is one that *)
(* did not find it.                                                        *)
Verify ==
  /\ step = "verify"
  /\ \E seen \in {entry = "landed", FALSE} :
        IF Minted(seen) THEN Persist
        ELSE /\ tries' = tries + 1
             /\ step' = IF tries' = VerifyTries THEN "threw" ELSE "verify"
             /\ UNCHANGED session
  /\ Stays /\ UNCHANGED entry

(* The waits for L1 and the rollup to show the entry, which may give up.   *)
Propagated ==
  /\ step = "wait" /\ step' \in {"ready", "threw"}
  /\ Stays /\ UNCHANGED <<entry, session, tries>>

-----------------------------------------------------------------------------
(* gaslessStake *)

Read == {er, Unknown}
Held(m) == IF m.round = "this" THEN m.staked ELSE 0

Goes(to) == step' = to /\ UNCHANGED <<entry, session, er, begun>>

Begin ==
  /\ step = "ready" /\ begun < MaxCalls
  /\ begun' = begun + 1 /\ step' = "baseline" /\ tries' = 0 /\ sent' = FALSE
  /\ UNCHANGED <<entry, session, er, target>>

Baseline ==
  /\ step = "baseline"
  /\ tries' = tries + 1
  /\ \E m \in Read :
        IF m = Unknown
        THEN /\ Goes(IF tries' = BaselineTries THEN "threw" ELSE "baseline")
             /\ UNCHANGED target
        ELSE Goes("stake") /\ target' = Held(m) + 1
  /\ UNCHANGED sent

Landed(m) == m.round = "this" /\ m.staked >= target

AlwaysResend(m) == FALSE                                    \* mutant of HoldOff
HoldOff(m) == sent /\ m.round # "this"

(* A stake adds to this round's amount; the first one resets last round's. *)
SendStake ==
  /\ \/ er' = [round |-> "this", staked |-> Held(er) + 1]
     \/ UNCHANGED er
  /\ sent' = TRUE

StakeOnce ==
  /\ step = "stake" /\ tries < BaselineTries + StakeTries
  /\ \E m \in Read :
        \/ Landed(m) /\ Goes("ready") /\ UNCHANGED <<tries, sent>>
        \/ /\ ~ Landed(m) /\ tries' = tries + 1
           /\ IF HoldOff(m)
              THEN UNCHANGED <<entry, session, er, begun, step, sent>>
              ELSE SendStake /\ UNCHANGED <<entry, session, begun, step>>
  /\ UNCHANGED target

(* After the last try it waits for the stake to show, or throws. *)
AwaitStake ==
  /\ step = "stake" /\ tries = BaselineTries + StakeTries
  /\ \/ Landed(er) /\ Goes("ready")
     \/ Goes("threw")
  /\ UNCHANGED <<tries, target, sent>>

Next ==
  \/ SendEntry \/ EntryResolves \/ Confirm \/ Verify \/ Propagated
  \/ Begin \/ Baseline \/ StakeOnce \/ AwaitStake

Spec == Init /\ [][Next]_svars

-----------------------------------------------------------------------------
(* Properties *)

(* writes.ts:69, "never persist a phantom session": the page keeps a       *)
(* session only if its token was minted, however the confirmation went.    *)
NoPhantomSession == session => entry = "landed"

(* writes.ts:154, "Land exactly one additive +amount": no call adds twice, *)
(* whichever sends are lost and whichever reads fail, and when calls       *)
(* return each has added its own.                                          *)
OneStakePerCall ==
  /\ Held(er) <= begun
  /\ step = "ready" => Held(er) = begun
=============================================================================
