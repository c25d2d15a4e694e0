----------------------------- MODULE MCOffChain -----------------------------
(***************************************************************************)
(* The components off the chain for TLC.  They share no state, so a        *)
(* behaviour runs one of them, the one it starts with; the others keep one *)
(* of their initial states throughout.                                     *)
(***************************************************************************)
EXTENDS Integers, FiniteSets

CONSTANTS
  Sol, Rates, Pots, FeeBps, MinSol, KeepSol, Cadence, Stock,     \* treasury
  MaxSettled, MaxMoves, MaxTrouble,
  Cells, LastRound, MaxReplays,                                  \* reveal
  LastRoundId, MaxInFlight,                                      \* controls
  VerifyTries, BaselineTries, StakeTries, MaxCalls               \* client

ASSUME OffChainAssumption ==
  /\ Sol \in Nat \ {0} /\ FeeBps \in Nat /\ KeepSol \in Nat /\ Stock \in Nat
  /\ Rates \subseteq Nat /\ Pots \subseteq Nat
  /\ LastRoundId \in Nat \ {0}

VARIABLES
  running,
  call, known, built,
  market, settled, floor, inventory, treasury, wallet, leg, amount, ticks, update, left,
  live, cold, snapshot, playedRound, lastFinished, snapshotOverride,
  showing, cells, jackpotShown, sweeping, timers, replays,
  stateOf, position, forfeited, board, miner, loaded, stakedRoundState, tx, reads, polls,
  entry, session, er, begun, step, tries, target, sent

Builders == INSTANCE InstructionBuilders
Treasury == INSTANCE KeeperTreasury
Reveal   == INSTANCE RevealShow
Controls == INSTANCE PlayControls
Client   == INSTANCE StakeClient

builders == <<call, known, built>>
money    == <<market, settled, floor, inventory, treasury, wallet,
              leg, amount, ticks, update, left>>
show     == <<live, cold, snapshot, playedRound, lastFinished, snapshotOverride,
              showing, cells, jackpotShown, sweeping, timers, replays>>
page     == <<stateOf, position, forfeited, board, miner, loaded,
              stakedRoundState, tx, reads, polls>>
client   == <<entry, session, er, begun, step, tries, target, sent>>

mcvars == <<running, builders, money, show, page, client>>

Init ==
  /\ running \in {"builders", "treasury", "reveal", "controls", "client"}
  /\ Builders!Init /\ Treasury!Init /\ Reveal!Init /\ Controls!Init /\ Client!Init
  /\ running # "builders" => call = Builders!claimBeefIx
  /\ running # "treasury" => market = CHOOSE rate \in Rates : TRUE
  /\ running # "reveal"   => lastFinished = Reveal!NoSnap
  /\ running # "controls" => position = Controls!Nothing /\ stateOf[1] = "open"
  /\ running # "client"   => er.round = "this"

Others(x) ==
  /\ running = x /\ UNCHANGED running
  /\ x # "builders" => UNCHANGED builders
  /\ x # "treasury" => UNCHANGED money
  /\ x # "reveal"   => UNCHANGED show
  /\ x # "controls" => UNCHANGED page
  /\ x # "client"   => UNCHANGED client

Next ==
  \/ running = "builders" /\ Builders!Next /\ Others("builders")
  \/ running = "treasury" /\ Treasury!Next /\ Others("treasury")
  \/ running = "reveal"   /\ Reveal!Next   /\ Others("reveal")
  \/ running = "controls" /\ Controls!Next /\ Others("controls")
  \/ running = "client"   /\ Client!Next   /\ Others("client")

(* Each component's fairness, while it runs. *)
Fairness ==
  /\ WF_builders(running = "builders" /\ Builders!Next)
  /\ WF_money(running = "treasury" /\ Treasury!MainLoop)
  /\ WF_money(running = "treasury" /\ Treasury!FloorLoop)
  /\ WF_show(running = "reveal" /\ Reveal!TimerFires)
  /\ WF_page(running = "controls" /\ Controls!ReadPosition)
  /\ WF_page(running = "controls" /\ Controls!PositionArrives)
  /\ WF_page(running = "controls" /\ Controls!PollRound)
  /\ WF_page(running = "controls" /\ Controls!PollArrives)

Spec == Init /\ [][Next]_mcvars /\ Fairness

-----------------------------------------------------------------------------
(* InstructionBuilders: every builder ends up with a whole instruction,    *)
(* which the program takes unless it waits for the SDK to catch up.        *)
BuiltAndTaken == running = "builders" => Builders!BuiltAndTaken

(* InstructionBuilders: only accounts the caller passes sign. *)
SignersPassed == Builders!SignersPassed

(* KeeperTreasury: settled rounds are paid in the end. *)
RoundsPaid == Treasury!RoundsPaid

(* KeeperTreasury: the payout floor follows the market. *)
FloorTracks == Treasury!FloorTracks

(* KeeperTreasury: no round is paid nothing. *)
NeverPaidNothing == Treasury!NeverPaidNothing

(* RevealShow: no timer outlives its show. *)
NoStraggler == Reveal!NoStraggler

(* RevealShow: the gold square is the shown round's. *)
GoldLandsRight == Reveal!GoldLandsRight

(* RevealShow: the board comes back to the live round. *)
BoardHandedBack == Reveal!BoardHandedBack

(* PlayControls: no stake of the page wipes what is still to be paid out.  *)
NeverForfeits == Controls!NeverForfeits

(* PlayControls: what can be collected is offered. *)
AlwaysOffered == Controls!AlwaysOffered

(* StakeClient: a session is kept only for a token that was minted.        *)
NoPhantomSession == Client!NoPhantomSession

(* StakeClient: one call adds its amount once. *)
OneStakePerCall == Client!OneStakePerCall
=============================================================================
