----------------------------- MODULE PlayControls -----------------------------
(***************************************************************************)
(* One player at the app's controls (app/src/components/PlayControls.tsx,  *)
(* hooks/use-player-state.ts): stake, claim and refund buttons gated on    *)
(* what the page last read of the player's position, against a program     *)
(* whose position holds one round: a stake in another round wipes it       *)
(* (direct.rs).                                                            *)
(*                                                                         *)
(* Reads take their answer from the chain at one time and reach the page   *)
(* at a later one, overlapping each other and the player's transactions.   *)
(***************************************************************************)
EXTENDS Integers, FiniteSets

CONSTANTS
  LastRoundId,        \* bound: rounds the keeper opens
  MaxInFlight         \* bound: reads of one kind on their way

Rounds   == 1 .. LastRoundId
Nothing  == [round |-> 0, staked |-> FALSE]    \* also what a null position counts as
NoTx     == [kind |-> "none", round |-> 0, status |-> "none"]

VARIABLES
  stateOf,            \* chain: the state of every round
  position,           \* chain: the player's MinerPosition
  forfeited,          \* chain: a stake wiped a round still to be paid out
  board,              \* page: round and state of the snapshot
  miner,              \* page: the position as last read
  loaded,             \* page: there has been a read
  stakedRoundState,   \* page: what the claim panel goes by
  tx,                 \* the transaction the controls are busy with
  reads, polls        \* answers on their way: positions, round states

onchain == <<stateOf, position, forfeited>>
page    == <<board, miner, loaded, stakedRoundState>>
pvars   == <<stateOf, position, forfeited, board, miner, loaded,
             stakedRoundState, tx, reads, polls>>

Current == CHOOSE r \in Rounds : /\ stateOf[r] # "absent"
                                 /\ \A q \in Rounds : q > r => stateOf[q] = "absent"

(* The page is opened in some round, perhaps with a stake from round 1.    *)
Init ==
  /\ \E s \in {"open", "settling", "claimable", "closed"} :
        stateOf = [r \in Rounds |-> IF r = 1 THEN s ELSE "absent"]
  /\ position \in {Nothing, [round |-> 1, staked |-> TRUE]}
  /\ forfeited = FALSE
  /\ board = [round |-> 1, state |-> stateOf[1]]
  /\ miner = Nothing /\ loaded = FALSE /\ stakedRoundState = "null"
  /\ tx = NoTx /\ reads = {} /\ polls = {}

-----------------------------------------------------------------------------
(* What the page works out of its state *)

stakedRound == miner.round
offerable   == miner.round > 0 /\ miner.staked
priorUnresolved == offerable /\ miner.round # board.round

StakeAtOnce == priorUnresolved \/ board.state # "open"      \* mutant of stakeBlocked
stakeBlocked == ~ loaded \/ priorUnresolved \/ board.state # "open"

OnlyWins ==                                                 \* mutant of Offer
  IF offerable /\ stakedRoundState = "claimable" THEN "claim" ELSE "none"
Offer ==
  CASE offerable /\ stakedRoundState = "claimable" -> "claim"
    [] offerable /\ stakedRoundState = "closed"    -> "refund"
    [] OTHER -> "none"

-----------------------------------------------------------------------------
(* Reading: refresh, and the poll of the staked round *)

(* use-player-state: started by the timer or after a transaction.          *)
ReadPosition ==
  /\ Cardinality(reads) < MaxInFlight
  /\ reads' = reads \cup {position}
  /\ UNCHANGED <<onchain, page, tx, polls>>

(* The poll effect runs anew when the staked round or offerable changes:   *)
(* polls under way are disowned, and with nothing to offer there is no     *)
(* state either.                                                           *)
EffectRuns ==
  IF stakedRound' = stakedRound /\ offerable' = offerable
  THEN UNCHANGED <<stakedRoundState, polls>>
  ELSE /\ polls' = {}
       /\ stakedRoundState' = IF offerable' THEN stakedRoundState ELSE "null"

SeePosition(p) ==
  /\ miner' = p /\ loaded' = TRUE
  /\ EffectRuns
  /\ UNCHANGED <<onchain, board, tx>>

PositionArrives ==
  \E p \in reads : SeePosition(p) /\ reads' = reads \ {p}

(* fetchMiner turns every failure into null, so the page takes it for a    *)
(* player without a position.                                              *)
PositionLost ==
  \E p \in reads : SeePosition(Nothing) /\ reads' = reads \ {p}

(* A round that was reaped, like a read that fails, leaves no state.       *)
Answer(r) == IF stateOf[r] = "absent" THEN "null" ELSE stateOf[r]

PollRound ==
  /\ offerable
  /\ Cardinality(polls) < MaxInFlight
  /\ polls' = polls \cup {[round |-> stakedRound, state |-> Answer(stakedRound)]}
  /\ UNCHANGED <<onchain, page, tx, reads>>

PollArrives ==
  \E p \in polls :
     /\ stakedRoundState' = p.state
     /\ polls' = polls \ {p}
     /\ UNCHANGED <<onchain, board, miner, loaded, tx, reads>>

SnapshotArrives ==
  /\ board' = [round |-> Current, state |-> stateOf[Current]]
  /\ board' # board
  /\ UNCHANGED <<onchain, miner, loaded, stakedRoundState, tx, reads, polls>>

-----------------------------------------------------------------------------
(* Acting: run() keeps the controls busy until the answer *)

Press(kind, round) ==
  /\ tx = NoTx
  /\ tx' = [kind |-> kind, round |-> round, status |-> "sent"]
  /\ UNCHANGED <<onchain, page, reads, polls>>

doStake  == ~ stakeBlocked /\ Press("stake", board.round)
doClaim  == Offer = "claim" /\ Press("claim", stakedRound)
doRefund == Offer = "refund" /\ Press("refund", stakedRound)

(* The program's side: stake_direct, claim_direct and refund_direct.       *)
StakeDirect(r) ==
  /\ stateOf[r] = "open"
  /\ forfeited' = (forfeited \/ /\ position.round # r /\ position.staked
                                /\ stateOf[position.round] # "absent")
  /\ position' = [round |-> r, staked |-> TRUE]

PayOut(r, state) ==
  /\ stateOf[r] = state
  /\ position = [round |-> r, staked |-> TRUE]
  /\ position' = [position EXCEPT !.staked = FALSE]
  /\ UNCHANGED forfeited

Effect ==
  \/ tx.kind = "stake"  /\ StakeDirect(tx.round)
  \/ tx.kind = "claim"  /\ PayOut(tx.round, "claimable")
  \/ tx.kind = "refund" /\ PayOut(tx.round, "closed")

Lands ==
  /\ tx.status = "sent"
  /\ Effect
  /\ tx' = [tx EXCEPT !.status = "landed"]
  /\ UNCHANGED <<stateOf, page, reads, polls>>

(* Only an answer leads to a refresh; a refusal or a timeout is shown.     *)
Answered ==
  /\ tx.status = "landed" /\ tx' = NoTx
  /\ reads' = reads \cup {position}
  /\ UNCHANGED <<onchain, page, polls>>

Fails ==
  /\ tx # NoTx /\ tx' = NoTx
  /\ UNCHANGED <<onchain, page, reads, polls>>

-----------------------------------------------------------------------------
(* The keeper, which opens the next round only when the page has settled:  *)
(* a draw takes longer than the page's poll (6 s).                         *)
UpToDate ==
  /\ tx = NoTx
  /\ \A p \in reads : p = position
  /\ loaded => miner = position

MovesRound(r, to) ==
  /\ stateOf' = [stateOf EXCEPT ![r] = to]
  /\ UNCHANGED <<position, forfeited, page, tx, reads, polls>>

KeeperMoves ==
  \/ stateOf[Current] = "open" /\ MovesRound(Current, "settling")
  \/ stateOf[Current] = "settling" /\ \E s \in {"claimable", "closed"} : MovesRound(Current, s)
  \/ /\ stateOf[Current] \in {"claimable", "closed"}
     /\ Current < LastRoundId /\ UpToDate
     /\ MovesRound(Current + 1, "open")
  \/ \E r \in Rounds : /\ r < Current /\ stateOf[r] = "claimable"
                       /\ MovesRound(r, "absent")

Next ==
  \/ ReadPosition \/ PositionArrives
  \/ PollRound \/ PollArrives \/ SnapshotArrives
  \/ doStake \/ doClaim \/ doRefund
  \/ Lands \/ Answered \/ Fails
  \/ KeeperMoves

(* The same, with reads that fail. *)
LossySpec == Init /\ [][Next \/ PositionLost]_pvars

(* The timers of the page keep reading and what they read arrives.         *)
Spec ==
  /\ Init /\ [][Next]_pvars
  /\ WF_pvars(ReadPosition) /\ WF_pvars(PositionArrives)
  /\ WF_pvars(PollRound) /\ WF_pvars(PollArrives)

-----------------------------------------------------------------------------
(* Properties *)

(* PlayControls.tsx:66, "an unresolved prior round must never be           *)
(* forfeit-able": no stake the page sends wipes stakes that can still be   *)
(* claimed, will be, or can be refunded (direct.rs:67).                    *)
NeverForfeits == ~ forfeited

(* Whoever has something to collect is offered it, or it ends otherwise.   *)
Collectable == position.staked /\ stateOf[position.round] \in {"claimable", "closed"}
AlwaysOffered == Collectable ~> Offer # "none" \/ ~ Collectable
=============================================================================
