----------------------------- MODULE DirectGame -----------------------------
(***************************************************************************)
(* The direct-stake game of programs/ansem-miner: rounds, stakes paid      *)
(* straight from the wallet into the pot vault, the draw, the swap of the  *)
(* pot into ANSEM, claims, cancellation with refunds, and the janitor.     *)
(* Idle escrow deposits are part of it, since they share the pot vault.    *)
(* An action is one instruction: Solana runs each one atomically and rolls *)
(* it back when a require! fails, so a failed instruction is no step.      *)
(*                                                                         *)
(* Signers are not modelled: an action is there for whoever may send it.   *)
(* Rent, account bumps, the treasury's later sweep and the statistics      *)
(* counters of an escrow are left out.                                     *)
(***************************************************************************)
EXTENDS AnsemMath

CONSTANTS
  NumPlayers,         \* wallets
  MaxRounds,          \* bound: how many rounds are ever created
  MaxTime,            \* bound: where the clock stops
  MaxEscrow,          \* bound: lamports ever idle in escrow at once
  Amounts,            \* lamports one stake, deposit or withdrawal moves
  Outs,               \* ANSEM the keeper may deliver for a round (real mode)
  Draws, NoDraw,      \* possible randomness; the zeroed field of a new round
  SwapMode,           \* "mock" or "jupiter", fixed by initialize(_real)
  MockRate,           \* ANSEM per SOL of the mock swap
  LAMPORTS_PER_SOL,
  DefaultParams,      \* the parameters initialize writes
  ParamChoices        \* the settings the admin setters choose from

RETURN_MAX_BPS == 5000
MAX_FEE_BPS    == 2000

Player  == 0 .. NumPlayers - 1
RoundId == 0 .. MaxRounds         \* 0 is no round: a fresh miner's round_id

ParamType ==
  [round_duration_secs: Nat, claim_window_secs: Nat, fee_bps: Nat,
   mult_min_bps: Nat, mult_max_bps: Nat, min_stake: Nat,
   max_stake_per_round: Nat, min_swap_rate: Nat, trigger_odds: Nat,
   cap_mult: Nat]

DrawType == [square: Square, x: [Square -> Nat], trigger: Nat]

OrderedBand(q) == q.mult_min_bps <= q.mult_max_bps          \* mutant of ValidBand
ValidBand(q) ==
  q.mult_min_bps <= q.mult_max_bps /\ q.mult_max_bps <= RETURN_MAX_BPS

ASSUME SizeAssumption   == /\ NumPlayers \in Nat /\ MaxRounds \in Nat
                           /\ MaxTime \in Nat /\ MaxEscrow \in Nat
ASSUME AmountAssumption == Amounts \subseteq Nat /\ Outs \subseteq Nat
ASSUME DrawAssumption   == Draws \subseteq DrawType /\ NoDraw \notin Draws
ASSUME RateAssumption   == MockRate \in Nat /\ LAMPORTS_PER_SOL \in Nat \ {0}
ASSUME ParamAssumption  == /\ ParamChoices \subseteq ParamType
                           /\ DefaultParams \in ParamType
                           /\ ValidBand(DefaultParams)
                           /\ DefaultParams.fee_bps <= MAX_FEE_BPS

VARIABLES
  config,         \* the Config fields the instructions themselves move
  params,         \* the Config and JackpotConfig fields the admin sets
  round,          \* RoundId -> Round account, NoRound when there is none
  miner,          \* Player -> MinerPosition
  escrow,         \* Player -> PlayerEscrow.balance
  pot_vault,      \* lamports: idle escrow and every unswapped pot, commingled
  treasury,       \* lamports of swapped pots
  payout_vault,   \* ANSEM
  oracle,         \* rounds whose randomness the oracle may (re)deliver
  now             \* the cluster clock

vars == <<config, params, round, miner, escrow, pot_vault, treasury,
          payout_vault, oracle, now>>

-----------------------------------------------------------------------------
(* Accounts *)

Unswapped == {"open", "vrf_pending", "settled"}

NoRound ==
  [state |-> "absent", deadline_ts |-> 0, block_sol |-> NoStake, pot |-> 0,
   randomness |-> NoDraw, jackpot_pool |-> 0, swap_proceeds |-> 0,
   entitlement_total |-> 0, claimed_proceeds |-> 0]

NewRound(deadline) == [NoRound EXCEPT !.state = "open", !.deadline_ts = deadline]

(* What a player has staked in round r: a miner still stamped with another *)
(* round holds nothing in this one.                                        *)
StakeIn(p, r) == IF miner[p].round_id = r THEN miner[p].block_stake ELSE NoStake

(* What claim_direct pays for a stake vector, with the band as it is now. *)
Payout(stake, rd) ==
  nonjackpot_payout(
      return_weight(stake, rd.randomness, params.mult_min_bps, params.mult_max_bps),
      rd.pot, rd.swap_proceeds)
  + jackpot_share(rd.jackpot_pool, stake[rd.randomness.square],
                  rd.block_sol[rd.randomness.square])

(* The part of a round's entitlement nobody has drawn yet. *)
Remaining(rd) == rd.entitlement_total - rd.claimed_proceeds

Minus(a, b) == IF b <= a THEN a - b ELSE 0        \* saturating_sub

Init ==
  /\ config = [current_round_id |-> 0, current_round_finalized |-> TRUE,
               total_escrow_balance |-> 0, rollover_jackpot |-> 0,
               ansem_obligations |-> 0]
  /\ params = DefaultParams
  /\ round = [r \in RoundId |-> NoRound]
  /\ miner = [p \in Player |-> [round_id |-> 0, block_stake |-> NoStake]]
  /\ escrow = [p \in Player |-> 0]
  /\ pot_vault = 0 /\ treasury = 0 /\ payout_vault = 0
  /\ oracle = {}
  /\ now = 0

-----------------------------------------------------------------------------
(* Creating a round and staking in it *)

AnyTime == TRUE                                             \* mutant of MayCreate
MayCreate == config.current_round_finalized

CreateRound ==
  LET id == config.current_round_id + 1 IN
  /\ id <= MaxRounds
  /\ MayCreate
  /\ config' = [config EXCEPT !.current_round_id = id,
                              !.current_round_finalized = FALSE]
  /\ round' = [round EXCEPT ![id] = NewRound(now + params.round_duration_secs)]
  /\ UNCHANGED <<params, miner, escrow, pot_vault, treasury, payout_vault, oracle, now>>

(* A stake enters the round's books, by square and in the pot. *)
PotOnly(rd, s, amount) == [rd EXCEPT !.pot = @ + amount]    \* mutant of Booked
Booked(rd, s, amount) ==
  [rd EXCEPT !.block_sol = [rd.block_sol EXCEPT ![s] = @ + amount],
             !.pot = @ + amount]

StakeDirect(p, r, s, amount) ==
  LET held == StakeIn(p, r) IN
  /\ round[r].state = "open"
  /\ now < round[r].deadline_ts
  /\ amount >= params.min_stake
  /\ Total(held) + amount <= params.max_stake_per_round
  /\ pot_vault' = pot_vault + amount
  /\ miner' = [miner EXCEPT ![p] = [round_id |-> r,
                                    block_stake |-> [held EXCEPT ![s] = @ + amount]]]
  /\ round' = [round EXCEPT ![r] = Booked(@, s, amount)]
  /\ UNCHANGED <<config, params, escrow, treasury, payout_vault, oracle, now>>

-----------------------------------------------------------------------------
(* The draw: written by the admin, or asked of the oracle *)

Ended(r) == now >= round[r].deadline_ts

Drawn(r, d) ==
  round' = [round EXCEPT ![r] = [@ EXCEPT !.randomness = d, !.state = "settled"]]

Settle(r, d) ==
  /\ round[r].state = "open"
  /\ Ended(r)
  /\ Drawn(r, d)
  /\ UNCHANGED <<config, params, miner, escrow, pot_vault, treasury, payout_vault, oracle, now>>

RequestSettle(r) ==
  /\ round[r].state = "open"
  /\ Ended(r)
  /\ round' = [round EXCEPT ![r].state = "vrf_pending"]
  /\ oracle' = oracle \cup {r}
  /\ UNCHANGED <<config, params, miner, escrow, pot_vault, treasury, payout_vault, now>>

ReplayTaken(r) == round[r].state \in Unswapped \ {"open"}   \* mutant of AwaitsDraw
LateDrawTaken(r) == round[r].state \in {"vrf_pending", "closed"} \* mutant of AwaitsDraw
AwaitsDraw(r) == round[r].state = "vrf_pending"

(* The oracle delivers once, late, or again: request stays in oracle. *)
SettleCallback(r, d) ==
  /\ r \in oracle
  /\ AwaitsDraw(r)
  /\ Drawn(r, d)
  /\ UNCHANGED <<config, params, miner, escrow, pot_vault, treasury, payout_vault, oracle, now>>

-----------------------------------------------------------------------------
(* The swap: the pot leaves for the treasury, ANSEM comes in and is split  *)

NetPot(pot) == pot - (pot * params.fee_bps) \div BPS

(* The losing squares' share of the proceeds. *)
NjTotal(rd, out) ==
  nonjackpot_payout(
      return_weight(rd.block_sol, rd.randomness, params.mult_min_bps, params.mult_max_bps),
      rd.pot, out)

WinningStake(rd) == rd.block_sol[rd.randomness.square]

(* What a triggered round takes out of the rollover. *)
UncappedBite(rd, out) ==                                    \* mutant of Bite
  params.cap_mult * ((WinningStake(rd) * out) \div rd.pot)
Bite(rd, out) ==
  LET value  == (WinningStake(rd) * out) \div (IF rd.pot = 0 THEN 1 ELSE rd.pot)
      capped == params.cap_mult * value
  IN  IF ~ jackpot_triggered(rd.randomness, params.trigger_odds) THEN 0
      ELSE IF params.cap_mult = 0 \/ capped > config.rollover_jackpot
           THEN config.rollover_jackpot
           ELSE capped

JackpotPool(rd, out) ==
  IF WinningStake(rd) > 0 THEN (out - NjTotal(rd, out)) + Bite(rd, out) ELSE 0

NewRollover(rd, out) ==
  IF WinningStake(rd) > 0 THEN config.rollover_jackpot - Bite(rd, out)
                          ELSE config.rollover_jackpot + (out - NjTotal(rd, out))

FinalizeSwap(r, out) ==
  LET rd == round[r] IN
  /\ NjTotal(rd, out) <= out                     \* checked_sub
  /\ round' = [round EXCEPT ![r] =
                 [@ EXCEPT !.swap_proceeds     = out,
                           !.jackpot_pool      = JackpotPool(rd, out),
                           !.entitlement_total = NjTotal(rd, out) + JackpotPool(rd, out),
                           !.state             = "claimable"]]
  /\ config' = [config EXCEPT !.rollover_jackpot        = NewRollover(rd, out),
                              !.ansem_obligations       = @ + out,
                              !.current_round_finalized = TRUE]

(* The gate on the commingled vault, then the pot's lamports move. *)
SellPot(r) ==
  LET pot == round[r].pot IN
  /\ pot_vault >= config.total_escrow_balance + pot
  /\ pot_vault' = pot_vault - pot
  /\ treasury' = treasury + pot

ExecuteSwapMock(r) ==
  LET out == (NetPot(round[r].pot) * MockRate) \div LAMPORTS_PER_SOL IN
  /\ SwapMode = "mock"
  /\ round[r].state = "settled"
  /\ SellPot(r)
  /\ payout_vault' = payout_vault + out
  /\ FinalizeSwap(r, out)
  /\ UNCHANGED <<params, miner, escrow, oracle, now>>

ExecuteSwapReal(r, out) ==
  /\ SwapMode = "jupiter"
  /\ round[r].state = "settled"
  /\ SellPot(r)
  /\ out >= (NetPot(round[r].pot) * params.min_swap_rate) \div LAMPORTS_PER_SOL
  /\ payout_vault' = payout_vault + out
  /\ payout_vault' >= config.ansem_obligations + out
  /\ FinalizeSwap(r, out)
  /\ UNCHANGED <<params, miner, escrow, oracle, now>>

-----------------------------------------------------------------------------
(* Claims, cancellation, refunds and the janitor *)

PaidTwice(owed, amount) == owed                             \* mutant of DrawnDown
DrawnDown(owed, amount) == Minus(owed, amount)

KeepStake(m) == m                                           \* mutant of Spent
Spent(m) == [m EXCEPT !.block_stake = NoStake]

ClaimDirect(p, r) ==
  LET amount == Payout(miner[p].block_stake, round[r]) IN
  /\ round[r].state = "claimable"
  /\ miner[p].round_id = r
  /\ amount <= payout_vault
  /\ payout_vault' = payout_vault - amount
  /\ round' = [round EXCEPT ![r].claimed_proceeds = @ + amount]
  /\ config' = [config EXCEPT !.ansem_obligations = DrawnDown(@, amount)]
  /\ miner' = [miner EXCEPT ![p] = Spent(@)]
  /\ UNCHANGED <<params, escrow, pot_vault, treasury, oracle, now>>

CancelRound(r) ==
  /\ round[r].state \in Unswapped
  /\ r = config.current_round_id
  /\ Ended(r)
  /\ round' = [round EXCEPT ![r].state = "closed"]
  /\ config' = [config EXCEPT !.current_round_finalized = TRUE]
  /\ UNCHANGED <<params, miner, escrow, pot_vault, treasury, payout_vault, oracle, now>>

RefundDirect(p, r) ==
  LET amount == Total(miner[p].block_stake) IN
  /\ round[r].state = "closed"
  /\ miner[p].round_id = r
  /\ amount <= pot_vault
  /\ pot_vault' = pot_vault - amount
  /\ miner' = [miner EXCEPT ![p] = Spent(@)]
  /\ UNCHANGED <<config, params, round, escrow, treasury, payout_vault, oracle, now>>

WholeEntitlement(rd) == rd.entitlement_total                \* mutant of Forfeited
Forfeited(rd) == Minus(rd.entitlement_total, rd.claimed_proceeds)

Closeable(rd) ==
  \/ rd.state = "claimable" /\ now >= rd.deadline_ts + params.claim_window_secs
  \/ rd.state = "closed" /\ rd.pot = 0

CloseRound(r) ==
  LET rd == round[r] IN
  /\ Closeable(rd)
  /\ config' = [config EXCEPT !.rollover_jackpot =
                  @ + (IF rd.state = "claimable" THEN Forfeited(rd) ELSE 0)]
  /\ round' = [round EXCEPT ![r] = NoRound]
  /\ UNCHANGED <<params, miner, escrow, pot_vault, treasury, payout_vault, oracle, now>>

-----------------------------------------------------------------------------
(* Idle escrow; in this game no round ever locks it *)

Deposit(p, amount) ==
  /\ config.total_escrow_balance + amount <= MaxEscrow
  /\ pot_vault' = pot_vault + amount
  /\ escrow' = [escrow EXCEPT ![p] = @ + amount]
  /\ config' = [config EXCEPT !.total_escrow_balance = @ + amount]
  /\ UNCHANGED <<params, round, miner, treasury, payout_vault, oracle, now>>

Withdraw(p, amount) ==
  /\ amount <= escrow[p]
  /\ amount <= pot_vault
  /\ amount <= config.total_escrow_balance
  /\ pot_vault' = pot_vault - amount
  /\ escrow' = [escrow EXCEPT ![p] = @ - amount]
  /\ config' = [config EXCEPT !.total_escrow_balance = @ - amount]
  /\ UNCHANGED <<params, round, miner, treasury, payout_vault, oracle, now>>

-----------------------------------------------------------------------------
(* The admin's setters: each writes its own fields of a choice q *)

SetRoundDuration(q) ==
  params' = [params EXCEPT !.round_duration_secs = q.round_duration_secs]

SetFeeBps(q) ==
  /\ q.fee_bps <= MAX_FEE_BPS
  /\ params' = [params EXCEPT !.fee_bps = q.fee_bps]

SetReturnBand(q) ==
  /\ ValidBand(q)
  /\ params' = [params EXCEPT !.mult_min_bps = q.mult_min_bps,
                              !.mult_max_bps = q.mult_max_bps]

SetMinSwapRate(q) == params' = [params EXCEPT !.min_swap_rate = q.min_swap_rate]

SetClaimWindow(q) ==
  params' = [params EXCEPT !.claim_window_secs = q.claim_window_secs]

SetStakeLimits(q) ==
  /\ q.min_stake <= q.max_stake_per_round /\ q.max_stake_per_round > 0
  /\ params' = [params EXCEPT !.min_stake = q.min_stake,
                              !.max_stake_per_round = q.max_stake_per_round]

SetJackpotParams(q) ==
  params' = [params EXCEPT !.trigger_odds = q.trigger_odds, !.cap_mult = q.cap_mult]

Admin(q) ==
  /\ \/ SetRoundDuration(q)
     \/ SetFeeBps(q)
     \/ SetReturnBand(q)
     \/ SetMinSwapRate(q)
     \/ SetClaimWindow(q)
     \/ SetStakeLimits(q)
     \/ SetJackpotParams(q)
  /\ UNCHANGED <<config, round, miner, escrow, pot_vault, treasury, payout_vault, oracle, now>>

Tick ==
  /\ now < MaxTime
  /\ now' = now + 1
  /\ UNCHANGED <<config, params, round, miner, escrow, pot_vault, treasury, payout_vault, oracle>>

Next ==
  \/ CreateRound
  \/ \E p \in Player, r \in RoundId, s \in Square, a \in Amounts : StakeDirect(p, r, s, a)
  \/ \E r \in RoundId, d \in Draws : Settle(r, d)
  \/ \E r \in RoundId : RequestSettle(r)
  \/ \E r \in RoundId, d \in Draws : SettleCallback(r, d)
  \/ \E r \in RoundId : ExecuteSwapMock(r)
  \/ \E r \in RoundId, out \in Outs : ExecuteSwapReal(r, out)
  \/ \E p \in Player, r \in RoundId : ClaimDirect(p, r)
  \/ \E r \in RoundId : CancelRound(r)
  \/ \E p \in Player, r \in RoundId : RefundDirect(p, r)
  \/ \E r \in RoundId : CloseRound(r)
  \/ \E p \in Player, a \in Amounts : Deposit(p, a)
  \/ \E p \in Player, a \in Amounts : Withdraw(p, a)
  \/ \E q \in ParamChoices : Admin(q)
  \/ Tick

Spec == Init /\ [][Next]_vars

(* The same game run by an admin who moves the return band only while no   *)
(* round is claimable.  The program does not ask this of the admin; what   *)
(* it says about entitlements is true only under it.                       *)
BandQuiet ==
  (\E r \in RoundId : round[r].state = "claimable") =>
     /\ params'.mult_min_bps = params.mult_min_bps
     /\ params'.mult_max_bps = params.mult_max_bps

QuietSpec == Init /\ [][Next /\ BandQuiet]_vars

-----------------------------------------------------------------------------
(* Properties *)

ConfigType ==
  [current_round_id: RoundId, current_round_finalized: BOOLEAN,
   total_escrow_balance: Nat, rollover_jackpot: Nat, ansem_obligations: Nat]

RoundType ==
  [state: Unswapped \cup {"absent", "claimable", "closed"},
   deadline_ts: Nat, block_sol: [Square -> Nat], pot: Nat,
   randomness: Draws \cup {NoDraw}, jackpot_pool: Nat, swap_proceeds: Nat,
   entitlement_total: Nat, claimed_proceeds: Nat]

(* Every account holds values of its type: in particular no u64 field is   *)
(* ever taken below zero, and a drawn round carries a real draw.           *)
TypeOK ==
  /\ config \in ConfigType
  /\ params \in ParamType /\ ValidBand(params) /\ params.fee_bps <= MAX_FEE_BPS
  /\ round \in [RoundId -> RoundType]
  /\ \A r \in RoundId :
        round[r].state \in {"settled", "claimable"} => round[r].randomness \in Draws
  /\ miner \in [Player -> [round_id: RoundId, block_stake: [Square -> Nat]]]
  /\ escrow \in [Player -> Nat]
  /\ pot_vault \in Nat /\ treasury \in Nat /\ payout_vault \in Nat
  /\ oracle \subseteq RoundId
  /\ now \in Nat

(* Rounds are serial (state/config.rs, current_round_finalized): a round   *)
(* whose pot is not yet swapped is the current one, and the create gate is *)
(* shut exactly while there is one.  Ids above the cursor are unused.      *)
Serialized ==
  /\ \A r \in RoundId :
        round[r].state \in Unswapped <=>
           r = config.current_round_id /\ ~ config.current_round_finalized
  /\ \A r \in RoundId : r > config.current_round_id => round[r] = NoRound

(* A round's books are its players' stakes: until the swap, each square of *)
(* the round holds what the players stamped with it hold there, and the    *)
(* pot is the sum over the grid (instructions/direct.rs, three additions   *)
(* and one reset that must stay in step across rounds).                    *)
StakesBooked ==
  \A r \in RoundId : round[r].state \in Unswapped =>
     /\ \A s \in Square :
           round[r].block_sol[s] = SumBelow([p \in Player |-> StakeIn(p, r)[s]], NumPlayers)
     /\ round[r].pot = Total(round[r].block_sol)

(* The commingled vault owes three kinds of lamports at once: idle escrow, *)
(* the pot of the unswapped round, and the stakes players can still take   *)
(* back from a cancelled round.  It can pay them all.                      *)
LivePots ==
  SumBelow([r \in RoundId |-> IF round[r].state \in Unswapped THEN round[r].pot ELSE 0],
           MaxRounds + 1)

Refundable ==
  SumBelow([p \in Player |-> IF round[miner[p].round_id].state = "closed"
                             THEN Total(miner[p].block_stake) ELSE 0],
           NumPlayers)

PotVaultSolvent ==
  /\ config.total_escrow_balance = SumBelow(escrow, NumPlayers)
  /\ pot_vault >= config.total_escrow_balance + LivePots + Refundable

(* What the ledger says is owed is in the vault, whatever the admin does.  *)
VaultBacksLedger == payout_vault >= config.ansem_obligations

(* What the claimants of a round can still draw under the ledger. *)
Owed(rd) == IF rd.state = "claimable" THEN Remaining(rd) ELSE 0

(* state/config.rs, ansem_obligations: "rollover_jackpot plus every        *)
(* claimable round's remaining entitlement", to the unit.                  *)
LedgerExact ==
  config.ansem_obligations =
     config.rollover_jackpot
     + SumBelow([r \in RoundId |-> Owed(round[r])], MaxRounds + 1)

(* The game is a ledger of earmarks: see PayoutLedger.                     *)
Ledger == INSTANCE PayoutLedger WITH
            rollover <- config.rollover_jackpot,
            owed     <- [r \in RoundId |-> Owed(round[r])],
            vault    <- payout_vault

ImplementsLedger == Ledger!Spec

(* The layers built on a round see less of it: see RoundBook.              *)
PhaseOf(state) ==
  CASE state \in {"vrf_pending", "settled"} -> "drawing"
    [] OTHER -> state

Book == INSTANCE RoundBook WITH
          cursor <- config.current_round_id,
          phase  <- [r \in RoundId |-> PhaseOf(round[r].state)],
          pot    <- [r \in RoundId |-> round[r].pot],
          stamp  <- [p \in Player |-> miner[p].round_id],
          held   <- [p \in Player |-> Total(miner[p].block_stake)]

ImplementsBook == Book!Spec

(* A claimable round's entitlement covers what was claimed and, rounding   *)
(* included, what every player still on it would be paid now: no order of  *)
(* claims leaves a later claimant short.                                   *)
ClaimsCovered ==
  \A r \in RoundId : round[r].state = "claimable" =>
     round[r].claimed_proceeds
       + SumBelow([p \in Player |-> Payout(StakeIn(p, r), round[r])], NumPlayers)
     <= round[r].entitlement_total

(* state/round.rs, entitlement_total: "the most this round's claimants can *)
(* ever draw".                                                             *)
ClaimedWithinEntitlement ==
  \A r \in RoundId : round[r].claimed_proceeds <= round[r].entitlement_total

(* admin.rs, set_return_band: "non-jackpot returns can never exceed 50%".  *)
(* Whatever the proceeds of a drawn round, half of them is left over, so   *)
(* finalize_swap_accounting's checked_sub cannot strand the round.         *)
HalfToJackpot ==
  \A r \in RoundId, out \in Outs :
     round[r].state = "settled" => 2 * NjTotal(round[r], out) <= out

(* math.rs, jackpot_triggered (b): a round's randomness is written once.   *)
(* No replayed callback changes a draw while the round's account lives.    *)
DrawFinal ==
  [][\A r \in RoundId : round[r].randomness # NoDraw =>
        round'[r].randomness = round[r].randomness \/ round'[r] = NoRound]_vars

(* A player with a stake on a cancelled round finds it cancelled, and the  *)
(* account there, until that player's own refund or next stake: no late    *)
(* callback revives the round (recovery.rs) and no janitor reaps it.       *)
RefundsKept ==
  [][\A p \in Player :
        /\ round[miner[p].round_id].state = "closed"
        /\ Total(miner[p].block_stake) > 0
        => miner'[p] # miner[p] \/ round'[miner[p].round_id].state = "closed"]_vars
=============================================================================
