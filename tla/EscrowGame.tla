------------------------------ MODULE EscrowGame ------------------------------
(***************************************************************************)
(* The escrow game of programs/ansem-miner: players deposit into an        *)
(* escrow, join a round on L1, stake on an ephemeral rollup to which the   *)
(* round and their miner position are delegated, and are debited on L1     *)
(* after both have been committed back.  An action is one instruction, or  *)
(* one transaction of several (Enter).                                     *)
(*                                                                         *)
(* While an account is delegated its live copy is on the rollup and L1     *)
(* refuses it, so one copy and its whereabouts are enough; the rollup      *)
(* reads the escrow, which is never delegated, through a clone that may    *)
(* lag.  The squares are summed up, a payout is counted in the lamports    *)
(* staked for it, and a deadline passes as an event.  Miner positions      *)
(* exist from the start (init_miner does nothing the second time).         *)
(***************************************************************************)
EXTENDS Sums, FiniteSets

CONSTANTS
  NumPlayers,         \* wallets
  MaxRounds,          \* bound: how many rounds are ever created
  MaxBalance,         \* bound: lamports one player has in escrow
  MaxPot,             \* bound: lamports ever staked in one round
  Amounts,            \* lamports one deposit, withdrawal or stake moves
  MinStake, MaxStakePerRound

Player  == 0 .. NumPlayers - 1
RoundId == 0 .. MaxRounds             \* 0 is no round

ASSUME EscrowSizes   == /\ NumPlayers \in Nat /\ MaxRounds \in Nat
                        /\ MaxBalance \in Nat /\ MaxPot \in Nat
ASSUME EscrowAmounts == Amounts \subseteq Nat
ASSUME EscrowLimits  == MinStake \in Nat /\ MaxStakePerRound \in Nat

VARIABLES
  config,         \* the cursor, the create gate and the sum of the balances
  round,          \* RoundId -> Round account
  ended,          \* rounds whose deadline the cluster clock has passed
  miner,          \* Player -> MinerPosition
  escrow,         \* Player -> PlayerEscrow
  clone,          \* Player -> what the rollup's copy of the escrow shows
  rounds_away,    \* rounds delegated to the rollup
  miners_away,    \* players whose miner position is delegated
  pot_vault       \* lamports: all escrow and all unswapped pots, commingled

accounts == <<config, round, miner, escrow, pot_vault>>
vars == <<config, round, ended, miner, escrow, clone, rounds_away, miners_away, pot_vault>>

Program == INSTANCE ProgramInterface

-----------------------------------------------------------------------------
(* Accounts *)

Unswapped == {"open", "vrf_pending", "settled"}

NoRound  == [state |-> "absent", pot |-> 0, claimed |-> 0]
NewRound == [NoRound EXCEPT !.state = "open"]
NoEscrow ==
  [balance |-> 0, active_round |-> 0, reconciled_round |-> 0, last_claimed_round |-> 0]

(* What a stake reads of an escrow. *)
Shown(e) == [balance |-> e.balance, active_round |-> e.active_round]

(* Which of the accounts an instruction on round r and player p can name   *)
(* are on the rollup.                                                      *)
Away(r, p) ==
  {a \in {"round", "miner"} : \/ a = "round" /\ r \in rounds_away
                              \/ a = "miner" /\ p \in miners_away}

OnL1(ix, r, p)     == Program!RunsOnL1(ix, Away(r, p))
OnRollup(ix, r, p) == Program!RunsOnRollup(ix, Away(r, p))

AnyPlayer == 0          \* for instructions that name no player's account

Init ==
  /\ config = [current_round_id |-> 0, current_round_finalized |-> TRUE,
               total_escrow_balance |-> 0]
  /\ round = [r \in RoundId |-> NoRound]
  /\ ended = {}
  /\ miner = [p \in Player |-> [round_id |-> 0, staked |-> 0]]
  /\ escrow = [p \in Player |-> NoEscrow]
  /\ clone = [p \in Player |-> Shown(NoEscrow)]
  /\ rounds_away = {} /\ miners_away = {}
  /\ pot_vault = 0

-----------------------------------------------------------------------------
(* Escrow *)

(* Lamports enter or leave a player's balance and the sum of all of them.  *)
Credit(p, amount) ==
  /\ escrow' = [escrow EXCEPT ![p].balance = @ + amount]
  /\ config' = [config EXCEPT !.total_escrow_balance = @ + amount]

Deposit(p, amount) ==
  /\ escrow[p].balance + amount <= MaxBalance
  /\ Credit(p, amount)
  /\ pot_vault' = pot_vault + amount
  /\ UNCHANGED <<round, ended, miner, clone, rounds_away, miners_away>>

LockIgnored(e, amount) == amount <= e.balance               \* mutant of Withdrawable
AnyAmount(e, amount) == e.active_round = 0                  \* mutant of Withdrawable
Withdrawable(e, amount) == e.active_round = 0 /\ amount <= e.balance

Withdraw(p, amount) ==
  /\ Withdrawable(escrow[p], amount)
  /\ amount <= pot_vault
  /\ amount <= config.total_escrow_balance
  /\ escrow' = [escrow EXCEPT ![p].balance = @ - amount]
  /\ config' = [config EXCEPT !.total_escrow_balance = @ - amount]
  /\ pot_vault' = pot_vault - amount
  /\ UNCHANGED <<round, ended, miner, clone, rounds_away, miners_away>>

-----------------------------------------------------------------------------
(* A round's life *)

CreateRound ==
  LET id == config.current_round_id + 1 IN
  /\ id <= MaxRounds
  /\ config.current_round_finalized
  /\ config' = [config EXCEPT !.current_round_id = id,
                              !.current_round_finalized = FALSE]
  /\ round' = [round EXCEPT ![id] = NewRound]
  /\ UNCHANGED <<ended, miner, escrow, clone, rounds_away, miners_away, pot_vault>>

DelegateRound(r) ==
  /\ OnL1(Program!delegateRound, r, AnyPlayer)
  /\ round[r].state = "open"
  /\ r = config.current_round_id
  /\ rounds_away' = rounds_away \cup {r}
  /\ UNCHANGED <<config, round, ended, miner, escrow, clone, miners_away, pot_vault>>

CommitRound(r) ==
  /\ OnRollup(Program!commitRound, r, AnyPlayer)
  /\ rounds_away' = rounds_away \ {r}
  /\ UNCHANGED <<config, round, ended, miner, escrow, clone, miners_away, pot_vault>>

DeadlinePasses(r) ==
  /\ round[r].state # "absent"
  /\ r \notin ended
  /\ ended' = ended \cup {r}
  /\ UNCHANGED <<config, round, miner, escrow, clone, rounds_away, miners_away, pot_vault>>

Moved(r, state) ==
  /\ round' = [round EXCEPT ![r].state = state]
  /\ UNCHANGED <<ended, miner, escrow, clone, rounds_away, miners_away>>

Settle(r) ==
  /\ OnL1(Program!settle, r, AnyPlayer) \/ OnRollup(Program!settle, r, AnyPlayer)
  /\ round[r].state = "open" /\ r \in ended
  /\ Moved(r, "settled")
  /\ UNCHANGED <<config, pot_vault>>

RequestSettle(r) ==
  /\ OnL1(Program!requestSettle, r, AnyPlayer)
  /\ round[r].state = "open" /\ r \in ended
  /\ Moved(r, "vrf_pending")
  /\ UNCHANGED <<config, pot_vault>>

(* The oracle answers once, late or never: its answer is taken only while  *)
(* the round waits for it.                                                 *)
SettleCallback(r) ==
  /\ OnL1(Program!settleCallback, r, AnyPlayer)
  /\ round[r].state = "vrf_pending"
  /\ Moved(r, "settled")
  /\ UNCHANGED <<config, pot_vault>>

(* The gate on the commingled vault, then the pot leaves for the treasury. *)
ExecuteSwap(r) ==
  LET pot == round[r].pot IN
  /\ OnL1(Program!executeSwapMock, r, AnyPlayer)
  /\ round[r].state = "settled"
  /\ pot_vault >= config.total_escrow_balance + pot
  /\ pot_vault' = pot_vault - pot
  /\ config' = [config EXCEPT !.current_round_finalized = TRUE]
  /\ Moved(r, "claimable")

CancelRound(r) ==
  /\ OnL1(Program!cancelRound, r, AnyPlayer)
  /\ round[r].state \in Unswapped
  /\ r = config.current_round_id
  /\ r \in ended
  /\ config' = [config EXCEPT !.current_round_finalized = TRUE]
  /\ Moved(r, "closed")
  /\ UNCHANGED pot_vault

(* close_round: the claim window of a swapped round may be over any time   *)
(* after its deadline.                                                     *)
CloseRound(r) ==
  /\ OnL1(Program!closeRound, r, AnyPlayer)
  /\ \/ round[r].state = "claimable"
     \/ round[r].state = "closed" /\ round[r].pot = 0
  /\ round' = [round EXCEPT ![r] = NoRound]
  /\ UNCHANGED <<config, ended, miner, escrow, clone, rounds_away, miners_away, pot_vault>>
-----------------------------------------------------------------------------
(* Entering a round: join_round reads no round, since L1 cannot *)

Stamped(r) == [round_id |-> r, staked |-> 0]

(* What join_round does to the accounts of player p.                       *)
Joins(p) ==
  LET r == config.current_round_id IN
  /\ r # 0
  /\ OnL1(Program!joinRound, r, p)
  /\ escrow[p].active_round = 0
  /\ escrow[p].balance >= MinStake
  /\ escrow' = [escrow EXCEPT ![p].active_round = r]
  /\ miner' = [miner EXCEPT ![p] = Stamped(r)]
  /\ UNCHANGED <<config, round, ended, clone, rounds_away, pot_vault>>

Join(p) == Joins(p) /\ UNCHANGED miners_away

DelegateMiner(p) ==
  /\ OnL1(Program!delegateMiner, 0, p)
  /\ miners_away' = miners_away \cup {p}
  /\ UNCHANGED <<config, round, ended, miner, escrow, clone, rounds_away, pot_vault>>

(* entry.ts: the app sends join and delegation in one transaction.         *)
Enter(p) == Joins(p) /\ miners_away' = miners_away \cup {p}

(* The rollup refreshes its clone of an escrow, sooner or later. *)
Refresh(p) ==
  /\ clone' = [clone EXCEPT ![p] = Shown(escrow[p])]
  /\ UNCHANGED <<config, round, ended, miner, escrow, rounds_away, miners_away, pot_vault>>

-----------------------------------------------------------------------------
(* Staking, on the rollup or, with nothing delegated, on L1 *)

StakeIn(p, r) == IF miner[p].round_id = r THEN miner[p].staked ELSE 0

(* The caps and the budget, read off the escrow as the stake sees it.      *)
Allowed(seen, r, held, amount) ==
  /\ seen.active_round = r
  /\ amount >= MinStake
  /\ held + amount <= MaxStakePerRound
  /\ held + amount <= seen.balance

Stake(p, r, amount) ==
  LET held == StakeIn(p, r) IN
  /\ \/ OnRollup(Program!stake, r, p) /\ Allowed(clone[p], r, held, amount)
     \/ OnL1(Program!stake, r, p)     /\ Allowed(Shown(escrow[p]), r, held, amount)
  /\ round[r].state = "open"
  /\ r \notin ended
  /\ round[r].pot + amount <= MaxPot
  /\ miner' = [miner EXCEPT ![p] = [round_id |-> r, staked |-> held + amount]]
  /\ round' = [round EXCEPT ![r].pot = @ + amount]
  /\ UNCHANGED <<config, ended, escrow, clone, rounds_away, miners_away, pot_vault>>

-----------------------------------------------------------------------------
(* Back to L1: commit, reconcile, then claim or refund *)

AnyStage(r) == round[r].state # "absent"                    \* mutant of MayCommit
MayCommit(r) == round[r].state # "absent" /\ r \in ended

CommitMiner(p) ==
  LET r == miner[p].round_id IN
  /\ OnRollup(Program!commitMiner, r, p)
  /\ MayCommit(r)
  /\ miners_away' = miners_away \ {p}
  /\ UNCHANGED <<config, round, ended, miner, escrow, clone, rounds_away, pot_vault>>

(* The debit is due once per round and player. *)
DebitDue(p, r) == miner[p].round_id = r /\ escrow[p].reconciled_round # r

Debited(e, r, staked) ==
  [e EXCEPT !.balance = @ - staked, !.reconciled_round = r, !.active_round = 0]

ReconcileMiner(p) ==
  LET r == escrow[p].active_round
      staked == miner[p].staked
  IN
  /\ r # 0
  /\ OnL1(Program!reconcileMiner, r, p)
  /\ \/ /\ DebitDue(p, r)
        /\ staked <= escrow[p].balance
        /\ staked <= config.total_escrow_balance
        /\ escrow' = [escrow EXCEPT ![p] = Debited(@, r, staked)]
        /\ config' = [config EXCEPT !.total_escrow_balance = @ - staked]
     \/ /\ ~ DebitDue(p, r)
        /\ escrow' = [escrow EXCEPT ![p].active_round = 0]
        /\ UNCHANGED config
  /\ UNCHANGED <<round, ended, miner, clone, rounds_away, miners_away, pot_vault>>

AnyTimes(e, r) == TRUE                                      \* mutant of Unclaimed
Unclaimed(e, r) == e.last_claimed_round < r

Claim(p, r) ==
  /\ OnL1(Program!claim, r, p)
  /\ round[r].state = "claimable"
  /\ miner[p].round_id = r
  /\ Unclaimed(escrow[p], r)
  /\ round' = [round EXCEPT ![r].claimed = @ + miner[p].staked]
  /\ escrow' = [escrow EXCEPT ![p].last_claimed_round = r, ![p].active_round = 0]
  /\ UNCHANGED <<config, ended, miner, clone, rounds_away, miners_away, pot_vault>>

(* A refund gives back what reconciliation took, once; a player who was    *)
(* not reconciled has nothing coming and is only unlocked.                 *)
KeptMark(e, staked) == [e EXCEPT !.balance = @ + staked, !.active_round = 0]  \* mutant of Refunded
Refunded(e, staked) ==
  [e EXCEPT !.balance = @ + staked, !.reconciled_round = 0, !.active_round = 0]

Refund(p, r) ==
  LET reconciled == escrow[p].reconciled_round = r IN
  /\ r # 0
  /\ OnL1(Program!refund, r, p)
  /\ round[r].state = "closed"
  /\ \/ /\ reconciled
        /\ miner[p].round_id = r
        /\ escrow' = [escrow EXCEPT ![p] = Refunded(@, miner[p].staked)]
        /\ config' = [config EXCEPT !.total_escrow_balance = @ + miner[p].staked]
     \/ /\ ~ reconciled
        /\ escrow[p].active_round = r
        /\ escrow' = [escrow EXCEPT ![p].active_round = 0]
        /\ UNCHANGED config
  /\ UNCHANGED <<round, ended, miner, clone, rounds_away, miners_away, pot_vault>>

-----------------------------------------------------------------------------
(* Stakes in an unswapped round that are still to be debited. *)
Unreconciled(p) ==
  IF /\ round[miner[p].round_id].state \in Unswapped
     /\ escrow[p].active_round = miner[p].round_id
     /\ escrow[p].reconciled_round # miner[p].round_id
  THEN miner[p].staked ELSE 0

AllDebited == \A p \in Player : Unreconciled(p) = 0

(* The steps that are the same whoever runs the game. *)
PlayerStep(p) ==
  \/ \E a \in Amounts : Deposit(p, a) \/ Withdraw(p, a)
  \/ \E r \in RoundId, a \in Amounts : Stake(p, r, a)
  \/ \E r \in RoundId : Claim(p, r) \/ Refund(p, r)

CrankStep ==
  \/ CreateRound
  \/ \E p \in Player : CommitMiner(p) \/ ReconcileMiner(p)
  \/ \E r \in RoundId :
        \/ DelegateRound(r) \/ CommitRound(r)
        \/ Settle(r) \/ RequestSettle(r)
        \/ CancelRound(r) \/ CloseRound(r)

NetworkStep ==
  \/ \E r \in RoundId : DeadlinePasses(r) \/ SettleCallback(r)
  \/ \E p \in Player : Refresh(p)

Step == (\E p \in Player : PlayerStep(p)) \/ CrankStep \/ NetworkStep

(* The program: anybody sends anything. *)
Next ==
  \/ Step
  \/ \E p \in Player : Join(p) \/ DelegateMiner(p)
  \/ \E r \in RoundId : ExecuteSwap(r)

Spec == Init /\ [][Next]_vars

(* The program as its clients use it: the app enters in one transaction,   *)
(* and the keeper swaps only after every debit (finalizeSettled).          *)
ClientNext ==
  \/ Step
  \/ \E p \in Player : Enter(p)
  \/ AllDebited /\ \E r \in RoundId : ExecuteSwap(r)

ClientSpec == Init /\ [][ClientNext]_vars

-----------------------------------------------------------------------------
(* Properties *)

ConfigType   == [current_round_id: RoundId, current_round_finalized: BOOLEAN,
                 total_escrow_balance: Nat]
RoundType    == [state: Unswapped \cup {"absent", "claimable", "closed"},
                 pot: Nat, claimed: Nat]
PositionType == [round_id: RoundId, staked: Nat]
EscrowType   == [balance: Nat, active_round: RoundId, reconciled_round: RoundId,
                 last_claimed_round: RoundId]
ShownType    == [balance: Nat, active_round: RoundId]

(* Every account holds values of its type; in particular no u64 is taken   *)
(* below zero.                                                             *)
TypeOK ==
  /\ config \in ConfigType
  /\ round \in [RoundId -> RoundType]
  /\ ended \subseteq RoundId
  /\ miner \in [Player -> PositionType]
  /\ escrow \in [Player -> EscrowType]
  /\ clone \in [Player -> ShownType]
  /\ rounds_away \subseteq RoundId /\ miners_away \subseteq Player
  /\ pot_vault \in Nat

(* The commingled vault backs what the program says it owes: every escrow  *)
(* balance, the live pot except what its stakers are still to be debited,  *)
(* and what reconciled stakers of cancelled rounds can take back           *)
(* (round_entry.rs and recovery.rs, who debit and credit at different      *)
(* times from a snapshot taken at yet another).                            *)
LivePot ==
  SumBelow([r \in RoundId |-> IF round[r].state \in Unswapped THEN round[r].pot ELSE 0],
           MaxRounds + 1)

Recoverable(p) ==
  IF /\ round[miner[p].round_id].state = "closed"
     /\ escrow[p].reconciled_round = miner[p].round_id
  THEN miner[p].staked ELSE 0

EscrowBacked ==
  /\ config.total_escrow_balance =
        SumBelow([p \in Player |-> escrow[p].balance], NumPlayers)
  /\ pot_vault + SumBelow([p \in Player |-> Unreconciled(p)], NumPlayers)
       >= config.total_escrow_balance + LivePot
            + SumBelow([p \in Player |-> Recoverable(p)], NumPlayers)

(* stake.rs: the budget is checked against a clone that may lag, yet the   *)
(* debit that follows always finds its lamports.                           *)
BudgetHolds == \A p \in Player : Unreconciled(p) <= escrow[p].balance

(* claim leaves the stakes in place and relies on last_claimed_round: what *)
(* was claimed and what still can be is never more than the pot.           *)
Claimable(p, r) ==
  IF miner[p].round_id = r /\ Unclaimed(escrow[p], r) THEN miner[p].staked ELSE 0

ClaimsWithinPot ==
  \A r \in RoundId : round[r].state = "claimable" =>
     round[r].claimed + SumBelow([p \in Player |-> Claimable(p, r)], NumPlayers)
       <= round[r].pot

(* stake.rs:82, "a player cannot re-stake into the same round and dodge    *)
(* the escrow debit": once nobody is locked in a settled round, its swap   *)
(* passes the gate.                                                        *)
SwapGateOpens ==
  \A r \in RoundId :
     /\ round[r].state = "settled"
     /\ \A p \in Player : escrow[p].active_round # r
     => pot_vault >= config.total_escrow_balance + round[r].pot
=============================================================================
