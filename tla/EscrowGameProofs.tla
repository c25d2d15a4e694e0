-------------------------- MODULE EscrowGameProofs --------------------------
(***************************************************************************)
(* What holds of EscrowGame for every number of players and rounds and     *)
(* every set of amounts.  Types hold whatever anybody sends (Spec); the    *)
(* vault's books hold of the program as its clients use it (ClientSpec).   *)
(* The invariants are proved in layers, each step lemma citing the layers  *)
(* below it: TypeOK, RoundsInOrder, LocksInOrder, BudgetHolds, PotsCover,  *)
(* and on these EscrowBacked, ClaimsWithinPot and SwapGateOpens.           *)
(***************************************************************************)
EXTENDS EscrowGame, SumsTheorems

-----------------------------------------------------------------------------
(* Types *)

LEMMA RoundIds == 0 \in RoundId /\ RoundId \subseteq Nat
  BY EscrowSizes DEF RoundId

LEMMA NoRoundType == NoRound \in RoundType /\ NewRound \in RoundType
  BY DEF NoRound, NewRound, RoundType, Unswapped

(* Updating fields of an account with values of their types.               *)
LEMMA EscrowFields ==
  ASSUME NEW e \in EscrowType, NEW b \in Nat, NEW r \in RoundId, NEW s \in RoundId
  PROVE  /\ [e EXCEPT !.balance = b] \in EscrowType
         /\ [e EXCEPT !.active_round = r] \in EscrowType
         /\ [e EXCEPT !.last_claimed_round = r, !.active_round = s] \in EscrowType
         /\ [e EXCEPT !.balance = b, !.reconciled_round = s, !.active_round = r] \in EscrowType
  BY DEF EscrowType

LEMMA RoundFields ==
  ASSUME NEW rd \in RoundType, NEW n \in Nat
  PROVE  /\ [rd EXCEPT !.pot = n] \in RoundType
         /\ [rd EXCEPT !.claimed = n] \in RoundType
         /\ \A st \in Unswapped \cup {"absent", "claimable", "closed"} :
               [rd EXCEPT !.state = st] \in RoundType
  BY DEF RoundType

LEMMA TotalField ==
  ASSUME TypeOK, NEW n \in Nat
  PROVE  [config EXCEPT !.total_escrow_balance = n] \in ConfigType
  BY DEF ConfigType, TypeOK

LEMMA FieldTypes ==
  ASSUME TypeOK, NEW p \in Player
  PROVE  /\ escrow[p] \in EscrowType /\ escrow[p].balance \in Nat
         /\ escrow[p].active_round \in RoundId
         /\ escrow[p].reconciled_round \in RoundId
         /\ escrow[p].last_claimed_round \in RoundId
         /\ miner[p].round_id \in RoundId /\ miner[p].staked \in Nat
         /\ clone[p].balance \in Nat /\ clone[p].active_round \in RoundId
  BY DEF TypeOK, PositionType, EscrowType, ShownType

LEMMA StakeInNat ==
  ASSUME TypeOK, NEW p \in Player, NEW r \in RoundId
  PROVE  StakeIn(p, r) \in Nat
  BY FieldTypes DEF StakeIn

LEMMA RoundTypes ==
  ASSUME TypeOK, NEW r \in RoundId
  PROVE  /\ round[r] \in RoundType /\ round[r].pot \in Nat /\ round[r].claimed \in Nat
         /\ round[r].state \in Unswapped \cup {"absent", "claimable", "closed"}
  BY DEF TypeOK, RoundType

LEMMA ConfigTypes ==
  ASSUME TypeOK
  PROVE  /\ config.current_round_id \in RoundId /\ config.current_round_id \in Nat
         /\ config.current_round_finalized \in BOOLEAN
         /\ config.total_escrow_balance \in Nat
         /\ pot_vault \in Nat
  BY RoundIds DEF TypeOK, ConfigType

LEMMA InitType == Init => TypeOK
<1> SUFFICES ASSUME Init PROVE TypeOK
  OBVIOUS
<1>1. /\ NoEscrow \in EscrowType /\ Shown(NoEscrow) \in ShownType
      /\ [round_id |-> 0, staked |-> 0] \in PositionType
      /\ config \in ConfigType
  BY RoundIds DEF Init, NoEscrow, Shown, EscrowType, ShownType, PositionType, ConfigType
<1> QED BY <1>1, NoRoundType DEF Init, TypeOK

(* The actions that move lamports of one escrow. *)
LEMMA EscrowStepType ==
  ASSUME TypeOK, NEW p \in Player, NEW a \in Amounts, Deposit(p, a) \/ Withdraw(p, a)
  PROVE  TypeOK'
<1>1. a \in Nat
  BY EscrowAmounts
<1>2. CASE Deposit(p, a)
  <2>1. escrow[p].balance + a \in Nat /\ config.total_escrow_balance + a \in Nat
    BY <1>1, FieldTypes, ConfigTypes
  <2>2. escrow' \in [Player -> EscrowType] /\ config' \in ConfigType
    BY <1>2, <2>1, EscrowFields, TotalField, FieldTypes, RoundIds DEF Deposit, Credit, TypeOK
  <2> QED BY <1>1, <1>2, <2>2 DEF Deposit, TypeOK
<1>3. CASE Withdraw(p, a)
  <2>1. escrow[p].balance - a \in Nat /\ config.total_escrow_balance - a \in Nat
    BY <1>1, <1>3, FieldTypes, ConfigTypes DEF Withdraw, Withdrawable
  <2>2. escrow' \in [Player -> EscrowType] /\ config' \in ConfigType
    BY <1>3, <2>1, EscrowFields, TotalField, FieldTypes, RoundIds DEF Withdraw, TypeOK
  <2> QED BY <1>1, <1>3, <2>2 DEF Withdraw, TypeOK
<1> QED BY <1>2, <1>3

LEMMA RoundStepType ==
  ASSUME TypeOK, NEW r \in RoundId,
         \/ CreateRound \/ CloseRound(r) \/ DeadlinePasses(r)
         \/ DelegateRound(r) \/ CommitRound(r)
  PROVE  TypeOK'
<1>1. CASE CreateRound
  <2>1. config.current_round_id + 1 \in RoundId
    BY <1>1, EscrowSizes, ConfigTypes DEF CreateRound, RoundId
  <2>2. config' \in ConfigType
    BY <1>1, <2>1 DEF CreateRound, TypeOK, ConfigType
  <2> QED BY <1>1, <2>1, <2>2, NoRoundType DEF CreateRound, TypeOK
<1>2. CASE CloseRound(r)
  BY <1>2, NoRoundType DEF CloseRound, TypeOK
<1>3. CASE DeadlinePasses(r)
  BY <1>3 DEF DeadlinePasses, TypeOK
<1>4. CASE DelegateRound(r)
  BY <1>4 DEF DelegateRound, TypeOK
<1>5. CASE CommitRound(r)
  BY <1>5 DEF CommitRound, TypeOK
<1> QED BY <1>1, <1>2, <1>3, <1>4, <1>5

LEMMA MovedType ==
  ASSUME TypeOK, NEW r \in RoundId,
         \/ Settle(r) \/ RequestSettle(r) \/ SettleCallback(r)
         \/ ExecuteSwap(r) \/ CancelRound(r)
  PROVE  TypeOK'
<1>1. ASSUME NEW st \in Unswapped \cup {"absent", "claimable", "closed"}, Moved(r, st)
      PROVE  /\ round' \in [RoundId -> RoundType]
             /\ UNCHANGED <<ended, miner, escrow, clone, rounds_away, miners_away>>
  BY <1>1, RoundFields DEF Moved, TypeOK
<1>2. CASE Settle(r) \/ RequestSettle(r) \/ SettleCallback(r)
  BY <1>1, <1>2 DEF Settle, RequestSettle, SettleCallback, TypeOK, Unswapped
<1>3. ASSUME NEW f \in BOOLEAN
      PROVE  [config EXCEPT !.current_round_finalized = f] \in ConfigType
  BY DEF TypeOK, ConfigType
<1>4. CASE ExecuteSwap(r)
  <2>1. pot_vault' \in Nat
    BY <1>4, RoundTypes, ConfigTypes DEF ExecuteSwap
  <2> QED BY <1>1, <1>3, <1>4, <2>1 DEF ExecuteSwap, TypeOK
<1>5. CASE CancelRound(r)
  BY <1>1, <1>3, <1>5 DEF CancelRound, TypeOK
<1> QED BY <1>2, <1>4, <1>5

LEMMA PlayType ==
  ASSUME TypeOK, NEW p \in Player, NEW r \in RoundId, NEW a \in Amounts, Stake(p, r, a)
  PROVE  TypeOK'
<1>1. /\ round[r].pot + a \in Nat
      /\ [round_id |-> r, staked |-> StakeIn(p, r) + a] \in PositionType
  BY EscrowAmounts, RoundTypes, StakeInNat DEF PositionType
<1>2. round' \in [RoundId -> RoundType] /\ miner' \in [Player -> PositionType]
  BY <1>1, RoundTypes, RoundFields DEF Stake, TypeOK
<1> QED BY <1>2 DEF Stake, TypeOK

LEMMA ClaimType ==
  ASSUME TypeOK, NEW p \in Player, NEW r \in RoundId, Claim(p, r) \/ Refund(p, r)
  PROVE  TypeOK'
<1>1. CASE Claim(p, r)
  <2>1. round[r].claimed + miner[p].staked \in Nat
    BY FieldTypes, RoundTypes
  <2>2. round' \in [RoundId -> RoundType] /\ escrow' \in [Player -> EscrowType]
    BY <1>1, <2>1, FieldTypes, RoundTypes, RoundFields, EscrowFields, RoundIds DEF Claim, TypeOK
  <2> QED BY <1>1, <2>2 DEF Claim, TypeOK
<1>2. CASE Refund(p, r)
  <2>1. /\ escrow[p].balance + miner[p].staked \in Nat
        /\ config.total_escrow_balance + miner[p].staked \in Nat
    BY FieldTypes, ConfigTypes
  <2>2. CASE escrow[p].reconciled_round = r
    <3>1. escrow' = [escrow EXCEPT ![p] = Refunded(escrow[p], miner[p].staked)]
          /\ config' = [config EXCEPT !.total_escrow_balance = @ + miner[p].staked]
      BY <1>2, <2>2 DEF Refund
    <3>2. Refunded(escrow[p], miner[p].staked) \in EscrowType
      BY <2>1, FieldTypes, EscrowFields, RoundIds DEF Refunded
    <3>3. escrow' \in [Player -> EscrowType] /\ config' \in ConfigType
      BY <2>1, <3>1, <3>2, TotalField DEF TypeOK
    <3> QED BY <1>2, <3>3 DEF Refund, TypeOK
  <2>3. CASE escrow[p].reconciled_round # r
    <3>1. escrow' = [escrow EXCEPT ![p].active_round = 0] /\ UNCHANGED config
      BY <1>2, <2>3 DEF Refund
    <3>2. escrow' \in [Player -> EscrowType]
      BY <3>1, FieldTypes, EscrowFields, RoundIds DEF TypeOK
    <3> QED BY <1>2, <3>1, <3>2 DEF Refund, TypeOK
  <2> QED BY <2>2, <2>3
<1> QED BY <1>1, <1>2

LEMMA PositionStepType ==
  ASSUME TypeOK, NEW p \in Player,
         \/ CommitMiner(p) \/ ReconcileMiner(p) \/ Refresh(p)
         \/ Join(p) \/ DelegateMiner(p) \/ Enter(p)
  PROVE  TypeOK'
<1>1. CASE CommitMiner(p)
  BY <1>1 DEF CommitMiner, TypeOK
<1>2. CASE ReconcileMiner(p)
  <2> DEFINE r == escrow[p].active_round
             staked == miner[p].staked
  <2>1. CASE DebitDue(p, r)
    <3>1. /\ staked <= escrow[p].balance /\ staked <= config.total_escrow_balance
          /\ escrow' = [escrow EXCEPT ![p] = Debited(escrow[p], r, staked)]
          /\ config' = [config EXCEPT !.total_escrow_balance = @ - staked]
      BY <1>2, <2>1 DEF ReconcileMiner
    <3>2. escrow[p].balance - staked \in Nat /\ config.total_escrow_balance - staked \in Nat
      BY <3>1, FieldTypes, ConfigTypes
    <3>3. Debited(escrow[p], r, staked) \in EscrowType
      BY <3>2, FieldTypes, EscrowFields, RoundIds DEF Debited
    <3>4. escrow' \in [Player -> EscrowType] /\ config' \in ConfigType
      BY <3>1, <3>2, <3>3, TotalField DEF TypeOK
    <3> QED BY <1>2, <3>4 DEF ReconcileMiner, TypeOK
  <2>2. CASE ~ DebitDue(p, r)
    <3>1. escrow' = [escrow EXCEPT ![p].active_round = 0] /\ UNCHANGED config
      BY <1>2, <2>2 DEF ReconcileMiner
    <3>2. escrow' \in [Player -> EscrowType]
      BY <3>1, FieldTypes, EscrowFields, RoundIds DEF TypeOK
    <3> QED BY <1>2, <3>1, <3>2 DEF ReconcileMiner, TypeOK
  <2> QED BY <2>1, <2>2
<1>3. CASE Refresh(p)
  <2>1. Shown(escrow[p]) \in ShownType
    BY FieldTypes, RoundIds DEF Shown, ShownType
  <2> QED BY <1>3, <2>1 DEF Refresh, TypeOK
<1>4. CASE Join(p) \/ Enter(p)
  <2>1. Stamped(config.current_round_id) \in PositionType
    BY ConfigTypes, RoundIds DEF Stamped, PositionType
  <2>2. Joins(p)
    BY <1>4 DEF Join, Enter
  <2>3. escrow' \in [Player -> EscrowType]
    BY <2>2, FieldTypes, ConfigTypes, EscrowFields DEF Joins, TypeOK
  <2>4. miner' \in [Player -> PositionType]
    BY <2>1, <2>2 DEF Joins, TypeOK
  <2>5. miners_away' \subseteq Player
    BY <1>4 DEF Join, Enter, TypeOK
  <2> QED BY <2>2, <2>3, <2>4, <2>5 DEF Joins, TypeOK
<1>5. CASE DelegateMiner(p)
  BY <1>5 DEF DelegateMiner, TypeOK
<1> QED BY <1>1, <1>2, <1>3, <1>4, <1>5

LEMMA StutterType == TypeOK /\ UNCHANGED vars => TypeOK'
  BY DEF TypeOK, vars

LEMMA StepType ==
  ASSUME TypeOK, Step
  PROVE  TypeOK'
<1>1. CASE \E p \in Player : PlayerStep(p)
  <2>1. PICK p \in Player : PlayerStep(p)
    BY <1>1
  <2>2. CASE \E a \in Amounts : Deposit(p, a) \/ Withdraw(p, a)
    BY <2>2, EscrowStepType
  <2>3. CASE \E r \in RoundId, a \in Amounts : Stake(p, r, a)
    BY <2>3, PlayType
  <2>4. CASE \E r \in RoundId : Claim(p, r) \/ Refund(p, r)
    BY <2>4, ClaimType
  <2> QED BY <2>1, <2>2, <2>3, <2>4 DEF PlayerStep
<1>2. CASE CrankStep
  BY <1>2, RoundIds, RoundStepType, MovedType, PositionStepType DEF CrankStep
<1>3. CASE NetworkStep
  BY <1>3, RoundStepType, MovedType, PositionStepType DEF NetworkStep
<1> QED BY <1>1, <1>2, <1>3 DEF Step

LEMMA ClientType == TypeOK /\ [ClientNext]_vars => TypeOK'
  BY StepType, StutterType, PositionStepType, MovedType DEF ClientNext

(* Whatever anybody sends in whatever order, every account keeps its type: *)
(* no unsigned field of the escrow game goes below zero.                   *)
THEOREM EscrowTypeCorrect == Spec => []TypeOK
<1>1. TypeOK /\ [Next]_vars => TypeOK'
  BY StepType, StutterType, PositionStepType, MovedType DEF Next
<1> QED BY <1>1, InitType, PTL DEF Spec

-----------------------------------------------------------------------------
(* What each action does to each field *)

LEMMA ConfigEffect ==
  ASSUME TypeOK
  PROVE  /\ \A n \in Nat :
              LET c == [config EXCEPT !.total_escrow_balance = n] IN
              /\ c.total_escrow_balance = n
              /\ c.current_round_id = config.current_round_id
              /\ c.current_round_finalized = config.current_round_finalized
         /\ \A f \in BOOLEAN :
              LET c == [config EXCEPT !.current_round_finalized = f] IN
              /\ c.total_escrow_balance = config.total_escrow_balance
              /\ c.current_round_id = config.current_round_id
              /\ c.current_round_finalized = f
  BY DEF TypeOK, ConfigType

(* Only player p's escrow changes, to the given fields. *)
Escrows(p, balance, active, reconciled, claimed) ==
  /\ \A q \in Player : q # p => escrow'[q] = escrow[q]
  /\ escrow'[p].balance = balance
  /\ escrow'[p].active_round = active
  /\ escrow'[p].reconciled_round = reconciled
  /\ escrow'[p].last_claimed_round = claimed

(* Only the total changes of the configuration, to n. *)
Total(n) ==
  /\ config'.total_escrow_balance = n
  /\ config'.current_round_id = config.current_round_id
  /\ config'.current_round_finalized = config.current_round_finalized

(* Only round r changes, to the given fields. *)
Rounds(r, state, pot, claimed) ==
  /\ \A q \in RoundId : q # r => round'[q] = round[q]
  /\ round'[r].state = state /\ round'[r].pot = pot /\ round'[r].claimed = claimed

LEMMA DepositEffect ==
  ASSUME TypeOK, NEW p \in Player, NEW a \in Amounts, Deposit(p, a)
  PROVE  /\ a \in Nat
         /\ Escrows(p, escrow[p].balance + a, escrow[p].active_round,
                    escrow[p].reconciled_round, escrow[p].last_claimed_round)
         /\ Total(config.total_escrow_balance + a)
         /\ pot_vault' = pot_vault + a
         /\ UNCHANGED <<round, ended, miner, clone, rounds_away, miners_away>>
<1>1. a \in Nat
  BY EscrowAmounts
<1>2. config.total_escrow_balance + a \in Nat
  BY <1>1, ConfigTypes
<1>3. Total(config.total_escrow_balance + a)
  BY <1>2, ConfigEffect DEF Deposit, Credit, Total
<1>4. Escrows(p, escrow[p].balance + a, escrow[p].active_round,
              escrow[p].reconciled_round, escrow[p].last_claimed_round)
  BY FieldTypes DEF Deposit, Credit, TypeOK, EscrowType, Escrows
<1> QED BY <1>1, <1>3, <1>4 DEF Deposit

LEMMA WithdrawEffect ==
  ASSUME TypeOK, NEW p \in Player, NEW a \in Amounts, Withdraw(p, a)
  PROVE  /\ a \in Nat /\ escrow[p].active_round = 0
         /\ a <= escrow[p].balance /\ a <= pot_vault /\ a <= config.total_escrow_balance
         /\ Escrows(p, escrow[p].balance - a, escrow[p].active_round,
                    escrow[p].reconciled_round, escrow[p].last_claimed_round)
         /\ Total(config.total_escrow_balance - a)
         /\ pot_vault' = pot_vault - a
         /\ UNCHANGED <<round, ended, miner, clone, rounds_away, miners_away>>
<1>1. a \in Nat /\ a <= config.total_escrow_balance
  BY EscrowAmounts DEF Withdraw
<1>2. config.total_escrow_balance - a \in Nat
  BY <1>1, ConfigTypes
<1>3. Total(config.total_escrow_balance - a)
  BY <1>2, ConfigEffect DEF Withdraw, Total
<1>4. Escrows(p, escrow[p].balance - a, escrow[p].active_round,
              escrow[p].reconciled_round, escrow[p].last_claimed_round)
  BY FieldTypes DEF Withdraw, TypeOK, EscrowType, Escrows
<1> QED BY <1>1, <1>3, <1>4 DEF Withdraw, Withdrawable

LEMMA CreateEffect ==
  ASSUME TypeOK, CreateRound
  PROVE  LET id == config.current_round_id + 1 IN
         /\ id \in RoundId /\ config.current_round_finalized
         /\ config'.current_round_id = id
         /\ ~ config'.current_round_finalized
         /\ config'.total_escrow_balance = config.total_escrow_balance
         /\ Rounds(id, "open", 0, 0)
         /\ UNCHANGED <<ended, miner, escrow, clone, rounds_away, miners_away, pot_vault>>
<1> DEFINE id == config.current_round_id + 1
<1>1. id \in RoundId
  BY EscrowSizes, ConfigTypes DEF CreateRound, RoundId
<1>2. /\ config'.current_round_id = id
      /\ ~ config'.current_round_finalized
      /\ config'.total_escrow_balance = config.total_escrow_balance
  BY DEF CreateRound, TypeOK, ConfigType
<1>3. Rounds(id, "open", 0, 0)
  BY <1>1 DEF CreateRound, TypeOK, Rounds, NewRound, NoRound
<1> QED BY <1>1, <1>2, <1>3 DEF CreateRound

LEMMA MovedEffect ==
  ASSUME TypeOK, NEW r \in RoundId, NEW st, Moved(r, st)
  PROVE  /\ Rounds(r, st, round[r].pot, round[r].claimed)
         /\ UNCHANGED <<ended, miner, escrow, clone, rounds_away, miners_away>>
  BY RoundTypes DEF Moved, TypeOK, RoundType, Rounds

LEMMA DrawEffect ==
  ASSUME TypeOK, NEW r \in RoundId,
         Settle(r) \/ RequestSettle(r) \/ SettleCallback(r)
  PROVE  /\ \E st \in Unswapped : Rounds(r, st, round[r].pot, round[r].claimed)
         /\ round[r].state \in Unswapped
         /\ round[r].state = "open" => r \in ended
         /\ UNCHANGED <<config, ended, miner, escrow, clone, rounds_away, miners_away, pot_vault>>
  BY MovedEffect DEF Settle, RequestSettle, SettleCallback, Unswapped

LEMMA SwapEffect ==
  ASSUME TypeOK, NEW r \in RoundId, ExecuteSwap(r)
  PROVE  /\ round[r].state = "settled"
         /\ Rounds(r, "claimable", round[r].pot, round[r].claimed)
         /\ pot_vault >= config.total_escrow_balance + round[r].pot
         /\ pot_vault' = pot_vault - round[r].pot
         /\ config'.total_escrow_balance = config.total_escrow_balance
         /\ config'.current_round_id = config.current_round_id
         /\ config'.current_round_finalized
         /\ UNCHANGED <<ended, miner, escrow, clone, rounds_away, miners_away>>
  BY MovedEffect, ConfigEffect DEF ExecuteSwap

LEMMA CancelEffect ==
  ASSUME TypeOK, NEW r \in RoundId, CancelRound(r)
  PROVE  /\ round[r].state \in Unswapped /\ r \in ended
         /\ Rounds(r, "closed", round[r].pot, round[r].claimed)
         /\ config'.total_escrow_balance = config.total_escrow_balance
         /\ config'.current_round_id = config.current_round_id
         /\ config'.current_round_finalized
         /\ UNCHANGED <<ended, miner, escrow, clone, rounds_away, miners_away, pot_vault>>
  BY MovedEffect, ConfigEffect DEF CancelRound

LEMMA CloseEffect ==
  ASSUME TypeOK, NEW r \in RoundId, CloseRound(r)
  PROVE  /\ \/ round[r].state = "claimable"
            \/ round[r].state = "closed"
         /\ Rounds(r, "absent", 0, 0) /\ round'[r] = NoRound
         /\ UNCHANGED <<config, ended, miner, escrow, clone, rounds_away, miners_away, pot_vault>>
  BY DEF CloseRound, TypeOK, Rounds, NoRound

LEMMA EnterEffect ==
  ASSUME TypeOK, NEW p \in Player, Enter(p)
  PROVE  LET r == config.current_round_id IN
         /\ r # 0 /\ escrow[p].active_round = 0
         /\ Escrows(p, escrow[p].balance, r, escrow[p].reconciled_round,
                    escrow[p].last_claimed_round)
         /\ \A q \in Player : q # p => miner'[q] = miner[q]
         /\ miner'[p].round_id = r /\ miner'[p].staked = 0
         /\ miners_away' = miners_away \cup {p}
         /\ UNCHANGED <<config, round, ended, clone, rounds_away, pot_vault>>
<1>1. Joins(p) /\ miners_away' = miners_away \cup {p}
  BY DEF Enter
<1>2. Escrows(p, escrow[p].balance, config.current_round_id, escrow[p].reconciled_round,
              escrow[p].last_claimed_round)
  BY <1>1, FieldTypes DEF Joins, TypeOK, EscrowType, Escrows
<1>3. /\ \A q \in Player : q # p => miner'[q] = miner[q]
      /\ miner'[p].round_id = config.current_round_id /\ miner'[p].staked = 0
  BY <1>1 DEF Joins, TypeOK, Stamped
<1> QED BY <1>1, <1>2, <1>3 DEF Joins

(* Away from home L1 refuses a miner position. *)
LEMMA NeedsMinerHome ==
  ASSUME NEW p \in Player, NEW r \in RoundId,
         \/ OnL1(Program!reconcileMiner, r, p) \/ OnL1(Program!stake, r, p)
         \/ OnL1(Program!claim, r, p) \/ OnL1(Program!refund, r, p)
  PROVE  p \notin miners_away
  BY DEF OnL1, Program!RunsOnL1, Away, Program!reconcileMiner, Program!stake,
     Program!claim, Program!refund

LEMMA StakeEffect ==
  ASSUME TypeOK, NEW p \in Player, NEW r \in RoundId, NEW a \in Amounts, Stake(p, r, a)
  PROVE  /\ a \in Nat /\ round[r].state = "open" /\ r \notin ended
         /\ \/ /\ clone[p].active_round = r
               /\ StakeIn(p, r) + a <= clone[p].balance
            \/ /\ p \notin miners_away
               /\ escrow[p].active_round = r
               /\ StakeIn(p, r) + a <= escrow[p].balance
         /\ Rounds(r, "open", round[r].pot + a, round[r].claimed)
         /\ \A q \in Player : q # p => miner'[q] = miner[q]
         /\ miner'[p].round_id = r /\ miner'[p].staked = StakeIn(p, r) + a
         /\ UNCHANGED <<config, ended, escrow, clone, rounds_away, miners_away, pot_vault>>
<1>1. a \in Nat
  BY EscrowAmounts
<1>2. Rounds(r, "open", round[r].pot + a, round[r].claimed)
  BY RoundTypes DEF Stake, TypeOK, RoundType, Rounds
<1>3. /\ \A q \in Player : q # p => miner'[q] = miner[q]
      /\ miner'[p].round_id = r /\ miner'[p].staked = StakeIn(p, r) + a
  BY DEF Stake, TypeOK
<1>4. \/ /\ clone[p].active_round = r
         /\ StakeIn(p, r) + a <= clone[p].balance
      \/ /\ p \notin miners_away
         /\ escrow[p].active_round = r
         /\ StakeIn(p, r) + a <= escrow[p].balance
  BY NeedsMinerHome DEF Stake, Allowed, Shown
<1> QED BY <1>1, <1>2, <1>3, <1>4 DEF Stake

LEMMA CommitEffect ==
  ASSUME TypeOK, NEW p \in Player, CommitMiner(p)
  PROVE  /\ miner[p].round_id \in ended
         /\ miners_away' = miners_away \ {p}
         /\ UNCHANGED <<config, round, ended, miner, escrow, clone, rounds_away, pot_vault>>
  BY DEF CommitMiner, MayCommit

LEMMA ReconcileEffect ==
  ASSUME TypeOK, NEW p \in Player, ReconcileMiner(p)
  PROVE  LET r == escrow[p].active_round
             due == DebitDue(p, r)
             debit == IF due THEN miner[p].staked ELSE 0
         IN
         /\ r # 0 /\ p \notin miners_away
         /\ debit <= escrow[p].balance /\ debit <= config.total_escrow_balance
         /\ Escrows(p, escrow[p].balance - debit, 0,
                    IF due THEN r ELSE escrow[p].reconciled_round,
                    escrow[p].last_claimed_round)
         /\ Total(config.total_escrow_balance - debit)
         /\ UNCHANGED <<round, ended, miner, clone, rounds_away, miners_away, pot_vault>>
<1> DEFINE r == escrow[p].active_round
           staked == miner[p].staked
<1>1. r # 0 /\ p \notin miners_away
  BY FieldTypes, NeedsMinerHome DEF ReconcileMiner
<1>2. CASE DebitDue(p, r)
  <2>1. /\ staked <= escrow[p].balance /\ staked <= config.total_escrow_balance
        /\ escrow' = [escrow EXCEPT ![p] = Debited(escrow[p], r, staked)]
        /\ config' = [config EXCEPT !.total_escrow_balance = config.total_escrow_balance - staked]
    BY <1>2 DEF ReconcileMiner
  <2>2. config.total_escrow_balance - staked \in Nat
    BY <2>1, FieldTypes, ConfigTypes
  <2>3. Total(config.total_escrow_balance - staked)
    BY <2>1, <2>2, ConfigEffect DEF Total
  <2>4. Escrows(p, escrow[p].balance - staked, 0, r, escrow[p].last_claimed_round)
    BY <2>1, FieldTypes DEF TypeOK, EscrowType, Escrows, Debited
  <2> QED BY <1>1, <1>2, <2>1, <2>3, <2>4 DEF ReconcileMiner
<1>3. CASE ~ DebitDue(p, r)
  <2>1. escrow' = [escrow EXCEPT ![p].active_round = 0] /\ UNCHANGED config
    BY <1>3 DEF ReconcileMiner
  <2>2. /\ escrow[p].balance - 0 = escrow[p].balance
        /\ config.total_escrow_balance - 0 = config.total_escrow_balance
        /\ 0 <= escrow[p].balance /\ 0 <= config.total_escrow_balance
    BY FieldTypes, ConfigTypes
  <2>3. Total(config.total_escrow_balance - 0)
    BY <2>1, <2>2 DEF Total
  <2>4. Escrows(p, escrow[p].balance - 0, 0, escrow[p].reconciled_round,
                escrow[p].last_claimed_round)
    BY <2>1, <2>2, FieldTypes DEF TypeOK, EscrowType, Escrows
  <2> QED BY <1>1, <1>3, <2>2, <2>3, <2>4 DEF ReconcileMiner
<1> QED BY <1>2, <1>3

LEMMA ClaimEffect ==
  ASSUME TypeOK, NEW p \in Player, NEW r \in RoundId, Claim(p, r)
  PROVE  /\ round[r].state = "claimable" /\ miner[p].round_id = r
         /\ Unclaimed(escrow[p], r)
         /\ Rounds(r, "claimable", round[r].pot, round[r].claimed + miner[p].staked)
         /\ Escrows(p, escrow[p].balance, 0, escrow[p].reconciled_round, r)
         /\ UNCHANGED <<config, ended, miner, clone, rounds_away, miners_away, pot_vault>>
<1>1. Rounds(r, "claimable", round[r].pot, round[r].claimed + miner[p].staked)
  BY RoundTypes DEF Claim, TypeOK, RoundType, Rounds
<1>2. Escrows(p, escrow[p].balance, 0, escrow[p].reconciled_round, r)
  BY FieldTypes DEF Claim, TypeOK, EscrowType, Escrows
<1> QED BY <1>1, <1>2 DEF Claim

LEMMA RefundEffect ==
  ASSUME TypeOK, NEW p \in Player, NEW r \in RoundId, Refund(p, r)
  PROVE  LET due == escrow[p].reconciled_round = r
             credit == IF due THEN miner[p].staked ELSE 0
         IN
         /\ r # 0 /\ round[r].state = "closed"
         /\ IF due THEN miner[p].round_id = r ELSE escrow[p].active_round = r
         /\ Escrows(p, escrow[p].balance + credit, 0,
                    IF due THEN 0 ELSE escrow[p].reconciled_round,
                    escrow[p].last_claimed_round)
         /\ Total(config.total_escrow_balance + credit)
         /\ UNCHANGED <<round, ended, miner, clone, rounds_away, miners_away, pot_vault>>
<1> DEFINE staked == miner[p].staked
<1>1. CASE escrow[p].reconciled_round = r
  <2>1. /\ miner[p].round_id = r
        /\ escrow' = [escrow EXCEPT ![p] = Refunded(escrow[p], staked)]
        /\ config' = [config EXCEPT !.total_escrow_balance = config.total_escrow_balance + staked]
    BY <1>1 DEF Refund
  <2>2. config.total_escrow_balance + staked \in Nat
    BY FieldTypes, ConfigTypes
  <2>3. Total(config.total_escrow_balance + staked)
    BY <2>1, <2>2, ConfigEffect DEF Total
  <2>4. Escrows(p, escrow[p].balance + staked, 0, 0, escrow[p].last_claimed_round)
    BY <2>1, FieldTypes DEF TypeOK, EscrowType, Escrows, Refunded
  <2> QED BY <1>1, <2>1, <2>3, <2>4 DEF Refund
<1>2. CASE escrow[p].reconciled_round # r
  <2>1. /\ escrow[p].active_round = r
        /\ escrow' = [escrow EXCEPT ![p].active_round = 0] /\ UNCHANGED config
    BY <1>2 DEF Refund
  <2>2. /\ escrow[p].balance + 0 = escrow[p].balance
        /\ config.total_escrow_balance + 0 = config.total_escrow_balance
    BY FieldTypes, ConfigTypes
  <2>3. Total(config.total_escrow_balance + 0)
    BY <2>1, <2>2 DEF Total
  <2>4. Escrows(p, escrow[p].balance + 0, 0, escrow[p].reconciled_round,
                escrow[p].last_claimed_round)
    BY <2>1, <2>2, FieldTypes DEF TypeOK, EscrowType, Escrows
  <2> QED BY <1>2, <2>1, <2>3, <2>4 DEF Refund
<1> QED BY <1>1, <1>2

LEMMA RefreshEffect ==
  ASSUME TypeOK, NEW p \in Player, Refresh(p)
  PROVE  /\ \A q \in Player : q # p => clone'[q] = clone[q]
         /\ clone'[p].balance = escrow[p].balance
         /\ clone'[p].active_round = escrow[p].active_round
         /\ UNCHANGED <<config, round, ended, miner, escrow, rounds_away, miners_away, pot_vault>>
  BY DEF Refresh, Shown, TypeOK

(* The steps of the program as its clients use it. *)
LEMMA ClientSteps ==
  ASSUME [ClientNext]_vars
  PROVE  \/ \E p \in Player, a \in Amounts : Deposit(p, a) \/ Withdraw(p, a)
         \/ \E p \in Player, r \in RoundId, a \in Amounts : Stake(p, r, a)
         \/ \E p \in Player, r \in RoundId : Claim(p, r) \/ Refund(p, r)
         \/ \E p \in Player :
              CommitMiner(p) \/ ReconcileMiner(p) \/ Refresh(p) \/ Enter(p)
         \/ CreateRound
         \/ \E r \in RoundId : Settle(r) \/ RequestSettle(r) \/ SettleCallback(r)
         \/ \E r \in RoundId : CancelRound(r) \/ CloseRound(r) \/ DeadlinePasses(r)
         \/ AllDebited /\ \E r \in RoundId : ExecuteSwap(r)
         \/ UNCHANGED <<config, round, ended, miner, escrow, clone, miners_away, pot_vault>>
<1>1. CASE \E p \in Player : PlayerStep(p)
  BY <1>1 DEF PlayerStep
<1>2. CASE CrankStep
  BY <1>2 DEF CrankStep, DelegateRound, CommitRound
<1>3. CASE NetworkStep
  BY <1>3 DEF NetworkStep
<1>4. CASE \E p \in Player : Enter(p)
  BY <1>4
<1>5. CASE AllDebited /\ \E r \in RoundId : ExecuteSwap(r)
  BY <1>5
<1>6. CASE UNCHANGED vars
  BY <1>6 DEF vars
<1> QED BY <1>1, <1>2, <1>3, <1>4, <1>5, <1>6 DEF ClientNext, Step

-----------------------------------------------------------------------------
(* Rounds follow one another *)

current == config.current_round_id

(* The cursor's round is the only one that can be unswapped, and then the  *)
(* create gate is shut and nothing of it has been claimed.                 *)
OneLive ==
  \A r \in RoundId : round[r].state \in Unswapped =>
     /\ r = current /\ ~ config.current_round_finalized
     /\ round[r].claimed = 0

NoneAhead ==
  /\ round[0].state = "absent"
  /\ \A r \in RoundId : r > current => round[r].state = "absent"

DrawnLate ==
  \A r \in RoundId : round[r].state \notin {"absent", "open"} => r \in ended

CursorsBehind ==
  \A p \in Player : /\ miner[p].round_id <= current
                    /\ escrow[p].active_round <= current
                    /\ escrow[p].reconciled_round <= current

RoundsInOrder == OneLive /\ NoneAhead /\ DrawnLate /\ CursorsBehind

LEMMA InitRounds == Init => RoundsInOrder
  BY RoundIds DEF Init, RoundsInOrder, OneLive, NoneAhead, DrawnLate, CursorsBehind,
                  current, NoRound, NoEscrow, Unswapped

(* A round that lives is no round ahead of the cursor. *)
LEMMA LiveIsCurrent ==
  ASSUME TypeOK, RoundsInOrder, NEW r \in RoundId, round[r].state # "absent"
  PROVE  r # 0 /\ r <= current
  BY RoundIds, ConfigTypes DEF RoundsInOrder, NoneAhead, current

(* Steps that leave the rounds alone: only the cursors of one player move. *)
LEMMA CursorRounds ==
  ASSUME TypeOK, RoundsInOrder, UNCHANGED <<round, ended>>,
         config'.current_round_id = config.current_round_id,
         config'.current_round_finalized = config.current_round_finalized,
         \A q \in Player : /\ miner'[q].round_id \in {miner[q].round_id, current}
                           /\ escrow'[q].active_round \in {escrow[q].active_round, current, 0}
                           /\ escrow'[q].reconciled_round \in
                                 {escrow[q].reconciled_round, escrow[q].active_round, 0}
  PROVE  RoundsInOrder'
<1>1. CursorsBehind'
  BY ConfigTypes DEF RoundsInOrder, CursorsBehind, current
<1>2. OneLive' /\ NoneAhead' /\ DrawnLate'
  BY DEF RoundsInOrder, OneLive, NoneAhead, DrawnLate, current
<1> QED BY <1>1, <1>2 DEF RoundsInOrder

(* Steps that change one round. *)
LEMMA RoundRounds ==
  ASSUME TypeOK, RoundsInOrder, NEW r \in RoundId, NEW st, NEW pot, NEW claimed,
         Rounds(r, st, pot, claimed), round[r].state # "absent",
         UNCHANGED ended, UNCHANGED escrow,
         config'.current_round_id = config.current_round_id,
         st \in Unswapped => /\ round[r].state \in Unswapped /\ claimed = round[r].claimed
                             /\ config'.current_round_finalized = config.current_round_finalized,
         round[r].state \notin Unswapped =>
            config'.current_round_finalized = config.current_round_finalized,
         st \notin {"absent", "open"} => r \in ended,
         \A q \in Player : miner'[q].round_id \in {miner[q].round_id, r}
  PROVE  RoundsInOrder'
<1>1. r # 0 /\ r <= current
  BY LiveIsCurrent
<1>2. CursorsBehind'
  BY <1>1 DEF RoundsInOrder, CursorsBehind, current
<1>3. OneLive'
  BY <1>1 DEF RoundsInOrder, OneLive, current, Rounds
<1>4. NoneAhead'
  BY <1>1, RoundIds, ConfigTypes DEF RoundsInOrder, NoneAhead, current, Rounds
<1>5. DrawnLate'
  BY DEF RoundsInOrder, DrawnLate, Rounds
<1> QED BY <1>2, <1>3, <1>4, <1>5 DEF RoundsInOrder

LEMMA StepRounds ==
  ASSUME TypeOK, RoundsInOrder, [ClientNext]_vars
  PROVE  RoundsInOrder'
<1>1. ASSUME NEW p \in Player, NEW a \in Amounts, Deposit(p, a) \/ Withdraw(p, a)
      PROVE  RoundsInOrder'
  BY <1>1, DepositEffect, WithdrawEffect, CursorRounds DEF Escrows, Total
<1>2. ASSUME NEW p \in Player, NEW r \in RoundId, NEW a \in Amounts, Stake(p, r, a)
      PROVE  RoundsInOrder'
  BY <1>2, StakeEffect, RoundRounds DEF Unswapped
<1>3. ASSUME NEW p \in Player, NEW r \in RoundId, Claim(p, r)
      PROVE  RoundsInOrder'
  <2>1. /\ round[r].state = "claimable"
        /\ Rounds(r, "claimable", round[r].pot, round[r].claimed + miner[p].staked)
        /\ Escrows(p, escrow[p].balance, 0, escrow[p].reconciled_round, r)
        /\ UNCHANGED <<config, ended, miner>>
    BY <1>3, ClaimEffect
  <2>2. r # 0 /\ r <= current
    BY <2>1, LiveIsCurrent
  <2>3. OneLive'
    BY <2>1 DEF RoundsInOrder, OneLive, current, Rounds, Unswapped
  <2>4. NoneAhead'
    BY <2>1, <2>2, RoundIds, ConfigTypes DEF RoundsInOrder, NoneAhead, current, Rounds
  <2>5. DrawnLate'
    BY <2>1 DEF RoundsInOrder, DrawnLate, Rounds
  <2>6. CursorsBehind'
    BY <2>1, ConfigTypes DEF RoundsInOrder, CursorsBehind, current, Escrows
  <2> QED BY <2>3, <2>4, <2>5, <2>6 DEF RoundsInOrder
<1>4. ASSUME NEW p \in Player, NEW r \in RoundId, Refund(p, r)
      PROVE  RoundsInOrder'
  BY <1>4, RefundEffect, CursorRounds DEF Escrows, Total
<1>5. ASSUME NEW p \in Player, CommitMiner(p) \/ Refresh(p)
      PROVE  RoundsInOrder'
  BY <1>5, CommitEffect, RefreshEffect, CursorRounds
<1>6. ASSUME NEW p \in Player, ReconcileMiner(p)
      PROVE  RoundsInOrder'
  BY <1>6, ReconcileEffect, CursorRounds DEF Escrows, Total
<1>7. ASSUME NEW p \in Player, Enter(p)
      PROVE  RoundsInOrder'
  BY <1>7, EnterEffect, CursorRounds DEF Escrows, current
<1>8. ASSUME CreateRound
      PROVE  RoundsInOrder'
  <2> DEFINE id == config.current_round_id + 1
  <2>1. /\ id \in RoundId /\ config.current_round_finalized
        /\ config'.current_round_id = id
        /\ Rounds(id, "open", 0, 0)
        /\ ~ config'.current_round_finalized
        /\ UNCHANGED <<ended, miner, escrow>>
    BY <1>8, CreateEffect
  <2>2. OneLive'
    BY <2>1 DEF RoundsInOrder, OneLive, current, Rounds
  <2>3. NoneAhead'
    BY <2>1, RoundIds, ConfigTypes DEF RoundsInOrder, NoneAhead, current, Rounds
  <2>4. DrawnLate'
    BY <2>1 DEF RoundsInOrder, DrawnLate, Rounds
  <2>5. CursorsBehind'
    <3>1. current \in Nat /\ current' = current + 1
      BY <2>1, ConfigTypes DEF current
    <3>2. ASSUME NEW p \in Player
          PROVE  /\ miner[p].round_id <= current'
                 /\ escrow[p].active_round <= current'
                 /\ escrow[p].reconciled_round <= current'
      <4>1. /\ miner[p].round_id \in Nat
            /\ escrow[p].active_round \in Nat /\ escrow[p].reconciled_round \in Nat
        BY FieldTypes, RoundIds
      <4>2. /\ miner[p].round_id <= current
            /\ escrow[p].active_round <= current /\ escrow[p].reconciled_round <= current
        BY DEF RoundsInOrder, CursorsBehind
      <4> QED BY <3>1, <4>1, <4>2
    <3> QED BY <2>1, <3>2 DEF CursorsBehind
  <2> QED BY <2>2, <2>3, <2>4, <2>5 DEF RoundsInOrder
<1>9. ASSUME NEW r \in RoundId, Settle(r) \/ RequestSettle(r) \/ SettleCallback(r)
      PROVE  RoundsInOrder'
  <2>1. PICK st \in Unswapped : Rounds(r, st, round[r].pot, round[r].claimed)
    BY <1>9, DrawEffect
  <2>2. /\ round[r].state \in Unswapped
        /\ round[r].state = "open" => r \in ended
        /\ UNCHANGED <<config, ended, miner, escrow>>
    BY <1>9, DrawEffect
  <2>3. r \in ended
    BY <2>2 DEF RoundsInOrder, DrawnLate, Unswapped
  <2> QED BY <2>1, <2>2, <2>3, RoundRounds DEF Unswapped
<1>10. ASSUME NEW r \in RoundId, CancelRound(r) \/ ExecuteSwap(r)
       PROVE  RoundsInOrder'
  <2>1. /\ round[r].state \in Unswapped /\ r \in ended
        /\ \/ Rounds(r, "closed", round[r].pot, round[r].claimed)
           \/ Rounds(r, "claimable", round[r].pot, round[r].claimed)
        /\ config'.current_round_id = config.current_round_id
        /\ UNCHANGED <<ended, miner, escrow>>
    BY <1>10, CancelEffect, SwapEffect DEF RoundsInOrder, DrawnLate, Unswapped
  <2> QED BY <2>1, RoundRounds DEF Unswapped
<1>11. ASSUME NEW r \in RoundId, CloseRound(r)
       PROVE  RoundsInOrder'
  BY <1>11, CloseEffect, RoundRounds DEF Unswapped
<1>12. ASSUME NEW r \in RoundId, DeadlinePasses(r)
       PROVE  RoundsInOrder'
  BY <1>12 DEF DeadlinePasses, RoundsInOrder, OneLive, NoneAhead, DrawnLate, CursorsBehind, current
<1>13. CASE UNCHANGED <<config, round, ended, miner, escrow, clone, miners_away, pot_vault>>
  BY <1>13 DEF RoundsInOrder, OneLive, NoneAhead, DrawnLate, CursorsBehind, current
<1> QED
  BY <1>1, <1>2, <1>3, <1>4, <1>5, <1>6, <1>7, <1>8, <1>9, <1>10, <1>11, <1>12, <1>13,
     ClientSteps

-----------------------------------------------------------------------------
(* A lock keeps the stakes together with the lamports they are to cost *)

(* A locked player's position is stamped with the locked round, and until  *)
(* the deadline it is on the rollup, out of reach of a reconciliation.     *)
Locked(p) ==
  escrow[p].active_round # 0 =>
     /\ miner[p].round_id = escrow[p].active_round
     /\ escrow[p].active_round \notin ended => p \in miners_away

DebitedLate(p) ==
  escrow[p].reconciled_round # 0 => escrow[p].reconciled_round \in ended

(* A clone that lets its player stake shows the lock, and no lamport that  *)
(* has left the escrow since.                                              *)
CloneSafe(p) ==
  /\ clone[p].active_round # 0
  /\ clone[p].active_round \notin ended
  => /\ escrow[p].active_round = clone[p].active_round
     /\ clone[p].balance <= escrow[p].balance

LocksInOrder == \A p \in Player : Locked(p) /\ DebitedLate(p) /\ CloneSafe(p)

LEMMA InitLocks == Init => LocksInOrder
  BY DEF Init, LocksInOrder, Locked, DebitedLate, CloneSafe, NoEscrow, Shown

(* What a stake finds: its player locked in the round and not yet debited, *)
(* the round the current one, and the stake within the escrow.             *)
LEMMA StakeFinds ==
  ASSUME TypeOK, RoundsInOrder, LocksInOrder,
         NEW p \in Player, NEW r \in RoundId, NEW a \in Amounts, Stake(p, r, a)
  PROVE  /\ r # 0 /\ r = current
         /\ escrow[p].active_round = r /\ miner[p].round_id = r
         /\ escrow[p].reconciled_round # r
         /\ StakeIn(p, r) = miner[p].staked
         /\ miner[p].staked + a <= escrow[p].balance
<1>1. r # 0 /\ r = current /\ round[r].state = "open" /\ r \notin ended
  BY StakeEffect, LiveIsCurrent DEF RoundsInOrder, OneLive, Unswapped
<1>2. Locked(p) /\ DebitedLate(p) /\ CloneSafe(p)
  BY DEF LocksInOrder
<1>3. /\ escrow[p].active_round = r
      /\ StakeIn(p, r) + a <= escrow[p].balance
  <2>1. CASE clone[p].active_round = r /\ StakeIn(p, r) + a <= clone[p].balance
    <3>1. escrow[p].active_round = r /\ clone[p].balance <= escrow[p].balance
      BY <1>1, <1>2, <2>1 DEF CloneSafe
    <3> QED BY <2>1, <3>1, EscrowAmounts, FieldTypes, StakeInNat
  <2>2. CASE escrow[p].active_round = r /\ StakeIn(p, r) + a <= escrow[p].balance
    BY <2>2
  <2> QED BY <2>1, <2>2, StakeEffect
<1>4. miner[p].round_id = r /\ escrow[p].reconciled_round # r
  BY <1>1, <1>2, <1>3 DEF Locked, DebitedLate
<1> QED BY <1>1, <1>3, <1>4 DEF StakeIn

(* Only one player's accounts change. *)
LEMMA OneLock ==
  ASSUME TypeOK, LocksInOrder, NEW p \in Player, ended' = ended,
         \A q \in Player : q # p => /\ escrow'[q] = escrow[q] /\ miner'[q] = miner[q]
                                    /\ clone'[q] = clone[q]
                                    /\ q \in miners_away => q \in miners_away',
         Locked(p)', DebitedLate(p)', CloneSafe(p)'
  PROVE  LocksInOrder'
<1>1. ASSUME NEW q \in Player, q # p
      PROVE  Locked(q)' /\ DebitedLate(q)' /\ CloneSafe(q)'
  <2>1. /\ escrow'[q] = escrow[q] /\ miner'[q] = miner[q] /\ clone'[q] = clone[q]
        /\ q \in miners_away => q \in miners_away'
    BY <1>1
  <2>2. Locked(q) /\ DebitedLate(q) /\ CloneSafe(q)
    BY DEF LocksInOrder
  <2> QED BY <2>1, <2>2 DEF Locked, DebitedLate, CloneSafe
<1> QED BY <1>1 DEF LocksInOrder

LEMMA StepLocks ==
  ASSUME TypeOK, RoundsInOrder, LocksInOrder, [ClientNext]_vars
  PROVE  LocksInOrder'
<1>0. \A p \in Player : Locked(p) /\ DebitedLate(p) /\ CloneSafe(p)
  BY DEF LocksInOrder
<1>1. ASSUME NEW p \in Player, NEW a \in Amounts, Deposit(p, a)
      PROVE  LocksInOrder'
  BY <1>0, <1>1, DepositEffect, OneLock, FieldTypes
  DEF Escrows, Locked, DebitedLate, CloneSafe
<1>2. ASSUME NEW p \in Player, NEW a \in Amounts, Withdraw(p, a)
      PROVE  LocksInOrder'
  BY <1>0, <1>2, WithdrawEffect, OneLock
  DEF Escrows, Locked, DebitedLate, CloneSafe
<1>3. ASSUME NEW p \in Player, NEW r \in RoundId, NEW a \in Amounts, Stake(p, r, a)
      PROVE  LocksInOrder'
  BY <1>0, <1>3, StakeEffect, StakeFinds, OneLock
  DEF Locked, DebitedLate, CloneSafe
<1>4. ASSUME NEW p \in Player, NEW r \in RoundId, Claim(p, r)
      PROVE  LocksInOrder'
  <2>1. miner[p].round_id = r /\ r \in ended
    BY <1>4, ClaimEffect DEF RoundsInOrder, DrawnLate
  <2> QED BY <1>0, <1>4, <2>1, ClaimEffect, OneLock
          DEF Escrows, Locked, DebitedLate, CloneSafe
<1>5. ASSUME NEW p \in Player, NEW r \in RoundId, Refund(p, r)
      PROVE  LocksInOrder'
  <2>1. r \in ended
    BY <1>5, RefundEffect DEF RoundsInOrder, DrawnLate
  <2>2. escrow[p].active_round # 0 => escrow[p].active_round \in ended
    BY <1>0, <1>5, <2>1, RefundEffect DEF Locked
  <2> QED BY <1>0, <1>5, <2>2, RefundEffect, OneLock
          DEF Escrows, Locked, DebitedLate, CloneSafe
<1>6. ASSUME NEW p \in Player, CommitMiner(p)
      PROVE  LocksInOrder'
  BY <1>0, <1>6, CommitEffect, OneLock DEF Locked, DebitedLate, CloneSafe
<1>7. ASSUME NEW p \in Player, ReconcileMiner(p)
      PROVE  LocksInOrder'
  <2>1. escrow[p].active_round # 0 /\ escrow[p].active_round \in ended
    BY <1>0, <1>7, ReconcileEffect DEF Locked
  <2> QED BY <1>0, <1>7, <2>1, ReconcileEffect, OneLock
          DEF Escrows, Locked, DebitedLate, CloneSafe
<1>8. ASSUME NEW p \in Player, Refresh(p)
      PROVE  LocksInOrder'
  BY <1>0, <1>8, RefreshEffect, OneLock, FieldTypes DEF Locked, DebitedLate, CloneSafe
<1>9. ASSUME NEW p \in Player, Enter(p)
      PROVE  LocksInOrder'
  BY <1>0, <1>9, EnterEffect, OneLock DEF Escrows, Locked, DebitedLate, CloneSafe
<1>10. CASE UNCHANGED <<ended, miner, escrow, clone, miners_away>>
  BY <1>10 DEF LocksInOrder, Locked, DebitedLate, CloneSafe
<1>11. ASSUME NEW r \in RoundId, DeadlinePasses(r)
       PROVE  LocksInOrder'
  BY <1>11 DEF DeadlinePasses, LocksInOrder, Locked, DebitedLate, CloneSafe
<1>12. ASSUME NEW r \in RoundId,
              \/ Settle(r) \/ RequestSettle(r) \/ SettleCallback(r)
              \/ CancelRound(r) \/ CloseRound(r) \/ ExecuteSwap(r)
       PROVE  UNCHANGED <<ended, miner, escrow, clone, miners_away>>
  BY <1>12, DrawEffect, CancelEffect, CloseEffect, SwapEffect
<1> QED
  BY <1>1, <1>2, <1>3, <1>4, <1>5, <1>6, <1>7, <1>8, <1>9, <1>10, <1>11, <1>12,
     CreateEffect, ClientSteps

-----------------------------------------------------------------------------
(* The debit to come always finds its lamports *)

(* Nobody has stakes to be debited but those locked in the current round.  *)
LEMMA UnreconciledMeans ==
  ASSUME TypeOK, RoundsInOrder, NEW p \in Player
  PROVE  /\ Unreconciled(p) \in Nat
         /\ Unreconciled(p) # 0 =>
              /\ miner[p].round_id = current
              /\ escrow[p].active_round = current
              /\ escrow[p].reconciled_round # current
              /\ round[current].state \in Unswapped
              /\ Unreconciled(p) = miner[p].staked
         /\ Unreconciled(p) <= StakeIn(p, current)
  BY FieldTypes, StakeInNat, ConfigTypes DEF RoundsInOrder, OneLive, Unreconciled, StakeIn, current

(* A player whose accounts and whose rounds stay as they are owes the same.*)
LEMMA SameUnreconciled ==
  ASSUME TypeOK, NEW q \in Player, miner'[q] = miner[q], escrow'[q] = escrow[q],
         round'[miner[q].round_id].state \in Unswapped
           <=> round[miner[q].round_id].state \in Unswapped
  PROVE  Unreconciled(q)' = Unreconciled(q)
  BY DEF Unreconciled

LEMMA NotLocked ==
  ASSUME RoundsInOrder, NEW q \in Player, escrow[q].active_round = 0
  PROVE  Unreconciled(q) = 0
  BY DEF Unreconciled, RoundsInOrder, NoneAhead, Unswapped

(* What one step does to what each player owes: a stake adds to it, a      *)
(* reconciliation, or the end of the round, pays it off.                   *)
LEMMA OwedByOthers ==
  ASSUME TypeOK, NEW p \in Player, NEW q \in Player, q # p, UNCHANGED round,
         miner'[q] = miner[q], escrow'[q] = escrow[q]
  PROVE  Unreconciled(q)' = Unreconciled(q)
  BY SameUnreconciled

LEMMA DepositOwed ==
  ASSUME TypeOK, NEW p \in Player, NEW a \in Amounts, Deposit(p, a) \/ Withdraw(p, a),
         NEW q \in Player
  PROVE  Unreconciled(q)' = Unreconciled(q)
  BY DepositEffect, WithdrawEffect, SameUnreconciled DEF Escrows, Unreconciled

LEMMA StakeOwed ==
  ASSUME TypeOK, RoundsInOrder, LocksInOrder,
         NEW p \in Player, NEW r \in RoundId, NEW a \in Amounts, Stake(p, r, a),
         NEW q \in Player
  PROVE  Unreconciled(q)' = IF q = p THEN miner[p].staked + a ELSE Unreconciled(q)
<1>1. CASE q = p
  BY <1>1, StakeEffect, StakeFinds DEF Unreconciled, Unswapped, Rounds
<1>2. CASE q # p
  <2>1. /\ round[r].state = "open" /\ round'[r].state = "open"
        /\ \A o \in RoundId : o # r => round'[o] = round[o]
        /\ miner'[q] = miner[q] /\ UNCHANGED escrow
    BY <1>2, StakeEffect DEF Rounds
  <2>2. round'[miner[q].round_id].state = round[miner[q].round_id].state
    BY <2>1, FieldTypes
  <2> QED BY <1>2, <2>1, <2>2, SameUnreconciled
<1> QED BY <1>1, <1>2

LEMMA StakeOwedBefore ==
  ASSUME TypeOK, RoundsInOrder, LocksInOrder,
         NEW p \in Player, NEW r \in RoundId, NEW a \in Amounts, Stake(p, r, a)
  PROVE  Unreconciled(p) = miner[p].staked
  BY StakeEffect, StakeFinds DEF Unreconciled, Unswapped

LEMMA ReleasedOwed ==
  ASSUME TypeOK, RoundsInOrder, RoundsInOrder', NEW p \in Player,
         UNCHANGED <<round, miner>>, NEW q \in Player,
         \A o \in Player : o # p => escrow'[o] = escrow[o],
         escrow'[p].active_round = 0
  PROVE  Unreconciled(q)' = IF q = p THEN 0 ELSE Unreconciled(q)
<1>1. CASE q = p
  BY <1>1 DEF Unreconciled, RoundsInOrder, NoneAhead, Unswapped
<1>2. CASE q # p
  BY <1>2, SameUnreconciled
<1> QED BY <1>1, <1>2

LEMMA ReconcileOwed ==
  ASSUME TypeOK, RoundsInOrder, LocksInOrder, NEW p \in Player, ReconcileMiner(p)
  PROVE  Unreconciled(p) <= IF DebitDue(p, escrow[p].active_round) THEN miner[p].staked ELSE 0
  BY FieldTypes, ReconcileEffect DEF Unreconciled, DebitDue

LEMMA ClaimOwed ==
  ASSUME TypeOK, NEW p \in Player, NEW r \in RoundId, Claim(p, r), NEW q \in Player
  PROVE  Unreconciled(q)' = Unreconciled(q)
<1>1. /\ round[r].state = "claimable" /\ round'[r].state = "claimable"
      /\ miner[p].round_id = r
      /\ \A o \in RoundId : o # r => round'[o] = round[o]
      /\ \A o \in Player : o # p => escrow'[o] = escrow[o]
      /\ UNCHANGED miner
  BY ClaimEffect DEF Rounds, Escrows
<1>2. CASE q = p
  BY <1>1, <1>2 DEF Unreconciled, Unswapped
<1>3. CASE q # p
  BY <1>1, <1>3, SameUnreconciled, FieldTypes
<1> QED BY <1>2, <1>3

LEMMA EnterOwed ==
  ASSUME TypeOK, RoundsInOrder, NEW p \in Player, Enter(p), NEW q \in Player
  PROVE  Unreconciled(q)' = Unreconciled(q)
<1>1. CASE q = p
  <2>1. Unreconciled(p) = 0
    BY EnterEffect, NotLocked
  <2>2. Unreconciled(p)' = 0
    BY EnterEffect DEF Unreconciled
  <2> QED BY <1>1, <2>1, <2>2
<1>2. CASE q # p
  BY <1>2, EnterEffect, SameUnreconciled DEF Escrows
<1> QED BY <1>1, <1>2

LEMMA CreateOwed ==
  ASSUME TypeOK, RoundsInOrder, CreateRound, NEW q \in Player
  PROVE  Unreconciled(q)' = Unreconciled(q)
<1>1. /\ Rounds(current + 1, "open", 0, 0) /\ UNCHANGED <<miner, escrow>>
  BY CreateEffect DEF current
<1>2. miner[q].round_id # current + 1
  BY FieldTypes, RoundIds, ConfigTypes DEF RoundsInOrder, CursorsBehind, current
<1> QED BY <1>1, <1>2, SameUnreconciled, FieldTypes DEF Rounds

LEMMA RoundOwed ==
  ASSUME TypeOK, NEW r \in RoundId, NEW st, NEW pot, NEW claimed, Rounds(r, st, pot, claimed),
         UNCHANGED <<miner, escrow>>, NEW q \in Player
  PROVE  /\ (st \in Unswapped <=> round[r].state \in Unswapped)
              => Unreconciled(q)' = Unreconciled(q)
         /\ st \notin Unswapped =>
              Unreconciled(q)' = IF miner[q].round_id = r THEN 0 ELSE Unreconciled(q)
  BY FieldTypes DEF Unreconciled, Rounds

LEMMA QuietOwed ==
  ASSUME TypeOK, UNCHANGED <<round, miner, escrow>>, NEW q \in Player
  PROVE  Unreconciled(q)' = Unreconciled(q)
  BY SameUnreconciled

LEMMA InitBudget == Init => BudgetHolds
  BY DEF Init, BudgetHolds, Unreconciled, NoEscrow, NoRound, Unswapped

LEMMA StepBudget ==
  ASSUME TypeOK, TypeOK', RoundsInOrder, RoundsInOrder', LocksInOrder, BudgetHolds,
         [ClientNext]_vars
  PROVE  BudgetHolds'
<1>0. \A q \in Player : /\ Unreconciled(q) <= escrow[q].balance
                        /\ Unreconciled(q) \in Nat
                        /\ escrow[q].balance \in Nat /\ escrow'[q].balance \in Nat
  BY FieldTypes, UnreconciledMeans DEF BudgetHolds, TypeOK, EscrowType
<1>1. ASSUME NEW p \in Player, NEW a \in Amounts, Deposit(p, a)
      PROVE  BudgetHolds'
  BY <1>0, <1>1, DepositEffect, DepositOwed DEF BudgetHolds, Escrows
<1>2. ASSUME NEW p \in Player, NEW a \in Amounts, Withdraw(p, a)
      PROVE  BudgetHolds'
  BY <1>0, <1>2, WithdrawEffect, DepositOwed, NotLocked DEF BudgetHolds, Escrows
<1>3. ASSUME NEW p \in Player, NEW r \in RoundId, NEW a \in Amounts, Stake(p, r, a)
      PROVE  BudgetHolds'
  BY <1>0, <1>3, StakeEffect, StakeOwed, StakeFinds DEF BudgetHolds
<1>4. ASSUME NEW p \in Player, NEW r \in RoundId, Claim(p, r)
      PROVE  BudgetHolds'
  BY <1>0, <1>4, ClaimEffect, ClaimOwed DEF BudgetHolds, Escrows
<1>5. ASSUME NEW p \in Player, NEW r \in RoundId, Refund(p, r)
      PROVE  BudgetHolds'
  BY <1>0, <1>5, RefundEffect, ReleasedOwed DEF BudgetHolds, Escrows
<1>6. ASSUME NEW p \in Player, CommitMiner(p) \/ Refresh(p)
      PROVE  BudgetHolds'
  BY <1>0, <1>6, CommitEffect, RefreshEffect, QuietOwed DEF BudgetHolds
<1>7. ASSUME NEW p \in Player, ReconcileMiner(p)
      PROVE  BudgetHolds'
  BY <1>0, <1>7, ReconcileEffect, ReleasedOwed DEF BudgetHolds, Escrows
<1>8. ASSUME NEW p \in Player, Enter(p)
      PROVE  BudgetHolds'
  BY <1>0, <1>8, EnterEffect, EnterOwed DEF BudgetHolds, Escrows
<1>9. CASE CreateRound
  BY <1>0, <1>9, CreateEffect, CreateOwed DEF BudgetHolds
<1>10. ASSUME NEW r \in RoundId, NEW st, NEW pot, NEW claimed,
              Rounds(r, st, pot, claimed), UNCHANGED <<miner, escrow>>,
              st \in Unswapped => round[r].state \in Unswapped
       PROVE  BudgetHolds'
  BY <1>0, <1>10, RoundOwed DEF BudgetHolds
<1>11. ASSUME NEW r \in RoundId, Settle(r) \/ RequestSettle(r) \/ SettleCallback(r)
       PROVE  BudgetHolds'
  BY <1>10, <1>11, DrawEffect
<1>12. ASSUME NEW r \in RoundId, CancelRound(r) \/ CloseRound(r) \/ ExecuteSwap(r)
       PROVE  BudgetHolds'
  BY <1>10, <1>12, CancelEffect, CloseEffect, SwapEffect DEF Unswapped
<1>13. CASE UNCHANGED <<round, miner, escrow>>
  BY <1>0, <1>13, QuietOwed DEF BudgetHolds
<1> QED
  BY <1>1, <1>2, <1>3, <1>4, <1>5, <1>6, <1>7, <1>8, <1>9, <1>11, <1>12, <1>13, ClientSteps
  DEF DeadlinePasses

-----------------------------------------------------------------------------
(* The layers together *)

Order == TypeOK /\ RoundsInOrder /\ LocksInOrder /\ BudgetHolds

LEMMA InitOrder == Init => Order
  BY InitType, InitRounds, InitLocks, InitBudget DEF Order

LEMMA StepOrder == Order /\ [ClientNext]_vars => Order'
  BY ClientType, StepRounds, StepLocks, StepBudget DEF Order

(* The debit that reconcile_miner makes after the round never exceeds what *)
(* the escrow holds, though the stakes were admitted on the word of a      *)
(* clone that may lag: checked_sub never fails, nobody's lock is stuck.    *)
THEOREM StakesStayPayable == ClientSpec => []BudgetHolds
<1>1. Order => BudgetHolds
  BY DEF Order
<1> QED BY <1>1, InitOrder, StepOrder, PTL DEF ClientSpec
=============================================================================
