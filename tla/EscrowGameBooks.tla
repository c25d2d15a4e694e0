--------------------------- MODULE EscrowGameBooks ---------------------------
(***************************************************************************)
(* The sums of EscrowGame, for every number of players and rounds: the pot *)
(* covers the stakes it was made of, the commingled vault backs escrows,   *)
(* live pot and refunds, claims stay within their pot, and the swap gate   *)
(* opens once every player is let go.  On top of EscrowGameProofs' Order.  *)
(***************************************************************************)
EXTENDS EscrowGameProofs

(* What each sum adds up. *)
Balances == [p \in Player |-> escrow[p].balance]
Owed     == [p \in Player |-> Unreconciled(p)]
Back     == [p \in Player |-> Recoverable(p)]
Held(r)  == [p \in Player |-> StakeIn(p, r)]
Live     == [r \in RoundId |-> IF round[r].state \in Unswapped THEN round[r].pot ELSE 0]

Balance == SumBelow(Balances, NumPlayers)
Debts   == SumBelow(Owed, NumPlayers)
Refunds == SumBelow(Back, NumPlayers)

LEMMA Indices ==
  /\ NumPlayers \in Nat /\ MaxRounds + 1 \in Nat
  /\ \A p \in Player : p \in 0..NumPlayers-1
  /\ \A i \in 0..NumPlayers-1 : i \in Player
  /\ \A r \in RoundId : r \in 0..(MaxRounds + 1) - 1
  /\ \A i \in 0..(MaxRounds + 1) - 1 : i \in RoundId
  BY EscrowSizes DEF Player, RoundId

LEMMA BackedIs ==
  EscrowBacked <=> /\ config.total_escrow_balance = Balance
                   /\ pot_vault + Debts >= config.total_escrow_balance + LivePot + Refunds
  BY DEF EscrowBacked, Balance, Debts, Refunds, Balances, Owed, Back

LEMMA BackedIsNext ==
  EscrowBacked' <=>
     /\ config'.total_escrow_balance = Balance'
     /\ pot_vault' + Debts' >= config'.total_escrow_balance + LivePot' + Refunds'
  BY DEF EscrowBacked, Balance, Debts, Refunds, Balances, Owed, Back

LEMMA PartsNat ==
  ASSUME TypeOK
  PROVE  /\ \A p \in Player : /\ Balances[p] \in Nat /\ Owed[p] \in Nat /\ Back[p] \in Nat
                              /\ \A r \in RoundId : Held(r)[p] \in Nat
         /\ \A r \in RoundId : Live[r] \in Nat
  BY FieldTypes, RoundTypes, StakeInNat
  DEF Balances, Owed, Back, Held, Live, Unreconciled, Recoverable

LEMMA PartsNatNext ==
  ASSUME TypeOK'
  PROVE  /\ \A p \in Player : /\ Balances'[p] \in Nat /\ Owed'[p] \in Nat /\ Back'[p] \in Nat
                              /\ \A r \in RoundId : Held(r)'[p] \in Nat
         /\ \A r \in RoundId : Live'[r] \in Nat
<1>1. /\ \A p \in Player : escrow'[p].balance \in Nat /\ miner'[p].staked \in Nat
      /\ \A r \in RoundId : round'[r].pot \in Nat
  BY DEF TypeOK, EscrowType, PositionType, RoundType
<1> QED BY <1>1 DEF Balances, Owed, Back, Held, Live, Unreconciled, Recoverable, StakeIn

LEMMA SumsNat ==
  ASSUME TypeOK
  PROVE  Balance \in Nat /\ Debts \in Nat /\ Refunds \in Nat /\ LivePot \in Nat
<1>1. LivePot = SumBelow(Live, MaxRounds + 1)
  BY DEF LivePot, Live
<1> QED BY <1>1, PartsNat, SumNat, Indices DEF Balance, Debts, Refunds

LEMMA SumsNatNext ==
  ASSUME TypeOK'
  PROVE  Balance' \in Nat /\ Debts' \in Nat /\ Refunds' \in Nat /\ LivePot' \in Nat
<1>1. LivePot' = SumBelow(Live', MaxRounds + 1)
  BY DEF LivePot, Live
<1> QED BY <1>1, PartsNatNext, SumNat, Indices DEF Balance, Debts, Refunds

(* A sum over the players when one player's part changes. *)
LEMMA PlayerSum ==
  ASSUME NEW f, NEW g, NEW p \in Player,
         \A q \in Player : f[q] \in Nat /\ g[q] \in Nat,
         \A q \in Player : q # p => g[q] = f[q]
  PROVE  SumBelow(g, NumPlayers) = SumBelow(f, NumPlayers) - f[p] + g[p]
<1>1. \A i \in 0..NumPlayers-1 : f[i] \in Int /\ g[i] \in Int
  BY Indices
<1>2. \A i \in 0..NumPlayers-1 : i # p => g[i] = f[i]
  BY Indices
<1>3. p \in 0..NumPlayers-1 /\ NumPlayers \in Nat
  BY Indices
<1> QED BY <1>1, <1>2, <1>3, SumAt

LEMMA BalanceAt ==
  ASSUME TypeOK, TypeOK', NEW p \in Player,
         \A q \in Player : q # p => escrow'[q] = escrow[q]
  PROVE  Balance' = Balance - escrow[p].balance + escrow'[p].balance
<1>1. \A q \in Player : /\ Balances[q] \in Nat /\ Balances'[q] \in Nat
                        /\ q # p => Balances'[q] = Balances[q]
  BY PartsNat, PartsNatNext DEF Balances
<1>2. Balances[p] = escrow[p].balance /\ Balances'[p] = escrow'[p].balance
  BY DEF Balances
<1>3. SumBelow(Balances', NumPlayers)
        = SumBelow(Balances, NumPlayers) - Balances[p] + Balances'[p]
  BY <1>1, PlayerSum
<1> QED BY <1>2, <1>3 DEF Balance

LEMMA DebtsAt ==
  ASSUME TypeOK, TypeOK', NEW p \in Player,
         \A q \in Player : q # p => Unreconciled(q)' = Unreconciled(q)
  PROVE  Debts' = Debts - Unreconciled(p) + Unreconciled(p)'
<1>1. \A q \in Player : /\ Owed[q] \in Nat /\ Owed'[q] \in Nat
                        /\ q # p => Owed'[q] = Owed[q]
  BY PartsNat, PartsNatNext DEF Owed
<1>2. Owed[p] = Unreconciled(p) /\ Owed'[p] = Unreconciled(p)'
  BY DEF Owed
<1>3. SumBelow(Owed', NumPlayers) = SumBelow(Owed, NumPlayers) - Owed[p] + Owed'[p]
  BY <1>1, PlayerSum
<1> QED BY <1>2, <1>3 DEF Debts

LEMMA RefundsAt ==
  ASSUME TypeOK, TypeOK', NEW p \in Player,
         \A q \in Player : q # p => Recoverable(q)' = Recoverable(q)
  PROVE  Refunds' = Refunds - Recoverable(p) + Recoverable(p)'
<1>1. \A q \in Player : /\ Back[q] \in Nat /\ Back'[q] \in Nat
                        /\ q # p => Back'[q] = Back[q]
  BY PartsNat, PartsNatNext DEF Back
<1>2. Back[p] = Recoverable(p) /\ Back'[p] = Recoverable(p)'
  BY DEF Back
<1>3. SumBelow(Back', NumPlayers) = SumBelow(Back, NumPlayers) - Back[p] + Back'[p]
  BY <1>1, PlayerSum
<1> QED BY <1>2, <1>3 DEF Refunds

LEMMA BalanceSame ==
  ASSUME \A q \in Player : escrow'[q].balance = escrow[q].balance
  PROVE  Balance' = Balance
<1>1. \A i \in 0..NumPlayers-1 : Balances[i] = Balances'[i]
  BY Indices DEF Balances
<1> QED BY <1>1, SumSame, Indices DEF Balance

LEMMA DebtsSame ==
  ASSUME \A q \in Player : Unreconciled(q)' = Unreconciled(q)
  PROVE  Debts' = Debts
<1>1. \A i \in 0..NumPlayers-1 : Owed[i] = Owed'[i]
  BY Indices DEF Owed
<1> QED BY <1>1, SumSame, Indices DEF Debts

LEMMA RefundsAtMost ==
  ASSUME TypeOK, TypeOK', \A q \in Player : Recoverable(q)' <= Recoverable(q)
  PROVE  Refunds' <= Refunds
<1>1. \A i \in 0..NumPlayers-1 : Back'[i] \in Int /\ Back[i] \in Int /\ Back'[i] <= Back[i]
  BY PartsNat, PartsNatNext, Indices DEF Back
<1> QED BY <1>1, SumMono, Indices DEF Refunds

LEMMA LivePotAt ==
  ASSUME TypeOK, TypeOK', NEW r \in RoundId,
         \A q \in RoundId : q # r => round'[q] = round[q]
  PROVE  LivePot' = LivePot - Live[r] + Live'[r]
<1>1. \A i \in 0..(MaxRounds + 1) - 1 : /\ Live[i] \in Int /\ Live'[i] \in Int
                                        /\ i # r => Live'[i] = Live[i]
  <2>1. \A i \in RoundId : /\ Live[i] \in Nat /\ Live'[i] \in Nat
                           /\ i # r => Live'[i] = Live[i]
    BY PartsNat, PartsNatNext DEF Live
  <2> QED BY <2>1, Indices
<1>2. LivePot = SumBelow(Live, MaxRounds + 1) /\ LivePot' = SumBelow(Live', MaxRounds + 1)
  BY DEF LivePot, Live
<1>3. MaxRounds + 1 \in Nat /\ r \in 0..(MaxRounds + 1) - 1
  BY Indices
<1>4. SumBelow(Live', MaxRounds + 1) = SumBelow(Live, MaxRounds + 1) - Live[r] + Live'[r]
  <2> DEFINE f == Live
             g == Live'
             n == MaxRounds + 1
  <2>1. /\ n \in Nat /\ r \in 0..n-1
        /\ \A i \in 0..n-1 : f[i] \in Int /\ g[i] \in Int
        /\ \A i \in 0..n-1 : i # r => g[i] = f[i]
    BY <1>1, <1>3
  <2> HIDE DEF f, g, n
  <2>2. SumBelow(g, n) = SumBelow(f, n) - f[r] + g[r]
    BY <2>1, SumAt
  <2> QED BY <2>2 DEF f, g, n
<1> QED BY <1>2, <1>4

-----------------------------------------------------------------------------
(* The pot covers the stakes it was made of *)

PotsCover ==
  \A r \in RoundId : round[r].state \in Unswapped =>
     SumBelow(Held(r), NumPlayers) <= round[r].pot

LEMMA InitCover == Init => PotsCover
  BY DEF Init, PotsCover, NoRound, Unswapped

LEMMA HeldAtMost ==
  ASSUME TypeOK, TypeOK', NEW r \in RoundId,
         \A q \in Player : StakeIn(q, r)' <= StakeIn(q, r)
  PROVE  SumBelow(Held(r)', NumPlayers) <= SumBelow(Held(r), NumPlayers)
<1>1. \A q \in Player : /\ Held(r)'[q] \in Nat /\ Held(r)[q] \in Nat
                        /\ Held(r)'[q] <= Held(r)[q]
  BY PartsNat, PartsNatNext DEF Held
<1>2. \A i \in 0..NumPlayers-1 : /\ Held(r)'[i] \in Int /\ Held(r)[i] \in Int
                                 /\ Held(r)'[i] <= Held(r)[i]
  BY <1>1, Indices
<1> QED BY <1>2, SumMono, Indices

LEMMA HeldNat ==
  ASSUME TypeOK, NEW r \in RoundId
  PROVE  SumBelow(Held(r), NumPlayers) \in Nat
  BY PartsNat, SumNat, Indices

LEMMA HeldNatNext ==
  ASSUME TypeOK', NEW r \in RoundId
  PROVE  SumBelow(Held(r)', NumPlayers) \in Nat
<1>1. \A i \in 0..NumPlayers-1 : Held(r)'[i] \in Nat
  BY PartsNatNext, Indices
<1> QED BY <1>1, SumNat, Indices

(* Steps after which no player holds more in a round, and no round that is *)
(* unswapped was anything else, or has another pot.                        *)
LEMMA CoverKept ==
  ASSUME TypeOK, TypeOK', PotsCover,
         \A q \in Player, r \in RoundId : StakeIn(q, r)' <= StakeIn(q, r),
         \A r \in RoundId : round'[r].state \in Unswapped =>
            round[r].state \in Unswapped /\ round'[r].pot = round[r].pot
  PROVE  PotsCover'
<1>1. ASSUME NEW r \in RoundId, round'[r].state \in Unswapped
      PROVE  SumBelow(Held(r)', NumPlayers) <= round'[r].pot
  <2>1. SumBelow(Held(r), NumPlayers) <= round'[r].pot /\ round'[r].pot \in Nat
    BY <1>1, RoundTypes DEF PotsCover
  <2>2. SumBelow(Held(r)', NumPlayers) <= SumBelow(Held(r), NumPlayers)
    BY HeldAtMost
  <2> QED BY <2>1, <2>2, HeldNat, HeldNatNext
<1> QED BY <1>1 DEF PotsCover

LEMMA StakeCover ==
  ASSUME Order, Order', PotsCover, NEW p \in Player, NEW r \in RoundId, NEW a \in Amounts,
         Stake(p, r, a)
  PROVE  PotsCover'
<1>1. TypeOK /\ TypeOK'
  BY DEF Order
<1>2. /\ a \in Nat /\ r = current /\ round[r].state = "open"
      /\ Rounds(r, "open", round[r].pot + a, round[r].claimed)
      /\ \A q \in Player : q # p => miner'[q] = miner[q]
      /\ miner'[p].round_id = r /\ miner'[p].staked = StakeIn(p, r) + a
      /\ UNCHANGED config
  BY StakeEffect, StakeFinds DEF Order
<1>3. SumBelow(Held(r)', NumPlayers) = SumBelow(Held(r), NumPlayers) + a
  <2>1. \A q \in Player : /\ Held(r)[q] \in Nat /\ Held(r)'[q] \in Nat
                          /\ q # p => Held(r)'[q] = Held(r)[q]
    BY <1>1, <1>2, PartsNat, PartsNatNext DEF Held, StakeIn
  <2>2. Held(r)'[p] = Held(r)[p] + a
    BY <1>2 DEF Held, StakeIn
  <2> DEFINE f == Held(r)
             g == Held(r)'
  <2> HIDE DEF f, g
  <2>3. SumBelow(g, NumPlayers) = SumBelow(f, NumPlayers) - f[p] + g[p]
    BY <2>1, PlayerSum DEF f, g
  <2>4. SumBelow(f, NumPlayers) \in Nat
    BY <1>1, HeldNat DEF f
  <2> QED BY <1>2, <2>1, <2>2, <2>3, <2>4 DEF f, g
<1>4. SumBelow(Held(r), NumPlayers) <= round[r].pot
  BY <1>2 DEF PotsCover, Unswapped
<1>5. SumBelow(Held(r)', NumPlayers) <= round'[r].pot
  BY <1>1, <1>2, <1>3, <1>4, HeldNat, RoundTypes DEF Rounds
<1>6. \A o \in RoundId : round'[o].state \in Unswapped => o = r
  BY <1>2 DEF Order, RoundsInOrder, OneLive, current
<1> QED BY <1>5, <1>6 DEF PotsCover

LEMMA CreateCover ==
  ASSUME Order, Order', PotsCover, CreateRound
  PROVE  PotsCover'
<1>1. TypeOK
  BY DEF Order
<1>0. PICK id \in RoundId : id = config.current_round_id + 1
  BY <1>1, CreateEffect
<1>2. id \in RoundId /\ Rounds(id, "open", 0, 0) /\ UNCHANGED miner
  BY <1>0, <1>1, CreateEffect
<1>3. \A q \in Player : miner[q].round_id # id
  BY <1>0, <1>1, FieldTypes, RoundIds, ConfigTypes DEF Order, RoundsInOrder, CursorsBehind, current
<1>4. \A i \in 0..NumPlayers-1 : Held(id)'[i] = 0
  BY <1>2, <1>3, Indices DEF Held, StakeIn
<1>5. SumBelow(Held(id)', NumPlayers) = 0
  BY <1>4, SumZeros, Indices
<1>6. \A o \in RoundId : round'[o].state \in Unswapped => o = id
  BY <1>0, <1>1, CreateEffect DEF Order, RoundsInOrder, OneLive, current
<1> QED BY <1>2, <1>5, <1>6 DEF PotsCover, Rounds

LEMMA StepCover ==
  ASSUME Order, Order', PotsCover, [ClientNext]_vars
  PROVE  PotsCover'
<1>0. TypeOK /\ TypeOK'
  BY DEF Order
<1>1. CASE UNCHANGED <<round, miner>>
  BY <1>0, <1>1, CoverKept, StakeInNat DEF StakeIn
<1>2. ASSUME NEW p \in Player, NEW a \in Amounts, Deposit(p, a) \/ Withdraw(p, a)
      PROVE  UNCHANGED <<round, miner>>
  BY <1>2 DEF Deposit, Withdraw
<1>3. ASSUME NEW p \in Player, NEW r \in RoundId, Claim(p, r)
      PROVE  PotsCover'
  BY <1>0, <1>3, ClaimEffect, CoverKept, StakeInNat DEF StakeIn, Rounds, Unswapped
<1>4. ASSUME NEW p \in Player,
             \/ CommitMiner(p) \/ ReconcileMiner(p) \/ Refresh(p)
             \/ \E r \in RoundId : Refund(p, r)
      PROVE  UNCHANGED <<round, miner>>
  BY <1>4 DEF CommitMiner, ReconcileMiner, Refresh, Refund
<1>5. ASSUME NEW p \in Player, Enter(p)
      PROVE  PotsCover'
  <2>1. /\ \A q \in Player : q # p => miner'[q] = miner[q]
        /\ miner'[p].staked = 0 /\ UNCHANGED round
    BY <1>0, <1>5, EnterEffect
  <2>2. \A q \in Player, r \in RoundId : StakeIn(q, r)' <= StakeIn(q, r)
    BY <1>0, <2>1, StakeInNat DEF StakeIn
  <2> QED BY <1>0, <2>1, <2>2, CoverKept
<1>6. ASSUME NEW r \in RoundId, NEW st, NEW pot, NEW claimed, Rounds(r, st, pot, claimed),
             UNCHANGED miner,
             st \in Unswapped => round[r].state \in Unswapped /\ pot = round[r].pot
      PROVE  PotsCover'
  BY <1>0, <1>6, CoverKept, StakeInNat DEF StakeIn, Rounds
<1>7. ASSUME NEW r \in RoundId, Settle(r) \/ RequestSettle(r) \/ SettleCallback(r)
      PROVE  PotsCover'
  BY <1>0, <1>6, <1>7, DrawEffect
<1>8. ASSUME NEW r \in RoundId, CancelRound(r) \/ CloseRound(r) \/ ExecuteSwap(r)
      PROVE  PotsCover'
  BY <1>0, <1>6, <1>8, CancelEffect, CloseEffect, SwapEffect DEF Unswapped
<1>9. ASSUME NEW r \in RoundId, DeadlinePasses(r)
      PROVE  UNCHANGED <<round, miner>>
  BY <1>9 DEF DeadlinePasses
<1> QED
  BY <1>1, <1>2, <1>3, <1>4, <1>5, <1>7, <1>8, <1>9, StakeCover, CreateCover, ClientSteps

-----------------------------------------------------------------------------
(* The commingled vault *)

LEMMA Arithmetic ==
  ASSUME NEW v \in Nat, NEW u \in Nat, NEW u1 \in Nat, NEW t \in Nat, NEW l \in Nat,
         NEW l1 \in Nat, NEW k \in Nat, NEW k1 \in Nat, NEW credit \in Int, NEW paid \in Int,
         v + u >= t + l + k,
         u1 - u + paid >= credit + (l1 - l) + (k1 - k)
  PROVE  (v + paid) + u1 >= (t + credit) + l1 + k1
  OBVIOUS

(* A step keeps the vault backed when what it adds to the debts to come    *)
(* and to the vault is no less than what it adds to the other side.        *)
LEMMA BackedFrom ==
  ASSUME TypeOK, TypeOK', EscrowBacked,
         NEW credit \in Int, NEW paid \in Int,
         Balance' = Balance + credit,
         config'.total_escrow_balance = config.total_escrow_balance + credit,
         pot_vault' = pot_vault + paid,
         Debts' - Debts + paid >= credit + (LivePot' - LivePot) + (Refunds' - Refunds)
  PROVE  EscrowBacked'
<1>1. /\ config.total_escrow_balance = Balance
      /\ pot_vault + Debts >= config.total_escrow_balance + LivePot + Refunds
  BY BackedIs
<1>2. /\ Balance \in Nat /\ Debts \in Nat /\ Refunds \in Nat /\ LivePot \in Nat
      /\ Balance' \in Nat /\ Debts' \in Nat /\ Refunds' \in Nat /\ LivePot' \in Nat
      /\ config.total_escrow_balance \in Nat /\ pot_vault \in Nat
  BY SumsNat, SumsNatNext, ConfigTypes
<1>3. config'.total_escrow_balance = Balance'
  BY <1>1
<1>4. (pot_vault + paid) + Debts'
        >= (config.total_escrow_balance + credit) + LivePot' + Refunds'
  BY <1>1, <1>2, Arithmetic
<1>5. pot_vault' + Debts' >= config'.total_escrow_balance + LivePot' + Refunds'
  BY <1>4
<1> QED BY <1>3, <1>5, BackedIsNext

LEMMA LiveSame ==
  ASSUME \A r \in RoundId : Live'[r] = Live[r]
  PROVE  LivePot' = LivePot
<1>1. \A i \in 0..(MaxRounds + 1) - 1 : Live'[i] = Live[i]
  BY Indices
<1>2. LivePot = SumBelow(Live, MaxRounds + 1) /\ LivePot' = SumBelow(Live', MaxRounds + 1)
  BY DEF LivePot, Live
<1> QED BY <1>1, <1>2, SumSame, Indices

(* Steps that move no lamports and owe nobody more. *)
LEMMA BackedKept ==
  ASSUME TypeOK, TypeOK', EscrowBacked,
         \A q \in Player : escrow'[q].balance = escrow[q].balance,
         config'.total_escrow_balance = config.total_escrow_balance,
         UNCHANGED pot_vault,
         \A q \in Player : Unreconciled(q)' = Unreconciled(q),
         \A q \in Player : Recoverable(q)' <= Recoverable(q),
         \A r \in RoundId : Live'[r] = Live[r]
  PROVE  EscrowBacked'
<1>1. /\ Balance' = Balance /\ Debts' = Debts /\ Refunds' <= Refunds
      /\ LivePot' = LivePot
  BY BalanceSame, DebtsSame, RefundsAtMost, LiveSame
<1>2. /\ Balance' = Balance + 0 /\ pot_vault' = pot_vault + 0
      /\ config'.total_escrow_balance = config.total_escrow_balance + 0
      /\ Debts' - Debts + 0 >= 0 + (LivePot' - LivePot) + (Refunds' - Refunds)
  BY <1>1, SumsNat, SumsNatNext, ConfigTypes
<1> QED BY <1>2, BackedFrom

LEMMA RecoverableNat ==
  ASSUME TypeOK, NEW q \in Player
  PROVE  Recoverable(q) \in Nat
  BY FieldTypes DEF Recoverable

LEMMA RecoverableSame ==
  ASSUME TypeOK, NEW q \in Player, miner'[q] = miner[q],
         escrow'[q].reconciled_round = escrow[q].reconciled_round,
         round'[miner[q].round_id].state = "closed"
           <=> round[miner[q].round_id].state = "closed"
  PROVE  Recoverable(q)' = Recoverable(q)
  BY DEF Recoverable

(* The steps on one escrow: lamports in and out. *)
LEMMA DepositBacked ==
  ASSUME Order, Order', EscrowBacked, NEW p \in Player, NEW a \in Amounts,
         Deposit(p, a) \/ Withdraw(p, a)
  PROVE  EscrowBacked'
<1>1. TypeOK /\ TypeOK'
  BY DEF Order
<1>2. \A q \in Player : Recoverable(q)' = Recoverable(q)
  BY <1>1, DepositEffect, WithdrawEffect, RecoverableSame DEF Escrows
<1>3. \A r \in RoundId : Live'[r] = Live[r]
  BY <1>1, DepositEffect, WithdrawEffect DEF Live
<1>4. Debts' = Debts /\ Refunds' <= Refunds /\ LivePot' = LivePot
  BY <1>1, <1>2, <1>3, DepositOwed, DebtsSame, RefundsAtMost, RecoverableNat, LiveSame
<1>5. PICK d \in Int : /\ escrow'[p].balance = escrow[p].balance + d
                       /\ config'.total_escrow_balance = config.total_escrow_balance + d
                       /\ pot_vault' = pot_vault + d
  <2>1. CASE Deposit(p, a)
    BY <1>1, <2>1, DepositEffect DEF Escrows, Total
  <2>2. CASE Withdraw(p, a)
    <3>1. /\ a \in Nat /\ escrow'[p].balance = escrow[p].balance - a
          /\ config'.total_escrow_balance = config.total_escrow_balance - a
          /\ pot_vault' = pot_vault - a
      BY <1>1, <2>2, WithdrawEffect DEF Escrows, Total
    <3>2. /\ -a \in Int /\ escrow[p].balance - a = escrow[p].balance + (-a)
          /\ config.total_escrow_balance - a = config.total_escrow_balance + (-a)
          /\ pot_vault - a = pot_vault + (-a)
      BY <1>1, <3>1, FieldTypes, ConfigTypes
    <3> QED BY <3>1, <3>2
  <2> QED BY <2>1, <2>2
<1>6. \A q \in Player : q # p => escrow'[q] = escrow[q]
  BY <1>1, DepositEffect, WithdrawEffect DEF Escrows
<1>7. Balance' = Balance + d
  BY <1>1, <1>5, <1>6, BalanceAt, SumsNat, FieldTypes
<1>8. Debts' - Debts + d >= d + (LivePot' - LivePot) + (Refunds' - Refunds)
  BY <1>1, <1>4, SumsNat, SumsNatNext
<1> QED BY <1>1, <1>5, <1>7, <1>8, BackedFrom

(* A stake: the pot and the debt to come grow together. *)
LEMMA StakeBacked ==
  ASSUME Order, Order', EscrowBacked, NEW p \in Player, NEW r \in RoundId, NEW a \in Amounts,
         Stake(p, r, a)
  PROVE  EscrowBacked'
<1>1. TypeOK /\ TypeOK' /\ RoundsInOrder /\ LocksInOrder
  BY DEF Order
<1>2. /\ a \in Nat /\ round[r].state = "open" /\ miner[p].round_id = r
      /\ Rounds(r, "open", round[r].pot + a, round[r].claimed)
      /\ \A q \in Player : q # p => miner'[q] = miner[q]
      /\ miner'[p].round_id = r
      /\ UNCHANGED <<config, escrow, pot_vault>>
  BY <1>1, StakeEffect, StakeFinds
<1>3. Balance' = Balance
  BY <1>2, BalanceSame
<1>4. Debts' = Debts + a
  <2>1. \A q \in Player : q # p => Unreconciled(q)' = Unreconciled(q)
    BY <1>1, StakeOwed
  <2>2. Unreconciled(p)' = miner[p].staked + a /\ Unreconciled(p) = miner[p].staked
    BY <1>1, StakeOwed, StakeOwedBefore
  <2> QED BY <1>1, <1>2, <2>1, <2>2, DebtsAt, SumsNat, FieldTypes
<1>5. LivePot' = LivePot + a
  <2>1. Live[r] = round[r].pot /\ Live'[r] = round[r].pot + a
    BY <1>2 DEF Live, Rounds, Unswapped
  <2>2. LivePot' = LivePot - Live[r] + Live'[r]
    BY <1>1, <1>2, LivePotAt DEF Rounds
  <2> QED BY <1>1, <1>2, <2>1, <2>2, SumsNat, RoundTypes
<1>6. Refunds' <= Refunds
  <2>1. ASSUME NEW q \in Player PROVE Recoverable(q)' <= Recoverable(q)
    <3>1. CASE q = p
      BY <1>1, <1>2, <3>1, RecoverableNat DEF Recoverable, Rounds
    <3>2. CASE q # p
      BY <1>1, <1>2, <3>2, RecoverableSame, RecoverableNat, FieldTypes DEF Rounds
    <3> QED BY <3>1, <3>2
  <2> QED BY <1>1, <2>1, RefundsAtMost
<1>7. /\ Balance' = Balance + 0 /\ pot_vault' = pot_vault + 0
      /\ config'.total_escrow_balance = config.total_escrow_balance + 0
      /\ Debts' - Debts + 0 >= 0 + (LivePot' - LivePot) + (Refunds' - Refunds)
  BY <1>1, <1>2, <1>3, <1>4, <1>5, <1>6, SumsNat, SumsNatNext, ConfigTypes
<1> QED BY <1>1, <1>7, BackedFrom

(* Lamports move between a player's escrow and what the player is still to *)
(* be debited, or can take back.                                           *)
LEMMA ReleaseBacked ==
  ASSUME Order, Order', EscrowBacked, NEW p \in Player, NEW credit \in Int,
         \A q \in Player : q # p => escrow'[q] = escrow[q],
         escrow'[p].balance = escrow[p].balance + credit,
         escrow'[p].active_round = 0,
         config'.total_escrow_balance = config.total_escrow_balance + credit,
         UNCHANGED <<round, miner, pot_vault>>,
         credit + Unreconciled(p) + Recoverable(p)' <= Recoverable(p)
  PROVE  EscrowBacked'
<1>1. TypeOK /\ TypeOK' /\ RoundsInOrder /\ RoundsInOrder'
  BY DEF Order
<1>2. Balance' = Balance + credit
  BY <1>1, BalanceAt, SumsNat, FieldTypes
<1>3. Debts' = Debts - Unreconciled(p)
  <2>1. \A q \in Player : Unreconciled(q)' = IF q = p THEN 0 ELSE Unreconciled(q)
    BY <1>1, ReleasedOwed
  <2> QED BY <1>1, <2>1, DebtsAt, SumsNat, UnreconciledMeans
<1>4. Refunds' = Refunds - Recoverable(p) + Recoverable(p)'
  <2>1. \A q \in Player : q # p => Recoverable(q)' = Recoverable(q)
    BY <1>1, RecoverableSame
  <2> QED BY <1>1, <2>1, RefundsAt
<1>5. LivePot' = LivePot
  BY LiveSame DEF Live
<1>6. Recoverable(p) \in Nat /\ Recoverable(p)' \in Nat /\ Unreconciled(p) \in Nat
  BY <1>1, PartsNat, PartsNatNext DEF Back, Owed
<1>7. Debts' - Debts + 0 >= credit + (LivePot' - LivePot) + (Refunds' - Refunds)
  BY <1>1, <1>3, <1>4, <1>5, <1>6, SumsNat, SumsNatNext
<1>8. pot_vault' = pot_vault + 0
  BY <1>1, ConfigTypes
<1> QED BY <1>1, <1>2, <1>7, <1>8, BackedFrom

LEMMA ReconcileBacked ==
  ASSUME Order, Order', EscrowBacked, NEW p \in Player, ReconcileMiner(p)
  PROVE  EscrowBacked'
<1>1. TypeOK /\ RoundsInOrder /\ LocksInOrder
  BY DEF Order
<1> DEFINE r == escrow[p].active_round
           debit == IF DebitDue(p, r) THEN miner[p].staked ELSE 0
<1>2. /\ r # 0 /\ r \in RoundId
      /\ \A q \in Player : q # p => escrow'[q] = escrow[q]
      /\ escrow'[p].balance = escrow[p].balance - debit
      /\ escrow'[p].active_round = 0
      /\ escrow'[p].reconciled_round = IF DebitDue(p, r) THEN r ELSE escrow[p].reconciled_round
      /\ config'.total_escrow_balance = config.total_escrow_balance - debit
      /\ UNCHANGED <<round, miner, pot_vault>>
  BY <1>1, ReconcileEffect, FieldTypes DEF Escrows, Total
<1>3. miner[p].round_id = r /\ debit \in Nat
  BY <1>1, <1>2, FieldTypes DEF LocksInOrder, Locked
<1>4. Unreconciled(p) + Recoverable(p)' <= Recoverable(p) + debit
  <2>1. CASE DebitDue(p, r)
    <3>1. /\ debit = miner[p].staked /\ escrow[p].reconciled_round # r
          /\ escrow'[p].reconciled_round = r
      BY <1>2, <2>1 DEF DebitDue
    <3>2. Recoverable(p) = 0
      BY <1>3, <3>1 DEF Recoverable
    <3>3. Unreconciled(p) = IF round[r].state \in Unswapped THEN debit ELSE 0
      BY <1>3, <3>1 DEF Unreconciled
    <3>4. Recoverable(p)' = IF round[r].state = "closed" THEN debit ELSE 0
      BY <1>2, <1>3, <3>1 DEF Recoverable
    <3> QED BY <1>3, <3>2, <3>3, <3>4 DEF Unswapped
  <2>2. CASE ~ DebitDue(p, r)
    <3>1. /\ debit = 0 /\ escrow[p].reconciled_round = r
          /\ escrow'[p].reconciled_round = r
      BY <1>2, <1>3, <2>2 DEF DebitDue
    <3>2. Unreconciled(p) = 0 /\ Recoverable(p)' = Recoverable(p)
      BY <1>2, <1>3, <3>1 DEF Unreconciled, Recoverable
    <3> QED BY <1>1, <3>1, <3>2, RecoverableNat
  <2> QED BY <2>1, <2>2
<1> HIDE DEF debit
<1>5. /\ Recoverable(p) \in Nat /\ Recoverable(p)' \in Nat /\ Unreconciled(p) \in Nat
      /\ escrow[p].balance \in Nat /\ config.total_escrow_balance \in Nat
  BY PartsNat, PartsNatNext, FieldTypes, ConfigTypes DEF Back, Owed, Order
<1>6. PICK credit \in Int : credit = -debit
  BY <1>3
<1>7. /\ escrow'[p].balance = escrow[p].balance + credit
      /\ config'.total_escrow_balance = config.total_escrow_balance + credit
      /\ credit + Unreconciled(p) + Recoverable(p)' <= Recoverable(p)
  BY <1>2, <1>3, <1>4, <1>5, <1>6
<1> QED BY <1>2, <1>7, ReleaseBacked

LEMMA RefundBacked ==
  ASSUME Order, Order', EscrowBacked, NEW p \in Player, NEW r \in RoundId, Refund(p, r)
  PROVE  EscrowBacked'
<1>1. TypeOK /\ RoundsInOrder /\ LocksInOrder
  BY DEF Order
<1> DEFINE due == escrow[p].reconciled_round = r
<1>2. PICK credit \in Nat : credit = IF due THEN miner[p].staked ELSE 0
  BY <1>1, FieldTypes
<1>3. /\ r # 0 /\ round[r].state = "closed"
      /\ IF due THEN miner[p].round_id = r ELSE escrow[p].active_round = r
      /\ \A q \in Player : q # p => escrow'[q] = escrow[q]
      /\ escrow'[p].balance = escrow[p].balance + credit
      /\ escrow'[p].active_round = 0
      /\ escrow'[p].reconciled_round = IF due THEN 0 ELSE escrow[p].reconciled_round
      /\ config'.total_escrow_balance = config.total_escrow_balance + credit
      /\ UNCHANGED <<round, miner, pot_vault>>
  BY <1>1, <1>2, RefundEffect DEF Escrows, Total
<1>4. miner[p].round_id = r
  BY <1>1, <1>3 DEF LocksInOrder, Locked
<1>5. Unreconciled(p) = 0
  BY <1>3, <1>4 DEF Unreconciled, Unswapped
<1>6. Recoverable(p) = credit /\ Recoverable(p)' = 0
  BY <1>2, <1>3, <1>4 DEF Recoverable
<1>7. credit \in Int /\ credit + Unreconciled(p) + Recoverable(p)' <= Recoverable(p)
  BY <1>2, <1>5, <1>6
<1> QED BY <1>3, <1>7, ReleaseBacked

LEMMA ClaimBacked ==
  ASSUME Order, Order', EscrowBacked, NEW p \in Player, NEW r \in RoundId, Claim(p, r)
  PROVE  EscrowBacked'
<1>1. TypeOK /\ TypeOK'
  BY DEF Order
<1>2. /\ round[r].state = "claimable"
      /\ Rounds(r, "claimable", round[r].pot, round[r].claimed + miner[p].staked)
      /\ Escrows(p, escrow[p].balance, 0, escrow[p].reconciled_round, r)
      /\ UNCHANGED <<config, miner, pot_vault>>
  BY <1>1, ClaimEffect
<1>3. \A q \in Player : Recoverable(q)' <= Recoverable(q)
  BY <1>1, <1>2, RecoverableSame, RecoverableNat, FieldTypes DEF Rounds, Escrows
<1>4. \A o \in RoundId : Live'[o] = Live[o]
  BY <1>2 DEF Live, Rounds
<1>5. \A q \in Player : escrow'[q].balance = escrow[q].balance
  BY <1>2 DEF Escrows
<1> QED BY <1>1, <1>2, <1>3, <1>4, <1>5, ClaimOwed, BackedKept

LEMMA EnterBacked ==
  ASSUME Order, Order', EscrowBacked, NEW p \in Player, Enter(p)
  PROVE  EscrowBacked'
<1>1. TypeOK /\ TypeOK' /\ RoundsInOrder
  BY DEF Order
<1>2. /\ Escrows(p, escrow[p].balance, current, escrow[p].reconciled_round,
                 escrow[p].last_claimed_round)
      /\ \A q \in Player : q # p => miner'[q] = miner[q]
      /\ miner'[p].staked = 0
      /\ UNCHANGED <<config, round, pot_vault>>
  BY <1>1, EnterEffect DEF current
<1>3. ASSUME NEW q \in Player PROVE Recoverable(q)' <= Recoverable(q)
  <2>1. CASE q = p
    BY <1>1, <1>2, <2>1, RecoverableNat DEF Recoverable
  <2>2. CASE q # p
    BY <1>1, <1>2, <2>2, RecoverableSame, RecoverableNat DEF Escrows
  <2> QED BY <2>1, <2>2
<1>4. \A o \in RoundId : Live'[o] = Live[o]
  BY <1>2 DEF Live
<1>5. \A q \in Player : escrow'[q].balance = escrow[q].balance
  BY <1>2 DEF Escrows
<1> QED BY <1>1, <1>2, <1>3, <1>4, <1>5, EnterOwed, BackedKept

LEMMA CreateBacked ==
  ASSUME Order, Order', EscrowBacked, CreateRound
  PROVE  EscrowBacked'
<1>1. TypeOK /\ TypeOK' /\ RoundsInOrder
  BY DEF Order
<1>0. PICK id \in RoundId : id = config.current_round_id + 1
  BY <1>1, CreateEffect
<1>2. /\ Rounds(id, "open", 0, 0)
      /\ config'.total_escrow_balance = config.total_escrow_balance
      /\ UNCHANGED <<miner, escrow, pot_vault>>
  BY <1>0, <1>1, CreateEffect
<1>3. \A q \in Player : miner[q].round_id # id
  BY <1>0, <1>1, FieldTypes, RoundIds, ConfigTypes DEF RoundsInOrder, CursorsBehind, current
<1>4. \A q \in Player : Recoverable(q)' <= Recoverable(q)
  BY <1>1, <1>2, <1>3, RecoverableSame, RecoverableNat, FieldTypes DEF Rounds
<1>5. round[id].state = "absent"
  BY <1>0, <1>1, RoundIds, ConfigTypes DEF RoundsInOrder, NoneAhead, current
<1>6. \A o \in RoundId : Live'[o] = Live[o]
  BY <1>2, <1>5 DEF Live, Rounds, Unswapped
<1> QED BY <1>1, <1>2, <1>4, <1>6, CreateOwed, BackedKept

LEMMA DrawBacked ==
  ASSUME Order, Order', EscrowBacked, NEW r \in RoundId,
         Settle(r) \/ RequestSettle(r) \/ SettleCallback(r)
  PROVE  EscrowBacked'
<1>1. TypeOK /\ TypeOK'
  BY DEF Order
<1>2. PICK st \in Unswapped : Rounds(r, st, round[r].pot, round[r].claimed)
  BY <1>1, DrawEffect
<1>3. round[r].state \in Unswapped /\ UNCHANGED <<config, miner, escrow, pot_vault>>
  BY <1>1, DrawEffect
<1>4. \A q \in Player : Unreconciled(q)' = Unreconciled(q)
  BY <1>1, <1>2, <1>3, RoundOwed
<1>5. \A q \in Player : Recoverable(q)' <= Recoverable(q)
  BY <1>1, <1>2, <1>3, RecoverableSame, RecoverableNat, FieldTypes DEF Rounds, Unswapped
<1>6. \A o \in RoundId : Live'[o] = Live[o]
  BY <1>2, <1>3 DEF Live, Rounds
<1> QED BY <1>1, <1>3, <1>4, <1>5, <1>6, BackedKept

LEMMA CloseBacked ==
  ASSUME Order, Order', EscrowBacked, NEW r \in RoundId, CloseRound(r)
  PROVE  EscrowBacked'
<1>1. TypeOK /\ TypeOK'
  BY DEF Order
<1>2. /\ round[r].state \notin Unswapped
      /\ Rounds(r, "absent", 0, 0)
      /\ UNCHANGED <<config, miner, escrow, pot_vault>>
  BY <1>1, CloseEffect DEF Unswapped
<1>3. \A q \in Player : Unreconciled(q)' = Unreconciled(q)
  BY <1>1, <1>2, RoundOwed DEF Unswapped
<1>4. ASSUME NEW q \in Player PROVE Recoverable(q)' <= Recoverable(q)
  BY <1>1, <1>2, RecoverableNat, FieldTypes DEF Recoverable, Rounds
<1>5. \A o \in RoundId : Live'[o] = Live[o]
  BY <1>2 DEF Live, Rounds, Unswapped
<1> QED BY <1>1, <1>2, <1>3, <1>4, <1>5, BackedKept

(* The swap pays the pot out when nobody is left to be debited. *)
LEMMA SwapBacked ==
  ASSUME Order, Order', EscrowBacked, AllDebited, NEW r \in RoundId, ExecuteSwap(r)
  PROVE  EscrowBacked'
<1>1. TypeOK /\ TypeOK'
  BY DEF Order
<1>2. /\ round[r].state = "settled"
      /\ Rounds(r, "claimable", round[r].pot, round[r].claimed)
      /\ pot_vault' = pot_vault - round[r].pot
      /\ config'.total_escrow_balance = config.total_escrow_balance
      /\ UNCHANGED <<miner, escrow>>
  BY <1>1, SwapEffect
<1>3. Balance' = Balance
  BY <1>2, BalanceSame
<1>4. Debts = 0
  <2>1. \A i \in 0..NumPlayers-1 : Owed[i] = 0
    BY Indices DEF AllDebited, Owed
  <2> QED BY <2>1, SumZeros, Indices DEF Debts
<1>5. LivePot' = LivePot - round[r].pot
  <2>1. Live[r] = round[r].pot /\ Live'[r] = 0
    BY <1>2 DEF Live, Rounds, Unswapped
  <2>2. LivePot' = LivePot - Live[r] + Live'[r]
    BY <1>1, <1>2, LivePotAt DEF Rounds
  <2> QED BY <1>1, <2>1, <2>2, SumsNat, RoundTypes
<1>6. Refunds' <= Refunds
  <2>1. \A q \in Player : Recoverable(q)' <= Recoverable(q)
    BY <1>1, <1>2, RecoverableSame, RecoverableNat, FieldTypes DEF Rounds
  <2> QED BY <1>1, <2>1, RefundsAtMost
<1>7. PICK paid \in Int : paid = -round[r].pot
  BY <1>1, RoundTypes
<1>8. /\ Balance' = Balance + 0
      /\ pot_vault' = pot_vault + paid
      /\ config'.total_escrow_balance = config.total_escrow_balance + 0
  BY <1>1, <1>2, <1>3, <1>7, SumsNat, RoundTypes, ConfigTypes
<1>9. Debts' - Debts + paid >= 0 + (LivePot' - LivePot) + (Refunds' - Refunds)
  BY <1>1, <1>4, <1>5, <1>6, <1>7, SumsNat, SumsNatNext, RoundTypes
<1> QED BY <1>1, <1>8, <1>9, BackedFrom

(* A cancelled pot turns into refunds for those it was already debited     *)
(* from; the others' debits will not come: the pot covers both.            *)
LEMMA CancelSums ==
  ASSUME Order, Order', PotsCover, NEW r \in RoundId, CancelRound(r)
  PROVE  Debts + Refunds' <= Debts' + Refunds + round[r].pot
<1>1. TypeOK /\ TypeOK'
  BY DEF Order
<1>2. /\ round[r].state \in Unswapped
      /\ Rounds(r, "closed", round[r].pot, round[r].claimed)
      /\ UNCHANGED <<miner, escrow>>
  BY <1>1, CancelEffect
<1> DEFINE f1 == Owed
           f2 == Back'
           f  == [p \in Player |-> f1[p] + f2[p]]
           g1 == Owed'
           g2 == Back
           g3 == Held(r)
           g4 == [p \in Player |-> g1[p] + g2[p]]
           g  == [p \in Player |-> g4[p] + g3[p]]
<1>3. \A p \in Player : /\ f1[p] \in Nat /\ f2[p] \in Nat
                        /\ g1[p] \in Nat /\ g2[p] \in Nat /\ g3[p] \in Nat
  BY <1>1, PartsNat, PartsNatNext
<1>4. ASSUME NEW p \in Player PROVE f1[p] + f2[p] <= g1[p] + g2[p] + g3[p]
  <2>1. /\ f1[p] = Unreconciled(p) /\ f2[p] = Recoverable(p)'
        /\ g1[p] = Unreconciled(p)' /\ g2[p] = Recoverable(p) /\ g3[p] = StakeIn(p, r)
    BY DEF Owed, Back, Held
  <2>2. CASE miner[p].round_id = r
    <3>1. Unreconciled(p) + Recoverable(p)' <= StakeIn(p, r)
      BY <1>1, <1>2, <2>2, FieldTypes DEF Unreconciled, Recoverable, StakeIn, Rounds
    <3> QED BY <1>3, <2>1, <3>1
  <2>3. CASE miner[p].round_id # r
    <3>1. Unreconciled(p)' = Unreconciled(p) /\ Recoverable(p)' = Recoverable(p)
      BY <1>1, <1>2, <2>3, FieldTypes DEF Unreconciled, Recoverable, Rounds
    <3> QED BY <1>3, <2>1, <3>1
  <2> QED BY <2>2, <2>3
<1>5. /\ SumBelow(f1, NumPlayers) = Debts /\ SumBelow(f2, NumPlayers) = Refunds'
      /\ SumBelow(g1, NumPlayers) = Debts' /\ SumBelow(g2, NumPlayers) = Refunds
      /\ SumBelow(g3, NumPlayers) <= round[r].pot
  BY <1>2 DEF Debts, Refunds, PotsCover
<1>6. SumBelow(g3, NumPlayers) \in Nat
  BY <1>1, HeldNat
<1> HIDE DEF f1, f2, g1, g2, g3
<1>7. /\ \A p \in Player : f[p] = f1[p] + f2[p] /\ f[p] \in Nat
      /\ \A p \in Player : g4[p] = g1[p] + g2[p] /\ g4[p] \in Nat
      /\ \A p \in Player : g[p] = g4[p] + g3[p] /\ g[p] \in Nat
      /\ \A p \in Player : f[p] <= g[p]
  BY <1>3, <1>4
<1> HIDE DEF f, g4, g
<1>8. SumBelow(f, NumPlayers) = SumBelow(f1, NumPlayers) + SumBelow(f2, NumPlayers)
  BY <1>3, <1>7, SumPlus, Indices
<1>9. SumBelow(g4, NumPlayers) = SumBelow(g1, NumPlayers) + SumBelow(g2, NumPlayers)
  BY <1>3, <1>7, SumPlus, Indices
<1>10. SumBelow(g, NumPlayers) = SumBelow(g4, NumPlayers) + SumBelow(g3, NumPlayers)
  BY <1>3, <1>7, SumPlus, Indices
<1>11. SumBelow(f, NumPlayers) <= SumBelow(g, NumPlayers)
  <2>1. \A i \in 0..NumPlayers-1 : f[i] \in Int /\ g[i] \in Int /\ f[i] <= g[i]
    BY <1>7, Indices
  <2> QED BY <2>1, SumMono, Indices
<1> QED BY <1>1, <1>5, <1>6, <1>8, <1>9, <1>10, <1>11, SumsNat, SumsNatNext, RoundTypes

LEMMA CancelBacked ==
  ASSUME Order, Order', EscrowBacked, PotsCover, NEW r \in RoundId, CancelRound(r)
  PROVE  EscrowBacked'
<1>1. TypeOK /\ TypeOK'
  BY DEF Order
<1>2. /\ round[r].state \in Unswapped
      /\ Rounds(r, "closed", round[r].pot, round[r].claimed)
      /\ config'.total_escrow_balance = config.total_escrow_balance
      /\ UNCHANGED <<escrow, pot_vault>>
  BY <1>1, CancelEffect
<1>3. LivePot' = LivePot - round[r].pot
  <2>1. Live[r] = round[r].pot /\ Live'[r] = 0
    BY <1>2 DEF Live, Rounds, Unswapped
  <2>2. LivePot' = LivePot - Live[r] + Live'[r]
    BY <1>1, <1>2, LivePotAt DEF Rounds
  <2> QED BY <1>1, <2>1, <2>2, SumsNat, RoundTypes
<1>4. Debts + Refunds' <= Debts' + Refunds + round[r].pot
  BY CancelSums
<1>5. Balance' = Balance
  BY <1>2, BalanceSame
<1>6. /\ Balance' = Balance + 0 /\ pot_vault' = pot_vault + 0
      /\ config'.total_escrow_balance = config.total_escrow_balance + 0
      /\ Debts' - Debts + 0 >= 0 + (LivePot' - LivePot) + (Refunds' - Refunds)
  BY <1>1, <1>2, <1>3, <1>4, <1>5, SumsNat, SumsNatNext, RoundTypes, ConfigTypes
<1> QED BY <1>1, <1>6, BackedFrom

LEMMA QuietBacked ==
  ASSUME Order, Order', EscrowBacked, UNCHANGED <<config, round, miner, escrow, pot_vault>>
  PROVE  EscrowBacked'
<1>1. TypeOK /\ TypeOK'
  BY DEF Order
<1>2. \A q \in Player : Recoverable(q)' <= Recoverable(q)
  BY <1>1, RecoverableSame, RecoverableNat
<1>3. \A o \in RoundId : Live'[o] = Live[o]
  BY DEF Live
<1> QED BY <1>1, <1>2, <1>3, QuietOwed, BackedKept

LEMMA StepBacked ==
  ASSUME Order, Order', PotsCover, EscrowBacked, [ClientNext]_vars
  PROVE  EscrowBacked'
<1>1. ASSUME NEW p \in Player, CommitMiner(p) \/ Refresh(p)
      PROVE  UNCHANGED <<config, round, miner, escrow, pot_vault>>
  BY <1>1 DEF CommitMiner, Refresh
<1>2. ASSUME NEW r \in RoundId, DeadlinePasses(r)
      PROVE  UNCHANGED <<config, round, miner, escrow, pot_vault>>
  BY <1>2 DEF DeadlinePasses
<1> QED
  BY <1>1, <1>2, DepositBacked, StakeBacked, ClaimBacked, RefundBacked, ReconcileBacked,
     EnterBacked, CreateBacked, DrawBacked, CancelBacked, CloseBacked, SwapBacked,
     QuietBacked, ClientSteps

LEMMA InitBacked == Init => EscrowBacked
<1> SUFFICES ASSUME Init PROVE EscrowBacked
  OBVIOUS
<1>1. TypeOK
  BY InitType
<1>2. \A q \in Player : Balances[q] = 0 /\ Owed[q] = 0 /\ Back[q] = 0
  BY RoundIds DEF Init, Balances, Owed, Back, Unreconciled, Recoverable, NoEscrow, NoRound,
                  Unswapped
<1>3. Balance = 0 /\ Debts = 0 /\ Refunds = 0
  <2>1. \A i \in 0..NumPlayers-1 : Balances[i] = 0 /\ Owed[i] = 0 /\ Back[i] = 0
    BY <1>2, Indices
  <2> QED BY <2>1, SumZeros, Indices DEF Balance, Debts, Refunds
<1>4. LivePot = 0
  <2>1. \A i \in 0..(MaxRounds + 1) - 1 : Live[i] = 0
    BY Indices DEF Init, Live, NoRound, Unswapped
  <2>2. LivePot = SumBelow(Live, MaxRounds + 1)
    BY DEF LivePot, Live
  <2> QED BY <2>1, <2>2, SumZeros, Indices
<1>5. config.total_escrow_balance = 0 /\ pot_vault = 0
  BY DEF Init
<1> QED BY <1>3, <1>4, <1>5, BackedIs

-----------------------------------------------------------------------------
(* Claims stay within their pot *)

Claims(r) == [p \in Player |-> Claimable(p, r)]

LEMMA ClaimableNat ==
  ASSUME TypeOK, NEW p \in Player, NEW r \in RoundId
  PROVE  Claimable(p, r) \in Nat /\ Claimable(p, r) <= StakeIn(p, r)
  BY FieldTypes DEF Claimable, StakeIn

LEMMA ClaimableNatNext ==
  ASSUME TypeOK', NEW p \in Player, NEW r \in RoundId
  PROVE  Claimable(p, r)' \in Nat
<1>1. miner'[p].staked \in Nat
  BY DEF TypeOK, PositionType
<1> QED BY <1>1 DEF Claimable

LEMMA ClaimsNat ==
  ASSUME TypeOK, NEW r \in RoundId
  PROVE  SumBelow(Claims(r), NumPlayers) \in Nat
<1>1. \A i \in 0..NumPlayers-1 : Claims(r)[i] \in Nat
  BY ClaimableNat, Indices DEF Claims
<1> QED BY <1>1, SumNat, Indices

LEMMA ClaimsNatNext ==
  ASSUME TypeOK', NEW r \in RoundId
  PROVE  SumBelow(Claims(r)', NumPlayers) \in Nat
<1>1. \A i \in 0..NumPlayers-1 : Claims(r)'[i] \in Nat
  BY ClaimableNatNext, Indices DEF Claims
<1> QED BY <1>1, SumNat, Indices

LEMMA WithinIs ==
  /\ ClaimsWithinPot <=> \A r \in RoundId : round[r].state = "claimable" =>
        round[r].claimed + SumBelow(Claims(r), NumPlayers) <= round[r].pot
  /\ ClaimsWithinPot' <=> \A r \in RoundId : round'[r].state = "claimable" =>
        round'[r].claimed + SumBelow(Claims(r)', NumPlayers) <= round'[r].pot
  BY DEF ClaimsWithinPot, Claims

LEMMA ClaimsAtMost ==
  ASSUME TypeOK, TypeOK', NEW r \in RoundId,
         \A q \in Player : Claimable(q, r)' <= Claimable(q, r)
  PROVE  SumBelow(Claims(r)', NumPlayers) <= SumBelow(Claims(r), NumPlayers)
<1>1. \A q \in Player : /\ Claims(r)'[q] \in Nat /\ Claims(r)[q] \in Nat
                        /\ Claims(r)'[q] <= Claims(r)[q]
  BY ClaimableNat, ClaimableNatNext DEF Claims
<1>2. \A i \in 0..NumPlayers-1 : /\ Claims(r)'[i] \in Int /\ Claims(r)[i] \in Int
                                 /\ Claims(r)'[i] <= Claims(r)[i]
  BY <1>1, Indices
<1> QED BY <1>2, SumMono, Indices

(* Steps that let nobody claim more of a round already swapped. *)
LEMMA WithinKept ==
  ASSUME TypeOK, TypeOK', ClaimsWithinPot,
         \A q \in Player, r \in RoundId : round'[r].state = "claimable" =>
            Claimable(q, r)' <= Claimable(q, r),
         \A r \in RoundId : round'[r].state = "claimable" => round'[r] = round[r]
  PROVE  ClaimsWithinPot'
<1>1. ASSUME NEW r \in RoundId, round'[r].state = "claimable"
      PROVE  round'[r].claimed + SumBelow(Claims(r)', NumPlayers) <= round'[r].pot
  <2>1. /\ round[r].claimed + SumBelow(Claims(r), NumPlayers) <= round[r].pot
        /\ round'[r].claimed = round[r].claimed /\ round'[r].pot = round[r].pot
    BY <1>1, WithinIs
  <2>2. SumBelow(Claims(r)', NumPlayers) <= SumBelow(Claims(r), NumPlayers)
    BY <1>1, ClaimsAtMost
  <2> QED BY <2>1, <2>2, ClaimsNat, ClaimsNatNext, RoundTypes
<1> QED BY <1>1, WithinIs

LEMMA SameClaimable ==
  ASSUME TypeOK, NEW q \in Player, miner'[q] = miner[q],
         escrow'[q].last_claimed_round = escrow[q].last_claimed_round
  PROVE  \A r \in RoundId : Claimable(q, r)' <= Claimable(q, r)
<1>1. \A r \in RoundId : Claimable(q, r)' = Claimable(q, r)
  BY DEF Claimable, Unclaimed
<1> QED BY <1>1, ClaimableNat

LEMMA ClaimWithin ==
  ASSUME Order, Order', ClaimsWithinPot, NEW p \in Player, NEW r \in RoundId, Claim(p, r)
  PROVE  ClaimsWithinPot'
<1>1. TypeOK /\ TypeOK'
  BY DEF Order
<1>2. /\ round[r].state = "claimable" /\ miner[p].round_id = r
      /\ Unclaimed(escrow[p], r)
      /\ Rounds(r, "claimable", round[r].pot, round[r].claimed + miner[p].staked)
      /\ \A q \in Player : q # p => escrow'[q] = escrow[q]
      /\ escrow'[p].last_claimed_round = r
      /\ UNCHANGED miner
  BY <1>1, ClaimEffect DEF Escrows
<1>3. \A q \in Player, o \in RoundId : q # p => Claimable(q, o)' = Claimable(q, o)
  BY <1>2 DEF Claimable
<1>4. Claimable(p, r) = miner[p].staked /\ Claimable(p, r)' = 0
  BY <1>2, RoundIds DEF Claimable, Unclaimed
<1>5. \A o \in RoundId : o # r => Claimable(p, o) = 0 /\ Claimable(p, o)' = 0
  BY <1>2 DEF Claimable
<1>6. SumBelow(Claims(r)', NumPlayers) = SumBelow(Claims(r), NumPlayers) - miner[p].staked
  <2> DEFINE f == Claims(r)
             g == Claims(r)'
  <2>1. \A q \in Player : /\ f[q] \in Nat /\ g[q] \in Nat
                          /\ q # p => g[q] = f[q]
    BY <1>1, <1>3, ClaimableNat, ClaimableNatNext DEF Claims
  <2>2. f[p] = miner[p].staked /\ g[p] = 0
    BY <1>4 DEF Claims
  <2>3. SumBelow(f, NumPlayers) \in Nat
    BY <1>1, ClaimsNat
  <2> HIDE DEF f, g
  <2>4. SumBelow(g, NumPlayers) = SumBelow(f, NumPlayers) - f[p] + g[p]
    BY <2>1, PlayerSum
  <2>5. SumBelow(g, NumPlayers) = SumBelow(f, NumPlayers) - miner[p].staked
    BY <1>1, <2>2, <2>3, <2>4, FieldTypes
  <2> QED BY <2>5 DEF f, g
<1>7. ASSUME NEW o \in RoundId, round'[o].state = "claimable"
      PROVE  round'[o].claimed + SumBelow(Claims(o)', NumPlayers) <= round'[o].pot
  <2>1. CASE o = r
    <3>1. round[r].claimed + SumBelow(Claims(r), NumPlayers) <= round[r].pot
      BY <1>2, WithinIs
    <3>2. /\ round'[r].claimed = round[r].claimed + miner[p].staked
          /\ round'[r].pot = round[r].pot
      BY <1>2 DEF Rounds
    <3>3. SumBelow(Claims(r), NumPlayers) \in Nat
      BY <1>1, ClaimsNat
    <3> QED BY <1>1, <1>6, <2>1, <3>1, <3>2, <3>3, FieldTypes, RoundTypes
  <2>2. CASE o # r
    <3>1. \A q \in Player : Claimable(q, o)' <= Claimable(q, o)
      BY <1>1, <1>3, <1>5, <2>2, ClaimableNat
    <3>2. SumBelow(Claims(o)', NumPlayers) <= SumBelow(Claims(o), NumPlayers)
      BY <1>1, <3>1, ClaimsAtMost
    <3>3. round'[o] = round[o]
      BY <1>2, <2>2 DEF Rounds
    <3>4. round[o].claimed + SumBelow(Claims(o), NumPlayers) <= round[o].pot
      BY <1>7, <3>3, WithinIs
    <3> QED BY <1>1, <3>2, <3>3, <3>4, ClaimsNat, ClaimsNatNext, RoundTypes
  <2> QED BY <2>1, <2>2
<1> QED BY <1>7, WithinIs

(* The swap turns what is held into what can be claimed. *)
LEMMA SwapWithin ==
  ASSUME Order, Order', PotsCover, ClaimsWithinPot, NEW r \in RoundId, ExecuteSwap(r)
  PROVE  ClaimsWithinPot'
<1>1. TypeOK /\ TypeOK' /\ RoundsInOrder
  BY DEF Order
<1>2. /\ round[r].state = "settled"
      /\ Rounds(r, "claimable", round[r].pot, round[r].claimed)
      /\ UNCHANGED <<miner, escrow>>
  BY <1>1, SwapEffect
<1>3. \A q \in Player, o \in RoundId : Claimable(q, o)' = Claimable(q, o)
  BY <1>2 DEF Claimable
<1>4. round[r].claimed = 0 /\ SumBelow(Held(r), NumPlayers) <= round[r].pot
  BY <1>1, <1>2 DEF RoundsInOrder, OneLive, PotsCover, Unswapped
<1>5. SumBelow(Claims(r), NumPlayers) <= SumBelow(Held(r), NumPlayers)
  <2>1. \A i \in 0..NumPlayers-1 : /\ Claims(r)[i] \in Int /\ Held(r)[i] \in Int
                                   /\ Claims(r)[i] <= Held(r)[i]
    BY <1>1, ClaimableNat, StakeInNat, Indices DEF Claims, Held
  <2> QED BY <2>1, SumMono, Indices
<1>6. ASSUME NEW o \in RoundId, round'[o].state = "claimable"
      PROVE  round'[o].claimed + SumBelow(Claims(o)', NumPlayers) <= round'[o].pot
  <2>1. SumBelow(Claims(o)', NumPlayers) <= SumBelow(Claims(o), NumPlayers)
    BY <1>1, <1>3, ClaimableNat, ClaimsAtMost
  <2>2. CASE o = r
    <3>1. /\ round'[r].claimed = 0 /\ round'[r].pot = round[r].pot
      BY <1>2, <1>4 DEF Rounds
    <3> QED BY <1>1, <1>4, <1>5, <2>1, <2>2, <3>1, ClaimsNat, ClaimsNatNext, HeldNat, RoundTypes
  <2>3. CASE o # r
    <3>1. round'[o] = round[o]
      BY <1>2, <2>3 DEF Rounds
    <3>2. round[o].claimed + SumBelow(Claims(o), NumPlayers) <= round[o].pot
      BY <1>6, <3>1, WithinIs
    <3> QED BY <1>1, <2>1, <3>1, <3>2, ClaimsNat, ClaimsNatNext, RoundTypes
  <2> QED BY <2>2, <2>3
<1> QED BY <1>6, WithinIs

LEMMA StepWithin ==
  ASSUME Order, Order', PotsCover, ClaimsWithinPot, [ClientNext]_vars
  PROVE  ClaimsWithinPot'
<1>0. TypeOK /\ TypeOK' /\ RoundsInOrder /\ LocksInOrder
  BY DEF Order
<1>1. ASSUME UNCHANGED <<round, miner>>,
             \A q \in Player : escrow'[q].last_claimed_round = escrow[q].last_claimed_round
      PROVE  ClaimsWithinPot'
  BY <1>0, <1>1, SameClaimable, WithinKept
<1>2. ASSUME NEW p \in Player, NEW a \in Amounts, Deposit(p, a) \/ Withdraw(p, a)
      PROVE  ClaimsWithinPot'
  BY <1>0, <1>1, <1>2, DepositEffect, WithdrawEffect DEF Escrows
<1>3. ASSUME NEW p \in Player, NEW r \in RoundId, Refund(p, r)
      PROVE  ClaimsWithinPot'
  BY <1>0, <1>1, <1>3, RefundEffect DEF Escrows
<1>4. ASSUME NEW p \in Player, CommitMiner(p) \/ ReconcileMiner(p) \/ Refresh(p)
      PROVE  ClaimsWithinPot'
  BY <1>0, <1>1, <1>4, CommitEffect, ReconcileEffect, RefreshEffect DEF Escrows
<1>5. ASSUME NEW p \in Player, Enter(p)
      PROVE  ClaimsWithinPot'
  <2>1. /\ \A q \in Player : q # p => miner'[q] = miner[q] /\ escrow'[q] = escrow[q]
        /\ miner'[p].staked = 0 /\ UNCHANGED round
    BY <1>0, <1>5, EnterEffect DEF Escrows
  <2>2. ASSUME NEW q \in Player, NEW r \in RoundId
        PROVE  Claimable(q, r)' <= Claimable(q, r)
    <3>1. CASE q = p
      BY <1>0, <2>1, <3>1, ClaimableNat DEF Claimable
    <3>2. CASE q # p
      BY <1>0, <2>1, <3>2, SameClaimable
    <3> QED BY <3>1, <3>2
  <2> QED BY <1>0, <2>1, <2>2, WithinKept
<1>6. ASSUME NEW p \in Player, NEW r \in RoundId, NEW a \in Amounts, Stake(p, r, a)
      PROVE  ClaimsWithinPot'
  <2>1. /\ \A q \in Player : q # p => miner'[q] = miner[q]
        /\ miner'[p].round_id = r /\ UNCHANGED escrow
        /\ Rounds(r, "open", round[r].pot + a, round[r].claimed)
    BY <1>0, <1>6, StakeEffect
  <2>2. ASSUME NEW q \in Player, NEW o \in RoundId, round'[o].state = "claimable"
        PROVE  Claimable(q, o)' <= Claimable(q, o)
    <3>1. CASE q = p
      <4>1. o # r
        BY <2>1, <2>2 DEF Rounds
      <4>2. Claimable(p, o)' = 0
        BY <2>1, <4>1 DEF Claimable
      <4> QED BY <1>0, <3>1, <4>2, ClaimableNat
    <3>2. CASE q # p
      BY <1>0, <2>1, <3>2, SameClaimable
    <3> QED BY <3>1, <3>2
  <2>3. \A o \in RoundId : round'[o].state = "claimable" => round'[o] = round[o]
    BY <2>1 DEF Rounds
  <2> QED BY <1>0, <2>2, <2>3, WithinKept
<1>7. ASSUME NEW r \in RoundId, NEW st, NEW pot, NEW claimed, Rounds(r, st, pot, claimed),
             UNCHANGED <<miner, escrow>>, st # "claimable"
      PROVE  ClaimsWithinPot'
  BY <1>0, <1>7, SameClaimable, WithinKept DEF Rounds
<1>8. ASSUME NEW r \in RoundId, Settle(r) \/ RequestSettle(r) \/ SettleCallback(r)
      PROVE  ClaimsWithinPot'
  BY <1>0, <1>7, <1>8, DrawEffect DEF Unswapped
<1>9. ASSUME NEW r \in RoundId, CancelRound(r) \/ CloseRound(r)
      PROVE  ClaimsWithinPot'
  BY <1>0, <1>7, <1>9, CancelEffect, CloseEffect
<1>10. CASE CreateRound
  BY <1>0, <1>7, <1>10, CreateEffect
<1>11. CASE UNCHANGED <<round, miner, escrow>>
  BY <1>1, <1>11
<1> QED
  BY <1>2, <1>3, <1>4, <1>5, <1>6, <1>8, <1>9, <1>10, <1>11, ClaimWithin, SwapWithin,
     ClientSteps DEF DeadlinePasses

LEMMA InitWithin == Init => ClaimsWithinPot
  BY DEF Init, ClaimsWithinPot, NoRound

-----------------------------------------------------------------------------
(* The books of the escrow game *)

Books == Order /\ PotsCover /\ EscrowBacked /\ ClaimsWithinPot

LEMMA InitBooks == Init => Books
  BY InitOrder, InitCover, InitBacked, InitWithin DEF Books

LEMMA StepBooks == Books /\ [ClientNext]_vars => Books'
  BY StepOrder, StepCover, StepBacked, StepWithin DEF Books

(* The commingled vault backs every balance, the live pot less what is     *)
(* still to be debited, and every refund to come, in every order of        *)
(* stakes, commits, debits, cancels, refunds and swaps.                    *)
THEOREM VaultBacksEscrows == ClientSpec => []EscrowBacked
<1>1. Books => EscrowBacked
  BY DEF Books
<1> QED BY <1>1, InitBooks, StepBooks, PTL DEF ClientSpec

(* However claims of several rounds follow one another, what has been and  *)
(* what still can be claimed of a round is never more than its pot.        *)
THEOREM ClaimsFitThePot == ClientSpec => []ClaimsWithinPot
<1>1. Books => ClaimsWithinPot
  BY DEF Books
<1> QED BY <1>1, InitBooks, StepBooks, PTL DEF ClientSpec

(* A round without anybody locked in it has no debts to come, and its pot  *)
(* is part of the live pot.                                                *)
LEMMA BooksOpenGate == Books => SwapGateOpens
<1>1. ASSUME Books PROVE SwapGateOpens
  <2> SUFFICES ASSUME NEW r \in RoundId, round[r].state = "settled",
                      \A p \in Player : escrow[p].active_round # r
               PROVE  pot_vault >= config.total_escrow_balance + round[r].pot
    BY DEF SwapGateOpens
  <2>1. TypeOK /\ RoundsInOrder
    BY <1>1 DEF Books, Order
  <2>2. r = current
    BY <2>1 DEF RoundsInOrder, OneLive, Unswapped
  <2>3. Debts = 0
    <3>1. \A p \in Player : Unreconciled(p) = 0
      BY <2>1, <2>2, UnreconciledMeans
    <3>2. \A i \in 0..NumPlayers-1 : Owed[i] = 0
      BY <3>1, Indices DEF Owed
    <3> QED BY <3>2, SumZeros, Indices DEF Debts
  <2>4. round[r].pot <= LivePot
    <3>1. \A i \in 0..(MaxRounds + 1) - 1 : Live[i] \in Nat
      BY <2>1, PartsNat, Indices
    <3>2. Live[r] = round[r].pot
      BY DEF Live, Unswapped
    <3>3. Live[r] <= SumBelow(Live, MaxRounds + 1)
      BY <3>1, SumMember, Indices
    <3> QED BY <3>2, <3>3 DEF LivePot, Live
  <2>5. pot_vault + Debts >= config.total_escrow_balance + LivePot + Refunds
    BY <1>1, BackedIs DEF Books
  <2> QED BY <2>1, <2>3, <2>4, <2>5, SumsNat, RoundTypes, ConfigTypes
<1> QED BY <1>1

(* Once nobody is locked in a settled round, the vault passes the gate of  *)
(* its swap: a round whose players are all let go cannot be stuck on it.   *)
THEOREM SwapsAreNotStuck == ClientSpec => []SwapGateOpens
  BY BooksOpenGate, InitBooks, StepBooks, PTL DEF ClientSpec
=============================================================================
