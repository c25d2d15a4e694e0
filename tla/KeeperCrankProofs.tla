-------------------------- MODULE KeeperCrankProofs --------------------------
(***************************************************************************)
(* What holds of the escrow game run by the keeper, for every number of    *)
(* players, rounds and failures.  The game's books (EscrowGameBooks) hold  *)
(* here too: each step of the keeper is one of the game's as its clients   *)
(* use it, or a direct stake, and every order of reads, lost answers and   *)
(* restarts is covered.  On top of them, the keeper brings every position  *)
(* home before its round.                                                  *)
(***************************************************************************)
EXTENDS MCEscrowGame, EscrowGameBooks

-----------------------------------------------------------------------------
(* The start: everybody has deposited *)

LEMMA SumConst ==
  ASSUME NEW f, NEW c \in Nat, NEW n \in Nat, \A i \in 0..n-1 : f[i] = c
  PROVE  SumBelow(f, n) = n * c
<1> DEFINE S == {m \in Nat : m <= n => SumBelow(f, m) = m * c}
<1>1. 0 \in S
  BY SumZero
<1>2. ASSUME NEW m \in Nat, m \in S PROVE m + 1 \in S
  <2>1. CASE m + 1 <= n
    <3>1. m \in 0..n-1 /\ m <= n
      BY <2>1
    <3>2. SumBelow(f, m + 1) = SumBelow(f, m) + f[m]
      BY SumStep
    <3>3. (m + 1) * c = m * c + c
      OBVIOUS
    <3> QED BY <1>2, <3>1, <3>2, <3>3
  <2>2. CASE ~ (m + 1 <= n)
    BY <2>2
  <2> QED BY <2>1, <2>2
<1>3. n \in S
  BY <1>1, <1>2, NatSetInduction
<1> QED BY <1>3

LEMMA DepositedTypes ==
  ASSUME Deposited
  PROVE  /\ TypeOK
         /\ \A p \in Player : /\ escrow[p].balance = MaxBalance
                              /\ escrow[p].active_round = 0
                              /\ escrow[p].reconciled_round = 0
                              /\ clone[p].active_round = 0
                              /\ miner[p].round_id = 0 /\ miner[p].staked = 0
         /\ \A r \in RoundId : round[r].state = "absent"
<1>1. /\ NumPlayers * MaxBalance \in Nat /\ MaxBalance \in Nat
  BY EscrowSizes
<1>2. \A p \in Player : /\ escrow[p] = [NoEscrow EXCEPT !.balance = MaxBalance]
                        /\ clone[p] = Shown(escrow[p])
  BY DEF Deposited
<1>3. [NoEscrow EXCEPT !.balance = MaxBalance] \in EscrowType
  BY <1>1, RoundIds DEF NoEscrow, EscrowType
<1>4. \A e \in EscrowType : Shown(e) \in ShownType
  BY DEF EscrowType, Shown, ShownType
<1>5. escrow \in [Player -> EscrowType] /\ clone \in [Player -> ShownType]
  BY <1>2, <1>3, <1>4 DEF Deposited
<1>6. config \in ConfigType /\ round \in [RoundId -> RoundType]
      /\ miner \in [Player -> PositionType]
  BY <1>1, RoundIds, NoRoundType DEF Deposited, ConfigType, PositionType
<1>7. TypeOK
  BY <1>1, <1>5, <1>6 DEF Deposited, TypeOK
<1> QED
  BY <1>2, <1>7 DEF Deposited, NoEscrow, NoRound, Shown

LEMMA DepositedOrder == Deposited => Order
<1> SUFFICES ASSUME Deposited PROVE Order
  OBVIOUS
<1>1. config.current_round_id = 0 /\ ended = {} /\ rounds_away = {} /\ miners_away = {}
  BY DEF Deposited
<1>2. RoundsInOrder
  BY <1>1, RoundIds, DepositedTypes
  DEF RoundsInOrder, OneLive, NoneAhead, DrawnLate, CursorsBehind, current, Unswapped
<1>3. LocksInOrder
  BY <1>1, DepositedTypes DEF LocksInOrder, Locked, DebitedLate, CloneSafe
<1>4. BudgetHolds
  BY EscrowSizes, DepositedTypes DEF BudgetHolds, Unreconciled
<1> QED BY <1>2, <1>3, <1>4, DepositedTypes DEF Order

LEMMA DepositedBooks == Deposited => Books
<1> SUFFICES ASSUME Deposited PROVE Books
  OBVIOUS
<1>1. PotsCover /\ ClaimsWithinPot
  BY DepositedTypes DEF PotsCover, ClaimsWithinPot, Unswapped
<1>2. \A q \in Player : Balances[q] = MaxBalance /\ Owed[q] = 0 /\ Back[q] = 0
  BY RoundIds, DepositedTypes DEF Balances, Owed, Back, Unreconciled, Recoverable
<1>3. Balance = NumPlayers * MaxBalance
  <2>1. \A i \in 0..NumPlayers-1 : Balances[i] = MaxBalance
    BY <1>2, Indices
  <2> QED BY <2>1, SumConst, Indices, EscrowSizes DEF Balance
<1>4. Debts = 0 /\ Refunds = 0
  <2>1. \A i \in 0..NumPlayers-1 : Owed[i] = 0 /\ Back[i] = 0
    BY <1>2, Indices
  <2> QED BY <2>1, SumZeros, Indices DEF Debts, Refunds
<1>5. LivePot = 0
  <2>1. \A i \in 0..(MaxRounds + 1) - 1 : Live[i] = 0
    BY Indices, DepositedTypes DEF Live, Unswapped
  <2>2. LivePot = SumBelow(Live, MaxRounds + 1)
    BY DEF LivePot, Live
  <2> QED BY <2>1, <2>2, SumZeros, Indices
<1>6. /\ config.total_escrow_balance = NumPlayers * MaxBalance
      /\ pot_vault = NumPlayers * MaxBalance
      /\ NumPlayers * MaxBalance \in Nat
  BY EscrowSizes DEF Deposited
<1>7. EscrowBacked
  BY <1>3, <1>4, <1>5, <1>6, BackedIs
<1> QED BY <1>1, <1>7, DepositedOrder DEF Books

-----------------------------------------------------------------------------
(* A direct stake, to these books a pot that grows *)

LEMMA DirectEffect ==
  ASSUME TypeOK, NEW r \in RoundId, NEW a \in Amounts, StakeDirect(r, a)
  PROVE  /\ a \in Nat /\ round[r].state = "open"
         /\ Rounds(r, "open", round[r].pot + a, round[r].claimed)
         /\ pot_vault' = pot_vault + a
         /\ UNCHANGED <<config, ended, miner, escrow, clone, rounds_away, miners_away>>
         /\ TypeOK'
<1>1. a \in Nat /\ round[r].pot + a \in Nat /\ pot_vault + a \in Nat
  BY EscrowAmounts, RoundTypes, ConfigTypes
<1>2. Rounds(r, "open", round[r].pot + a, round[r].claimed)
  BY RoundTypes DEF StakeDirect, TypeOK, RoundType, Rounds
<1>3. round' \in [RoundId -> RoundType]
  BY <1>1, RoundFields DEF StakeDirect, TypeOK
<1> QED BY <1>1, <1>2, <1>3 DEF StakeDirect, TypeOK

LEMMA DirectBooks ==
  ASSUME Books, NEW r \in RoundId, NEW a \in Amounts, StakeDirect(r, a)
  PROVE  Books'
<1>1. TypeOK /\ RoundsInOrder /\ LocksInOrder
  BY DEF Books, Order
<1>2. /\ a \in Nat /\ round[r].state = "open"
      /\ Rounds(r, "open", round[r].pot + a, round[r].claimed)
      /\ pot_vault' = pot_vault + a
      /\ UNCHANGED <<config, ended, miner, escrow, clone, rounds_away, miners_away>>
      /\ TypeOK'
  BY <1>1, DirectEffect
<1>3. \A o \in RoundId : round'[o].state = round[o].state /\ round'[o].claimed = round[o].claimed
  BY <1>2 DEF Rounds
<1>4. RoundsInOrder'
  BY <1>1, <1>2, <1>3, RoundIds
  DEF RoundsInOrder, OneLive, NoneAhead, DrawnLate, CursorsBehind, current
<1>5. LocksInOrder'
  BY <1>1, <1>2 DEF LocksInOrder, Locked, DebitedLate, CloneSafe
<1>6. \A q \in Player : /\ Unreconciled(q)' = Unreconciled(q)
                        /\ Recoverable(q)' = Recoverable(q)
                        /\ \A o \in RoundId : StakeIn(q, o)' = StakeIn(q, o)
  BY <1>1, <1>2, <1>3, FieldTypes DEF Unreconciled, Recoverable, StakeIn
<1>7. BudgetHolds'
  BY <1>2, <1>6 DEF Books, Order, BudgetHolds
<1>8. PotsCover'
  <2>1. ASSUME NEW o \in RoundId, round'[o].state \in Unswapped
        PROVE  SumBelow(Held(o)', NumPlayers) <= round'[o].pot
    <3>1. SumBelow(Held(o)', NumPlayers) <= SumBelow(Held(o), NumPlayers)
      BY <1>1, <1>2, <1>6, StakeInNat, HeldAtMost
    <3>2. SumBelow(Held(o), NumPlayers) <= round[o].pot
      BY <1>3, <2>1 DEF Books, PotsCover
    <3>3. round[o].pot <= round'[o].pot /\ round'[o].pot \in Nat /\ round[o].pot \in Nat
      BY <1>1, <1>2, RoundTypes DEF Rounds
    <3> QED BY <1>1, <1>2, <3>1, <3>2, <3>3, HeldNat, HeldNatNext
  <2> QED BY <2>1 DEF PotsCover
<1>9. EscrowBacked'
  <2>1. Balance' = Balance /\ Debts' = Debts
    BY <1>2, <1>6, BalanceSame, DebtsSame
  <2>2. Refunds' <= Refunds
    BY <1>1, <1>2, <1>6, RecoverableNat, RefundsAtMost
  <2>3. LivePot' = LivePot + a
    <3>1. Live[r] = round[r].pot /\ Live'[r] = round[r].pot + a
      BY <1>2 DEF Live, Rounds, Unswapped
    <3>2. LivePot' = LivePot - Live[r] + Live'[r]
      BY <1>1, <1>2, LivePotAt DEF Rounds
    <3> QED BY <1>1, <1>2, <3>1, <3>2, SumsNat, RoundTypes
  <2>4. /\ Balance' = Balance + 0
        /\ config'.total_escrow_balance = config.total_escrow_balance + 0
        /\ Debts' - Debts + a >= 0 + (LivePot' - LivePot) + (Refunds' - Refunds)
    BY <1>1, <1>2, <2>1, <2>2, <2>3, SumsNat, SumsNatNext, ConfigTypes
  <2> QED BY <1>1, <1>2, <2>4, BackedFrom DEF Books
<1>10. ClaimsWithinPot'
  <2>1. \A q \in Player, o \in RoundId : Claimable(q, o)' <= Claimable(q, o)
    BY <1>1, <1>2, SameClaimable
  <2>2. \A o \in RoundId : round'[o].state = "claimable" => round'[o] = round[o]
    BY <1>2, <1>3 DEF Rounds
  <2> QED BY <1>1, <1>2, <2>1, <2>2, WithinKept DEF Books
<1> QED BY <1>2, <1>4, <1>5, <1>7, <1>8, <1>9, <1>10 DEF Books, Order

-----------------------------------------------------------------------------
(* What the keeper holds to be true *)

ViewType == [state: Unswapped \cup {"null", "claimable", "closed"},
             delegated: BOOLEAN, pot: Nat, past: BOOLEAN]
SeenType == [finalized: BOOLEAN, current: RoundId, round: ViewType]

MemoryType ==
  /\ pc # "off"
  /\ seen \in SeenType
  /\ todo \subseteq Player
  /\ allReady \in BOOLEAN

(* From the decision on, a tick that brings players or lamports back works *)
(* on a round whose deadline is past: nobody can join it any more.         *)
Closing == {"joined", "miners", "round", "roster", "reconcile"}
Over(r) == r # 0 /\ r \in ended

SeenLate ==
  /\ pc = "decide" => (seen.round.past \/ seen.round.state = "settled" => Over(seen.current))
  /\ pc \in Closing => Over(seen.current)

(* Who is still to be brought back is on the list, or the tick knows that  *)
(* somebody failed; who is still locked is on the list of debits.          *)
RosterKept ==
  /\ pc \in {"miners", "round"} =>
        \A p \in Player : p \in miners_away /\ escrow[p].active_round = seen.current
                             => p \in todo \/ ~ allReady
  /\ pc = "round" => todo = {} /\ allReady
  /\ pc = "reconcile" => \A p \in Player : escrow[p].active_round = seen.current => p \in todo

AwayExists == \A r \in rounds_away : round[r].state # "absent"

Memory  == MemoryType /\ SeenLate /\ RosterKept
Homing  == AwayExists /\ MinersHomeFirst
KeeperInv == Memory /\ Homing

memory == <<pc, seen, todo, allReady>>

-----------------------------------------------------------------------------
(* Steps of the game that let nobody in and take no round home *)

Calm ==
  /\ ended \subseteq ended'
  /\ rounds_away \subseteq rounds_away'
  /\ miners_away' \subseteq miners_away
  /\ \A p \in Player : escrow'[p].active_round \in {0, escrow[p].active_round}
  /\ AwayExists'

LEMMA StutterCalm == AwayExists /\ UNCHANGED vars => Calm
  BY DEF vars, AwayExists, Calm

LEMMA PlayCalm ==
  ASSUME TypeOK, AwayExists, NEW p \in Player, Plays(p)
  PROVE  Calm
<1>1. ASSUME NEW r \in RoundId, NEW a \in Amounts, Stake(p, r, a) PROVE Calm
  BY <1>1, StakeEffect DEF AwayExists, Calm, Rounds, TypeOK
<1>2. ASSUME NEW r \in RoundId, Claim(p, r) PROVE Calm
  BY <1>2, ClaimEffect DEF AwayExists, Calm, Rounds, Escrows, TypeOK
<1>3. ASSUME NEW r \in RoundId, Refund(p, r) PROVE Calm
  BY <1>3, RefundEffect DEF AwayExists, Calm, Escrows
<1> QED BY <1>1, <1>2, <1>3 DEF Plays

LEMMA MinerCalm ==
  ASSUME TypeOK, AwayExists, NEW p \in Player, CommitMiner(p) \/ ReconcileMiner(p) \/ Refresh(p)
  PROVE  Calm
<1>1. CASE CommitMiner(p)
  BY <1>1, CommitEffect DEF AwayExists, Calm
<1>2. CASE ReconcileMiner(p)
  BY <1>2, ReconcileEffect DEF AwayExists, Calm, Escrows
<1>3. CASE Refresh(p)
  BY <1>3, RefreshEffect DEF AwayExists, Calm
<1> QED BY <1>1, <1>2, <1>3

(* The accounts of a round on the rollup are not reaped: L1 refuses.       *)
LEMMA NotReapedAway ==
  ASSUME NEW r \in RoundId, CloseRound(r)
  PROVE  r \notin rounds_away
  BY DEF CloseRound, OnL1, Program!RunsOnL1, Away, Program!closeRound

LEMMA RoundCalm ==
  ASSUME TypeOK, AwayExists, NEW r \in RoundId,
         \/ CreateRound \/ DelegateRound(r) \/ CloseRound(r) \/ DeadlinePasses(r)
         \/ RequestSettle(r) \/ SettleCallback(r) \/ CancelRound(r) \/ ExecuteSwap(r)
         \/ \E a \in Amounts : StakeDirect(r, a)
  PROVE  Calm
<1>0. rounds_away \subseteq RoundId
  BY DEF TypeOK
<1>1. CASE CreateRound
  <2>1. PICK id \in RoundId : /\ Rounds(id, "open", 0, 0)
                              /\ UNCHANGED <<ended, escrow, rounds_away, miners_away>>
    BY <1>1, CreateEffect
  <2> QED BY <1>0, <2>1 DEF AwayExists, Calm, Rounds
<1>2. CASE DelegateRound(r)
  BY <1>2 DEF DelegateRound, AwayExists, Calm
<1>3. CASE CloseRound(r)
  BY <1>0, <1>3, CloseEffect, NotReapedAway DEF AwayExists, Calm, Rounds
<1>4. CASE DeadlinePasses(r)
  BY <1>4 DEF DeadlinePasses, AwayExists, Calm
<1>5. CASE RequestSettle(r) \/ SettleCallback(r)
  <2>1. PICK st \in Unswapped : Rounds(r, st, round[r].pot, round[r].claimed)
    BY <1>5, DrawEffect
  <2>2. UNCHANGED <<ended, escrow, rounds_away, miners_away>>
    BY <1>5, DrawEffect
  <2> QED BY <1>0, <2>1, <2>2 DEF AwayExists, Calm, Rounds, Unswapped
<1>6. CASE CancelRound(r)
  BY <1>0, <1>6, CancelEffect DEF AwayExists, Calm, Rounds
<1>7. CASE ExecuteSwap(r)
  BY <1>0, <1>7, SwapEffect DEF AwayExists, Calm, Rounds
<1>8. ASSUME NEW a \in Amounts, StakeDirect(r, a) PROVE Calm
  BY <1>0, <1>8, DirectEffect DEF AwayExists, Calm, Rounds
<1> QED BY <1>1, <1>2, <1>3, <1>4, <1>5, <1>6, <1>7, <1>8

LEMMA CalmHoming ==
  ASSUME TypeOK, MinersHomeFirst, Calm
  PROVE  Homing'
  BY DEF MinersHomeFirst, Calm, Homing

(* The keeper waits while others move. *)
LEMMA CalmWaiting ==
  ASSUME Memory, Calm, UNCHANGED memory
  PROVE  Memory'
<1>1. MemoryType' /\ SeenLate'
  BY DEF Memory, MemoryType, SeenLate, Over, Calm, memory
<1>2. ASSUME NEW p \in Player, pc \in Closing, escrow'[p].active_round = seen.current
      PROVE  escrow[p].active_round = seen.current
  BY <1>2 DEF Memory, SeenLate, Over, Calm
<1>3. RosterKept'
  BY <1>2 DEF Memory, RosterKept, Closing, Calm, memory
<1> QED BY <1>1, <1>3 DEF Memory

(* The tick is over, or holds no round to be brought back. *)
LEMMA Resting ==
  ASSUME Memory, UNCHANGED <<seen, todo, allReady>>,
         pc' \notin Closing \cup {"off", "decide"}
  PROVE  Memory'
  BY DEF Memory, MemoryType, SeenLate, RosterKept, Closing

-----------------------------------------------------------------------------
(* The keeper's sends *)

Sends == Create \/ Delegate \/ Request \/ Cancel \/ CommitBack \/ Swap \/ CallFails \/ Crash

LEMMA SendsRest ==
  ASSUME Memory, Sends
  PROVE  Memory'
<1>1. pc' \in {"sleep", "delegate"} /\ UNCHANGED <<seen, todo, allReady>>
  BY DEF Sends, Create, Delegate, Request, Cancel, CommitBack, Swap, CallFails, Crash,
         Send, Lost, Moves, Throw, TickDone
<1> QED BY <1>1, Resting DEF Closing

(* What may become of a send on chain: it is taken, or nothing happens.    *)
LEMMA SendsDo ==
  ASSUME Sends
  PROVE  \/ UNCHANGED vars
         \/ CreateRound \/ DelegateRound(seen.current + 1)
         \/ RequestSettle(seen.current) \/ CancelRound(seen.current)
         \/ pc = "round" /\ CommitRound(seen.current)
         \/ \E p \in todo : ReconcileMiner(p)
         \/ pc = "reconcile" /\ todo = {} /\ ExecuteSwap(seen.current)
<1> USE DEF Send, Lost, chain
<1>1. CASE Create \/ Delegate
  BY <1>1 DEF Create, Delegate, CreateTx, DelegateTx
<1>2. CASE Request \/ Cancel
  BY <1>2 DEF Request, Cancel, RequestTx, CancelTx
<1>3. CASE CommitBack
  BY <1>3 DEF CommitBack, CommitRoundTx
<1>4. CASE Swap
  BY <1>4 DEF Swap, SwapTx, Reconciled
<1>5. CASE CallFails
  BY <1>5 DEF CallFails, CreateTx, DelegateTx, RequestTx, CancelTx, CommitRoundTx, SwapTx,
              Reconciled
<1>6. CASE Crash
  BY <1>6 DEF Crash
<1> QED BY <1>1, <1>2, <1>3, <1>4, <1>5, <1>6 DEF Sends

-----------------------------------------------------------------------------
(* The keeper's reads and its work through the roster *)

LEMMA Quiet ==
  ASSUME UNCHANGED chain, Homing
  PROVE  Homing'
  BY DEF chain, vars, Homing, AwayExists, MinersHomeFirst

LEMMA ReadsMemory ==
  ASSUME TypeOK, RoundsInOrder, Memory, ReadConfig \/ ReadRound
  PROVE  Memory' /\ UNCHANGED chain
<1>1. CASE ReadConfig
  <2>1. pc' = "config" /\ UNCHANGED <<chain, todo, allReady>>
    BY <1>1 DEF ReadConfig, Ticking
  <2>2. seen' \in SeenType
    BY <1>1, ConfigTypes DEF ReadConfig, Memory, MemoryType, SeenType
  <2> QED BY <2>1, <2>2 DEF Memory, MemoryType, SeenLate, RosterKept, Closing
<1>2. CASE ReadRound
  <2>1. pc' = "decide" /\ UNCHANGED <<chain, todo, allReady>>
    BY <1>2 DEF ReadRound, Ticking
  <2>2. PICK v : /\ seen' = [seen EXCEPT !.round = v]
                 /\ v = RoundView(seen.current) \/ v = NoRoundView
    BY <1>2 DEF ReadRound
  <2>3. seen.current \in RoundId /\ seen \in SeenType
    BY DEF Memory, MemoryType, SeenType
  <2>4. v \in ViewType
    <3>1. NoRoundView \in ViewType
      BY DEF NoRoundView, ViewType
    <3>2. RoundView(seen.current) \in ViewType
      BY <2>3, <3>1, RoundTypes DEF RoundView, ViewType
    <3> QED BY <2>2, <3>1, <3>2
  <2>5. v.past \/ v.state = "settled" => Over(seen.current)
    <3>1. CASE v = NoRoundView
      BY <3>1 DEF NoRoundView
    <3>2. CASE v # NoRoundView
      <4>1. /\ seen.current # 0
            /\ v = [state |-> round[seen.current].state,
                    delegated |-> seen.current \in rounds_away,
                    pot |-> round[seen.current].pot, past |-> seen.current \in ended]
        BY <2>2, <3>2 DEF RoundView
      <4>2. v.past = (seen.current \in ended) /\ v.state = round[seen.current].state
        BY <4>1
      <4> QED BY <2>3, <4>1, <4>2 DEF Over, RoundsInOrder, DrawnLate
    <3> QED BY <3>1, <3>2
  <2>6. seen' \in SeenType /\ seen'.round = v /\ seen'.current = seen.current
    BY <2>2, <2>3, <2>4 DEF SeenType
  <2>7. ended' = ended
    BY <2>1 DEF chain, vars
  <2> QED
    BY <2>1, <2>5, <2>6, <2>7 DEF Memory, MemoryType, SeenLate, RosterKept, Closing, Over
<1> QED BY <1>1, <1>2

(* decide.ts sends a tick to the miners only past the deadline, and to the *)
(* debits only with the draw made.                                         *)
LEMMA Decisions ==
  ASSUME seen.round \in ViewType
  PROVE  LET d == decideAction(seen, Grace) IN
         /\ d \in {"idle", "create", "joined", "cancel", "request", "roster"}
         /\ d = "joined" => seen.round.past
         /\ d = "roster" => seen.round.state = "settled"
<1> DEFINE v == seen.round
           d == decideAction(seen, Grace)
<1>1. /\ v.state \in {"open", "vrf_pending", "settled", "null", "claimable", "closed"}
      /\ v.past \in BOOLEAN
  BY DEF ViewType, Unswapped
<1>2. WhilePending(Grace) \in {"cancel", "idle"}
  BY DEF WhilePending
<1>3. /\ WhenOpen(v) \in {"idle", "joined", "cancel", "request"}
      /\ WhenOpen(v) = "joined" => v.past
  BY <1>1 DEF WhenOpen
<1>4. \/ d = "create"
      \/ v.state = "open" /\ d = WhenOpen(v)
      \/ v.state = "vrf_pending" /\ d = WhilePending(Grace)
      \/ v.state = "settled" /\ d = "roster"
  BY <1>1 DEF decideAction
<1> HIDE DEF d
<1>5. /\ d \in {"idle", "create", "joined", "cancel", "request", "roster"}
      /\ d = "joined" => v.past
      /\ d = "roster" => v.state = "settled"
  BY <1>2, <1>3, <1>4
<1> QED BY <1>5 DEF d

LEMMA DecideMemory ==
  ASSUME Memory, Decide
  PROVE  Memory' /\ UNCHANGED chain
<1>1. seen.round \in ViewType
  BY DEF Memory, MemoryType, SeenType
<1>2. pc = "decide" /\ UNCHANGED <<chain, seen, todo, allReady>>
  BY DEF Decide
<1>3. ended' = ended
  BY <1>2 DEF chain, vars
<1>4. \/ pc' = "sleep"
      \/ pc' = decideAction(seen, Grace) /\ pc' # "idle"
  BY DEF Decide, TickDone
<1>5. pc' \in {"sleep", "create", "joined", "cancel", "request", "roster"}
  BY <1>1, <1>4, Decisions
<1>6. pc' \in {"joined", "roster"} => Over(seen.current)
  BY <1>1, <1>2, <1>4, Decisions DEF Memory, SeenLate
<1> QED
  BY <1>2, <1>3, <1>5, <1>6 DEF Memory, MemoryType, SeenLate, RosterKept, Closing, Over

LEMMA RosterMemory ==
  ASSUME Memory, ReadRoster("joined", "miners") \/ ReadRoster("roster", "reconcile")
  PROVE  Memory' /\ UNCHANGED chain
<1>1. /\ pc \in Closing /\ pc' \in {"miners", "reconcile"}
      /\ todo' = Joined(seen.current) /\ allReady' = TRUE
      /\ UNCHANGED <<chain, seen>>
  BY DEF ReadRoster, Ticking, Closing
<1>2. ended' = ended /\ escrow' = escrow
  BY <1>1 DEF chain, vars
<1> QED
  BY <1>1, <1>2 DEF Memory, MemoryType, SeenLate, RosterKept, Closing, Over, Joined

LEMMA MinersDoneMemory ==
  ASSUME Memory, MinersDone
  PROVE  Memory' /\ UNCHANGED chain
<1>1. /\ pc = "miners" /\ todo = {} /\ UNCHANGED <<chain, seen, todo, allReady>>
      /\ pc' = "sleep" \/ (pc' = "round" /\ allReady)
  <2>1. /\ pc = "miners" /\ todo = {} /\ UNCHANGED chain
        /\ Moves(IF allReady THEN "round" ELSE "sleep")
    BY DEF MinersDone, MinersAllHome
  <2>2. CASE allReady
    BY <2>1, <2>2 DEF Moves
  <2>3. CASE ~ allReady
    BY <2>1, <2>3 DEF Moves, TickDone
  <2> QED BY <2>2, <2>3
<1>2. ended' = ended /\ escrow' = escrow /\ miners_away' = miners_away
  BY <1>1 DEF chain, vars
<1> QED
  BY <1>1, <1>2 DEF Memory, MemoryType, SeenLate, RosterKept, Closing, Over

(* A miner leaves the list when it is home, or was never away for this     *)
(* round; else the tick remembers that it failed.                          *)
LEMMA CommitOneMemory ==
  ASSUME TypeOK, LocksInOrder, Memory, NEW p \in Player, CommitOne(p)
  PROVE  Memory'
<1>1. pc = "miners" /\ UNCHANGED <<pc, seen>> /\ todo' = todo \ {p}
  BY Zenon DEF CommitOne, DidCommit
<1>2. CommitMiner(p) \/ UNCHANGED chain
  BY Zenon DEF CommitOne
<1>3. ended' = ended /\ escrow' = escrow /\ miners_away' \subseteq miners_away
  BY <1>2, CommitEffect DEF chain, vars
<1>4. \/ allReady' = FALSE
      \/ /\ allReady' = allReady
         /\ ~ (p \in miners_away' /\ escrow[p].active_round = seen.current)
  <2>1. CASE DidCommit(p, TRUE) /\ CommitMiner(p)
    <3>1. p \notin miners_away'
      BY <2>1, CommitEffect
    <3>2. allReady' = (allReady /\ TRUE)
      BY <2>1 DEF DidCommit
    <3> QED BY <3>1, <3>2 DEF Memory, MemoryType
  <2>2. CASE DidCommit(p, TRUE) /\ Skipped(p)
    <3>1. ~ (p \in miners_away /\ escrow[p].active_round = seen.current)
      BY <1>1, <2>2 DEF Skipped, LocksInOrder, Locked, Memory, SeenLate, Over, Closing
    <3>2. allReady' = (allReady /\ TRUE)
      BY <2>2 DEF DidCommit
    <3> QED BY <1>3, <3>1, <3>2 DEF Memory, MemoryType
  <2>3. CASE DidCommit(p, FALSE)
    BY <2>3 DEF DidCommit
  <2> QED BY <2>1, <2>2, <2>3, Zenon DEF CommitOne
<1>5. allReady' \in BOOLEAN
  BY <1>4 DEF Memory, MemoryType
<1>6. MemoryType' /\ SeenLate'
  BY <1>1, <1>3, <1>5 DEF Memory, MemoryType, SeenLate, Closing, Over
<1>7. ASSUME NEW q \in Player, q \in miners_away', escrow'[q].active_round = seen.current,
             allReady'
      PROVE  q \in todo'
  <2>1. q \in todo /\ q # p
    BY <1>1, <1>3, <1>4, <1>7 DEF Memory, RosterKept
  <2> QED BY <1>1, <2>1
<1>8. RosterKept'
  BY <1>1, <1>7 DEF RosterKept
<1> QED BY <1>6, <1>8 DEF Memory

LEMMA ReconcileOneMemory ==
  ASSUME TypeOK, Memory, NEW p \in Player, ReconcileOne(p)
  PROVE  Memory'
<1>1. CASE pc' = "sleep" /\ UNCHANGED <<seen, todo, allReady>>
  BY <1>1, Resting DEF Closing
<1>2. CASE ReconcileMiner(p) /\ todo' = todo \ {p} /\ UNCHANGED <<pc, seen, allReady>>
  <2>1. pc = "reconcile" /\ Over(seen.current)
    BY DEF ReconcileOne, Memory, SeenLate, Closing
  <2>2. /\ ended' = ended /\ escrow'[p].active_round = 0
        /\ \A q \in Player : q # p => escrow'[q] = escrow[q]
    BY <1>2, ReconcileEffect DEF Escrows
  <2> QED
    BY <1>2, <2>1, <2>2 DEF Memory, MemoryType, SeenLate, RosterKept, Closing, Over
<1> QED BY <1>1, <1>2 DEF ReconcileOne, Throw

(* Whoever enters enters a round that takes stakes, not the one the tick   *)
(* is closing.                                                             *)
LEMMA EnterMemory ==
  ASSUME TypeOK, KeeperInv, Enters(TRUE)
  PROVE  KeeperInv'
<1>1. PICK p \in Player : Enter(p)
  BY DEF Enters
<1> DEFINE r == config.current_round_id
<1>2. r \notin ended /\ r \in rounds_away /\ round[r].state = "open"
  BY DEF Enters, Running
<1>3. /\ escrow'[p].active_round = r
      /\ \A q \in Player : q # p => escrow'[q] = escrow[q]
      /\ miners_away' = miners_away \cup {p}
      /\ UNCHANGED <<round, ended, rounds_away>>
  BY <1>1, EnterEffect DEF Escrows
<1>4. UNCHANGED memory
  BY DEF Enters, keeper, memory
<1>5. Homing'
  BY <1>2, <1>3 DEF KeeperInv, Homing, AwayExists, MinersHomeFirst
<1>6. MemoryType' /\ SeenLate'
  BY <1>3, <1>4 DEF KeeperInv, Memory, MemoryType, SeenLate, Over, memory
<1>7. RosterKept'
  BY <1>2, <1>3, <1>4
  DEF KeeperInv, Memory, SeenLate, RosterKept, Over, Closing, memory
<1> QED BY <1>5, <1>6, <1>7 DEF KeeperInv, Memory

(* The round goes home when nobody who joined it is away. *)
LEMMA CommitRoundHoming ==
  ASSUME TypeOK, KeeperInv, pc = "round", CommitRound(seen.current)
  PROVE  Homing'
<1>1. /\ rounds_away' = rounds_away \ {seen.current}
      /\ UNCHANGED <<round, escrow, miners_away>>
  BY DEF CommitRound
<1>2. \A p \in Player : ~ (p \in miners_away /\ escrow[p].active_round = seen.current)
  BY DEF KeeperInv, Memory, RosterKept
<1> QED BY <1>1, <1>2 DEF KeeperInv, Homing, AwayExists, MinersHomeFirst

-----------------------------------------------------------------------------
(* All steps *)

LEMMA WorldCalm ==
  ASSUME TypeOK, AwayExists, World \/ Janitor \/ GraceRuns
  PROVE  Calm /\ UNCHANGED memory
<1>1. UNCHANGED memory
  BY DEF World, Janitor, GraceRuns, keeper, memory
<1>2. CASE World
  BY <1>1, <1>2, PlayCalm, MinerCalm, RoundCalm DEF World, NetworkStep
<1>3. CASE Janitor
  BY <1>1, <1>3, RoundCalm DEF Janitor
<1>4. CASE GraceRuns
  BY <1>1, <1>4, StutterCalm DEF GraceRuns, chain
<1> QED BY <1>1, <1>2, <1>3, <1>4

LEMMA SendsHoming ==
  ASSUME TypeOK, KeeperInv, Sends
  PROVE  Homing'
<1>1. seen.current \in RoundId /\ todo \subseteq Player
  BY DEF KeeperInv, Memory, MemoryType, SeenType
<1>2. AwayExists /\ MinersHomeFirst
  BY DEF KeeperInv, Homing
<1>3. ASSUME NEW r \in RoundId,
             \/ CreateRound \/ DelegateRound(r) \/ RequestSettle(r) \/ CancelRound(r)
             \/ ExecuteSwap(r)
      PROVE  Homing'
  BY <1>2, <1>3, RoundCalm, CalmHoming
<1>4. ASSUME DelegateRound(seen.current + 1) PROVE seen.current + 1 \in RoundId
  BY <1>4, ConfigTypes DEF DelegateRound
<1>5. CASE \E p \in todo : ReconcileMiner(p)
  BY <1>1, <1>2, <1>5, MinerCalm, CalmHoming
<1>6. CASE UNCHANGED vars
  BY <1>2, <1>6, StutterCalm, CalmHoming
<1> QED BY <1>1, <1>3, <1>4, <1>5, <1>6, CommitRoundHoming, SendsDo

LEMMA StepKeeper ==
  ASSUME Books, KeeperInv, [KNext(TRUE)]_kvars
  PROVE  KeeperInv'
<1>1. TypeOK /\ RoundsInOrder /\ LocksInOrder
  BY DEF Books, Order
<1>2. Memory /\ Homing /\ AwayExists /\ MinersHomeFirst
  BY DEF KeeperInv, Homing
<1>3. CASE ReadConfig \/ ReadRound
  BY <1>1, <1>2, <1>3, ReadsMemory, Quiet DEF KeeperInv
<1>4. CASE Decide \/ MinersDone
  BY <1>2, <1>4, DecideMemory, MinersDoneMemory, Quiet DEF KeeperInv
<1>5. CASE ReadRoster("joined", "miners") \/ ReadRoster("roster", "reconcile")
  BY <1>2, <1>5, RosterMemory, Quiet DEF KeeperInv
<1>6. CASE Sends
  BY <1>1, <1>2, <1>6, SendsRest, SendsHoming DEF KeeperInv
<1>7. ASSUME NEW p \in Player, CommitOne(p) PROVE KeeperInv'
  <2>1. CommitMiner(p) \/ UNCHANGED vars
    BY <1>7 DEF CommitOne, chain
  <2>2. Homing'
    BY <1>1, <1>2, <2>1, MinerCalm, StutterCalm, CalmHoming
  <2> QED BY <1>1, <1>2, <1>7, <2>2, CommitOneMemory DEF KeeperInv
<1>8. ASSUME NEW p \in Player, ReconcileOne(p) PROVE KeeperInv'
  <2>1. ReconcileMiner(p) \/ UNCHANGED vars
    BY <1>8 DEF ReconcileOne, chain
  <2>2. Homing'
    BY <1>1, <1>2, <2>1, MinerCalm, StutterCalm, CalmHoming
  <2> QED BY <1>1, <1>2, <1>8, <2>2, ReconcileOneMemory DEF KeeperInv
<1>9. CASE World \/ Janitor \/ GraceRuns
  BY <1>1, <1>2, <1>9, WorldCalm, CalmWaiting, CalmHoming DEF KeeperInv
<1>10. CASE Enters(TRUE)
  BY <1>1, <1>10, EnterMemory
<1>11. CASE UNCHANGED kvars
  BY <1>1, <1>2, <1>11, StutterCalm, CalmWaiting, CalmHoming
  DEF kvars, keeper, memory, KeeperInv
<1> QED
  BY <1>3, <1>4, <1>5, <1>6, <1>7, <1>8, <1>9, <1>10, <1>11 DEF KNext, Tick, Sends

-----------------------------------------------------------------------------
(* A step of the keeper, or around it, is one of the game's *)

(* Nothing is left to debit when the keeper swaps. *)
LEMMA SwapAfterDebits ==
  ASSUME Books, KeeperInv, pc = "reconcile", todo = {}, ExecuteSwap(seen.current)
  PROVE  AllDebited
<1>1. TypeOK /\ OneLive /\ seen.current \in RoundId
  BY DEF Books, Order, RoundsInOrder, KeeperInv, Memory, MemoryType, SeenType
<1>2. seen.current = current
  BY <1>1, SwapEffect DEF OneLive, Unswapped
<1>3. \A p \in Player : escrow[p].active_round # current
  BY <1>2 DEF KeeperInv, Memory, RosterKept
<1>4. ASSUME NEW p \in Player, round[miner[p].round_id].state \in Unswapped
      PROVE  miner[p].round_id = current
  BY <1>1, <1>4, FieldTypes DEF OneLive
<1> QED BY <1>3, <1>4 DEF AllDebited, Unreconciled

LEMMA CrankSteps ==
  ASSUME TypeOK, NEW r \in RoundId,
         \/ CreateRound \/ DelegateRound(r) \/ CommitRound(r) \/ RequestSettle(r)
         \/ CancelRound(r) \/ CloseRound(r)
         \/ \E p \in Player : CommitMiner(p) \/ ReconcileMiner(p)
  PROVE  ClientNext
  BY DEF ClientNext, Step, CrankStep

LEMMA SendsAreSteps ==
  ASSUME Books, KeeperInv, Sends
  PROVE  [ClientNext]_vars
<1>1. TypeOK /\ seen.current \in RoundId /\ todo \subseteq Player
  BY DEF Books, Order, KeeperInv, Memory, MemoryType, SeenType
<1>2. ASSUME DelegateRound(seen.current + 1) PROVE seen.current + 1 \in RoundId
  BY <1>1, <1>2, ConfigTypes DEF DelegateRound
<1>3. CASE pc = "reconcile" /\ todo = {} /\ ExecuteSwap(seen.current)
  BY <1>1, <1>3, SwapAfterDebits DEF ClientNext
<1> QED BY <1>1, <1>2, <1>3, CrankSteps, SendsDo

LEMMA StepGame ==
  ASSUME Books, KeeperInv, [KNext(TRUE)]_kvars
  PROVE  [ClientNext]_vars \/ \E r \in RoundId, a \in Amounts : StakeDirect(r, a)
<1>1. TypeOK /\ Memory
  BY DEF Books, Order, KeeperInv
<1>2. CASE \/ ReadConfig \/ ReadRound \/ Decide \/ MinersDone
           \/ ReadRoster("joined", "miners") \/ ReadRoster("roster", "reconcile")
           \/ GraceRuns \/ UNCHANGED kvars
  BY <1>2 DEF ReadConfig, ReadRound, Decide, MinersDone, ReadRoster, GraceRuns, kvars, chain
<1>3. CASE Sends
  BY <1>3, SendsAreSteps
<1>4. ASSUME NEW p \in Player, CommitOne(p) \/ ReconcileOne(p)
      PROVE  [ClientNext]_vars
  <2>1. CommitMiner(p) \/ ReconcileMiner(p) \/ UNCHANGED vars
    BY <1>4 DEF CommitOne, ReconcileOne, chain
  <2> QED BY <1>1, <2>1, RoundIds, CrankSteps
<1>5. CASE Janitor
  BY <1>1, <1>5, CrankSteps DEF Janitor
<1>6. ASSUME NEW p \in Player, Plays(p) PROVE ClientNext
  BY <1>6 DEF Plays, ClientNext, Step, PlayerStep
<1>7. CASE World
  BY <1>6, <1>7 DEF World, ClientNext, Step
<1>8. CASE Enters(TRUE)
  BY <1>8 DEF Enters, ClientNext
<1> QED BY <1>2, <1>3, <1>4, <1>5, <1>7, <1>8 DEF KNext, Tick, Sends

-----------------------------------------------------------------------------
(* The theorems, of the specification the runs check *)

Kept == Books /\ (pc = "off" \/ KeeperInv)

LEMMA InitKept == MCInit => Kept
<1>1. Init /\ KeeperOff => Kept
  BY InitBooks DEF KeeperOff, Kept
<1>2. ASSUME KInit PROVE KeeperInv
  <2>1. NothingSeen \in SeenType
    BY RoundIds DEF NothingSeen, NoRoundView, SeenType, ViewType
  <2>2. pc = "sleep" /\ Memory
    BY <1>2, <2>1 DEF KInit, Memory, MemoryType, SeenLate, RosterKept, Closing
  <2>3. Homing
    BY <1>2 DEF KInit, Deposited, Homing, AwayExists, MinersHomeFirst
  <2> QED BY <2>2, <2>3 DEF KeeperInv
<1>3. KInit => Kept
  BY <1>2, DepositedBooks DEF KInit, Kept
<1> QED BY <1>1, <1>3 DEF MCInit

LEMMA StepKept == Kept /\ [MCNext]_kvars => Kept'
<1> SUFFICES ASSUME Kept, [MCNext]_kvars PROVE Kept'
  OBVIOUS
<1>1. CASE ByAnybody
  <2>1. Books /\ ClientNext /\ pc' = pc /\ pc = "off"
    BY <1>1 DEF ByAnybody, Kept, keeper
  <2> QED BY <2>1, StepBooks DEF Kept
<1>2. CASE ByKeeper
  <2>1. Books /\ KeeperInv /\ [KNext(TRUE)]_kvars
    BY <1>2 DEF ByKeeper, Kept
  <2>2. Books'
    BY <2>1, StepGame, StepBooks, DirectBooks
  <2> QED BY <2>1, <2>2, StepKeeper DEF Kept
<1>3. CASE UNCHANGED kvars
  <2>1. Books'
    BY <1>3, StepBooks DEF Kept, kvars
  <2>2. pc' = pc /\ (KeeperInv => KeeperInv')
    BY <1>3, StepKeeper DEF Kept, kvars, keeper
  <2> QED BY <2>1, <2>2 DEF Kept
<1> QED BY <1>1, <1>2, <1>3 DEF MCNext

LEMMA AlwaysKept == MCSpec => []Kept
  BY InitKept, StepKept, PTL DEF MCSpec

(* The vault backs every balance, the live pot and every refund also when  *)
(* the keeper runs the rounds, with direct stakes beside the escrow's, and *)
(* whichever of its calls fails, is lost or is cut off by a restart.       *)
THEOREM KeeperKeepsVault == MCSpec => []EscrowBacked
<1>1. Kept => EscrowBacked
  BY DEF Kept, Books
<1> QED BY <1>1, AlwaysKept, PTL

(* Neither a stale clone nor a debit out of order nor a lost answer takes  *)
(* a debit the escrow cannot pay.                                          *)
THEOREM KeeperKeepsDebits == MCSpec => []BudgetHolds
<1>1. Kept => BudgetHolds
  BY DEF Kept, Books, Order
<1> QED BY <1>1, AlwaysKept, PTL

(* The keeper's round is never held up by its own swap gate. *)
THEOREM KeeperSwapsAreNotStuck == MCSpec => []SwapGateOpens
<1>1. Kept => SwapGateOpens
  BY BooksOpenGate DEF Kept
<1> QED BY <1>1, AlwaysKept, PTL

(* actions.ts, commitToL1: with any number of players, and whichever call  *)
(* fails, the round comes back to L1 after every miner that joined it.     *)
THEOREM MinersComeHomeFirst == MCSpec => []KeeperMinersHomeFirst
<1>1. Kept => KeeperMinersHomeFirst
  BY DEF Kept, KeeperInv, Homing, KeeperMinersHomeFirst
<1> QED BY <1>1, AlwaysKept, PTL

(* round_entry.rs:19: as long as players enter running rounds only, each   *)
(* position on the rollup has the account it needs to come back.           *)
THEOREM LocksHaveExits == MCSpec => []KeeperLockHasExit
<1>1. ASSUME Kept, pc # "off", NEW p \in Player, escrow[p].active_round # 0, p \in miners_away
      PROVE  round[miner[p].round_id].state # "absent"
  <2>1. escrow[p].active_round \in rounds_away
    BY <1>1 DEF Kept, KeeperInv, Homing, MinersHomeFirst
  <2>2. miner[p].round_id = escrow[p].active_round
    BY <1>1 DEF Kept, Books, Order, LocksInOrder, Locked
  <2> QED BY <1>1, <2>1, <2>2 DEF Kept, KeeperInv, Homing, AwayExists
<1>2. Kept => KeeperLockHasExit
  BY <1>1 DEF KeeperLockHasExit, LockHasExit
<1> QED BY <1>2, AlwaysKept, PTL
=============================================================================
