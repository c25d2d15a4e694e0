--------------------------- MODULE DirectGameBooks ---------------------------
(***************************************************************************)
(* The books of DirectGame, for every instance: a round's grid and pot are *)
(* its players' stakes, and from that the half of the proceeds that is     *)
(* always left for the winners, the refunds that stay payable, the         *)
(* lamports the commingled vault can always pay, the entitlements that     *)
(* cover every claim, and the two abstract specifications the game         *)
(* implements: the ledger of earmarks and the book of rounds.              *)
(***************************************************************************)
EXTENDS DirectGameProofs

-----------------------------------------------------------------------------
(* Miners are stamped with rounds that exist or existed *)

MinersPast == \A p \in Player : miner[p].round_id <= config.current_round_id

LEMMA InitMinersPast == Init => MinersPast
  BY DEF Init, MinersPast

(* What StakeDirect and the two payouts do to a miner. *)
LEMMA StampEffect ==
  ASSUME TypeOK, NEW p \in Player, NEW r \in RoundId, NEW s \in Square, NEW a \in Amounts,
         StakeDirect(p, r, s, a)
  PROVE  /\ miner'[p].round_id = r
         /\ miner'[p].block_stake = [StakeIn(p, r) EXCEPT ![s] = @ + a]
         /\ \A q \in Player : q # p => miner'[q] = miner[q]
  BY DEF StakeDirect, TypeOK

LEMMA SpentEffect ==
  ASSUME TypeOK, NEW p \in Player, miner' = [miner EXCEPT ![p] = Spent(@)]
  PROVE  /\ miner'[p].round_id = miner[p].round_id
         /\ miner'[p].block_stake = NoStake
         /\ \A q \in Player : q # p => miner'[q] = miner[q]
  BY DEF Spent, TypeOK

LEMMA BookedEffect ==
  ASSUME TypeOK, NEW p \in Player, NEW r \in RoundId, NEW s \in Square, NEW a \in Amounts,
         StakeDirect(p, r, s, a)
  PROVE  /\ round'[r].state = round[r].state /\ round[r].state = "open"
         /\ round'[r].block_sol = [round[r].block_sol EXCEPT ![s] = @ + a]
         /\ \A q \in RoundId : q # r => round'[q] = round[q]
<1>1. round[r] \in RoundType
  BY DEF TypeOK
<1>2. round'[r] = Booked(round[r], s, a) /\ \A q \in RoundId : q # r => round'[q] = round[q]
  BY DEF StakeDirect, TypeOK
<1> DEFINE board == [round[r].block_sol EXCEPT ![s] = @ + a]
           pot   == round[r].pot + a
<1>3. Booked(round[r], s, a) = [round[r] EXCEPT !.block_sol = board, !.pot = pot]
  BY <1>1 DEF Booked, RoundType
<1> HIDE DEF board, pot
<1>4. /\ Booked(round[r], s, a).state = round[r].state
      /\ Booked(round[r], s, a).block_sol = board
  BY <1>1, <1>3 DEF RoundType
<1>5. round[r].state = "open"
  BY DEF StakeDirect
<1> QED BY <1>2, <1>4, <1>5 DEF board

LEMMA BookedPot ==
  ASSUME TypeOK, NEW p \in Player, NEW r \in RoundId, NEW s \in Square, NEW a \in Amounts,
         StakeDirect(p, r, s, a)
  PROVE  round'[r].pot = round[r].pot + a
<1>1. round'[r] = Booked(round[r], s, a) /\ round[r] \in RoundType
  BY DEF StakeDirect, TypeOK
<1>2. Booked(round[r], s, a).pot = round[r].pot + a
  BY <1>1 DEF Booked, RoundType
<1> QED BY <1>1, <1>2

(* A round is created above the cursor, where no account and no stamp is. *)
LEMMA CreateEffect ==
  ASSUME TypeOK, Serialized, MinersPast, CreateRound
  PROVE  LET id == config.current_round_id + 1 IN
         /\ id \in RoundId
         /\ config'.current_round_id = id
         /\ round[id] = NoRound
         /\ round'[id].state = "open" /\ round'[id].pot = 0
         /\ round'[id].block_sol = NoStake
         /\ \A q \in RoundId : q # id => round'[q] = round[q]
         /\ \A p \in Player : miner[p].round_id # id
         /\ miner' = miner
<1> DEFINE id == config.current_round_id + 1
           X  == NewRound(now + params.round_duration_secs)
<1>1. config.current_round_id \in Nat /\ id \in RoundId /\ id \in Nat
  BY SizeAssumption DEF TypeOK, ConfigType, RoundId, CreateRound
<1>2. round'[id] = X /\ \A q \in RoundId : q # id => round'[q] = round[q]
  BY <1>1 DEF CreateRound, TypeOK
<1>3. X.state = "open" /\ X.pot = 0 /\ X.block_sol = NoStake
  BY DEF NewRound, NoRound
<1>4. config'.current_round_id = id
  BY <1>1 DEF CreateRound, TypeOK, ConfigType
<1>5. round[id] = NoRound
  BY <1>1 DEF Serialized
<1>6. \A p \in Player : miner[p].round_id # id
  BY <1>1, SizeAssumption DEF MinersPast, TypeOK, RoundId
<1>7. miner' = miner
  BY DEF CreateRound
<1> HIDE DEF X, id
<1> QED BY <1>1, <1>2, <1>3, <1>4, <1>5, <1>6, <1>7 DEF id

(* The cursor never moves back. *)
LEMMA CursorEffect ==
  TypeOK /\ [Next]_vars => config'.current_round_id \in Nat
                           /\ config'.current_round_id >= config.current_round_id
<1> SUFFICES ASSUME TypeOK, [Next]_vars
             PROVE  /\ config'.current_round_id \in Nat
                    /\ config'.current_round_id >= config.current_round_id
  OBVIOUS
<1>0. config \in ConfigType /\ config.current_round_id \in Nat
  BY SizeAssumption DEF TypeOK, ConfigType, RoundId
<1>1. CASE CreateRound
  BY <1>0, <1>1 DEF CreateRound, ConfigType
<1>2. ASSUME NEW r \in RoundId,
             ExecuteSwapMock(r) \/ \E out \in Outs : ExecuteSwapReal(r, out)
      PROVE  config'.current_round_id = config.current_round_id
  <2>1. PICK out \in Nat : FinalizeSwap(r, out)
    BY <1>2, SwapEffect
  <2> QED BY <2>1, FinalizeEffect
<1>3. ASSUME \/ \E p \in Player, r \in RoundId : ClaimDirect(p, r)
             \/ \E r \in RoundId : CancelRound(r) \/ CloseRound(r)
             \/ \E p \in Player, a \in Amounts : Deposit(p, a) \/ Withdraw(p, a)
      PROVE  config'.current_round_id = config.current_round_id
  BY <1>0, <1>3 DEF ClaimDirect, CancelRound, CloseRound, Deposit, Withdraw, ConfigType
<1>4. ASSUME \/ \E p \in Player, r \in RoundId, s \in Square, a \in Amounts :
                   StakeDirect(p, r, s, a)
             \/ \E r \in RoundId, d \in Draws : Settle(r, d) \/ SettleCallback(r, d)
             \/ \E r \in RoundId : RequestSettle(r)
             \/ \E p \in Player, r \in RoundId : RefundDirect(p, r)
             \/ \E q \in ParamChoices : Admin(q)
             \/ Tick
             \/ UNCHANGED vars
      PROVE  config' = config
  BY <1>4 DEF StakeDirect, Settle, SettleCallback, RequestSettle, RefundDirect, Admin, Tick, vars
<1> QED BY <1>0, <1>1, <1>2, <1>3, <1>4 DEF Next

LEMMA StepMinersPast ==
  TypeOK /\ Serialized /\ MinersPast /\ [Next]_vars => MinersPast'
<1> SUFFICES ASSUME TypeOK, Serialized, MinersPast, [Next]_vars PROVE MinersPast'
  OBVIOUS
<1>0. /\ config.current_round_id \in Nat /\ config'.current_round_id \in Nat
      /\ config'.current_round_id >= config.current_round_id
      /\ \A p \in Player : miner[p].round_id \in Nat
  BY CursorEffect, SizeAssumption DEF TypeOK, ConfigType, RoundId
<1>1. ASSUME \A p \in Player : miner'[p].round_id = miner[p].round_id
      PROVE  MinersPast'
  BY <1>0, <1>1 DEF MinersPast
<1>2. ASSUME NEW p \in Player, NEW r \in RoundId, NEW s \in Square, NEW a \in Amounts,
             StakeDirect(p, r, s, a)
      PROVE  MinersPast'
  <2>1. round[r].state \in Unswapped
    BY <1>2 DEF StakeDirect, Unswapped
  <2>2. r = config.current_round_id
    BY <2>1 DEF Serialized
  <2>3. miner'[p].round_id = r /\ \A q \in Player : q # p => miner'[q] = miner[q]
    BY <1>2, StampEffect
  <2> QED BY <1>0, <2>2, <2>3 DEF MinersPast
<1>3. ASSUME NEW p \in Player, NEW r \in RoundId, ClaimDirect(p, r) \/ RefundDirect(p, r)
      PROVE  MinersPast'
  <2>1. miner' = [miner EXCEPT ![p] = Spent(@)]
    BY <1>3 DEF ClaimDirect, RefundDirect
  <2> QED BY <1>1, <2>1, SpentEffect
<1>4. ASSUME UNCHANGED miner
      PROVE  MinersPast'
  BY <1>1, <1>4
<1>5. ASSUME NEW r \in RoundId,
             ExecuteSwapMock(r) \/ \E out \in Outs : ExecuteSwapReal(r, out)
      PROVE  MinersPast'
  BY <1>4, <1>5, SwapEffect
<1>6. ASSUME \/ CreateRound
             \/ \E r \in RoundId, d \in Draws : Settle(r, d) \/ SettleCallback(r, d)
             \/ \E r \in RoundId : RequestSettle(r) \/ CancelRound(r) \/ CloseRound(r)
             \/ \E p \in Player, a \in Amounts : Deposit(p, a) \/ Withdraw(p, a)
             \/ \E q \in ParamChoices : Admin(q)
             \/ Tick
             \/ UNCHANGED vars
      PROVE  MinersPast'
  BY <1>4, <1>6 DEF CreateRound, Settle, SettleCallback, RequestSettle, CancelRound,
     CloseRound, Deposit, Withdraw, Admin, Tick, vars
<1> QED BY <1>2, <1>3, <1>5, <1>6 DEF Next
-----------------------------------------------------------------------------
(* A round's books are its players' stakes *)

Held(r, s) == [p \in Player |-> StakeIn(p, r)[s]]

BookedRound(r) ==
  /\ \A s \in Square : round[r].block_sol[s] = SumBelow(Held(r, s), NumPlayers)
  /\ round[r].pot = Total(round[r].block_sol)

LEMMA StakesBookedIs ==
  /\ StakesBooked <=> \A r \in RoundId : round[r].state \in Unswapped => BookedRound(r)
  /\ StakesBooked' <=> \A r \in RoundId : round'[r].state \in Unswapped => BookedRound(r)'
  BY DEF StakesBooked, BookedRound, Held

(* Putting an amount on one square adds it to the total of the grid. *)
LEMMA TotalAdd ==
  ASSUME NEW stake \in [Square -> Nat], NEW s \in Square, NEW a \in Nat
  PROVE  /\ [stake EXCEPT ![s] = @ + a] \in [Square -> Nat]
         /\ Total([stake EXCEPT ![s] = @ + a]) = Total(stake) + a
<1> DEFINE more == [stake EXCEPT ![s] = @ + a]
<1>1. more \in [Square -> Nat] /\ more[s] = stake[s] + a /\ stake[s] \in Nat
      /\ \A t \in Square : t # s => more[t] = stake[t]
  OBVIOUS
<1> HIDE DEF more
<1>2. SumBelow(more, GRID_SIZE) = SumBelow(stake, GRID_SIZE) - stake[s] + more[s]
  <2>1. /\ GRID_SIZE \in Nat /\ s \in 0..GRID_SIZE-1
        /\ \A i \in 0..GRID_SIZE-1 : stake[i] \in Int /\ more[i] \in Int
        /\ \A i \in 0..GRID_SIZE-1 : i # s => more[i] = stake[i]
    BY <1>1, GridAssumption DEF Square
  <2> QED BY <2>1, SumAt
<1>3. Total(stake) \in Nat
  BY TotalNat
<1>4. Total(more) = Total(stake) - stake[s] + more[s]
  BY <1>2 DEF Total
<1>5. Total(more) = Total(stake) + a
  BY <1>1, <1>3, <1>4
<1> QED BY <1>1, <1>5 DEF more

LEMMA HeldType ==
  ASSUME TypeOK, NEW r \in RoundId, NEW s \in Square
  PROVE  \A p \in Player : Held(r, s)[p] = StakeIn(p, r)[s] /\ Held(r, s)[p] \in Nat
  BY StakeInType DEF Held

(* A round whose books and stakes a step leaves alone stays booked. *)
LEMMA RoundStaysBooked ==
  ASSUME NEW r \in RoundId, BookedRound(r),
         round'[r].block_sol = round[r].block_sol, round'[r].pot = round[r].pot,
         \A p \in Player : StakeIn(p, r)' = StakeIn(p, r)
  PROVE  BookedRound(r)'
<1>1. \A s \in Square : Held(r, s)' = Held(r, s)
  BY DEF Held
<1> QED BY <1>1 DEF BookedRound

LEMMA StakesStayBooked ==
  ASSUME StakesBooked,
         \A r \in RoundId : round'[r].state \in Unswapped =>
            /\ round[r].state \in Unswapped
            /\ round'[r].block_sol = round[r].block_sol
            /\ round'[r].pot = round[r].pot
            /\ \A p \in Player : StakeIn(p, r)' = StakeIn(p, r)
  PROVE  StakesBooked'
  BY RoundStaysBooked, StakesBookedIs

LEMMA StakeBooked ==
  ASSUME TypeOK, TypeOK', NEW p \in Player, NEW r \in RoundId, NEW s \in Square,
         NEW a \in Amounts, StakeDirect(p, r, s, a), BookedRound(r)
  PROVE  BookedRound(r)'
<1>1. a \in Nat /\ NumPlayers \in Nat
  BY AmountAssumption, SizeAssumption
<1>2. round[r].block_sol \in [Square -> Nat]
  BY DEF TypeOK, RoundType
<1>3. /\ round'[r].block_sol = [round[r].block_sol EXCEPT ![s] = @ + a]
      /\ round'[r].pot = round[r].pot + a
  BY BookedEffect, BookedPot
<1>4. round'[r].pot = Total(round'[r].block_sol)
  BY <1>1, <1>2, <1>3, TotalAdd DEF BookedRound
<1>5. ASSUME NEW t \in Square
      PROVE  round'[r].block_sol[t] = SumBelow(Held(r, t)', NumPlayers)
  <2>1. /\ StakeIn(p, r)' = [StakeIn(p, r) EXCEPT ![s] = @ + a]
        /\ \A q \in Player : q # p => StakeIn(q, r)' = StakeIn(q, r)
    BY StampEffect DEF StakeIn
  <2>2. \A q \in Player : /\ Held(r, t)[q] = StakeIn(q, r)[t] /\ Held(r, t)[q] \in Nat
                          /\ Held(r, t)'[q] = StakeIn(q, r)'[t]
    BY HeldType DEF Held
  <2>3. StakeIn(p, r) \in [Square -> Nat]
    BY StakeInType
  <2>4. Held(r, t)'[p] = Held(r, t)[p] + (IF t = s THEN a ELSE 0)
    <3> DEFINE held == StakeIn(p, r)
    <3>1. held \in [Square -> Nat] /\ Held(r, t)[p] = held[t]
      BY <2>2, <2>3
    <3>2. StakeIn(p, r)' = [held EXCEPT ![s] = @ + a]
      BY <2>1
    <3>3. Held(r, t)'[p] = StakeIn(p, r)'[t]
      BY <2>2
    <3> HIDE DEF held
    <3>4. [held EXCEPT ![s] = @ + a][t] = held[t] + (IF t = s THEN a ELSE 0)
      BY <1>1, <3>1
    <3> QED BY <3>1, <3>2, <3>3, <3>4
  <2>5. \A q \in Player : q # p => Held(r, t)'[q] = Held(r, t)[q]
    BY <2>1, <2>2
  <2>6. \A q \in Player : Held(r, t)'[q] \in Nat
    BY <1>1, <2>2, <2>4, <2>5
  <2> DEFINE old == Held(r, t)
             new == Held(r, t)'
  <2> HIDE DEF old, new
  <2>7. /\ \A i \in 0..NumPlayers-1 : old[i] \in Int /\ new[i] \in Int
        /\ \A i \in 0..NumPlayers-1 : i # p => new[i] = old[i]
        /\ p \in 0..NumPlayers-1
    BY <2>2, <2>5, <2>6 DEF old, new, Player
  <2>8. SumBelow(new, NumPlayers) = SumBelow(old, NumPlayers) - old[p] + new[p]
    BY <1>1, <2>7, SumAt
  <2>9. SumBelow(old, NumPlayers) = round[r].block_sol[t]
    BY DEF BookedRound, old
  <2>10. new[p] = old[p] + (IF t = s THEN a ELSE 0) /\ old[p] \in Nat
    BY <2>2, <2>4 DEF old, new
  <2>11. round'[r].block_sol[t] = round[r].block_sol[t] + (IF t = s THEN a ELSE 0)
    BY <1>1, <1>2, <1>3
  <2>12. round[r].block_sol[t] \in Nat
    BY <1>2
  <2>13. SumBelow(new, NumPlayers) = round'[r].block_sol[t]
    BY <1>1, <2>8, <2>9, <2>10, <2>11, <2>12
  <2> QED BY <2>13 DEF new
<1> QED BY <1>4, <1>5 DEF BookedRound

LEMMA InitStakesBooked == Init => StakesBooked
  BY NoRoundType DEF Init, StakesBooked, Unswapped

LEMMA StepStakesBooked ==
  TypeOK /\ Serialized /\ MinersPast /\ StakesBooked /\ [Next]_vars => StakesBooked'
<1> SUFFICES ASSUME TypeOK, Serialized, MinersPast, StakesBooked, [Next]_vars
             PROVE  StakesBooked'
  OBVIOUS
<1>0. TypeOK'
  BY StepType
<1>1. CASE CreateRound
  <2>1. PICK id \in RoundId :
           /\ round'[id].pot = 0 /\ round'[id].block_sol = NoStake
           /\ \A q \in RoundId : q # id => round'[q] = round[q]
           /\ \A p \in Player : miner[p].round_id # id
           /\ miner' = miner
    BY <1>1, CreateEffect
  <2>2. \A p \in Player : StakeIn(p, id)' = NoStake
    BY <2>1 DEF StakeIn
  <2>3. \A s \in Square, i \in 0..NumPlayers-1 : Held(id, s)'[i] = 0
    BY <2>2 DEF Held, NoStake, Player
  <2>4. \A s \in Square : SumBelow(Held(id, s)', NumPlayers) = 0
    BY <2>3, SumZeros, SizeAssumption
  <2>5. BookedRound(id)'
    BY <2>1, <2>4, TotalNoStake DEF BookedRound, NoStake
  <2>6. \A q \in RoundId, p \in Player : StakeIn(p, q)' = StakeIn(p, q)
    BY <2>1 DEF StakeIn
  <2>7. \A q \in RoundId : q # id /\ round'[q].state \in Unswapped => BookedRound(q)'
    BY <2>1, <2>6, RoundStaysBooked, StakesBookedIs
  <2> QED BY <2>5, <2>7, StakesBookedIs
<1>2. ASSUME NEW p \in Player, NEW r \in RoundId, NEW s \in Square, NEW a \in Amounts,
             StakeDirect(p, r, s, a)
      PROVE  StakesBooked'
  <2>1. /\ round'[r].state = "open" /\ round[r].state = "open"
        /\ \A q \in RoundId : q # r => round'[q] = round[q]
    BY <1>2, BookedEffect
  <2>2. \A q \in RoundId : round'[q].state \in Unswapped => q = r
    BY <2>1 DEF Serialized, Unswapped
  <2>3. BookedRound(r)
    BY <2>1, StakesBookedIs DEF Unswapped
  <2>4. BookedRound(r)'
    BY <1>0, <1>2, <2>3, StakeBooked
  <2> QED BY <2>2, <2>4, StakesBookedIs
<1>3. ASSUME UNCHANGED miner,
             \A r \in RoundId : round'[r].state \in Unswapped =>
                /\ round[r].state \in Unswapped
                /\ round'[r].block_sol = round[r].block_sol
                /\ round'[r].pot = round[r].pot
      PROVE  StakesBooked'
  <2>1. \A r \in RoundId, p \in Player : StakeIn(p, r)' = StakeIn(p, r)
    BY <1>3 DEF StakeIn
  <2> QED BY <1>3, <2>1, StakesStayBooked
<1>4. ASSUME NEW r \in RoundId, NEW d \in Draws, Settle(r, d) \/ SettleCallback(r, d)
      PROVE  StakesBooked'
  <2>1. Drawn(r, d) /\ round[r].state \in Unswapped /\ UNCHANGED miner
    BY <1>4 DEF Settle, SettleCallback, AwaitsDraw, Unswapped
  <2>2. /\ round'[r].pot = round[r].pot /\ round'[r].block_sol = round[r].block_sol
        /\ \A q \in RoundId : q # r => round'[q] = round[q]
    BY <2>1, DrawnEffect
  <2> QED BY <1>3, <2>1, <2>2
<1>5. ASSUME NEW r \in RoundId, RequestSettle(r) \/ CancelRound(r)
      PROVE  StakesBooked'
  <2>1. PICK mark : round' = [round EXCEPT ![r].state = mark]
    BY <1>5 DEF RequestSettle, CancelRound
  <2>2. /\ round'[r].pot = round[r].pot /\ round'[r].block_sol = round[r].block_sol
        /\ \A q \in RoundId : q # r => round'[q] = round[q]
    BY <2>1, MarkedEffect
  <2>3. round[r].state \in Unswapped /\ UNCHANGED miner
    BY <1>5 DEF RequestSettle, CancelRound, Unswapped
  <2> QED BY <1>3, <2>2, <2>3
<1>6. ASSUME NEW r \in RoundId,
             ExecuteSwapMock(r) \/ \E out \in Outs : ExecuteSwapReal(r, out)
      PROVE  StakesBooked'
  <2>1. PICK out \in Nat : FinalizeSwap(r, out) /\ UNCHANGED miner
    BY <1>6, SwapEffect
  <2>2. /\ round'[r].state = "claimable"
        /\ \A q \in RoundId : q # r => round'[q] = round[q]
    BY <2>1, FinalizeEffect
  <2>3. round'[r].state \notin Unswapped
    BY <2>2 DEF Unswapped
  <2> QED BY <1>3, <2>1, <2>2, <2>3
<1>7. ASSUME NEW p \in Player, NEW r \in RoundId, ClaimDirect(p, r) \/ RefundDirect(p, r)
      PROVE  StakesBooked'
  <2>1. /\ round[r].state \notin Unswapped /\ miner[p].round_id = r
        /\ miner' = [miner EXCEPT ![p] = Spent(@)]
    BY <1>7 DEF ClaimDirect, RefundDirect, Unswapped
  <2>2. \A q \in RoundId : /\ round'[q].state = round[q].state
                           /\ q # r => round'[q] = round[q]
    BY <1>7 DEF ClaimDirect, RefundDirect, TypeOK, RoundType
  <2>3. \A q \in RoundId, i \in Player : q # r => StakeIn(i, q)' = StakeIn(i, q)
    <3>1. miner'[p].round_id = r /\ \A i \in Player : i # p => miner'[i] = miner[i]
      BY <2>1, SpentEffect
    <3> QED BY <2>1, <3>1 DEF StakeIn
  <2> QED BY <2>1, <2>2, <2>3, StakesStayBooked
<1>8. ASSUME NEW r \in RoundId, CloseRound(r)
      PROVE  StakesBooked'
  <2>1. /\ round'[r] = NoRound /\ \A q \in RoundId : q # r => round'[q] = round[q]
        /\ UNCHANGED miner
    BY <1>8 DEF CloseRound, TypeOK
  <2> QED BY <1>3, <2>1, NoRoundType DEF Unswapped
<1>9. ASSUME \/ \E p \in Player, a \in Amounts : Deposit(p, a) \/ Withdraw(p, a)
             \/ \E q \in ParamChoices : Admin(q)
             \/ Tick
             \/ UNCHANGED vars
      PROVE  StakesBooked'
  <2>1. UNCHANGED round /\ UNCHANGED miner
    BY <1>9 DEF Deposit, Withdraw, Admin, Tick, vars
  <2> QED BY <1>3, <2>1
<1> QED BY <1>1, <1>2, <1>4, <1>5, <1>6, <1>7, <1>8, <1>9 DEF Next

Books == TypeOK /\ Serialized /\ MinersPast /\ StakesBooked

LEMMA InitBooks == Init => Books
  BY InitType, InitSerialized, InitMinersPast, InitStakesBooked DEF Books

LEMMA StepBooks == Books /\ [Next]_vars => Books'
  BY StepType, StepSerialized, StepMinersPast, StepStakesBooked DEF Books

(* Until its swap, every square of a round and its pot are exactly what    *)
(* the miners stamped with the round hold: no stake is booked twice, lost, *)
(* or carried from one round into the next.                                *)
THEOREM BooksAreStakes == Spec => []StakesBooked
<1>1. Books => StakesBooked
  BY DEF Books
<1> QED BY <1>1, InitBooks, StepBooks, PTL DEF Spec

(* In a drawn round at least half of whatever the pot sold for is left for *)
(* the jackpot, whichever band the admin has set, so the subtraction in    *)
(* finalize_swap_accounting always succeeds.                               *)
THEOREM HalfIsLeft == Spec => []HalfToJackpot
<1>1. Books => HalfToJackpot
  <2> SUFFICES ASSUME Books, NEW r \in RoundId, NEW out \in Outs, round[r].state = "settled"
               PROVE  2 * NjTotal(round[r], out) <= out
    BY DEF HalfToJackpot
  <2>1. /\ round[r].block_sol \in [Square -> Nat]
        /\ IsDraw(round[r].randomness)
        /\ IsBand(params.mult_min_bps, params.mult_max_bps)
        /\ 2 * params.mult_max_bps <= BPS
        /\ out \in Nat
    BY DrawsAreDraws, BandOK, AmountAssumption DEF Books, TypeOK, RoundType
  <2>2. round[r].pot = Total(round[r].block_sol)
    BY StakesBookedIs DEF Books, BookedRound, Unswapped
  <2> QED BY <2>1, <2>2, NonjackpotAtMostHalf DEF NjTotal
<1> QED BY <1>1, InitBooks, StepBooks, PTL DEF Spec

-----------------------------------------------------------------------------
(* Refunds of a cancelled round *)

(* Strengthening: until it is claimable, a round's pot covers each of its  *)
(* miners' stakes.                                                         *)
StakesInPot ==
  \A p \in Player :
     round[miner[p].round_id].state \in Unswapped \cup {"closed"}
        => Total(miner[p].block_stake) <= round[miner[p].round_id].pot

KeepsRefunds ==
  \A p \in Player :
     /\ round[miner[p].round_id].state = "closed"
     /\ Total(miner[p].block_stake) > 0
     => miner'[p] # miner[p] \/ round'[miner[p].round_id].state = "closed"

LEMMA StepRefunds ==
  Books /\ StakesInPot /\ [Next]_vars => StakesInPot' /\ KeepsRefunds
<1> SUFFICES ASSUME Books, StakesInPot, [Next]_vars
             PROVE  StakesInPot' /\ KeepsRefunds
  OBVIOUS
<1>0. /\ TypeOK /\ Serialized /\ MinersPast
      /\ \A p \in Player : /\ miner[p].round_id \in RoundId
                          /\ miner[p].block_stake \in [Square -> Nat]
      /\ \A r \in RoundId : round[r].pot \in Nat
  BY DEF Books, TypeOK, RoundType
(* A step that leaves the miners alone and moves no round into the states  *)
(* that owe refunds, nor a closed one out of them, unless it is empty.     *)
<1>1. ASSUME UNCHANGED miner,
             \A r \in RoundId :
                /\ round'[r].state \in Unswapped \cup {"closed"} =>
                      \/ \A p \in Player : miner[p].round_id # r
                      \/ /\ round[r].state \in Unswapped \cup {"closed"}
                         /\ round'[r].pot = round[r].pot
                /\ round[r].state = "closed" =>
                      round'[r].state = "closed" \/ round[r].pot = 0
      PROVE  StakesInPot' /\ KeepsRefunds
  <2>1. StakesInPot'
    BY <1>0, <1>1 DEF StakesInPot
  <2>2. ASSUME NEW p \in Player, round[miner[p].round_id].state = "closed",
               Total(miner[p].block_stake) > 0
        PROVE  round'[miner[p].round_id].state = "closed"
    <3>1. Total(miner[p].block_stake) \in Nat
      BY <1>0, TotalNat
    <3>2. Total(miner[p].block_stake) <= round[miner[p].round_id].pot
      BY <2>2 DEF StakesInPot
    <3>3. round[miner[p].round_id].pot # 0
      BY <1>0, <2>2, <3>1, <3>2
    <3> QED BY <1>0, <1>1, <2>2, <3>3
  <2> QED BY <2>1, <2>2 DEF KeepsRefunds
<1>2. CASE CreateRound
  <2>1. PICK id \in RoundId :
           /\ round[id] = NoRound
           /\ \A q \in RoundId : q # id => round'[q] = round[q]
           /\ \A p \in Player : miner[p].round_id # id
           /\ miner' = miner
    BY <1>0, <1>2, CreateEffect
  <2> QED BY <1>1, <2>1, NoRoundType
<1>3. ASSUME NEW p \in Player, NEW r \in RoundId, NEW s \in Square, NEW a \in Amounts,
             StakeDirect(p, r, s, a)
      PROVE  StakesInPot' /\ KeepsRefunds
  <2>1. /\ round'[r].state = "open" /\ round[r].state = "open"
        /\ round'[r].pot = round[r].pot + a
        /\ \A q \in RoundId : q # r => round'[q] = round[q]
    <3>1. TypeOK
      BY <1>0
    <3>2. /\ round'[r].state = round[r].state /\ round[r].state = "open"
          /\ \A q \in RoundId : q # r => round'[q] = round[q]
      BY <1>3, <3>1, BookedEffect
    <3>3. round'[r].pot = round[r].pot + a
      BY <1>3, <3>1, BookedPot
    <3> QED BY <3>2, <3>3
  <2>2. /\ miner'[p].round_id = r
        /\ miner'[p].block_stake = [StakeIn(p, r) EXCEPT ![s] = @ + a]
        /\ \A q \in Player : q # p => miner'[q] = miner[q]
    BY <1>0, <1>3, StampEffect
  <2>3. a \in Nat /\ StakeIn(p, r) \in [Square -> Nat]
    BY <1>0, AmountAssumption, StakeInType
  <2>4. Total(miner'[p].block_stake) = Total(StakeIn(p, r)) + a
    <3> DEFINE held == StakeIn(p, r)
    <3>1. held \in [Square -> Nat] /\ miner'[p].block_stake = [held EXCEPT ![s] = @ + a]
      BY <2>2, <2>3
    <3> HIDE DEF held
    <3>2. Total([held EXCEPT ![s] = @ + a]) = Total(held) + a
      BY <2>3, <3>1, TotalAdd
    <3>3. Total(miner'[p].block_stake) = Total(held) + a
      BY <3>1, <3>2
    <3> QED BY <3>3 DEF held
  <2>5. Total(StakeIn(p, r)) \in Nat /\ Total(StakeIn(p, r)) <= round[r].pot
    <3>1. CASE miner[p].round_id = r
      BY <1>0, <2>1, <2>3, <3>1, TotalNat DEF StakesInPot, StakeIn, Unswapped
    <3>2. CASE miner[p].round_id # r
      BY <1>0, <3>2, TotalNoStake DEF StakeIn
    <3> QED BY <3>1, <3>2
  <2>6. Total(miner'[p].block_stake) <= round'[r].pot
    BY <1>0, <2>1, <2>3, <2>4, <2>5
  <2>7. ASSUME NEW q \in Player, q # p,
               round'[miner'[q].round_id].state \in Unswapped \cup {"closed"}
        PROVE  Total(miner'[q].block_stake) <= round'[miner'[q].round_id].pot
    <3>1. miner'[q] = miner[q]
      BY <2>2, <2>7
    <3>2. /\ Total(miner[q].block_stake) \in Nat
          /\ Total(miner[q].block_stake) <= round[miner[q].round_id].pot
      BY <1>0, <2>1, <2>7, <3>1, TotalNat DEF StakesInPot
    <3>3. round[miner[q].round_id].pot <= round'[miner[q].round_id].pot
      BY <1>0, <2>1, <2>3
    <3>4. round'[miner[q].round_id].pot \in Nat
      BY <1>0, <2>1, <2>3
    <3> QED BY <1>0, <3>1, <3>2, <3>3, <3>4
  <2>8. StakesInPot'
    BY <2>2, <2>6, <2>7 DEF StakesInPot
  <2>9. KeepsRefunds
    BY <1>0, <2>1 DEF KeepsRefunds
  <2> QED BY <2>8, <2>9
<1>4. ASSUME NEW r \in RoundId, NEW d \in Draws, Settle(r, d) \/ SettleCallback(r, d)
      PROVE  StakesInPot' /\ KeepsRefunds
  <2>1. Drawn(r, d) /\ round[r].state \in Unswapped /\ UNCHANGED miner
    BY <1>4 DEF Settle, SettleCallback, AwaitsDraw, Unswapped
  <2>2. /\ round'[r].pot = round[r].pot
        /\ \A q \in RoundId : q # r => round'[q] = round[q]
    BY <1>0, <2>1, DrawnEffect
  <2> QED BY <1>1, <2>1, <2>2 DEF Unswapped
<1>5. ASSUME NEW r \in RoundId, RequestSettle(r) \/ CancelRound(r)
      PROVE  StakesInPot' /\ KeepsRefunds
  <2>1. PICK mark : round' = [round EXCEPT ![r].state = mark]
    BY <1>5 DEF RequestSettle, CancelRound
  <2>2. /\ round'[r].pot = round[r].pot
        /\ \A q \in RoundId : q # r => round'[q] = round[q]
    BY <1>0, <2>1, MarkedEffect
  <2>3. round[r].state \in Unswapped /\ UNCHANGED miner
    BY <1>5 DEF RequestSettle, CancelRound, Unswapped
  <2> QED BY <1>1, <2>2, <2>3 DEF Unswapped
<1>6. ASSUME NEW r \in RoundId,
             ExecuteSwapMock(r) \/ \E out \in Outs : ExecuteSwapReal(r, out)
      PROVE  StakesInPot' /\ KeepsRefunds
  <2>1. PICK out \in Nat : /\ round[r].state = "settled" /\ FinalizeSwap(r, out)
                          /\ UNCHANGED miner
    BY <1>0, <1>6, SwapEffect
  <2>2. /\ round'[r].state = "claimable"
        /\ \A q \in RoundId : q # r => round'[q] = round[q]
    BY <1>0, <2>1, FinalizeEffect
  <2> QED BY <1>1, <2>1, <2>2 DEF Unswapped
<1>7. ASSUME NEW p \in Player, NEW r \in RoundId, ClaimDirect(p, r) \/ RefundDirect(p, r)
      PROVE  StakesInPot' /\ KeepsRefunds
  <2>1. miner' = [miner EXCEPT ![p] = Spent(@)]
    BY <1>7 DEF ClaimDirect, RefundDirect
  <2>2. \A q \in RoundId : round'[q].state = round[q].state /\ round'[q].pot = round[q].pot
    <3>1. round[r] \in RoundType /\ round \in [RoundId -> RoundType]
      BY <1>0 DEF TypeOK
    <3>2. \/ round' = round
          \/ round' = [round EXCEPT ![r].claimed_proceeds
                                       = @ + Payout(miner[p].block_stake, round[r])]
      BY <1>7 DEF ClaimDirect, RefundDirect
    <3> QED BY <3>1, <3>2 DEF RoundType
  <2>3. /\ miner'[p].round_id = miner[p].round_id
        /\ Total(miner'[p].block_stake) = 0
        /\ \A q \in Player : q # p => miner'[q] = miner[q]
    BY <1>0, <2>1, SpentEffect, TotalNoStake
  <2>4. StakesInPot'
    BY <1>0, <2>2, <2>3 DEF StakesInPot
  <2>5. KeepsRefunds
    BY <1>0, <2>2 DEF KeepsRefunds
  <2> QED BY <2>4, <2>5
<1>8. ASSUME NEW r \in RoundId, CloseRound(r)
      PROVE  StakesInPot' /\ KeepsRefunds
  <2>1. /\ round'[r] = NoRound /\ \A q \in RoundId : q # r => round'[q] = round[q]
        /\ UNCHANGED miner
        /\ round[r].state = "claimable" \/ round[r].pot = 0
    BY <1>0, <1>8 DEF CloseRound, Closeable, TypeOK
  <2> QED BY <1>1, <2>1, NoRoundType DEF Unswapped
<1>9. ASSUME \/ \E p \in Player, a \in Amounts : Deposit(p, a) \/ Withdraw(p, a)
             \/ \E q \in ParamChoices : Admin(q)
             \/ Tick
             \/ UNCHANGED vars
      PROVE  StakesInPot' /\ KeepsRefunds
  <2>1. UNCHANGED round /\ UNCHANGED miner
    BY <1>9 DEF Deposit, Withdraw, Admin, Tick, vars
  <2> QED BY <1>1, <2>1
<1> QED BY <1>2, <1>3, <1>4, <1>5, <1>6, <1>7, <1>8, <1>9 DEF Next

(* A cancelled round stays cancelled, its account there, for every player  *)
(* who still has a stake on it, until that player moves.                   *)
THEOREM RefundsStayPayable == Spec => RefundsKept
<1>1. Init => Books /\ StakesInPot
  <2>1. ASSUME Init PROVE StakesInPot
    <3>1. \A p \in Player : miner[p].round_id = 0
      BY <2>1 DEF Init
    <3>2. round[0].state = "absent"
      BY <2>1, NoRoundType, SizeAssumption DEF Init, RoundId
    <3> QED BY <3>1, <3>2 DEF StakesInPot, Unswapped
  <2> QED BY <2>1, InitBooks
<1>2. Books /\ StakesInPot /\ [Next]_vars => Books' /\ StakesInPot' /\ KeepsRefunds
  BY StepBooks, StepRefunds
<1>3. RefundsKept <=> [][KeepsRefunds]_vars
  BY DEF RefundsKept, KeepsRefunds
<1> QED BY <1>1, <1>2, <1>3, PTL DEF Spec

-----------------------------------------------------------------------------
(* The commingled vault *)

LivePot == [r \in RoundId |-> IF round[r].state \in Unswapped THEN round[r].pot ELSE 0]

Back == [p \in Player |-> IF round[miner[p].round_id].state = "closed"
                          THEN Total(miner[p].block_stake) ELSE 0]

LEMMA SumsAre ==
  /\ LivePots = SumBelow(LivePot, MaxRounds + 1) /\ Refundable = SumBelow(Back, NumPlayers)
  /\ LivePots' = SumBelow(LivePot', MaxRounds + 1) /\ Refundable' = SumBelow(Back', NumPlayers)
  BY DEF LivePots, Refundable, LivePot, Back

LEMMA RoundIndex ==
  /\ MaxRounds + 1 \in Nat
  /\ \A r \in RoundId : r \in 0..(MaxRounds + 1) - 1
  /\ \A i \in 0..(MaxRounds + 1) - 1 : i \in RoundId
  BY SizeAssumption DEF RoundId

LEMMA PartNat ==
  ASSUME TypeOK
  PROVE  /\ \A r \in RoundId : LivePot[r] \in Nat
         /\ \A p \in Player : Back[p] \in Nat
<1>1. \A r \in RoundId : round[r].pot \in Nat
  BY DEF TypeOK, RoundType
<1>2. \A p \in Player : Total(miner[p].block_stake) \in Nat
  BY TotalNat DEF TypeOK
<1> QED BY <1>1, <1>2 DEF LivePot, Back

LEMMA PartNatNext ==
  ASSUME TypeOK'
  PROVE  /\ \A r \in RoundId : LivePot'[r] \in Nat
         /\ \A p \in Player : Back'[p] \in Nat
<1>1. \A r \in RoundId : round'[r].pot \in Nat
  BY DEF TypeOK, RoundType
<1>2. \A p \in Player : Total(miner'[p].block_stake) \in Nat
  BY TotalNat DEF TypeOK
<1> QED BY <1>1, <1>2 DEF LivePot, Back

LEMMA TotalsNat ==
  ASSUME TypeOK
  PROVE  LivePots \in Nat /\ Refundable \in Nat
  BY PartNat, SumNat, SumsAre, RoundIndex, SizeAssumption DEF Player

LEMMA TotalsNatNext ==
  ASSUME TypeOK'
  PROVE  LivePots' \in Nat /\ Refundable' \in Nat
  BY PartNatNext, SumNat, SumsAre, RoundIndex, SizeAssumption DEF Player

(* How a step that touches one round moves the sum of live pots. *)
LEMMA LivePotsAt ==
  ASSUME TypeOK, TypeOK', NEW r \in RoundId,
         \A q \in RoundId : q # r => round'[q] = round[q]
  PROVE  LivePots' = LivePots - LivePot[r] + LivePot'[r]
<1> DEFINE f == LivePot
           g == LivePot'
           n == MaxRounds + 1
<1>1. \A i \in RoundId : i # r => g[i] = f[i]
  BY DEF LivePot
<1>2. \A i \in RoundId : f[i] \in Nat /\ g[i] \in Nat
  BY PartNat, PartNatNext
<1>3. LivePots = SumBelow(f, n) /\ LivePots' = SumBelow(g, n)
  BY SumsAre
<1>4. n \in Nat /\ r \in 0..n-1 /\ \A i \in 0..n-1 : i \in RoundId
  BY RoundIndex
<1> HIDE DEF f, g, n
<1>5. SumBelow(g, n) = SumBelow(f, n) - f[r] + g[r]
  BY <1>1, <1>2, <1>4, SumAt
<1> QED BY <1>3, <1>5 DEF f, g

LEMMA LivePotsSame ==
  ASSUME \A r \in RoundId : LivePot'[r] = LivePot[r]
  PROVE  LivePots' = LivePots
  BY SumSame, SumsAre, RoundIndex

LEMMA RefundableAtMost ==
  ASSUME TypeOK, TypeOK', \A p \in Player : Back'[p] <= Back[p]
  PROVE  Refundable' <= Refundable
<1>1. \A i \in 0..NumPlayers-1 : Back'[i] \in Int /\ Back[i] \in Int /\ Back'[i] <= Back[i]
  BY PartNat, PartNatNext DEF Player
<1> QED BY <1>1, SumMono, SumsAre, SizeAssumption

LEMMA RefundableAt ==
  ASSUME TypeOK, TypeOK', NEW p \in Player, \A q \in Player : q # p => Back'[q] = Back[q]
  PROVE  Refundable' = Refundable - Back[p] + Back'[p]
<1> DEFINE f == Back
           g == Back'
<1>1. \A i \in 0..NumPlayers-1 : f[i] \in Int /\ g[i] \in Int /\ (i # p => g[i] = f[i])
  BY PartNat, PartNatNext DEF Player
<1>2. NumPlayers \in Nat /\ p \in 0..NumPlayers-1
  BY SizeAssumption DEF Player
<1>3. Refundable = SumBelow(f, NumPlayers) /\ Refundable' = SumBelow(g, NumPlayers)
  BY SumsAre
<1> HIDE DEF f, g
<1>4. SumBelow(g, NumPlayers) = SumBelow(f, NumPlayers) - f[p] + g[p]
  BY <1>1, <1>2, SumAt
<1> QED BY <1>3, <1>4 DEF f, g

(* A booked round's pot is what its players hold in it, player by player:  *)
(* the sum over squares of sums over players, exchanged.                   *)
LEMMA PotIsStakes ==
  ASSUME TypeOK, NEW r \in RoundId, BookedRound(r)
  PROVE  round[r].pot = SumBelow([p \in Player |-> Total(StakeIn(p, r))], NumPlayers)
<1> DEFINE M == [p \in 0..NumPlayers-1 |-> StakeIn(p, r)]
<1>1. \A i \in 0..NumPlayers-1, j \in 0..GRID_SIZE-1 : M[i][j] \in Int
  <2>1. ASSUME NEW i \in 0..NumPlayers-1, NEW j \in 0..GRID_SIZE-1
        PROVE  M[i][j] \in Int
    <3>1. StakeIn(i, r) \in [Square -> Nat] /\ j \in Square
      BY StakeInType, SquareIndex DEF Player
    <3> QED BY <3>1
  <2> QED BY <2>1
<1>2. NumPlayers \in Nat /\ GRID_SIZE \in Nat
  BY SizeAssumption, GridAssumption
<1>3. SumBelow([i \in 0..NumPlayers-1 |-> SumBelow(M[i], GRID_SIZE)], NumPlayers)
      = SumBelow([j \in 0..GRID_SIZE-1 |-> SumBelow([i \in 0..NumPlayers-1 |-> M[i][j]], NumPlayers)],
                 GRID_SIZE)
  <2> HIDE DEF M
  <2> QED BY <1>1, <1>2, SumExchange
<1>4. [i \in 0..NumPlayers-1 |-> SumBelow(M[i], GRID_SIZE)]
      = [p \in Player |-> Total(StakeIn(p, r))]
  BY DEF Player, Total
<1>5. ASSUME NEW j \in 0..GRID_SIZE-1
      PROVE  SumBelow([i \in 0..NumPlayers-1 |-> M[i][j]], NumPlayers) = round[r].block_sol[j]
  <2>1. [i \in 0..NumPlayers-1 |-> M[i][j]] = Held(r, j)
    BY DEF Held, Player
  <2>2. SumBelow(Held(r, j), NumPlayers) = round[r].block_sol[j]
    BY SquareIndex DEF BookedRound
  <2> QED BY <2>1, <2>2
<1>6. SumBelow([j \in 0..GRID_SIZE-1 |-> SumBelow([i \in 0..NumPlayers-1 |-> M[i][j]], NumPlayers)],
               GRID_SIZE)
      = SumBelow(round[r].block_sol, GRID_SIZE)
  <2> DEFINE f == [j \in 0..GRID_SIZE-1 |-> SumBelow([i \in 0..NumPlayers-1 |-> M[i][j]], NumPlayers)]
  <2>1. \A j \in 0..GRID_SIZE-1 : f[j] = round[r].block_sol[j]
    BY <1>5
  <2> HIDE DEF f
  <2>2. SumBelow(f, GRID_SIZE) = SumBelow(round[r].block_sol, GRID_SIZE)
    BY <1>2, <2>1, SumSame
  <2> QED BY <2>2 DEF f
<1>7. round[r].pot = SumBelow(round[r].block_sol, GRID_SIZE)
  BY DEF BookedRound, Total
<1> HIDE DEF M
<1> QED BY <1>3, <1>4, <1>6, <1>7

LEMMA CancelOwes ==
  ASSUME TypeOK, NEW r \in RoundId, round[r].state \in Unswapped, BookedRound(r),
         UNCHANGED miner, round'[r].state = "closed",
         \A q \in RoundId : q # r => round'[q] = round[q]
  PROVE  Refundable' = Refundable + round[r].pot
<1> DEFINE f == Back
           g == [p \in Player |-> Total(StakeIn(p, r))]
           h == Back'
<1>1. ASSUME NEW p \in Player
      PROVE  f[p] \in Int /\ g[p] \in Int /\ h[p] = f[p] + g[p]
  <2>1. /\ f[p] = IF round[miner[p].round_id].state = "closed"
                  THEN Total(miner[p].block_stake) ELSE 0
        /\ h[p] = IF round'[miner[p].round_id].state = "closed"
                  THEN Total(miner[p].block_stake) ELSE 0
        /\ g[p] = Total(StakeIn(p, r))
        /\ miner[p].round_id \in RoundId
    BY DEF Back, TypeOK
  <2>2. Total(miner[p].block_stake) \in Nat
    BY TotalNat DEF TypeOK
  <2>3. Total(StakeIn(p, r)) = IF miner[p].round_id = r THEN Total(miner[p].block_stake) ELSE 0
    BY TotalNoStake DEF StakeIn
  <2>4. round[r].state # "closed"
    BY DEF Unswapped
  <2> QED BY <2>1, <2>2, <2>3, <2>4
<1>2. Refundable = SumBelow(f, NumPlayers) /\ Refundable' = SumBelow(h, NumPlayers)
  BY SumsAre
<1>3. round[r].pot = SumBelow(g, NumPlayers)
  BY PotIsStakes
<1> HIDE DEF f, g, h
<1>4. SumBelow(h, NumPlayers) = SumBelow(f, NumPlayers) + SumBelow(g, NumPlayers)
  BY <1>1, SumPlus, SizeAssumption DEF Player
<1> QED BY <1>2, <1>3, <1>4

(* The vault gains d lamports, may be less than zero, and the live pots    *)
(* and refunds together grow by no more than d.                            *)
LEMMA SolvencyMoves ==
  ASSUME TypeOK, TypeOK', PotVaultSolvent, NEW d \in Int,
         UNCHANGED escrow, config'.total_escrow_balance = config.total_escrow_balance,
         pot_vault' = pot_vault + d,
         LivePots' + Refundable' <= LivePots + Refundable + d
  PROVE  PotVaultSolvent'
<1>2. config.total_escrow_balance \in Nat /\ pot_vault \in Nat
  BY DEF TypeOK, ConfigType
<1>3. pot_vault >= config.total_escrow_balance + LivePots + Refundable
  BY DEF PotVaultSolvent
<1>4. pot_vault' >= config'.total_escrow_balance + LivePots' + Refundable'
  BY <1>2, <1>3, TotalsNat, TotalsNatNext
<1>5. config'.total_escrow_balance = SumBelow(escrow', NumPlayers)
  BY DEF PotVaultSolvent
<1> QED BY <1>4, <1>5 DEF PotVaultSolvent

(* A step that leaves the vault and the escrows alone, keeps the live pots *)
(* and owes no player more.                                                *)
LEMMA SolvencyKept ==
  ASSUME TypeOK, TypeOK', PotVaultSolvent,
         UNCHANGED <<escrow, pot_vault>>,
         config'.total_escrow_balance = config.total_escrow_balance,
         \A r \in RoundId : LivePot'[r] = LivePot[r],
         \A p \in Player : Back'[p] <= Back[p]
  PROVE  PotVaultSolvent'
<1>1. LivePots' = LivePots /\ Refundable' <= Refundable
  BY LivePotsSame, RefundableAtMost
<1>2. pot_vault \in Nat
  BY DEF TypeOK
<1>3. pot_vault' = pot_vault + 0
  BY <1>2
<1>4. LivePots' + Refundable' <= LivePots + Refundable + 0
  BY <1>1, TotalsNat, TotalsNatNext
<1> QED BY <1>3, <1>4, SolvencyMoves

LEMMA SolvencyUntouched ==
  ASSUME TypeOK, TypeOK', PotVaultSolvent, UNCHANGED <<escrow, pot_vault, round, miner>>,
         config'.total_escrow_balance = config.total_escrow_balance
  PROVE  PotVaultSolvent'
<1>1. LivePot' = LivePot /\ Back' = Back
  BY DEF LivePot, Back
<1>2. \A p \in Player : Back[p] \in Nat
  BY PartNat
<1>3. \A p \in Player : Back'[p] <= Back[p]
  BY <1>1, <1>2
<1> QED BY <1>1, <1>3, SolvencyKept

LEMMA StakeSolvent ==
  ASSUME TypeOK, TypeOK', PotVaultSolvent,
         NEW p \in Player, NEW r \in RoundId, NEW s \in Square, NEW a \in Amounts,
         StakeDirect(p, r, s, a)
  PROVE  PotVaultSolvent'
<1>1. /\ round'[r].state = round[r].state /\ round[r].state = "open"
      /\ \A q \in RoundId : q # r => round'[q] = round[q]
  BY BookedEffect
<1>2. round'[r].pot = round[r].pot + a
  BY BookedPot
<1>3. miner'[p].round_id = r /\ \A q \in Player : q # p => miner'[q] = miner[q]
  BY StampEffect
<1>4. a \in Nat /\ round[r].pot \in Nat
  BY AmountAssumption DEF TypeOK, RoundType
<1>5. LivePot[r] = round[r].pot /\ LivePot'[r] = round[r].pot + a
  BY <1>1, <1>2 DEF LivePot, Unswapped
<1>6. LivePots' = LivePots - LivePot[r] + LivePot'[r]
  BY <1>1, LivePotsAt
<1>7. LivePots' = LivePots + a
  BY <1>4, <1>5, <1>6, TotalsNat
<1>8. \A q \in Player : Back[q] \in Nat
  BY PartNat
<1>9. \A q \in Player : Back'[q] <= Back[q]
  <2>1. Back'[p] = 0
    BY <1>1, <1>3 DEF Back
  <2>2. \A q \in Player : q # p => Back'[q] = Back[q]
    BY <1>1, <1>3 DEF Back, TypeOK
  <2> QED BY <1>8, <2>1, <2>2
<1>10. Refundable' <= Refundable
  BY <1>9, RefundableAtMost
<1>11. LivePots' + Refundable' <= LivePots + Refundable + a
  BY <1>4, <1>7, <1>10, TotalsNat, TotalsNatNext
<1>12. UNCHANGED escrow /\ UNCHANGED config /\ pot_vault' = pot_vault + a
  BY DEF StakeDirect
<1> QED BY <1>4, <1>11, <1>12, SolvencyMoves

LEMMA SwapSolvent ==
  ASSUME TypeOK, TypeOK', PotVaultSolvent, NEW r \in RoundId,
         ExecuteSwapMock(r) \/ \E out \in Outs : ExecuteSwapReal(r, out)
  PROVE  PotVaultSolvent'
<1>1. PICK out \in Nat : /\ round[r].state = "settled" /\ SellPot(r)
                        /\ FinalizeSwap(r, out)
                        /\ UNCHANGED <<params, miner, escrow, oracle, now>>
  BY SwapEffect
<1>2. /\ round'[r].state = "claimable"
      /\ \A q \in RoundId : q # r => round'[q] = round[q]
      /\ config'.total_escrow_balance = config.total_escrow_balance
  BY <1>1, FinalizeEffect
<1>3. pot_vault' = pot_vault - round[r].pot /\ round[r].pot \in Nat /\ pot_vault \in Nat
  BY <1>1 DEF SellPot, TypeOK, RoundType
<1>4. LivePot[r] = round[r].pot /\ LivePot'[r] = 0
  BY <1>1, <1>2 DEF LivePot, Unswapped
<1>5. LivePots' = LivePots - LivePot[r] + LivePot'[r]
  BY <1>2, LivePotsAt
<1>6. \A p \in Player : Back'[p] = Back[p] /\ Back[p] \in Nat
  <2>1. \A q \in RoundId : round'[q].state = "closed" <=> round[q].state = "closed"
    BY <1>1, <1>2
  <2>2. \A p \in Player : Back'[p] = Back[p]
    BY <1>1, <2>1 DEF Back, TypeOK
  <2> QED BY <2>2, PartNat
<1>7. Refundable' <= Refundable
  BY <1>6, RefundableAtMost
<1> DEFINE d == - round[r].pot
<1>8. d \in Int /\ pot_vault' = pot_vault + d
  BY <1>3
<1>9. LivePots' + Refundable' <= LivePots + Refundable + d
  BY <1>3, <1>4, <1>5, <1>7, TotalsNat, TotalsNatNext
<1> HIDE DEF d
<1> QED BY <1>1, <1>2, <1>8, <1>9, SolvencyMoves

LEMMA CancelSolvent ==
  ASSUME TypeOK, TypeOK', StakesBooked, PotVaultSolvent, NEW r \in RoundId, CancelRound(r)
  PROVE  PotVaultSolvent'
<1>1. /\ round' = [round EXCEPT ![r].state = "closed"] /\ round[r].state \in Unswapped
      /\ config'.total_escrow_balance = config.total_escrow_balance
      /\ UNCHANGED <<miner, escrow, pot_vault>>
  BY DEF CancelRound, TypeOK, ConfigType
<1>2. /\ round'[r].state = "closed" /\ \A q \in RoundId : q # r => round'[q] = round[q]
  BY <1>1, MarkedEffect
<1>3. Refundable' = Refundable + round[r].pot
  BY <1>1, <1>2, CancelOwes, StakesBookedIs
<1>4. LivePot[r] = round[r].pot /\ LivePot'[r] = 0
  BY <1>1, <1>2 DEF LivePot, Unswapped
<1>5. LivePots' = LivePots - LivePot[r] + LivePot'[r]
  BY <1>2, LivePotsAt
<1>6. round[r].pot \in Nat /\ pot_vault \in Nat
  BY DEF TypeOK, RoundType
<1>7. pot_vault' = pot_vault + 0 /\ LivePots' + Refundable' <= LivePots + Refundable + 0
  BY <1>1, <1>3, <1>4, <1>5, <1>6, TotalsNat
<1> QED BY <1>1, <1>7, SolvencyMoves

LEMMA RefundSolvent ==
  ASSUME TypeOK, TypeOK', PotVaultSolvent, NEW p \in Player, NEW r \in RoundId,
         RefundDirect(p, r)
  PROVE  PotVaultSolvent'
<1> DEFINE amount == Total(miner[p].block_stake)
<1>1. /\ round[r].state = "closed" /\ miner[p].round_id = r
      /\ pot_vault' = pot_vault - amount
      /\ miner' = [miner EXCEPT ![p] = Spent(@)]
      /\ UNCHANGED <<config, round, escrow>>
  BY DEF RefundDirect
<1>2. amount \in Nat /\ pot_vault \in Nat
  BY TotalNat DEF TypeOK
<1>3. /\ Total(miner'[p].block_stake) = 0
      /\ miner'[p].round_id = r
      /\ \A q \in Player : q # p => miner'[q] = miner[q]
  BY <1>1, SpentEffect, TotalNoStake
<1>4. Back[p] = amount /\ Back'[p] = 0 /\ \A q \in Player : q # p => Back'[q] = Back[q]
  BY <1>1, <1>3 DEF Back
<1>5. Refundable' = Refundable - Back[p] + Back'[p]
  BY <1>4, RefundableAt
<1>6. LivePots' = LivePots
  BY <1>1 DEF LivePots
<1>7. - amount \in Int /\ pot_vault' = pot_vault + (- amount)
  BY <1>1, <1>2
<1>8. LivePots' + Refundable' <= LivePots + Refundable + (- amount)
  BY <1>2, <1>4, <1>5, <1>6, TotalsNat
<1> HIDE DEF amount
<1> QED BY <1>1, <1>7, <1>8, SolvencyMoves

(* A deposit and a withdrawal move one player's escrow, the total and the  *)
(* vault by the same amount.                                               *)
LEMMA EscrowSolvent ==
  ASSUME TypeOK, TypeOK', PotVaultSolvent, NEW p \in Player, NEW d \in Int,
         UNCHANGED <<round, miner>>,
         escrow'[p] = escrow[p] + d,
         \A q \in Player : q # p => escrow'[q] = escrow[q],
         config'.total_escrow_balance = config.total_escrow_balance + d,
         pot_vault' = pot_vault + d
  PROVE  PotVaultSolvent'
<1>1. LivePots' = LivePots /\ Refundable' = Refundable
  BY DEF LivePots, Refundable
<1>2. /\ config.total_escrow_balance \in Nat /\ pot_vault \in Nat
      /\ \A q \in Player : escrow[q] \in Nat /\ escrow'[q] \in Nat
  BY DEF TypeOK, ConfigType
<1>3. SumBelow(escrow', NumPlayers) = SumBelow(escrow, NumPlayers) - escrow[p] + escrow'[p]
  <2> DEFINE f == escrow
             g == escrow'
  <2>1. \A i \in 0..NumPlayers-1 : f[i] \in Int /\ g[i] \in Int /\ (i # p => g[i] = f[i])
    BY <1>2 DEF Player
  <2>2. NumPlayers \in Nat /\ p \in 0..NumPlayers-1
    BY SizeAssumption DEF Player
  <2> HIDE DEF f, g
  <2>3. SumBelow(g, NumPlayers) = SumBelow(f, NumPlayers) - f[p] + g[p]
    BY <2>1, <2>2, SumAt
  <2> QED BY <2>3 DEF f, g
<1>4. config.total_escrow_balance = SumBelow(escrow, NumPlayers)
  BY DEF PotVaultSolvent
<1>5. config'.total_escrow_balance = SumBelow(escrow', NumPlayers)
  BY <1>2, <1>3, <1>4
<1>6. pot_vault >= config.total_escrow_balance + LivePots + Refundable
  BY DEF PotVaultSolvent
<1>7. pot_vault' >= config'.total_escrow_balance + LivePots' + Refundable'
  BY <1>1, <1>2, <1>6, TotalsNat
<1> QED BY <1>5, <1>7 DEF PotVaultSolvent

LEMMA StepSolvent ==
  Books /\ Books' /\ PotVaultSolvent /\ [Next]_vars => PotVaultSolvent'
<1> SUFFICES ASSUME Books, Books', PotVaultSolvent, [Next]_vars PROVE PotVaultSolvent'
  OBVIOUS
<1>0. /\ TypeOK /\ TypeOK' /\ Serialized /\ MinersPast /\ StakesBooked
      /\ \A p \in Player : Back[p] \in Nat /\ miner[p].round_id \in RoundId
  BY PartNat DEF Books, TypeOK
(* The miners and the vault do not move; one round moves, and owes the     *)
(* vault no more than before.                                              *)
<1>1. ASSUME UNCHANGED <<miner, escrow, pot_vault>>,
             config'.total_escrow_balance = config.total_escrow_balance,
             NEW r \in RoundId, \A q \in RoundId : q # r => round'[q] = round[q],
             LivePot'[r] = LivePot[r],
             \/ round'[r].state # "closed"
             \/ \A p \in Player : miner[p].round_id # r
      PROVE  PotVaultSolvent'
  <2>1. \A q \in RoundId : LivePot'[q] = LivePot[q]
    BY <1>1 DEF LivePot
  <2>2. ASSUME NEW p \in Player PROVE Back'[p] <= Back[p]
    <3>1. CASE miner[p].round_id = r
      <4>1. Back'[p] = 0
        BY <1>1, <3>1 DEF Back
      <4> QED BY <1>0, <4>1
    <3>2. CASE miner[p].round_id # r
      <4>1. Back'[p] = Back[p]
        BY <1>0, <1>1, <3>2 DEF Back
      <4> QED BY <1>0, <4>1
    <3> QED BY <3>1, <3>2
  <2> QED BY <1>0, <1>1, <2>1, <2>2, SolvencyKept
<1>2. CASE CreateRound
  <2>1. PICK id \in RoundId :
           /\ round[id] = NoRound
           /\ round'[id].pot = 0
           /\ \A q \in RoundId : q # id => round'[q] = round[q]
           /\ \A p \in Player : miner[p].round_id # id
    BY <1>0, <1>2, CreateEffect
  <2>2. LivePot'[id] = LivePot[id]
    BY <2>1, NoRoundType DEF LivePot, Unswapped
  <2>3. config'.total_escrow_balance = config.total_escrow_balance
    BY <1>0, <1>2 DEF CreateRound, TypeOK, ConfigType
  <2>4. UNCHANGED <<miner, escrow, pot_vault>>
    BY <1>2 DEF CreateRound
  <2> QED BY <1>1, <2>1, <2>2, <2>3, <2>4
<1>3. ASSUME NEW p \in Player, NEW r \in RoundId, NEW s \in Square, NEW a \in Amounts,
             StakeDirect(p, r, s, a)
      PROVE  PotVaultSolvent'
  BY <1>0, <1>3, StakeSolvent
<1>4. ASSUME NEW r \in RoundId, NEW d \in Draws, Settle(r, d) \/ SettleCallback(r, d)
      PROVE  PotVaultSolvent'
  <2>1. /\ Drawn(r, d) /\ round[r].state \in Unswapped
        /\ UNCHANGED <<config, miner, escrow, pot_vault>>
    BY <1>4 DEF Settle, SettleCallback, AwaitsDraw, Unswapped
  <2>2. /\ round'[r].state = "settled" /\ round'[r].pot = round[r].pot
        /\ \A q \in RoundId : q # r => round'[q] = round[q]
    BY <1>0, <2>1, DrawnEffect
  <2>3. LivePot'[r] = LivePot[r]
    BY <2>1, <2>2 DEF LivePot, Unswapped
  <2> QED BY <1>1, <2>1, <2>2, <2>3
<1>5. ASSUME NEW r \in RoundId, RequestSettle(r)
      PROVE  PotVaultSolvent'
  <2>1. /\ round' = [round EXCEPT ![r].state = "vrf_pending"]
        /\ round[r].state = "open"
        /\ UNCHANGED <<config, miner, escrow, pot_vault>>
    BY <1>5 DEF RequestSettle
  <2>2. /\ round'[r].state = "vrf_pending" /\ round'[r].pot = round[r].pot
        /\ \A q \in RoundId : q # r => round'[q] = round[q]
    BY <1>0, <2>1, MarkedEffect
  <2>3. LivePot'[r] = LivePot[r]
    BY <2>1, <2>2 DEF LivePot, Unswapped
  <2> QED BY <1>1, <2>1, <2>2, <2>3
<1>6. ASSUME NEW r \in RoundId,
             ExecuteSwapMock(r) \/ \E out \in Outs : ExecuteSwapReal(r, out)
      PROVE  PotVaultSolvent'
  BY <1>0, <1>6, SwapSolvent
<1>7. ASSUME NEW p \in Player, NEW r \in RoundId, ClaimDirect(p, r)
      PROVE  PotVaultSolvent'
  <2>1. /\ round[r].state = "claimable" /\ miner[p].round_id = r
        /\ miner' = [miner EXCEPT ![p] = Spent(@)]
        /\ UNCHANGED <<escrow, pot_vault>>
    BY <1>7 DEF ClaimDirect
  <2>2. config'.total_escrow_balance = config.total_escrow_balance
    BY <1>0, <1>7 DEF ClaimDirect, TypeOK, ConfigType
  <2>3. \A q \in RoundId : round'[q].state = round[q].state /\ round'[q].pot = round[q].pot
    BY <1>0, <1>7 DEF ClaimDirect, TypeOK, RoundType
  <2>4. \A q \in RoundId : LivePot'[q] = LivePot[q]
    BY <2>3 DEF LivePot
  <2>5. /\ miner'[p].round_id = r
        /\ \A q \in Player : q # p => miner'[q] = miner[q]
    BY <1>0, <2>1, SpentEffect
  <2>6. \A q \in Player : Back'[q] = Back[q]
    BY <1>0, <2>1, <2>3, <2>5 DEF Back
  <2>7. \A q \in Player : Back'[q] <= Back[q]
    BY <1>0, <2>6
  <2> QED BY <1>0, <2>1, <2>2, <2>4, <2>7, SolvencyKept
<1>8. ASSUME NEW r \in RoundId, CancelRound(r)
      PROVE  PotVaultSolvent'
  BY <1>0, <1>8, CancelSolvent
<1>9. ASSUME NEW p \in Player, NEW r \in RoundId, RefundDirect(p, r)
      PROVE  PotVaultSolvent'
  BY <1>0, <1>9, RefundSolvent
<1>10. ASSUME NEW r \in RoundId, CloseRound(r)
       PROVE  PotVaultSolvent'
  <2>1. /\ round[r].state \in {"claimable", "closed"}
        /\ round'[r] = NoRound
        /\ \A q \in RoundId : q # r => round'[q] = round[q]
        /\ UNCHANGED <<miner, escrow, pot_vault>>
    BY <1>0, <1>10 DEF CloseRound, Closeable, TypeOK
  <2>2. config'.total_escrow_balance = config.total_escrow_balance
    BY <1>0, <1>10 DEF CloseRound, TypeOK, ConfigType
  <2>3. LivePot'[r] = LivePot[r] /\ round'[r].state # "closed"
    BY <2>1, NoRoundType DEF LivePot, Unswapped
  <2> QED BY <1>1, <2>1, <2>2, <2>3
<1>11. ASSUME NEW p \in Player, NEW a \in Amounts, Deposit(p, a)
       PROVE  PotVaultSolvent'
  <2>1. a \in Int /\ config \in ConfigType /\ escrow \in [Player -> Nat]
    BY <1>0, AmountAssumption DEF TypeOK
  <2>2. /\ escrow'[p] = escrow[p] + a
        /\ \A q \in Player : q # p => escrow'[q] = escrow[q]
        /\ config'.total_escrow_balance = config.total_escrow_balance + a
        /\ pot_vault' = pot_vault + a
        /\ UNCHANGED <<round, miner>>
    BY <1>11, <2>1 DEF Deposit, ConfigType
  <2> QED BY <1>0, <2>1, <2>2, EscrowSolvent
<1>12. ASSUME NEW p \in Player, NEW a \in Amounts, Withdraw(p, a)
       PROVE  PotVaultSolvent'
  <2>1. /\ a \in Nat /\ config \in ConfigType /\ escrow \in [Player -> Nat]
        /\ escrow[p] \in Nat /\ config.total_escrow_balance \in Nat /\ pot_vault \in Nat
    BY <1>0, AmountAssumption DEF TypeOK, ConfigType
  <2>2. /\ escrow'[p] = escrow[p] - a
        /\ \A q \in Player : q # p => escrow'[q] = escrow[q]
        /\ config'.total_escrow_balance = config.total_escrow_balance - a
        /\ pot_vault' = pot_vault - a
        /\ UNCHANGED <<round, miner>>
    BY <1>12, <2>1 DEF Withdraw, ConfigType
  <2> DEFINE d == - a
  <2>3. /\ d \in Int
        /\ escrow'[p] = escrow[p] + d
        /\ config'.total_escrow_balance = config.total_escrow_balance + d
        /\ pot_vault' = pot_vault + d
    BY <2>1, <2>2
  <2> HIDE DEF d
  <2> QED BY <1>0, <2>2, <2>3, EscrowSolvent
<1>13. ASSUME (\E q \in ParamChoices : Admin(q)) \/ Tick \/ UNCHANGED vars
       PROVE  PotVaultSolvent'
  <2>1. UNCHANGED <<config, round, miner, escrow, pot_vault>>
    BY <1>13 DEF Admin, Tick, vars
  <2> QED BY <1>0, <2>1, SolvencyUntouched
<1> QED BY <1>2, <1>3, <1>4, <1>5, <1>6, <1>7, <1>8, <1>9, <1>10, <1>11, <1>12, <1>13 DEF Next

LEMMA InitSolvent == Init => PotVaultSolvent
<1> SUFFICES ASSUME Init PROVE PotVaultSolvent
  OBVIOUS
<1>1. TypeOK
  BY InitType
<1>2. /\ pot_vault = 0 /\ config.total_escrow_balance = 0
      /\ \A p \in Player : escrow[p] = 0 /\ miner[p].round_id = 0
      /\ \A r \in RoundId : round[r].state = "absent"
  BY NoRoundType DEF Init
<1>3. 0 \in RoundId /\ NumPlayers \in Nat
  BY SizeAssumption DEF RoundId
<1>4. \A i \in 0..(MaxRounds + 1) - 1 : LivePot[i] = 0
  BY <1>2, RoundIndex DEF LivePot, Unswapped
<1>5. \A i \in 0..NumPlayers-1 : Back[i] = 0 /\ escrow[i] = 0
  BY <1>2, <1>3 DEF Back, Player
<1>6. LivePots = 0 /\ Refundable = 0 /\ SumBelow(escrow, NumPlayers) = 0
  BY <1>3, <1>4, <1>5, RoundIndex, SumsAre, SumZeros
<1> QED BY <1>2, <1>6 DEF PotVaultSolvent

(* The commingled vault can always pay every idle escrow, the pot of the   *)
(* live round and every refund a cancelled round still owes.  Cancelling   *)
(* moves a whole pot from the second debt to the third: that it is the     *)
(* same amount is BooksAreStakes.                                          *)
THEOREM PotVaultIsSolvent == Spec => []PotVaultSolvent
<1>1. Init => Books /\ PotVaultSolvent
  BY InitBooks, InitSolvent
<1>2. Books /\ PotVaultSolvent /\ [Next]_vars => Books' /\ PotVaultSolvent'
  BY StepBooks, StepSolvent
<1> QED BY <1>1, <1>2, PTL DEF Spec

-----------------------------------------------------------------------------
(* What a round owes its claimants *)

(* Nothing has been claimed of a round that is not claimable. *)
Unclaimed == \A r \in RoundId : round[r].state # "claimable" => round[r].claimed_proceeds = 0

(* What claim_direct would pay each player for a round. *)
Due(r) == [p \in Player |-> Payout(StakeIn(p, r), round[r])]

Covered(r) ==
  round[r].claimed_proceeds + SumBelow(Due(r), NumPlayers) <= round[r].entitlement_total

LEMMA ClaimsCoveredIs ==
  /\ ClaimsCovered <=> \A r \in RoundId : round[r].state = "claimable" => Covered(r)
  /\ ClaimsCovered' <=> \A r \in RoundId : round'[r].state = "claimable" => Covered(r)'
  BY DEF ClaimsCovered, Covered, Due

(* The weights of a round's players add up to the weight of its grid. *)
LEMMA BoardIsBooked ==
  ASSUME TypeOK, NEW r \in RoundId, BookedRound(r), NEW d, IsDraw(d),
         NEW lo, NEW hi, IsBand(lo, hi)
  PROVE  SumBelow([p \in Player |-> return_weight(StakeIn(p, r), d, lo, hi)], NumPlayers)
         = return_weight(round[r].block_sol, d, lo, hi)
<1> DEFINE M == [p \in Player |-> Term(StakeIn(p, r), d, lo, hi)]
           board == round[r].block_sol
           n == NumPlayers
           col(s) == [p \in 0..n-1 |-> M[p][s]]
<1>1. /\ n \in Nat /\ GRID_SIZE \in Nat /\ Player = 0..n-1 /\ Square = 0..GRID_SIZE-1
      /\ board \in [Square -> Nat]
      /\ \A p \in Player : StakeIn(p, r) \in [Square -> Nat]
  BY SizeAssumption, GridAssumption, StakeInType DEF Player, Square, TypeOK, RoundType
<1>2. \A p \in Player, s \in Square : M[p][s] = Term(StakeIn(p, r), d, lo, hi)[s] /\ M[p][s] \in Nat
  BY <1>1, TermRange
<1>3. SumBelow([p \in 0..n-1 |-> SumBelow(M[p], GRID_SIZE)], n)
      = SumBelow([s \in 0..GRID_SIZE-1 |-> SumBelow([p \in 0..n-1 |-> M[p][s]], n)], GRID_SIZE)
  <2>1. \A i \in 0..n-1, j \in 0..GRID_SIZE-1 : M[i][j] \in Int
    BY <1>1, <1>2
  <2> HIDE DEF M
  <2> QED BY <1>1, <2>1, SumExchange
<1>4. \A p \in Player : M[p] = Term(StakeIn(p, r), d, lo, hi)
  OBVIOUS
<1> HIDE DEF M
<1>5. [p \in 0..n-1 |-> SumBelow(M[p], GRID_SIZE)]
      = [p \in Player |-> return_weight(StakeIn(p, r), d, lo, hi)]
  BY <1>1, <1>4, WeightIsSum
<1>6. \A s \in Square : SumBelow(col(s), n) = Term(board, d, lo, hi)[s]
  <2> TAKE s \in Square
  <2> DEFINE c == IF s = d.square THEN 0 ELSE multiplier_bps(d, s, lo, hi)
  <2>1. c \in Int
    BY MultiplierRange
  <2>2. \A p \in Player : Term(StakeIn(p, r), d, lo, hi)[s] = c * StakeIn(p, r)[s]
                          /\ StakeIn(p, r)[s] \in Nat
    <3> TAKE p \in Player
    <3>1. Term(StakeIn(p, r), d, lo, hi)[s]
          = IF s = d.square THEN 0 ELSE StakeIn(p, r)[s] * multiplier_bps(d, s, lo, hi)
      BY DEF Term
    <3>2. StakeIn(p, r)[s] \in Nat
      BY <1>1
    <3> DEFINE f == multiplier_bps(d, s, lo, hi)
               x == StakeIn(p, r)[s]
    <3>3. f \in Nat
      BY MultiplierRange
    <3> HIDE DEF f, x
    <3>4. (IF s = d.square THEN 0 ELSE x * f) = (IF s = d.square THEN 0 ELSE f) * x
      <4>1. x \in Nat
        BY <3>2 DEF x
      <4> QED BY <3>3, <4>1
    <3> QED BY <3>1, <3>2, <3>4 DEF f, x
  <2>3. Term(board, d, lo, hi)[s] = c * board[s]
    <3>1. Term(board, d, lo, hi)[s]
          = IF s = d.square THEN 0 ELSE board[s] * multiplier_bps(d, s, lo, hi)
      BY DEF Term
    <3> DEFINE f == multiplier_bps(d, s, lo, hi)
               x == board[s]
    <3>2. f \in Nat /\ x \in Nat
      BY <1>1, MultiplierRange
    <3> HIDE DEF f, x
    <3>3. (IF s = d.square THEN 0 ELSE x * f) = (IF s = d.square THEN 0 ELSE f) * x
      BY <3>2
    <3> QED BY <3>1, <3>3 DEF f, x
  <2> HIDE DEF c
  <2>4. board[s] = SumBelow(Held(r, s), n)
    BY DEF BookedRound
  <2>5. \A p \in 0..n-1 : Held(r, s)[p] \in Int /\ col(s)[p] = c * Held(r, s)[p]
    <3> TAKE p \in 0..n-1
    <3>1. p \in Player /\ Held(r, s)[p] = StakeIn(p, r)[s]
      BY <1>1 DEF Held
    <3>2. col(s)[p] = M[p][s]
      OBVIOUS
    <3> QED BY <1>2, <2>2, <3>1, <3>2
  <2>6. SumBelow(col(s), n) = c * SumBelow(Held(r, s), n)
    <3> DEFINE g == col(s)
               h == Held(r, s)
    <3> HIDE DEF g, h
    <3>1. SumBelow(g, n) = c * SumBelow(h, n)
      <4>1. \A p \in 0..n-1 : h[p] \in Int /\ g[p] = c * h[p]
        BY <2>5 DEF g, h
      <4>2. n \in Nat
        BY SizeAssumption
      <4> HIDE DEF n
      <4> QED BY <2>1, <4>1, <4>2, SumScale
    <3> QED BY <3>1 DEF g, h
  <2> QED BY <2>3, <2>4, <2>6
<1>7. SumBelow([s \in 0..GRID_SIZE-1 |-> SumBelow(col(s), n)], GRID_SIZE)
      = SumBelow(Term(board, d, lo, hi), GRID_SIZE)
  <2> DEFINE f == [s \in 0..GRID_SIZE-1 |-> SumBelow(col(s), n)]
             g == Term(board, d, lo, hi)
  <2>1. \A s \in 0..GRID_SIZE-1 : f[s] = g[s]
    BY <1>1, <1>6
  <2> HIDE DEF f, g
  <2>2. SumBelow(f, GRID_SIZE) = SumBelow(g, GRID_SIZE)
    BY <1>1, <2>1, SumSame
  <2> QED BY <2>2 DEF f, g
<1> QED BY <1>3, <1>5, <1>7, WeightIsSum

(* Payout with the band spelled out. *)
PayoutUnder(stake, rd, lo, hi) ==
  nonjackpot_payout(return_weight(stake, rd.randomness, lo, hi), rd.pot, rd.swap_proceeds)
  + jackpot_share(rd.jackpot_pool, stake[rd.randomness.square],
                  rd.block_sol[rd.randomness.square])

LEMMA DueIs ==
  ASSUME NEW r
  PROVE  /\ Due(r) = [p \in Player |-> PayoutUnder(StakeIn(p, r), round[r],
                                           params.mult_min_bps, params.mult_max_bps)]
         /\ Due(r)' = [p \in Player |-> PayoutUnder(StakeIn(p, r)', round'[r],
                                           params'.mult_min_bps, params'.mult_max_bps)]
  BY DEF Due, Payout, PayoutUnder

(* A division of the proceeds by weight stays within the division of the   *)
(* whole weight.                                                           *)
LEMMA NonjackpotShares ==
  ASSUME NEW w, NEW share, NEW n \in Nat, NEW pot \in Nat, NEW out \in Nat,
         \A i \in 0..n-1 : w[i] \in Nat /\ share[i] = nonjackpot_payout(w[i], pot, out)
  PROVE  SumBelow(share, n) <= nonjackpot_payout(SumBelow(w, n), pot, out)
<1>1. CASE pot = 0
  <2>1. \A i \in 0..n-1 : share[i] = 0
    BY <1>1 DEF nonjackpot_payout
  <2>2. SumBelow(share, n) = 0
    BY <2>1, SumZeros
  <2> QED BY <1>1, <2>2 DEF nonjackpot_payout
<1>2. CASE pot # 0
  <2> DEFINE d == pot * BPS
  <2>1. d \in Nat \ {0}
    BY <1>2 DEF BPS
  <2>2. \A i \in 0..n-1 : w[i] \in Nat /\ share[i] = (out * w[i]) \div d
    BY <1>2 DEF nonjackpot_payout
  <2>3. nonjackpot_payout(SumBelow(w, n), pot, out) = (out * SumBelow(w, n)) \div d
    BY <1>2 DEF nonjackpot_payout
  <2> HIDE DEF d
  <2> QED BY <2>1, <2>2, <2>3, SumFloors
<1> QED BY <1>1, <1>2

(* The shares of the jackpot stay within the pool. *)
LEMMA JackpotShares ==
  ASSUME NEW mine, NEW share, NEW n \in Nat, NEW pool \in Nat, NEW total \in Nat,
         total = SumBelow(mine, n),
         \A i \in 0..n-1 : mine[i] \in Nat /\ share[i] = jackpot_share(pool, mine[i], total)
  PROVE  SumBelow(share, n) <= pool
<1>1. CASE total = 0
  <2>1. \A i \in 0..n-1 : share[i] = 0
    BY <1>1 DEF jackpot_share
  <2> QED BY <2>1, SumZeros
<1>2. CASE total # 0
  <2>1. \A i \in 0..n-1 : mine[i] \in Nat /\ share[i] = (pool * mine[i]) \div total
    BY <1>2 DEF jackpot_share
  <2>2. SumBelow(share, n) <= (pool * total) \div total
    BY <1>2, <2>1, SumFloors
  <2>3. pool * total \in Nat /\ pool * total <= total * pool
    OBVIOUS
  <2>4. (pool * total) \div total \in Nat /\ (pool * total) \div total <= pool
    BY <1>2, <2>3, DivNat, DivAtMost
  <2>5. SumBelow(share, n) \in Int
    <3>1. \A i \in 0..n-1 : share[i] \in Nat
      <4> TAKE i \in 0..n-1
      <4>1. pool * mine[i] \in Nat
        BY <2>1
      <4> QED BY <1>2, <2>1, <4>1, DivNat
    <3> QED BY <3>1, SumNat
  <2> QED BY <2>2, <2>4, <2>5
<1> QED BY <1>1, <1>2

(* However the players of a booked round divide its proceeds and its       *)
(* jackpot, every payout floored on its own, they never get more than the  *)
(* round as a whole is entitled to.                                        *)
LEMMA SharesFit ==
  ASSUME TypeOK, NEW r \in RoundId, BookedRound(r), NEW rd, NEW lo, NEW hi, IsBand(lo, hi),
         IsDraw(rd.randomness), rd.randomness.square \in Square,
         rd.block_sol = round[r].block_sol, rd.pot = round[r].pot,
         rd.swap_proceeds \in Nat, rd.jackpot_pool \in Nat
  PROVE  SumBelow([p \in Player |-> PayoutUnder(StakeIn(p, r), rd, lo, hi)], NumPlayers)
         <= nonjackpot_payout(return_weight(rd.block_sol, rd.randomness, lo, hi),
                              rd.pot, rd.swap_proceeds)
            + rd.jackpot_pool
<1> DEFINE d     == rd.randomness
           out   == rd.swap_proceeds
           pool  == rd.jackpot_pool
           total == rd.block_sol[d.square]
           w     == [p \in Player |-> return_weight(StakeIn(p, r), d, lo, hi)]
           nj    == [p \in Player |-> nonjackpot_payout(w[p], rd.pot, out)]
           mine  == Held(r, d.square)
           jp    == [p \in Player |-> jackpot_share(pool, mine[p], total)]
           all   == [p \in Player |-> PayoutUnder(StakeIn(p, r), rd, lo, hi)]
           W     == return_weight(rd.block_sol, d, lo, hi)
<1>1. NumPlayers \in Nat /\ Player = 0..NumPlayers-1 /\ rd.pot \in Nat /\ total \in Nat
  BY SizeAssumption DEF Player, TypeOK, RoundType
<1>2. \A p \in Player : w[p] \in Nat
  BY StakeInType, WeightNat
<1>3. SumBelow(w, NumPlayers) = W
  BY BoardIsBooked
<1>4. \A p \in Player : mine[p] = StakeIn(p, r)[d.square] /\ mine[p] \in Nat
  BY HeldType
<1>5. SumBelow(mine, NumPlayers) = total
  BY DEF BookedRound
<1>6. \A p \in Player : all[p] = nj[p] + jp[p]
  BY <1>4 DEF PayoutUnder
<1>7. \A p \in Player : /\ nj[p] = nonjackpot_payout(w[p], rd.pot, out)
                        /\ jp[p] = jackpot_share(pool, mine[p], total)
                        /\ nj[p] \in Nat /\ jp[p] \in Nat
  BY <1>1, <1>2, <1>4, NonjackpotNat, JackpotShareNat
<1> HIDE DEF w, nj, mine, jp, all, total, W
<1>8. SumBelow(nj, NumPlayers) <= nonjackpot_payout(W, rd.pot, out)
  BY <1>1, <1>2, <1>3, <1>7, NonjackpotShares
<1>9. SumBelow(jp, NumPlayers) <= pool
  <2>1. \A i \in 0..NumPlayers-1 : /\ mine[i] \in Nat
                                   /\ jp[i] = jackpot_share(pool, mine[i], total)
    BY <1>1, <1>4, <1>7
  <2> HIDE DEF pool, d
  <2>2. pool \in Nat
    BY DEF pool
  <2> QED BY <1>1, <1>5, <2>1, <2>2, JackpotShares
<1>10. SumBelow(all, NumPlayers) = SumBelow(nj, NumPlayers) + SumBelow(jp, NumPlayers)
  BY <1>1, <1>6, <1>7, SumPlus
<1>11. SumBelow(nj, NumPlayers) \in Nat /\ SumBelow(jp, NumPlayers) \in Nat
  BY <1>1, <1>7, SumNat
<1>12. nonjackpot_payout(W, rd.pot, out) \in Nat
  <2>1. W \in Nat
    BY WeightNat DEF TypeOK, RoundType, W
  <2> QED BY <1>1, <2>1, NonjackpotNat
<1>13. SumBelow(all, NumPlayers) <= nonjackpot_payout(W, rd.pot, out) + pool
  BY <1>8, <1>9, <1>10, <1>11, <1>12
<1> QED BY <1>13 DEF all, W

(* What the swap leaves a round with, and where the proceeds go. *)
LEMMA PoolNat ==
  ASSUME TypeOK, NEW r \in RoundId, round[r].state = "settled", NEW out \in Nat,
         NjTotal(round[r], out) <= out
  PROVE  /\ JackpotPool(round[r], out) \in Nat
         /\ NewRollover(round[r], out) \in Nat
         /\ NewRollover(round[r], out) + NjTotal(round[r], out) + JackpotPool(round[r], out)
            = config.rollover_jackpot + out
<1>1. /\ NjTotal(round[r], out) \in Nat /\ WinningStake(round[r]) \in Nat
      /\ Bite(round[r], out) \in Nat /\ Bite(round[r], out) <= config.rollover_jackpot
  BY SwapTypes
<1>2. config.rollover_jackpot \in Nat
  BY DEF TypeOK, ConfigType
<1> DEFINE nj == NjTotal(round[r], out)
           bite == Bite(round[r], out)
           win == WinningStake(round[r])
<1>3. /\ JackpotPool(round[r], out) = IF win > 0 THEN (out - nj) + bite ELSE 0
      /\ NewRollover(round[r], out) = IF win > 0 THEN config.rollover_jackpot - bite
                                      ELSE config.rollover_jackpot + (out - nj)
  BY DEF JackpotPool, NewRollover
<1> HIDE DEF nj, bite, win
<1>4. nj \in Nat /\ bite \in Nat /\ win \in Nat /\ nj <= out /\ bite <= config.rollover_jackpot
  BY <1>1 DEF nj, bite, win
<1>5. /\ JackpotPool(round[r], out) \in Nat
      /\ NewRollover(round[r], out) \in Nat
      /\ NewRollover(round[r], out) + nj + JackpotPool(round[r], out)
         = config.rollover_jackpot + out
  BY <1>2, <1>3, <1>4
<1> QED BY <1>5 DEF nj

(* A round comes out of its swap covered. *)
LEMMA SwapCovers ==
  ASSUME TypeOK, Unclaimed, StakesBooked, NEW r \in RoundId, NEW out \in Nat,
         round[r].state = "settled", FinalizeSwap(r, out), UNCHANGED <<params, miner>>
  PROVE  Covered(r)'
<1>1. /\ round'[r].pot = round[r].pot
      /\ round'[r].block_sol = round[r].block_sol
      /\ round'[r].randomness = round[r].randomness
      /\ round'[r].claimed_proceeds = round[r].claimed_proceeds
      /\ round'[r].swap_proceeds = out
      /\ round'[r].jackpot_pool = JackpotPool(round[r], out)
      /\ round'[r].entitlement_total = NjTotal(round[r], out) + JackpotPool(round[r], out)
  BY FinalizeEffect
<1>2. NjTotal(round[r], out) <= out
  BY DEF FinalizeSwap
<1>3. JackpotPool(round[r], out) \in Nat /\ NjTotal(round[r], out) \in Nat
  BY <1>2, PoolNat, SwapTypes
<1>4. IsDraw(round[r].randomness) /\ round[r].randomness.square \in Square
  BY DrawsAreDraws DEF TypeOK
<1>5. IsBand(params.mult_min_bps, params.mult_max_bps)
  BY BandOK DEF TypeOK
<1>6. BookedRound(r) /\ round[r].claimed_proceeds = 0
  BY StakesBookedIs DEF Unclaimed, Unswapped
<1> DEFINE rd == round'[r]
           lo == params.mult_min_bps
           hi == params.mult_max_bps
           all == [p \in Player |-> PayoutUnder(StakeIn(p, r), rd, lo, hi)]
<1>7. SumBelow(all, NumPlayers)
      <= nonjackpot_payout(return_weight(rd.block_sol, rd.randomness, lo, hi),
                           rd.pot, rd.swap_proceeds)
         + rd.jackpot_pool
  <2>1. /\ rd.block_sol = round[r].block_sol /\ rd.pot = round[r].pot
        /\ rd.randomness = round[r].randomness
        /\ rd.swap_proceeds \in Nat /\ rd.jackpot_pool \in Nat
    BY <1>1, <1>3
  <2> HIDE DEF rd, lo, hi
  <2>2. IsDraw(rd.randomness) /\ rd.randomness.square \in Square
    BY <1>4, <2>1
  <2>3. IsBand(lo, hi)
    BY <1>5 DEF lo, hi
  <2> QED BY <1>6, <2>1, <2>2, <2>3, SharesFit
<1>8. nonjackpot_payout(return_weight(rd.block_sol, rd.randomness, lo, hi),
                        rd.pot, rd.swap_proceeds) = NjTotal(round[r], out)
  BY <1>1 DEF NjTotal
<1>9. Due(r)' = all
  <2>1. \A p \in Player : StakeIn(p, r)' = StakeIn(p, r)
    BY DEF StakeIn
  <2>2. params' = params
    OBVIOUS
  <2> QED BY <2>1, <2>2, DueIs
<1> DEFINE sum == SumBelow(all, NumPlayers)
<1>10. sum <= NjTotal(round[r], out) + JackpotPool(round[r], out)
  BY <1>1, <1>7, <1>8
<1>11. SumBelow(Due(r)', NumPlayers) = sum
  BY <1>9
<1>12. sum \in Int
  <2>1. \A p \in Player : all[p] = PayoutUnder(StakeIn(p, r), rd, lo, hi)
    OBVIOUS
  <2>2. ASSUME NEW p \in Player
        PROVE  PayoutUnder(StakeIn(p, r), rd, lo, hi) \in Nat
    <3>1. StakeIn(p, r) \in [Square -> Nat] /\ rd.pot \in Nat /\ rd.block_sol \in [Square -> Nat]
      BY <1>1, StakeInType DEF TypeOK, RoundType
    <3>2. return_weight(StakeIn(p, r), rd.randomness, lo, hi) \in Nat
      BY <1>1, <1>4, <1>5, <3>1, WeightNat
    <3> DEFINE wt == return_weight(StakeIn(p, r), rd.randomness, lo, hi)
               mine == StakeIn(p, r)[rd.randomness.square]
               total == rd.block_sol[rd.randomness.square]
    <3>3. mine \in Nat /\ total \in Nat /\ wt \in Nat /\ rd.swap_proceeds \in Nat
          /\ rd.jackpot_pool \in Nat
      BY <1>1, <1>3, <1>4, <3>1, <3>2
    <3>4. PayoutUnder(StakeIn(p, r), rd, lo, hi)
          = nonjackpot_payout(wt, rd.pot, rd.swap_proceeds)
            + jackpot_share(rd.jackpot_pool, mine, total)
      BY DEF PayoutUnder
    <3> HIDE DEF wt, mine, total, rd
    <3>5. nonjackpot_payout(wt, rd.pot, rd.swap_proceeds) \in Nat
      BY <3>1, <3>3, NonjackpotNat
    <3>6. jackpot_share(rd.jackpot_pool, mine, total) \in Nat
      BY <3>3, JackpotShareNat
    <3> QED BY <3>4, <3>5, <3>6
  <2> HIDE DEF all
  <2>3. \A i \in 0..NumPlayers-1 : all[i] \in Int
    BY <2>1, <2>2 DEF Player
  <2> QED BY <2>3, SumInt, SizeAssumption
<1> HIDE DEF all, sum
<1> QED BY <1>1, <1>3, <1>6, <1>10, <1>11, <1>12 DEF Covered

(* A stake that is no stake is paid nothing. *)
LEMMA NothingForNothing ==
  ASSUME TypeOK, NEW r \in RoundId, round[r].state = "claimable"
  PROVE  Payout(NoStake, round[r]) = 0
<1> DEFINE d == round[r].randomness
           lo == params.mult_min_bps
           hi == params.mult_max_bps
<1>1. /\ IsDraw(d) /\ d.square \in Square /\ IsBand(lo, hi)
      /\ round[r].pot \in Nat /\ round[r].swap_proceeds \in Nat
      /\ round[r].jackpot_pool \in Nat /\ round[r].block_sol[d.square] \in Nat
  BY DrawsAreDraws, BandOK DEF TypeOK, RoundType
<1>2. return_weight(NoStake, d, lo, hi) = 0
  <2>1. return_weight(NoStake, d, lo, hi) \in Nat
    BY <1>1, NoStakeType, WeightNat
  <2>2. return_weight(NoStake, d, lo, hi) <= hi * 0
    BY <1>1, NoStakeType, WeightAtMost, TotalNoStake
  <2>3. hi \in Nat
    BY <1>1 DEF IsBand
  <2> HIDE DEF hi, lo, d
  <2> QED BY <2>1, <2>2, <2>3
<1>3. nonjackpot_payout(0, round[r].pot, round[r].swap_proceeds) = 0
  <2> DEFINE n == round[r].pot * BPS
  <2>1. CASE round[r].pot = 0
    BY <2>1 DEF nonjackpot_payout
  <2>2. CASE round[r].pot # 0
    <3>1. n \in Nat \ {0}
      BY <1>1, <2>2 DEF BPS
    <3>2. nonjackpot_payout(0, round[r].pot, round[r].swap_proceeds) = 0 \div n
      BY <1>1, <2>2 DEF nonjackpot_payout
    <3> HIDE DEF n
    <3> QED BY <3>1, <3>2
  <2> QED BY <2>1, <2>2
<1>4. jackpot_share(round[r].jackpot_pool, NoStake[d.square], round[r].block_sol[d.square]) = 0
  <2> DEFINE total == round[r].block_sol[d.square]
             pool == round[r].jackpot_pool
  <2>1. NoStake[d.square] = 0
    BY <1>1 DEF NoStake
  <2>2. total \in Nat /\ pool \in Nat
    BY <1>1
  <2> HIDE DEF total, pool
  <2>3. jackpot_share(pool, 0, total) = 0
    BY <2>2 DEF jackpot_share
  <2> QED BY <2>1, <2>3 DEF total, pool
<1> QED BY <1>2, <1>3, <1>4 DEF Payout

BandSame ==
  params'.mult_min_bps = params.mult_min_bps /\ params'.mult_max_bps = params.mult_max_bps

(* A payout needs the band and five fields of the round. *)
LEMMA SamePayout ==
  ASSUME TypeOK, NEW r \in RoundId, NEW p \in Player, BandSame,
         round'[r].pot = round[r].pot, round'[r].block_sol = round[r].block_sol,
         round'[r].randomness = round[r].randomness,
         round'[r].swap_proceeds = round[r].swap_proceeds,
         round'[r].jackpot_pool = round[r].jackpot_pool
  PROVE  Due(r)'[p] = Payout(StakeIn(p, r)', round[r])
<1>1. Due(r)'[p] = PayoutUnder(StakeIn(p, r)', round'[r],
                               params'.mult_min_bps, params'.mult_max_bps)
  BY DueIs
<1>2. params'.mult_min_bps = params.mult_min_bps /\ params'.mult_max_bps = params.mult_max_bps
  BY DEF BandSame
<1>3. PayoutUnder(StakeIn(p, r)', round'[r], params'.mult_min_bps, params'.mult_max_bps)
      = Payout(StakeIn(p, r)', round[r])
  BY <1>2 DEF PayoutUnder, Payout
<1> QED BY <1>1, <1>3

LEMMA DueNat ==
  ASSUME TypeOK, NEW r \in RoundId, round[r].state = "claimable"
  PROVE  /\ \A p \in Player : Due(r)[p] = Payout(StakeIn(p, r), round[r]) /\ Due(r)[p] \in Nat
         /\ SumBelow(Due(r), NumPlayers) \in Nat
<1>1. \A p \in Player : Due(r)[p] = Payout(StakeIn(p, r), round[r]) /\ Due(r)[p] \in Nat
  BY StakeInType, PayoutNat DEF Due
<1>2. \A i \in 0..NumPlayers-1 : Due(r)[i] \in Nat
  BY <1>1 DEF Player
<1>3. SumBelow(Due(r), NumPlayers) \in Nat
  BY <1>2, SumNat, SizeAssumption
<1> QED BY <1>1, <1>3

(* A round a step leaves alone stays covered, whether its players keep     *)
(* their stakes in it or lose them.                                        *)
LEMMA KeptCovered ==
  ASSUME TypeOK, NEW r \in RoundId, round[r].state = "claimable", Covered(r), BandSame,
         round'[r] = round[r],
         \A p \in Player : StakeIn(p, r)' = StakeIn(p, r) \/ StakeIn(p, r)' = NoStake
  PROVE  Covered(r)'
<1> DEFINE old == Due(r)
           new == Due(r)'
<1>1. \A p \in Player : old[p] = Payout(StakeIn(p, r), round[r]) /\ old[p] \in Nat
  BY DueNat
<1>2. \A p \in Player : new[p] = Payout(StakeIn(p, r)', round[r])
  BY SamePayout
<1>3. Payout(NoStake, round[r]) = 0
  BY NothingForNothing
<1>4. SumBelow(old, NumPlayers) \in Nat
  BY DueNat
<1>5. round[r].claimed_proceeds \in Nat /\ round[r].entitlement_total \in Nat
  BY DEF TypeOK, RoundType
<1>6. round[r].claimed_proceeds + SumBelow(old, NumPlayers) <= round[r].entitlement_total
  BY DEF Covered
<1> HIDE DEF old, new
<1>7. \A p \in Player : new[p] \in Nat /\ new[p] <= old[p]
  BY <1>1, <1>2, <1>3
<1>8. \A i \in 0..NumPlayers-1 : new[i] \in Nat /\ old[i] \in Int /\ new[i] <= old[i]
  BY <1>1, <1>7 DEF Player
<1>9. SumBelow(new, NumPlayers) \in Nat /\ SumBelow(new, NumPlayers) <= SumBelow(old, NumPlayers)
  BY <1>8, SumNat, SumMono, SizeAssumption
<1>10. round[r].claimed_proceeds + SumBelow(new, NumPlayers) <= round[r].entitlement_total
  BY <1>4, <1>5, <1>6, <1>9
<1> QED BY <1>10 DEF Covered, new

(* A claim moves what it pays from what is due to what was claimed. *)
LEMMA ClaimCovers ==
  ASSUME TypeOK, NEW p \in Player, NEW r \in RoundId, ClaimDirect(p, r), Covered(r)
  PROVE  Covered(r)'
<1> DEFINE amount == Payout(miner[p].block_stake, round[r])
           old == Due(r)
           new == Due(r)'
<1>1. /\ amount \in Nat
      /\ round[r].state = "claimable" /\ miner[p].round_id = r
      /\ round' = [round EXCEPT ![r].claimed_proceeds = @ + amount]
      /\ miner' = [miner EXCEPT ![p] = Spent(@)]
      /\ params' = params
  BY ClaimEffect DEF ClaimDirect
<1>2. round[r] \in RoundType /\ round \in [RoundId -> RoundType]
  BY DEF TypeOK
<1> HIDE DEF amount
<1>3. /\ round'[r].pot = round[r].pot /\ round'[r].block_sol = round[r].block_sol
      /\ round'[r].randomness = round[r].randomness
      /\ round'[r].swap_proceeds = round[r].swap_proceeds
      /\ round'[r].jackpot_pool = round[r].jackpot_pool
      /\ round'[r].entitlement_total = round[r].entitlement_total
      /\ round'[r].claimed_proceeds = round[r].claimed_proceeds + amount
  BY <1>1, <1>2 DEF RoundType
<1>4. BandSame
  BY <1>1 DEF BandSame
<1>5. /\ StakeIn(p, r)' = NoStake
      /\ \A q \in Player : q # p => StakeIn(q, r)' = StakeIn(q, r)
  <2>1. /\ miner'[p].round_id = miner[p].round_id
        /\ miner'[p].block_stake = NoStake
        /\ \A q \in Player : q # p => miner'[q] = miner[q]
    BY <1>1, SpentEffect
  <2> QED BY <1>1, <2>1 DEF StakeIn
<1>6. /\ \A q \in Player : old[q] = Payout(StakeIn(q, r), round[r]) /\ old[q] \in Nat
      /\ SumBelow(old, NumPlayers) \in Nat
  BY <1>1, DueNat
<1>7. \A q \in Player : new[q] = Payout(StakeIn(q, r)', round[r])
  BY <1>3, <1>4, SamePayout
<1>8. new[p] = 0
  BY <1>1, <1>5, <1>7, NothingForNothing
<1>9. old[p] = amount
  BY <1>1, <1>6 DEF StakeIn, amount
<1>10. round[r].claimed_proceeds \in Nat /\ round[r].entitlement_total \in Nat
  BY <1>2 DEF RoundType
<1>11. round[r].claimed_proceeds + SumBelow(old, NumPlayers) <= round[r].entitlement_total
  BY DEF Covered
<1> HIDE DEF old, new
<1>12. \A q \in Player : q # p => new[q] = old[q]
  BY <1>5, <1>6, <1>7
<1>13. /\ NumPlayers \in Nat /\ p \in 0..NumPlayers-1
       /\ \A i \in 0..NumPlayers-1 : old[i] \in Int /\ new[i] \in Int
       /\ \A i \in 0..NumPlayers-1 : i # p => new[i] = old[i]
  BY <1>6, <1>8, <1>12, SizeAssumption DEF Player
<1>14. SumBelow(new, NumPlayers) = SumBelow(old, NumPlayers) - old[p] + new[p]
  BY <1>13, SumAt
<1>15. round'[r].claimed_proceeds + SumBelow(new, NumPlayers) <= round'[r].entitlement_total
  BY <1>1, <1>3, <1>6, <1>8, <1>9, <1>10, <1>11, <1>14
<1> QED BY <1>15 DEF Covered, new

LEMMA InitClaims == Init => Unclaimed /\ ClaimsCovered
  BY NoRoundType DEF Init, Unclaimed, ClaimsCovered, NoRound

LEMMA StepUnclaimed ==
  TypeOK /\ Serialized /\ MinersPast /\ Unclaimed /\ [Next]_vars => Unclaimed'
<1> SUFFICES ASSUME TypeOK, Serialized, MinersPast, Unclaimed, [Next]_vars PROVE Unclaimed'
  OBVIOUS
<1>0. round \in [RoundId -> RoundType]
  BY DEF TypeOK
<1>1. ASSUME NEW r \in RoundId,
             \A q \in RoundId : q # r => round'[q] = round[q],
             round'[r].state # "claimable" => round'[r].claimed_proceeds = 0
      PROVE  Unclaimed'
  BY <1>1 DEF Unclaimed
<1>2. CASE CreateRound
  <2> DEFINE id == config.current_round_id + 1
             X  == NewRound(now + params.round_duration_secs)
  <2>1. id \in RoundId /\ round' = [round EXCEPT ![id] = X]
    BY <1>2, CreateEffect DEF CreateRound
  <2>2. X.claimed_proceeds = 0
    BY DEF NewRound, NoRound
  <2> HIDE DEF X, id
  <2> QED BY <1>0, <1>1, <2>1, <2>2
<1>3. ASSUME NEW p \in Player, NEW r \in RoundId, NEW s \in Square, NEW a \in Amounts,
             StakeDirect(p, r, s, a)
      PROVE  Unclaimed'
  <2>1. /\ round[r].state = "open" /\ \A q \in RoundId : q # r => round'[q] = round[q]
    BY <1>3, BookedEffect
  <2>2. round'[r].claimed_proceeds = round[r].claimed_proceeds
    <3>1. round'[r] = Booked(round[r], s, a) /\ round[r] \in RoundType
      BY <1>0, <1>3 DEF StakeDirect
    <3> QED BY <3>1 DEF Booked, RoundType
  <2> QED BY <1>1, <2>1, <2>2 DEF Unclaimed, Unswapped
<1>4. ASSUME NEW r \in RoundId, NEW d \in Draws, Settle(r, d) \/ SettleCallback(r, d)
      PROVE  Unclaimed'
  <2>1. Drawn(r, d) /\ round[r].state \in Unswapped
    BY <1>4 DEF Settle, SettleCallback, AwaitsDraw, Unswapped
  <2>2. /\ round'[r].claimed_proceeds = round[r].claimed_proceeds
        /\ \A q \in RoundId : q # r => round'[q] = round[q]
    BY <1>0, <2>1 DEF Drawn, RoundType
  <2> QED BY <1>1, <2>1, <2>2 DEF Unclaimed, Unswapped
<1>5. ASSUME NEW r \in RoundId, RequestSettle(r) \/ CancelRound(r)
      PROVE  Unclaimed'
  <2>1. PICK mark : round' = [round EXCEPT ![r].state = mark]
    BY <1>5 DEF RequestSettle, CancelRound
  <2>2. /\ round'[r].claimed_proceeds = round[r].claimed_proceeds
        /\ \A q \in RoundId : q # r => round'[q] = round[q]
    BY <1>0, <2>1 DEF RoundType
  <2>3. round[r].state \in Unswapped
    BY <1>5 DEF RequestSettle, CancelRound, Unswapped
  <2> QED BY <1>1, <2>2, <2>3 DEF Unclaimed, Unswapped
<1>6. ASSUME NEW r \in RoundId,
             ExecuteSwapMock(r) \/ \E out \in Outs : ExecuteSwapReal(r, out)
      PROVE  Unclaimed'
  <2>1. PICK out \in Nat : FinalizeSwap(r, out)
    BY <1>6, SwapEffect
  <2>2. round'[r].state = "claimable" /\ \A q \in RoundId : q # r => round'[q] = round[q]
    BY <2>1, FinalizeEffect
  <2> QED BY <1>1, <2>2 DEF Unswapped
<1>7. ASSUME NEW p \in Player, NEW r \in RoundId, ClaimDirect(p, r)
      PROVE  Unclaimed'
  <2>1. /\ round[r].state = "claimable" /\ round'[r].state = round[r].state
        /\ \A q \in RoundId : q # r => round'[q] = round[q]
    BY <1>0, <1>7 DEF ClaimDirect, RoundType
  <2> QED BY <1>1, <2>1 DEF Unswapped
<1>8. ASSUME NEW r \in RoundId, CloseRound(r)
      PROVE  Unclaimed'
  <2>1. round'[r] = NoRound /\ \A q \in RoundId : q # r => round'[q] = round[q]
    BY <1>0, <1>8 DEF CloseRound
  <2> QED BY <1>1, <2>1 DEF NoRound
<1>9. ASSUME UNCHANGED round
      PROVE  Unclaimed'
  BY <1>9 DEF Unclaimed
<1>10. ASSUME \/ \E p \in Player, r \in RoundId : RefundDirect(p, r)
              \/ \E p \in Player, a \in Amounts : Deposit(p, a) \/ Withdraw(p, a)
              \/ \E q \in ParamChoices : Admin(q)
              \/ Tick
              \/ UNCHANGED vars
       PROVE  Unclaimed'
  BY <1>9, <1>10 DEF RefundDirect, Deposit, Withdraw, Admin, Tick, vars
<1> QED BY <1>2, <1>3, <1>4, <1>5, <1>6, <1>7, <1>8, <1>10 DEF Next

(* What claims rest on: the books, nothing claimed early, and cover. *)
Claims == Books /\ Unclaimed /\ ClaimsCovered

LEMMA OthersCovered ==
  ASSUME TypeOK, ClaimsCovered, BandSame,
         \A r \in RoundId : round'[r].state = "claimable" =>
            \/ Covered(r)'
            \/ /\ round'[r] = round[r]
               /\ \A p \in Player : StakeIn(p, r)' = StakeIn(p, r) \/ StakeIn(p, r)' = NoStake
  PROVE  ClaimsCovered'
  BY KeptCovered, ClaimsCoveredIs

LEMMA StepCovered ==
  Claims /\ [Next /\ BandQuiet]_vars => ClaimsCovered'
<1> SUFFICES ASSUME Claims, [Next /\ BandQuiet]_vars PROVE ClaimsCovered'
  OBVIOUS
<1>0. /\ TypeOK /\ Serialized /\ MinersPast /\ StakesBooked /\ Unclaimed /\ ClaimsCovered
      /\ round \in [RoundId -> RoundType]
  BY DEF Claims, Books, TypeOK
<1>1. ASSUME UNCHANGED miner, BandSame,
             \A r \in RoundId : round'[r].state = "claimable" => round'[r] = round[r]
      PROVE  ClaimsCovered'
  <2>1. \A r \in RoundId, p \in Player : StakeIn(p, r)' = StakeIn(p, r)
    BY <1>1 DEF StakeIn
  <2> QED BY <1>0, <1>1, <2>1, OthersCovered
<1>2. CASE CreateRound
  <2>1. PICK id \in RoundId :
           /\ round'[id].state = "open"
           /\ \A q \in RoundId : q # id => round'[q] = round[q]
           /\ miner' = miner
    BY <1>0, <1>2, CreateEffect
  <2>2. BandSame
    BY <1>2 DEF CreateRound, BandSame
  <2> QED BY <1>1, <2>1, <2>2
<1>3. ASSUME NEW p \in Player, NEW r \in RoundId, NEW s \in Square, NEW a \in Amounts,
             StakeDirect(p, r, s, a)
      PROVE  ClaimsCovered'
  <2>1. /\ round'[r].state = "open" /\ \A q \in RoundId : q # r => round'[q] = round[q]
    BY <1>0, <1>3, BookedEffect
  <2>2. miner'[p].round_id = r /\ \A i \in Player : i # p => miner'[i] = miner[i]
    BY <1>0, <1>3, StampEffect
  <2>3. BandSame
    BY <1>3 DEF StakeDirect, BandSame
  <2>4. ASSUME NEW q \in RoundId, round'[q].state = "claimable"
        PROVE  /\ round'[q] = round[q]
               /\ \A i \in Player : StakeIn(i, q)' = StakeIn(i, q) \/ StakeIn(i, q)' = NoStake
    <3>1. q # r
      BY <2>1, <2>4
    <3> QED BY <2>1, <2>2, <3>1 DEF StakeIn
  <2> QED BY <1>0, <2>3, <2>4, OthersCovered
<1>4. ASSUME NEW r \in RoundId, NEW d \in Draws, Settle(r, d) \/ SettleCallback(r, d)
      PROVE  ClaimsCovered'
  <2>1. Drawn(r, d) /\ UNCHANGED <<params, miner>>
    BY <1>4 DEF Settle, SettleCallback
  <2>2. round'[r].state = "settled" /\ \A q \in RoundId : q # r => round'[q] = round[q]
    BY <1>0, <2>1, DrawnEffect
  <2> QED BY <1>1, <2>1, <2>2 DEF BandSame
<1>5. ASSUME NEW r \in RoundId, RequestSettle(r) \/ CancelRound(r)
      PROVE  ClaimsCovered'
  <2>1. PICK mark \in {"vrf_pending", "closed"} : round' = [round EXCEPT ![r].state = mark]
    BY <1>5 DEF RequestSettle, CancelRound
  <2>2. round'[r].state = mark /\ \A q \in RoundId : q # r => round'[q] = round[q]
    BY <1>0, <2>1, MarkedEffect
  <2>3. UNCHANGED <<params, miner>>
    BY <1>5 DEF RequestSettle, CancelRound
  <2> QED BY <1>1, <2>1, <2>2, <2>3 DEF BandSame
<1>6. ASSUME NEW r \in RoundId,
             ExecuteSwapMock(r) \/ \E out \in Outs : ExecuteSwapReal(r, out)
      PROVE  ClaimsCovered'
  <2>1. PICK out \in Nat : /\ round[r].state = "settled" /\ FinalizeSwap(r, out)
                           /\ UNCHANGED <<params, miner>>
    BY <1>0, <1>6, SwapEffect
  <2>2. \A q \in RoundId : q # r => round'[q] = round[q]
    BY <1>0, <2>1, FinalizeEffect
  <2>3. Covered(r)'
    BY <1>0, <2>1, SwapCovers
  <2>4. \A q \in RoundId, p \in Player : StakeIn(p, q)' = StakeIn(p, q)
    BY <2>1 DEF StakeIn
  <2>5. BandSame
    BY <2>1 DEF BandSame
  <2> QED BY <1>0, <2>2, <2>3, <2>4, <2>5, OthersCovered
<1>7. ASSUME NEW p \in Player, NEW r \in RoundId, ClaimDirect(p, r)
      PROVE  ClaimsCovered'
  <2>1. /\ round[r].state = "claimable" /\ miner[p].round_id = r
        /\ \A q \in RoundId : q # r => round'[q] = round[q]
        /\ miner' = [miner EXCEPT ![p] = Spent(@)] /\ UNCHANGED params
    BY <1>0, <1>7 DEF ClaimDirect
  <2>2. Covered(r)
    BY <1>0, <2>1, ClaimsCoveredIs
  <2>3. Covered(r)'
    BY <1>0, <1>7, <2>2, ClaimCovers
  <2>4. miner'[p].round_id = r /\ \A i \in Player : i # p => miner'[i] = miner[i]
    BY <1>0, <2>1, SpentEffect
  <2>5. \A q \in RoundId, i \in Player : q # r => StakeIn(i, q)' = StakeIn(i, q)
    BY <2>1, <2>4 DEF StakeIn
  <2>6. BandSame
    BY <2>1 DEF BandSame
  <2> QED BY <1>0, <2>1, <2>3, <2>5, <2>6, OthersCovered
<1>8. ASSUME NEW p \in Player, NEW r \in RoundId, RefundDirect(p, r)
      PROVE  ClaimsCovered'
  <2>1. /\ miner[p].round_id = r
        /\ miner' = [miner EXCEPT ![p] = Spent(@)] /\ UNCHANGED <<params, round>>
    BY <1>8 DEF RefundDirect
  <2>2. /\ miner'[p].round_id = r /\ miner'[p].block_stake = NoStake
        /\ \A i \in Player : i # p => miner'[i] = miner[i]
    BY <1>0, <2>1, SpentEffect
  <2>3. \A q \in RoundId, i \in Player :
           StakeIn(i, q)' = StakeIn(i, q) \/ StakeIn(i, q)' = NoStake
    BY <2>1, <2>2 DEF StakeIn
  <2>4. BandSame
    BY <2>1 DEF BandSame
  <2> QED BY <1>0, <2>1, <2>3, <2>4, OthersCovered
<1>9. ASSUME NEW r \in RoundId, CloseRound(r)
      PROVE  ClaimsCovered'
  <2>1. /\ round'[r] = NoRound /\ \A q \in RoundId : q # r => round'[q] = round[q]
        /\ UNCHANGED <<params, miner>>
    BY <1>0, <1>9 DEF CloseRound
  <2>2. round'[r].state = "absent"
    BY <2>1, NoRoundType
  <2> QED BY <1>1, <2>1, <2>2 DEF BandSame
<1>10. ASSUME NEW q \in ParamChoices, Admin(q), BandQuiet
       PROVE  ClaimsCovered'
  <2>1. UNCHANGED <<round, miner>>
    BY <1>10 DEF Admin
  <2>2. CASE \E r \in RoundId : round[r].state = "claimable"
    <3>1. BandSame
      BY <1>10, <2>2 DEF BandQuiet, BandSame
    <3> QED BY <1>1, <2>1, <3>1
  <2>3. CASE ~ \E r \in RoundId : round[r].state = "claimable"
    BY <2>1, <2>3, ClaimsCoveredIs
  <2> QED BY <2>2, <2>3
<1>11. ASSUME \/ \E p \in Player, a \in Amounts : Deposit(p, a) \/ Withdraw(p, a)
              \/ Tick
              \/ UNCHANGED vars
       PROVE  ClaimsCovered'
  <2>1. UNCHANGED <<params, round, miner>>
    BY <1>11 DEF Deposit, Withdraw, Tick, vars
  <2> QED BY <1>1, <2>1 DEF BandSame
<1> QED BY <1>2, <1>3, <1>4, <1>5, <1>6, <1>7, <1>8, <1>9, <1>10, <1>11 DEF Next

LEMMA StepClaims == Claims /\ [Next /\ BandQuiet]_vars => Claims'
  BY StepBooks, StepUnclaimed, StepCovered DEF Claims, Books

(* While the admin leaves the return band alone during claims, a claimable *)
(* round's entitlement covers every claim still to come, rounding          *)
(* included: nobody is left short by the order of the claims.              *)
THEOREM ClaimsAreCovered == QuietSpec => []ClaimsCovered
<1>1. Init => Claims
  BY InitBooks, InitClaims DEF Claims
<1>2. Claims => ClaimsCovered
  BY DEF Claims
<1> QED BY <1>1, <1>2, StepClaims, PTL DEF QuietSpec

(* state/round.rs, entitlement_total: what was claimed of a round never    *)
(* passes it, as long as the band stands still during claims.              *)
THEOREM EntitlementIsTheMost == QuietSpec => []ClaimedWithinEntitlement
<1>1. Init => Claims
  BY InitBooks, InitClaims DEF Claims
<1>2. Claims => ClaimedWithinEntitlement
  <2> SUFFICES ASSUME Claims, NEW r \in RoundId
               PROVE  round[r].claimed_proceeds <= round[r].entitlement_total
    BY DEF ClaimedWithinEntitlement
  <2>1. round[r].claimed_proceeds \in Nat /\ round[r].entitlement_total \in Nat /\ TypeOK
    BY DEF Claims, Books, TypeOK, RoundType
  <2>2. CASE round[r].state = "claimable"
    <3>1. SumBelow(Due(r), NumPlayers) \in Nat /\ Covered(r)
      BY <2>1, <2>2, DueNat, ClaimsCoveredIs DEF Claims
    <3> QED BY <2>1, <3>1 DEF Covered
  <2>3. CASE round[r].state # "claimable"
    BY <2>1, <2>3 DEF Claims, Unclaimed
  <2> QED BY <2>2, <2>3
<1> QED BY <1>1, <1>2, StepClaims, PTL DEF QuietSpec

-----------------------------------------------------------------------------
(* The ledger of earmarks *)

Owes == [r \in RoundId |-> Owed(round[r])]

(* The four things a step can do to the ledger. *)
LedgerKept ==
  /\ Owes' = Owes
  /\ config'.rollover_jackpot = config.rollover_jackpot
  /\ config'.ansem_obligations = config.ansem_obligations
  /\ payout_vault' = payout_vault

LedgerFunded(r, out) ==
  /\ Owes' = [Owes EXCEPT ![r] = Owes'[r]]
  /\ Owes[r] = 0 /\ Owes'[r] \in Nat
  /\ config'.rollover_jackpot \in Nat
  /\ config'.rollover_jackpot + Owes'[r] = config.rollover_jackpot + out
  /\ config'.ansem_obligations = config.ansem_obligations + out
  /\ payout_vault' = payout_vault + out

LedgerPaid(r, amount) ==
  /\ amount <= Owes[r]
  /\ Owes' = [Owes EXCEPT ![r] = Owes[r] - amount]
  /\ config'.rollover_jackpot = config.rollover_jackpot
  /\ config'.ansem_obligations = Minus(config.ansem_obligations, amount)
  /\ payout_vault' = payout_vault - amount

LedgerForfeited(r) ==
  /\ Owes' = [Owes EXCEPT ![r] = 0]
  /\ config'.rollover_jackpot = config.rollover_jackpot + Owes[r]
  /\ config'.ansem_obligations = config.ansem_obligations
  /\ payout_vault' = payout_vault

LedgerMove ==
  \/ LedgerKept
  \/ \E r \in RoundId, n \in Nat : LedgerFunded(r, n) \/ LedgerPaid(r, n)
  \/ \E r \in RoundId : LedgerForfeited(r)

LEMMA OwesNat ==
  ASSUME Claims
  PROVE  /\ \A r \in RoundId : Owes[r] = Owed(round[r]) /\ Owes[r] \in Nat
         /\ \A r \in RoundId : round[r].state = "claimable" =>
               round[r].claimed_proceeds <= round[r].entitlement_total
<1> SUFFICES ASSUME NEW r \in RoundId
             PROVE  /\ Owes[r] = Owed(round[r]) /\ Owes[r] \in Nat
                    /\ round[r].state = "claimable" =>
                          round[r].claimed_proceeds <= round[r].entitlement_total
  OBVIOUS
<1>1. round[r].claimed_proceeds \in Nat /\ round[r].entitlement_total \in Nat /\ TypeOK
  BY DEF Claims, Books, TypeOK, RoundType
<1>2. Owes[r] = Owed(round[r])
  BY DEF Owes
<1>3. CASE round[r].state = "claimable"
  <2>1. SumBelow(Due(r), NumPlayers) \in Nat /\ Covered(r)
    BY <1>1, <1>3, DueNat, ClaimsCoveredIs DEF Claims
  <2>2. round[r].claimed_proceeds <= round[r].entitlement_total
    BY <1>1, <2>1 DEF Covered
  <2> QED BY <1>1, <1>2, <1>3, <2>2 DEF Owed, Remaining
<1>4. CASE round[r].state # "claimable"
  BY <1>2, <1>4 DEF Owed
<1> QED BY <1>3, <1>4

LEMMA OwesNext ==
  Owes' = [r \in RoundId |-> Owed(round'[r])]
  BY DEF Owes, Owed, Remaining

LEMMA OwesAt ==
  ASSUME NEW r \in RoundId, \A q \in RoundId : q # r => round'[q] = round[q]
  PROVE  Owes' = [Owes EXCEPT ![r] = Owed(round'[r])]
  BY OwesNext DEF Owes

LEMMA KeptAt ==
  ASSUME NEW r \in RoundId, \A q \in RoundId : q # r => round'[q] = round[q],
         round[r].state # "claimable", round'[r].state # "claimable"
  PROVE  Owes' = Owes
<1>1. Owed(round'[r]) = 0 /\ Owed(round[r]) = 0
  BY DEF Owed
<1>2. Owes[r] = 0 /\ Owes' = [Owes EXCEPT ![r] = 0]
  BY <1>1, OwesAt DEF Owes
<1>3. Owes = [Owes EXCEPT ![r] = Owes[r]]
  BY DEF Owes
<1> QED BY <1>2, <1>3

LEMMA ClaimMoves ==
  ASSUME Claims, NEW p \in Player, NEW r \in RoundId, ClaimDirect(p, r)
  PROVE  LedgerPaid(r, Payout(miner[p].block_stake, round[r]))
         /\ Payout(miner[p].block_stake, round[r]) \in Nat
<1> DEFINE amount == Payout(miner[p].block_stake, round[r])
<1>0. TypeOK /\ round[r] \in RoundType /\ config \in ConfigType
  BY DEF Claims, Books, TypeOK
<1>1. /\ amount \in Nat
      /\ round[r].state = "claimable" /\ miner[p].round_id = r
      /\ payout_vault' = payout_vault - amount
      /\ round' = [round EXCEPT ![r].claimed_proceeds = @ + amount]
      /\ config' = [config EXCEPT !.ansem_obligations = Minus(@, amount)]
  BY <1>0, ClaimEffect
<1>2. Covered(r) /\ SumBelow(Due(r), NumPlayers) \in Nat
  BY <1>0, <1>1, DueNat, ClaimsCoveredIs DEF Claims
<1>3. Due(r)[p] = amount
  BY <1>0, <1>1, DueNat DEF StakeIn
<1>4. Due(r)[p] <= SumBelow(Due(r), NumPlayers)
  <2>1. /\ NumPlayers \in Nat /\ p \in 0..NumPlayers-1
        /\ \A i \in 0..NumPlayers-1 : Due(r)[i] \in Nat
    BY <1>0, <1>1, DueNat, SizeAssumption DEF Player
  <2> QED BY <2>1, SumMember
<1> HIDE DEF amount
<1>5. /\ round'[r].claimed_proceeds = round[r].claimed_proceeds + amount
      /\ round'[r].entitlement_total = round[r].entitlement_total
      /\ round'[r].state = "claimable"
      /\ \A q \in RoundId : q # r => round'[q] = round[q]
  BY <1>0, <1>1 DEF TypeOK, RoundType
<1>6. /\ round[r].claimed_proceeds \in Nat /\ round[r].entitlement_total \in Nat
      /\ Owes[r] = round[r].entitlement_total - round[r].claimed_proceeds
  BY <1>0, <1>1 DEF Owes, Owed, Remaining, RoundType
<1>7. amount <= Owes[r]
  BY <1>1, <1>2, <1>3, <1>4, <1>6 DEF Covered
<1>8. Owed(round'[r]) = Owes[r] - amount
  BY <1>1, <1>5, <1>6 DEF Owed, Remaining
<1>9. Owes' = [Owes EXCEPT ![r] = Owes[r] - amount]
  BY <1>5, <1>8, OwesAt
<1>10. /\ config'.rollover_jackpot = config.rollover_jackpot
       /\ config'.ansem_obligations = Minus(config.ansem_obligations, amount)
  BY <1>0, <1>1 DEF ConfigType
<1>11. LedgerPaid(r, amount) /\ amount \in Nat
  BY <1>1, <1>7, <1>9, <1>10 DEF LedgerPaid
<1> QED BY <1>11 DEF amount

LEMMA SwapMoves ==
  ASSUME Claims, NEW r \in RoundId, NEW out \in Nat, round[r].state = "settled",
         FinalizeSwap(r, out), payout_vault' = payout_vault + out
  PROVE  LedgerFunded(r, out)
<1>0. TypeOK /\ Unclaimed
  BY DEF Claims, Books
<1>1. /\ round'[r].state = "claimable"
      /\ round'[r].claimed_proceeds = round[r].claimed_proceeds
      /\ round'[r].entitlement_total = NjTotal(round[r], out) + JackpotPool(round[r], out)
      /\ \A q \in RoundId : q # r => round'[q] = round[q]
      /\ config'.rollover_jackpot = NewRollover(round[r], out)
      /\ config'.ansem_obligations = config.ansem_obligations + out
  BY <1>0, FinalizeEffect
<1>2. NjTotal(round[r], out) \in Nat /\ NjTotal(round[r], out) <= out
  BY <1>0, SwapTypes DEF FinalizeSwap
<1>3. /\ JackpotPool(round[r], out) \in Nat
      /\ NewRollover(round[r], out) \in Nat
      /\ NewRollover(round[r], out) + NjTotal(round[r], out) + JackpotPool(round[r], out)
         = config.rollover_jackpot + out
  BY <1>0, <1>2, PoolNat
<1>4. round[r].claimed_proceeds = 0
  BY <1>0 DEF Unclaimed
<1>5. Owed(round'[r]) = NjTotal(round[r], out) + JackpotPool(round[r], out)
  BY <1>1, <1>2, <1>3, <1>4 DEF Owed, Remaining
<1>6. Owes[r] = 0
  BY DEF Owes, Owed
<1>7. Owes' = [Owes EXCEPT ![r] = Owed(round'[r])] /\ Owes'[r] = Owed(round'[r])
  BY <1>1, OwesAt, OwesNext
<1> DEFINE nj == NjTotal(round[r], out)
           pool == JackpotPool(round[r], out)
           roll == NewRollover(round[r], out)
<1>8. /\ nj \in Nat /\ pool \in Nat /\ roll \in Nat /\ config.rollover_jackpot \in Nat
      /\ roll + nj + pool = config.rollover_jackpot + out
      /\ Owes'[r] = nj + pool /\ config'.rollover_jackpot = roll
  BY <1>0, <1>1, <1>2, <1>3, <1>5, <1>7 DEF TypeOK, ConfigType
<1> HIDE DEF nj, pool, roll
<1>9. /\ Owes'[r] \in Nat /\ config'.rollover_jackpot \in Nat
      /\ config'.rollover_jackpot + Owes'[r] = config.rollover_jackpot + out
  BY <1>8
<1>10. Owes' = [Owes EXCEPT ![r] = Owes'[r]]
  BY <1>7
<1> QED BY <1>1, <1>6, <1>9, <1>10 DEF LedgerFunded

LEMMA CloseMoves ==
  ASSUME Claims, NEW r \in RoundId, CloseRound(r)
  PROVE  LedgerForfeited(r)
<1>0. TypeOK /\ round[r] \in RoundType /\ config \in ConfigType
  BY DEF Claims, Books, TypeOK
<1>1. /\ round'[r] = NoRound /\ \A q \in RoundId : q # r => round'[q] = round[q]
      /\ config' = [config EXCEPT !.rollover_jackpot =
                      @ + (IF round[r].state = "claimable" THEN Forfeited(round[r]) ELSE 0)]
      /\ payout_vault' = payout_vault
  BY <1>0 DEF CloseRound, TypeOK
<1>2. Owed(round'[r]) = 0
  BY <1>1, NoRoundType DEF Owed
<1>3. Owes' = [Owes EXCEPT ![r] = 0]
  BY <1>1, <1>2, OwesAt
<1>4. (IF round[r].state = "claimable" THEN Forfeited(round[r]) ELSE 0) = Owes[r]
  <2>1. CASE round[r].state = "claimable"
    <3>1. round[r].claimed_proceeds <= round[r].entitlement_total
      BY <2>1, OwesNat
    <3>2. Forfeited(round[r]) = round[r].entitlement_total - round[r].claimed_proceeds
      BY <1>0, <3>1 DEF Forfeited, Minus, RoundType
    <3> QED BY <2>1, <3>2 DEF Owes, Owed, Remaining
  <2>2. CASE round[r].state # "claimable"
    BY <2>2 DEF Owes, Owed
  <2> QED BY <2>1, <2>2
<1>5. /\ config'.rollover_jackpot = config.rollover_jackpot + Owes[r]
      /\ config'.ansem_obligations = config.ansem_obligations
  BY <1>0, <1>1, <1>4 DEF ConfigType
<1> QED BY <1>1, <1>3, <1>5 DEF LedgerForfeited

LEMMA StepLedger ==
  ASSUME Claims, [Next /\ BandQuiet]_vars
  PROVE  LedgerMove
<1>0. TypeOK /\ Serialized /\ MinersPast /\ config \in ConfigType
  BY DEF Claims, Books, TypeOK
<1>1. ASSUME UNCHANGED payout_vault, Owes' = Owes,
             config'.rollover_jackpot = config.rollover_jackpot,
             config'.ansem_obligations = config.ansem_obligations
      PROVE  LedgerMove
  BY <1>1 DEF LedgerMove, LedgerKept
<1>2. CASE CreateRound
  <2>1. PICK id \in RoundId :
           /\ round[id] = NoRound
           /\ round'[id].state = "open"
           /\ \A q \in RoundId : q # id => round'[q] = round[q]
    BY <1>0, <1>2, CreateEffect
  <2>2. Owes' = Owes
    BY <2>1, KeptAt, NoRoundType
  <2>3. /\ UNCHANGED payout_vault
        /\ config'.rollover_jackpot = config.rollover_jackpot
        /\ config'.ansem_obligations = config.ansem_obligations
    BY <1>0, <1>2 DEF CreateRound, ConfigType
  <2> QED BY <1>1, <2>2, <2>3
<1>3. ASSUME NEW p \in Player, NEW r \in RoundId, NEW s \in Square, NEW a \in Amounts,
             StakeDirect(p, r, s, a)
      PROVE  LedgerMove
  <2>1. /\ round'[r].state = "open" /\ round[r].state = "open"
        /\ \A q \in RoundId : q # r => round'[q] = round[q]
    BY <1>0, <1>3, BookedEffect
  <2>2. Owes' = Owes
    BY <2>1, KeptAt
  <2> QED BY <1>1, <1>3, <2>2 DEF StakeDirect
<1>4. ASSUME NEW r \in RoundId, NEW d \in Draws, Settle(r, d) \/ SettleCallback(r, d)
      PROVE  LedgerMove
  <2>1. Drawn(r, d) /\ round[r].state # "claimable" /\ UNCHANGED <<config, payout_vault>>
    BY <1>4 DEF Settle, SettleCallback, AwaitsDraw
  <2>2. round'[r].state = "settled" /\ \A q \in RoundId : q # r => round'[q] = round[q]
    BY <1>0, <2>1, DrawnEffect
  <2> QED BY <1>1, <2>1, <2>2, KeptAt
<1>5. ASSUME NEW r \in RoundId, RequestSettle(r) \/ CancelRound(r)
      PROVE  LedgerMove
  <2>1. PICK mark \in {"vrf_pending", "closed"} : round' = [round EXCEPT ![r].state = mark]
    BY <1>5 DEF RequestSettle, CancelRound
  <2>2. round'[r].state = mark /\ \A q \in RoundId : q # r => round'[q] = round[q]
    BY <1>0, <2>1, MarkedEffect
  <2>3. round[r].state # "claimable"
    BY <1>5 DEF RequestSettle, CancelRound, Unswapped
  <2>4. Owes' = Owes
    BY <2>1, <2>2, <2>3, KeptAt
  <2>5. /\ UNCHANGED payout_vault
        /\ config'.rollover_jackpot = config.rollover_jackpot
        /\ config'.ansem_obligations = config.ansem_obligations
    BY <1>0, <1>5 DEF RequestSettle, CancelRound, ConfigType
  <2> QED BY <1>1, <2>4, <2>5
<1>6. ASSUME NEW r \in RoundId,
             ExecuteSwapMock(r) \/ \E out \in Outs : ExecuteSwapReal(r, out)
      PROVE  LedgerMove
  <2>1. PICK out \in Nat : /\ round[r].state = "settled" /\ FinalizeSwap(r, out)
                           /\ payout_vault' = payout_vault + out
    BY <1>0, <1>6, SwapEffect
  <2>2. LedgerFunded(r, out)
    BY <2>1, SwapMoves
  <2> QED BY <2>2 DEF LedgerMove
<1>7. ASSUME NEW p \in Player, NEW r \in RoundId, ClaimDirect(p, r)
      PROVE  LedgerMove
  BY <1>7, ClaimMoves DEF LedgerMove
<1>8. ASSUME NEW r \in RoundId, CloseRound(r)
      PROVE  LedgerMove
  BY <1>8, CloseMoves DEF LedgerMove
<1>9. ASSUME \/ \E p \in Player, a \in Amounts : Deposit(p, a) \/ Withdraw(p, a)
             \/ \E p \in Player, r \in RoundId : RefundDirect(p, r)
             \/ \E q \in ParamChoices : Admin(q)
             \/ Tick
             \/ UNCHANGED vars
      PROVE  LedgerMove
  <2>1. UNCHANGED <<round, payout_vault>>
    BY <1>9 DEF Deposit, Withdraw, RefundDirect, Admin, Tick, vars
  <2>2. /\ config'.rollover_jackpot = config.rollover_jackpot
        /\ config'.ansem_obligations = config.ansem_obligations
    BY <1>0, <1>9 DEF Deposit, Withdraw, RefundDirect, Admin, Tick, vars, ConfigType
  <2>3. Owes' = Owes
    BY <2>1, OwesNext DEF Owes
  <2> QED BY <1>1, <2>1, <2>2, <2>3
<1> QED BY <1>2, <1>3, <1>4, <1>5, <1>6, <1>7, <1>8, <1>9 DEF Next

(* The sum of what is owed moves with the entry a step touches. *)
LEMMA OwedSum ==
  ASSUME Claims, NEW r \in RoundId, NEW n \in Nat, Owes' = [Owes EXCEPT ![r] = n]
  PROVE  /\ SumBelow(Owes, MaxRounds + 1) \in Nat
         /\ Owes[r] \in Nat /\ Owes[r] <= SumBelow(Owes, MaxRounds + 1)
         /\ SumBelow(Owes', MaxRounds + 1) = SumBelow(Owes, MaxRounds + 1) - Owes[r] + n
<1> DEFINE old == Owes
           new == Owes'
<1>1. \A q \in RoundId : old[q] \in Nat
  BY OwesNat
<1>2. new[r] = n /\ \A q \in RoundId : q # r => new[q] = old[q]
  BY DEF Owes
<1> HIDE DEF old, new
<1>3. MaxRounds + 1 \in Nat /\ RoundId = 0..(MaxRounds+1)-1
  BY SizeAssumption DEF RoundId
<1>4. /\ r \in 0..(MaxRounds+1)-1
      /\ \A i \in 0..(MaxRounds+1)-1 : old[i] \in Nat /\ new[i] \in Int
      /\ \A i \in 0..(MaxRounds+1)-1 : i # r => new[i] = old[i]
  BY <1>1, <1>2, <1>3
<1>5. SumBelow(new, MaxRounds + 1) = SumBelow(old, MaxRounds + 1) - old[r] + new[r]
  BY <1>3, <1>4, SumAt
<1>6. SumBelow(old, MaxRounds + 1) \in Nat /\ old[r] <= SumBelow(old, MaxRounds + 1)
  BY <1>3, <1>4, SumNat, SumMember
<1> QED BY <1>1, <1>2, <1>5, <1>6 DEF old, new

LEMMA LedgerExactIs ==
  /\ LedgerExact <=> config.ansem_obligations
                     = config.rollover_jackpot + SumBelow(Owes, MaxRounds + 1)
  /\ LedgerExact' <=> config'.ansem_obligations
                      = config'.rollover_jackpot + SumBelow(Owes', MaxRounds + 1)
  BY DEF LedgerExact, Owes

LEMMA InitLedger == Init => LedgerExact
<1> SUFFICES ASSUME Init PROVE LedgerExact
  OBVIOUS
<1>1. \A i \in 0..(MaxRounds+1)-1 : Owes[i] = 0
  BY NoRoundType, SizeAssumption DEF Init, Owes, Owed, RoundId
<1>2. SumBelow(Owes, MaxRounds + 1) = 0
  BY <1>1, SumZeros, SizeAssumption
<1> QED BY <1>2, LedgerExactIs DEF Init

LEMMA StepLedgerExact ==
  Claims /\ LedgerExact /\ [Next /\ BandQuiet]_vars => LedgerExact'
<1> SUFFICES ASSUME Claims, LedgerExact, [Next /\ BandQuiet]_vars PROVE LedgerExact'
  OBVIOUS
<1> DEFINE sum == SumBelow(Owes, MaxRounds + 1)
           rollover == config.rollover_jackpot
           owed == config.ansem_obligations
<1>1. owed = rollover + sum
  BY LedgerExactIs
<1>2. rollover \in Nat /\ owed \in Nat
  BY DEF Claims, Books, TypeOK, ConfigType
<1> HIDE DEF sum, rollover, owed
<1>3. CASE LedgerKept
  BY <1>1, <1>3, LedgerExactIs DEF LedgerKept, sum, rollover, owed
<1>4. ASSUME NEW r \in RoundId, NEW out \in Nat, LedgerFunded(r, out)
      PROVE  LedgerExact'
  <2>1. /\ Owes'[r] \in Nat /\ Owes' = [Owes EXCEPT ![r] = Owes'[r]] /\ Owes[r] = 0
        /\ config'.rollover_jackpot \in Nat
        /\ config'.rollover_jackpot + Owes'[r] = rollover + out
        /\ config'.ansem_obligations = owed + out
    BY <1>4 DEF LedgerFunded, rollover, owed
  <2>2. sum \in Nat /\ SumBelow(Owes', MaxRounds + 1) = sum - Owes[r] + Owes'[r]
    BY <2>1, OwedSum DEF sum
  <2>3. config'.ansem_obligations
        = config'.rollover_jackpot + SumBelow(Owes', MaxRounds + 1)
    BY <1>1, <1>2, <2>1, <2>2
  <2> QED BY <2>3, LedgerExactIs
<1>5. ASSUME NEW r \in RoundId, NEW n \in Nat, LedgerPaid(r, n)
      PROVE  LedgerExact'
  <2>1. /\ n <= Owes[r] /\ Owes' = [Owes EXCEPT ![r] = Owes[r] - n]
        /\ config'.rollover_jackpot = rollover
        /\ config'.ansem_obligations = Minus(owed, n)
    BY <1>5 DEF LedgerPaid, rollover, owed
  <2>2. Owes[r] \in Nat /\ Owes[r] - n \in Nat
    BY <2>1, OwesNat
  <2>3. /\ sum \in Nat /\ Owes[r] <= sum
        /\ SumBelow(Owes', MaxRounds + 1) = sum - Owes[r] + (Owes[r] - n)
    BY <2>1, <2>2, OwedSum DEF sum
  <2>4. Minus(owed, n) = owed - n
    BY <1>1, <1>2, <2>1, <2>2, <2>3 DEF Minus
  <2>5. config'.ansem_obligations
        = config'.rollover_jackpot + SumBelow(Owes', MaxRounds + 1)
    BY <1>1, <1>2, <2>1, <2>2, <2>3, <2>4
  <2> QED BY <2>5, LedgerExactIs
<1>6. ASSUME NEW r \in RoundId, LedgerForfeited(r)
      PROVE  LedgerExact'
  <2>1. /\ Owes' = [Owes EXCEPT ![r] = 0]
        /\ config'.rollover_jackpot = rollover + Owes[r]
        /\ config'.ansem_obligations = owed
    BY <1>6 DEF LedgerForfeited, rollover, owed
  <2>2. /\ sum \in Nat /\ Owes[r] \in Nat
        /\ SumBelow(Owes', MaxRounds + 1) = sum - Owes[r] + 0
    BY <2>1, OwedSum DEF sum
  <2>3. config'.ansem_obligations
        = config'.rollover_jackpot + SumBelow(Owes', MaxRounds + 1)
    BY <1>1, <1>2, <2>1, <2>2
  <2> QED BY <2>3, LedgerExactIs
<1> QED BY <1>3, <1>4, <1>5, <1>6, StepLedger DEF LedgerMove

(* state/config.rs, ansem_obligations: with the band standing still during *)
(* claims the ledger is the rollover plus what every claimable round still *)
(* owes, to the unit, for any number of rounds, players and claims.        *)
THEOREM LedgerIsExact == QuietSpec => []LedgerExact
<1>1. Init => Claims /\ LedgerExact
  BY InitBooks, InitClaims, InitLedger DEF Claims
<1>2. Claims /\ LedgerExact /\ [Next /\ BandQuiet]_vars => (Claims /\ LedgerExact)'
  BY StepClaims, StepLedgerExact
<1> QED BY <1>1, <1>2, PTL DEF QuietSpec

LEMMA LedgerInit == Init => Ledger!Init
<1> SUFFICES ASSUME Init PROVE Ledger!Init
  OBVIOUS
<1>1. \A r \in RoundId : Owed(round[r]) = 0
  BY NoRoundType DEF Init, Owed
<1> QED BY <1>1 DEF Init, Ledger!Init

LEMMA LedgerStep ==
  Claims /\ [Next /\ BandQuiet]_vars => [Ledger!Next]_(Ledger!vars)
<1> SUFFICES ASSUME Claims, [Next /\ BandQuiet]_vars PROVE [Ledger!Next]_(Ledger!vars)
  OBVIOUS
<1>1. /\ payout_vault \in Nat
      /\ Owes = [r \in RoundId |-> Owed(round[r])]
      /\ Owes' = [r \in RoundId |-> Owed(round[r])]'
      /\ \A r \in RoundId : Owes[r] \in Nat
  BY OwesNat DEF Owes, Claims, Books, TypeOK
<1>2. CASE LedgerKept
  BY <1>1, <1>2 DEF LedgerKept, Ledger!vars
<1>3. ASSUME NEW r \in RoundId, NEW out \in Nat, LedgerFunded(r, out)
      PROVE  Ledger!Fund(r)
  <2>1. /\ Owes' = [Owes EXCEPT ![r] = Owes'[r]]
        /\ Owes[r] = 0 /\ Owes'[r] \in Nat
        /\ config'.rollover_jackpot \in Nat
        /\ config'.rollover_jackpot + Owes'[r] = config.rollover_jackpot + out
        /\ payout_vault' = payout_vault + out
    BY <1>3 DEF LedgerFunded
  <2>2. out = payout_vault' - payout_vault /\ payout_vault' >= payout_vault
    BY <1>1, <2>1
  <2> QED BY <1>1, <2>1, <2>2 DEF Ledger!Fund, Ledger!OnlyOwed
<1>4. ASSUME NEW r \in RoundId, NEW n \in Nat, LedgerPaid(r, n)
      PROVE  Ledger!Pay(r)
  <2>1. /\ n <= Owes[r]
        /\ Owes' = [Owes EXCEPT ![r] = Owes[r] - n]
        /\ config'.rollover_jackpot = config.rollover_jackpot
        /\ payout_vault' = payout_vault - n
    BY <1>4 DEF LedgerPaid
  <2>2. Owes'[r] = Owes[r] - n
    BY <2>1 DEF Owes
  <2>3. Owes'[r] >= 0 /\ Owes[r] - Owes'[r] = payout_vault - payout_vault'
        /\ payout_vault' <= payout_vault
    BY <1>1, <2>1, <2>2
  <2>4. Owes' = [Owes EXCEPT ![r] = Owes'[r]]
    BY <2>1, <2>2
  <2> QED BY <1>1, <2>1, <2>3, <2>4 DEF Ledger!Pay, Ledger!OnlyOwed
<1>5. ASSUME NEW r \in RoundId, LedgerForfeited(r)
      PROVE  Ledger!Forfeit(r)
  BY <1>1, <1>5 DEF LedgerForfeited, Ledger!Forfeit
<1> QED BY <1>2, <1>3, <1>4, <1>5, StepLedger DEF LedgerMove, Ledger!Next

(* The game implements its ledger of earmarks: every ANSEM that moves is   *)
(* proceeds earmarked in full, a payment out of its own round's earmark,   *)
(* or a forfeited earmark that joins the rollover.                         *)
THEOREM GameImplementsLedger == QuietSpec => ImplementsLedger
<1>1. Init => Claims
  BY InitBooks, InitClaims DEF Claims
<1> QED BY <1>1, StepClaims, LedgerInit, LedgerStep, PTL
        DEF QuietSpec, ImplementsLedger, Ledger!Spec

-----------------------------------------------------------------------------
(* The rounds as the layers above them see them *)

Phase  == [r \in RoundId |-> PhaseOf(round[r].state)]
Pot    == [r \in RoundId |-> round[r].pot]
Stamp  == [p \in Player |-> miner[p].round_id]
Staked == [p \in Player |-> Total(miner[p].block_stake)]

LEMMA BookNext ==
  /\ Phase' = [r \in RoundId |-> PhaseOf(round'[r].state)]
  /\ Pot' = [r \in RoundId |-> round'[r].pot]
  /\ Stamp' = [p \in Player |-> miner'[p].round_id]
  /\ Staked' = [p \in Player |-> Total(miner'[p].block_stake)]
  BY DEF Phase, PhaseOf, Pot, Stamp, Staked, Total

LEMMA BookIs ==
  /\ Phase = [r \in RoundId |-> PhaseOf(round[r].state)]
  /\ Pot = [r \in RoundId |-> round[r].pot]
  /\ Stamp = [p \in Player |-> miner[p].round_id]
  /\ Staked = [p \in Player |-> Total(miner[p].block_stake)]
  /\ Phase' = [r \in RoundId |-> PhaseOf(round[r].state)]'
  /\ Pot' = [r \in RoundId |-> round[r].pot]'
  /\ Stamp' = [p \in Player |-> miner[p].round_id]'
  /\ Staked' = [p \in Player |-> Total(miner[p].block_stake)]'
  BY DEF Phase, Pot, Stamp, Staked

LEMMA Phases ==
  /\ PhaseOf("absent") = "absent" /\ PhaseOf("open") = "open"
  /\ PhaseOf("vrf_pending") = "drawing" /\ PhaseOf("settled") = "drawing"
  /\ PhaseOf("claimable") = "claimable" /\ PhaseOf("closed") = "closed"
  BY DEF PhaseOf

LEMMA LivePhases ==
  ASSUME TypeOK, NEW r \in RoundId
  PROVE  Phase[r] = PhaseOf(round[r].state)
         /\ (round[r].state \in Unswapped <=> Phase[r] \in {"open", "drawing"})
<1>1. round[r].state \in Unswapped \cup {"absent", "claimable", "closed"}
  BY DEF TypeOK, RoundType
<1>2. Phase[r] = PhaseOf(round[r].state)
  BY DEF Phase
<1> QED BY <1>1, <1>2, Phases DEF Unswapped

LEMMA BookAt ==
  ASSUME NEW r \in RoundId, \A q \in RoundId : q # r => round'[q] = round[q]
  PROVE  /\ Phase' = [Phase EXCEPT ![r] = PhaseOf(round'[r].state)]
         /\ Pot' = [Pot EXCEPT ![r] = round'[r].pot]
<1>1. Phase' = [q \in RoundId |-> PhaseOf(round'[q].state)]
  BY BookNext
<1>2. Pot' = [q \in RoundId |-> round'[q].pot]
  BY BookNext
<1> QED BY <1>1, <1>2 DEF Phase, Pot

LEMMA PotSame ==
  ASSUME NEW r \in RoundId, \A q \in RoundId : q # r => round'[q] = round[q],
         round'[r].pot = round[r].pot
  PROVE  Pot' = Pot
  BY BookNext DEF Pot

LEMMA MinersSame ==
  ASSUME UNCHANGED miner
  PROVE  Stamp' = Stamp /\ Staked' = Staked
  BY BookNext DEF Stamp, Staked

LEMMA MinerAt ==
  ASSUME NEW p \in Player, \A q \in Player : q # p => miner'[q] = miner[q]
  PROVE  /\ Stamp' = [Stamp EXCEPT ![p] = miner'[p].round_id]
         /\ Staked' = [Staked EXCEPT ![p] = Total(miner'[p].block_stake)]
<1>1. Stamp' = [q \in Player |-> miner'[q].round_id]
  BY BookNext
<1>2. Staked' = [q \in Player |-> Total(miner'[q].block_stake)]
  BY BookNext
<1> QED BY <1>1, <1>2 DEF Stamp, Staked

LEMMA BookStutter ==
  ASSUME Phase' = Phase, Pot' = Pot, Stamp' = Stamp, Staked' = Staked,
         config'.current_round_id = config.current_round_id
  PROVE  UNCHANGED Book!bookVars
  BY BookIs DEF Book!bookVars

(* A step that moves the current round from one phase to another. *)
LEMMA BookMove ==
  ASSUME TypeOK, Serialized, NEW r \in RoundId, round[r].state \in Unswapped,
         \A q \in RoundId : q # r => round'[q] = round[q],
         round'[r].pot = round[r].pot, UNCHANGED miner,
         config'.current_round_id = config.current_round_id,
         NEW from, PhaseOf(round[r].state) \in from
  PROVE  Book!Moves(from, PhaseOf(round'[r].state))
<1>1. r = config.current_round_id
  BY DEF Serialized
<1>2. Phase' = [Phase EXCEPT ![r] = PhaseOf(round'[r].state)]
  BY BookAt
<1>3. Pot' = Pot /\ Stamp' = Stamp /\ Staked' = Staked
  BY PotSame, MinersSame
<1>4. Phase[r] \in from
  BY LivePhases
<1> QED BY <1>1, <1>2, <1>3, <1>4, BookIs DEF Book!Moves

LEMMA BookStake ==
  ASSUME TypeOK, Serialized, NEW p \in Player, NEW r \in RoundId, NEW s \in Square,
         NEW a \in Amounts, StakeDirect(p, r, s, a)
  PROVE  Book!Stake(p, a)
<1>1. /\ round'[r].state = "open" /\ round[r].state = "open"
      /\ round'[r].pot = round[r].pot + a
      /\ \A q \in RoundId : q # r => round'[q] = round[q]
  <2>1. /\ round'[r].state = round[r].state /\ round[r].state = "open"
        /\ \A q \in RoundId : q # r => round'[q] = round[q]
    BY BookedEffect
  <2>2. round'[r].pot = round[r].pot + a
    BY BookedPot
  <2> QED BY <2>1, <2>2
<1>2. r = config.current_round_id
  BY <1>1 DEF Serialized, Unswapped
<1>3. /\ miner'[p].round_id = r
      /\ miner'[p].block_stake = [StakeIn(p, r) EXCEPT ![s] = @ + a]
      /\ \A q \in Player : q # p => miner'[q] = miner[q]
  BY StampEffect
<1>4. a \in Nat /\ StakeIn(p, r) \in [Square -> Nat]
  BY AmountAssumption, StakeInType
<1>5. Total(miner'[p].block_stake) = Total(StakeIn(p, r)) + a
  <2> DEFINE held == StakeIn(p, r)
  <2>1. held \in [Square -> Nat] /\ miner'[p].block_stake = [held EXCEPT ![s] = @ + a]
    BY <1>3, <1>4
  <2> HIDE DEF held
  <2>2. Total([held EXCEPT ![s] = @ + a]) = Total(held) + a
    BY <1>4, <2>1, TotalAdd
  <2>3. Total(miner'[p].block_stake) = Total(held) + a
    BY <2>1, <2>2
  <2> QED BY <2>3 DEF held
<1>6. Total(StakeIn(p, r)) = IF Stamp[p] = r THEN Staked[p] ELSE 0
  BY TotalNoStake DEF StakeIn, Stamp, Staked
<1>7. Total(StakeIn(p, r)) \in Nat
  BY <1>4, TotalNat
<1>8. Total(miner'[p].block_stake) = a + (IF Stamp[p] = r THEN Staked[p] ELSE 0)
  BY <1>4, <1>5, <1>6, <1>7
<1>9. Phase' = Phase /\ Phase[r] = "open"
  <2>1. Phase' = [Phase EXCEPT ![r] = "open"] /\ Phase[r] = "open"
    BY <1>1, BookAt, Phases, LivePhases
  <2> QED BY <2>1 DEF Phase
<1>10. Pot' = [Pot EXCEPT ![r] = @ + a]
  <2>1. Pot' = [Pot EXCEPT ![r] = round[r].pot + a]
    BY <1>1, BookAt
  <2>2. Pot[r] = round[r].pot
    BY DEF Pot
  <2> QED BY <2>1, <2>2
<1>11. Stamp' = [Stamp EXCEPT ![p] = r]
  BY <1>3, MinerAt
<1>12. Staked' = [Staked EXCEPT ![p] = a + (IF Stamp[p] = r THEN Staked[p] ELSE 0)]
  BY <1>3, <1>8, MinerAt
<1>13. config'.current_round_id = config.current_round_id
  BY DEF StakeDirect
<1> QED BY <1>2, <1>9, <1>10, <1>11, <1>12, <1>13, BookIs DEF Book!Stake, Book!Joined

LEMMA BookOpen ==
  ASSUME TypeOK, Serialized, MinersPast, CreateRound
  PROVE  Book!Open
<1> DEFINE cur == config.current_round_id
           id  == cur + 1
<1>1. /\ id \in RoundId /\ config'.current_round_id = id
      /\ round[id] = NoRound
      /\ round'[id].state = "open" /\ round'[id].pot = 0
      /\ \A q \in RoundId : q # id => round'[q] = round[q]
      /\ miner' = miner
  BY CreateEffect
<1>2. cur \in RoundId /\ cur < MaxRounds
  BY SizeAssumption DEF TypeOK, ConfigType, RoundId, CreateRound
<1>3. round[cur].state \notin Unswapped
  BY <1>2 DEF Serialized, CreateRound, MayCreate
<1>4. Phase[cur] \notin {"open", "drawing"}
  BY <1>2, <1>3, LivePhases
<1> HIDE DEF id, cur
<1>5. Phase' = [Phase EXCEPT ![id] = "open"]
  BY <1>1, BookAt, Phases
<1>6. Pot' = Pot
  <2>1. round[id].pot = 0
    BY <1>1 DEF NoRound
  <2> QED BY <1>1, <2>1, PotSame
<1>7. Stamp' = Stamp /\ Staked' = Staked
  BY <1>1, MinersSame
<1> QED BY <1>1, <1>2, <1>4, <1>5, <1>6, <1>7, BookIs
        DEF Book!Open, Book!Live, id, cur

LEMMA BookSpend ==
  ASSUME TypeOK, NEW p \in Player, NEW r \in RoundId, ClaimDirect(p, r) \/ RefundDirect(p, r)
  PROVE  Book!Spend(p)
<1>1. /\ round[r].state \in {"claimable", "closed"} /\ miner[p].round_id = r
      /\ miner' = [miner EXCEPT ![p] = Spent(@)]
  BY DEF ClaimDirect, RefundDirect
<1>2. \A q \in RoundId : round'[q].state = round[q].state /\ round'[q].pot = round[q].pot
  <2>1. round[r] \in RoundType /\ round \in [RoundId -> RoundType]
    BY DEF TypeOK
  <2>2. \/ round' = round
        \/ round' = [round EXCEPT ![r].claimed_proceeds
                                     = @ + Payout(miner[p].block_stake, round[r])]
    BY DEF ClaimDirect, RefundDirect
  <2> QED BY <2>1, <2>2 DEF RoundType
<1>3. /\ miner'[p].round_id = miner[p].round_id
      /\ Total(miner'[p].block_stake) = 0
      /\ \A q \in Player : q # p => miner'[q] = miner[q]
  BY <1>1, SpentEffect, TotalNoStake
<1>4. Phase' = Phase /\ Pot' = Pot
  BY <1>2, BookNext DEF Phase, Pot
<1>5. Stamp' = Stamp
  BY <1>3, BookNext DEF Stamp
<1>6. Staked' = [Staked EXCEPT ![p] = 0]
  BY <1>3, MinerAt
<1>7. Stamp[p] = r /\ Phase[r] \in {"claimable", "closed"}
  BY <1>1, LivePhases, Phases DEF Stamp
<1>8. config'.current_round_id = config.current_round_id
  BY DEF ClaimDirect, RefundDirect, TypeOK, ConfigType
<1> QED BY <1>4, <1>5, <1>6, <1>7, <1>8, BookIs DEF Book!Spend

LEMMA BookReap ==
  ASSUME TypeOK, NEW r \in RoundId, CloseRound(r)
  PROVE  Book!Reap(r)
<1>1. /\ round'[r] = NoRound /\ \A q \in RoundId : q # r => round'[q] = round[q]
      /\ UNCHANGED miner
      /\ round[r].state = "claimable" \/ (round[r].state = "closed" /\ round[r].pot = 0)
      /\ config'.current_round_id = config.current_round_id
  BY DEF CloseRound, Closeable, TypeOK, ConfigType
<1>2. round'[r].state = "absent" /\ round'[r].pot = 0
  BY <1>1 DEF NoRound
<1>3. Phase' = [Phase EXCEPT ![r] = "absent"] /\ Pot' = [Pot EXCEPT ![r] = 0]
  BY <1>1, <1>2, BookAt, Phases
<1>4. Stamp' = Stamp /\ Staked' = Staked
  BY <1>1, MinersSame
<1>5. Phase[r] = PhaseOf(round[r].state) /\ Pot[r] = round[r].pot
  BY LivePhases DEF Pot
<1>6. Phase[r] = "claimable" \/ (Phase[r] = "closed" /\ Pot[r] = 0)
  BY <1>1, <1>5, Phases
<1> QED BY <1>1, <1>3, <1>4, <1>6, BookIs DEF Book!Reap

LEMMA BookInit == Init => Book!Init
<1> SUFFICES ASSUME Init PROVE Book!Init
  OBVIOUS
<1>1. \A r \in RoundId : round[r].state = "absent" /\ round[r].pot = 0
  BY DEF Init, NoRound
<1>2. \A p \in Player : miner[p].round_id = 0 /\ Total(miner[p].block_stake) = 0
  BY TotalNoStake DEF Init
<1>3. config.current_round_id = 0
  BY DEF Init
<1> QED BY <1>1, <1>2, <1>3, Phases DEF Book!Init, Book!RoundId, Book!Player, RoundId, Player

LEMMA BookStep ==
  TypeOK /\ Serialized /\ MinersPast /\ [Next]_vars => [Book!Next]_(Book!bookVars)
<1> SUFFICES ASSUME TypeOK, Serialized, MinersPast, [Next]_vars
             PROVE  [Book!Next]_(Book!bookVars)
  OBVIOUS
<1>0. Book!Player = Player /\ Book!RoundId = RoundId
  BY DEF Book!Player, Book!RoundId, Player, RoundId
<1>1. CASE CreateRound
  BY <1>1, BookOpen DEF Book!Next
<1>2. ASSUME NEW p \in Player, NEW r \in RoundId, NEW s \in Square, NEW a \in Amounts,
             StakeDirect(p, r, s, a)
      PROVE  Book!Next
  BY <1>0, <1>2, BookStake DEF Book!Next
<1>3. ASSUME NEW r \in RoundId, NEW d \in Draws, Settle(r, d) \/ SettleCallback(r, d)
      PROVE  [Book!Next]_(Book!bookVars)
  <2>1. /\ Drawn(r, d) /\ round[r].state \in {"open", "vrf_pending"} /\ UNCHANGED <<config, miner>>
        /\ Settle(r, d) => round[r].state = "open"
        /\ SettleCallback(r, d) => round[r].state = "vrf_pending"
    BY <1>3 DEF Settle, SettleCallback, AwaitsDraw
  <2>2. /\ round'[r].state = "settled" /\ round'[r].pot = round[r].pot
        /\ \A q \in RoundId : q # r => round'[q] = round[q]
    BY <2>1, DrawnEffect
  <2>3. CASE round[r].state = "open"
    <3>1. PhaseOf(round[r].state) \in {"open"} /\ PhaseOf(round'[r].state) = "drawing"
      BY <2>2, <2>3, Phases
    <3>2. Book!Moves({"open"}, PhaseOf(round'[r].state))
      BY <2>1, <2>2, <2>3, <3>1, BookMove DEF Unswapped
    <3>3. Book!Moves({"open"}, "drawing")
      BY <3>1, <3>2
    <3> QED BY <3>3 DEF Book!Draw, Book!Next
  <2>4. CASE round[r].state = "vrf_pending"
    <3>1. Phase' = [Phase EXCEPT ![r] = "drawing"] /\ Phase[r] = "drawing"
      BY <2>2, <2>4, BookAt, LivePhases, Phases
    <3>2. Phase' = Phase
      BY <3>1 DEF Phase
    <3>3. Pot' = Pot /\ Stamp' = Stamp /\ Staked' = Staked
      BY <2>1, <2>2, PotSame, MinersSame
    <3> QED BY <2>1, <3>2, <3>3, BookStutter
  <2> QED BY <2>1, <2>3, <2>4
<1>4. ASSUME NEW r \in RoundId, RequestSettle(r)
      PROVE  Book!Next
  <2>1. /\ round[r].state = "open" /\ round' = [round EXCEPT ![r].state = "vrf_pending"]
        /\ UNCHANGED <<config, miner>>
    BY <1>4 DEF RequestSettle
  <2>2. /\ round'[r].state = "vrf_pending" /\ round'[r].pot = round[r].pot
        /\ \A q \in RoundId : q # r => round'[q] = round[q]
    BY <2>1, MarkedEffect
  <2>3. PhaseOf(round[r].state) \in {"open"} /\ PhaseOf(round'[r].state) = "drawing"
    BY <2>1, <2>2, Phases
  <2>4. Book!Moves({"open"}, PhaseOf(round'[r].state))
    BY <2>1, <2>2, <2>3, BookMove DEF Unswapped
  <2>5. Book!Moves({"open"}, "drawing")
    BY <2>3, <2>4
  <2> QED BY <2>5 DEF Book!Draw, Book!Next
<1>5. ASSUME NEW r \in RoundId, CancelRound(r)
      PROVE  Book!Next
  <2>1. /\ round[r].state \in Unswapped /\ round' = [round EXCEPT ![r].state = "closed"]
        /\ UNCHANGED miner /\ config'.current_round_id = config.current_round_id
    BY <1>5 DEF CancelRound, TypeOK, ConfigType
  <2>2. /\ round'[r].state = "closed" /\ round'[r].pot = round[r].pot
        /\ \A q \in RoundId : q # r => round'[q] = round[q]
    BY <2>1, MarkedEffect
  <2>3. PhaseOf(round[r].state) \in {"open", "drawing"} /\ PhaseOf(round'[r].state) = "closed"
    BY <2>1, <2>2, Phases DEF Unswapped
  <2>4. Book!Moves({"open", "drawing"}, PhaseOf(round'[r].state))
    BY <2>1, <2>2, <2>3, BookMove
  <2>5. Book!Moves({"open", "drawing"}, "closed")
    BY <2>3, <2>4
  <2> QED BY <2>5 DEF Book!Cancel, Book!Live, Book!Next
<1>6. ASSUME NEW r \in RoundId,
             ExecuteSwapMock(r) \/ \E out \in Outs : ExecuteSwapReal(r, out)
      PROVE  Book!Next
  <2>1. PICK out \in Nat : /\ round[r].state = "settled" /\ FinalizeSwap(r, out)
                           /\ UNCHANGED miner
    BY <1>6, SwapEffect
  <2>2. /\ round'[r].state = "claimable" /\ round'[r].pot = round[r].pot
        /\ \A q \in RoundId : q # r => round'[q] = round[q]
        /\ config'.current_round_id = config.current_round_id
    BY <2>1, FinalizeEffect
  <2>3. PhaseOf(round[r].state) \in {"drawing"} /\ PhaseOf(round'[r].state) = "claimable"
    BY <2>1, <2>2, Phases
  <2>4. Book!Moves({"drawing"}, PhaseOf(round'[r].state))
    BY <2>1, <2>2, <2>3, BookMove DEF Unswapped
  <2>5. Book!Moves({"drawing"}, "claimable")
    BY <2>3, <2>4
  <2> QED BY <2>5 DEF Book!Swap, Book!Next
<1>7. ASSUME NEW p \in Player, NEW r \in RoundId, ClaimDirect(p, r) \/ RefundDirect(p, r)
      PROVE  Book!Next
  BY <1>0, <1>7, BookSpend DEF Book!Next
<1>8. ASSUME NEW r \in RoundId, CloseRound(r)
      PROVE  Book!Next
  BY <1>0, <1>8, BookReap DEF Book!Next
<1>9. ASSUME \/ \E p \in Player, a \in Amounts : Deposit(p, a) \/ Withdraw(p, a)
             \/ \E q \in ParamChoices : Admin(q)
             \/ Tick
             \/ UNCHANGED vars
      PROVE  UNCHANGED Book!bookVars
  <2>1. UNCHANGED <<round, miner>>
    BY <1>9 DEF Deposit, Withdraw, Admin, Tick, vars
  <2>2. config'.current_round_id = config.current_round_id
    BY <1>9 DEF Deposit, Withdraw, Admin, Tick, vars, TypeOK, ConfigType
  <2>3. Phase' = Phase /\ Pot' = Pot /\ Stamp' = Stamp /\ Staked' = Staked
    BY <2>1, BookNext DEF Phase, Pot, Stamp, Staked
  <2> QED BY <2>2, <2>3, BookStutter
<1> QED BY <1>1, <1>2, <1>3, <1>4, <1>5, <1>6, <1>7, <1>8, <1>9 DEF Next

(* The layers above the game may rely on RoundBook: every step of the game *)
(* is a step of it or none, for every admin, oracle and order of calls.    *)
THEOREM GameImplementsBook == Spec => ImplementsBook
<1>1. Init => TypeOK /\ Serialized /\ MinersPast
  BY InitType, InitSerialized, InitMinersPast
<1>2. TypeOK /\ Serialized /\ MinersPast /\ [Next]_vars => (TypeOK /\ Serialized /\ MinersPast)'
  BY StepType, StepSerialized, StepMinersPast
<1> QED BY <1>1, <1>2, BookInit, BookStep, PTL DEF Spec, ImplementsBook, Book!Spec
=============================================================================
