-------------------------- MODULE DirectGameProofs --------------------------
(***************************************************************************)
(* What holds of DirectGame for every number of players, rounds, squares,  *)
(* every set of amounts and draws and every setting of the parameters.     *)
(* The invariants are proved in layers, each step lemma citing the layers  *)
(* below it: TypeOK, Serialized, StakesBooked, PotVaultSolvent.            *)
(***************************************************************************)
EXTENDS DirectGame, SumsTheorems

-----------------------------------------------------------------------------
(* The payout arithmetic: its results are naturals, and its floors never   *)
(* hand out more than they were given.                                     *)

(* What the proofs need of a draw and of a band. *)
IsDraw(d) == d \in [square: Square, x: [Square -> Nat], trigger: Nat]
IsBand(lo, hi) == lo \in Nat /\ hi \in Nat /\ lo <= hi

LEMMA SquareIndex == \A i \in 0..GRID_SIZE-1 : i \in Square
  BY DEF Square

LEMMA TotalNat ==
  ASSUME NEW stake \in [Square -> Nat]
  PROVE  Total(stake) \in Nat
  BY SumNat, GridAssumption DEF Total, Square

LEMMA TotalNoStake == Total(NoStake) = 0
  BY SumZeros, GridAssumption DEF Total, NoStake, Square

LEMMA MultiplierRange ==
  ASSUME NEW d, IsDraw(d), NEW s \in Square, NEW lo, NEW hi, IsBand(lo, hi)
  PROVE  multiplier_bps(d, s, lo, hi) \in Nat /\ multiplier_bps(d, s, lo, hi) \in lo .. hi
<1>1. d.x[s] \in Nat /\ hi - lo + 1 \in Nat \ {0} /\ lo \in Nat /\ hi \in Nat
  BY DEF IsDraw, IsBand
<1>2. d.x[s] % (hi - lo + 1) \in 0 .. (hi - lo)
  BY <1>1
<1> QED BY <1>1, <1>2 DEF multiplier_bps

(* One term of a weight. *)
Term(stake, d, lo, hi) ==
  [s \in Square |-> IF s = d.square THEN 0 ELSE stake[s] * multiplier_bps(d, s, lo, hi)]

LEMMA WeightIsSum ==
  ASSUME NEW stake, NEW d, NEW lo, NEW hi
  PROVE  return_weight(stake, d, lo, hi) = SumBelow(Term(stake, d, lo, hi), GRID_SIZE)
  BY DEF return_weight, Term

LEMMA TermRange ==
  ASSUME NEW stake \in [Square -> Nat], NEW d, IsDraw(d), NEW lo, NEW hi, IsBand(lo, hi),
         NEW s \in Square
  PROVE  /\ Term(stake, d, lo, hi)[s] \in Nat
         /\ Term(stake, d, lo, hi)[s] <= hi * stake[s]
<1> DEFINE f == multiplier_bps(d, s, lo, hi)
<1>1. f \in Nat /\ f <= hi /\ hi \in Nat /\ stake[s] \in Nat
  BY MultiplierRange DEF IsBand
<1>2. Term(stake, d, lo, hi)[s] = IF s = d.square THEN 0 ELSE stake[s] * f
  BY DEF Term
<1> HIDE DEF f
<1>3. stake[s] * f \in Nat /\ stake[s] * f <= hi * stake[s] /\ 0 <= hi * stake[s]
  BY <1>1
<1> QED BY <1>2, <1>3

LEMMA WeightNat ==
  ASSUME NEW stake \in [Square -> Nat], NEW d, IsDraw(d), NEW lo, NEW hi, IsBand(lo, hi)
  PROVE  return_weight(stake, d, lo, hi) \in Nat
  BY WeightIsSum, TermRange, SumNat, GridAssumption, SquareIndex

(* No weight exceeds the whole stake at the top of the band. *)
LEMMA WeightAtMost ==
  ASSUME NEW stake \in [Square -> Nat], NEW d, IsDraw(d), NEW lo, NEW hi, IsBand(lo, hi)
  PROVE  return_weight(stake, d, lo, hi) <= hi * Total(stake)
<1> DEFINE top == [s \in Square |-> hi * stake[s]]
<1>1. hi \in Nat
  BY DEF IsBand
<1>2. \A i \in 0..GRID_SIZE-1 : stake[i] \in Int /\ top[i] = hi * stake[i] /\ top[i] \in Int
  BY <1>1, SquareIndex
<1>3. \A i \in 0..GRID_SIZE-1 : /\ Term(stake, d, lo, hi)[i] \in Int
                                /\ Term(stake, d, lo, hi)[i] <= top[i]
  BY TermRange, SquareIndex
<1> HIDE DEF top
<1>4. SumBelow(Term(stake, d, lo, hi), GRID_SIZE) <= SumBelow(top, GRID_SIZE)
  BY <1>2, <1>3, SumMono, GridAssumption
<1>5. SumBelow(top, GRID_SIZE) = hi * SumBelow(stake, GRID_SIZE)
  BY <1>1, <1>2, SumScale, GridAssumption
<1> QED BY <1>4, <1>5, WeightIsSum DEF Total

LEMMA NonjackpotNat ==
  ASSUME NEW w \in Nat, NEW pot \in Nat, NEW out \in Nat
  PROVE  nonjackpot_payout(w, pot, out) \in Nat
<1>1. CASE pot = 0
  BY <1>1 DEF nonjackpot_payout
<1>2. CASE pot # 0
  <2>1. pot * BPS \in Nat \ {0} /\ out * w \in Nat
    BY <1>2 DEF BPS
  <2>2. (out * w) \div (pot * BPS) \in Nat
    BY <2>1, DivNat
  <2> QED BY <1>2, <2>2 DEF nonjackpot_payout
<1> QED BY <1>1, <1>2

LEMMA JackpotShareNat ==
  ASSUME NEW pool \in Nat, NEW mine \in Nat, NEW total \in Nat
  PROVE  jackpot_share(pool, mine, total) \in Nat
<1>1. CASE total = 0
  BY <1>1 DEF jackpot_share
<1>2. CASE total # 0
  <2>1. pool * mine \in Nat /\ total \in Nat \ {0}
    BY <1>2
  <2>2. (pool * mine) \div total \in Nat
    BY <2>1, DivNat
  <2> QED BY <1>2, <2>2 DEF jackpot_share
<1> QED BY <1>1, <1>2

(* Under a band that tops out at half, the losing squares of a pot get at  *)
(* most half of its proceeds: the floor only helps.                        *)
LEMMA NonjackpotAtMostHalf ==
  ASSUME NEW stake \in [Square -> Nat], NEW d, IsDraw(d), NEW lo, NEW hi, IsBand(lo, hi),
         NEW out \in Nat, 2 * hi <= BPS
  PROVE  2 * nonjackpot_payout(return_weight(stake, d, lo, hi), Total(stake), out) <= out
<1> DEFINE w == return_weight(stake, d, lo, hi)
           T == Total(stake)
           q == (out * w) \div (T * BPS)
<1>1. w \in Nat /\ T \in Nat /\ w <= hi * T /\ hi \in Nat
  BY WeightNat, WeightAtMost, TotalNat DEF IsBand
<1> HIDE DEF w, T
<1>2. CASE T = 0
  BY <1>2 DEF nonjackpot_payout, T
<1>3. CASE T # 0
  <2>1. T * BPS \in Nat \ {0} /\ out * w \in Nat
    BY <1>1, <1>3 DEF BPS
  <2>2. q \in Nat /\ (T * BPS) * q <= out * w
    BY <2>1, DivNat
  <2>3. 2 * w <= T * BPS
    <3>1. 2 * w <= 2 * (hi * T)
      BY <1>1
    <3>2. 2 * (hi * T) = (2 * hi) * T
      BY <1>1
    <3>3. (2 * hi) * T <= BPS * T
      BY <1>1 DEF BPS
    <3> QED BY <1>1, <3>1, <3>2, <3>3 DEF BPS
  <2> DEFINE D == T * BPS
  <2>4. D \in Nat \ {0} /\ D * q <= out * w /\ 2 * w <= D
    BY <2>1, <2>2, <2>3
  <2> HIDE DEF D, q
  <2>5. D * (2 * q) <= D * out
    <3>1. D * (2 * q) = 2 * (D * q)
      BY <2>2, <2>4
    <3>2. 2 * (D * q) <= 2 * (out * w)
      BY <2>2, <2>4, <1>1
    <3>3. 2 * (out * w) = out * (2 * w)
      BY <1>1
    <3>4. out * (2 * w) <= out * D
      BY <2>4, <1>1
    <3> QED BY <2>2, <2>4, <1>1, <3>1, <3>2, <3>3, <3>4
  <2>6. 2 * q <= out
    <3>1. SUFFICES ASSUME 2 * q >= out + 1 PROVE FALSE
      BY <2>2
    <3>2. D * (2 * q) >= D * (out + 1)
      BY <2>2, <2>4, <3>1
    <3>3. D * (out + 1) = D * out + D
      BY <2>4
    <3>4. D * out \in Nat /\ D * (2 * q) \in Nat
      BY <2>2, <2>4
    <3> QED BY <2>4, <2>5, <3>2, <3>3, <3>4
  <2> QED BY <1>3, <2>6 DEF nonjackpot_payout, q, w, T
<1> QED BY <1>2, <1>3

-----------------------------------------------------------------------------
(* Types of the helpers *)

LEMMA BandOK ==
  ASSUME params \in ParamType, ValidBand(params)
  PROVE  /\ IsBand(params.mult_min_bps, params.mult_max_bps)
         /\ 2 * params.mult_max_bps <= BPS
  BY DEF ParamType, ValidBand, IsBand, RETURN_MAX_BPS, BPS

LEMMA DrawsAreDraws ==
  ASSUME NEW d \in Draws
  PROVE  IsDraw(d) /\ d # NoDraw /\ d.square \in Square
  BY DrawAssumption DEF IsDraw, DrawType

LEMMA NoStakeType == NoStake \in [Square -> Nat]
  BY DEF NoStake

LEMMA NoRoundType == NoRound \in RoundType /\ NoRound.state = "absent"
  BY NoStakeType DEF NoRound, RoundType

LEMMA StakeInType ==
  ASSUME TypeOK, NEW p \in Player, NEW r \in RoundId
  PROVE  StakeIn(p, r) \in [Square -> Nat]
  BY NoStakeType DEF TypeOK, StakeIn

LEMMA BookedType ==
  ASSUME NEW rd \in RoundType, NEW s \in Square, NEW a \in Nat
  PROVE  /\ Booked(rd, s, a) \in RoundType
         /\ Booked(rd, s, a).state = rd.state
         /\ Booked(rd, s, a).randomness = rd.randomness
<1> DEFINE board == [rd.block_sol EXCEPT ![s] = rd.block_sol[s] + a]
           pot   == rd.pot + a
<1>1. board \in [Square -> Nat] /\ pot \in Nat
  BY DEF RoundType
<1>2. Booked(rd, s, a) = [rd EXCEPT !.block_sol = board, !.pot = pot]
  BY DEF Booked
<1> HIDE DEF board, pot
<1> QED BY <1>1, <1>2 DEF RoundType

LEMMA PayoutNat ==
  ASSUME TypeOK, NEW r \in RoundId, round[r].state = "claimable",
         NEW stake \in [Square -> Nat]
  PROVE  Payout(stake, round[r]) \in Nat
<1>1. /\ IsDraw(round[r].randomness) /\ round[r].randomness.square \in Square
      /\ round[r] \in RoundType
      /\ IsBand(params.mult_min_bps, params.mult_max_bps)
  BY DrawsAreDraws, BandOK DEF TypeOK
<1> DEFINE w == return_weight(stake, round[r].randomness, params.mult_min_bps, params.mult_max_bps)
<1>2. w \in Nat
  BY <1>1, WeightNat
<1> HIDE DEF w
<1>3. nonjackpot_payout(w, round[r].pot, round[r].swap_proceeds) \in Nat
  BY <1>1, <1>2, NonjackpotNat DEF RoundType
<1>4. jackpot_share(round[r].jackpot_pool, stake[round[r].randomness.square],
                    round[r].block_sol[round[r].randomness.square]) \in Nat
  BY <1>1, JackpotShareNat DEF RoundType
<1> QED BY <1>3, <1>4 DEF Payout, w

LEMMA SwapTypes ==
  ASSUME TypeOK, NEW r \in RoundId, round[r].state = "settled", NEW out \in Nat
  PROVE  /\ NjTotal(round[r], out) \in Nat
         /\ WinningStake(round[r]) \in Nat
         /\ Bite(round[r], out) \in Nat
         /\ Bite(round[r], out) <= config.rollover_jackpot
<1> DEFINE rd == round[r]
<1>1. /\ IsDraw(rd.randomness) /\ rd.randomness.square \in Square
      /\ rd.block_sol \in [Square -> Nat] /\ rd.pot \in Nat
      /\ IsBand(params.mult_min_bps, params.mult_max_bps)
      /\ config.rollover_jackpot \in Nat /\ params.cap_mult \in Nat
  BY DrawsAreDraws, BandOK DEF TypeOK, RoundType, ConfigType, ParamType
<1> HIDE DEF rd
<1>2. NjTotal(rd, out) \in Nat
  <2> DEFINE w == return_weight(rd.block_sol, rd.randomness,
                                params.mult_min_bps, params.mult_max_bps)
  <2>1. w \in Nat
    BY <1>1, WeightNat
  <2> HIDE DEF w
  <2>2. nonjackpot_payout(w, rd.pot, out) \in Nat
    BY <1>1, <2>1, NonjackpotNat
  <2> QED BY <2>2 DEF NjTotal, w
<1>3. WinningStake(rd) \in Nat
  BY <1>1 DEF WinningStake
<1>4. Bite(rd, out) \in Nat /\ Bite(rd, out) <= config.rollover_jackpot
  <2> DEFINE value  == (WinningStake(rd) * out) \div (IF rd.pot = 0 THEN 1 ELSE rd.pot)
             capped == params.cap_mult * value
  <2>1. value \in Nat
    <3>1. WinningStake(rd) * out \in Nat
      BY <1>3
    <3>2. (IF rd.pot = 0 THEN 1 ELSE rd.pot) \in Nat \ {0}
      BY <1>1
    <3> QED BY <3>1, <3>2, DivNat
  <2>2. Bite(rd, out) = IF ~ jackpot_triggered(rd.randomness, params.trigger_odds) THEN 0
                        ELSE IF params.cap_mult = 0 \/ capped > config.rollover_jackpot
                             THEN config.rollover_jackpot
                             ELSE capped
    BY DEF Bite
  <2> HIDE DEF value
  <2>3. capped \in Nat
    BY <1>1, <2>1
  <2> HIDE DEF capped
  <2> QED BY <1>1, <2>2, <2>3
<1> QED BY <1>2, <1>3, <1>4 DEF rd

LEMMA NetPotNat ==
  ASSUME TypeOK, NEW pot \in Nat
  PROVE  NetPot(pot) \in Nat
<1>1. params.fee_bps \in Nat /\ params.fee_bps <= BPS
  BY DEF TypeOK, ParamType, MAX_FEE_BPS, BPS
<1>2. pot * params.fee_bps \in Nat /\ BPS \in Nat \ {0} /\ pot * params.fee_bps <= BPS * pot
  BY <1>1 DEF BPS
<1>3. (pot * params.fee_bps) \div BPS \in Nat /\ (pot * params.fee_bps) \div BPS <= pot
  BY <1>2, DivNat, DivAtMost
<1> QED BY <1>3 DEF NetPot

-----------------------------------------------------------------------------
(* Type correctness *)

LEMMA InitType == Init => TypeOK
<1> SUFFICES ASSUME Init PROVE TypeOK
  OBVIOUS
<1>1. 0 \in RoundId
  BY SizeAssumption DEF RoundId
<1>2. config \in ConfigType
  BY <1>1 DEF Init, ConfigType
<1>3. params \in ParamType /\ ValidBand(params) /\ params.fee_bps <= MAX_FEE_BPS
  BY ParamAssumption DEF Init
<1>4. round \in [RoundId -> RoundType] /\ \A r \in RoundId : round[r].state = "absent"
  BY NoRoundType DEF Init
<1>5. miner \in [Player -> [round_id: RoundId, block_stake: [Square -> Nat]]]
  BY <1>1, NoStakeType DEF Init
<1> QED BY <1>2, <1>3, <1>4, <1>5 DEF Init, TypeOK

LEMMA StepType == TypeOK /\ [Next]_vars => TypeOK'
<1> SUFFICES ASSUME TypeOK, [Next]_vars PROVE TypeOK'
  OBVIOUS
<1> USE DEF TypeOK
<1>1. CASE CreateRound
  <2> DEFINE id == config.current_round_id + 1
             deadline == now + params.round_duration_secs
  <2>1. id \in RoundId /\ deadline \in Nat
    <3>1. config.current_round_id \in RoundId /\ id <= MaxRounds
      BY <1>1 DEF CreateRound, ConfigType
    <3>2. now \in Nat /\ params.round_duration_secs \in Nat
      BY DEF ParamType
    <3> QED BY <3>1, <3>2, SizeAssumption DEF RoundId
  <2>2. NewRound(deadline) \in RoundType /\ NewRound(deadline).state = "open"
    BY <2>1, NoRoundType DEF NewRound, RoundType, Unswapped
  <2>3. config' \in ConfigType
    BY <1>1, <2>1 DEF CreateRound, ConfigType
  <2>4. round' = [round EXCEPT ![id] = NewRound(deadline)]
    BY <1>1 DEF CreateRound
  <2> HIDE DEF id, deadline
  <2> QED BY <1>1, <2>1, <2>2, <2>3, <2>4 DEF CreateRound
<1>2. ASSUME NEW p \in Player, NEW r \in RoundId, NEW s \in Square, NEW a \in Amounts,
             StakeDirect(p, r, s, a)
      PROVE  TypeOK'
  <2>1. a \in Nat /\ StakeIn(p, r) \in [Square -> Nat]
    BY AmountAssumption, StakeInType
  <2>2. /\ round' \in [RoundId -> RoundType]
        /\ \A q \in RoundId : /\ round'[q].state = round[q].state
                              /\ round'[q].randomness = round[q].randomness
    <3> DEFINE X == Booked(round[r], s, a)
    <3>1. round[r] \in RoundType
      OBVIOUS
    <3>2. X \in RoundType /\ X.state = round[r].state /\ X.randomness = round[r].randomness
      BY <2>1, <3>1, BookedType
    <3>3. round' = [round EXCEPT ![r] = X]
      BY <1>2 DEF StakeDirect
    <3> HIDE DEF X
    <3> QED BY <3>2, <3>3
  <2>3. miner' \in [Player -> [round_id: RoundId, block_stake: [Square -> Nat]]]
    BY <1>2, <2>1 DEF StakeDirect
  <2>4. pot_vault' \in Nat
    BY <1>2, <2>1 DEF StakeDirect
  <2> QED BY <1>2, <2>2, <2>3, <2>4 DEF StakeDirect
<1>3. ASSUME NEW r \in RoundId, NEW d \in Draws, Settle(r, d) \/ SettleCallback(r, d)
      PROVE  TypeOK'
  <2>1. /\ round' \in [RoundId -> RoundType]
        /\ round'[r].randomness = d
        /\ \A q \in RoundId : q # r => round'[q] = round[q]
    <3> DEFINE X == [round[r] EXCEPT !.randomness = d, !.state = "settled"]
    <3>1. round[r] \in RoundType
      OBVIOUS
    <3>2. X \in RoundType /\ X.randomness = d
      BY <3>1 DEF RoundType, Unswapped
    <3>3. round' = [round EXCEPT ![r] = X]
      BY <1>3 DEF Settle, SettleCallback, Drawn
    <3> HIDE DEF X
    <3> QED BY <3>2, <3>3
  <2>2. \A q \in RoundId : round'[q].state \in {"settled", "claimable"}
                              => round'[q].randomness \in Draws
    BY <2>1
  <2>3. UNCHANGED <<config, params, miner, escrow, pot_vault, treasury, payout_vault, oracle, now>>
    BY <1>3 DEF Settle, SettleCallback
  <2> QED BY <2>1, <2>2, <2>3
<1>4. ASSUME NEW r \in RoundId, RequestSettle(r)
      PROVE  TypeOK'
  <2>1. /\ round' \in [RoundId -> RoundType]
        /\ round'[r].state = "vrf_pending"
        /\ \A q \in RoundId : q # r => round'[q] = round[q]
    <3> DEFINE X == [round[r] EXCEPT !.state = "vrf_pending"]
    <3>1. round[r] \in RoundType
      OBVIOUS
    <3>2. X \in RoundType /\ X.state = "vrf_pending"
      BY <3>1 DEF RoundType, Unswapped
    <3>3. round' = [round EXCEPT ![r] = X]
      BY <1>4 DEF RequestSettle
    <3> HIDE DEF X
    <3> QED BY <3>2, <3>3
  <2> QED BY <1>4, <2>1 DEF RequestSettle
<1>5. ASSUME NEW r \in RoundId, NEW out \in Nat, round[r].state = "settled",
             FinalizeSwap(r, out)
      PROVE  /\ config' \in ConfigType
             /\ round' \in [RoundId -> RoundType]
             /\ \A q \in RoundId : round'[q].state \in {"settled", "claimable"}
                                      => round'[q].randomness \in Draws
  <2> DEFINE rd == round[r]
  <2>1. /\ NjTotal(rd, out) \in Nat /\ Bite(rd, out) \in Nat /\ WinningStake(rd) \in Nat
        /\ Bite(rd, out) <= config.rollover_jackpot /\ config.rollover_jackpot \in Nat
        /\ NjTotal(rd, out) <= out
    BY <1>5, SwapTypes DEF FinalizeSwap, ConfigType
  <2>2. JackpotPool(rd, out) \in Nat /\ NewRollover(rd, out) \in Nat
    <3> HIDE DEF rd
    <3>1. JackpotPool(rd, out) \in Nat
      BY <2>1 DEF JackpotPool
    <3>2. NewRollover(rd, out) \in Nat
      BY <2>1 DEF NewRollover
    <3> QED BY <3>1, <3>2
  <2>3. config' \in ConfigType
    <3> DEFINE rollover == NewRollover(rd, out)
               owed     == config.ansem_obligations + out
    <3>1. rollover \in Nat /\ owed \in Nat /\ config \in ConfigType
      BY <2>2 DEF ConfigType
    <3>2. config' = [config EXCEPT !.rollover_jackpot = rollover,
                                   !.ansem_obligations = owed,
                                   !.current_round_finalized = TRUE]
      BY <1>5 DEF FinalizeSwap
    <3> HIDE DEF rollover, owed
    <3> QED BY <3>1, <3>2 DEF ConfigType
  <2>4. /\ round' \in [RoundId -> RoundType]
        /\ round'[r].randomness = round[r].randomness
        /\ \A q \in RoundId : q # r => round'[q] = round[q]
    <3> DEFINE pool == JackpotPool(rd, out)
               ent  == NjTotal(rd, out) + pool
               X    == [round[r] EXCEPT !.swap_proceeds = out, !.jackpot_pool = pool,
                                        !.entitlement_total = ent, !.state = "claimable"]
    <3>1. round[r] \in RoundType /\ pool \in Nat /\ ent \in Nat
      BY <2>1, <2>2
    <3>2. round' = [round EXCEPT ![r] = X]
      BY <1>5 DEF FinalizeSwap
    <3> HIDE DEF pool, ent, rd
    <3>3. X \in RoundType /\ X.randomness = round[r].randomness
      BY <3>1 DEF RoundType
    <3> HIDE DEF X
    <3> QED BY <3>1, <3>2, <3>3
  <2> QED BY <1>5, <2>3, <2>4
<1>6. ASSUME NEW r \in RoundId, ExecuteSwapMock(r)
      PROVE  TypeOK'
  <2> DEFINE out == (NetPot(round[r].pot) * MockRate) \div LAMPORTS_PER_SOL
  <2>1. round[r].pot \in Nat
    BY DEF RoundType
  <2>2. out \in Nat
    <3>1. NetPot(round[r].pot) * MockRate \in Nat
      BY <2>1, NetPotNat, RateAssumption
    <3> QED BY <3>1, DivNat, RateAssumption
  <2>3. /\ FinalizeSwap(r, out) /\ SellPot(r) /\ round[r].state = "settled"
        /\ payout_vault' = payout_vault + out
    BY <1>6 DEF ExecuteSwapMock
  <2> HIDE DEF out
  <2>4. pot_vault' \in Nat /\ treasury' \in Nat /\ payout_vault' \in Nat
    BY <2>1, <2>2, <2>3 DEF SellPot, ConfigType
  <2>5. UNCHANGED <<params, miner, escrow, oracle, now>>
    BY <1>6 DEF ExecuteSwapMock
  <2> QED BY <1>5, <2>2, <2>3, <2>4, <2>5
<1>7. ASSUME NEW r \in RoundId, NEW out \in Outs, ExecuteSwapReal(r, out)
      PROVE  TypeOK'
  <2>1. round[r].pot \in Nat /\ out \in Nat
    BY AmountAssumption DEF RoundType
  <2>2. pot_vault' \in Nat /\ treasury' \in Nat /\ payout_vault' \in Nat
    BY <1>7, <2>1 DEF ExecuteSwapReal, SellPot, ConfigType
  <2> QED BY <1>5, <1>7, <2>1, <2>2 DEF ExecuteSwapReal
<1>8. ASSUME NEW p \in Player, NEW r \in RoundId, ClaimDirect(p, r)
      PROVE  TypeOK'
  <2> DEFINE amount == Payout(miner[p].block_stake, round[r])
  <2>1. amount \in Nat
    BY <1>8, PayoutNat DEF ClaimDirect
  <2>2. /\ payout_vault' = payout_vault - amount /\ amount <= payout_vault
        /\ round' = [round EXCEPT ![r].claimed_proceeds = @ + amount]
        /\ config' = [config EXCEPT !.ansem_obligations = DrawnDown(@, amount)]
        /\ miner' = [miner EXCEPT ![p] = Spent(@)]
    BY <1>8 DEF ClaimDirect
  <2> HIDE DEF amount
  <2>3. config' \in ConfigType
    BY <2>1, <2>2 DEF ConfigType, DrawnDown, Minus
  <2>4. /\ round' \in [RoundId -> RoundType]
        /\ \A q \in RoundId : /\ round'[q].state = round[q].state
                              /\ round'[q].randomness = round[q].randomness
    <3> DEFINE claimed == round[r].claimed_proceeds + amount
               X       == [round[r] EXCEPT !.claimed_proceeds = claimed]
    <3>1. round[r] \in RoundType
      OBVIOUS
    <3>2. claimed \in Nat
      BY <2>1, <3>1 DEF RoundType
    <3>3. round' = [round EXCEPT ![r] = X]
      BY <2>2
    <3> HIDE DEF claimed
    <3>4. X \in RoundType /\ X.state = round[r].state /\ X.randomness = round[r].randomness
      BY <3>1, <3>2 DEF RoundType
    <3> HIDE DEF X
    <3> QED BY <3>3, <3>4
  <2>5. miner' \in [Player -> [round_id: RoundId, block_stake: [Square -> Nat]]]
    BY <2>2, NoStakeType DEF Spent
  <2>6. payout_vault' \in Nat
    BY <2>1, <2>2
  <2> QED BY <1>8, <2>3, <2>4, <2>5, <2>6 DEF ClaimDirect
<1>9. ASSUME NEW r \in RoundId, CancelRound(r)
      PROVE  TypeOK'
  <2>1. /\ round' \in [RoundId -> RoundType]
        /\ round'[r].state = "closed"
        /\ \A q \in RoundId : q # r => round'[q] = round[q]
    <3> DEFINE X == [round[r] EXCEPT !.state = "closed"]
    <3>1. round[r] \in RoundType
      OBVIOUS
    <3>2. X \in RoundType /\ X.state = "closed"
      BY <3>1 DEF RoundType
    <3>3. round' = [round EXCEPT ![r] = X]
      BY <1>9 DEF CancelRound
    <3> HIDE DEF X
    <3> QED BY <3>2, <3>3
  <2>2. config' \in ConfigType
    BY <1>9 DEF CancelRound, ConfigType
  <2> QED BY <1>9, <2>1, <2>2 DEF CancelRound
<1>10. ASSUME NEW p \in Player, NEW r \in RoundId, RefundDirect(p, r)
       PROVE  TypeOK'
  <2>1. Total(miner[p].block_stake) \in Nat
    BY TotalNat
  <2>2. pot_vault' \in Nat
    BY <1>10, <2>1 DEF RefundDirect
  <2>3. miner' \in [Player -> [round_id: RoundId, block_stake: [Square -> Nat]]]
    BY <1>10, NoStakeType DEF RefundDirect, Spent
  <2> QED BY <1>10, <2>2, <2>3 DEF RefundDirect
<1>11. ASSUME NEW r \in RoundId, CloseRound(r)
       PROVE  TypeOK'
  <2>1. Forfeited(round[r]) \in Nat
    BY DEF Forfeited, Minus, RoundType
  <2>2. config' \in ConfigType
    BY <1>11, <2>1 DEF CloseRound, ConfigType
  <2>3. /\ round' \in [RoundId -> RoundType]
        /\ round'[r].state = "absent"
        /\ \A q \in RoundId : q # r => round'[q] = round[q]
    BY <1>11, NoRoundType DEF CloseRound
  <2> QED BY <1>11, <2>2, <2>3 DEF CloseRound
<1>12. ASSUME NEW p \in Player, NEW a \in Amounts, Deposit(p, a) \/ Withdraw(p, a)
       PROVE  TypeOK'
  <2>1. a \in Nat /\ escrow[p] \in Nat /\ config \in ConfigType
    BY AmountAssumption
  <2>2. CASE Deposit(p, a)
    <3>1. config' \in ConfigType
      BY <2>1, <2>2 DEF Deposit, ConfigType
    <3>2. escrow' \in [Player -> Nat] /\ pot_vault' \in Nat
      BY <2>1, <2>2 DEF Deposit
    <3> QED BY <2>2, <3>1, <3>2 DEF Deposit
  <2>3. CASE Withdraw(p, a)
    <3>1. config' \in ConfigType
      BY <2>1, <2>3 DEF Withdraw, ConfigType
    <3>2. escrow' \in [Player -> Nat] /\ pot_vault' \in Nat
      BY <2>1, <2>3 DEF Withdraw
    <3> QED BY <2>3, <3>1, <3>2 DEF Withdraw
  <2> QED BY <1>12, <2>2, <2>3
<1>13. ASSUME NEW q \in ParamChoices, Admin(q)
       PROVE  TypeOK'
  <2>1. q \in ParamType
    BY ParamAssumption
  <2>2. params' \in ParamType /\ ValidBand(params') /\ params'.fee_bps <= MAX_FEE_BPS
    BY <1>13, <2>1 DEF Admin, SetRoundDuration, SetFeeBps, SetReturnBand, SetMinSwapRate,
       SetClaimWindow, SetStakeLimits, SetJackpotParams, ParamType, ValidBand
  <2> QED BY <1>13, <2>2 DEF Admin
<1>14. CASE Tick
  BY <1>14 DEF Tick
<1>15. CASE UNCHANGED vars
  BY <1>15 DEF vars
<1> QED BY <1>1, <1>2, <1>3, <1>4, <1>6, <1>7, <1>8, <1>9, <1>10, <1>11, <1>12,
           <1>13, <1>14, <1>15 DEF Next

(* Every account always holds values of its type, whatever the admin does. *)
THEOREM TypeCorrect == Spec => []TypeOK
  BY InitType, StepType, PTL DEF Spec

-----------------------------------------------------------------------------
(* What the longer actions do, field by field *)

LEMMA FinalizeEffect ==
  ASSUME TypeOK, NEW r \in RoundId, NEW out \in Nat, FinalizeSwap(r, out)
  PROVE  /\ round'[r].state = "claimable"
         /\ round'[r].pot = round[r].pot
         /\ round'[r].block_sol = round[r].block_sol
         /\ round'[r].randomness = round[r].randomness
         /\ round'[r].claimed_proceeds = round[r].claimed_proceeds
         /\ round'[r].swap_proceeds = out
         /\ round'[r].jackpot_pool = JackpotPool(round[r], out)
         /\ round'[r].entitlement_total = NjTotal(round[r], out) + JackpotPool(round[r], out)
         /\ \A q \in RoundId : q # r => round'[q] = round[q]
         /\ config'.current_round_id = config.current_round_id
         /\ config'.current_round_finalized = TRUE
         /\ config'.total_escrow_balance = config.total_escrow_balance
         /\ config'.rollover_jackpot = NewRollover(round[r], out)
         /\ config'.ansem_obligations = config.ansem_obligations + out
<1> DEFINE pool     == JackpotPool(round[r], out)
           nj       == NjTotal(round[r], out)
           rollover == NewRollover(round[r], out)
           X == [round[r] EXCEPT !.swap_proceeds = out, !.jackpot_pool = pool,
                                 !.entitlement_total = nj + pool, !.state = "claimable"]
<1>1. round' = [round EXCEPT ![r] = X] /\ round \in [RoundId -> RoundType]
  BY DEF FinalizeSwap, TypeOK
<1>2. config' = [config EXCEPT !.rollover_jackpot        = rollover,
                               !.ansem_obligations       = config.ansem_obligations + out,
                               !.current_round_finalized = TRUE]
  BY DEF FinalizeSwap
<1>3. config \in ConfigType /\ round[r] \in RoundType
  BY DEF TypeOK
<1> HIDE DEF pool, nj, rollover
<1>4. /\ X.state = "claimable"
      /\ X.pot = round[r].pot
      /\ X.block_sol = round[r].block_sol
      /\ X.randomness = round[r].randomness
      /\ X.claimed_proceeds = round[r].claimed_proceeds
      /\ X.swap_proceeds = out
      /\ X.jackpot_pool = pool
      /\ X.entitlement_total = nj + pool
  BY <1>3 DEF RoundType
<1>5. round'[r] = X /\ \A q \in RoundId : q # r => round'[q] = round[q]
  BY <1>1
<1>6. /\ config'.current_round_id = config.current_round_id
      /\ config'.current_round_finalized = TRUE
      /\ config'.total_escrow_balance = config.total_escrow_balance
      /\ config'.rollover_jackpot = rollover
      /\ config'.ansem_obligations = config.ansem_obligations + out
  BY <1>2, <1>3 DEF ConfigType
<1> HIDE DEF X
<1> QED BY <1>4, <1>5, <1>6 DEF pool, nj, rollover

(* Either swap is a sale of the pot and a finalization. *)
LEMMA SwapEffect ==
  ASSUME TypeOK, NEW r \in RoundId,
         ExecuteSwapMock(r) \/ \E out \in Outs : ExecuteSwapReal(r, out)
  PROVE  \E out \in Nat :
           /\ round[r].state = "settled"
           /\ SellPot(r)
           /\ payout_vault' = payout_vault + out
           /\ FinalizeSwap(r, out)
           /\ UNCHANGED <<params, miner, escrow, oracle, now>>
<1>1. CASE ExecuteSwapMock(r)
  <2> DEFINE out == (NetPot(round[r].pot) * MockRate) \div LAMPORTS_PER_SOL
  <2>1. round[r].pot \in Nat
    BY DEF RoundType, TypeOK
  <2>2. NetPot(round[r].pot) * MockRate \in Nat
    BY <2>1, NetPotNat, RateAssumption
  <2>3. out \in Nat
    BY <2>2, DivNat, RateAssumption
  <2>4. /\ round[r].state = "settled"
        /\ SellPot(r)
        /\ payout_vault' = payout_vault + out
        /\ FinalizeSwap(r, out)
        /\ UNCHANGED <<params, miner, escrow, oracle, now>>
    BY <1>1 DEF ExecuteSwapMock
  <2> HIDE DEF out
  <2> QED BY <2>3, <2>4
<1>2. CASE \E out \in Outs : ExecuteSwapReal(r, out)
  BY <1>2, AmountAssumption DEF ExecuteSwapReal
<1> QED BY <1>1, <1>2

LEMMA DrawnEffect ==
  ASSUME TypeOK, NEW r \in RoundId, NEW d \in Draws, Drawn(r, d)
  PROVE  /\ round'[r].state = "settled"
         /\ round'[r].pot = round[r].pot
         /\ round'[r].block_sol = round[r].block_sol
         /\ round'[r].randomness = d
         /\ \A q \in RoundId : q # r => round'[q] = round[q]
  BY DEF Drawn, TypeOK, RoundType

(* Marking a round pending or cancelled touches its state alone. *)
LEMMA MarkedEffect ==
  ASSUME TypeOK, NEW r \in RoundId, NEW mark, round' = [round EXCEPT ![r].state = mark]
  PROVE  /\ round'[r].state = mark
         /\ round'[r].pot = round[r].pot
         /\ round'[r].block_sol = round[r].block_sol
         /\ round'[r].randomness = round[r].randomness
         /\ \A q \in RoundId : q # r => round'[q] = round[q]
  BY DEF TypeOK, RoundType

LEMMA ClaimEffect ==
  ASSUME TypeOK, NEW p \in Player, NEW r \in RoundId, ClaimDirect(p, r)
  PROVE  LET amount == Payout(miner[p].block_stake, round[r]) IN
         /\ amount \in Nat
         /\ round[r].state = "claimable" /\ miner[p].round_id = r
         /\ amount <= payout_vault /\ payout_vault' = payout_vault - amount
         /\ round' = [round EXCEPT ![r].claimed_proceeds = @ + amount]
         /\ config' = [config EXCEPT !.ansem_obligations = Minus(@, amount)]
         /\ miner' = [miner EXCEPT ![p] = [@ EXCEPT !.block_stake = NoStake]]
         /\ UNCHANGED <<params, escrow, pot_vault, treasury, oracle, now>>
<1>1. round[r].state = "claimable" /\ miner[p].block_stake \in [Square -> Nat]
  BY DEF ClaimDirect, TypeOK
<1>2. Payout(miner[p].block_stake, round[r]) \in Nat
  BY <1>1, PayoutNat
<1> QED BY <1>1, <1>2 DEF ClaimDirect, DrawnDown, Spent

-----------------------------------------------------------------------------
(* Rounds are serial *)

LEMMA InitSerialized == Init => Serialized
  BY NoRoundType DEF Init, Serialized, Unswapped

(* An action that rewrites one existing round and leaves the cursor alone  *)
(* keeps rounds serial if the round's place in its life and the gate move  *)
(* together.                                                               *)
LEMMA OneRoundSerialized ==
  ASSUME TypeOK, Serialized, NEW r \in RoundId, round[r].state # "absent",
         \A q \in RoundId : q # r => round'[q] = round[q],
         config'.current_round_id = config.current_round_id,
         \/ /\ round'[r].state \in Unswapped <=> round[r].state \in Unswapped
            /\ config'.current_round_finalized = config.current_round_finalized
         \/ /\ round[r].state \in Unswapped /\ round'[r].state \notin Unswapped
            /\ config'.current_round_finalized = TRUE
  PROVE  Serialized'
<1>1. /\ config.current_round_id \in Nat /\ r \in Nat
      /\ \A q \in RoundId : q \in Nat
      /\ config.current_round_finalized \in BOOLEAN
  BY SizeAssumption DEF TypeOK, ConfigType, RoundId
<1>2. ~ (r > config.current_round_id)
  BY NoRoundType DEF Serialized
<1> QED BY <1>1, <1>2 DEF Serialized

LEMMA StepSerialized == TypeOK /\ Serialized /\ [Next]_vars => Serialized'
<1> SUFFICES ASSUME TypeOK, Serialized, [Next]_vars PROVE Serialized'
  OBVIOUS
<1>1. CASE CreateRound
  <2> DEFINE id == config.current_round_id + 1
             X  == NewRound(now + params.round_duration_secs)
  <2>1. /\ config.current_round_id \in Nat /\ id \in RoundId
        /\ \A q \in RoundId : q \in Nat
        /\ config.current_round_finalized
    BY <1>1, SizeAssumption DEF TypeOK, ConfigType, RoundId, CreateRound, MayCreate
  <2>2. config'.current_round_id = id /\ config'.current_round_finalized = FALSE
    BY <1>1 DEF CreateRound, TypeOK, ConfigType
  <2>3. round'[id] = X /\ \A q \in RoundId : q # id => round'[q] = round[q]
    BY <1>1, <2>1 DEF CreateRound, TypeOK
  <2>4. X.state \in Unswapped
    BY DEF NewRound, NoRound, Unswapped
  <2> HIDE DEF X
  <2> QED BY <2>1, <2>2, <2>3, <2>4 DEF Serialized
<1>2. ASSUME NEW p \in Player, NEW r \in RoundId, NEW s \in Square, NEW a \in Amounts,
             StakeDirect(p, r, s, a)
      PROVE  Serialized'
  <2>1. round[r] \in RoundType /\ a \in Nat
    BY AmountAssumption DEF TypeOK
  <2>2. round'[r] = Booked(round[r], s, a) /\ \A q \in RoundId : q # r => round'[q] = round[q]
    BY <1>2 DEF StakeDirect, TypeOK
  <2>3. Booked(round[r], s, a).state = round[r].state
    BY <2>1, BookedType
  <2>4. round[r].state # "absent" /\ UNCHANGED config
    BY <1>2 DEF StakeDirect
  <2> QED BY <2>2, <2>3, <2>4, OneRoundSerialized
<1>3. ASSUME NEW r \in RoundId, NEW d \in Draws, Settle(r, d) \/ SettleCallback(r, d)
      PROVE  Serialized'
  <2>1. Drawn(r, d) /\ round[r].state \in Unswapped /\ UNCHANGED config
    BY <1>3 DEF Settle, SettleCallback, AwaitsDraw, Unswapped
  <2>2. round'[r].state = "settled" /\ \A q \in RoundId : q # r => round'[q] = round[q]
    BY <2>1, DrawnEffect
  <2> QED BY <2>1, <2>2, OneRoundSerialized DEF Unswapped
<1>4. ASSUME NEW r \in RoundId, RequestSettle(r)
      PROVE  Serialized'
  <2>1. /\ round' = [round EXCEPT ![r].state = "vrf_pending"]
        /\ round[r].state = "open" /\ UNCHANGED config
    BY <1>4 DEF RequestSettle
  <2>2. round'[r].state = "vrf_pending" /\ \A q \in RoundId : q # r => round'[q] = round[q]
    BY <2>1, MarkedEffect
  <2> QED BY <2>1, <2>2, OneRoundSerialized DEF Unswapped
<1>5. ASSUME NEW r \in RoundId,
             ExecuteSwapMock(r) \/ \E out \in Outs : ExecuteSwapReal(r, out)
      PROVE  Serialized'
  <2>1. PICK out \in Nat : round[r].state = "settled" /\ FinalizeSwap(r, out)
    BY <1>5, SwapEffect
  <2>2. /\ round'[r].state = "claimable"
        /\ \A q \in RoundId : q # r => round'[q] = round[q]
        /\ config'.current_round_id = config.current_round_id
        /\ config'.current_round_finalized = TRUE
    BY <2>1, FinalizeEffect
  <2> QED BY <2>1, <2>2, OneRoundSerialized DEF Unswapped
<1>6. ASSUME NEW p \in Player, NEW r \in RoundId, ClaimDirect(p, r)
      PROVE  Serialized'
  <2>1. /\ round[r].state = "claimable"
        /\ round'[r].state = "claimable"
        /\ \A q \in RoundId : q # r => round'[q] = round[q]
        /\ config'.current_round_id = config.current_round_id
        /\ config'.current_round_finalized = config.current_round_finalized
    BY <1>6 DEF ClaimDirect, TypeOK, RoundType, ConfigType
  <2> QED BY <2>1, OneRoundSerialized
<1>7. ASSUME NEW r \in RoundId, CancelRound(r)
      PROVE  Serialized'
  <2>1. /\ round' = [round EXCEPT ![r].state = "closed"]
        /\ round[r].state \in Unswapped
        /\ config'.current_round_id = config.current_round_id
        /\ config'.current_round_finalized = TRUE
    BY <1>7 DEF CancelRound, TypeOK, ConfigType
  <2>2. round'[r].state = "closed" /\ \A q \in RoundId : q # r => round'[q] = round[q]
    BY <2>1, MarkedEffect
  <2> QED BY <2>1, <2>2, OneRoundSerialized DEF Unswapped
<1>8. ASSUME NEW p \in Player, NEW r \in RoundId, RefundDirect(p, r)
      PROVE  Serialized'
  BY <1>8 DEF RefundDirect, Serialized
<1>9. ASSUME NEW r \in RoundId, CloseRound(r)
      PROVE  Serialized'
  <2>1. /\ round[r].state \in {"claimable", "closed"}
        /\ round'[r] = NoRound
        /\ \A q \in RoundId : q # r => round'[q] = round[q]
        /\ config'.current_round_id = config.current_round_id
        /\ config'.current_round_finalized = config.current_round_finalized
    BY <1>9 DEF CloseRound, Closeable, TypeOK, ConfigType
  <2> QED BY <2>1, NoRoundType, OneRoundSerialized DEF Unswapped
<1>10. ASSUME NEW p \in Player, NEW a \in Amounts, Deposit(p, a) \/ Withdraw(p, a)
       PROVE  Serialized'
  <2>1. /\ UNCHANGED round
        /\ config'.current_round_id = config.current_round_id
        /\ config'.current_round_finalized = config.current_round_finalized
    BY <1>10 DEF Deposit, Withdraw, TypeOK, ConfigType
  <2> QED BY <2>1 DEF Serialized
<1>11. CASE (\E q \in ParamChoices : Admin(q)) \/ Tick \/ UNCHANGED vars
  BY <1>11 DEF Admin, Tick, vars, Serialized
<1> QED BY <1>1, <1>2, <1>3, <1>4, <1>5, <1>6, <1>7, <1>8, <1>9, <1>10, <1>11 DEF Next

(* At most one round is unswapped, it is the current one, and create_round *)
(* is shut exactly while it is: the commingled vault never holds two live  *)
(* pots.                                                                   *)
THEOREM SerialRounds == Spec => []Serialized
<1>1. Init => TypeOK /\ Serialized
  BY InitType, InitSerialized
<1>2. TypeOK /\ Serialized /\ [Next]_vars => TypeOK' /\ Serialized'
  BY StepType, StepSerialized
<1> QED BY <1>1, <1>2, PTL DEF Spec

-----------------------------------------------------------------------------
(* The vault backs the ledger *)

LEMMA StepVault == TypeOK /\ VaultBacksLedger /\ [Next]_vars => VaultBacksLedger'
<1> SUFFICES ASSUME TypeOK, VaultBacksLedger, [Next]_vars PROVE VaultBacksLedger'
  OBVIOUS
<1>0. config \in ConfigType /\ config.ansem_obligations \in Nat /\ payout_vault \in Nat
  BY DEF TypeOK, ConfigType
<1>1. ASSUME NEW r \in RoundId,
             ExecuteSwapMock(r) \/ \E out \in Outs : ExecuteSwapReal(r, out)
      PROVE  VaultBacksLedger'
  <2>1. PICK out \in Nat : payout_vault' = payout_vault + out /\ FinalizeSwap(r, out)
    BY <1>1, SwapEffect
  <2>2. config'.ansem_obligations = config.ansem_obligations + out
    BY <2>1, FinalizeEffect
  <2> QED BY <1>0, <2>1, <2>2 DEF VaultBacksLedger
<1>2. ASSUME NEW p \in Player, NEW r \in RoundId, ClaimDirect(p, r)
      PROVE  VaultBacksLedger'
  <2> DEFINE amount == Payout(miner[p].block_stake, round[r])
  <2>1. /\ amount \in Nat /\ amount <= payout_vault
        /\ payout_vault' = payout_vault - amount
        /\ config' = [config EXCEPT !.ansem_obligations = Minus(@, amount)]
    BY <1>2, ClaimEffect
  <2> HIDE DEF amount
  <2>2. config'.ansem_obligations = Minus(config.ansem_obligations, amount)
    BY <1>0, <2>1 DEF ConfigType
  <2> QED BY <1>0, <2>1, <2>2 DEF VaultBacksLedger, Minus
<1>3. ASSUME /\ UNCHANGED payout_vault
             /\ config'.ansem_obligations = config.ansem_obligations
      PROVE  VaultBacksLedger'
  BY <1>3 DEF VaultBacksLedger
<1>4. ASSUME \/ CreateRound
             \/ \E r \in RoundId : CancelRound(r) \/ CloseRound(r)
             \/ \E p \in Player, a \in Amounts : Deposit(p, a) \/ Withdraw(p, a)
      PROVE  VaultBacksLedger'
  <2>1. /\ UNCHANGED payout_vault
        /\ config'.ansem_obligations = config.ansem_obligations
    BY <1>0, <1>4 DEF CreateRound, CancelRound, CloseRound, Deposit, Withdraw, ConfigType
  <2> QED BY <1>3, <2>1
<1>5. ASSUME \/ \E p \in Player, r \in RoundId, s \in Square, a \in Amounts :
                   StakeDirect(p, r, s, a)
             \/ \E r \in RoundId, d \in Draws : Settle(r, d) \/ SettleCallback(r, d)
             \/ \E r \in RoundId : RequestSettle(r)
             \/ \E p \in Player, r \in RoundId : RefundDirect(p, r)
             \/ \E q \in ParamChoices : Admin(q)
             \/ Tick
             \/ UNCHANGED vars
      PROVE  VaultBacksLedger'
  <2>1. UNCHANGED payout_vault /\ UNCHANGED config
    BY <1>5 DEF StakeDirect, Settle, SettleCallback, RequestSettle, RefundDirect, Admin,
                Tick, vars
  <2> QED BY <1>3, <2>1
<1> QED BY <1>1, <1>2, <1>4, <1>5 DEF Next

(* The ANSEM the ledger calls owed is in the vault, even when the admin    *)
(* moves the return band between a swap and its claims.                    *)
THEOREM VaultBacked == Spec => []VaultBacksLedger
<1>1. Init => TypeOK /\ VaultBacksLedger
  BY InitType DEF Init, VaultBacksLedger
<1>2. TypeOK /\ VaultBacksLedger /\ [Next]_vars => TypeOK' /\ VaultBacksLedger'
  BY StepType, StepVault
<1> QED BY <1>1, <1>2, PTL DEF Spec

-----------------------------------------------------------------------------
(* A draw is final *)

(* Strengthening: no randomness before the draw. *)
Undrawn ==
  \A r \in RoundId :
     round[r].state \in {"absent", "open", "vrf_pending"} => round[r].randomness = NoDraw

KeepsDraws ==
  \A r \in RoundId : round[r].randomness # NoDraw =>
     round'[r].randomness = round[r].randomness \/ round'[r] = NoRound

LEMMA StepUndrawn ==
  TypeOK /\ Serialized /\ Undrawn /\ [Next]_vars => Undrawn' /\ KeepsDraws
<1> SUFFICES ASSUME TypeOK, Serialized, Undrawn, [Next]_vars PROVE Undrawn' /\ KeepsDraws
  OBVIOUS
<1>0. ASSUME \A r \in RoundId : /\ round'[r].state = round[r].state
                                /\ round'[r].randomness = round[r].randomness
      PROVE  Undrawn' /\ KeepsDraws
  BY <1>0 DEF Undrawn, KeepsDraws
<1>1. CASE CreateRound
  <2> DEFINE id == config.current_round_id + 1
             X  == NewRound(now + params.round_duration_secs)
  <2>1. config.current_round_id \in Nat /\ id \in RoundId
    BY <1>1, SizeAssumption DEF TypeOK, ConfigType, RoundId, CreateRound
  <2>2. round'[id] = X /\ \A q \in RoundId : q # id => round'[q] = round[q]
    BY <1>1, <2>1 DEF CreateRound, TypeOK
  <2>3. X.randomness = NoDraw
    BY DEF NewRound, NoRound
  <2>4. round[id] = NoRound
    BY <2>1 DEF Serialized
  <2>5. NoRound.randomness = NoDraw
    BY DEF NoRound
  <2> HIDE DEF X, id
  <2> QED BY <2>1, <2>2, <2>3, <2>4, <2>5 DEF Undrawn, KeepsDraws
<1>2. ASSUME NEW p \in Player, NEW r \in RoundId, NEW s \in Square, NEW a \in Amounts,
             StakeDirect(p, r, s, a)
      PROVE  Undrawn' /\ KeepsDraws
  <2>1. round[r] \in RoundType /\ a \in Nat
    BY AmountAssumption DEF TypeOK
  <2>2. round'[r] = Booked(round[r], s, a) /\ \A q \in RoundId : q # r => round'[q] = round[q]
    BY <1>2 DEF StakeDirect, TypeOK
  <2>3. /\ Booked(round[r], s, a).state = round[r].state
        /\ Booked(round[r], s, a).randomness = round[r].randomness
    BY <2>1, BookedType
  <2> QED BY <1>0, <2>2, <2>3
<1>3. ASSUME NEW r \in RoundId, NEW d \in Draws, Settle(r, d) \/ SettleCallback(r, d)
      PROVE  Undrawn' /\ KeepsDraws
  <2>1. Drawn(r, d) /\ round[r].state \in {"open", "vrf_pending"}
    BY <1>3 DEF Settle, SettleCallback, AwaitsDraw
  <2>2. round'[r].state = "settled" /\ \A q \in RoundId : q # r => round'[q] = round[q]
    BY <2>1, DrawnEffect
  <2> QED BY <2>1, <2>2 DEF Undrawn, KeepsDraws
<1>4. ASSUME NEW r \in RoundId, RequestSettle(r) \/ CancelRound(r)
      PROVE  Undrawn' /\ KeepsDraws
  <2>1. PICK mark \in {"vrf_pending", "closed"} :
           /\ round' = [round EXCEPT ![r].state = mark]
           /\ mark = "vrf_pending" => round[r].state = "open"
    BY <1>4 DEF RequestSettle, CancelRound
  <2>2. /\ round'[r].state = mark /\ round'[r].randomness = round[r].randomness
        /\ \A q \in RoundId : q # r => round'[q] = round[q]
    BY <2>1, MarkedEffect
  <2> QED BY <2>1, <2>2 DEF Undrawn, KeepsDraws
<1>5. ASSUME NEW r \in RoundId,
             ExecuteSwapMock(r) \/ \E out \in Outs : ExecuteSwapReal(r, out)
      PROVE  Undrawn' /\ KeepsDraws
  <2>1. PICK out \in Nat : FinalizeSwap(r, out)
    BY <1>5, SwapEffect
  <2>2. /\ round'[r].state = "claimable" /\ round'[r].randomness = round[r].randomness
        /\ \A q \in RoundId : q # r => round'[q] = round[q]
    BY <2>1, FinalizeEffect
  <2> QED BY <2>2 DEF Undrawn, KeepsDraws
<1>6. ASSUME NEW p \in Player, NEW r \in RoundId, ClaimDirect(p, r)
      PROVE  Undrawn' /\ KeepsDraws
  <2>1. \A q \in RoundId : /\ round'[q].state = round[q].state
                           /\ round'[q].randomness = round[q].randomness
    BY <1>6 DEF ClaimDirect, TypeOK, RoundType
  <2> QED BY <1>0, <2>1
<1>7. ASSUME NEW r \in RoundId, CloseRound(r)
      PROVE  Undrawn' /\ KeepsDraws
  <2>1. round'[r] = NoRound /\ \A q \in RoundId : q # r => round'[q] = round[q]
    BY <1>7 DEF CloseRound, TypeOK
  <2>2. NoRound.randomness = NoDraw
    BY DEF NoRound
  <2> QED BY <2>1, <2>2 DEF Undrawn, KeepsDraws
<1>8. ASSUME \/ \E p \in Player, r \in RoundId : RefundDirect(p, r)
             \/ \E p \in Player, a \in Amounts : Deposit(p, a) \/ Withdraw(p, a)
             \/ \E q \in ParamChoices : Admin(q)
             \/ Tick
             \/ UNCHANGED vars
      PROVE  Undrawn' /\ KeepsDraws
  <2>1. UNCHANGED round
    BY <1>8 DEF RefundDirect, Deposit, Withdraw, Admin, Tick, vars
  <2> QED BY <1>0, <2>1
<1> QED BY <1>1, <1>2, <1>3, <1>4, <1>5, <1>6, <1>7, <1>8 DEF Next

(* A round's randomness is written once: no second settle, no replayed or  *)
(* late callback, no later instruction changes it while the round lives.   *)
THEOREM DrawsAreFinal == Spec => DrawFinal
<1>1. Init => TypeOK /\ Serialized /\ Undrawn
  BY InitType, InitSerialized DEF Init, Undrawn, NoRound
<1>2. TypeOK /\ Serialized /\ Undrawn /\ [Next]_vars
        => TypeOK' /\ Serialized' /\ Undrawn' /\ KeepsDraws
  BY StepType, StepSerialized, StepUndrawn
<1>3. DrawFinal <=> [][KeepsDraws]_vars
  BY DEF DrawFinal, KeepsDraws
<1> QED BY <1>1, <1>2, <1>3, PTL DEF Spec
=============================================================================
