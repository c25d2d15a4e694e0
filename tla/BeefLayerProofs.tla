--------------------------- MODULE BeefLayerProofs ---------------------------
(***************************************************************************)
(* Theorems about BeefLayer: types, the supply meter, what a roll adds, the *)
(* stakes of the rounds underneath, when a round is stamped, what a bonus   *)
(* is paid for, and, without a bonus, the ledger and the shares to come.   *)
(***************************************************************************)
EXTENDS BeefLayer, SumsTheorems

-----------------------------------------------------------------------------
(* The arithmetic stays in the naturals *)

LEMMA ProductNat ==
  ASSUME NEW a \in Nat, NEW b \in Nat
  PROVE  a * b \in Nat
  OBVIOUS

LEMMA LeastNat ==
  ASSUME NEW a \in Nat, NEW b \in Nat
  PROVE  Least(a, b) \in Nat /\ Least(a, b) <= a /\ Least(a, b) <= b
  BY DEF Least

LEMMA MinusNat ==
  ASSUME NEW a \in Nat, NEW b \in Nat
  PROVE  Minus(a, b) \in Nat /\ (b <= a => b + Minus(a, b) = a)
  BY DEF Minus

LEMMA TicksNat ==
  ASSUME NEW t \in Nat, NEW tick \in Nat, NEW active \in Nat, NEW window \in Nat,
         NEW secs \in Nat \ {0}
  PROVE  beef_ticks(t, tick, active, window, secs) \in Nat
<1>1. active + window \in Nat
  OBVIOUS
<1>2. Least(t, active + window) \in Nat
  BY <1>1, LeastNat
<1>3. Minus(Least(t, active + window), tick) \in Nat
  BY <1>2, MinusNat
<1> QED BY <1>3, DivNat DEF beef_ticks

LEMMA DeltaNat ==
  ASSUME NEW ticks \in Nat, NEW rate \in Nat, NEW bonus \in Nat, NEW cap \in Nat
  PROVE  /\ beef_bonus_delta(ticks, rate, bonus, cap) \in Nat
         /\ beef_bonus_delta(ticks, rate, bonus, cap) <= ticks * rate
<1>1. ticks * rate \in Nat
  BY ProductNat
<1>2. Minus(cap, bonus) \in Nat
  BY MinusNat
<1> QED BY <1>1, <1>2, LeastNat DEF beef_bonus_delta

LEMMA OwedNat ==
  ASSUME NEW unclaimed \in Nat, NEW delta \in Nat
  PROVE  beef_owed_delta(unclaimed, delta) \in Nat
<1>1. unclaimed * delta \in Nat /\ BPS \in Nat \ {0}
  BY ProductNat DEF BPS
<1> QED BY <1>1, DivNat DEF beef_owed_delta

(* The diluted bonus earns on the joined balance no more than the old one  *)
(* earned on the old balance.                                              *)
LEMMA DiluteKeepsProduct ==
  ASSUME NEW bonus \in Nat, NEW unclaimed \in Nat, NEW share \in Nat
  PROVE  /\ beef_dilute(bonus, unclaimed, share) \in Nat
         /\ (unclaimed + share) * beef_dilute(bonus, unclaimed, share) <= bonus * unclaimed
<1>1. CASE unclaimed + share = 0
  <2>1. bonus * unclaimed \in Nat
    BY ProductNat
  <2> QED BY <1>1, <2>1 DEF beef_dilute
<1>2. CASE unclaimed + share # 0
  <2>1. bonus * unclaimed \in Nat /\ unclaimed + share \in Nat \ {0}
    BY <1>2, ProductNat
  <2> QED BY <1>2, <2>1, DivNat DEF beef_dilute
<1> QED BY <1>1, <1>2

LEMMA DilutedNat ==
  ASSUME NEW bonus \in Nat, NEW unclaimed \in Nat, NEW share \in Nat
  PROVE  Diluted(bonus, unclaimed, share) \in Nat
  BY DiluteKeepsProduct DEF Diluted

LEMMA ShareNat ==
  ASSUME NEW e \in Nat, NEW stake \in Nat, NEW p \in Nat
  PROVE  beef_share(e, stake, p) \in Nat
<1>1. CASE p = 0
  BY <1>1 DEF beef_share
<1>2. CASE p # 0
  <2>1. e * stake \in Nat /\ p \in Nat \ {0}
    BY <1>2, ProductNat
  <2> QED BY <1>2, <2>1, DivNat DEF beef_share
<1> QED BY <1>1, <1>2

LEMMA PayoutNat ==
  ASSUME NEW unclaimed \in Nat, NEW bonus \in Nat
  PROVE  beef_payout(unclaimed, bonus) \in Nat
<1>1. BPS + bonus \in Nat /\ BPS \in Nat \ {0}
  BY DEF BPS
<1>2. unclaimed * (BPS + bonus) \in Nat
  BY <1>1, ProductNat
<1> QED BY <1>1, <1>2, DivNat DEF beef_payout

LEMMA EmissionNat ==
  ASSUME NEW p \in Nat, NEW most \in Nat, NEW sat \in Nat, NEW minted \in Nat, NEW cap \in Nat
  PROVE  beef_emission(p, most, sat, minted, cap) \in Nat
<1>1. CASE p = 0 \/ most = 0 \/ cap = 0 \/ minted >= cap
  BY <1>1 DEF beef_emission
<1>2. CASE ~ (p = 0 \/ most = 0 \/ cap = 0 \/ minted >= cap)
  <2>1. most * p \in Nat /\ p + sat \in Nat \ {0} /\ cap - minted \in Nat /\ cap \in Nat \ {0}
    BY <1>2, ProductNat
  <2>2. (most * p) \div (p + sat) \in Nat
    BY <2>1, DivNat
  <2>3. ((most * p) \div (p + sat)) * (cap - minted) \in Nat
    BY <2>1, <2>2, ProductNat
  <2> QED BY <1>2, <2>1, <2>3, DivNat DEF beef_emission
<1> QED BY <1>1, <1>2

-----------------------------------------------------------------------------
(* What a roll adds *)

(* math.rs, beef_dilute: a share that joins a balance adds itself to what  *)
(* the balance pays, and not a unit more, whatever the bonus.              *)
THEOREM DilutionIsSafe ==
  ASSUME NEW unclaimed \in Nat, NEW bonus \in Nat, NEW share \in Nat
  PROVE  beef_payout(unclaimed + share, beef_dilute(bonus, unclaimed, share))
           <= beef_payout(unclaimed, bonus) + share
<1> DEFINE b == beef_dilute(bonus, unclaimed, share)
           joined == unclaimed + share
           before == unclaimed * (BPS + bonus)
           after  == joined * (BPS + b)
<1>1. joined \in Nat /\ b \in Nat /\ joined * b <= bonus * unclaimed
  BY DiluteKeepsProduct
<1> HIDE DEF b
<1>2. before \in Nat /\ after \in Nat /\ after <= before + BPS * share
  <2>1. before = unclaimed * BPS + bonus * unclaimed
    BY DEF BPS
  <2>2. after = joined * BPS + joined * b
    BY <1>1 DEF BPS
  <2>3. joined * BPS = unclaimed * BPS + BPS * share
    BY DEF BPS
  <2>4. unclaimed * BPS \in Nat /\ bonus * unclaimed \in Nat /\ joined * b \in Nat
        /\ BPS * share \in Nat /\ joined * BPS \in Nat
    BY <1>1, ProductNat DEF BPS
  <2> HIDE DEF before, after, joined
  <2> QED BY <2>1, <2>2, <2>3, <2>4, <1>1
<1> HIDE DEF before, after
<1>3. after \div BPS <= (before \div BPS) + share
  BY <1>2 DEF BPS
<1>4. beef_payout(joined, b) = after \div BPS /\ beef_payout(unclaimed, bonus) = before \div BPS
  BY DEF beef_payout, before, after
<1> QED BY <1>3, <1>4 DEF b

-----------------------------------------------------------------------------
(* Types *)

(* The rounds underneath keep their types too. *)
BookType ==
  /\ cursor \in RoundId
  /\ pot \in [RoundId -> Nat]
  /\ stamp \in [Player -> RoundId]
  /\ held \in [Player -> Nat]

MinerType ==
  [known: BOOLEAN, unclaimed: Nat, bonus_bps: Nat, last_tick_ts: Nat,
   last_active_ts: Nat, last_rolled_round_id: RoundId]

Settled(q) == q \in ParamType /\ validate_beef_params(q)

TypeInv == TypeOK /\ BookType /\ Settled(params)

LEMMA TypeInit == Init => TypeInv
<1> SUFFICES ASSUME Init PROVE TypeInv
  OBVIOUS
<1> USE BeefAssumption
<1>1. 0 \in RoundId
  BY DEF RoundId
<1>2. BookType
  BY <1>1 DEF Init, BookType, Book!Init, Book!Player, Book!RoundId, Player, RoundId
<1>3. NoMiner \in MinerType
  BY <1>1 DEF NoMiner, MinerType
<1>4. beef_miner \in [Player -> MinerType]
  BY <1>3 DEF Init
<1>5. TypeOK
  BY <1>4 DEF Init, TypeOK, MinerType
<1> QED BY <1>2, <1>5 DEF Init, TypeInv, Settled

LEMMA BookStep ==
  ASSUME BookType, Book!Next
  PROVE  BookType'
<1> USE BeefAssumption
<1>1. Book!Player = Player /\ Book!RoundId = RoundId
  BY DEF Book!Player, Book!RoundId, Player, RoundId
<1>2. CASE Book!Open
  <2>1. cursor + 1 \in RoundId
    BY <1>2 DEF Book!Open, BookType, RoundId
  <2> QED BY <1>2, <2>1 DEF Book!Open, BookType
<1>3. ASSUME NEW p \in Player, NEW a \in Amounts, Book!Stake(p, a) PROVE BookType'
  <2>1. Book!Joined(p, a) \in Nat
    BY DEF Book!Joined, BookType
  <2>2. pot[cursor] + a \in Nat
    BY DEF BookType
  <2> QED BY <1>3, <2>1, <2>2 DEF Book!Stake, BookType
<1>4. CASE Book!Draw \/ Book!Swap \/ Book!Cancel
  BY <1>4 DEF Book!Draw, Book!Swap, Book!Cancel, Book!Moves, BookType
<1>5. ASSUME NEW p \in Player, Book!Spend(p) PROVE BookType'
  BY <1>5 DEF Book!Spend, BookType
<1>6. ASSUME NEW r \in RoundId, Book!Reap(r) PROVE BookType'
  BY <1>6 DEF Book!Reap, BookType
<1> QED BY <1>1, <1>2, <1>3, <1>4, <1>5, <1>6 DEF Book!Next

LEMMA AccruedNat ==
  ASSUME Settled(params), now \in Nat, NEW bm \in MinerType
  PROVE  Accrued(bm) \in Nat
<1>1. /\ params.activity_window_secs \in Nat /\ params.secs_per_tick \in Nat \ {0}
      /\ params.tick_bps \in Nat /\ params.bonus_cap_bps \in Nat
  BY DEF Settled, ParamType, validate_beef_params
<1>2. /\ bm.last_tick_ts \in Nat /\ bm.last_active_ts \in Nat /\ bm.bonus_bps \in Nat
  BY DEF MinerType
<1>3. beef_ticks(now, bm.last_tick_ts, bm.last_active_ts,
                 params.activity_window_secs, params.secs_per_tick) \in Nat
  BY <1>1, <1>2, TicksNat
<1> QED BY <1>1, <1>2, <1>3, DeltaNat DEF Accrued

LEMMA GreetedType ==
  ASSUME now \in Nat, NEW bm \in MinerType
  PROVE  /\ Greeted(bm) \in MinerType
         /\ Greeted(bm).unclaimed = bm.unclaimed /\ Greeted(bm).bonus_bps = bm.bonus_bps
  BY DEF Greeted, MinerType

(* What accruing makes a balance worth and what it books as owed. *)
LEMMA AccruedAmounts ==
  ASSUME Settled(params), now \in Nat, NEW bm \in MinerType
  PROVE  /\ bm.unclaimed \in Nat /\ bm.bonus_bps + Accrued(bm) \in Nat
         /\ beef_payout(bm.unclaimed, bm.bonus_bps + Accrued(bm)) \in Nat
         /\ beef_owed_delta(bm.unclaimed, Accrued(bm)) \in Nat
<1>1. Accrued(bm) \in Nat
  BY AccruedNat
<1>2. bm.unclaimed \in Nat /\ bm.bonus_bps + Accrued(bm) \in Nat
  BY <1>1 DEF MinerType
<1>3. beef_payout(bm.unclaimed, bm.bonus_bps + Accrued(bm)) \in Nat
  BY <1>2, PayoutNat
<1>4. beef_owed_delta(bm.unclaimed, Accrued(bm)) \in Nat
  BY <1>1, <1>2, OwedNat
<1> QED BY <1>2, <1>3, <1>4

LEMMA ResetType ==
  ASSUME now \in Nat, NEW bm \in MinerType
  PROVE  Reset(bm) \in MinerType
  BY DEF Reset, Touched, MinerType

(* A stamp mints at most what is left under the cap, and splits it. *)
LEMMA StampAmounts ==
  ASSUME TypeInv, NEW r \in RoundId
  PROVE  /\ Emitted(r) \in Nat
         /\ Emitted(r) <= Minus(hard_cap, minted_total)
         /\ TreasuryCut(Emitted(r)) \in Nat
         /\ Emitted(r) - TreasuryCut(Emitted(r)) \in Nat
<1>1. pot[r] \in Nat /\ params.max_round_mint \in Nat /\ params.sat_lamports \in Nat
      /\ minted_total \in Nat /\ hard_cap \in Nat
  BY BeefAssumption DEF TypeInv, TypeOK, BookType, ParamType
<1>2. Emitted(r) \in Nat /\ Emitted(r) <= Minus(hard_cap, minted_total)
  BY <1>1, EmissionNat, MinusNat, LeastNat DEF Emitted
<1>3. ASSUME NEW e \in Nat
      PROVE  TreasuryCut(e) \in Nat /\ e - TreasuryCut(e) \in Nat
  <2>1. treasury_bps \in Nat /\ treasury_bps <= BPS
    BY BeefAssumption DEF BPS
  <2>2. e * treasury_bps \in Nat /\ e * treasury_bps <= e * BPS
    BY <2>1, ProductNat DEF BPS
  <2>3. (e * treasury_bps) \div BPS \in Nat /\ (e * treasury_bps) \div BPS <= e
    BY <2>2 DEF BPS
  <2> QED BY <2>3 DEF TreasuryCut
<1> QED BY <1>2, <1>3

LEMMA TypeStep ==
  ASSUME TypeInv, Next
  PROVE  TypeInv'
<1> USE BeefAssumption
<1>0. /\ minted_total \in Nat /\ total_owed \in Nat /\ beef_vault \in Nat
      /\ beef_treasury \in Nat /\ wallets \in Nat /\ now \in Nat
      /\ beef_miner \in [Player -> MinerType]
      /\ emission \in [RoundId -> Nat \cup {Unstamped}]
      /\ params \in ParamType /\ Settled(params) /\ BookType
  BY DEF TypeInv, TypeOK, MinerType
<1>1. CASE Play
  <2>1. BookType'
    BY <1>0, <1>1, BookStep DEF Play
  <2> QED BY <1>0, <1>1, <2>1 DEF Play, beefVars, TypeInv, TypeOK, Settled, MinerType
<1>2. ASSUME NEW q \in BeefParams, SetBeefParams(q) PROVE TypeInv'
  <2>1. BookType'
    BY <1>0, <1>2 DEF SetBeefParams, bookVars, BookType
  <2>2. Settled(params)' /\ params' \in ParamType
    BY <1>2 DEF SetBeefParams, Settled
  <2> QED BY <1>0, <1>2, <2>1, <2>2 DEF SetBeefParams, TypeInv, TypeOK, MinerType
<1>3. ASSUME NEW r \in RoundId, StampBeef(r) PROVE TypeInv'
  <2>1. BookType'
    BY <1>0, <1>3 DEF StampBeef, bookVars, BookType
  <2>2. /\ Emitted(r) \in Nat /\ TreasuryCut(Emitted(r)) \in Nat
        /\ Emitted(r) - TreasuryCut(Emitted(r)) \in Nat
    BY StampAmounts
  <2>3. /\ minted_total' \in Nat /\ total_owed' \in Nat /\ beef_vault' \in Nat
        /\ beef_treasury' \in Nat /\ emission' \in [RoundId -> Nat \cup {Unstamped}]
    BY <1>0, <1>3, <2>2 DEF StampBeef, Metered
  <2> QED BY <1>0, <1>3, <2>1, <2>3 DEF StampBeef, TypeInv, TypeOK, Settled, MinerType
<1>4. ASSUME NEW p \in Player, NEW r \in RoundId, RollBeef(p, r) PROVE TypeInv'
  <2>1. BookType'
    BY <1>0, <1>4 DEF RollBeef, bookVars, BookType
  <2> DEFINE bm == Greeted(beef_miner[p])
             delta == Accrued(bm)
             share == beef_share(emission[r], held[p], pot[r])
  <2>2. beef_miner[p] \in MinerType
    BY <1>0
  <2>3. bm \in MinerType
    BY <1>0, <2>2, GreetedType
  <2>4. /\ bm.unclaimed \in Nat /\ bm.bonus_bps + delta \in Nat
        /\ beef_owed_delta(bm.unclaimed, delta) \in Nat
    BY <1>0, <2>3, AccruedAmounts
  <2>5. share \in Nat
    BY <1>0, <1>4, ShareNat DEF RollBeef, BookType
  <2> HIDE DEF bm, delta, share
  <2>9. beef_miner' \in [Player -> MinerType] /\ total_owed' \in Nat
    <3>1. CASE NothingToRoll(p, r, bm)
      BY <1>0, <1>4, <2>3, <3>1 DEF RollBeef, bm
    <3>2. CASE ~ NothingToRoll(p, r, bm)
      <4>1. /\ beef_miner' = [beef_miner EXCEPT ![p] =
                 [known |-> TRUE, unclaimed |-> bm.unclaimed + share,
                  bonus_bps |-> Diluted(bm.bonus_bps + delta, bm.unclaimed, share),
                  last_tick_ts |-> now, last_active_ts |-> now,
                  last_rolled_round_id |-> r]]
            /\ total_owed' = total_owed + beef_owed_delta(bm.unclaimed, delta)
        BY <1>4, <3>2 DEF RollBeef, Touched, bm, delta, share
      <4>2. PICK u \in Nat, b \in Nat, s \in Nat :
               u = bm.unclaimed /\ b = bm.bonus_bps + delta /\ s = share
        BY <2>4, <2>5
      <4>3. PICK d \in Nat : d = Diluted(b, u, s)
        BY DilutedNat
      <4>4. beef_miner' = [beef_miner EXCEPT ![p] =
                 [known |-> TRUE, unclaimed |-> u + s, bonus_bps |-> d,
                  last_tick_ts |-> now, last_active_ts |-> now,
                  last_rolled_round_id |-> r]]
        BY <4>1, <4>2, <4>3
      <4>5. beef_miner \in [Player -> MinerType] /\ now \in Nat
        BY <1>0
      <4>6. beef_miner' \in [Player -> MinerType]
        BY <4>4, <4>5 DEF MinerType
      <4> QED BY <1>0, <2>4, <4>1, <4>6
    <3> QED BY <3>1, <3>2
  <2> QED BY <1>0, <1>4, <2>1, <2>9 DEF RollBeef, TypeInv, TypeOK, Settled, MinerType
<1>5. ASSUME NEW p \in Player, ClaimBeef(p) PROVE TypeInv'
  <2>1. BookType'
    BY <1>0, <1>5 DEF ClaimBeef, bookVars, BookType
  <2> DEFINE bm == beef_miner[p]
             delta == Accrued(bm)
             payout == beef_payout(bm.unclaimed, bm.bonus_bps + delta)
  <2>2. bm \in MinerType
    BY <1>0
  <2>3. payout \in Nat /\ beef_owed_delta(bm.unclaimed, delta) \in Nat
        /\ total_owed + beef_owed_delta(bm.unclaimed, delta) \in Nat
    BY <1>0, <2>2, AccruedAmounts
  <2>4. beef_miner' = [beef_miner EXCEPT ![p] = Reset(bm)] /\ Reset(bm) \in MinerType
    BY <1>0, <1>5, <2>2, ResetType DEF ClaimBeef
  <2> HIDE DEF payout, delta, bm
  <2>6. /\ payout <= beef_vault
        /\ beef_vault' = beef_vault - payout /\ wallets' = wallets + payout
        /\ total_owed' = Minus(total_owed + beef_owed_delta(bm.unclaimed, delta), payout)
    BY <1>5 DEF ClaimBeef, Funded, payout, delta, bm
  <2>7. beef_vault' \in Nat /\ wallets' \in Nat /\ total_owed' \in Nat
    BY <1>0, <2>3, <2>6, MinusNat
  <2>9. beef_miner' \in [Player -> MinerType]
    BY <1>0, <2>4
  <2> QED BY <1>0, <1>5, <2>1, <2>7, <2>9 DEF ClaimBeef, TypeInv, TypeOK, Settled, MinerType
<1>6. ASSUME NEW a \in Gifts, SweepBeefExcess(a) PROVE TypeInv'
  <2>1. BookType'
    BY <1>0, <1>6 DEF SweepBeefExcess, bookVars, BookType
  <2>2. Free \in Nat /\ Free <= beef_vault
    BY <1>0 DEF Free, Minus
  <2> QED BY <1>0, <1>6, <2>1, <2>2 DEF SweepBeefExcess, TypeInv, TypeOK, Settled, MinerType
<1>7. ASSUME NEW a \in Gifts, Donate(a) PROVE TypeInv'
  <2>1. BookType'
    BY <1>0, <1>7 DEF Donate, bookVars, BookType
  <2> QED BY <1>0, <1>7, <2>1 DEF Donate, TypeInv, TypeOK, Settled, MinerType
<1>8. CASE Tick
  <2>1. BookType'
    BY <1>0, <1>8 DEF Tick, bookVars, BookType
  <2> QED BY <1>0, <1>8, <2>1 DEF Tick, TypeInv, TypeOK, Settled, MinerType
<1> QED BY <1>1, <1>2, <1>3, <1>4, <1>5, <1>6, <1>7, <1>8 DEF Next

LEMMA TypeStutter ==
  ASSUME TypeInv, UNCHANGED vars
  PROVE  TypeInv'
  BY DEF TypeInv, TypeOK, BookType, Settled, vars, bookVars, beefVars

LEMMA TypeAlways == Spec => []TypeInv
<1>1. TypeInv /\ [Next]_vars => TypeInv'
  BY TypeStep, TypeStutter
<1> QED BY <1>1, TypeInit, PTL DEF Spec

(* Every account of the layer keeps its type: neither the vault nor the    *)
(* ledger goes below zero, and no bonus turns negative when the admin      *)
(* lowers the cap below it.                                                *)
THEOREM BeefTypeCorrect == Spec => []TypeOK
<1>1. TypeInv => TypeOK
  BY DEF TypeInv
<1> QED BY <1>1, TypeAlways, PTL

-----------------------------------------------------------------------------
(* The supply meter *)

LEMMA SupplyInit == Init => SupplyMetered
  BY BeefAssumption DEF Init, SupplyMetered

LEMMA SupplyStep ==
  ASSUME TypeInv, SupplyMetered, Next
  PROVE  SupplyMetered'
<1>0. /\ minted_total \in Nat /\ beef_vault \in Nat /\ beef_treasury \in Nat
      /\ wallets \in Nat /\ hard_cap \in Nat /\ minted_total <= hard_cap
  BY BeefAssumption DEF TypeInv, TypeOK, SupplyMetered
<1>1. CASE Play
  BY <1>1 DEF Play, beefVars, SupplyMetered
<1>2. ASSUME NEW q \in BeefParams, SetBeefParams(q) PROVE SupplyMetered'
  BY <1>2 DEF SetBeefParams, SupplyMetered
<1>3. ASSUME NEW r \in RoundId, StampBeef(r) PROVE SupplyMetered'
  <2>1. /\ Emitted(r) \in Nat /\ TreasuryCut(Emitted(r)) \in Nat
        /\ Emitted(r) <= Minus(hard_cap, minted_total)
    BY StampAmounts
  <2>2. minted_total + Emitted(r) <= hard_cap
    BY <1>0, <2>1, MinusNat
  <2> DEFINE e == Emitted(r)
             cut == TreasuryCut(e)
  <2>3. /\ minted_total' = minted_total + e /\ beef_vault' = beef_vault + (e - cut)
        /\ beef_treasury' = beef_treasury + cut /\ wallets' = wallets
    BY <1>3 DEF StampBeef, Metered
  <2>4. e \in Nat /\ cut \in Nat /\ minted_total + e <= hard_cap
    BY <2>1, <2>2
  <2>5. beef_vault + beef_treasury + wallets = minted_total
    BY DEF SupplyMetered
  <2> HIDE DEF e, cut
  <2> QED BY <1>0, <2>3, <2>4, <2>5 DEF SupplyMetered
<1>4. ASSUME NEW p \in Player, NEW r \in RoundId, RollBeef(p, r) PROVE SupplyMetered'
  BY <1>4 DEF RollBeef, SupplyMetered
<1>5. ASSUME NEW p \in Player, ClaimBeef(p) PROVE SupplyMetered'
  <2> DEFINE bm == beef_miner[p]
             payout == beef_payout(bm.unclaimed, bm.bonus_bps + Accrued(bm))
  <2>1. beef_vault' = beef_vault - payout /\ wallets' = wallets + payout
        /\ UNCHANGED <<minted_total, beef_treasury>>
    BY <1>5 DEF ClaimBeef
  <2>2. bm \in MinerType /\ Settled(params) /\ now \in Nat
    BY DEF TypeInv, TypeOK, MinerType
  <2>4. payout \in Nat
    BY <2>2, AccruedAmounts
  <2> HIDE DEF payout
  <2> QED BY <1>0, <2>1, <2>4 DEF SupplyMetered
<1>6. ASSUME NEW a \in Gifts, SweepBeefExcess(a) PROVE SupplyMetered'
  BY <1>0, <1>6, BeefAssumption DEF SweepBeefExcess, SupplyMetered
<1>7. ASSUME NEW a \in Gifts, Donate(a) PROVE SupplyMetered'
  BY <1>0, <1>7, BeefAssumption DEF Donate, SupplyMetered
<1>8. CASE Tick
  BY <1>8 DEF Tick, SupplyMetered
<1> QED BY <1>1, <1>2, <1>3, <1>4, <1>5, <1>6, <1>7, <1>8 DEF Next

(* state/beef.rs, hard_cap and minted_total: both shares of every stamp    *)
(* are on the meter, and the meter stops at the cap for every setting the  *)
(* admin may choose and every order of stamps, claims, gifts and sweeps.   *)
THEOREM SupplyIsMetered == Spec => []SupplyMetered
<1>1. SupplyMetered /\ UNCHANGED vars => SupplyMetered'
  BY DEF SupplyMetered, vars, beefVars
<1>2. TypeInv /\ SupplyMetered /\ [Next]_vars => SupplyMetered'
  BY <1>1, SupplyStep
<1> QED BY <1>2, SupplyInit, TypeAlways, PTL DEF Spec

-----------------------------------------------------------------------------
(* Rolls *)

(* What RollsAddTheirShare says of one player in one step. *)
AddsItsShare(p) ==
  LET bm == beef_miner[p] IN
  beef_miner'[p].unclaimed > bm.unclaimed =>
     beef_payout(beef_miner'[p].unclaimed, beef_miner'[p].bonus_bps)
       <= beef_payout(bm.unclaimed, bm.bonus_bps + Accrued(Greeted(bm)))
          + (beef_miner'[p].unclaimed - bm.unclaimed)

(* Only the player's own roll makes a balance larger. *)
LEMMA OthersAddNothing ==
  ASSUME TypeInv, Next, NEW p \in Player,
         \A r \in RoundId : ~ RollBeef(p, r)
  PROVE  ~ (beef_miner'[p].unclaimed > beef_miner[p].unclaimed)
<1>0. beef_miner \in [Player -> MinerType] /\ now \in Nat
  BY DEF TypeInv, TypeOK, MinerType
<1>1. beef_miner[p].unclaimed \in Nat
  BY <1>0 DEF MinerType
<1>2. ASSUME NEW q \in Player, NEW r \in RoundId, RollBeef(q, r)
      PROVE  beef_miner'[p].unclaimed = beef_miner[p].unclaimed
  <2>1. q # p
    BY <1>2
  <2>2. CASE NothingToRoll(q, r, Greeted(beef_miner[q]))
    BY <1>0, <1>2, <2>1, <2>2 DEF RollBeef
  <2>3. CASE ~ NothingToRoll(q, r, Greeted(beef_miner[q]))
    BY <1>0, <1>2, <2>1, <2>3 DEF RollBeef
  <2> QED BY <2>2, <2>3
<1>3. ASSUME NEW q \in Player, ClaimBeef(q)
      PROVE  beef_miner'[p].unclaimed <= beef_miner[p].unclaimed
  <2>1. beef_miner' = [beef_miner EXCEPT ![q] = Reset(beef_miner[q])]
    BY <1>3 DEF ClaimBeef
  <2>2. Reset(beef_miner[p]).unclaimed = 0
    BY <1>0 DEF Reset, MinerType
  <2>3. CASE q = p
    BY <1>0, <1>1, <2>1, <2>2, <2>3
  <2>4. CASE q # p
    BY <1>0, <1>1, <2>1, <2>4
  <2> QED BY <2>3, <2>4
<1>4. ASSUME \/ Play
             \/ \E q \in BeefParams : SetBeefParams(q)
             \/ \E r \in RoundId : StampBeef(r)
             \/ \E a \in Gifts : SweepBeefExcess(a) \/ Donate(a)
             \/ Tick
      PROVE  beef_miner' = beef_miner
  BY <1>4 DEF Play, beefVars, SetBeefParams, StampBeef, SweepBeefExcess, Donate, Tick
<1>5. beef_miner'[p].unclaimed <= beef_miner[p].unclaimed
  <2>1. CASE \E q \in Player, r \in RoundId : RollBeef(q, r)
    BY <1>1, <1>2, <2>1
  <2>2. CASE \E q \in Player : ClaimBeef(q)
    BY <1>3, <2>2
  <2>3. CASE beef_miner' = beef_miner
    BY <1>1, <2>3
  <2> QED BY <1>4, <2>1, <2>2, <2>3 DEF Next
<1>6. beef_miner'[p].unclaimed \in Nat
  <2>1. TypeInv'
    BY TypeStep
  <2> QED BY <2>1 DEF TypeInv, TypeOK
<1> QED BY <1>1, <1>5, <1>6

LEMMA RollAddsItsShare ==
  ASSUME TypeInv, Next, NEW p \in Player, NEW r \in RoundId, RollBeef(p, r)
  PROVE  AddsItsShare(p)
<1> DEFINE old   == beef_miner[p]
           bm    == Greeted(old)
           delta == Accrued(bm)
           share == beef_share(emission[r], held[p], pot[r])
<1>0. /\ beef_miner \in [Player -> MinerType] /\ now \in Nat /\ Settled(params)
      /\ emission \in [RoundId -> Nat \cup {Unstamped}] /\ BookType
  BY DEF TypeInv, TypeOK, MinerType
<1>1. old \in MinerType
  BY <1>0
<1>2. bm \in MinerType /\ bm.unclaimed = old.unclaimed /\ bm.bonus_bps = old.bonus_bps
  BY <1>0, <1>1, GreetedType
<1>3. bm.unclaimed \in Nat /\ bm.bonus_bps + delta \in Nat
  BY <1>0, <1>2, AccruedAmounts
<1>4. share \in Nat
  BY <1>0, ShareNat DEF RollBeef, BookType
<1>5. CASE NothingToRoll(p, r, bm)
  <2>1. beef_miner'[p].unclaimed = old.unclaimed
    BY <1>0, <1>2, <1>5 DEF RollBeef
  <2> QED BY <1>2, <1>3, <2>1 DEF AddsItsShare
<1>6. CASE ~ NothingToRoll(p, r, bm)
  <2>1. /\ beef_miner'[p].unclaimed = bm.unclaimed + share
        /\ beef_miner'[p].bonus_bps = beef_dilute(bm.bonus_bps + delta, bm.unclaimed, share)
    BY <1>0, <1>6 DEF RollBeef, Diluted
  <2> HIDE DEF delta, share, bm
  <2>2. PICK u \in Nat, b \in Nat, s \in Nat :
           u = bm.unclaimed /\ b = bm.bonus_bps + delta /\ s = share
    BY <1>3, <1>4
  <2>3. beef_payout(u + s, beef_dilute(b, u, s)) <= beef_payout(u, b) + s
    BY DilutionIsSafe
  <2>4. beef_miner'[p].unclaimed = u + s /\ beef_miner'[p].bonus_bps = beef_dilute(b, u, s)
    BY <2>1, <2>2
  <2>5. old.unclaimed = u /\ old.bonus_bps + Accrued(Greeted(old)) = b
    BY <1>2, <2>2 DEF delta, bm
  <2> QED BY <2>3, <2>4, <2>5 DEF AddsItsShare
<1> QED BY <1>5, <1>6

(* beef.rs, roll_beef: rolling a share in never makes a balance worth more *)
(* than it was with the bonus due, plus the share.                         *)
THEOREM RollsAreExact == Spec => RollsAddTheirShare
<1>1. TypeInv /\ [Next]_vars => [\A p \in Player : AddsItsShare(p)]_vars
  <2> SUFFICES ASSUME TypeInv, Next, NEW p \in Player PROVE AddsItsShare(p)
    OBVIOUS
  <2>1. CASE \E r \in RoundId : RollBeef(p, r)
    BY <2>1, RollAddsItsShare
  <2>2. CASE \A r \in RoundId : ~ RollBeef(p, r)
    BY <2>2, OthersAddNothing DEF AddsItsShare
  <2> QED BY <2>1, <2>2
<1>2. RollsAddTheirShare <=> [][\A p \in Player : AddsItsShare(p)]_vars
  BY DEF RollsAddTheirShare, AddsItsShare
<1> QED BY <1>1, <1>2, TypeAlways, PTL DEF Spec
-----------------------------------------------------------------------------
(* The rounds underneath *)

(* Rounds above the cursor are unused and no position is stamped with one; *)
(* only a round whose swap is over has an emission.                        *)
BookOrder ==
  /\ phase \in [RoundId -> {"absent", "open", "drawing", "claimable", "closed"}]
  /\ \A r \in RoundId : r > cursor => phase[r] = "absent"
  /\ \A p \in Player : stamp[p] <= cursor

StampedAreSwapped ==
  \A r \in RoundId : emission[r] # Unstamped =>
     r <= cursor /\ phase[r] \in {"claimable", "absent"}

(* What the positions hold in round r. *)
In(r) == [p \in Player |-> IF stamp[p] = r THEN held[p] ELSE 0]

LEMMA BookSum ==
  ASSUME NEW f, NEW n
  PROVE  Book!SumBelow(f, n) = SumBelow(f, n)
  BY DEF Book!SumBelow, SumBelow

LEMMA StakesFitIs ==
  /\ StakesFit <=> \A r \in RoundId : phase[r] # "absent" => SumBelow(In(r), NumPlayers) <= pot[r]
  /\ StakesFit' <=> \A r \in RoundId : phase'[r] # "absent" => SumBelow(In(r)', NumPlayers) <= pot'[r]
<1>1. Book!Player = Player /\ Book!RoundId = RoundId
  BY DEF Book!Player, Book!RoundId, Player, RoundId
<1>2. \A r : /\ In(r) = [p \in Book!Player |-> IF stamp[p] = r THEN held[p] ELSE 0]
             /\ In(r)' = [p \in Book!Player |-> IF stamp'[p] = r THEN held'[p] ELSE 0]
  BY <1>1 DEF In
<1>3. StakesFit <=> \A r \in RoundId : phase[r] # "absent" =>
         SumBelow([p \in Book!Player |-> IF stamp[p] = r THEN held[p] ELSE 0], NumPlayers) <= pot[r]
  BY <1>1, BookSum DEF StakesFit, Book!StakesFit
<1>4. StakesFit' <=> \A r \in RoundId : phase'[r] # "absent" =>
         SumBelow([p \in Book!Player |-> IF stamp'[p] = r THEN held'[p] ELSE 0], NumPlayers) <= pot'[r]
  BY <1>1, BookSum DEF StakesFit, Book!StakesFit
<1> QED BY <1>2, <1>3, <1>4

LEMMA InNat ==
  ASSUME BookType, NEW r \in RoundId
  PROVE  /\ \A p \in Player : In(r)[p] = (IF stamp[p] = r THEN held[p] ELSE 0) /\ In(r)[p] \in Nat
         /\ SumBelow(In(r), NumPlayers) \in Nat
<1>1. \A p \in Player : In(r)[p] = (IF stamp[p] = r THEN held[p] ELSE 0) /\ In(r)[p] \in Nat
  BY DEF In, BookType
<1>2. NumPlayers \in Nat /\ Player = 0..NumPlayers-1
  BY BeefAssumption DEF Player
<1> QED BY <1>1, <1>2, SumNat

(* Positions that hold no more than before hold no more together. *)
LEMMA InLess ==
  ASSUME BookType, BookType', NEW r \in RoundId, \A p \in Player : In(r)'[p] <= In(r)[p]
  PROVE  SumBelow(In(r)', NumPlayers) <= SumBelow(In(r), NumPlayers)
<1> DEFINE old == In(r)
           new == In(r)'
<1>1. NumPlayers \in Nat /\ Player = 0..NumPlayers-1
  BY BeefAssumption DEF Player
<1>2. \A p \in Player : old[p] \in Nat
  BY InNat
<1>3. \A p \in Player : new[p] = (IF stamp'[p] = r THEN held'[p] ELSE 0)
  BY DEF In
<1>4. \A p \in Player : new[p] \in Nat
  BY <1>3 DEF BookType
<1>5. \A p \in Player : new[p] <= old[p]
  OBVIOUS
<1> HIDE DEF old, new
<1>6. \A i \in 0..NumPlayers-1 : new[i] \in Int /\ old[i] \in Int /\ new[i] <= old[i]
  BY <1>1, <1>2, <1>4, <1>5
<1>7. SumBelow(new, NumPlayers) <= SumBelow(old, NumPlayers)
  BY <1>1, <1>6, SumMono
<1> QED BY <1>7 DEF old, new

LEMMA InNext ==
  ASSUME NEW r
  PROVE  \A p \in Player : In(r)'[p] = IF stamp'[p] = r THEN held'[p] ELSE 0
  BY DEF In

(* A stake raises what its player holds in the round by what it adds to    *)
(* the pot, and ends what the player held in any other.                    *)
LEMMA StakeFits ==
  ASSUME BookType, BookType', BookOrder, StakesFit, NEW p \in Player, NEW a \in Amounts,
         Book!Stake(p, a)
  PROVE  StakesFit'
<1>0. /\ NumPlayers \in Nat /\ Player = 0..NumPlayers-1 /\ a \in Nat
      /\ cursor \in RoundId
  BY BeefAssumption DEF Player, BookType
<1>c. PICK c \in RoundId : c = cursor
  BY <1>0
<1>1. /\ phase[c] = "open" /\ phase' = phase /\ cursor' = cursor
      /\ pot' = [pot EXCEPT ![c] = @ + a]
      /\ stamp' = [stamp EXCEPT ![p] = c]
      /\ held' = [held EXCEPT ![p] = a + (IF stamp[p] = c THEN held[p] ELSE 0)]
      /\ pot[c] \in Nat
  BY <1>c DEF Book!Stake, Book!Joined, BookType
<1>2. SumBelow(In(c)', NumPlayers) <= pot'[c]
  <2> DEFINE old == In(c)
             new == In(c)'
  <2>1. \A q \in Player : old[q] \in Nat
        /\ old[q] = (IF stamp[q] = c THEN held[q] ELSE 0)
    BY <1>0, InNat
  <2>2. \A q \in Player : new[q] = (IF stamp'[q] = c THEN held'[q] ELSE 0)
    BY <1>1 DEF In
  <2>3. new[p] = old[p] + a
    BY <1>0, <1>1, <2>1, <2>2 DEF BookType
  <2>4. \A q \in Player : q # p => new[q] = old[q]
    BY <1>0, <1>1, <2>1, <2>2 DEF BookType
  <2>5. SumBelow(old, NumPlayers) <= pot[c] /\ SumBelow(old, NumPlayers) \in Nat
    BY <1>0, <1>1, InNat, StakesFitIs
  <2> HIDE DEF old, new
  <2>6. /\ p \in 0..NumPlayers-1
        /\ \A i \in 0..NumPlayers-1 : old[i] \in Int /\ new[i] \in Int
        /\ \A i \in 0..NumPlayers-1 : i # p => new[i] = old[i]
    BY <1>0, <2>1, <2>3, <2>4
  <2>7. SumBelow(new, NumPlayers) = SumBelow(old, NumPlayers) - old[p] + new[p]
    BY <1>0, <2>6, SumAt
  <2>8. SumBelow(new, NumPlayers) = SumBelow(old, NumPlayers) + a
    BY <1>0, <2>1, <2>3, <2>5, <2>7
  <2>9. pot'[c] = pot[c] + a
    BY <1>0, <1>1 DEF BookType
  <2>10. SumBelow(new, NumPlayers) <= pot'[c]
    BY <1>0, <1>1, <2>5, <2>8, <2>9
  <2> QED BY <1>1, <2>10 DEF new
<1>3. ASSUME NEW r \in RoundId, r # c, phase'[r] # "absent"
      PROVE  SumBelow(In(r)', NumPlayers) <= pot'[r]
  <2>1. \A q \in Player : In(r)'[q] = IF stamp'[q] = r THEN held'[q] ELSE 0
    BY InNext
  <2>2. \A q \in Player : In(r)[q] \in Nat /\ In(r)[q] = IF stamp[q] = r THEN held[q] ELSE 0
    BY InNat
  <2>3. \A q \in Player : In(r)'[q] <= In(r)[q]
    BY <1>1, <1>3, <2>1, <2>2 DEF BookType
  <2>4. SumBelow(In(r)', NumPlayers) <= SumBelow(In(r), NumPlayers)
    BY <2>3, InLess
  <2>5. SumBelow(In(r), NumPlayers) <= pot[r] /\ pot'[r] = pot[r] /\ pot[r] \in Nat
    BY <1>1, <1>3, StakesFitIs DEF BookType
  <2>6. SumBelow(In(r), NumPlayers) \in Nat /\ SumBelow(In(r)', NumPlayers) \in Int
    <3>1. \A q \in Player : In(r)'[q] \in Int
      BY <2>1 DEF BookType
    <3> DEFINE f == In(r)'
    <3>2. \A i \in 0..NumPlayers-1 : f[i] \in Int
      BY <1>0, <3>1
    <3> HIDE DEF f
    <3>3. SumBelow(f, NumPlayers) \in Int
      BY <1>0, <3>2, SumInt
    <3> QED BY <3>3, InNat DEF f
  <2> QED BY <2>4, <2>5, <2>6
<1> QED BY <1>2, <1>3, StakesFitIs

LEMMA BookFits ==
  ASSUME BookType, BookOrder, StakesFit, Book!Next
  PROVE  BookOrder' /\ StakesFit'
<1> USE BeefAssumption
<1>0. Book!Player = Player /\ Book!RoundId = RoundId /\ BookType'
  BY BookStep DEF Book!Player, Book!RoundId, Player, RoundId
<1>a. cursor \in Nat /\ \A p \in Player : stamp[p] \in Nat
  BY DEF BookType, RoundId
(* A step that stakes nothing and brings no round back. *)
<1>b. ASSUME stamp' = stamp,
             \A p \in Player : held'[p] <= held[p],
             \A r \in RoundId : phase'[r] # "absent" => phase[r] # "absent" /\ pot'[r] = pot[r]
      PROVE  StakesFit'
  <2> SUFFICES ASSUME NEW r \in RoundId, phase'[r] # "absent"
               PROVE  SumBelow(In(r)', NumPlayers) <= pot'[r]
    BY StakesFitIs
  <2>1. \A p \in Player : /\ In(r)'[p] = (IF stamp[p] = r THEN held'[p] ELSE 0)
                          /\ In(r)[p] = (IF stamp[p] = r THEN held[p] ELSE 0)
                          /\ In(r)'[p] \in Nat
    BY <1>0, <1>b DEF In, BookType
  <2>2. \A p \in Player : In(r)'[p] <= In(r)[p]
    BY <1>b, <2>1
  <2>3. SumBelow(In(r)', NumPlayers) <= SumBelow(In(r), NumPlayers)
    BY <1>0, <2>2, InLess
  <2>4. SumBelow(In(r), NumPlayers) \in Nat /\ SumBelow(In(r), NumPlayers) <= pot[r]
        /\ pot[r] \in Nat
    BY <1>b, InNat, StakesFitIs DEF BookType
  <2>5. SumBelow(In(r)', NumPlayers) \in Nat
    <3> DEFINE f == In(r)'
    <3>1. \A i \in 0..NumPlayers-1 : f[i] \in Nat
      BY <2>1 DEF Player
    <3> HIDE DEF f
    <3>2. SumBelow(f, NumPlayers) \in Nat
      BY <3>1, SumNat
    <3> QED BY <3>2 DEF f
  <2> QED BY <1>b, <2>3, <2>4, <2>5
<1>1. CASE Book!Open
  <2>a. cursor + 1 \in RoundId
    BY <1>1 DEF Book!Open, BookType, RoundId
  <2>b. PICK id \in RoundId : id = cursor + 1
    BY <2>a
  <2>1. /\ id = cursor + 1 /\ cursor' = id
        /\ phase' = [phase EXCEPT ![id] = "open"]
        /\ UNCHANGED <<pot, stamp, held>>
    BY <1>1, <2>b DEF Book!Open
  <2>2. BookOrder'
    <3>1. \A r \in RoundId : r \in Nat
      BY DEF RoundId
    <3> QED BY <1>a, <2>1, <3>1 DEF BookOrder
  <2>3. SumBelow(In(id)', NumPlayers) = 0
    <3> DEFINE f == In(id)'
    <3>1. \A p \in Player : stamp[p] # id
      BY <1>a, <2>1 DEF BookOrder
    <3>2. \A p \in Player : f[p] = 0
      BY <2>1, <3>1 DEF In
    <3> HIDE DEF f
    <3>3. \A i \in 0..NumPlayers-1 : f[i] = 0
      BY <3>2 DEF Player
    <3>4. SumBelow(f, NumPlayers) = 0
      BY <3>3, SumZeros
    <3> QED BY <3>4 DEF f
  <2>4. ASSUME NEW r \in RoundId, r # id, phase'[r] # "absent"
        PROVE  SumBelow(In(r)', NumPlayers) <= pot'[r]
    <3>1. In(r)' = In(r) /\ pot'[r] = pot[r] /\ phase[r] # "absent"
      BY <2>1, <2>4 DEF In, BookOrder
    <3> QED BY <3>1, StakesFitIs
  <2>5. pot'[id] \in Nat
    BY <2>1 DEF BookType
  <2>6. SumBelow(In(id)', NumPlayers) <= pot'[id]
    BY <2>3, <2>5
  <2>7. StakesFit'
    BY <2>4, <2>6, StakesFitIs
  <2> QED BY <2>2, <2>7
<1>2. ASSUME NEW p \in Player, NEW a \in Amounts, Book!Stake(p, a)
      PROVE  BookOrder' /\ StakesFit'
  <2>1. BookOrder'
    BY <1>a, <1>2 DEF Book!Stake, BookOrder, BookType
  <2>2. StakesFit'
    BY <1>0, <1>2, StakeFits
  <2> QED BY <2>1, <2>2
<1>3. ASSUME NEW from \in {{"open"}, {"drawing"}, {"open", "drawing"}},
             NEW to \in {"drawing", "claimable", "closed"}, Book!Moves(from, to)
      PROVE  BookOrder' /\ StakesFit'
  <2>1. /\ phase[cursor] \in {"open", "drawing"}
        /\ phase' = [phase EXCEPT ![cursor] = to]
        /\ UNCHANGED <<cursor, pot, stamp, held>>
    BY <1>3 DEF Book!Moves
  <2>2. BookOrder'
    BY <1>a, <2>1 DEF BookOrder, BookType
  <2>3. \A r \in RoundId : phase'[r] # "absent" => phase[r] # "absent" /\ pot'[r] = pot[r]
    BY <2>1 DEF BookOrder, BookType
  <2>4. \A p \in Player : held'[p] <= held[p]
    BY <2>1 DEF BookType
  <2> QED BY <1>b, <2>1, <2>2, <2>3, <2>4
<1>4. ASSUME NEW p \in Player, Book!Spend(p) PROVE BookOrder' /\ StakesFit'
  <2>1. held' = [held EXCEPT ![p] = 0] /\ UNCHANGED <<cursor, phase, pot, stamp>>
    BY <1>4 DEF Book!Spend
  <2>2. \A q \in Player : held'[q] <= held[q]
    BY <2>1 DEF BookType
  <2> QED BY <1>b, <2>1, <2>2 DEF BookOrder
<1>5. ASSUME NEW r \in RoundId, Book!Reap(r) PROVE BookOrder' /\ StakesFit'
  <2>1. /\ phase' = [phase EXCEPT ![r] = "absent"] /\ pot' = [pot EXCEPT ![r] = 0]
        /\ UNCHANGED <<cursor, stamp, held>>
    BY <1>5 DEF Book!Reap
  <2>2. \A q \in RoundId : phase'[q] # "absent" => phase[q] # "absent" /\ pot'[q] = pot[q]
    BY <2>1 DEF BookOrder, BookType
  <2>3. \A p \in Player : held'[p] <= held[p]
    BY <2>1 DEF BookType
  <2>4. BookOrder'
    BY <2>1 DEF BookOrder
  <2> QED BY <1>b, <2>1, <2>2, <2>3, <2>4
<1>6. CASE Book!Draw \/ Book!Swap \/ Book!Cancel
  BY <1>3, <1>6 DEF Book!Draw, Book!Swap, Book!Cancel, Book!Live
<1> QED BY <1>0, <1>1, <1>2, <1>4, <1>5, <1>6 DEF Book!Next

-----------------------------------------------------------------------------
(* The layer on its rounds *)

(* No bonus cursor is ahead of the clock. *)
TicksPast == \A p \in Player : beef_miner[p].last_tick_ts <= now

LayerInv == TypeInv /\ BookOrder /\ StakesFit /\ StampedAreSwapped /\ TicksPast

LEMMA LayerTypes ==
  ASSUME LayerInv
  PROVE  /\ TypeInv /\ BookType /\ BookOrder /\ StakesFit /\ StampedAreSwapped /\ TicksPast
         /\ beef_miner \in [Player -> MinerType] /\ now \in Nat
         /\ Settled(params) /\ params \in ParamType
         /\ emission \in [RoundId -> Nat \cup {Unstamped}]
         /\ total_owed \in Nat /\ beef_vault \in Nat /\ wallets \in Nat
  BY DEF LayerInv, TypeInv, TypeOK, MinerType

(* What a roll does to its miner, field by field. *)
LEMMA RollEffect ==
  ASSUME LayerInv, NEW p \in Player, NEW r \in RoundId, RollBeef(p, r)
  PROVE  LET bm    == Greeted(beef_miner[p])
             delta == Accrued(bm)
             share == beef_share(emission[r], held[p], pot[r])
         IN  /\ \A q \in Player : q # p => beef_miner'[q] = beef_miner[q]
             /\ bm \in MinerType /\ bm.bonus_bps = beef_miner[p].bonus_bps
             /\ bm.unclaimed = beef_miner[p].unclaimed
             /\ bm.last_rolled_round_id = beef_miner[p].last_rolled_round_id
             /\ bm.last_tick_ts \in Nat
             /\ beef_miner[p].last_tick_ts <= bm.last_tick_ts /\ bm.last_tick_ts <= now
             /\ emission[r] # Unstamped /\ phase[r] # "absent"
             /\ share \in Nat /\ delta \in Nat
             /\ \/ /\ NothingToRoll(p, r, bm)
                   /\ beef_miner'[p] = bm /\ total_owed' = total_owed
                \/ /\ ~ NothingToRoll(p, r, bm)
                   /\ beef_miner'[p].unclaimed = bm.unclaimed + share
                   /\ beef_miner'[p].bonus_bps
                      = beef_dilute(bm.bonus_bps + delta, bm.unclaimed, share)
                   /\ beef_miner'[p].last_tick_ts = now
                   /\ beef_miner'[p].last_rolled_round_id = r
                   /\ total_owed' = total_owed + beef_owed_delta(bm.unclaimed, delta)
<1> DEFINE old   == beef_miner[p]
           bm    == Greeted(old)
           delta == Accrued(bm)
           share == beef_share(emission[r], held[p], pot[r])
<1>0. /\ beef_miner \in [Player -> MinerType] /\ now \in Nat /\ Settled(params)
      /\ emission \in [RoundId -> Nat \cup {Unstamped}] /\ BookType /\ TicksPast
  BY LayerTypes
<1>1. old \in MinerType /\ old.last_tick_ts <= now
  BY <1>0 DEF TicksPast
<1>2. bm \in MinerType /\ bm.unclaimed = old.unclaimed /\ bm.bonus_bps = old.bonus_bps
  BY <1>0, <1>1, GreetedType
<1>3. /\ bm.last_rolled_round_id = old.last_rolled_round_id
      /\ bm.last_tick_ts \in Nat
      /\ old.last_tick_ts <= bm.last_tick_ts /\ bm.last_tick_ts <= now
  BY <1>0, <1>1 DEF Greeted, MinerType
<1>4. emission[r] # Unstamped /\ phase[r] # "absent"
  BY DEF RollBeef
<1>5. share \in Nat /\ delta \in Nat
  BY <1>0, <1>2, <1>4, ShareNat, AccruedNat DEF BookType
<1>6. \/ /\ NothingToRoll(p, r, bm)
         /\ beef_miner' = [beef_miner EXCEPT ![p] = bm] /\ total_owed' = total_owed
      \/ /\ ~ NothingToRoll(p, r, bm)
         /\ beef_miner' = [beef_miner EXCEPT ![p] =
                 [known |-> TRUE, unclaimed |-> bm.unclaimed + share,
                  bonus_bps |-> beef_dilute(bm.bonus_bps + delta, bm.unclaimed, share),
                  last_tick_ts |-> now, last_active_ts |-> now,
                  last_rolled_round_id |-> r]]
         /\ total_owed' = total_owed + beef_owed_delta(bm.unclaimed, delta)
  BY DEF RollBeef, Touched, Diluted
<1> HIDE DEF bm, delta, share
<1>7. \A q \in Player : q # p => beef_miner'[q] = beef_miner[q]
  BY <1>0, <1>6
<1>8. \/ /\ NothingToRoll(p, r, bm)
         /\ beef_miner'[p] = bm /\ total_owed' = total_owed
      \/ /\ ~ NothingToRoll(p, r, bm)
         /\ beef_miner'[p].unclaimed = bm.unclaimed + share
         /\ beef_miner'[p].bonus_bps = beef_dilute(bm.bonus_bps + delta, bm.unclaimed, share)
         /\ beef_miner'[p].last_tick_ts = now
         /\ beef_miner'[p].last_rolled_round_id = r
         /\ total_owed' = total_owed + beef_owed_delta(bm.unclaimed, delta)
  BY <1>0, <1>6
<1> QED BY <1>2, <1>3, <1>4, <1>5, <1>7, <1>8 DEF bm, delta, share

(* What a claim does to its miner. *)
LEMMA ResetEffect ==
  ASSUME LayerInv, NEW p \in Player, ClaimBeef(p)
  PROVE  /\ \A q \in Player : q # p => beef_miner'[q] = beef_miner[q]
         /\ beef_miner'[p].unclaimed = 0 /\ beef_miner'[p].bonus_bps = 0
         /\ beef_miner'[p].last_tick_ts = now
         /\ beef_miner'[p].last_rolled_round_id = beef_miner[p].last_rolled_round_id
<1>1. beef_miner \in [Player -> MinerType]
  BY LayerTypes
<1>2. beef_miner' = [beef_miner EXCEPT ![p] = Reset(beef_miner[p])]
  BY DEF ClaimBeef
<1>3. LET new == Reset(beef_miner[p]) IN
      /\ new.unclaimed = 0 /\ new.bonus_bps = 0 /\ new.last_tick_ts = now
      /\ new.last_rolled_round_id = beef_miner[p].last_rolled_round_id
  BY <1>1 DEF Reset, Touched, MinerType
<1> QED BY <1>1, <1>2, <1>3

(* The steps that leave every miner alone. *)
LEMMA MinersKept ==
  ASSUME [Next]_vars, \A p \in Player : ~ ClaimBeef(p) /\ \A r \in RoundId : ~ RollBeef(p, r)
  PROVE  beef_miner' = beef_miner
  BY DEF Next, Play, beefVars, vars, SetBeefParams, StampBeef, SweepBeefExcess, Donate, Tick

LEMMA TicksStep ==
  ASSUME LayerInv, [Next]_vars
  PROVE  TicksPast'
<1>0. /\ beef_miner \in [Player -> MinerType] /\ now \in Nat /\ TicksPast
      /\ \A p \in Player : beef_miner[p].last_tick_ts \in Nat
  BY LayerTypes DEF MinerType
<1>1. now' \in Nat /\ now' >= now
  BY <1>0 DEF Next, Play, beefVars, vars, SetBeefParams, StampBeef, RollBeef, ClaimBeef,
     SweepBeefExcess, Donate, Tick
<1>2. ASSUME NEW p \in Player, NEW r \in RoundId, RollBeef(p, r) PROVE TicksPast'
  <2>1. now' = now
    BY <1>2 DEF RollBeef
  <2>2. /\ \A q \in Player : q # p => beef_miner'[q] = beef_miner[q]
        /\ beef_miner'[p].last_tick_ts <= now
    BY <1>0, <1>2, RollEffect
  <2> QED BY <1>0, <2>1, <2>2 DEF TicksPast
<1>3. ASSUME NEW p \in Player, ClaimBeef(p) PROVE TicksPast'
  <2>1. now' = now
    BY <1>3 DEF ClaimBeef
  <2>2. /\ \A q \in Player : q # p => beef_miner'[q] = beef_miner[q]
        /\ beef_miner'[p].last_tick_ts = now
    BY <1>3, ResetEffect
  <2> QED BY <1>0, <2>1, <2>2 DEF TicksPast
<1>4. ASSUME beef_miner' = beef_miner PROVE TicksPast'
  BY <1>0, <1>1, <1>4 DEF TicksPast
<1> QED BY <1>2, <1>3, <1>4, MinersKept

(* Only the newest round is stamped, and only once it is swapped. *)
LEMMA StampedStep ==
  ASSUME LayerInv, [Next]_vars
  PROVE  StampedAreSwapped'
<1> USE BeefAssumption
<1>0. /\ BookType /\ BookOrder /\ StampedAreSwapped
      /\ emission \in [RoundId -> Nat \cup {Unstamped}]
      /\ cursor \in Nat /\ \A r \in RoundId : r \in Nat
  BY LayerTypes DEF BookType, RoundId
<1>1. ASSUME Book!Next, emission' = emission PROVE StampedAreSwapped'
  <2>1. SUFFICES ASSUME NEW r \in RoundId, emission[r] # Unstamped
                 PROVE  r <= cursor' /\ phase'[r] \in {"claimable", "absent"}
    BY <1>1 DEF StampedAreSwapped
  <2>2. r <= cursor /\ phase[r] \in {"claimable", "absent"}
    BY <1>0, <2>1 DEF StampedAreSwapped
  <2>3. CASE Book!Open
    BY <1>0, <2>2, <2>3 DEF Book!Open, BookOrder
  <2>4. ASSUME NEW from \in {{"open"}, {"drawing"}, {"open", "drawing"}},
               NEW to, Book!Moves(from, to)
        PROVE  cursor' = cursor /\ phase'[r] = phase[r]
    <3>1. phase[cursor] \in {"open", "drawing"}
      BY <2>4 DEF Book!Moves
    <3>2. r # cursor
      BY <2>2, <3>1
    <3> QED BY <1>0, <2>4, <3>2 DEF Book!Moves, BookOrder
  <2>5. CASE Book!Draw \/ Book!Swap \/ Book!Cancel
    BY <2>2, <2>4, <2>5 DEF Book!Draw, Book!Swap, Book!Cancel, Book!Live
  <2>6. ASSUME NEW p, NEW a, Book!Stake(p, a) PROVE cursor' = cursor /\ phase' = phase
    BY <2>6 DEF Book!Stake
  <2>7. ASSUME NEW p, Book!Spend(p) PROVE cursor' = cursor /\ phase' = phase
    BY <2>7 DEF Book!Spend
  <2>8. ASSUME NEW q, Book!Reap(q)
        PROVE  cursor' = cursor /\ phase'[r] \in {phase[r], "absent"}
    BY <1>0, <2>8 DEF Book!Reap, BookOrder
  <2> QED BY <1>1, <2>2, <2>3, <2>5, <2>6, <2>7, <2>8 DEF Book!Next
<1>2. ASSUME NEW r \in RoundId, StampBeef(r) PROVE StampedAreSwapped'
  <2>1. /\ phase[r] = "claimable" /\ r = cursor
        /\ \A q \in RoundId : q # r => emission'[q] = emission[q]
        /\ UNCHANGED <<cursor, phase>>
    BY <1>0, <1>2 DEF StampBeef, Newest, bookVars
  <2> QED BY <1>0, <2>1 DEF StampedAreSwapped
<1>3. ASSUME UNCHANGED <<cursor, phase, emission>> PROVE StampedAreSwapped'
  BY <1>0, <1>3 DEF StampedAreSwapped
<1>4. CASE Play
  BY <1>1, <1>4 DEF Play, beefVars
<1>5. ASSUME \/ \E q \in BeefParams : SetBeefParams(q)
             \/ \E p \in Player, r \in RoundId : RollBeef(p, r)
             \/ \E p \in Player : ClaimBeef(p)
             \/ \E a \in Gifts : SweepBeefExcess(a) \/ Donate(a)
             \/ Tick
             \/ UNCHANGED vars
      PROVE  UNCHANGED <<cursor, phase, emission>>
  BY <1>5 DEF SetBeefParams, RollBeef, ClaimBeef, SweepBeefExcess, Donate, Tick, vars,
     beefVars, bookVars
<1> QED BY <1>2, <1>3, <1>4, <1>5 DEF Next

LEMMA LayerInit == Init => LayerInv
<1> SUFFICES ASSUME Init PROVE LayerInv
  OBVIOUS
<1> USE BeefAssumption
<1>1. TypeInv /\ Book!Init
  BY TypeInit DEF Init
<1>2. Book!Player = Player /\ Book!RoundId = RoundId
  BY DEF Book!Player, Book!RoundId, Player, RoundId
<1>3. BookOrder
  BY <1>1, <1>2 DEF Book!Init, BookOrder
<1>4. StakesFit
  BY <1>1, <1>2, StakesFitIs DEF Book!Init
<1>5. StampedAreSwapped
  BY DEF Init, StampedAreSwapped
<1>6. TicksPast
  BY DEF Init, TicksPast, NoMiner
<1> QED BY <1>1, <1>3, <1>4, <1>5, <1>6 DEF LayerInv

LEMMA LayerStep == LayerInv /\ [Next]_vars => LayerInv'
<1> SUFFICES ASSUME LayerInv, [Next]_vars PROVE LayerInv'
  OBVIOUS
<1>1. TypeInv'
  BY TypeStep, TypeStutter DEF LayerInv
<1>2. TicksPast' /\ StampedAreSwapped'
  BY TicksStep, StampedStep
<1>3. BookOrder' /\ StakesFit'
  <2>1. CASE Play
    BY <2>1, BookFits, LayerTypes DEF Play
  <2>2. CASE UNCHANGED bookVars
    <3>1. UNCHANGED <<cursor, phase, pot, stamp, held>>
      BY <2>2 DEF bookVars
    <3>2. BookOrder'
      BY <3>1, LayerTypes DEF BookOrder
    <3>3. \A r \in RoundId : In(r)' = In(r)
      BY <3>1 DEF In
    <3>4. StakesFit'
      BY <3>1, <3>3, StakesFitIs, LayerTypes
    <3> QED BY <3>2, <3>4
  <2>3. Play \/ UNCHANGED bookVars
    BY DEF Next, vars, SetBeefParams, StampBeef, RollBeef, ClaimBeef, SweepBeefExcess,
       Donate, Tick
  <2> QED BY <2>1, <2>2, <2>3
<1> QED BY <1>1, <1>2, <1>3 DEF LayerInv

LEMMA LayerAlways == Spec => []LayerInv
  BY LayerInit, LayerStep, PTL DEF Spec

(* direct.rs, stake_direct: a player's one position, restamped from round  *)
(* to round, never lets the stakes held in a round pass its pot, so no     *)
(* emission is shared out more than once.                                  *)
THEOREM StakesAlwaysFit == Spec => []StakesFit
<1>1. LayerInv => StakesFit
  BY DEF LayerInv
<1> QED BY <1>1, LayerAlways, PTL

(* beef.rs, stamp_beef: whenever a round is stamped, every player's        *)
(* position is still on it or on an earlier one.                           *)
THEOREM StampsComeInTime == Spec => StampsFindStakers
<1> DEFINE InTime == \A r \in RoundId : emission'[r] # emission[r] =>
                        \A p \in Player : stamp[p] <= r
<1>1. LayerInv /\ [Next]_vars => [InTime]_vars
  <2> SUFFICES ASSUME LayerInv, Next, NEW r \in RoundId, emission'[r] # emission[r],
                      NEW p \in Player
               PROVE  stamp[p] <= r
    BY DEF vars, beefVars
  <2>1. PICK q \in RoundId : StampBeef(q)
    BY DEF Next, Play, beefVars, SetBeefParams, RollBeef, ClaimBeef, SweepBeefExcess,
       Donate, Tick
  <2>2. q = cursor /\ emission' = [emission EXCEPT ![q] = emission'[q]]
    BY <2>1, LayerTypes DEF StampBeef, Newest
  <2>3. r = cursor
    BY <2>2, LayerTypes
  <2> QED BY <2>3, LayerTypes DEF BookOrder
<1>2. StampsFindStakers <=> [][InTime]_vars
  BY DEF StampsFindStakers
<1> HIDE DEF InTime
<1> QED BY <1>1, <1>2, LayerAlways, PTL DEF Spec

-----------------------------------------------------------------------------
(* The bonus is earned once *)

LEMMA DiluteAtMost ==
  ASSUME NEW b \in Nat, NEW u \in Nat, NEW s \in Nat
  PROVE  beef_dilute(b, u, s) \in Nat /\ beef_dilute(b, u, s) <= b
<1>1. CASE u + s = 0
  BY <1>1 DEF beef_dilute
<1>2. CASE u + s # 0
  <2>1. b * u \in Nat /\ u + s \in Nat \ {0} /\ b * s \in Nat
    BY <1>2, ProductNat
  <2>2. (u + s) * b = b * u + b * s
    OBVIOUS
  <2>3. b * u <= (u + s) * b
    BY <2>1, <2>2
  <2>4. (b * u) \div (u + s) <= b
    BY <2>1, <2>3, DivAtMost
  <2> QED BY <1>2, <2>1, <2>4, DivNat DEF beef_dilute
<1> QED BY <1>1, <1>2

LEMMA TimesMono ==
  ASSUME NEW a \in Nat, NEW b \in Nat, NEW c \in Nat, a <= b
  PROVE  a * c \in Nat /\ b * c \in Nat /\ a * c <= b * c
  OBVIOUS

(* What accrues is paid for by the time behind the cursor. *)
LEMMA AccruedInTime ==
  ASSUME Settled(params), now \in Nat, NEW bm \in MinerType, bm.last_tick_ts <= now
  PROVE  /\ Accrued(bm) \in Nat
         /\ Accrued(bm) * params.secs_per_tick <= params.tick_bps * (now - bm.last_tick_ts)
<1>1. PICK rate \in Nat, secs \in Nat \ {0}, window \in Nat, cap \in Nat :
         /\ rate = params.tick_bps /\ secs = params.secs_per_tick
         /\ window = params.activity_window_secs /\ cap = params.bonus_cap_bps
  BY DEF Settled, ParamType, validate_beef_params
<1>2. PICK tick \in Nat, active \in Nat, bonus \in Nat, t \in Nat :
         /\ tick = bm.last_tick_ts /\ active = bm.last_active_ts /\ bonus = bm.bonus_bps
         /\ t = now
  BY DEF MinerType
<1> DEFINE gap   == Minus(Least(t, active + window), tick)
           ticks == gap \div secs
           delta == beef_bonus_delta(ticks, rate, bonus, cap)
<1>3. Accrued(bm) = delta
  BY <1>1, <1>2 DEF Accrued, beef_ticks
<1>4. gap \in Nat /\ gap <= t - tick /\ t - tick \in Nat
  <2>1. tick <= t
    BY <1>2
  <2> QED BY <2>1 DEF Minus, Least
<1> HIDE DEF gap
<1>5. ticks \in Nat /\ secs * ticks <= gap
  BY <1>4, DivNat
<1> HIDE DEF ticks
<1>6. delta \in Nat /\ delta <= ticks * rate
  BY <1>5, DeltaNat
<1> HIDE DEF delta
<1>7. ticks * rate \in Nat /\ delta * secs <= (ticks * rate) * secs
  BY <1>5, <1>6, ProductNat, TimesMono
<1>8. (ticks * rate) * secs = (secs * ticks) * rate
  BY <1>5
<1>9. secs * ticks \in Nat /\ (secs * ticks) * rate <= (t - tick) * rate
  <2>1. secs * ticks \in Nat /\ secs * ticks <= t - tick
    BY <1>4, <1>5
  <2> QED BY <1>4, <2>1, TimesMono
<1>10. (t - tick) * rate = rate * (t - tick)
  BY <1>4
<1>11. delta * secs <= rate * (t - tick)
  <2>1. /\ delta * secs \in Nat /\ (ticks * rate) * secs \in Nat
        /\ (t - tick) * rate \in Nat
    BY <1>4, <1>6, <1>7, ProductNat
  <2> QED BY <1>7, <1>8, <1>9, <1>10, <2>1
<1> QED BY <1>1, <1>2, <1>3, <1>6, <1>11

(* What a step adds to a bonus, and the time it moves behind the cursor. *)
EarnedBy(p) ==
  (beef_miner'[p].bonus_bps - beef_miner[p].bonus_bps) * params.secs_per_tick
    <= params.tick_bps * (beef_miner'[p].last_tick_ts - beef_miner[p].last_tick_ts)

LEMMA EarnedLess ==
  ASSUME NEW gain \in Int, NEW secs \in Nat, NEW rate \in Nat, NEW time \in Nat, gain <= 0
  PROVE  gain * secs <= rate * time
<1>1. (-gain) * secs \in Nat /\ rate * time \in Nat
  OBVIOUS
<1>2. gain * secs = -((-gain) * secs)
  OBVIOUS
<1> QED BY <1>1, <1>2

LEMMA RollEarns ==
  ASSUME LayerInv, NEW p \in Player, NEW r \in RoundId, RollBeef(p, r)
  PROVE  EarnedBy(p)
<1>1. PICK bm \in MinerType : bm = Greeted(beef_miner[p])
  BY RollEffect
<1>2. PICK delta \in Nat, share \in Nat :
        delta = Accrued(bm) /\ share = beef_share(emission[r], held[p], pot[r])
  BY <1>1, RollEffect
<1>3. /\ bm.bonus_bps = beef_miner[p].bonus_bps
      /\ beef_miner[p].last_tick_ts <= bm.last_tick_ts /\ bm.last_tick_ts <= now
      /\ \/ beef_miner'[p] = bm
         \/ /\ beef_miner'[p].bonus_bps = beef_dilute(bm.bonus_bps + delta, bm.unclaimed, share)
            /\ beef_miner'[p].last_tick_ts = now
  BY <1>1, <1>2, RollEffect
<1>4. /\ bm.bonus_bps \in Nat /\ bm.unclaimed \in Nat /\ bm.last_tick_ts \in Nat
      /\ beef_miner[p].last_tick_ts \in Nat /\ now \in Nat /\ Settled(params)
  BY LayerTypes DEF MinerType
<1>5. PICK rate \in Nat, secs \in Nat \ {0} :
         rate = params.tick_bps /\ secs = params.secs_per_tick
  BY <1>4 DEF Settled, ParamType, validate_beef_params
<1>6. PICK b \in Nat, tick \in Nat, old \in Nat, t \in Nat :
        b = bm.bonus_bps /\ tick = bm.last_tick_ts /\ old = beef_miner[p].last_tick_ts /\ t = now
  BY <1>4
<1>7. CASE beef_miner'[p] = bm
  <2>1. (b - b) * secs <= rate * (tick - old)
    <3>1. b - b \in Int /\ b - b <= 0 /\ tick - old \in Nat
      BY <1>3, <1>6
    <3> QED BY <3>1, EarnedLess
  <2> QED BY <1>3, <1>5, <1>6, <1>7, <2>1 DEF EarnedBy
<1>8. CASE /\ beef_miner'[p].bonus_bps = beef_dilute(bm.bonus_bps + delta, bm.unclaimed, share)
           /\ beef_miner'[p].last_tick_ts = now
  <2>0. b + delta \in Nat /\ bm.unclaimed \in Nat
    BY <1>4
  <2>1. PICK new \in Nat :
           new = beef_dilute(b + delta, bm.unclaimed, share) /\ new <= b + delta
    BY <2>0, DiluteAtMost
  <2>2. new <= b + delta
    BY <2>1
  <2>3. delta * secs <= rate * (t - tick)
    BY <1>1, <1>2, <1>3, <1>4, <1>5, <1>6, AccruedInTime
  <2>4. t - tick \in Nat /\ t - old \in Nat /\ t - tick <= t - old
    BY <1>3, <1>6
  <2>5. (new - b) * secs <= delta * secs
    <3>1. new - b <= delta /\ new - b \in Int
      BY <2>1, <2>2
    <3>2. (delta - (new - b)) * secs \in Nat
      BY <3>1
    <3>3. (delta - (new - b)) * secs = delta * secs - (new - b) * secs
      BY <3>1
    <3> QED BY <3>1, <3>2, <3>3
  <2>6. rate * (t - tick) <= rate * (t - old)
    <3>1. (t - tick) * rate <= (t - old) * rate
      BY <2>4, TimesMono
    <3>2. (t - tick) * rate = rate * (t - tick) /\ (t - old) * rate = rate * (t - old)
      BY <2>4
    <3> QED BY <3>1, <3>2
  <2>7. (new - b) * secs <= rate * (t - old)
    <3>1. /\ (new - b) * secs \in Int /\ delta * secs \in Int /\ rate * (t - tick) \in Int
          /\ rate * (t - old) \in Int
      BY <2>1, <2>4
    <3> QED BY <2>3, <2>5, <2>6, <3>1
  <2>8. beef_miner'[p].bonus_bps = new /\ beef_miner[p].bonus_bps = b
    BY <1>3, <1>6, <1>8, <2>1
  <2> QED BY <1>5, <1>6, <1>8, <2>7, <2>8 DEF EarnedBy
<1> QED BY <1>3, <1>7, <1>8

LEMMA KeptEarns ==
  ASSUME LayerInv, NEW p \in Player, beef_miner'[p] = beef_miner[p]
  PROVE  EarnedBy(p)
<1>1. PICK b \in Nat, tick \in Nat : b = beef_miner[p].bonus_bps /\ tick = beef_miner[p].last_tick_ts
  BY LayerTypes DEF MinerType
<1>2. PICK rate \in Nat, secs \in Nat : rate = params.tick_bps /\ secs = params.secs_per_tick
  BY LayerTypes DEF ParamType
<1>3. (b - b) * secs <= rate * (tick - tick)
  BY EarnedLess
<1> QED BY <1>1, <1>2, <1>3 DEF EarnedBy

LEMMA ClaimEarns ==
  ASSUME LayerInv, NEW p \in Player, ClaimBeef(p)
  PROVE  EarnedBy(p)
<1>1. PICK b \in Nat, tick \in Nat, t \in Nat :
         b = beef_miner[p].bonus_bps /\ tick = beef_miner[p].last_tick_ts /\ t = now /\ tick <= t
  BY LayerTypes DEF MinerType, TicksPast
<1>2. PICK rate \in Nat, secs \in Nat : rate = params.tick_bps /\ secs = params.secs_per_tick
  BY LayerTypes DEF ParamType
<1>3. 0 - b \in Int /\ 0 - b <= 0 /\ t - tick \in Nat
  BY <1>1
<1>4. (0 - b) * secs <= rate * (t - tick)
  BY <1>3, EarnedLess
<1>5. beef_miner'[p].bonus_bps = 0 /\ beef_miner'[p].last_tick_ts = now
  BY ResetEffect
<1> QED BY <1>1, <1>2, <1>4, <1>5 DEF EarnedBy

(* beef.rs, accrue_bonus: a bonus grows only by time moved behind its       *)
(* cursor, at the rate of the moment; so no second of holding is ever paid *)
(* for twice.                                                              *)
THEOREM BonusIsEarnedOnce == Spec => BonusEarnedOnce
<1> DEFINE Earned == \A p \in Player : EarnedBy(p)
<1>1. LayerInv /\ [Next]_vars => [Earned]_vars
  <2> SUFFICES ASSUME LayerInv, Next, NEW p \in Player PROVE EarnedBy(p)
    OBVIOUS
  <2>1. ASSUME NEW q \in Player, NEW r \in RoundId, RollBeef(q, r) PROVE EarnedBy(p)
    <3>1. CASE p = q
      BY <2>1, <3>1, RollEarns
    <3>2. CASE p # q
      <4>1. beef_miner'[p] = beef_miner[p]
        BY <2>1, <3>2, RollEffect
      <4> QED BY <4>1, KeptEarns
    <3> QED BY <3>1, <3>2
  <2>2. ASSUME NEW q \in Player, ClaimBeef(q) PROVE EarnedBy(p)
    <3>1. CASE p = q
      BY <2>2, <3>1, ClaimEarns
    <3>2. CASE p # q
      <4>1. beef_miner'[p] = beef_miner[p]
        BY <2>2, <3>2, ResetEffect
      <4> QED BY <4>1, KeptEarns
    <3> QED BY <3>1, <3>2
  <2>3. CASE beef_miner' = beef_miner
    <3>1. beef_miner'[p] = beef_miner[p]
      BY <2>3
    <3> QED BY <3>1, KeptEarns
  <2> QED BY <2>1, <2>2, <2>3, MinersKept
<1>2. BonusEarnedOnce <=> [][Earned]_vars
  BY DEF BonusEarnedOnce, EarnedBy
<1> HIDE DEF Earned
<1> QED BY <1>1, <1>2, LayerAlways, PTL DEF Spec

-----------------------------------------------------------------------------
(* Shares and the ledger while no bonus is paid *)

NoBonus == params.tick_bps = 0 /\ \A p \in Player : beef_miner[p].bonus_bps = 0

FlatInv == LayerInv /\ NoBonus /\ SharesBacked

(* What is owed to a player at most: the balance and the share to come. *)
Due == [p \in Player |-> beef_miner[p].unclaimed + Rollable(p)]

LEMMA NothingAccrues ==
  ASSUME Settled(params), now \in Nat, params.tick_bps = 0, NEW bm \in MinerType
  PROVE  Accrued(bm) = 0
<1>1. /\ params.activity_window_secs \in Nat /\ params.secs_per_tick \in Nat \ {0}
      /\ params.bonus_cap_bps \in Nat
  BY DEF Settled, ParamType, validate_beef_params
<1>2. /\ bm.last_tick_ts \in Nat /\ bm.last_active_ts \in Nat /\ bm.bonus_bps \in Nat
  BY DEF MinerType
<1> DEFINE ticks == beef_ticks(now, bm.last_tick_ts, bm.last_active_ts,
                               params.activity_window_secs, params.secs_per_tick)
<1>3. ticks \in Nat
  BY <1>1, <1>2, TicksNat
<1> HIDE DEF ticks
<1>4. \A b \in Nat, cap \in Nat : beef_bonus_delta(ticks, 0, b, cap) = 0
  <2> TAKE b \in Nat, cap \in Nat
  <2>1. PICK rate \in Nat : rate = 0
    OBVIOUS
  <2>2. /\ beef_bonus_delta(ticks, rate, b, cap) \in Nat
        /\ beef_bonus_delta(ticks, rate, b, cap) <= ticks * rate
    BY <1>3, DeltaNat
  <2>3. ticks * rate = 0
    BY <1>3, <2>1
  <2> QED BY <2>1, <2>2, <2>3
<1>5. beef_bonus_delta(ticks, 0, bm.bonus_bps, params.bonus_cap_bps) = 0
  BY <1>1, <1>2, <1>4
<1> QED BY <1>5 DEF Accrued, ticks

LEMMA FlatAmounts ==
  ASSUME NEW u \in Nat, NEW s \in Nat
  PROVE  beef_owed_delta(u, 0) = 0 /\ beef_payout(u, 0) = u /\ beef_dilute(0, u, s) = 0
<1>1. beef_owed_delta(u, 0) = 0 /\ beef_payout(u, 0) = u
  BY DEF beef_owed_delta, beef_payout, BPS
<1>2. beef_dilute(0, u, s) = 0
  BY DiluteAtMost
<1> QED BY <1>1, <1>2

LEMMA RollableNat ==
  ASSUME LayerInv
  PROVE  \A p \in Player : /\ Rollable(p) \in Nat /\ beef_miner[p].unclaimed \in Nat
                           /\ Due[p] = beef_miner[p].unclaimed + Rollable(p)
                           /\ Due[p] \in Nat
<1> SUFFICES ASSUME NEW p \in Player
             PROVE  Rollable(p) \in Nat /\ beef_miner[p].unclaimed \in Nat
    BY DEF Due
<1>1. beef_miner[p].unclaimed \in Nat
  BY LayerTypes DEF MinerType
<1>2. stamp[p] \in RoundId
  BY LayerTypes DEF BookType
<1>3. ASSUME emission[stamp[p]] # Unstamped
      PROVE  beef_share(emission[stamp[p]], held[p], pot[stamp[p]]) \in Nat
  <2>1. emission[stamp[p]] \in Nat /\ held[p] \in Nat /\ pot[stamp[p]] \in Nat
    BY <1>2, <1>3, LayerTypes DEF BookType
  <2> QED BY <2>1, ShareNat
<1> QED BY <1>1, <1>3 DEF Rollable

LEMMA BackedIs ==
  /\ SharesBacked <=> SumBelow(Due, NumPlayers) <= total_owed /\ total_owed <= beef_vault
  /\ SharesBacked' <=> SumBelow(Due', NumPlayers) <= total_owed' /\ total_owed' <= beef_vault'
  BY DEF SharesBacked, Due

LEMMA DueNat ==
  ASSUME LayerInv
  PROVE  SumBelow(Due, NumPlayers) \in Nat
<1>1. \A i \in 0..NumPlayers-1 : Due[i] \in Nat
  BY RollableNat DEF Player
<1>2. NumPlayers \in Nat
  BY BeefAssumption
<1> QED BY <1>1, <1>2, SumNat

LEMMA DueNextNat ==
  ASSUME LayerInv'
  PROVE  \A p \in Player : /\ Rollable(p)' \in Nat /\ beef_miner'[p].unclaimed \in Nat
                           /\ Due'[p] = beef_miner'[p].unclaimed + Rollable(p)'
                           /\ Due'[p] \in Nat
<1> SUFFICES ASSUME NEW p \in Player
             PROVE  Rollable(p)' \in Nat /\ beef_miner'[p].unclaimed \in Nat
    BY DEF Due
<1>1. beef_miner'[p].unclaimed \in Nat
  BY DEF LayerInv, TypeInv, TypeOK
<1>2. stamp'[p] \in RoundId
  BY DEF LayerInv, TypeInv, BookType
<1>3. ASSUME emission'[stamp'[p]] # Unstamped
      PROVE  beef_share(emission'[stamp'[p]], held'[p], pot'[stamp'[p]]) \in Nat
  <2>1. emission'[stamp'[p]] \in Nat /\ held'[p] \in Nat /\ pot'[stamp'[p]] \in Nat
    BY <1>2, <1>3 DEF LayerInv, TypeInv, TypeOK, BookType
  <2> QED BY <2>1, ShareNat
<1> QED BY <1>1, <1>3 DEF Rollable

(* A step after which nobody is due more. *)
LEMMA DueLess ==
  ASSUME LayerInv, LayerInv', SharesBacked,
         \A p \in Player : Due'[p] <= Due[p],
         total_owed' = total_owed, total_owed' <= beef_vault'
  PROVE  SharesBacked'
<1> DEFINE old == Due
           new == Due'
<1>1. NumPlayers \in Nat /\ Player = 0..NumPlayers-1
  BY BeefAssumption DEF Player
<1>2. \A p \in Player : old[p] \in Nat /\ new[p] \in Nat /\ new[p] <= old[p]
  BY RollableNat, DueNextNat
<1>3. SumBelow(old, NumPlayers) <= total_owed /\ total_owed \in Nat
      /\ SumBelow(old, NumPlayers) \in Nat
  BY BackedIs, LayerTypes, DueNat
<1> HIDE DEF old, new
<1>4. SumBelow(new, NumPlayers) <= SumBelow(old, NumPlayers)
  <2>1. \A i \in 0..NumPlayers-1 : new[i] \in Int /\ old[i] \in Int /\ new[i] <= old[i]
    BY <1>1, <1>2
  <2> QED BY <1>1, <2>1, SumMono
<1>5. SumBelow(new, NumPlayers) \in Nat
  <2>1. \A i \in 0..NumPlayers-1 : new[i] \in Nat
    BY <1>1, <1>2
  <2> QED BY <1>1, <2>1, SumNat
<1>6. SumBelow(new, NumPlayers) <= total_owed'
  BY <1>3, <1>4, <1>5
<1> QED BY <1>6, BackedIs DEF new

(* After a step of the rounds underneath, a round with an emission that is *)
(* still there has the pot it had, and whoever is on it was on it, with    *)
(* the same stakes or with none.                                           *)
LEMMA StampedRoundsStay ==
  ASSUME LayerInv, Book!Next, NEW p \in Player, NEW r \in RoundId,
         emission[r] # Unstamped, stamp'[p] = r, phase'[r] # "absent"
  PROVE  /\ stamp[p] = r /\ phase[r] # "absent" /\ pot'[r] = pot[r]
         /\ held'[p] \in {held[p], 0}
<1> USE BeefAssumption
<1>0. /\ BookType /\ BookOrder
      /\ r <= cursor /\ phase[r] \in {"claimable", "absent"}
      /\ cursor \in Nat /\ r \in Nat /\ cursor \in RoundId
  BY LayerTypes DEF StampedAreSwapped, BookType, RoundId
<1>a. Book!Player = Player /\ Book!RoundId = RoundId
  BY DEF Book!Player, Book!RoundId, Player, RoundId
<1>1. CASE Book!Open
  BY <1>0, <1>1 DEF Book!Open, BookOrder
<1>2. ASSUME NEW q \in Player, NEW a \in Amounts, Book!Stake(q, a)
      PROVE  /\ stamp[p] = r /\ phase[r] # "absent" /\ pot'[r] = pot[r]
             /\ held'[p] = held[p]
  <2>1. r # cursor
    BY <1>0, <1>2 DEF Book!Stake
  <2>2. p # q
    BY <1>0, <1>2, <2>1 DEF Book!Stake, BookType
  <2> QED BY <1>0, <1>2, <2>1, <2>2 DEF Book!Stake, BookType
<1>3. ASSUME NEW from \in {{"open"}, {"drawing"}, {"open", "drawing"}},
             NEW to, Book!Moves(from, to)
      PROVE  /\ stamp[p] = r /\ phase[r] # "absent" /\ pot'[r] = pot[r]
             /\ held'[p] = held[p]
  <2>1. phase[cursor] \in {"open", "drawing"}
    BY <1>3 DEF Book!Moves
  <2>2. r # cursor
    BY <1>0, <2>1
  <2> QED BY <1>0, <1>3, <2>2 DEF Book!Moves, BookOrder
<1>4. ASSUME NEW q \in Player, Book!Spend(q)
      PROVE  /\ stamp[p] = r /\ phase[r] # "absent" /\ pot'[r] = pot[r]
             /\ held'[p] \in {held[p], 0}
  BY <1>0, <1>4 DEF Book!Spend, BookType
<1>5. ASSUME NEW q \in RoundId, Book!Reap(q)
      PROVE  /\ stamp[p] = r /\ phase[r] # "absent" /\ pot'[r] = pot[r]
             /\ held'[p] = held[p]
  <2>1. q # r
    BY <1>0, <1>5 DEF Book!Reap, BookOrder
  <2> QED BY <1>0, <1>5, <2>1 DEF Book!Reap, BookType, BookOrder
<1>6. CASE Book!Draw \/ Book!Swap \/ Book!Cancel
  BY <1>3, <1>6 DEF Book!Draw, Book!Swap, Book!Cancel, Book!Live
<1> QED BY <1>a, <1>1, <1>2, <1>4, <1>5, <1>6 DEF Book!Next

LEMMA NoStakeNoShare ==
  ASSUME NEW e \in Nat, NEW t \in Nat
  PROVE  beef_share(e, 0, t) = 0
<1>1. CASE t = 0
  BY <1>1 DEF beef_share
<1>2. CASE t # 0
  <2>1. t \in Nat \ {0} /\ e * 0 = 0 /\ 0 \div t = 0
    BY <1>2
  <2> QED BY <1>2, <2>1 DEF beef_share
<1> QED BY <1>1, <1>2

LEMMA PlayBacked ==
  ASSUME FlatInv, LayerInv', Play
  PROVE  SharesBacked'
<1>0. LayerInv /\ SharesBacked
  BY DEF FlatInv
<1>1. /\ Book!Next /\ beef_miner' = beef_miner /\ emission' = emission
      /\ total_owed' = total_owed /\ beef_vault' = beef_vault
  BY DEF Play, beefVars
<1>2. ASSUME NEW p \in Player PROVE Due'[p] <= Due[p]
  <2>1. stamp'[p] \in RoundId
    BY DEF LayerInv, TypeInv, BookType
  <2>2. Rollable(p)' <= Rollable(p)
    <3> DEFINE r == stamp'[p]
    <3>1. CASE /\ phase'[r] # "absent" /\ emission[r] # Unstamped
               /\ beef_miner[p].last_rolled_round_id < r
      <4>1. /\ stamp[p] = r /\ phase[r] # "absent" /\ pot'[r] = pot[r]
            /\ held'[p] \in {held[p], 0}
        BY <1>0, <1>1, <2>1, <3>1, StampedRoundsStay
      <4>2. Rollable(p) = beef_share(emission[r], held[p], pot[r])
        BY <3>1, <4>1 DEF Rollable
      <4>3. Rollable(p)' = beef_share(emission[r], held'[p], pot[r])
        BY <1>1, <3>1, <4>1 DEF Rollable
      <4>4. emission[r] \in Nat /\ pot[r] \in Nat
        BY <1>0, <2>1, <3>1, LayerTypes DEF BookType
      <4>5. Rollable(p) \in Nat
        BY <1>0, RollableNat
      <4>6. beef_share(emission[r], 0, pot[r]) = 0
        BY <4>4, NoStakeNoShare
      <4> QED BY <4>1, <4>2, <4>3, <4>5, <4>6
    <3>2. CASE ~ (/\ phase'[r] # "absent" /\ emission[r] # Unstamped
                  /\ beef_miner[p].last_rolled_round_id < r)
      <4>1. Rollable(p)' = 0
        BY <1>1, <3>2 DEF Rollable
      <4>2. Rollable(p) \in Nat
        BY <1>0, RollableNat
      <4> QED BY <4>1, <4>2
    <3> QED BY <3>1, <3>2
  <2>3. /\ Due[p] = beef_miner[p].unclaimed + Rollable(p)
        /\ Rollable(p) \in Nat /\ beef_miner[p].unclaimed \in Nat
    BY <1>0, RollableNat
  <2>4. /\ Due'[p] = beef_miner'[p].unclaimed + Rollable(p)'
        /\ Rollable(p)' \in Nat
    BY DueNextNat
  <2> QED BY <1>1, <2>2, <2>3, <2>4
<1>3. total_owed' <= beef_vault'
  BY <1>0, <1>1, BackedIs
<1> QED BY <1>0, <1>1, <1>2, <1>3, DueLess



(* The shares of a newly stamped round come to no more than its emission,  *)
(* for the stakes in it come to no more than its pot.                      *)
LEMMA SharesOfOne ==
  ASSUME BookType, StakesFit, NEW r \in RoundId, phase[r] # "absent", NEW e \in Nat
  PROVE  LET g == [p \in Player |-> beef_share(e, In(r)[p], pot[r])]
         IN  /\ \A p \in Player : g[p] \in Nat
             /\ SumBelow(g, NumPlayers) \in Nat
             /\ SumBelow(g, NumPlayers) <= e
<1> DEFINE g == [p \in Player |-> beef_share(e, In(r)[p], pot[r])]
           w == In(r)
<1>1. NumPlayers \in Nat /\ Player = 0..NumPlayers-1 /\ pot[r] \in Nat
  BY BeefAssumption DEF Player, BookType
<1>2. \A p \in Player : w[p] \in Nat
  BY InNat
<1>3. SumBelow(w, NumPlayers) <= pot[r] /\ SumBelow(w, NumPlayers) \in Nat
  BY StakesFitIs, InNat
<1>4. \A p \in Player : g[p] = beef_share(e, w[p], pot[r])
  OBVIOUS
<1> HIDE DEF g, w
<1>5. \A p \in Player : g[p] \in Nat
  BY <1>1, <1>2, <1>4, ShareNat
<1>6. SumBelow(g, NumPlayers) \in Nat
  <2>1. \A i \in 0..NumPlayers-1 : g[i] \in Nat
    BY <1>1, <1>5
  <2> QED BY <1>1, <2>1, SumNat
<1>7. CASE pot[r] = 0
  <2>1. \A i \in 0..NumPlayers-1 : g[i] = 0
    BY <1>1, <1>4, <1>7 DEF beef_share
  <2>2. SumBelow(g, NumPlayers) = 0
    BY <1>1, <2>1, SumZeros
  <2> QED BY <1>5, <1>6, <2>2 DEF g
<1>8. CASE pot[r] # 0
  <2>1. PICK d \in Nat \ {0} : d = pot[r]
    BY <1>1, <1>8
  <2>2. \A i \in 0..NumPlayers-1 : w[i] \in Nat /\ g[i] = (e * w[i]) \div d
    BY <1>1, <1>2, <1>4, <2>1 DEF beef_share
  <2>3. SumBelow(g, NumPlayers) <= (e * SumBelow(w, NumPlayers)) \div d
    BY <1>1, <2>2, SumFloors
  <2>4. PICK s \in Nat : s = SumBelow(w, NumPlayers) /\ s <= d
    BY <1>3, <2>1
  <2>5. e * s \in Nat /\ e * s <= d * e
    BY <2>4, ProductNat
  <2>6. (e * s) \div d <= e /\ (e * s) \div d \in Nat
    BY <2>5, DivAtMost, DivNat
  <2>7. SumBelow(g, NumPlayers) <= e
    BY <1>6, <2>3, <2>4, <2>6
  <2> QED BY <1>5, <1>6, <2>7 DEF g
<1> QED BY <1>1, <1>7, <1>8

LEMMA StampBacked ==
  ASSUME FlatInv, LayerInv', NEW r \in RoundId, StampBeef(r)
  PROVE  SharesBacked'
<1>0. /\ LayerInv /\ SharesBacked /\ TypeInv /\ BookType /\ StakesFit
      /\ total_owed \in Nat /\ beef_vault \in Nat
      /\ emission \in [RoundId -> Nat \cup {Unstamped}]
      /\ NumPlayers \in Nat /\ Player = 0..NumPlayers-1
  BY LayerTypes, BeefAssumption DEF FlatInv, Player
<1>1. PICK e \in Nat : e = Emitted(r) - TreasuryCut(Emitted(r))
  BY <1>0, StampAmounts
<1>2. /\ phase[r] = "claimable" /\ emission[r] = Unstamped
      /\ beef_vault' = beef_vault + e /\ total_owed' = total_owed + e
      /\ emission' = [emission EXCEPT ![r] = e]
      /\ UNCHANGED <<phase, pot, stamp, held, beef_miner>>
  BY <1>1 DEF StampBeef, bookVars
<1> DEFINE g == [p \in Player |-> beef_share(e, In(r)[p], pot[r])]
           old == Due
           new == Due'
           both == [p \in Player |-> old[p] + g[p]]
<1>3. /\ \A p \in Player : g[p] \in Nat
      /\ SumBelow(g, NumPlayers) \in Nat /\ SumBelow(g, NumPlayers) <= e
  BY <1>0, <1>2, SharesOfOne
<1>4. \A p \in Player : old[p] \in Nat /\ new[p] \in Nat
  BY <1>0, RollableNat, DueNextNat
<1>5. ASSUME NEW p \in Player PROVE new[p] <= old[p] + g[p]
  <2>1. stamp'[p] = stamp[p] /\ stamp[p] \in RoundId
    BY <1>0, <1>2 DEF BookType
  <2>2. CASE stamp[p] = r
    <3>1. g[p] = beef_share(e, held[p], pot[r])
      BY <1>0, <2>2, InNat
    <3>2. emission'[r] = e
      BY <1>0, <1>2
    <3>3. Rollable(p)' \in {0, g[p]}
      BY <1>2, <2>1, <2>2, <3>1, <3>2 DEF Rollable
    <3>4. Rollable(p)' <= Rollable(p) + g[p]
      BY <1>0, <1>3, <3>3, RollableNat
    <3>5. /\ new[p] = beef_miner[p].unclaimed + Rollable(p)'
          /\ old[p] = beef_miner[p].unclaimed + Rollable(p)
          /\ Rollable(p)' \in Nat /\ Rollable(p) \in Nat /\ beef_miner[p].unclaimed \in Nat
      BY <1>0, <1>2, RollableNat, DueNextNat
    <3> HIDE DEF new, old, g
    <3> QED BY <1>3, <3>4, <3>5
  <2>3. CASE stamp[p] # r
    <3>1. emission'[stamp[p]] = emission[stamp[p]]
      BY <1>0, <1>2, <2>1, <2>3
    <3>2. Rollable(p)' = Rollable(p)
      BY <1>2, <2>1, <3>1 DEF Rollable
    <3>3. new[p] = old[p]
      BY <1>2, <3>2 DEF Due
    <3> HIDE DEF new, old, g
    <3> QED BY <1>3, <1>4, <3>3
  <2> QED BY <2>2, <2>3
<1>6. SumBelow(old, NumPlayers) <= total_owed /\ total_owed <= beef_vault
      /\ SumBelow(old, NumPlayers) \in Nat
  BY <1>0, BackedIs, DueNat
<1>7. \A p \in Player : both[p] = old[p] + g[p]
  OBVIOUS
<1> HIDE DEF g, old, new, both
<1>8. SumBelow(both, NumPlayers) = SumBelow(old, NumPlayers) + SumBelow(g, NumPlayers)
  <2>1. \A i \in 0..NumPlayers-1 : old[i] \in Int /\ g[i] \in Int /\ both[i] = old[i] + g[i]
    BY <1>0, <1>3, <1>4, <1>7
  <2> QED BY <1>0, <2>1, SumPlus
<1>9. SumBelow(new, NumPlayers) <= SumBelow(both, NumPlayers)
  <2>1. \A i \in 0..NumPlayers-1 : new[i] \in Int /\ both[i] \in Int /\ new[i] <= both[i]
    BY <1>0, <1>3, <1>4, <1>5, <1>7
  <2> QED BY <1>0, <2>1, SumMono
<1>10. SumBelow(new, NumPlayers) \in Nat
  <2>1. \A i \in 0..NumPlayers-1 : new[i] \in Nat
    BY <1>0, <1>4
  <2> QED BY <1>0, <2>1, SumNat
<1>11. SumBelow(new, NumPlayers) <= total_owed' /\ total_owed' <= beef_vault'
  BY <1>0, <1>2, <1>3, <1>6, <1>8, <1>9, <1>10
<1> QED BY <1>11, BackedIs DEF new

LEMMA RollBacked ==
  ASSUME FlatInv, LayerInv', NEW p \in Player, NEW r \in RoundId, RollBeef(p, r)
  PROVE  SharesBacked' /\ beef_miner'[p].bonus_bps = 0
         /\ \A q \in Player : q # p => beef_miner'[q] = beef_miner[q]
<1>0. /\ LayerInv /\ SharesBacked /\ NoBonus
      /\ total_owed \in Nat /\ beef_vault \in Nat
  BY LayerTypes DEF FlatInv
<1>1. /\ UNCHANGED <<phase, pot, stamp, held, emission, beef_vault>>
  BY DEF RollBeef, bookVars
<1>2. PICK bm \in MinerType : bm = Greeted(beef_miner[p])
  BY <1>0, RollEffect
<1>3. Accrued(bm) = 0
  BY <1>0, NothingAccrues, LayerTypes DEF NoBonus
<1>4. PICK share \in Nat : share = beef_share(emission[r], held[p], pot[r])
  BY <1>0, RollEffect
<1>5. /\ \A q \in Player : q # p => beef_miner'[q] = beef_miner[q]
      /\ bm.bonus_bps = beef_miner[p].bonus_bps /\ bm.unclaimed = beef_miner[p].unclaimed
      /\ bm.last_rolled_round_id = beef_miner[p].last_rolled_round_id
      /\ emission[r] # Unstamped /\ phase[r] # "absent"
      /\ \/ NothingToRoll(p, r, bm) /\ beef_miner'[p] = bm /\ total_owed' = total_owed
         \/ /\ ~ NothingToRoll(p, r, bm)
            /\ beef_miner'[p].unclaimed = bm.unclaimed + share
            /\ beef_miner'[p].bonus_bps = beef_dilute(bm.bonus_bps + 0, bm.unclaimed, share)
            /\ beef_miner'[p].last_rolled_round_id = r
            /\ total_owed' = total_owed + beef_owed_delta(bm.unclaimed, 0)
  BY <1>0, <1>2, <1>3, <1>4, RollEffect
<1>6. bm.bonus_bps = 0 /\ bm.unclaimed \in Nat /\ bm.last_rolled_round_id \in Nat /\ r \in Nat
  BY <1>0, <1>2, <1>5 DEF NoBonus, MinerType, RoundId
<1>7. beef_owed_delta(bm.unclaimed, 0) = 0 /\ beef_dilute(0, bm.unclaimed, share) = 0
  BY <1>6, FlatAmounts
<1>8. total_owed' = total_owed /\ beef_miner'[p].bonus_bps = 0
  BY <1>0, <1>5, <1>6, <1>7
<1>9. ASSUME NEW q \in Player PROVE Due'[q] <= Due[q]
  <2>1. /\ Due[q] = beef_miner[q].unclaimed + Rollable(q)
        /\ Rollable(q) \in Nat /\ beef_miner[q].unclaimed \in Nat
        /\ Due'[q] = beef_miner'[q].unclaimed + Rollable(q)'
        /\ Rollable(q)' \in Nat
    BY <1>0, RollableNat, DueNextNat
  <2>2. CASE q # p
    <3>1. beef_miner'[q] = beef_miner[q]
      BY <1>5, <2>2
    <3>2. Rollable(q)' = Rollable(q)
      BY <1>1, <3>1 DEF Rollable
    <3> QED BY <2>1, <3>1, <3>2
  <2>3. CASE q = p /\ NothingToRoll(p, r, bm)
    <3>1. /\ beef_miner'[q].unclaimed = beef_miner[q].unclaimed
          /\ beef_miner'[q].last_rolled_round_id = beef_miner[q].last_rolled_round_id
      BY <1>5, <2>3
    <3>2. Rollable(q)' = Rollable(q)
      BY <1>1, <3>1 DEF Rollable
    <3> QED BY <2>1, <3>1, <3>2
  <2>4. CASE q = p /\ ~ NothingToRoll(p, r, bm)
    <3>1. stamp[p] = r /\ beef_miner[p].last_rolled_round_id < r
      BY <1>5, <1>6, <2>4 DEF NothingToRoll
    <3>2. Rollable(p) = share
      BY <1>4, <1>5, <3>1 DEF Rollable
    <3>3. Rollable(p)' = 0
      <4>1. stamp'[p] = r /\ beef_miner'[p].last_rolled_round_id = r
        BY <1>1, <1>5, <2>4, <3>1
      <4>2. ~ (beef_miner'[p].last_rolled_round_id < stamp'[p])
        BY <1>6, <4>1
      <4> QED BY <4>2 DEF Rollable
    <3>4. beef_miner'[p].unclaimed = beef_miner[p].unclaimed + share
      BY <1>5, <2>4
    <3> QED BY <2>1, <2>4, <3>2, <3>3, <3>4
  <2> QED BY <2>2, <2>3, <2>4
<1>10. total_owed' <= beef_vault'
  BY <1>0, <1>1, <1>8, BackedIs
<1>11. SharesBacked'
  BY <1>0, <1>8, <1>9, <1>10, DueLess
<1> QED BY <1>5, <1>8, <1>11

LEMMA ClaimBacked ==
  ASSUME FlatInv, LayerInv', NEW p \in Player, ClaimBeef(p)
  PROVE  SharesBacked'
<1>0. /\ LayerInv /\ SharesBacked /\ NoBonus
      /\ total_owed \in Nat /\ beef_vault \in Nat
      /\ NumPlayers \in Nat /\ Player = 0..NumPlayers-1
      /\ beef_miner \in [Player -> MinerType]
  BY LayerTypes, BeefAssumption DEF FlatInv, Player
<1>1. PICK u \in Nat : u = beef_miner[p].unclaimed
  BY <1>0 DEF MinerType
<1>2. Accrued(beef_miner[p]) = 0 /\ beef_miner[p].bonus_bps = 0
  BY <1>0, NothingAccrues, LayerTypes DEF NoBonus
<1>3. beef_payout(u, 0 + 0) = u /\ beef_owed_delta(u, 0) = 0
  BY FlatAmounts
<1>4. /\ beef_vault' = beef_vault - u /\ total_owed' = Minus(total_owed + 0, u)
      /\ UNCHANGED <<phase, pot, stamp, held, emission>>
  BY <1>1, <1>2, <1>3 DEF ClaimBeef, bookVars
<1>5. /\ \A q \in Player : q # p => beef_miner'[q] = beef_miner[q]
      /\ beef_miner'[p].unclaimed = 0
      /\ beef_miner'[p].last_rolled_round_id = beef_miner[p].last_rolled_round_id
  BY <1>0, ResetEffect
<1>6. \A q \in Player : Rollable(q)' = Rollable(q)
  BY <1>4, <1>5 DEF Rollable
<1> DEFINE old == Due
           new == Due'
<1>7. \A q \in Player : /\ old[q] \in Nat /\ new[q] \in Nat
                        /\ old[q] = beef_miner[q].unclaimed + Rollable(q)
                        /\ new[q] = beef_miner'[q].unclaimed + Rollable(q)'
                        /\ Rollable(q) \in Nat
  BY <1>0, RollableNat, DueNextNat
<1>8. SumBelow(old, NumPlayers) <= total_owed /\ total_owed <= beef_vault
      /\ SumBelow(old, NumPlayers) \in Nat
  BY <1>0, BackedIs, DueNat
<1> HIDE DEF old, new
<1>9. \A q \in Player : q # p => new[q] = old[q]
  BY <1>5, <1>6, <1>7
<1>10. new[p] = old[p] - u /\ u <= old[p]
  BY <1>1, <1>5, <1>6, <1>7
<1>11. old[p] <= SumBelow(old, NumPlayers)
  <2>1. p \in 0..NumPlayers-1 /\ \A i \in 0..NumPlayers-1 : old[i] \in Nat
    BY <1>0, <1>7
  <2> QED BY <1>0, <2>1, SumMember
<1>12. SumBelow(new, NumPlayers) = SumBelow(old, NumPlayers) - old[p] + new[p]
  <2>1. /\ p \in 0..NumPlayers-1
        /\ \A i \in 0..NumPlayers-1 : old[i] \in Int /\ new[i] \in Int
        /\ \A i \in 0..NumPlayers-1 : i # p => new[i] = old[i]
    BY <1>0, <1>7, <1>9
  <2> QED BY <1>0, <2>1, SumAt
<1>13. old[p] \in Nat /\ u <= total_owed
  BY <1>0, <1>7, <1>8, <1>10, <1>11
<1>14. total_owed' = total_owed - u
  BY <1>0, <1>4, <1>13 DEF Minus
<1>15. SumBelow(new, NumPlayers) <= total_owed' /\ total_owed' <= beef_vault'
  BY <1>0, <1>4, <1>8, <1>10, <1>12, <1>13, <1>14
<1> QED BY <1>15, BackedIs DEF new

(* The steps that touch no balance, no round and no entry of the ledger. *)
LEMMA QuietBacked ==
  ASSUME FlatInv, LayerInv',
         UNCHANGED <<phase, pot, stamp, held, emission, beef_miner, total_owed>>,
         total_owed <= beef_vault'
  PROVE  SharesBacked'
<1>0. LayerInv /\ SharesBacked
  BY DEF FlatInv
<1>1. \A q \in Player : Rollable(q)' = Rollable(q)
  BY DEF Rollable
<1>2. \A q \in Player : Due'[q] <= Due[q]
  BY <1>0, <1>1, RollableNat DEF Due
<1> QED BY <1>0, <1>2, DueLess

-----------------------------------------------------------------------------
(* The settings that pay no bonus. *)
FlatSettings == \A q \in BeefParams \cup {FirstParams} : q.tick_bps = 0

LEMMA FlatStep ==
  ASSUME FlatSettings, FlatInv, [Next]_vars
  PROVE  FlatInv'
<1>0. /\ LayerInv /\ SharesBacked /\ NoBonus /\ LayerInv'
      /\ total_owed \in Nat /\ beef_vault \in Nat /\ total_owed <= beef_vault
  <2>1. LayerInv /\ SharesBacked /\ NoBonus
    BY DEF FlatInv
  <2>2. LayerInv'
    BY <2>1, LayerStep
  <2> QED BY <2>1, <2>2, LayerTypes, BackedIs
<1>k. ASSUME beef_miner' = beef_miner, params' = params PROVE NoBonus'
  BY <1>0, <1>k DEF NoBonus
<1>1. CASE Play
  <2>1. SharesBacked'
    BY <1>0, <1>1, PlayBacked
  <2> QED BY <1>0, <1>1, <1>k, <2>1 DEF Play, beefVars, FlatInv
<1>2. ASSUME NEW q \in BeefParams, SetBeefParams(q) PROVE FlatInv'
  <2>1. NoBonus'
    BY <1>0, <1>2 DEF SetBeefParams, NoBonus, FlatSettings
  <2>2. /\ UNCHANGED <<phase, pot, stamp, held, emission, beef_miner, total_owed>>
        /\ total_owed <= beef_vault'
    BY <1>0, <1>2 DEF SetBeefParams, bookVars
  <2> QED BY <1>0, <2>1, <2>2, QuietBacked DEF FlatInv
<1>3. ASSUME NEW r \in RoundId, StampBeef(r) PROVE FlatInv'
  <2>1. SharesBacked'
    BY <1>0, <1>3, StampBacked
  <2> QED BY <1>0, <1>3, <1>k, <2>1 DEF StampBeef, FlatInv
<1>4. ASSUME NEW p \in Player, NEW r \in RoundId, RollBeef(p, r) PROVE FlatInv'
  <2>1. /\ SharesBacked' /\ beef_miner'[p].bonus_bps = 0
        /\ \A q \in Player : q # p => beef_miner'[q] = beef_miner[q]
    BY <1>0, <1>4, RollBacked
  <2>2. params' = params
    BY <1>4 DEF RollBeef
  <2>3. NoBonus'
    BY <1>0, <2>1, <2>2 DEF NoBonus
  <2> QED BY <1>0, <2>1, <2>3 DEF FlatInv
<1>5. ASSUME NEW p \in Player, ClaimBeef(p) PROVE FlatInv'
  <2>1. SharesBacked'
    BY <1>0, <1>5, ClaimBacked
  <2>2. /\ params' = params /\ beef_miner'[p].bonus_bps = 0
        /\ \A q \in Player : q # p => beef_miner'[q] = beef_miner[q]
    BY <1>0, <1>5, ResetEffect DEF ClaimBeef
  <2>3. NoBonus'
    BY <1>0, <2>2 DEF NoBonus
  <2> QED BY <1>0, <2>1, <2>3 DEF FlatInv
<1>6. ASSUME NEW a \in Gifts, SweepBeefExcess(a) \/ Donate(a) PROVE FlatInv'
  <2>1. /\ UNCHANGED <<phase, pot, stamp, held, emission, beef_miner, total_owed, params>>
        /\ a \in Nat
    BY <1>6, BeefAssumption DEF SweepBeefExcess, Donate, bookVars
  <2>2. total_owed <= beef_vault'
    BY <1>0, <1>6, <2>1 DEF SweepBeefExcess, Donate, Free, Minus
  <2> QED BY <1>0, <1>k, <2>1, <2>2, QuietBacked DEF FlatInv
<1>7. CASE Tick \/ UNCHANGED vars
  <2>1. /\ UNCHANGED <<phase, pot, stamp, held, emission, beef_miner, total_owed, params>>
        /\ total_owed <= beef_vault'
    BY <1>0, <1>7 DEF Tick, vars, beefVars, bookVars
  <2> QED BY <1>0, <1>k, <2>1, QuietBacked DEF FlatInv
<1> QED BY <1>1, <1>2, <1>3, <1>4, <1>5, <1>6, <1>7 DEF Next

LEMMA FlatInit ==
  ASSUME FlatSettings, Init
  PROVE  FlatInv
<1>1. LayerInv
  BY LayerInit
<1>2. /\ beef_miner = [p \in Player |-> NoMiner] /\ total_owed = 0 /\ beef_vault = 0
      /\ emission = [r \in RoundId |-> Unstamped] /\ params = FirstParams
  BY DEF Init
<1>3. NoBonus
  BY <1>2 DEF NoBonus, NoMiner, FlatSettings
<1> DEFINE f == Due
<1>4. \A p \in Player : f[p] = 0
  <2> TAKE p \in Player
  <2>1. stamp[p] \in RoundId
    BY <1>1, LayerTypes DEF BookType
  <2>2. Rollable(p) = 0
    BY <1>2, <2>1 DEF Rollable
  <2> QED BY <1>2, <2>2 DEF Due, NoMiner
<1> HIDE DEF f
<1>5. SumBelow(f, NumPlayers) = 0
  <2>1. NumPlayers \in Nat /\ \A i \in 0..NumPlayers-1 : f[i] = 0
    BY <1>4, BeefAssumption DEF Player
  <2> QED BY <2>1, SumZeros
<1>6. SharesBacked
  BY <1>2, <1>5, BackedIs DEF f
<1> QED BY <1>1, <1>3, <1>6 DEF FlatInv

(* beef.rs, sweep.rs: under settings that pay no bonus, whatever rolls,     *)
(* claims, restakes, reaped rounds, sweeps and changes of the emission     *)
(* curve come, the ledger covers every balance and every share still to be *)
(* rolled in, and the vault covers the ledger.                             *)
THEOREM SharesAreBacked ==
  ASSUME FlatSettings
  PROVE  Spec => []SharesBacked
<1>1. Init => FlatInv
  BY FlatInit
<1>2. FlatInv /\ [Next]_vars => FlatInv'
  BY FlatStep
<1>3. FlatInv => SharesBacked
  BY DEF FlatInv
<1> QED BY <1>1, <1>2, <1>3, PTL DEF Spec
==============================================================================
