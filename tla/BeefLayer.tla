------------------------------ MODULE BeefLayer ------------------------------
(***************************************************************************)
(* The BEEF layer (instructions/beef.rs, sweep.rs) on top of the rounds.   *)
(* A claimable round is stamped once with an emission, minted into a       *)
(* buffer vault and to the treasury; each staker rolls a share of it into  *)
(* a balance that earns a bonus while it is held; a claim pays balance and *)
(* bonus out of the vault.  The bonus is minted by nobody.                 *)
(*                                                                         *)
(* The rounds underneath are RoundBook's: its steps interleave with the    *)
(* layer's, which only reads them.                                         *)
(***************************************************************************)
EXTENDS Sums, BeefMath

CONSTANTS
  NumPlayers, MaxRounds, Amounts,     \* as in RoundBook
  MaxTime,                            \* bound: where the clock stops
  MaxPot,                             \* bound: lamports ever staked in a round
  Gifts,                              \* BEEF one donation or sweep moves
  hard_cap, treasury_bps,             \* pinned by init_beef
  BeefParams,                         \* the settings the admin may choose
  FirstParams,                        \* the one init_beef is called with
  Unstamped                           \* emission of a round without BeefRound

ParamType ==
  [max_round_mint: Nat, sat_lamports: Nat, tick_bps: Nat,
   bonus_cap_bps: Nat, activity_window_secs: Nat, secs_per_tick: Nat]

validate_beef_params(q) == q.sat_lamports > 0 /\ q.secs_per_tick > 0

ASSUME BeefAssumption ==
  /\ NumPlayers \in Nat /\ MaxRounds \in Nat /\ Amounts \subseteq Nat
  /\ MaxPot \in Nat /\ Gifts \subseteq Nat
  /\ hard_cap \in Nat \ {0} /\ treasury_bps \in 0 .. 5000
  /\ BeefParams \subseteq ParamType /\ FirstParams \in ParamType
  /\ validate_beef_params(FirstParams)
  /\ Unstamped \notin Nat /\ MaxTime \in Nat

VARIABLES
  cursor, phase, pot, stamp, held,    \* the rounds, see RoundBook
  minted_total,   \* the supply meter, both shares
  total_owed,     \* the liability ledger
  params,         \* what set_beef_params may move
  emission,       \* RoundId -> BeefRound.emission, Unstamped without one
  beef_miner,     \* Player -> BeefMiner
  beef_vault,     \* BEEF held for the players
  beef_treasury,  \* BEEF minted to the treasury
  wallets,        \* BEEF everywhere else
  now

Player  == 0 .. NumPlayers - 1
RoundId == 0 .. MaxRounds

Book == INSTANCE RoundBook

bookVars == <<cursor, phase, pot, stamp, held>>
beefVars == <<minted_total, total_owed, params, emission, beef_miner,
              beef_vault, beef_treasury, wallets, now>>
vars == <<bookVars, beefVars>>

NoMiner == [known |-> FALSE, unclaimed |-> 0, bonus_bps |-> 0, last_tick_ts |-> 0,
            last_active_ts |-> 0, last_rolled_round_id |-> 0]

Init ==
  /\ Book!Init
  /\ minted_total = 0 /\ total_owed = 0
  /\ params = FirstParams
  /\ emission = [r \in RoundId |-> Unstamped]
  /\ beef_miner = [p \in Player |-> NoMiner]
  /\ beef_vault = 0 /\ beef_treasury = 0 /\ wallets = 0
  /\ now = 0

Play ==
  /\ Book!Next
  /\ \A r \in RoundId : pot'[r] <= MaxPot
  /\ UNCHANGED beefVars

SetBeefParams(q) ==
  /\ validate_beef_params(q)
  /\ params' = q
  /\ UNCHANGED <<bookVars, minted_total, total_owed, emission, beef_miner,
                 beef_vault, beef_treasury, wallets, now>>

-----------------------------------------------------------------------------
(* Stamping a round *)

AnyRound(r) == TRUE                                      \* mutant of Newest
Newest(r) == r = cursor

(* Both shares together, within what is left under the cap. *)
Emitted(r) ==
  LET total == beef_emission(pot[r], params.max_round_mint, params.sat_lamports,
                             minted_total, hard_cap)
  IN  Least(total, Minus(hard_cap, minted_total))

TreasuryCut(total) == (total * treasury_bps) \div BPS

PlayersOnly(total) == total - TreasuryCut(total)         \* mutant of Metered
Metered(total) == total

StampBeef(r) ==
  LET total   == Emitted(r)
      players == total - TreasuryCut(total)
  IN  /\ phase[r] = "claimable"
      /\ Newest(r)
      /\ emission[r] = Unstamped
      /\ beef_vault' = beef_vault + players
      /\ beef_treasury' = beef_treasury + TreasuryCut(total)
      /\ emission' = [emission EXCEPT ![r] = players]
      /\ minted_total' = minted_total + Metered(total)
      /\ total_owed' = total_owed + players
      /\ UNCHANGED <<bookVars, params, beef_miner, wallets, now>>

-----------------------------------------------------------------------------
(* Rolling a share in, and claiming *)

(* accrue_bonus: what the bonus grows by up to now, under the settings as  *)
(* they are now.                                                           *)
Accrued(bm) ==
  beef_bonus_delta(
    beef_ticks(now, bm.last_tick_ts, bm.last_active_ts,
               params.activity_window_secs, params.secs_per_tick),
    params.tick_bps, bm.bonus_bps, params.bonus_cap_bps)

(* roll_beef creates the account on first use. *)
Greeted(bm) ==
  IF bm.known THEN bm
  ELSE [bm EXCEPT !.known = TRUE, !.last_tick_ts = now, !.last_active_ts = now]

RolledAgain(p, r, bm) == stamp[p] # r                    \* mutant of NothingToRoll
NothingToRoll(p, r, bm) == bm.last_rolled_round_id >= r \/ stamp[p] # r

Undiluted(bonus, unclaimed, share) == bonus              \* mutant of Diluted
Diluted(bonus, unclaimed, share) == beef_dilute(bonus, unclaimed, share)

KeptTick(bm) == bm.last_tick_ts                          \* mutant of Touched
Touched(bm) == now

RollBeef(p, r) ==
  LET bm    == Greeted(beef_miner[p])
      delta == Accrued(bm)
      share == beef_share(emission[r], held[p], pot[r])
  IN  /\ phase[r] # "absent"
      /\ emission[r] # Unstamped
      /\ IF NothingToRoll(p, r, bm)
         THEN /\ beef_miner' = [beef_miner EXCEPT ![p] = bm]
              /\ UNCHANGED total_owed
         ELSE /\ beef_miner' = [beef_miner EXCEPT ![p] =
                   [known |-> TRUE,
                    unclaimed |-> bm.unclaimed + share,
                    bonus_bps |-> Diluted(bm.bonus_bps + delta, bm.unclaimed, share),
                    last_tick_ts |-> Touched(bm),
                    last_active_ts |-> now,
                    last_rolled_round_id |-> r]]
              /\ total_owed' = total_owed + beef_owed_delta(bm.unclaimed, delta)
      /\ UNCHANGED <<bookVars, minted_total, params, emission, beef_vault,
                     beef_treasury, wallets, now>>

Overdrawn(payout) == TRUE                               \* mutant of Funded
Funded(payout) == payout <= beef_vault

Reset(bm) == [bm EXCEPT !.unclaimed = 0, !.bonus_bps = 0, !.last_tick_ts = Touched(bm)]

ClaimBeef(p) ==
  LET bm     == beef_miner[p]
      delta  == Accrued(bm)
      payout == beef_payout(bm.unclaimed, bm.bonus_bps + delta)
  IN  /\ bm.known
      /\ Funded(payout)
      /\ beef_vault' = beef_vault - payout
      /\ wallets' = wallets + payout
      /\ total_owed' = Minus(total_owed + beef_owed_delta(bm.unclaimed, delta), payout)
      /\ beef_miner' = [beef_miner EXCEPT ![p] = Reset(bm)]
      /\ UNCHANGED <<bookVars, minted_total, params, emission, beef_treasury, now>>

-----------------------------------------------------------------------------
(* The owner's exit, gifts to the vault, and time *)

WholeVault == beef_vault                                 \* mutant of Free
Free == Minus(beef_vault, total_owed)

SweepBeefExcess(amount) ==
  /\ amount <= Free
  /\ beef_vault' = beef_vault - amount
  /\ wallets' = wallets + amount
  /\ UNCHANGED <<bookVars, minted_total, total_owed, params, emission,
                 beef_miner, beef_treasury, now>>

(* Anybody may send BEEF to the vault. *)
Donate(amount) ==
  /\ amount <= wallets
  /\ wallets' = wallets - amount
  /\ beef_vault' = beef_vault + amount
  /\ UNCHANGED <<bookVars, minted_total, total_owed, params, emission,
                 beef_miner, beef_treasury, now>>

Tick ==
  /\ now < MaxTime
  /\ now' = now + 1
  /\ UNCHANGED <<bookVars, minted_total, total_owed, params, emission,
                 beef_miner, beef_vault, beef_treasury, wallets>>

Next ==
  \/ Play
  \/ \E q \in BeefParams : SetBeefParams(q)
  \/ \E r \in RoundId : StampBeef(r)
  \/ \E p \in Player, r \in RoundId : RollBeef(p, r)
  \/ \E p \in Player : ClaimBeef(p)
  \/ \E a \in Gifts : SweepBeefExcess(a)
  \/ \E a \in Gifts : Donate(a)
  \/ Tick

Spec == Init /\ [][Next]_vars

-----------------------------------------------------------------------------
(* Properties *)

TypeOK ==
  /\ minted_total \in Nat /\ total_owed \in Nat
  /\ params \in ParamType
  /\ emission \in [RoundId -> Nat \cup {Unstamped}]
  /\ beef_miner \in [Player -> [known: BOOLEAN, unclaimed: Nat, bonus_bps: Nat,
                                last_tick_ts: Nat, last_active_ts: Nat,
                                last_rolled_round_id: RoundId]]
  /\ beef_vault \in Nat /\ beef_treasury \in Nat /\ wallets \in Nat
  /\ now \in Nat

(* state/beef.rs, minted_total: "counts BOTH shares (players + treasury)", *)
(* and emission "stops forever at the cap".  Every BEEF there is, wherever *)
(* it went, is on the meter, and the meter stays within the cap whatever   *)
(* the admin does to the curve.                                            *)
SupplyMetered ==
  /\ beef_vault + beef_treasury + wallets = minted_total
  /\ minted_total <= hard_cap

(* What a player could still roll in of the round the position is on. *)
Rollable(p) ==
  LET r == stamp[p] IN
  IF /\ phase[r] # "absent" /\ emission[r] # Unstamped
     /\ beef_miner[p].last_rolled_round_id < r
  THEN beef_share(emission[r], held[p], pot[r])
  ELSE 0

(* direct.rs, stake_direct: the one position of a player follows the player *)
(* from round to round.  The stakes the positions hold in a round never    *)
(* exceed its pot, or its emission would be shared out more than once.     *)
StakesFit == Book!StakesFit

(* While no bonus is paid, the ledger covers every balance and every share *)
(* still to be rolled, and the vault covers the ledger: claims, rolls,     *)
(* restakes, reaped rounds and sweeps in any order leave nobody short.     *)
SharesBacked ==
  /\ SumBelow([p \in Player |-> beef_miner[p].unclaimed + Rollable(p)], NumPlayers)
       <= total_owed
  /\ total_owed <= beef_vault

(* state/beef.rs, total_owed: "free_vault = vault.amount - total_owed can  *)
(* never go negative-spendable"; sweep.rs: "vault.amount == total_owed by  *)
(* construction".                                                          *)
VaultCoversOwed == total_owed <= beef_vault

(* math.rs, beef_dilute: "a late deposit can never ride an old multiplier".*)
(* A roll adds to what a claim would pay at most the bonus due up to now   *)
(* and the share itself, to the unit.                                      *)
RollsAddTheirShare ==
  [][\A p \in Player :
       LET bm == beef_miner[p] IN
       beef_miner'[p].unclaimed > bm.unclaimed =>
          beef_payout(beef_miner'[p].unclaimed, beef_miner'[p].bonus_bps)
            <= beef_payout(bm.unclaimed, bm.bonus_bps + Accrued(Greeted(bm)))
               + (beef_miner'[p].unclaimed - bm.unclaimed)]_vars

(* beef.rs, accrue_bonus: "gate-closed dead time is skipped, never          *)
(* re-scanned".  A bonus grows only by time that moves behind the cursor,  *)
(* so no second is ever paid for twice, however rolls, claims and changes  *)
(* of the settings come.                                                   *)
BonusEarnedOnce ==
  [][\A p \in Player :
       LET bm == beef_miner[p] IN
       (beef_miner'[p].bonus_bps - bm.bonus_bps) * params.secs_per_tick
         <= params.tick_bps * (beef_miner'[p].last_tick_ts - bm.last_tick_ts)]_vars

(* beef.rs, stamp_beef: "an abandoned old round can never be retro-stamped *)
(* into a permanent total_owed leak".  When a round is stamped, nobody who *)
(* staked in it has moved on to a later one.                               *)
StampsFindStakers ==
  [][\A r \in RoundId : emission'[r] # emission[r] =>
        \A p \in Player : stamp[p] <= r]_vars
=============================================================================
