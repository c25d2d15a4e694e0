# Verification of ansem-ore

A 25-square staking game on Solana. Players stake SOL on squares of a round;
when the round ends a random square wins. The pot is exchanged for the ANSEM
token: losing squares get back up to half their value, the winners share the
rest, and a rollover jackpot is carried from round to round. A keeper process
cranks the rounds, an app plays them. This directory holds the TLA+ model of the
system, the TLC runs that check it and the TLAPS proofs about it.

    tlc -workers 2 -config direct_rounds.cfg MCDirectGame.tla    # any .cfg
    tlapm EscrowGameBooks.tla                # any module of theorems

## 1. Inventory

### The on-chain program (`programs/ansem-miner`)

| part | state it keeps | operations |
|---|---|---|
| rounds (`round.rs`, `state/round.rs`) | `Round`: state, deadline, stakes per square, pot, draw, entitlement | `create_round` |
| direct stakes (`direct.rs`, `state/miner.rs`) | one `MinerPosition` per wallet, reused by every round | `stake_direct`, `claim_direct`, `refund_direct` |
| draw (`settle.rs`, `vrf_settle.rs`) | the round's randomness | `settle`, `request_settle`, `settle_callback` |
| swap (`swap.rs`, `math.rs`, `state/jackpot.rs`) | rollover and obligations in `Config`; pool, proceeds, entitlement in `Round`; ANSEM vault | `execute_swap_mock`, `execute_swap_real` |
| recovery, janitor | the same accounts | `cancel_round`, `refund`, `close_round` |
| escrow (`escrow.rs`) | `PlayerEscrow`: balance, withdrawal lock, claim and reconcile cursors | `deposit`, `withdraw` |
| escrow game on a rollup (`round_entry.rs`, `stake.rs`, `claim.rs`, `delegation.rs`) | the same rounds and miners, delegated | `join_round`, `stake`, `commit_*`, `reconcile_miner`, `claim` |
| BEEF (`beef.rs`, `sweep.rs`) | supply meter, liability ledger, per-player balance with a growing bonus | `stamp_beef`, `roll_beef`, `claim_beef`, `sweep_beef_excess` |
| admin (`admin.rs`, `initialize.rs`) | `Config`, `JackpotConfig` | setters, initialisation |

An instruction is atomic: a failed `require!` or an overflow undoes all of it.
What interleaves are instructions, sent by players, the keeper, the oracle and
anybody (the janitor), against one `Config`, one pot vault and one ANSEM vault.

### The keeper (`keeper`)

| part | state it keeps | operations |
|---|---|---|
| crank (`crank/loop.ts`, `decide.ts`, `actions.ts`, `service.ts`) | when it first saw an unanswered oracle request | reads the configuration and the round, chooses one action, carries it out in several transactions |
| janitor (`janitor.ts`) | none | closes old rounds every so many ticks |
| treasury (`actions.ts`, `buyback.ts`, `floor.ts`) | ANSEM inventory and SOL wallet; ticks since the last buyback | pays settled rounds, buys the inventory back, keeps the payout floor near the market on a timer of its own |
| read side (`read/`) | the last snapshot | serves snapshots and events to the app |

Any call can fail, with or without having taken effect, and the process can
restart between any two transactions.

### SDK and app (`packages/sdk`, `app`)

| part | state it keeps | operations |
|---|---|---|
| instruction builders, IDL | none | name an instruction's accounts; anchor's resolver derives the rest |
| readers (`accounts.ts`) | none | fetch an account; a failure is `null` |
| stake client (`lib/writes.ts`) | session key, the stake it is landing | `enterRound`, `gaslessStake` |
| controls (`PlayControls.tsx`, `use-player-state.ts`) | the position as last read, the state of the round it names, a transaction under way | stake, claim and refund buttons |
| board (`use-reveal.ts`, `keeper-client.ts`) | the last snapshot, the show that is on, its timers | reveal of a draw, sweep of an empty round, replay |

### What is hard, and what makes it correct

* *Commingled lamports.* Idle escrow, the live pot and refundable stakes of
  cancelled rounds share a vault. Correct: it can always pay all three.
* *One ANSEM vault, four numbers about it* (rollover, obligations, entitlement,
  claimed), written at the swap, drawn down with saturating arithmetic by claims
  and moved by the janitor. Correct: the numbers agree to the unit, the vault
  backs them, and rounding never leaves a claimant short.
* *One miner position for all rounds*, wiped by the next stake; zeroed stakes
  are the only replay guard. Correct: the books of a round are the sum of its
  players' positions; nobody is paid twice.
* *A draw that cannot be recalled.* The oracle may answer late, twice or never,
  while the admin cancels. Correct: one draw per round, none for a cancelled one.
* *A create gate moved by four instructions.* Correct: rounds are serial.
* *Settings that move under live rounds.* Correct: no setting breaks a type, the
  vault's backing or the swap.
* *Stakes on one chain, money on another.* A stake is checked against a copy of
  the escrow that lags, and debited after its round is over, from a position
  committed at yet another time. Correct: the debit always finds its lamports,
  happens once, and nobody stays locked.
* *Liabilities that grow with time* (BEEF bonus) against a vault that does not.
* *A crank that crashes, retries and reads stale state*, and money loops feeding
  each other. Correct: every round ends in a claim or a refund, and is paid.
* *Pages that act on what they last read.* Correct: no button forfeits a stake,
  a resend never stakes twice, and no timer draws on another round's board.

`PROJECT.json` lists each hazard at its line, with the properties that cover it.

## 2. What is modelled

| module | what it is |
|---|---|
| `Sums` | a finite sum as a recursive function |
| `AnsemMath`, `BeefMath` | the payout, emission and bonus arithmetic of `math.rs`, floors and all |
| `DirectGame` | rounds, direct stakes, the draw, the swap, claims, refunds, janitor, idle escrow, admin setters |
| `PayoutLedger` | what the ANSEM side promises: an abstract ledger of earmarks |
| `RoundBook` | what a layer above sees of the game: rounds, stakes and pots without the money |
| `BeefLayer` | stamp, roll, claim and sweep of BEEF, on top of `RoundBook` |
| `ProgramInterface` | the accounts of every instruction of the program, where the SDK's committed IDL differs from it, and what delegation lets an instruction reach |
| `InstructionBuilders` | the SDK's 35 builders, the resolver that completes what they pass from the IDL, and whether the program takes the result |
| `EscrowGame` | escrow, rounds and positions that move between L1 and the rollup |
| `KeeperCrank` | the crank and the janitor over `EscrowGame`: ticks, failures, restarts |
| `KeeperTreasury` | paying rounds from the inventory, buyback, floor refresh, against a market that moves |
| `RevealShow` | what the board shows of a round's end |
| `PlayControls` | one player's buttons, and the reads they go by |
| `StakeClient` | entering a round and landing one stake, over calls that lie |
| `MCDirectGame`, `MCBeefLayer`, `MCEscrowGame`, `MCOffChain` | the instances TLC checks |
| `SumsTheorems` | lemmas about sums and floored shares |
| `DirectGameProofs`, `DirectGameBooks` | theorems about `DirectGame` |
| `BeefLayerProofs` | theorems about `BeefLayer` |
| `EscrowGameProofs`, `EscrowGameBooks` | theorems about `EscrowGame` |
| `KeeperCrankProofs` | theorems about the game run by the keeper (`MCEscrowGame`'s specification, for every size) |
| `OffChainProofs` | theorems about the components off the chain (`MCOffChain`'s specification, for every size) |

### The direct game and BEEF

`DirectGame` keeps the program's names. Its variables are the accounts:
`config` has the fields of `Config` that the instructions move, `params` those
(and those of `JackpotConfig`) that only setters write; `round` and `miner` are
the account maps, `NoRound` being an account that does not exist; `pot_vault`,
`treasury` and `payout_vault` are balances; `oracle` is the set of rounds whose
randomness may be delivered, from which nothing is ever removed, so a delivery
can be late and can repeat; `now` is the cluster clock. Each instruction is one
action, its guards the `require!`s and account constraints, and each is enabled
for any sender: signers are not modelled.

Randomness is a draw: the winning square, a number per square and a trigger
number, which is all the program reads off the 32 bytes. It is chosen freely
when the draw is delivered. Amounts are plain naturals; the program's products
are taken in `u128` and its sums are checked, so nothing wraps. Subtractions
that would go below zero would show as `TypeOK` failing.

`PayoutLedger` has a rollover, an amount owed per round and a vault, and three
steps: proceeds arrive and are earmarked in full, a payment comes out of its own
round's earmark, a round forfeits its remainder to the rollover. `DirectGame`
refines it with `owed` being the unclaimed entitlement of the claimable rounds.

`RoundBook` has the cursor, each round's phase and pot, and for each player the
stamped round and the lamports held in it; the draw, the clock and the limits on
a stake are free. `DirectGame` refines it. `BeefLayer` instantiates it with its
own variables of the same names: a step is one of the book's (`Play`, which the
layer only watches) or one of the layer's own. BEEF instructions read the
round and the position and write neither, so nothing else couples the two; since
`DirectGame`'s steps are the book's, what holds of `BeefLayer` holds on top of
it. `total_owed`, `minted_total` and `beef_miner` are the program's accounts;
`emission` is `BeefRound.emission`, `Unstamped` where there is no such account;
`beef_vault`, `beef_treasury` and `wallets` are balances that together are the
token's supply. `params` are the fields `set_beef_params` moves. Anybody may send
BEEF to the vault (`Donate`). `init_beef` is taken to run before the first
round.

### The escrow game and its keeper

`EscrowGame` has the same accounts seen from the other engine, and where they
are: `rounds_away` and `miners_away` are delegated, that is, owned by the
delegation program on L1 and live on the rollup. There is one copy of an account
because only one can be written at a time: `OnL1` and `OnRollup` say, from the
accounts `ProgramInterface` lists for the instruction, on which chain it can run.
The escrow is never delegated; the rollup's stake reads `clone`, which is
brought up to date at any time or not at all (`Refresh`). A join does not read
the round, as in the code. `commit_miner` and `commit_round` are open to anybody
from the deadline on. The squares of a position are summed up; a claim is counted
in the lamports staked for it (what it pays is `AnsemMath`'s), so "claims fit"
means that what was claimed and what may still be is at most the pot.

Two specifications. `Spec`: anybody sends any instruction on its own.
`ClientSpec`: the app enters a round in one transaction (`Enter` is
`join_round` and `delegate_miner`) and the swap is sent only when every stake is
debited, as `finalizeSettled` does; everything else, commits and reconciles
included, is still anybody's. The difference matters. Under `Spec` a player may join without
delegating, be reconciled before staking anything and join the same round again:
`reconcile_miner` then finds the round already reconciled and skips the debit of
what was staked since (`round_entry.rs:119`). `stake.rs:80` has the case in mind
but not the second join. The vault then backs less than the program says it owes,
so the books are stated of `ClientSpec`.

`KeeperCrank` extends `EscrowGame` with the process: `pc` is where the tick is,
`seen` what it has read, `todo` the wallets it has still to deal with, `since`
the grace clock of `TickState`. A tick is a sequence of reads and sends, and
between any two of them players, the oracle, the clock and the janitor move.
`decideAction` is `decide.ts`. A `Send` takes effect, or is refused by the
chain's guard and throws; a throw ends the tick and drops what it learnt, the
new grace clock included, as `loop.ts` does. On top of that come failures,
bounded by `MaxFaults`: a call that fails before the chain saw it, a call that
took effect and whose answer is lost, a read that fails and looks like "no
round", a restart that empties the memory. `Joined` reads the roster from L1;
`CommitOne` skips, commits or fails one wallet at a time, and the round goes only
when none failed. In direct mode the round stays on L1, and a stake is a pot
that grows. `KSpec` is the keeper with players who enter a round only while it
runs; `LateSpec` lets them enter whenever `join_round` does.

### Money, pages and builders

`KeeperTreasury` runs two loops over one state: the main loop (`leg` says where
it is, `amount` what it carries) pays a settled round from the inventory if the
inventory suffices and the payout is above the floor, and buys back every
`Cadence` completed ticks; the floor loop quotes and sends. The market moves
between any two steps, a quote may be worthless, any leg may fail.

`RevealShow` receives snapshots: every change of the keeper's state may arrive
or be missed, and the one fetched at the start may arrive last. A show is a set
of `timers` that fire in order; `Cleared` is the cancellation every new show
begins with. `PlayControls` is a player, a page and the program's position:
reads take their answer at one time and arrive at another, in any order; `Offer`
and `stakeBlocked` are the page's own conditions; the program's side is
`direct.rs`'s stamping of the position. `StakeClient` is `writes.ts`: what became
of a transaction is known only by reading, and reads fail.

`InstructionBuilders` has each builder's arguments and accounts as the SDK
passes them; `Resolve` derives one more address whose seeds are known, in any
order. It finds out whether `accountsPartial` was given enough.

What a builder names is not always what the program takes. The IDL the SDK
builds against is committed, is the interface of the *deployed* program
(`sync-idl.mjs:19`), and is behind the program of this repository, as comments
say where they wait for the upgrade (`actions.ts:244`, `keeper/src/read/jackpot.ts:25`).
`ProgramInterface` has the program's rows, which are the IDL's but for these:

| instruction | what the program takes and the IDL lacks | builder |
|---|---|---|
| `execute_swap_mock`, `execute_swap_real` | `jackpot_config` (`swap.rs:115`, `250`) | `executeSwapMockIx`, `executeSwapRealIx` |
| `init_beef` | `beef_treasury` (`beef.rs:67`), a new curve in place of `divisor` (`lib.rs:205`) | `initBeefIx` |
| `set_beef_params` | the new curve (`lib.rs:216`): the arguments sent are 8 bytes short | `setBeefParamsIx` |
| `stamp_beef` | `beef_mint`, `vault_authority`, `beef_treasury`, `token_program`, and `beef_vault` writable (`beef.rs:163-184`) | `stampBeefIx` |
| `set_fee_bps`, `init_jackpot_config`, `set_jackpot_params` | everything (`lib.rs:104`, `111`, `115`) | none |

A `Call` therefore carries both rows. The resolver works on the IDL's, and
`Takes` compares what it builds with the program's; the order of the accounts,
equal in both, is left out. `Waiting` are the five calls the program refuses until
the SDK is synchronised. The keeper sends two kinds of them, the swap and the
stamp, so against this program a settled round waits for the SDK: the models of
the keeper send what the synchronised SDK will. The IDL's `BeefConfig` is the
earlier one, too, so `fetchBeefConfig` would decode the new account wrongly;
decoding is not modelled.

These components share no state with each other. `MCOffChain` therefore runs
one per behaviour, chosen by the initial state, so that one run covers them all.

## 3. What is checked

The systems stop at their bounds, so deadlock is not an error in any run.

| run | specification | checks | bounds |
|---|---|---|---|
| `direct_rounds` | `QuietSpec` | `Serialized`, `StakesBooked`, `LedgerExact`, `DrawFinal`, `RefundsKept`, `ImplementsLedger`, `ImplementsBook` | 2 squares, 2 players, 2 rounds, 4 clock values |
| `direct_vault` | `Spec` | `PotVaultSolvent` | 2 squares, 2 players, 2 rounds, 2 idle lamports |
| `direct_rounding` | `QuietSpec` | `ClaimsCovered` | 3 squares, 2 players, stakes of 1 and 2, two bands |
| `direct_admin` | `Spec` | `TypeOK`, `VaultBacksLedger`, `HalfToJackpot` | 1 round, three settings for every setter |
| `direct_band` | `Spec` | `ClaimedWithinEntitlement`, violated | as `direct_rounding` |
| `beef_flat` | `Spec` | `SupplyMetered`, `StakesFit`, `SharesBacked` | 2 players, 2 rounds, pots up to 3, a cap of 10, gifts of 2, no bonus |
| `beef_bonus` | `Spec` | `TypeOK`, `RollsAddTheirShare`, `BonusEarnedOnce`, `StampsFindStakers` | 2 players, 2 rounds, pots up to 2, 3 clock values, two rates and caps |
| `beef_backing` | `Spec` | `VaultCoversOwed`, violated | as `beef_bonus` |
| `game` | `MCSpec` | `TypeOK`, `EscrowBacked`, `BudgetHolds`, `ClaimsWithinPot`, `SwapGateOpens`, `KeeperMinersHomeFirst`, `KeeperLockHasExit`, `KeeperRoundsFinish`, `KeeperLocksReleased` | 2 players, 2 rounds, balances of 1, pots of 2, 1 fault |
| `keeper_late` | `LateSpec` | `LockHasExit`, violated | 1 player, 2 rounds, no fault |
| `offchain` | `Spec` | `BuiltAndTaken`, `SignersPassed`, `RoundsPaid`, `FloorTracks`, `NeverPaidNothing`, `NoStraggler`, `GoldLandsRight`, `BoardHandedBack`, `NeverForfeits`, `AlwaysOffered`, `NoPhantomSession`, `OneStakePerCall` | below |
| `controls_null` | `LossySpec` | `NeverForfeits`, violated | 2 rounds, 2 reads in flight |

### The direct game and BEEF

Two rounds are what it takes for a rollover to be carried and eaten, for a
cancelled round's refunds to be outstanding while another pot is swapped, and
for a player's position to move on. Two players give shares that do not divide;
units of one lamport and draws like 3333 basis points make every division
round. Three squares put two rounded returns in one claim. The jackpot trigger
both fires and does not, and the bite is both capped and not. Setters include a
fee and a band the program refuses.

`QuietSpec` is `Spec` restricted to an admin who moves the return band only
while no round is claimable. `LedgerExact`, `ClaimsCovered` and the refinement
need it: `direct_band` shows why. A claim reads the band from `Config` as it is
at the claim, not as it was at the swap, so after `set_return_band` a claim can
exceed the entitlement that `state/round.rs:26` calls the most claimants can
ever draw. Everything else holds without the restriction.

In the BEEF runs the emission is cut by the cap in the second round, shares do
not divide among the stakers, and the admin moves the curve between stamps. The
clock runs past the activity window, so time is both paid and skipped, and the
cap on the bonus is lowered below bonuses already earned. `beef_flat` has no
bonus (`tick_bps = 0`): then the liability ledger covers every balance and every
share still to be rolled in, and the vault covers the ledger. With a bonus it
does not: `accrue_bonus` books the bonus as owed and nothing mints it, so one
tick after a roll `total_owed` is above the vault, against what `sweep.rs:98` and
`state/beef.rs:34` say, and the claims that come first are paid out of what
backs the later ones (`beef_backing`).

### The escrow game and its keeper

`game` is the union of two systems, told apart by the initial state. Where
`pc = "off"` there is no keeper: `ClientNext`, all accounts empty at the start,
deposits and withdrawals included. Everywhere else the keeper runs, with or
without direct mode, deposits being made already. The five properties of the
vault are checked in both, those of the keeper where there is one. In the
behaviours without a keeper only one player goes into the second round
(`SecondRoundForOne`): the cut keeps the run within minutes, and two players
over two rounds are covered by the keeper's behaviours. The constraint prunes
only states with `pc = "off"`, of which no liveness is asked.

Two players let one be committed, reconciled or refunded while the other still
stakes; two rounds let a lock, a clone and a claim cursor outlive their round.
With one lamport each a debit that comes twice or misses its lamports shows at
once. One fault anywhere is a crash, a lost answer or a failed read at every
point of every tick of both rounds. After it the next tick starts from the reads
again; only the grace clock tells such a keeper from a fresh one.

*Fairness.* Weak fairness of the keeper's `Tick` (the loop sleeps and goes on
whatever a tick threw), of the grace clock and of each deadline's passing. The
oracle, players and the janitor promise nothing, and faults stop coming.
`KeeperRoundsFinish`: every round ends swapped or cancelled.
`KeeperLocksReleased`: every player who joined is unlocked, or the round is
cancelled and the position is home for the refund, which is the player's to send.

`keeper_late` drops the assumption that players enter only a running round. The
round is cancelled empty and reaped by the janitor while still the current one;
`join_round` accepts it, the delegation goes with it, and `commit_miner` wants
the account of a round that is gone. `round_entry.rs:19` promises that no joiner
is locked for good. The app does not offer entry then; the program allows it.

### Off the chain

| component | instance | why it is enough |
|---|---|---|
| treasury | a market of 100 and 40 ANSEM per SOL of 10 lamports, pots of 20, stock for one round at the higher rate, 3 rounds, 2 moves, 2 troubles, buyback every 2 ticks | the inventory runs short, the floor is above and below the market, a quote is refused and repeated, a swept SOL is stranded in the wallet |
| reveal | 2 cells, rounds 2 to 4, 1 replay, a stored round 1 | a show of one round meets the end of the next and the opening of the one after |
| controls | 2 rounds, 2 reads of each kind in flight | a read overtakes another and is overtaken by a transaction |
| client | 2, 2 and 3 tries for 8, 8 and 12, 3 calls | each loop succeeds at its first, at its last and at no try |
| builders | all 35, every order of derivation, five of them behind the program | exhaustive |

*Fairness.* Both treasury loops, which are timers that swallow what a pass
throws; the reveal's timers; the page's polls and the arrival of what they read;
the resolver. Clicks, snapshots, the market and the rounds promise nothing.
`RoundsPaid` is stated with its exception: a settled round waits for ever only
if the inventory is short and the treasury is at or under the buyback's minimum,
because swept SOL can be stranded in the keeper's wallet when the purchase fails
(the buyback does not look there again). `NeverPaidNothing` holds although a
worthless quote can arrive between two good ones, since the floor's own quote is
discarded at zero.

`controls_null` adds reads that fail. `fetchMiner` turns a failure into `null`
and a resolved `null` counts as loaded, against `use-player-state.ts:41`: a
player with an unresolved round is taken for a new one, and a stake wipes it.

### Assumptions a reader should know

* Off the chain, `PlayControls` opens the next round only after the page has read
  the position since the last transaction (`UpToDate`): the page polls every 6 s
  and a draw takes longer. Without it an old read can unblock the button.
* `StakeClient`: a stake that is sent takes effect before the next read or not at
  all (rollup slots are milliseconds, the read comes 2.5 s later). A send that
  lands after its read gave up would be doubled by the resend.
* `KSpec`: players enter while the round runs on the rollup.
* Rounds' deadlines and the keeper's clock agree on what is past.
* A round's duration is a natural number. `set_round_duration` takes a signed one
  unchecked (`admin.rs:15`); a negative duration opens a round past its deadline,
  as zero does, and brings the end of its claim window forward, as a shorter
  window does.

## 4. What is proved

For every board size, number of players and rounds, every set of amounts, draws
and settings that meets the module's assumptions:

### `DirectGame`

* `TypeCorrect`: `Spec => []TypeOK`. It is inductive as it stands; the delicate
  subtractions are the bite from the rollover and the fee from the pot.
* `SerialRounds`: `Spec => []Serialized`, inductive with `TypeOK`. The part about
  ids above the cursor is the strengthening: without it a new round could land
  on a live one.
* `VaultBacked`: `Spec => []VaultBacksLedger`. Each swap brings as much as it
  books and each claim takes out of the ledger at most what leaves the vault.
* `DrawsAreFinal`: `Spec => DrawFinal`, from the invariant that a round still
  waiting for its draw has none.
* `BooksAreStakes`: `Spec => []StakesBooked`, inductive with the two before it
  and `MinersPast` (no miner is stamped with a round above the cursor, so a new
  round starts with nobody on it). A stake moves one entry of three sums; that
  no other round is disturbed is `Serialized`.
* `PotVaultIsSolvent`: `Spec => []PotVaultSolvent`. The step that matters is the
  cancellation, which turns a whole pot into refunds: that the refunds add up to
  the pot is `BooksAreStakes` with the two sums over squares and players
  exchanged.
* `HalfIsLeft`: `Spec => []HalfToJackpot`, from `BooksAreStakes` and
  `NonjackpotAtMostHalf`.
* `RefundsStayPayable`: `Spec => RefundsKept`, from the invariant that a pot
  covers each stake on it, so the janitor cannot take a cancelled round for an
  empty one.
* `NonjackpotAtMostHalf` and the lemmas under it: the return of the losing
  squares, floored, is at most half the proceeds for any stakes and any band the
  setter accepts.
* `ClaimsAreCovered`: `QuietSpec => []ClaimsCovered`. The invariant is `Claims`:
  the books above, that nothing was claimed of a round that is not claimable (so
  a swap starts from zero), and cover itself. At the swap it is arithmetic
  (`SharesFit`): a player's return and share of the jackpot are each floored, and
  `SumFloors` puts their sum below the floor for the round as a whole;
  `BooksAreStakes` says the shares are shares of it. Afterwards a claim moves its
  payout from one side to the other. `EntitlementIsTheMost` follows: moving the
  band under a claimable round, as in `direct_band`, is the only way to exceed an
  entitlement.
* `LedgerIsExact`: `QuietSpec => []LedgerExact`. The saturating subtractions of
  claim and janitor never saturate, because of `Claims`.
* `GameImplementsLedger`: `QuietSpec => ImplementsLedger`. A swap is a `Fund` of
  the abstract ledger, a claim a `Pay`, the janitor's close a `Forfeit`,
  everything else a stutter. Without `Claims` a claim might take more than its
  own round's earmark, which `Pay` does not allow.
* `GameImplementsBook`: `Spec => ImplementsBook`, for any settings: what
  `BeefLayer` assumes of the rounds underneath is what the game does. Needs
  `Serialized` (a round is created only when none is live) and `MinersPast`.

### `BeefLayer`

* `BeefTypeCorrect`: `Spec => []TypeOK`, inductive together with
  the types of the rounds underneath and the validity of the settings (a zero
  `secs_per_tick` would divide by zero).
* `SupplyIsMetered`: `Spec => []SupplyMetered`. The emission is cut at the cap's
  remainder before it is split, so the curve's parameters do not matter.
* `RollsAreExact`: `Spec => RollsAddTheirShare`, from `DilutionIsSafe`: the
  diluted bonus, floored, times the joined balance is at most the old bonus times
  the old balance, so what is floored after it can only be less.
* `LayerInv` is the invariant of the rest: the types, `BookOrder` (rounds above
  the cursor are unused, no position is stamped with one), `StakesFit`,
  `StampedAreSwapped` (an emission belongs to a round whose swap is over) and
  `TicksPast` (no bonus cursor is ahead of the clock).
* `StakesAlwaysFit`: `Spec => []StakesFit`. By `BookOrder` a new round starts
  with nobody on it.
* `StampsComeInTime`: `Spec => StampsFindStakers`. Only the newest round is
  stamped, and by `BookOrder` no position is ahead of it.
* `BonusIsEarnedOnce`: `Spec => BonusEarnedOnce`. By `TicksPast` a cursor only
  moves forward; what is accrued is bounded by the ticks it passes.
* `SharesAreBacked`: `Spec => []SharesBacked` for settings that pay no bonus
  (`FlatSettings`, which the constants of `beef_flat` satisfy and those of
  `beef_bonus` do not). A stamp books its emission at once and shares it out
  later; that the shares, floored one by one, stay below it is `SumFloors` with
  `StakesAlwaysFit`. The hypothesis cannot be dropped: with a bonus
  `beef_backing` finds the vault below the ledger.

### `EscrowGame`

`EscrowTypeCorrect` (`Spec => []TypeOK`) holds whatever anybody sends. The
others are of `ClientSpec`, for the reason given in section 2, and are proved in
layers, each step lemma citing the layers below it:

1. `RoundsInOrder`: at most the current round is unswapped, none is above the
   cursor, a drawn round is past its deadline, and no stamp, lock or reconcile
   mark is ahead of the cursor. It says which round a step can be about.
2. `LocksInOrder`: a lock and the position's stamp name the same round, and until
   its deadline the position is on the rollup; a debit already made is of a
   round past its deadline; a clone that shows a lock on a live round shows no
   more than the balance. This is why a lagging clone is safe: the only thing
   that lowers a balance is a withdrawal, which the lock forbids, or the debit
   of the same round, after which that round takes no stake.
3. `BudgetHolds` (`StakesStayPayable`): a stake was within the clone's balance,
   hence within the escrow's, and nothing lowers it until the debit.
4. `PotsCover`: a pot is at least what its players' positions say. Needed where
   a pot stops being live: at a cancellation its debited stakes become
   refunds, and at a swap its stakes become claims.
5. `EscrowBacked` (`VaultBacksEscrows`), `ClaimsWithinPot` (`ClaimsFitThePot`,
   for which a position stamped with a swapped round must keep its stake until
   the claim cursor has passed it) and from the first `SwapGateOpens`
   (`SwapsAreNotStuck`).

### `KeeperCrank`

The theorems are of `MCSpec`, the specification of the run `game`, without the
run's constraint: every number of players, rounds and faults, with and without
direct mode. The invariant is `Kept`: the books of `EscrowGame` and, where there
is a keeper, `KeeperInv`.

1. *The books survive the keeper.* `StepGame`: each step of the keeper, or around
   it, is a step of `ClientSpec` or a direct stake, and `DirectBooks` shows that
   a direct stake disturbs nothing. The one guard of `ClientSpec` that is not the
   program's, swapping only after every debit, has to be earned:
   `SwapAfterDebits`, from the tick's memory. Hence `KeeperKeepsVault`,
   `KeeperKeepsDebits` and `KeeperSwapsAreNotStuck`.
2. *What a tick remembers stays true while others move* (`Memory`). `SeenLate`:
   from the decision on, a tick that brings players back works on a round past
   its deadline; deadlines do not come back. `RosterKept`: whoever is still to be
   brought back is on the list or has made `allReady` false, and whoever is still
   locked is on the list of debits. Nobody joins behind the list's back, as
   players enter running rounds only and this one has ended.
3. *Homing*: `MinersHomeFirst`, and the account of a round on the rollup exists.
   Most steps let nobody in and take no round home (`Calm`); the commit of a
   round is the exception, and `RosterKept` is what it needs. Hence
   `MinersComeHomeFirst`, and with `LocksInOrder` `LocksHaveExits`.

`ENABLED` occurs in the keeper's sends (a refused transaction). The proofs treat
it as unknown: they hold whether a send is refused or not.

### Off the chain

The theorems are of `MCOffChain`'s `Spec`. Since a behaviour runs one component,
each invariant below is kept by its component's steps and by the others' standing
still; none depends on the fairness in `Spec`.

* `NoSessionWithoutToken` and `EachCallStakesOnce`, from `ClientInv`: between
  calls the rollup holds exactly what was begun; during one it holds that or one
  less, less until a send that counts; and the target of the call is what it
  held before plus one. The resend is safe because it is decided by comparing
  with that target, read once, rather than by what a send answered.
* `NoTimerOutlivesItsShow` and `TheGoldLandsRight`, from `RevealInv`: the round
  last played is that of the live board once that is drawn, and a settle show
  is of the round of whichever board is up. Raising a show drops the timers of
  the one before (`RaiseTimers`), which is what makes the first inductive.
* `StakesNeverForfeit`, from `ControlsInv`: as long as the position holds stakes
  of an earlier round, everything the page has read or will read shows them,
  and no stake into the current round is on its way. It uses `UpToDate` where a
  round opens, and reads that do not fail; `controls_null` shows the second is
  needed.
* `RoundsArePaidSomething`, from `TreasuryInv` (the floor and the update under
  way are always the target of some market, never a discarded zero). Its
  hypothesis `FloorBites` says every pot is worth at least one unit at every
  market's floor; the constants of `offchain` satisfy it. A pot below it is paid
  nothing by the code, too: the floor, rounded down, then asks for nothing.
* `SignersAreThePassed`. The builders have no parameters, so here the theorem
  and the run say the same; the lemma under it (`EveryBuilder`) is about the
  table of calls and not about the order of derivation.

### Assumptions, and what is out of reach

The assumptions are the named `ASSUME`s of `AnsemMath`, `DirectGame`, `BeefLayer`,
`EscrowGame`, `KeeperCrank` and `MCOffChain` (the constants are naturals, the
limits make sense); TLC evaluates them in every run. Two theorems have a
hypothesis of their own, `FlatSettings` and `FloorBites`, discussed above. The
prover cannot do induction over a recursive definition directly: the sum lemmas
instead use induction on sets of naturals (`NatSetInduction`), stated once in
`SumsTheorems`.

Every invariant and action property a passing run checks, and both refinements,
are proved. What is model-checked only is liveness: `KeeperRoundsFinish` and
`KeeperLocksReleased` of the keeper, and `BuiltAndTaken`, `RoundsPaid`,
`FloorTracks`, `BoardHandedBack` and `AlwaysOffered` off the chain. Liveness
under fairness, and what depends on `ENABLED`, are out of the prover's reach and
stay with TLC, on the bounds of section 3. So does the termination of the loops
the theorems about the client speak of: that they do no harm is proved, that
they end is not claimed.

## 5. Not modelled

Left out for good:

* *Accounts and widths*: signers and account validation beyond the interface,
  PDA seeds, rent, token decimals, integer widths (the program checks its sums
  and takes its products in 128 bits), the hash functions, program entry and
  error codes, statistics counters.
* *Devnet-only setters*: `close_config` and `set_round_cursor`, marked so in the
  source.
* *The read side's derived data* (leaderboard, jackpot figures, the event diff):
  computed from a snapshot, and no client acts on it. What reaches the board is
  `RevealShow`'s input.
* *Code without a caller*: `claim-gate.ts` and `session-store.ts` are used by
  their tests only and left out. `enterRound` and `gaslessStake` have no other
  caller at this commit either; they are modelled (`StakeClient`), as the client
  side of the escrow game.
* *Rendering, start-up, logging, operator scripts*: no protocol state, or run by
  hand once in an order a person checks.
* *Two engines over one position*: `join_round` and `stake_direct` write the same
  `MinerPosition`. A deployment uses one of them (`directMode`); nothing in the
  code says how they would be mixed, so a model would have to invent it.

Behaviours met while modelling that no property is about:

* The swap's gate is said to refuse until every staker is reconciled
  (`round_entry.rs:86`). It compares sums, and the stakes of a cancelled round
  that nobody has taken back yet are slack in them: with enough of it a swap
  could pass over an undebited stake. The keeper reconciles everybody first, and
  so does `ClientSpec`.
* A round whose frames were all missed while it filled looks empty to the page,
  which then shows a sweep for a round that had stakes (`use-reveal.ts:198`).
* The grace clock is not tied to a round (`loop.ts:41`): a tick that throws keeps
  it, so a pending round may inherit the time of the one before and be
  cancelled early. That costs the draw, not the lamports.
* At a market rate of one base unit per SOL `computeFloorUpdate` rounds the floor
  down to zero.

What could be added: a specification of the escrow game as a refinement of
`PayoutLedger` (its ANSEM side is the direct game's, and is not modelled again),
and a bound on how far the BEEF ledger can run ahead of its vault when a bonus
is paid, in terms of the cap on the bonus.
