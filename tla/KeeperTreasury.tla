---------------------------- MODULE KeeperTreasury ----------------------------
(***************************************************************************)
(* The money side of the keeper in real mode: the main loop pays a settled *)
(* round from the keeper's ANSEM inventory and, every so many ticks, buys  *)
(* the inventory back from the treasury (keeper/src/crank/actions.ts,      *)
(* buyback.ts); beside it a timer keeps the payout floor near the market   *)
(* (floor.ts).  The market moves between any two steps.                    *)
(***************************************************************************)
EXTENDS Integers

CONSTANTS
  Sol,                \* lamports in one SOL
  Rates,              \* ANSEM units the market may give for one SOL
  Pots,               \* lamports a settled round may hold
  FeeBps, MinSol, KeepSol,
  Cadence,            \* BUYBACK_TICK_CADENCE
  Stock,              \* ANSEM in the keeper's inventory at the start
  MaxSettled,         \* bound: rounds that settle
  MaxMoves,           \* bound: how often the market moves
  MaxTrouble          \* bound: failed calls and worthless quotes

VARIABLES
  market,             \* ANSEM for one SOL on Jupiter
  settled,            \* pot of the round that waits for its swap, 0 for none
  floor,              \* config.min_swap_rate
  inventory,          \* ANSEM in the keeper's token account
  treasury, wallet,   \* lamports of the treasury and, from it, of the keeper
  leg,                \* where the main loop is
  amount,             \* what it carries to the next leg: ANSEM or lamports
  ticks,              \* completed ticks since the last buyback
  update,             \* the floor loop: the new floor it is sending, -1 for none
  left                \* what is left of the bounds

world == <<market, settled>>
purse == <<inventory, treasury, wallet>>
tvars == <<market, settled, floor, inventory, treasury, wallet, leg, amount, ticks, update, left>>

Target(rate) == (rate * 9200) \div 10000
Low(rate)    == (Target(rate) * 9500) \div 10000
High(rate)   == (Target(rate) * 10500) \div 10000

Init ==
  /\ market \in Rates /\ floor = Target(market)
  /\ settled = 0
  /\ inventory = Stock /\ treasury = KeepSol /\ wallet = 0
  /\ leg = "sleep" /\ amount = 0 /\ ticks = 0
  /\ update = -1
  /\ left = [settles |-> MaxSettled, moves |-> MaxMoves, trouble |-> MaxTrouble]

(* The outside world *)

Use(bound) == left[bound] > 0 /\ left' = [left EXCEPT ![bound] = @ - 1]

MarketMoves ==
  /\ Use("moves")
  /\ \E rate \in Rates \ {market} : market' = rate
  /\ UNCHANGED <<settled, floor, purse, leg, amount, ticks, update>>

RoundSettles ==
  /\ settled = 0 /\ Use("settles")
  /\ \E pot \in Pots : settled' = pot
  /\ UNCHANGED <<market, floor, purse, leg, amount, ticks, update>>

(* Jupiter's answer: the market's, or a worthless one from a bad route.    *)
Worth(lamports) == (lamports * market) \div Sol
Quotes(lamports) == {Worth(lamports), 0}
Quoted(lamports, out) ==
  IF out = Worth(lamports) THEN UNCHANGED left ELSE Use("trouble")

-----------------------------------------------------------------------------
(* Paying a settled round: realExecuteSwap *)

Fee(lamports) == (lamports * FeeBps) \div 10000
Net(lamports) == lamports - Fee(lamports)

GoTo(next, carried) ==
  /\ leg' = next /\ amount' = carried
  /\ UNCHANGED <<market, floor, update>>

Tick ==
  /\ leg = "sleep"
  /\ IF settled = 0
     THEN GoTo("ticked", 0) /\ UNCHANGED left
     ELSE \E out \in Quotes(Net(settled)) : Quoted(Net(settled), out) /\ GoTo("inventory", out)
  /\ UNCHANGED <<settled, purse, ticks>>

ShortThrows == "sleep"                                      \* mutant of WhenShort
WhenShort == "ticked"

CheckInventory ==
  /\ leg = "inventory"
  /\ IF inventory < amount THEN GoTo(WhenShort, 0) ELSE GoTo("send", amount)
  /\ UNCHANGED <<settled, purse, ticks, left>>

(* execute_swap_real refuses a payout below the floor, and the tick throws.*)
SendSwap ==
  /\ leg = "send"
  /\ IF amount >= (Net(settled) * floor) \div Sol
     THEN /\ inventory' = inventory - amount
          /\ treasury' = treasury + settled
          /\ settled' = 0
          /\ GoTo("ticked", 0)
     ELSE GoTo("sleep", 0) /\ UNCHANGED <<settled, inventory, treasury>>
  /\ UNCHANGED <<wallet, ticks, left>>

(* Only a tick that did not throw counts towards the buyback.              *)
CountTick ==
  /\ leg = "ticked"
  /\ ticks' = (ticks + 1) % Cadence
  /\ GoTo(IF ticks' = 0 THEN "buyback" ELSE "sleep", 0)
  /\ UNCHANGED <<settled, purse, left>>

-----------------------------------------------------------------------------
(* Buying back: runBuyback *)

Sweep ==
  LET sweep == treasury - KeepSol IN
  /\ leg = "buyback"
  /\ IF treasury > MinSol /\ sweep > 0
     THEN /\ treasury' = treasury - sweep /\ wallet' = wallet + sweep
          /\ GoTo("buy", Net(sweep))
     ELSE GoTo("sleep", 0) /\ UNCHANGED <<treasury, wallet>>
  /\ UNCHANGED <<settled, inventory, ticks, left>>

Buy ==
  /\ leg = "buy"
  /\ wallet' = wallet - amount
  /\ inventory' = inventory + Worth(amount)
  /\ GoTo("sleep", 0)
  /\ UNCHANGED <<settled, treasury, ticks, left>>

(* Any leg may fail.  The tick's throw and the buyback's are both caught,  *)
(* and an inventory that cannot be read counts as an empty one.            *)
LegFails ==
  /\ leg \notin {"sleep", "ticked"} /\ Use("trouble")
  /\ GoTo(IF leg = "inventory" THEN WhenShort ELSE "sleep", 0)
  /\ UNCHANGED <<settled, purse, ticks>>

MainLoop == Tick \/ CheckInventory \/ SendSwap \/ CountTick \/ Sweep \/ Buy

-----------------------------------------------------------------------------
(* The floor: runFloorRefreshOnce, one pass at a time *)

OnlyRaised(rate) == floor >= Low(rate)                      \* mutant of InBand
InBand(rate) == Low(rate) <= floor /\ floor <= High(rate)

AnyQuote(rate) == TRUE                                      \* mutant of Usable
Usable(rate) == rate > 0

FloorQuote ==
  /\ update = -1
  /\ \E rate \in Quotes(Sol) :
        /\ Quoted(Sol, rate)
        /\ Usable(rate) /\ ~ InBand(rate)
        /\ update' = Target(rate)
  /\ UNCHANGED <<world, floor, purse, leg, amount, ticks>>

FloorSend ==
  /\ update # -1
  /\ update' = -1
  /\ \/ floor' = update /\ UNCHANGED left
     \/ UNCHANGED floor /\ Use("trouble")
  /\ UNCHANGED <<world, purse, leg, amount, ticks>>

FloorLoop == FloorQuote \/ FloorSend

Next == MarketMoves \/ RoundSettles \/ MainLoop \/ LegFails \/ FloorLoop

(* Both loops keep going; the market and the rounds do as they please.     *)
Spec == Init /\ [][Next]_tvars /\ WF_tvars(MainLoop) /\ WF_tvars(FloorLoop)

-----------------------------------------------------------------------------
(* Properties *)

(* actions.ts:172, "buyback refills between": a round is never paid only   *)
(* if at last the inventory is short and the treasury has nothing to buy   *)
(* with, because its SOL was spent or is stranded in the wallet.  Market   *)
(* and floor drifting apart, or a refused swap, only put it off.           *)
OutOfMeans ==
  inventory < Worth(Net(settled)) /\ treasury <= MinSol

RoundsPaid == <>[](settled # 0) => <>[]OutOfMeans

(* floor.ts: once the market rests, the floor is and stays in its band.    *)
FloorTracks == <>[](floor \in Low(market) .. High(market))

(* floor.ts:51, "a bad route can never zero the floor": a worthless quote  *)
(* at the wrong moment, or two, and still no round is paid nothing.        *)
NeverPaidNothing ==
  [][settled # 0 /\ settled' = 0 => inventory' < inventory]_tvars
=============================================================================
