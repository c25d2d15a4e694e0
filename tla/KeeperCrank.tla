----------------------------- MODULE KeeperCrank -----------------------------
(***************************************************************************)
(* The keeper's crank (keeper/src/crank, service.ts) over the escrow game. *)
(* One tick reads the configuration, reads the current round where it      *)
(* lives, decides on one action and sends its transactions one by one.     *)
(* Between any two of them players, the oracle and the clock move, a call  *)
(* fails with or without having taken effect, or the process dies and      *)
(* comes back with an empty memory.                                        *)
(*                                                                         *)
(* Deadlines and the grace period are events, so the keeper's clock agrees *)
(* with the cluster's on what is past.  Players' deposits are made before  *)
(* the start; direct stakes are only lamports here (see DirectGame).       *)
(***************************************************************************)
EXTENDS EscrowGame

CONSTANT MaxFaults    \* bound: failed calls, lost answers and restarts

ASSUME KeeperBounds == MaxFaults \in Nat

VARIABLES
  directMode,     \* KeeperConfig.directMode: rounds stay on L1
  pc,             \* where the tick is
  seen,           \* what this tick has read
  todo,           \* joined wallets this tick has still to deal with
  allReady,       \* commitToL1: no miner has failed so far
  since,          \* TickState.vrfPendingSinceSec: "none", "waiting" or "over"
  faults          \* how many there have been

keeper == <<directMode, pc, seen, todo, allReady, since, faults>>
kvars == <<vars, keeper>>
chain == vars

NoRoundView == [state |-> "null", delegated |-> FALSE, pot |-> 0, past |-> FALSE]
NothingSeen == [finalized |-> TRUE, current |-> 0, round |-> NoRoundView]

(* Everybody has deposited. *)
Deposited ==
  /\ config = [current_round_id |-> 0, current_round_finalized |-> TRUE,
               total_escrow_balance |-> NumPlayers * MaxBalance]
  /\ round = [r \in RoundId |-> NoRound]
  /\ ended = {}
  /\ miner = [p \in Player |-> [round_id |-> 0, staked |-> 0]]
  /\ escrow = [p \in Player |-> [NoEscrow EXCEPT !.balance = MaxBalance]]
  /\ clone = [p \in Player |-> Shown(escrow[p])]
  /\ rounds_away = {} /\ miners_away = {}
  /\ pot_vault = NumPlayers * MaxBalance

KInit ==
  /\ Deposited
  /\ directMode \in BOOLEAN
  /\ pc = "sleep" /\ seen = NothingSeen /\ todo = {} /\ allReady = TRUE
  /\ since = "none"
  /\ faults = 0
-----------------------------------------------------------------------------
(* Reading *)

Ticking(from, to) == pc = from /\ pc' = to

ReadConfig ==
  /\ Ticking("sleep", "config")
  /\ seen' = [seen EXCEPT !.finalized = config.current_round_finalized,
                          !.current = config.current_round_id]
  /\ UNCHANGED <<chain, directMode, todo, allReady, since, faults>>

(* fetchRoundView goes by ownership: a delegated round is read on the      *)
(* rollup, and an account that is not there (or not readable) is null.     *)
RoundView(r) ==
  IF r = 0 \/ round[r].state = "absent" THEN NoRoundView
  ELSE [state |-> round[r].state, delegated |-> r \in rounds_away,
        pot |-> round[r].pot, past |-> r \in ended]

ReadRound ==
  /\ Ticking("config", "decide")
  /\ \/ /\ seen' = [seen EXCEPT !.round = RoundView(seen.current)]
        /\ UNCHANGED faults
     \/ /\ faults < MaxFaults
        /\ seen' = [seen EXCEPT !.round = NoRoundView]
        /\ faults' = faults + 1
  /\ UNCHANGED <<chain, directMode, todo, allReady, since>>

(* The grace clock this tick works with: it starts at the first tick that  *)
(* sees the round pending and is forgotten when it no longer is.           *)
Grace ==
  IF seen.round.state # "vrf_pending" THEN "none"
  ELSE IF since = "none" THEN "waiting" ELSE since

-----------------------------------------------------------------------------
(* decide.ts *)

WhilePending(grace) == IF grace = "over" THEN "cancel" ELSE "idle"

SettleFirst(s) ==                                           \* mutant of WhenOpen
  IF ~ s.past         THEN "idle"
  ELSE IF s.pot = 0   THEN "cancel"
  ELSE "request"
WhenOpen(s) ==
  IF ~ s.past         THEN "idle"
  ELSE IF s.delegated THEN "joined"
  ELSE IF s.pot = 0   THEN "cancel"
  ELSE "request"

decideAction(s, grace) ==
  IF s.finalized \/ s.round.state \in {"null", "claimable", "closed"} THEN "create"
  ELSE CASE s.round.state = "open"        -> WhenOpen(s.round)
         [] s.round.state = "vrf_pending" -> WhilePending(grace)
         [] s.round.state = "settled"     -> "roster"

(* What runTick returns is kept; idle and await_oracle send nothing. *)
TickDone ==
  /\ pc' = "sleep"
  /\ since' = Grace

Decide ==
  /\ pc = "decide"
  /\ IF decideAction(seen, Grace) = "idle"
     THEN /\ TickDone
     ELSE /\ pc' = decideAction(seen, Grace)
          /\ UNCHANGED since
  /\ UNCHANGED <<chain, directMode, seen, todo, allReady, faults>>

-----------------------------------------------------------------------------
(* Sending.  A transaction the chain takes moves the tick on; one it       *)
(* refuses, or a call that fails or whose answer is lost, throws: the tick *)
(* ends and what it learnt is dropped, the new grace clock too.            *)

Now(r) == r = config.current_round_id         \* the round the tick has read is the current one

Throw ==
  /\ pc' = "sleep"
  /\ UNCHANGED <<directMode, seen, todo, allReady, since>>

Moves(to) ==
  /\ IF to = "sleep" THEN TickDone ELSE pc' = to /\ UNCHANGED since
  /\ UNCHANGED <<directMode, seen, todo, allReady, faults>>

Send(at, tx, to) ==
  /\ pc = at
  /\ \/ tx /\ Moves(to)
     \/ ~ ENABLED tx /\ Throw /\ UNCHANGED <<chain, faults>>

Lost(at, tx) == pc = at /\ tx /\ Throw

(* createAndDelegate.  set_round_duration comes first and changes nothing  *)
(* that is modelled.                                                       *)
CreateTx == Now(seen.current) /\ CreateRound
Create   == Send("create", CreateTx, IF directMode THEN "sleep" ELSE "delegate")

DelegateTx == DelegateRound(seen.current + 1)
Delegate   == Send("delegate", DelegateTx, "sleep")

(* requestSettle and cancelRound *)
RequestTx == RequestSettle(seen.current)
Request   == Send("request", RequestTx, "sleep")

CancelTx == CancelRound(seen.current)
Cancel   == Send("cancel", CancelTx, "sleep")

(* fetchJoinedWallets: the escrows locked in the round, as L1 has them.    *)
Joined(r) == {p \in Player : escrow[p].active_round = r}

ReadRoster(from, to) ==
  /\ Ticking(from, to)
  /\ todo' = Joined(seen.current)
  /\ allReady' = TRUE
  /\ UNCHANGED <<chain, directMode, seen, since, faults>>

(* commitToL1: every miner is tried, and the round only goes after all of  *)
(* them.  A miner already home or stamped with another round is skipped.   *)
Skipped(p) == p \notin miners_away \/ miner[p].round_id # seen.current

DidCommit(p, ready) ==
  /\ todo' = todo \ {p}
  /\ allReady' = (allReady /\ ready)
  /\ UNCHANGED <<directMode, pc, seen, since>>

CommitOne(p) ==
  /\ pc = "miners" /\ p \in todo
  /\ \/ Skipped(p) /\ DidCommit(p, TRUE) /\ UNCHANGED <<chain, faults>>
     \/ ~ Skipped(p) /\ CommitMiner(p) /\ DidCommit(p, TRUE) /\ UNCHANGED faults
     \/ ~ Skipped(p) /\ ~ ENABLED CommitMiner(p) /\ DidCommit(p, FALSE)
           /\ UNCHANGED <<chain, faults>>
     \/ /\ faults < MaxFaults /\ faults' = faults + 1
        /\ CommitMiner(p) \/ UNCHANGED chain
        /\ DidCommit(p, FALSE)

RoundAnyway == TRUE                                         \* mutant of MinersAllHome
MinersAllHome == allReady

MinersDone ==
  /\ pc = "miners" /\ todo = {}
  /\ Moves(IF MinersAllHome THEN "round" ELSE "sleep")
  /\ UNCHANGED chain

CommitRoundTx == CommitRound(seen.current)
CommitBack ==
  \/ seen.current \in rounds_away /\ Send("round", CommitRoundTx, "sleep")
  \/ /\ pc = "round" /\ seen.current \notin rounds_away
     /\ Moves("sleep") /\ UNCHANGED chain

(* finalizeSettled: reconcile everyone, the first failure throws; then     *)
(* swap.                                                                   *)
ReconcileOne(p) ==
  /\ pc = "reconcile" /\ p \in todo
  /\ \/ /\ ReconcileMiner(p) /\ escrow[p].active_round = seen.current
        /\ todo' = todo \ {p}
        /\ UNCHANGED <<pc, directMode, seen, allReady, since, faults>>
     \/ /\ ~ ENABLED ReconcileMiner(p)
        /\ Throw /\ UNCHANGED <<chain, faults>>

SwapOverDebts == pc = "reconcile"                           \* mutant of Reconciled
Reconciled == pc = "reconcile" /\ todo = {}

SwapTx == ExecuteSwap(seen.current)
Swap == Reconciled /\ Send("reconcile", SwapTx, "sleep")

-----------------------------------------------------------------------------
(* The keeper, its failures, and the rest of the world *)

Tick ==
  \/ ReadConfig \/ ReadRound \/ Decide
  \/ Create \/ Delegate \/ Request \/ Cancel
  \/ ReadRoster("joined", "miners") \/ ReadRoster("roster", "reconcile")
  \/ (\E p \in Player : CommitOne(p)) \/ MinersDone \/ CommitBack
  \/ (\E p \in Player : ReconcileOne(p)) \/ Swap

(* A call fails, before the chain saw it or after. *)
CallFails ==
  /\ faults < MaxFaults
  /\ faults' = faults + 1
  /\ \/ pc \notin {"sleep", "miners"} /\ Throw /\ UNCHANGED chain
     \/ Lost("create", CreateTx) \/ Lost("delegate", DelegateTx)
     \/ Lost("request", RequestTx) \/ Lost("cancel", CancelTx)
     \/ Lost("round", CommitRoundTx)
     \/ \E p \in todo : Lost("reconcile", ReconcileMiner(p))
     \/ Reconciled /\ Lost("reconcile", SwapTx)

(* The process dies and is started again: TickState is fresh. *)
Crash ==
  /\ faults < MaxFaults
  /\ faults' = faults + 1
  /\ pc' = "sleep" /\ since' = "none"
  /\ UNCHANGED <<chain, directMode, seen, todo, allReady>>

GraceRuns ==
  /\ since = "waiting" /\ since' = "over"
  /\ UNCHANGED <<chain, directMode, pc, seen, todo, allReady, faults>>

(* janitor.ts, between two ticks. *)
Janitor == pc = "sleep" /\ (\E r \in RoundId : CloseRound(r)) /\ UNCHANGED keeper

(* A direct stake is a pot that grows; its books are DirectGame's. *)
StakeDirect(r, amount) ==
  /\ directMode
  /\ round[r].state = "open" /\ r \notin ended
  /\ round[r].pot + amount <= MaxPot
  /\ round' = [round EXCEPT ![r].pot = @ + amount]
  /\ pot_vault' = pot_vault + amount
  /\ UNCHANGED <<config, ended, miner, escrow, clone, rounds_away, miners_away>>

(* Players who enter only a round that is running on the rollup.           *)
Running(r) == round[r].state = "open" /\ r \in rounds_away /\ r \notin ended

Plays(p) ==
  \E r \in RoundId :
     \/ \E a \in Amounts : Stake(p, r, a)
     \/ Claim(p, r) \/ Refund(p, r)

World ==
  /\ \/ \E p \in Player : Plays(p)
     \/ \E r \in RoundId, a \in Amounts : StakeDirect(r, a)
     \/ NetworkStep
  /\ UNCHANGED keeper

Enters(timely) ==
  /\ timely => Running(config.current_round_id)
  /\ \E p \in Player : Enter(p)
  /\ UNCHANGED keeper

KNext(timely) ==
  Tick \/ CallFails \/ Crash \/ GraceRuns \/ Janitor \/ World \/ Enters(timely)

(* Ticks keep coming, deadlines pass, the grace period runs out.  Nobody   *)
(* makes the oracle answer, a player move or the janitor run.              *)
Fairness ==
  /\ WF_kvars(Tick)
  /\ WF_kvars(GraceRuns)
  /\ \A r \in RoundId : WF_kvars(DeadlinePasses(r) /\ UNCHANGED keeper)

KSpec    == KInit /\ [][KNext(TRUE)]_kvars /\ Fairness
LateSpec == KInit /\ [][KNext(FALSE)]_kvars

-----------------------------------------------------------------------------
(* Properties *)

(* Every round the keeper opens ends in a claim or a refund, whatever call *)
(* fails, wherever the keeper dies, and if the oracle never answers.       *)
RoundsFinish ==
  \A r \in RoundId :
     round[r].state = "open" ~> round[r].state \in {"claimable", "closed", "absent"}

(* round_entry.rs:18: a player who joined is let go again, or can be: the  *)
(* round was cancelled and the position is home for the refund.            *)
LocksReleased ==
  \A p \in Player : \A r \in RoundId \ {0} :
     escrow[p].active_round = r ~>
        \/ escrow[p].active_round # r
        \/ round[r].state \in {"closed", "absent"} /\ p \notin miners_away

(* actions.ts, commitToL1: the round never comes back to L1 before every   *)
(* miner that joined it.                                                   *)
MinersHomeFirst ==
  \A p \in Player :
     p \in miners_away /\ escrow[p].active_round # 0
        => escrow[p].active_round \in rounds_away

(* round_entry.rs:19, "no joiner can get permanently locked": a position   *)
(* on the rollup can always be committed back, which takes the account of  *)
(* the round it is stamped with, and the janitor has not reaped that.      *)
LockHasExit ==
  \A p \in Player :
     escrow[p].active_round # 0
        => p \notin miners_away \/ round[miner[p].round_id].state # "absent"
=============================================================================
