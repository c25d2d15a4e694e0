---------------------------- MODULE MCEscrowGame ----------------------------
(***************************************************************************)
(* The escrow game for TLC, on its own and run by the keeper.  A behaviour *)
(* that begins with pc = "off" has no keeper: anybody sends the crank's    *)
(* instructions in any order.  Every other one is the keeper's.            *)
(***************************************************************************)
EXTENDS KeeperCrank

KeeperOff ==
  /\ directMode = FALSE
  /\ pc = "off" /\ seen = NothingSeen /\ todo = {} /\ allReady = TRUE
  /\ since = "none"
  /\ faults = 0

MCInit == (Init /\ KeeperOff) \/ KInit

ByAnybody == pc = "off" /\ ClientNext /\ UNCHANGED keeper
ByKeeper  == pc # "off" /\ KNext(TRUE)

MCNext == ByAnybody \/ ByKeeper
MCSpec == MCInit /\ [][MCNext]_kvars /\ Fairness

(* Without a keeper the second round is one player's alone. *)
SecondRoundForOne ==
  pc = "off" /\ config.current_round_id = 2 =>
     \A p \in Player \ {0} : escrow[p] = NoEscrow /\ clone[p] = Shown(NoEscrow)

-----------------------------------------------------------------------------
(* actions.ts, commitToL1, in the keeper's behaviours: MinersHomeFirst.    *)
KeeperMinersHomeFirst == pc # "off" => MinersHomeFirst

(* round_entry.rs:19, in the keeper's behaviours: LockHasExit.             *)
KeeperLockHasExit == pc # "off" => LockHasExit

(* The keeper's rounds all end: RoundsFinish.                              *)
KeeperRoundsFinish == pc # "off" => RoundsFinish

(* The keeper's players are all let go: LocksReleased.                     *)
KeeperLocksReleased == pc # "off" => LocksReleased
=============================================================================
