-------------------------- MODULE InstructionBuilders --------------------------
(***************************************************************************)
(* The SDK's instruction builders (packages/sdk/src/instructions) and the  *)
(* resolver that completes what they pass.  accountsPartial lets a builder *)
(* leave out any account: the type checker is content, and only when the   *)
(* instruction is built does anchor derive the rest from the committed     *)
(* IDL, one address at a time, as the addresses it depends on become       *)
(* known.  What it cannot derive fails at run time, at the first use.      *)
(* What is built is then sent to the program, whose own idea of the        *)
(* instruction may be a later one.                                         *)
(***************************************************************************)
EXTENDS ProgramInterface

(* A call of an instruction of which the program takes the accounts of row *)
(* and reads the arguments of names: the interface it is built for, the    *)
(* arguments, the accounts passed.                                         *)
CallFor(row, names, ix, args, given) ==
  [takes |-> row, reads |-> names, ix |-> ix, args |-> args, given |-> given]

(* The IDL and the program agree.  Where they do not, the arguments they   *)
(* differ in are named, too, though no address is derived from them.       *)
Call(ix, args, given) == CallFor(ix, args, ix, args, given)

-----------------------------------------------------------------------------
(* instructions/keeper.ts: what the keeper and the admin send *)

createRoundIx == Call(createRound, {}, {"payer", "round"})

delegateRoundIx == Call(delegateRound, {"roundId"}, {"payer", "round"})

requestSettleIx ==
  Call(requestSettle, {},
       {"payer", "round", "config", "oracleQueue"})

settleIx == Call(settle, {}, {"admin", "config", "round"})

commitRoundIx == Call(commitRound, {}, {"payer", "config", "round"})

commitMinerIx == Call(commitMiner, {}, {"payer", "miner", "round"})

reconcileMinerIx ==
  Call(reconcileMiner, {"roundId"},
       {"config", "escrow", "miner"})

executeSwapMockIx ==
  CallFor(executeSwapMock, {}, executeSwapMockIdl, {},
          {"payer", "round", "ansemMint", "mintAuthority", "vaultAuthority",
           "payoutVault", "potVault", "treasury", "tokenProgram"})

cancelRoundIx == Call(cancelRound, {}, {"admin", "round"})

setRoundDurationIx == Call(setRoundDuration, {}, {"admin"})

setReturnBandIx == Call(setReturnBand, {}, {"admin"})

initBeefIx ==
  CallFor(initBeef, {"maxRoundMint", "satLamports", "hardCap", "treasuryBps"},
          initBeefIdl, {"divisor"},
          {"admin", "beefMint", "vaultAuthority", "beefVault"})

setBeefParamsIx ==
  CallFor(setBeefParams, {"maxRoundMint", "satLamports"},
          setBeefParams, {"divisor"}, {"admin", "config", "beefConfig"})

stampBeefIx ==
  CallFor(stampBeef, {"roundId"}, stampBeefIdl, {"roundId"},
          {"payer", "config", "round", "beefConfig", "beefVault", "beefRound"})

initializeRealIx ==
  Call(initializeReal, {},
       {"admin", "ansemMint", "program", "programData"})

executeSwapRealIx ==
  CallFor(executeSwapReal, {}, executeSwapRealIdl, {},
          {"payer", "round", "ansemMint", "vaultAuthority", "payoutVault",
           "sourceAta", "potVault", "treasury", "tokenProgram"})

sweepTreasuryUnsigned ==                                    \* mutant of sweepTreasuryIx
  Call(sweepTreasury, {}, {"treasury", "destination"})

sweepTreasuryIx ==
  Call(sweepTreasury, {},
       {"admin", "treasury", "destination"})

sweepBeefExcessIx ==
  Call(sweepBeefExcess, {},
       {"admin", "config", "beefConfig", "vaultAuthority", "beefMint",
        "beefVault", "destinationAta", "tokenProgram"})

closeRoundIx == Call(closeRound, {}, {"caller", "round", "adminDest"})

setClaimWindowIx == Call(setClaimWindow, {}, {"admin"})

setMinSwapRateIx == Call(setMinSwapRate, {}, {"admin"})

setStakeLimitsIx == Call(setStakeLimits, {}, {"admin"})

-----------------------------------------------------------------------------
(* instructions/player.ts: what a player sends *)

depositIx == Call(deposit, {}, {"authority"})

withdrawIx == Call(withdraw, {}, {"authority"})

initMinerIx == Call(initMiner, {}, {"authority"})

joinRoundIx == Call(joinRound, {"roundId"}, {"authority", "config", "escrow"})

delegateMinerIx == Call(delegateMiner, {}, {"payer", "miner"})

stakeIx ==
  Call(stake, {},
       {"authority", "config", "round", "miner", "escrow", "sessionToken"})

claimIx ==
  Call(claim, {"roundId"},
       {"authority", "round", "ansemMint", "vaultAuthority", "payoutVault",
        "playerAta", "tokenProgram"})

refundIx ==
  Call(refund, {"roundId"},
       {"authority", "config", "round", "escrow", "miner"})

stakeDirectIx ==
  Call(stakeDirect, {"roundId"},
       {"authority", "config", "round", "miner"})

claimDirectClassic ==                                       \* mutant of claimDirectIx
  Call(claimDirect, {"roundId"},
       {"authority", "config", "round", "miner", "ansemMint", "vaultAuthority",
        "payoutVault", "playerAta"})

claimDirectIx ==
  Call(claimDirect, {"roundId"},
       {"authority", "config", "round", "miner", "ansemMint",
        "vaultAuthority", "payoutVault", "playerAta", "tokenProgram"})

refundDirectIx ==
  Call(refundDirect, {"roundId"},
       {"authority", "config", "round", "miner"})

rollBeefIx ==
  Call(rollBeef, {"roundId"},
       {"authority", "round", "miner", "beefRound", "beefConfig",
        "beefMiner"})

claimBeefIx ==
  Call(claimBeef, {},
       {"authority", "beefConfig", "beefMiner", "beefMint", "vaultAuthority",
        "beefVault", "playerBeefAta", "tokenProgram"})

-----------------------------------------------------------------------------
Builders ==
  { createRoundIx, delegateRoundIx, requestSettleIx, settleIx, commitRoundIx,
    commitMinerIx, reconcileMinerIx, executeSwapMockIx, cancelRoundIx,
    setRoundDurationIx, setReturnBandIx, initBeefIx, setBeefParamsIx,
    stampBeefIx, initializeRealIx, executeSwapRealIx, sweepTreasuryIx,
    sweepBeefExcessIx, closeRoundIx, setClaimWindowIx, setMinSwapRateIx,
    setStakeLimitsIx, depositIx, withdrawIx, initMinerIx, joinRoundIx,
    delegateMinerIx, stakeIx, claimIx, refundIx, stakeDirectIx,
    claimDirectIx, refundDirectIx, rollBeefIx, claimBeefIx }

(* The calls that wait for the SDK to be synchronised with the program.    *)
Waiting == {executeSwapMockIx, executeSwapRealIx, initBeefIx, setBeefParamsIx, stampBeefIx}

(* The program's entry point finds what it needs in the instruction: every *)
(* account of its struct and no other, signing and writable where it asks  *)
(* for that, and the arguments it reads.                                   *)
Takes(c) ==
  /\ DOMAIN c.ix = DOMAIN c.takes
  /\ \A a \in DOMAIN c.takes :
       (c.takes[a].signer => c.ix[a].signer) /\ (c.takes[a].writable => c.ix[a].writable)
  /\ c.reads = c.args

VARIABLES
  call,           \* the call being completed
  known,          \* the arguments and accounts known so far
  built           \* the instruction has been put together

vars == <<call, known, built>>

Init ==
  /\ call \in Builders
  /\ known = call.args \cup call.given
  /\ built = FALSE

(* The resolver derives one more address, from addresses it has.           *)
Resolve(a) ==
  /\ a \notin known
  /\ call.ix[a].from \subseteq known
  /\ known' = known \cup {a}
  /\ UNCHANGED <<call, built>>

(* .instruction() or .rpc(): every account has an address. *)
Build ==
  /\ ~ built
  /\ DOMAIN call.ix \subseteq known
  /\ built' = TRUE
  /\ UNCHANGED <<call, known>>

Next == (\E a \in DOMAIN call.ix : Resolve(a)) \/ Build

Spec == Init /\ [][Next]_vars /\ WF_vars(Next)

-----------------------------------------------------------------------------
(* Properties *)

(* Whatever order the addresses are derived in, every builder of the SDK   *)
(* ends up with a whole instruction of the committed IDL: accountsPartial  *)
(* let it forget nothing.  The program of this repository takes what is    *)
(* built, except from the two swaps, which lack the jackpot's              *)
(* configuration (swap.rs:115, 250), and from the three BEEF calls of the  *)
(* keeper, which lack accounts (beef.rs:67, 164-184) or send the arguments *)
(* of an earlier emission curve (lib.rs:205, 216): those it refuses.       *)
BuiltAndTaken == <>(built /\ (Takes(call) <=> call \notin Waiting))

(* Nobody but the caller says who signs: a signature the program asks of   *)
(* an account, in the IDL or beyond it, is never asked of an address that  *)
(* was derived, and a fixed signer (the oracle's identity) is in no call.  *)
SignersPassed ==
  \A a \in DOMAIN call.takes : call.takes[a].signer => a \in call.given
=============================================================================
