--------------------------- MODULE ProgramInterface ---------------------------
(***************************************************************************)
(* The interface of the program: for every instruction, the accounts its   *)
(* derive(Accounts) struct takes.  An account signs or not, may be written *)
(* or not, and has an address that either the caller passes or that is     *)
(* derived from the arguments and accounts named in "from"; nothing is     *)
(* needed to know an address fixed by the program.  Arguments that derive  *)
(* no address, discriminators and seeds are left out.                      *)
(*                                                                         *)
(* Where the SDK's committed IDL (packages/sdk/src/idl/ansem_miner.ts)     *)
(* takes the same accounts, the row is the IDL's, which spells out what    *)
(* the structs leave to anchor's macros.  The IDL is the interface of the  *)
(* deployed program and lags behind this one: the last rows are its own.   *)
(***************************************************************************)

Account(signer, writable, from) ==
  [signer |-> signer, writable |-> writable, from |-> from]

(* An address derived from this is known to nobody but the caller. *)
Caller == "the caller"

Signer      == Account(TRUE, FALSE, {Caller})
Payer       == Account(TRUE, TRUE, {Caller})
Passed      == Account(FALSE, FALSE, {Caller})
PassedMut   == Account(FALSE, TRUE, {Caller})
Reads(from) == Account(FALSE, FALSE, from)
Writes(from) == Account(FALSE, TRUE, from)
Fixed       == Reads({})            \* a program, a sysvar, a singleton
Optional    == Fixed                \* left out, it is the program's own id

(* An address derived from a field of the account itself cannot be derived *)
(* before that account is known: the caller has to pass it.                *)
Itself      == {Caller}

-----------------------------------------------------------------------------
cancelRound ==
  [admin |-> Signer, config |-> Writes({}), round |-> Writes(Itself)]

claim ==
  [authority |-> Payer, config |-> Writes({}), round |-> Writes({"roundId"}),
   miner |-> Writes({"authority"}), escrow |-> Writes({"authority"}),
   ansemMint |-> Passed, vaultAuthority |-> Fixed,
   payoutVault |-> Writes({"vaultAuthority", "tokenProgram", "ansemMint"}),
   playerAta |-> Writes({"authority", "tokenProgram", "ansemMint"}),
   tokenProgram |-> Passed, associatedTokenProgram |-> Fixed,
   systemProgram |-> Fixed]

claimBeef ==
  [authority |-> Payer, beefConfig |-> Writes({}),
   beefMiner |-> Writes({"authority"}), beefMint |-> Passed,
   vaultAuthority |-> Fixed, beefVault |-> PassedMut,
   playerBeefAta |-> Writes({"authority", "tokenProgram", "beefMint"}),
   tokenProgram |-> Passed, associatedTokenProgram |-> Fixed,
   systemProgram |-> Fixed]

claimDirect ==
  [authority |-> Payer, config |-> Writes({}), round |-> Writes({"roundId"}),
   miner |-> Writes({"authority"}), ansemMint |-> Passed,
   vaultAuthority |-> Fixed,
   payoutVault |-> Writes({"vaultAuthority", "tokenProgram", "ansemMint"}),
   playerAta |-> Writes({"authority", "tokenProgram", "ansemMint"}),
   tokenProgram |-> Passed, associatedTokenProgram |-> Fixed,
   systemProgram |-> Fixed]

closeConfig ==
  [admin |-> Payer, config |-> Writes({})]

closeRound ==
  [caller |-> Signer, config |-> Writes({}), round |-> Writes(Itself),
   adminDest |-> PassedMut]

commitMiner ==
  [payer |-> Payer, miner |-> Writes(Itself), round |-> Reads({"miner"}),
   magicProgram |-> Fixed, magicContext |-> Writes({})]

commitRound ==
  [payer |-> Payer, config |-> Fixed, round |-> Writes(Itself),
   magicProgram |-> Fixed, magicContext |-> Writes({})]

createRound ==
  [payer |-> Payer, config |-> Writes({}), round |-> PassedMut,
   systemProgram |-> Fixed]

delegateMiner ==
  [payer |-> Payer, bufferMiner |-> Writes({"miner"}),
   delegationRecordMiner |-> Writes({"miner", "delegationProgram"}),
   delegationMetadataMiner |-> Writes({"miner", "delegationProgram"}),
   miner |-> Writes({"payer"}), ownerProgram |-> Fixed,
   delegationProgram |-> Fixed, systemProgram |-> Fixed]

delegateRound ==
  [payer |-> Payer, config |-> Fixed, bufferRound |-> Writes({"round"}),
   delegationRecordRound |-> Writes({"round", "delegationProgram"}),
   delegationMetadataRound |-> Writes({"round", "delegationProgram"}),
   round |-> Writes({"roundId"}), ownerProgram |-> Fixed,
   delegationProgram |-> Fixed, systemProgram |-> Fixed]

deposit ==
  [authority |-> Payer, config |-> Writes({}),
   escrow |-> Writes({"authority"}), potVault |-> Writes({}),
   systemProgram |-> Fixed]

executeSwapMock ==
  [payer |-> Payer, config |-> Writes({}), round |-> Writes(Itself),
   jackpotConfig |-> Fixed, ansemMint |-> PassedMut,
   mintAuthority |-> Fixed, vaultAuthority |-> Fixed,
   payoutVault |-> Writes({"vaultAuthority", "tokenProgram", "ansemMint"}),
   potVault |-> Writes({}), treasury |-> Writes({}), tokenProgram |-> Passed,
   associatedTokenProgram |-> Fixed, systemProgram |-> Fixed]

executeSwapReal ==
  [payer |-> Payer, config |-> Writes({}), round |-> Writes(Itself),
   jackpotConfig |-> Fixed, ansemMint |-> Passed, vaultAuthority |-> Fixed,
   payoutVault |-> Writes({"vaultAuthority", "tokenProgram", "ansemMint"}),
   sourceAta |-> PassedMut, potVault |-> Writes({}), treasury |-> Writes({}),
   tokenProgram |-> Passed, associatedTokenProgram |-> Fixed,
   systemProgram |-> Fixed]

initBeef ==
  [admin |-> Payer, config |-> Fixed, beefMint |-> Passed,
   vaultAuthority |-> Fixed, beefVault |-> Passed, beefTreasury |-> Passed,
   beefConfig |-> Writes({}), systemProgram |-> Fixed]

initJackpotConfig ==
  [admin |-> Payer, config |-> Fixed, jackpotConfig |-> Writes({}),
   systemProgram |-> Fixed]

initMiner ==
  [authority |-> Payer, miner |-> Writes({"authority"}),
   systemProgram |-> Fixed]

initialize ==
  [admin |-> Payer, config |-> Writes({}), mintAuthority |-> Fixed,
   ansemMint |-> Writes({}), vaultAuthority |-> Fixed, potVault |-> Fixed,
   treasury |-> Fixed, tokenProgram |-> Passed,
   associatedTokenProgram |-> Fixed, systemProgram |-> Fixed, rent |-> Fixed]

initializeReal ==
  [admin |-> Payer, config |-> Writes({}), ansemMint |-> Passed,
   mintAuthority |-> Fixed, vaultAuthority |-> Fixed, potVault |-> Fixed,
   treasury |-> Fixed, program |-> Fixed, programData |-> Passed,
   systemProgram |-> Fixed]

joinRound ==
  [authority |-> Payer, config |-> Fixed, escrow |-> Writes({"authority"}),
   miner |-> Writes({"authority"})]

processUndelegation ==
  [baseAccount |-> PassedMut, buffer |-> Passed, payer |-> PassedMut,
   systemProgram |-> Passed]

reconcileMiner ==
  [config |-> Writes({}), escrow |-> Writes(Itself),
   miner |-> Reads({"escrow"})]

refund ==
  [authority |-> Signer, config |-> Writes({}), round |-> Reads({"roundId"}),
   escrow |-> Writes({"authority"}), miner |-> Reads({"authority"})]

refundDirect ==
  [authority |-> Payer, config |-> Fixed, round |-> Reads({"roundId"}),
   miner |-> Writes({"authority"}), potVault |-> Writes({}),
   systemProgram |-> Fixed]

requestSettle ==
  [payer |-> Payer, round |-> Writes(Itself), config |-> Fixed,
   oracleQueue |-> PassedMut, programIdentity |-> Fixed,
   vrfProgram |-> Fixed, slotHashes |-> Fixed, systemProgram |-> Fixed]

rollBeef ==
  [authority |-> Payer, round |-> Reads({"roundId"}),
   miner |-> Reads({"authority"}), beefRound |-> Reads({"roundId"}),
   beefConfig |-> Writes({}), beefMiner |-> Writes({"authority"}),
   systemProgram |-> Fixed]

setBeefParams ==
  [admin |-> Signer, config |-> Fixed, beefConfig |-> Writes({})]

setClaimWindow ==
  [admin |-> Signer, config |-> Writes({})]

setFeeBps ==
  [admin |-> Signer, config |-> Writes({})]

setJackpotParams ==
  [admin |-> Signer, config |-> Fixed, jackpotConfig |-> Writes({})]

setMinSwapRate ==
  [admin |-> Signer, config |-> Writes({})]

setReturnBand ==
  [admin |-> Signer, config |-> Writes({})]

setRoundCursor ==
  [admin |-> Signer, config |-> Writes({})]

setRoundDuration ==
  [admin |-> Signer, config |-> Writes({})]

setStakeLimits ==
  [admin |-> Signer, config |-> Writes({})]

settle ==
  [admin |-> Signer, config |-> Fixed, round |-> Writes(Itself)]

settleCallback ==
  [vrfProgramIdentity |-> Account(TRUE, FALSE, {}), round |-> Writes(Itself),
   config |-> Fixed]

stake ==
  [authority |-> Signer, config |-> Fixed, round |-> Writes(Itself),
   miner |-> Writes(Itself), escrow |-> Reads({"miner"}),
   sessionToken |-> Optional]

stakeDirect ==
  [authority |-> Payer, config |-> Fixed, round |-> Writes({"roundId"}),
   miner |-> Writes({"authority"}), potVault |-> Writes({}),
   systemProgram |-> Fixed]

stampBeef ==
  [payer |-> Payer, config |-> Fixed, round |-> Reads({"roundId"}),
   beefConfig |-> Writes({}), beefMint |-> PassedMut,
   vaultAuthority |-> Fixed, beefVault |-> PassedMut,
   beefTreasury |-> PassedMut, beefRound |-> Writes({"roundId"}),
   tokenProgram |-> Passed, systemProgram |-> Fixed]

sweepBeefExcess ==
  [admin |-> Signer, config |-> Fixed, beefConfig |-> Fixed,
   vaultAuthority |-> Fixed, beefMint |-> Passed, beefVault |-> PassedMut,
   destinationAta |-> PassedMut, tokenProgram |-> Passed]

sweepTreasury ==
  [admin |-> Signer, config |-> Fixed, treasury |-> Writes({}),
   destination |-> PassedMut, systemProgram |-> Fixed]

withdraw ==
  [authority |-> Payer, config |-> Writes({}),
   escrow |-> Writes({"authority"}), potVault |-> Writes({}),
   systemProgram |-> Fixed]

-----------------------------------------------------------------------------
(* Where the committed IDL is behind: it knows neither the jackpot's        *)
(* configuration nor BEEF minted by the round, and has no row at all for   *)
(* setFeeBps, initJackpotConfig and setJackpotParams.                      *)

Without(ix, accounts) == [a \in DOMAIN ix \ accounts |-> ix[a]]

executeSwapMockIdl == Without(executeSwapMock, {"jackpotConfig"})

executeSwapRealIdl == Without(executeSwapReal, {"jackpotConfig"})

initBeefIdl == Without(initBeef, {"beefTreasury"})

stampBeefIdl ==
  [Without(stampBeef, {"beefMint", "vaultAuthority", "beefTreasury", "tokenProgram"})
     EXCEPT !.beefVault = Passed]

-----------------------------------------------------------------------------
(* What delegation makes of the interface.  On L1 the owner check of every *)
(* account the program reads or writes fails while the account is          *)
(* delegated; on the rollup only delegated accounts may be written, and    *)
(* the rollup's own context.                                               *)

RunsOnL1(ix, delegated) == DOMAIN ix \cap delegated = {}

RunsOnRollup(ix, delegated) ==
  \A a \in DOMAIN ix :
     ix[a].writable => a \in delegated \/ a = "magicContext" \/ ix[a].signer
=============================================================================
