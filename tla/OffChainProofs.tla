---------------------------- MODULE OffChainProofs ----------------------------
(***************************************************************************)
(* Theorems about the components off the chain.  A behaviour of MCOffChain *)
(* runs one of them, so each invariant is kept by the component's own      *)
(* steps and, where another one runs, by standing still.                   *)
(***************************************************************************)
EXTENDS MCOffChain, TLAPS

-----------------------------------------------------------------------------
(* The app's client *)

(* What the page knows of its calls: none is open between them, one that   *)
(* has not sent has not staked, and a target is one more than what the     *)
(* square held when the call began.                                        *)
ClientInv ==
  /\ begun \in Nat /\ er.staked \in Nat /\ er.round \in {"last", "this"}
  /\ session => entry = "landed"
  /\ step = "enter" => ~ session
  /\ Client!Held(er) <= begun
  /\ step \in {"enter", "confirm", "verify", "wait", "ready"} => Client!Held(er) = begun
  /\ step = "baseline" => Client!Held(er) = begun - 1 /\ ~ sent
  /\ step = "stake" => /\ target = begun /\ Client!Held(er) \in {begun - 1, begun}
                       /\ sent \/ Client!Held(er) = begun - 1

LEMMA ClientStart == Init => ClientInv
  BY DEF Init, Client!Init, ClientInv, Client!Held

LEMMA HeldNat ==
  ASSUME ClientInv
  PROVE  Client!Held(er) \in Nat
  BY DEF ClientInv, Client!Held

(* A stake that is sent adds one to what the square holds in this round,   *)
(* or is lost.                                                             *)
LEMMA SendAdds ==
  ASSUME ClientInv, Client!SendStake
  PROVE  /\ er'.staked \in Nat /\ er'.round \in {"last", "this"}
         /\ Client!Held(er') \in {Client!Held(er), Client!Held(er) + 1}
         /\ sent' = TRUE
<1>1. CASE er' = [round |-> "this", staked |-> Client!Held(er) + 1]
  <2>1. er'.round = "this" /\ er'.staked = Client!Held(er) + 1
    BY <1>1
  <2> QED BY <2>1, HeldNat DEF Client!SendStake, Client!Held
<1>2. CASE er' = er
  BY <1>2 DEF ClientInv, Client!SendStake, Client!Held
<1> QED BY <1>1, <1>2 DEF Client!SendStake

LEMMA ClientStep ==
  ASSUME ClientInv, Client!Next
  PROVE  ClientInv'
<1>0. Client!Held(er) \in Nat /\ begun \in Nat
  BY HeldNat DEF ClientInv
<1>1. CASE Client!SendEntry
  BY <1>1 DEF Client!SendEntry, Client!Stays, ClientInv, Client!Held
<1>2. CASE Client!EntryResolves
  BY <1>2 DEF Client!EntryResolves, Client!Stays, ClientInv, Client!Held
<1>3. CASE Client!Confirm
  BY <1>3 DEF Client!Confirm, Client!Persist, Client!Stays, ClientInv, Client!Held
<1>4. CASE Client!Verify
  BY <1>4 DEF Client!Verify, Client!Minted, Client!Persist, Client!Stays, ClientInv, Client!Held
<1>5. CASE Client!Propagated
  BY <1>5 DEF Client!Propagated, Client!Stays, ClientInv, Client!Held
<1>6. CASE Client!Begin
  BY <1>0, <1>6 DEF Client!Begin, ClientInv, Client!Held
<1>7. CASE Client!Baseline
  <2>1. PICK m \in Client!Read :
           IF m = Client!Unknown
           THEN /\ Client!Goes(IF tries' = BaselineTries THEN "threw" ELSE "baseline")
                /\ UNCHANGED target
           ELSE Client!Goes("stake") /\ target' = Client!Held(m) + 1
    BY <1>7 DEF Client!Baseline
  <2>2. step = "baseline" /\ UNCHANGED sent
    BY <1>7 DEF Client!Baseline
  <2>3. CASE m = Client!Unknown
    BY <1>0, <2>1, <2>2, <2>3 DEF Client!Goes, ClientInv
  <2>4. CASE m # Client!Unknown
    <3>1. m = er
      BY <2>4 DEF Client!Read
    <3> QED BY <1>0, <2>1, <2>2, <2>4, <3>1 DEF Client!Goes, ClientInv
  <2> QED BY <2>3, <2>4
<1>8. CASE Client!StakeOnce
  <2>0. step = "stake" /\ UNCHANGED target
    BY <1>8 DEF Client!StakeOnce
  <2>1. PICK m \in Client!Read :
        \/ Client!Landed(m) /\ Client!Goes("ready") /\ UNCHANGED <<tries, sent>>
        \/ /\ ~ Client!Landed(m) /\ tries' = tries + 1
           /\ IF Client!HoldOff(m)
              THEN UNCHANGED <<entry, session, er, begun, step, sent>>
              ELSE Client!SendStake /\ UNCHANGED <<entry, session, begun, step>>
    BY <1>8 DEF Client!StakeOnce
  <2>2. m = er \/ (m.round = "unknown" /\ m.staked = 0)
    BY DEF Client!Read, Client!Unknown
  <2>3. CASE Client!Landed(m) /\ Client!Goes("ready") /\ UNCHANGED <<tries, sent>>
    <3>1. m = er /\ er.round = "this" /\ er.staked >= begun
      BY <2>0, <2>2, <2>3 DEF Client!Landed, ClientInv
    <3>2. Client!Held(er) = begun
      BY <1>0, <3>1 DEF ClientInv, Client!Held
    <3> QED BY <2>3, <3>2 DEF Client!Goes, ClientInv
  <2>4. CASE ~ Client!Landed(m) /\ Client!HoldOff(m)
             /\ UNCHANGED <<entry, session, er, begun, step, sent>>
    BY <2>0, <2>4 DEF ClientInv
  <2>5. CASE ~ Client!Landed(m) /\ ~ Client!HoldOff(m) /\ Client!SendStake
             /\ UNCHANGED <<entry, session, begun, step>>
    (* The stake is sent only when the square lacks it for certain. *)
    <3>1. Client!Held(er) = begun - 1
      <4>1. CASE ~ sent
        BY <2>0, <4>1 DEF ClientInv
      <4>2. CASE sent
        <5>1. m = er /\ er.round = "this" /\ ~ (er.staked >= begun)
          BY <2>0, <2>2, <2>5, <4>2 DEF Client!HoldOff, Client!Landed, ClientInv
        <5> QED BY <1>0, <2>0, <5>1 DEF ClientInv, Client!Held
      <4> QED BY <4>1, <4>2
    <3>2. /\ er'.staked \in Nat /\ er'.round \in {"last", "this"}
          /\ Client!Held(er') \in {begun - 1, begun} /\ sent' = TRUE
      BY <1>0, <2>5, <3>1, SendAdds
    <3> QED BY <1>0, <2>0, <2>5, <3>2 DEF ClientInv
  <2> QED BY <2>1, <2>3, <2>4, <2>5
<1>9. CASE Client!AwaitStake
  <2>1. CASE Client!Landed(er) /\ Client!Goes("ready")
    <3>1. Client!Held(er) = begun
      BY <1>0, <1>9, <2>1 DEF Client!AwaitStake, Client!Landed, ClientInv, Client!Held
    <3> QED BY <1>9, <2>1, <3>1 DEF Client!Goes, ClientInv
  <2>2. CASE Client!Goes("threw")
    BY <2>2 DEF Client!Goes, ClientInv
  <2> QED BY <1>9, <2>1, <2>2 DEF Client!AwaitStake
<1> QED BY <1>1, <1>2, <1>3, <1>4, <1>5, <1>6, <1>7, <1>8, <1>9 DEF Client!Next

LEMMA ClientAlways == Spec => []ClientInv
<1>1. ClientInv /\ [Next]_mcvars => ClientInv'
  <2> SUFFICES ASSUME ClientInv, [Next]_mcvars PROVE ClientInv'
    OBVIOUS
  <2>1. CASE UNCHANGED client
    BY <2>1 DEF client, ClientInv
  <2>2. Client!Next \/ UNCHANGED client
    BY DEF Next, Others, mcvars
  <2> QED BY <2>1, <2>2, ClientStep
<1> QED BY <1>1, ClientStart, PTL DEF Spec

(* writes.ts, enterRound: the page keeps a session key only for a token    *)
(* the entry transaction minted, however its confirmation went.            *)
THEOREM NoSessionWithoutToken == Spec => []NoPhantomSession
<1>1. ClientInv => NoPhantomSession
  BY DEF ClientInv, NoPhantomSession, Client!NoPhantomSession
<1> QED BY <1>1, ClientAlways, PTL

(* writes.ts, gaslessStake: whatever sends are lost, whatever reads fail   *)
(* and however many tries there are, no call adds its amount twice, and    *)
(* when it returns it has added it.                                        *)
THEOREM EachCallStakesOnce == Spec => []OneStakePerCall
<1>1. ClientInv => OneStakePerCall
  BY DEF ClientInv, OneStakePerCall, Client!OneStakePerCall
<1> QED BY <1>1, ClientAlways, PTL

-----------------------------------------------------------------------------
(* The app's reveal *)

(* A drawn snapshot has been played, and a show is about the round played  *)
(* last, or about the past round it put on the board.                      *)
RevealInv ==
  /\ Reveal!NoStraggler
  /\ sweeping => showing.mode # "settle"
  /\ Reveal!Drawn(snapshot) => playedRound = snapshot.round
  /\ showing.mode = "settle" =>
       showing.round = IF snapshotOverride = Reveal!NoSnap THEN playedRound
                       ELSE snapshotOverride.round

LEMMA RevealStart == Init => RevealInv
  BY DEF Init, Reveal!Init, RevealInv, Reveal!NoStraggler, Reveal!NoShow, Reveal!NoSnap,
     Reveal!Drawn

(* Every way to raise a show drops the timers of the one before. *)
LEMMA RaiseTimers ==
  ASSUME NEW s, NEW override, NEW selfDismiss, Reveal!Raise(s, override, selfDismiss)
  PROVE  Reveal!NoStraggler'
  BY DEF Reveal!Raise, Reveal!Cleared, Reveal!Frames, Reveal!NoStraggler

LEMMA ResetShow ==
  ASSUME Reveal!resetToLive
  PROVE  Reveal!NoStraggler' /\ sweeping' = FALSE /\ showing'.mode = "none"
  BY DEF Reveal!resetToLive, Reveal!Cleared, Reveal!NoStraggler, Reveal!NoShow

LEMMA SweepShow ==
  ASSUME NEW s, Reveal!playSweep(s)
  PROVE  Reveal!NoStraggler' /\ showing'.mode = "sweep"
  BY RaiseTimers DEF Reveal!playSweep, Reveal!Raise

LEMMA SettleShow ==
  ASSUME NEW s, NEW selfDismiss, NEW override, Reveal!play(s, selfDismiss, override)
  PROVE  /\ Reveal!NoStraggler' /\ sweeping' = FALSE
         /\ showing'.mode = "settle" /\ showing'.round = s.round
         /\ snapshotOverride' = override
  BY RaiseTimers DEF Reveal!play, Reveal!Raise

LEMMA ReceiveStep ==
  ASSUME RevealInv, NEW s, Reveal!Receive(s)
  PROVE  RevealInv'
<1>0. snapshot' = s
  BY DEF Reveal!Receive
<1>1. CASE Reveal!Settles(s)
  BY <1>0, <1>1, SettleShow DEF Reveal!Settles, Reveal!NaturalOverride, RevealInv
<1>2. CASE Reveal!Scrapped(s)
  <2>1. ~ Reveal!Drawn(s)
    BY <1>2 DEF Reveal!Scrapped, Reveal!Drawn
  <2>2. Reveal!NoStraggler' /\ showing'.mode # "settle"
    BY <1>2, SweepShow, ResetShow DEF Reveal!Scrapped
  <2> QED BY <1>0, <2>1, <2>2 DEF RevealInv
<1>3. CASE Reveal!Opens(s)
  <2>1. ~ Reveal!Drawn(s)
    BY <1>3 DEF Reveal!Opens, Reveal!Drawn
  <2>2. CASE UNCHANGED Reveal!stage /\ UNCHANGED playedRound
    BY <1>0, <2>1, <2>2 DEF RevealInv, Reveal!stage, Reveal!NoStraggler
  <2>3. CASE Reveal!resetToLive \/ Reveal!playSweep(s)
    <3>1. Reveal!NoStraggler' /\ showing'.mode # "settle"
      BY <2>3, SweepShow, ResetShow
    <3> QED BY <1>0, <2>1, <3>1 DEF RevealInv
  <2> QED BY <1>3, <2>2, <2>3 DEF Reveal!Opens
<1>4. CASE Reveal!SameOrHandled(s)
  <2>1. Reveal!Drawn(s) => playedRound = s.round
    BY <1>4 DEF Reveal!SameOrHandled, Reveal!Drawn, RevealInv
  <2> QED BY <1>0, <1>4, <2>1 DEF Reveal!SameOrHandled, RevealInv, Reveal!stage, Reveal!NoStraggler
<1> QED BY <1>1, <1>2, <1>3, <1>4 DEF Reveal!Receive

LEMMA RevealStep ==
  ASSUME RevealInv, Reveal!Next
  PROVE  RevealInv'
<1>1. CASE Reveal!KeeperMoves \/ Reveal!ColdAnswer
  BY <1>1 DEF Reveal!KeeperMoves, Reveal!ColdAnswer, RevealInv, Reveal!stage, Reveal!NoStraggler
<1>2. CASE Reveal!Frame \/ Reveal!ColdLoad
  BY <1>2, ReceiveStep DEF Reveal!Frame, Reveal!ColdLoad
<1>3. CASE Reveal!replay
  <2>1. UNCHANGED <<snapshot, playedRound>>
    BY <1>3 DEF Reveal!replay
  <2>2. CASE Reveal!Drawn(snapshot)
             /\ Reveal!play(snapshot, Reveal!HandsBack(snapshot), Reveal!NoSnap)
    BY <2>1, <2>2, SettleShow DEF RevealInv
  <2>3. CASE ~ Reveal!Drawn(snapshot) /\ lastFinished # Reveal!NoSnap
             /\ Reveal!play(lastFinished, Reveal!HandsBack(snapshot), lastFinished)
    <3>1. /\ Reveal!NoStraggler' /\ sweeping' = FALSE
          /\ showing'.round = lastFinished.round /\ snapshotOverride' = lastFinished
      BY <2>3, SettleShow
    <3> QED BY <2>1, <2>3, <3>1 DEF RevealInv, Reveal!Drawn
  <2> QED BY <1>3, <2>2, <2>3 DEF Reveal!replay, Reveal!CanReplay
<1>4. ASSUME NEW t \in timers, Reveal!Fire(t) PROVE RevealInv'
  <2>0. UNCHANGED <<snapshot, playedRound>>
    BY <1>4 DEF Reveal!Fire
  <2>1. CASE Reveal!resetToLive
    BY <2>0, <2>1, ResetShow DEF RevealInv
  <2>2. CASE timers' = timers \ {t} /\ UNCHANGED <<snapshotOverride, showing, sweeping>>
    BY <2>0, <2>2 DEF RevealInv, Reveal!NoStraggler
  <2> QED BY <1>4, <2>1, <2>2 DEF Reveal!Fire
<1> QED BY <1>1, <1>2, <1>3, <1>4 DEF Reveal!Next, Reveal!TimerFires

LEMMA RevealAlways == Spec => []RevealInv
<1>1. RevealInv /\ [Next]_mcvars => RevealInv'
  <2> SUFFICES ASSUME RevealInv, [Next]_mcvars PROVE RevealInv'
    OBVIOUS
  <2>1. CASE UNCHANGED show
    BY <2>1 DEF show, RevealInv, Reveal!NoStraggler
  <2>2. Reveal!Next \/ UNCHANGED show
    BY DEF Next, Others, mcvars
  <2> QED BY <2>1, <2>2, RevealStep
<1> QED BY <1>1, RevealStart, PTL DEF Spec

(* use-reveal.ts: every show, reset and replay leaves no timer of an       *)
(* earlier show to write on the board.                                     *)
THEOREM NoTimerOutlivesItsShow == Spec => []NoStraggler
<1>1. RevealInv => NoStraggler
  BY DEF RevealInv, NoStraggler
<1> QED BY <1>1, RevealAlways, PTL

(* PlayBoard.tsx: whatever snapshots arrive during a reveal, late or out   *)
(* of order, its finale is on the board of its own round.                  *)
THEOREM TheGoldLandsRight == Spec => []GoldLandsRight
<1>1. RevealInv => GoldLandsRight
  BY DEF RevealInv, GoldLandsRight, Reveal!GoldLandsRight, Reveal!Rendered
<1> QED BY <1>1, RevealAlways, PTL

-----------------------------------------------------------------------------
(* The app's controls *)

Position == [round: 0 .. LastRoundId, staked: BOOLEAN]
RoundState == {"absent", "open", "settling", "claimable", "closed"}
Tx == [kind: {"none", "stake", "claim", "refund"}, round: 0 .. LastRoundId,
       status: {"none", "sent", "landed"}]

(* Round c is the one the keeper is at. *)
Newest(c) ==
  /\ stateOf[c] # "absent"
  /\ \A q \in Controls!Rounds : q > c => stateOf[q] = "absent"
  /\ \A q \in Controls!Rounds : q < c => stateOf[q] \notin {"open", "settling"}

(* While stakes of an earlier round are unspent, the page knows of them,   *)
(* every read under way will tell it so, and no stake in the current round *)
(* is on its way.                                                          *)
StakesKnown(c) ==
  position.staked /\ position.round # c =>
    /\ \A p \in reads : p = position
    /\ loaded => miner = position
    /\ ~ (tx.kind = "stake" /\ tx.status = "sent" /\ tx.round = c)

ControlsType ==
  /\ stateOf \in [Controls!Rounds -> RoundState]
  /\ position \in Position /\ miner \in Position /\ reads \subseteq Position
  /\ position.staked => position.round > 0
  /\ board.round \in Controls!Rounds
  /\ tx \in Tx /\ (tx.kind = "stake" => tx.round \in Controls!Rounds)

ControlsInv ==
  /\ ControlsType
  /\ forfeited = FALSE
  /\ \E c \in Controls!Rounds : Newest(c) /\ StakesKnown(c)

LEMMA ControlsStart == Init => ControlsInv
<1> SUFFICES ASSUME Init PROVE ControlsInv
  OBVIOUS
<1>1. Controls!Init /\ 1 \in Controls!Rounds /\ LastRoundId \in Nat
  BY OffChainAssumption DEF Init, Controls!Rounds
<1>2. ControlsType
  <2>1. Controls!Nothing \in Position /\ [round |-> 1, staked |-> TRUE] \in Position
    BY OffChainAssumption DEF Position, Controls!Nothing
  <2>2. position \in Position /\ (position.staked => position.round > 0)
    <3>1. Controls!Nothing.staked = FALSE
      BY DEF Controls!Nothing
    <3>2. position \in {Controls!Nothing, [round |-> 1, staked |-> TRUE]}
      BY <1>1 DEF Controls!Init
    <3>3. CASE position = Controls!Nothing
      BY <2>1, <3>1, <3>3
    <3>4. CASE position = [round |-> 1, staked |-> TRUE]
      BY <2>1, <3>4
    <3> QED BY <3>2, <3>3, <3>4
  <2>3. Controls!NoTx \in Tx /\ Controls!NoTx.kind = "none"
    BY <1>1 DEF Tx, Controls!NoTx
  <2>4. stateOf \in [Controls!Rounds -> RoundState]
    BY <1>1 DEF Controls!Init, RoundState
  <2> QED BY <1>1, <2>1, <2>2, <2>3, <2>4 DEF Controls!Init, ControlsType
<1>3. Newest(1)
  BY <1>1 DEF Controls!Init, Newest, Controls!Rounds
<1>4. StakesKnown(1)
  BY <1>1 DEF Controls!Init, StakesKnown, Controls!NoTx
<1> QED BY <1>1, <1>2, <1>3, <1>4 DEF Controls!Init, ControlsInv

LEMMA CurrentIs ==
  ASSUME NEW c \in Controls!Rounds, Newest(c)
  PROVE  Controls!Current = c
<1>1. \A r \in Controls!Rounds :
         (stateOf[r] # "absent" /\ \A q \in Controls!Rounds : q > r => stateOf[q] = "absent")
         <=> r = c
  BY OffChainAssumption DEF Newest, Controls!Rounds
<1> QED BY <1>1 DEF Controls!Current

(* Only the current round is open or settling. *)
LEMMA OpenIsCurrent ==
  ASSUME NEW c \in Controls!Rounds, Newest(c), NEW r \in Controls!Rounds,
         stateOf[r] \in {"open", "settling"}
  PROVE  r = c
  BY OffChainAssumption DEF Newest, Controls!Rounds

(* A step of the page and its reads, the rounds and the position as they   *)
(* are.                                                                    *)
LEMMA PageStep ==
  ASSUME ControlsInv, UNCHANGED <<stateOf, position, forfeited>>,
         miner' \in Position, reads' \subseteq Position,
         board'.round \in Controls!Rounds,
         tx' \in Tx, tx'.kind = "stake" => tx'.round \in Controls!Rounds,
         \A c \in Controls!Rounds : Newest(c) /\ StakesKnown(c) => StakesKnown(c)'
  PROVE  ControlsInv'
<1>1. PICK c \in Controls!Rounds : Newest(c) /\ StakesKnown(c)
  BY DEF ControlsInv
<1>2. Newest(c)' /\ StakesKnown(c)'
  BY <1>1 DEF Newest
<1>3. ControlsType'
  BY DEF ControlsInv, ControlsType
<1> QED BY <1>2, <1>3 DEF ControlsInv

LEMMA PressStake ==
  ASSUME ControlsInv, Controls!doStake
  PROVE  ControlsInv'
<1>1. /\ loaded /\ ~ Controls!priorUnresolved
      /\ tx' = [kind |-> "stake", round |-> board.round, status |-> "sent"]
      /\ UNCHANGED <<stateOf, position, forfeited, board, miner, loaded, reads>>
  BY DEF Controls!doStake, Controls!stakeBlocked, Controls!Press, Controls!onchain, Controls!page
<1>2. ASSUME NEW c \in Controls!Rounds, Newest(c), StakesKnown(c)
      PROVE  StakesKnown(c)'
  <2>1. ASSUME position.staked, position.round # c
        PROVE  board.round # c
    <3>1. miner = position /\ miner.staked /\ miner.round > 0
      BY <1>1, <1>2, <2>1 DEF StakesKnown, ControlsInv, ControlsType
    <3>2. Controls!offerable
      BY <3>1 DEF Controls!offerable
    <3> QED BY <1>1, <2>1, <3>1, <3>2 DEF Controls!priorUnresolved
  <2> QED BY <1>1, <1>2, <2>1 DEF StakesKnown
<1>3. tx' \in Tx /\ tx'.round \in Controls!Rounds
  BY <1>1, OffChainAssumption DEF ControlsInv, ControlsType, Tx, Controls!Rounds
<1>4. miner' \in Position /\ reads' \subseteq Position /\ board'.round \in Controls!Rounds
  BY <1>1 DEF ControlsInv, ControlsType
<1> QED BY <1>1, <1>2, <1>3, <1>4, PageStep

(* The program's side: a stake that lands is in the current round, and the *)
(* position it lands on holds no other.                                    *)
LEMMA LandsStep ==
  ASSUME ControlsInv, Controls!Lands
  PROVE  ControlsInv'
<1>0. ControlsType /\ forfeited = FALSE
  BY DEF ControlsInv
<1>1. /\ tx.status = "sent" /\ Controls!Effect
      /\ tx' = [tx EXCEPT !.status = "landed"]
      /\ UNCHANGED <<stateOf, board, miner, loaded, reads>>
  BY DEF Controls!Lands, Controls!page
<1>2. PICK c \in Controls!Rounds : Newest(c) /\ StakesKnown(c)
  BY DEF ControlsInv
<1>3. Newest(c)'
  BY <1>1, <1>2 DEF Newest
<1>4. CASE tx.kind = "stake" /\ Controls!StakeDirect(tx.round)
  <2>1. tx.round = c
    BY <1>0, <1>2, <1>4, OpenIsCurrent DEF Controls!StakeDirect, ControlsType
  <2>2. ~ (position.staked /\ position.round # c)
    BY <1>1, <1>2, <1>4, <2>1 DEF StakesKnown
  <2>3. forfeited' = FALSE
    BY <1>0, <1>4, <2>1, <2>2 DEF Controls!StakeDirect
  <2>4. position' = [round |-> c, staked |-> TRUE] /\ c \in 0 .. LastRoundId /\ c > 0
    BY <1>4, <2>1, OffChainAssumption DEF Controls!StakeDirect, Controls!Rounds
  <2>5. StakesKnown(c)'
    BY <2>4 DEF StakesKnown
  <2>6. tx' \in Tx /\ tx'.round \in Controls!Rounds
    BY <1>0, <1>1, <2>1 DEF ControlsType, Tx
  <2>7. ControlsType'
    BY <1>0, <1>1, <2>4, <2>6 DEF ControlsType, Position
  <2> QED BY <1>3, <2>3, <2>5, <2>7 DEF ControlsInv
<1>5. CASE /\ tx.kind \in {"claim", "refund"}
           /\ \E s \in {"claimable", "closed"} : Controls!PayOut(tx.round, s)
  <2>1. /\ position' = [position EXCEPT !.staked = FALSE] /\ forfeited' = forfeited
        /\ position.round = tx.round
    BY <1>5 DEF Controls!PayOut
  <2>2. position' \in Position /\ position'.staked = FALSE
    BY <1>0, <2>1 DEF ControlsType, Position
  <2>3. StakesKnown(c)'
    BY <2>2 DEF StakesKnown
  <2>4. tx' \in Tx /\ tx'.kind # "stake"
    BY <1>0, <1>1, <1>5 DEF ControlsType, Tx
  <2>5. ControlsType'
    BY <1>0, <1>1, <2>2, <2>4 DEF ControlsType
  <2> QED BY <1>0, <1>3, <2>1, <2>3, <2>5 DEF ControlsInv
<1> QED BY <1>1, <1>4, <1>5 DEF Controls!Effect

(* The keeper opens a round only when the page has seen what the player    *)
(* holds in the one before.                                                *)
LEMMA OpensNext ==
  ASSUME ControlsInv, NEW c \in Controls!Rounds, Newest(c),
         c < LastRoundId, stateOf[c] \in {"claimable", "closed"},
         Controls!UpToDate, Controls!MovesRound(c + 1, "open")
  PROVE  ControlsInv'
<1>0. ControlsType /\ forfeited = FALSE
  BY DEF ControlsInv
<1>1. c + 1 \in Controls!Rounds
  BY OffChainAssumption DEF Controls!Rounds
<1>2. PICK d \in Controls!Rounds : d = c + 1
  BY <1>1
<1>3. /\ stateOf' = [stateOf EXCEPT ![d] = "open"]
      /\ UNCHANGED <<position, forfeited, board, miner, loaded, tx, reads>>
  BY <1>2 DEF Controls!MovesRound, Controls!page
<1>4. Newest(d)'
  <2>1. \A q \in Controls!Rounds : q \in Nat
    BY DEF Controls!Rounds
  <2>2. /\ stateOf'[d] = "open"
        /\ \A q \in Controls!Rounds : q # d => stateOf'[q] = stateOf[q]
    BY <1>0, <1>3 DEF ControlsType
  <2>3. \A q \in Controls!Rounds : (q > d => q > c /\ q # d) /\ (q < d => q # d /\ (q < c \/ q = c))
    BY <1>2, <2>1
  <2> QED BY <2>2, <2>3 DEF Newest
<1>5. StakesKnown(d)'
  <2>1. /\ tx = Controls!NoTx /\ \A p \in reads : p = position
        /\ loaded => miner = position
    BY DEF Controls!UpToDate
  <2> QED BY <1>3, <2>1 DEF StakesKnown, Controls!NoTx
<1>6. ControlsType'
  BY <1>0, <1>3 DEF ControlsType, RoundState
<1> QED BY <1>0, <1>3, <1>4, <1>5, <1>6 DEF ControlsInv

(* The keeper's other moves leave it at the same round. *)
LEMMA MovesOn ==
  ASSUME ControlsInv, NEW c \in Controls!Rounds, Newest(c), StakesKnown(c),
         NEW r \in Controls!Rounds, NEW to \in RoundState, Controls!MovesRound(r, to),
         \/ r = c /\ to # "absent"
         \/ r < c /\ to = "absent"
  PROVE  ControlsInv'
<1>0. ControlsType /\ forfeited = FALSE
  BY DEF ControlsInv
<1>1. /\ stateOf' = [stateOf EXCEPT ![r] = to]
      /\ UNCHANGED <<position, forfeited, board, miner, loaded, tx, reads>>
  BY DEF Controls!MovesRound, Controls!page
<1>2. Newest(c)'
  BY <1>0, <1>1 DEF Newest, ControlsType, Controls!Rounds
<1>3. StakesKnown(c)'
  BY <1>1 DEF StakesKnown
<1>4. ControlsType'
  BY <1>0, <1>1 DEF ControlsType
<1> QED BY <1>0, <1>1, <1>2, <1>3, <1>4 DEF ControlsInv

LEMMA KeeperStep ==
  ASSUME ControlsInv, Controls!KeeperMoves
  PROVE  ControlsInv'
<1>1. PICK c \in Controls!Rounds : Newest(c) /\ StakesKnown(c)
  BY DEF ControlsInv
<1>2. Controls!Current = c
  BY <1>1, CurrentIs
<1>3. CASE Controls!MovesRound(c, "settling")
  BY <1>1, <1>3, MovesOn DEF RoundState
<1>4. ASSUME NEW s \in {"claimable", "closed"}, Controls!MovesRound(c, s) PROVE ControlsInv'
  BY <1>1, <1>4, MovesOn DEF RoundState
<1>5. CASE /\ stateOf[c] \in {"claimable", "closed"}
           /\ c < LastRoundId /\ Controls!UpToDate
           /\ Controls!MovesRound(c + 1, "open")
  BY <1>1, <1>5, OpensNext
<1>6. ASSUME NEW r \in Controls!Rounds, r < c, Controls!MovesRound(r, "absent")
      PROVE  ControlsInv'
  BY <1>1, <1>6, MovesOn DEF RoundState
<1> QED BY <1>2, <1>3, <1>4, <1>5, <1>6 DEF Controls!KeeperMoves

LEMMA ControlsStep ==
  ASSUME ControlsInv, Controls!Next
  PROVE  ControlsInv'
<1>0. /\ ControlsType /\ miner \in Position /\ reads \subseteq Position
      /\ position \in Position /\ board.round \in Controls!Rounds /\ tx \in Tx
      /\ tx.kind = "stake" => tx.round \in Controls!Rounds
  BY DEF ControlsInv, ControlsType
<1>n. Controls!NoTx \in Tx /\ Controls!NoTx.kind = "none" /\ Controls!NoTx.status = "none"
  BY OffChainAssumption DEF Tx, Controls!NoTx
<1>1. CASE Controls!ReadPosition
  <2>1. /\ reads' = reads \cup {position}
        /\ UNCHANGED <<stateOf, position, forfeited, board, miner, loaded, tx>>
    BY <1>1 DEF Controls!ReadPosition, Controls!onchain, Controls!page
  <2>2. reads' \subseteq Position
    BY <1>0, <2>1
  <2>3. \A c : StakesKnown(c) => StakesKnown(c)'
    BY <2>1 DEF StakesKnown
  <2> QED BY <1>0, <2>1, <2>2, <2>3, PageStep
<1>2. CASE Controls!PositionArrives
  <2>1. PICK p \in reads : Controls!SeePosition(p) /\ reads' = reads \ {p}
    BY <1>2 DEF Controls!PositionArrives
  <2>2. miner' = p /\ UNCHANGED <<stateOf, position, forfeited, board, tx>>
    BY <2>1 DEF Controls!SeePosition, Controls!onchain
  <2>3. p \in Position /\ reads' \subseteq Position
    BY <1>0, <2>1
  <2>4. \A c : StakesKnown(c) => StakesKnown(c)'
    BY <2>1, <2>2 DEF StakesKnown
  <2> QED BY <1>0, <2>1, <2>2, <2>3, <2>4, PageStep
<1>3. CASE Controls!PollRound \/ Controls!PollArrives
  <2>1. UNCHANGED <<stateOf, position, forfeited, board, miner, loaded, tx, reads>>
    BY <1>3 DEF Controls!PollRound, Controls!PollArrives, Controls!onchain, Controls!page
  <2>2. \A c : StakesKnown(c) => StakesKnown(c)'
    BY <2>1 DEF StakesKnown
  <2> QED BY <1>0, <2>1, <2>2, PageStep
<1>4. CASE Controls!SnapshotArrives
  <2>1. /\ board'.round = Controls!Current
        /\ UNCHANGED <<stateOf, position, forfeited, miner, loaded, tx, reads>>
    BY <1>4 DEF Controls!SnapshotArrives, Controls!onchain
  <2>2. Controls!Current \in Controls!Rounds
    BY CurrentIs DEF ControlsInv
  <2>3. \A c : StakesKnown(c) => StakesKnown(c)'
    BY <2>1 DEF StakesKnown
  <2> QED BY <1>0, <2>1, <2>2, <2>3, PageStep
<1>5. ASSUME NEW kind \in {"claim", "refund"}, Controls!Press(kind, miner.round)
      PROVE  ControlsInv'
  <2>1. /\ tx' = [kind |-> kind, round |-> miner.round, status |-> "sent"]
        /\ UNCHANGED <<stateOf, position, forfeited, board, miner, loaded, reads>>
    BY <1>5 DEF Controls!Press, Controls!onchain, Controls!page
  <2>2. tx' \in Tx /\ tx'.kind # "stake"
    BY <1>0, <2>1 DEF Tx, Position
  <2>3. \A c : StakesKnown(c) => StakesKnown(c)'
    BY <2>1, <2>2 DEF StakesKnown
  <2> QED BY <1>0, <2>1, <2>2, <2>3, PageStep
<1>6. CASE Controls!doClaim \/ Controls!doRefund
  BY <1>5, <1>6 DEF Controls!doClaim, Controls!doRefund, Controls!stakedRound
<1>7. CASE Controls!Answered
  <2>1. /\ tx' = Controls!NoTx /\ reads' = reads \cup {position}
        /\ UNCHANGED <<stateOf, position, forfeited, board, miner, loaded>>
    BY <1>7 DEF Controls!Answered, Controls!onchain, Controls!page
  <2>2. reads' \subseteq Position
    BY <1>0, <2>1
  <2>3. \A c : StakesKnown(c) => StakesKnown(c)'
    BY <1>n, <2>1 DEF StakesKnown
  <2> QED BY <1>0, <1>n, <2>1, <2>2, <2>3, PageStep
<1>8. CASE Controls!Fails
  <2>1. /\ tx' = Controls!NoTx
        /\ UNCHANGED <<stateOf, position, forfeited, board, miner, loaded, reads>>
    BY <1>8 DEF Controls!Fails, Controls!onchain, Controls!page
  <2>2. \A c : StakesKnown(c) => StakesKnown(c)'
    BY <1>n, <2>1 DEF StakesKnown
  <2> QED BY <1>0, <1>n, <2>1, <2>2, PageStep
<1> QED BY <1>1, <1>2, <1>3, <1>4, <1>6, <1>7, <1>8, PressStake, LandsStep, KeeperStep
        DEF Controls!Next

LEMMA ControlsAlways == Spec => []ControlsInv
<1>1. ControlsInv /\ [Next]_mcvars => ControlsInv'
  <2> SUFFICES ASSUME ControlsInv, [Next]_mcvars PROVE ControlsInv'
    OBVIOUS
  <2>1. CASE UNCHANGED page
    <3>1. UNCHANGED <<stateOf, position, forfeited, board, miner, loaded, tx, reads>>
      BY <2>1 DEF page
    <3>2. ControlsType' /\ \A c : (Newest(c) => Newest(c)') /\ (StakesKnown(c) => StakesKnown(c)')
      BY <3>1 DEF ControlsInv, ControlsType, Newest, StakesKnown
    <3> QED BY <3>1, <3>2 DEF ControlsInv
  <2>2. Controls!Next \/ UNCHANGED page
    BY DEF Next, Others, mcvars
  <2> QED BY <2>1, <2>2, ControlsStep
<1> QED BY <1>1, ControlsStart, PTL DEF Spec

(* PlayControls.tsx, stakeBlocked: while position reads succeed, a stake   *)
(* the page sends never lands on a position that holds stakes of a round   *)
(* still to be paid out or refunded, however late the answers come.        *)
THEOREM StakesNeverForfeit == Spec => []NeverForfeits
<1>1. ControlsInv => NeverForfeits
  BY DEF ControlsInv, NeverForfeits, Controls!NeverForfeits
<1> QED BY <1>1, ControlsAlways, PTL

-----------------------------------------------------------------------------
(* The keeper's money *)

Targets == {Treasury!Target(rate) : rate \in Rates}

(* The floor is always a market's, and so is the one on its way: a quote   *)
(* that is worth nothing sets none.                                        *)
TreasuryInv ==
  /\ market \in Rates
  /\ settled \in Pots \cup {0}
  /\ floor \in Targets /\ update \in Targets \cup {-1}
  /\ inventory \in Int /\ treasury \in Int /\ amount \in Int

(* Every round the keeper pays is large enough for every market's floor to *)
(* ask something for it.                                                   *)
FloorBites ==
  \A p \in Pots, rate \in Rates : (Treasury!Net(p) * Treasury!Target(rate)) \div Sol > 0

LEMMA TreasuryStart == Init => TreasuryInv
  BY OffChainAssumption DEF Init, Treasury!Init, TreasuryInv, Targets

LEMMA TreasuryAmounts ==
  ASSUME TreasuryInv
  PROVE  /\ \A x \in Int : /\ Treasury!Net(x) \in Int /\ Treasury!Worth(x) \in Int
                           /\ Treasury!Quotes(x) \subseteq Int
         /\ settled \in Int /\ KeepSol \in Int
<1>1. market \in Nat /\ Sol \in Nat \ {0} /\ FeeBps \in Nat /\ KeepSol \in Int /\ settled \in Int
  BY OffChainAssumption DEF TreasuryInv
<1>2. ASSUME NEW x \in Int PROVE Treasury!Net(x) \in Int /\ Treasury!Worth(x) \in Int
  <2>1. PICK fee \in Int, worth \in Int : fee = x * FeeBps /\ worth = x * market
    BY <1>1
  <2>2. fee \div 10000 \in Int /\ worth \div Sol \in Int
    BY <1>1, <2>1
  <2> QED BY <2>1, <2>2 DEF Treasury!Net, Treasury!Fee, Treasury!Worth
<1> QED BY <1>1, <1>2 DEF Treasury!Quotes

(* The quote for one SOL is the market's rate. *)
LEMMA WorthOfOne ==
  ASSUME TreasuryInv
  PROVE  Treasury!Worth(Sol) = market
<1>1. market \in Nat /\ Sol \in Nat \ {0}
  BY OffChainAssumption DEF TreasuryInv
<1>2. (Sol * market) \div Sol = market
  BY <1>1
<1> QED BY <1>2 DEF Treasury!Worth

LEMMA TreasuryStep ==
  ASSUME TreasuryInv, Treasury!Next
  PROVE  TreasuryInv'
<1>0. /\ \A x \in Int : /\ Treasury!Net(x) \in Int /\ Treasury!Worth(x) \in Int
                        /\ Treasury!Quotes(x) \subseteq Int
      /\ settled \in Int /\ KeepSol \in Int
  BY TreasuryAmounts
<1>1. CASE Treasury!MarketMoves
  BY <1>1 DEF Treasury!MarketMoves, Treasury!purse, TreasuryInv
<1>2. CASE Treasury!RoundSettles
  BY <1>2 DEF Treasury!RoundSettles, Treasury!purse, TreasuryInv
<1>3. CASE Treasury!Tick
  BY <1>0, <1>3 DEF Treasury!Tick, Treasury!GoTo, Treasury!purse, TreasuryInv
<1>4. CASE Treasury!CheckInventory
  BY <1>4 DEF Treasury!CheckInventory, Treasury!GoTo, Treasury!purse, TreasuryInv
<1>5. CASE Treasury!SendSwap
  <2>1. /\ settled' \in {settled, 0} /\ inventory' \in {inventory, inventory - amount}
        /\ treasury' \in {treasury, treasury + settled} /\ amount' = 0
        /\ UNCHANGED <<market, floor, update>>
    BY <1>5 DEF Treasury!SendSwap, Treasury!GoTo
  <2>2. inventory' \in Int /\ treasury' \in Int
    BY <1>0, <2>1 DEF TreasuryInv
  <2> QED BY <2>1, <2>2 DEF TreasuryInv
<1>6. CASE Treasury!CountTick
  BY <1>6 DEF Treasury!CountTick, Treasury!GoTo, Treasury!purse, TreasuryInv
<1>7. CASE Treasury!Sweep
  <2> DEFINE sweep == treasury - KeepSol
  <2>1. sweep \in Int /\ Treasury!Net(sweep) \in Int /\ treasury - sweep \in Int
    BY <1>0 DEF TreasuryInv
  <2> HIDE DEF sweep
  <2>2. /\ treasury' \in {treasury, treasury - sweep} /\ amount' \in {0, Treasury!Net(sweep)}
        /\ UNCHANGED <<market, floor, update, settled, inventory>>
    BY <1>7 DEF Treasury!Sweep, Treasury!GoTo, sweep
  <2> QED BY <2>1, <2>2 DEF TreasuryInv
<1>8. CASE Treasury!Buy
  <2>1. inventory + Treasury!Worth(amount) \in Int
    BY <1>0 DEF TreasuryInv
  <2> QED BY <1>8, <2>1 DEF Treasury!Buy, Treasury!GoTo, TreasuryInv
<1>9. CASE Treasury!LegFails
  BY <1>9 DEF Treasury!LegFails, Treasury!GoTo, Treasury!purse, TreasuryInv
<1>10. CASE Treasury!FloorQuote
  <2>1. PICK rate \in Treasury!Quotes(Sol) : Treasury!Usable(rate) /\ update' = Treasury!Target(rate)
    BY <1>10 DEF Treasury!FloorQuote
  <2>2. rate = market
    BY <2>1, WorthOfOne DEF Treasury!Quotes, Treasury!Usable
  <2>3. update' \in Targets
    BY <2>1, <2>2 DEF TreasuryInv, Targets
  <2> QED BY <1>10, <2>3 DEF Treasury!FloorQuote, Treasury!world, Treasury!purse, TreasuryInv
<1>11. CASE Treasury!FloorSend
  <2>1. /\ update # -1 /\ update' = -1 /\ floor' \in {update, floor}
        /\ UNCHANGED <<market, settled, inventory, treasury, amount>>
    BY <1>11 DEF Treasury!FloorSend, Treasury!world, Treasury!purse
  <2> QED BY <2>1 DEF TreasuryInv
<1> QED BY <1>1, <1>2, <1>3, <1>4, <1>5, <1>6, <1>7, <1>8, <1>9, <1>10, <1>11
        DEF Treasury!Next, Treasury!MainLoop, Treasury!FloorLoop

LEMMA TreasuryAlways == Spec => []TreasuryInv
<1>1. TreasuryInv /\ [Next]_mcvars => TreasuryInv'
  <2> SUFFICES ASSUME TreasuryInv, [Next]_mcvars PROVE TreasuryInv'
    OBVIOUS
  <2>1. CASE UNCHANGED money
    BY <2>1 DEF money, TreasuryInv, Targets
  <2>2. Treasury!Next \/ UNCHANGED money
    BY DEF Next, Others, mcvars
  <2> QED BY <2>1, <2>2, TreasuryStep
<1> QED BY <1>1, TreasuryStart, PTL DEF Spec

(* A step that ends a round pays what the floor asks, or more. *)
LEMMA PaysTheFloor ==
  ASSUME FloorBites, TreasuryInv, [Next]_mcvars, settled # 0, settled' = 0
  PROVE  inventory' < inventory
<1>1. Treasury!Next
  BY DEF Next, Others, mcvars, money
<1>2. Treasury!SendSwap
  BY <1>1 DEF Treasury!Next, Treasury!MainLoop, Treasury!FloorLoop, Treasury!MarketMoves,
     Treasury!RoundSettles, Treasury!Tick, Treasury!CheckInventory, Treasury!CountTick,
     Treasury!Sweep, Treasury!Buy, Treasury!LegFails, Treasury!FloorQuote, Treasury!FloorSend,
     Treasury!world
<1>3. amount >= (Treasury!Net(settled) * floor) \div Sol /\ inventory' = inventory - amount
  BY <1>2 DEF Treasury!SendSwap
<1>4. PICK rate \in Rates : floor = Treasury!Target(rate)
  BY DEF TreasuryInv, Targets
<1>5. settled \in Pots
  BY DEF TreasuryInv
<1>6. PICK least \in Int : least = (Treasury!Net(settled) * floor) \div Sol /\ least > 0
  <2>1. Treasury!Net(settled) \in Int
    BY TreasuryAmounts
  <2>2. floor \in Int
    <3>1. PICK x \in Nat : x = rate
      BY OffChainAssumption
    <3>2. (x * 9200) \div 10000 \in Int
      BY <3>1
    <3> QED BY <1>4, <3>1, <3>2 DEF Treasury!Target
  <2>3. PICK x \in Int : x = Treasury!Net(settled) * floor
    BY <2>1, <2>2
  <2>4. x \div Sol \in Int
    BY <2>3, OffChainAssumption
  <2> QED BY <1>4, <1>5, <2>3, <2>4 DEF FloorBites
<1>7. amount \in Int /\ inventory \in Int
  BY DEF TreasuryInv
<1> QED BY <1>3, <1>6, <1>7

(* floor.ts, actions.ts: worthless quotes, for a round or for the floor,   *)
(* in whatever order they come, never have a round paid nothing.           *)
THEOREM RoundsArePaidSomething ==
  ASSUME FloorBites
  PROVE  Spec => NeverPaidNothing
<1> DEFINE Pays == settled # 0 /\ settled' = 0 => inventory' < inventory
<1>1. TreasuryInv /\ [Next]_mcvars => [Pays]_(Treasury!tvars)
  BY PaysTheFloor
<1>2. NeverPaidNothing <=> [][Pays]_(Treasury!tvars)
  BY DEF NeverPaidNothing, Treasury!NeverPaidNothing
<1> HIDE DEF Pays
<1> QED BY <1>1, <1>2, TreasuryAlways, PTL DEF Spec

-----------------------------------------------------------------------------
(* The SDK's builders *)

(* No row of the program is signed by an account its builder leaves out. *)
LEMMA EveryBuilder ==
  ASSUME NEW c \in Builders!Builders
  PROVE  \A a \in DOMAIN c.takes : c.takes[a].signer => a \in c.given
<1> USE DEF Builders!CallFor, Builders!Call, Builders!Account, Builders!Signer,
            Builders!Payer, Builders!Passed, Builders!PassedMut, Builders!Reads,
            Builders!Writes, Builders!Fixed, Builders!Optional
<1>1. CASE c \in {Builders!createRoundIx, Builders!delegateRoundIx,
               Builders!requestSettleIx, Builders!settleIx, Builders!commitRoundIx,
               Builders!commitMinerIx}
  BY <1>1 DEF Builders!createRoundIx, Builders!delegateRoundIx, Builders!requestSettleIx,
     Builders!settleIx, Builders!commitRoundIx, Builders!commitMinerIx,
     Builders!createRound, Builders!delegateRound, Builders!requestSettle, Builders!settle,
     Builders!commitRound, Builders!commitMiner
<1>2. CASE c \in {Builders!reconcileMinerIx, Builders!executeSwapMockIx,
               Builders!cancelRoundIx, Builders!setRoundDurationIx, Builders!setReturnBandIx}
  BY <1>2 DEF Builders!reconcileMinerIx, Builders!executeSwapMockIx, Builders!cancelRoundIx,
     Builders!setRoundDurationIx, Builders!setReturnBandIx, Builders!reconcileMiner,
     Builders!executeSwapMock, Builders!cancelRound, Builders!setRoundDuration,
     Builders!setReturnBand
<1>3. CASE c \in {Builders!initBeefIx, Builders!setBeefParamsIx, Builders!stampBeefIx,
               Builders!initializeRealIx, Builders!executeSwapRealIx,
               Builders!sweepTreasuryIx}
  BY <1>3 DEF Builders!initBeefIx, Builders!setBeefParamsIx, Builders!stampBeefIx,
     Builders!initializeRealIx, Builders!executeSwapRealIx, Builders!sweepTreasuryIx,
     Builders!initBeef, Builders!setBeefParams, Builders!stampBeef, Builders!initializeReal,
     Builders!executeSwapReal, Builders!sweepTreasury
<1>4. CASE c \in {Builders!sweepBeefExcessIx, Builders!closeRoundIx,
               Builders!setClaimWindowIx, Builders!setMinSwapRateIx,
               Builders!setStakeLimitsIx}
  BY <1>4 DEF Builders!sweepBeefExcessIx, Builders!closeRoundIx, Builders!setClaimWindowIx,
     Builders!setMinSwapRateIx, Builders!setStakeLimitsIx, Builders!sweepBeefExcess,
     Builders!closeRound, Builders!setClaimWindow, Builders!setMinSwapRate,
     Builders!setStakeLimits
<1>5. CASE c \in {Builders!depositIx, Builders!withdrawIx, Builders!initMinerIx,
               Builders!joinRoundIx, Builders!delegateMinerIx, Builders!stakeIx,
               Builders!claimIx}
  BY <1>5 DEF Builders!depositIx, Builders!withdrawIx, Builders!initMinerIx,
     Builders!joinRoundIx, Builders!delegateMinerIx, Builders!stakeIx, Builders!claimIx,
     Builders!deposit, Builders!withdraw, Builders!initMiner, Builders!joinRound,
     Builders!delegateMiner, Builders!stake, Builders!claim
<1>6. CASE c \in {Builders!refundIx, Builders!stakeDirectIx, Builders!claimDirectIx,
               Builders!refundDirectIx, Builders!rollBeefIx, Builders!claimBeefIx}
  BY <1>6 DEF Builders!refundIx, Builders!stakeDirectIx, Builders!claimDirectIx,
     Builders!refundDirectIx, Builders!rollBeefIx, Builders!claimBeefIx, Builders!refund,
     Builders!stakeDirect, Builders!claimDirect, Builders!refundDirect, Builders!rollBeef,
     Builders!claimBeef
<1> QED BY <1>1, <1>2, <1>3, <1>4, <1>5, <1>6 DEF Builders!Builders

(* instructions/keeper.ts, player.ts: no builder of the SDK leaves it to   *)
(* the resolver to find who signs.                                         *)
THEOREM SignersAreThePassed == Spec => []SignersPassed
<1>1. Init => call \in Builders!Builders
  BY DEF Init, Builders!Init
<1>2. call \in Builders!Builders /\ [Next]_mcvars => (call \in Builders!Builders)'
  <2>1. ASSUME [Next]_mcvars PROVE call' = call
    <3>1. Builders!Next => call' = call
      BY DEF Builders!Next, Builders!Resolve, Builders!Build
    <3> QED BY <2>1, <3>1 DEF Next, Others, mcvars, builders
  <2>2. Builders!Builders' = Builders!Builders
    OBVIOUS
  <2> QED BY <2>1, <2>2
<1>3. call \in Builders!Builders => SignersPassed
  BY EveryBuilder DEF SignersPassed, Builders!SignersPassed
<1> QED BY <1>1, <1>2, <1>3, PTL DEF Spec
===============================================================================
