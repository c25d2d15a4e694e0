------------------------------ MODULE RevealShow ------------------------------
(***************************************************************************)
(* What the app's board shows of a round's end (app/src/hooks/             *)
(* use-reveal.ts, fed by lib/keeper-client.ts): the reveal of a settled    *)
(* round, the sweep of an empty one, replays of either's past, all run by  *)
(* timers while the keeper's snapshots keep arriving.  Some snapshots are  *)
(* missed, and the one fetched at the start may come last.                 *)
(***************************************************************************)
EXTENDS Integers

CONSTANTS
  Cells,              \* squares on the board, revealed one by one
  LastRound,          \* bound: the last round the keeper serves
  MaxReplays          \* bound: clicks on the replay button

States  == {"open", "vrf_pending", "settled", "claimable", "closed"}
NoSnap  == [round |-> 0, state |-> "none", empty |-> TRUE]
Stored  == [round |-> 1, state |-> "settled", empty |-> FALSE]   \* from an earlier visit
Gone    == [NoSnap EXCEPT !.state = "gone"]
NoShow  == [mode |-> "none", round |-> 0]

VARIABLES
  live,               \* the keeper's current snapshot
  cold,               \* the fetch of the start: NoSnap, its answer, then Gone
  snapshot,           \* what the page has; also lastSnap when the next one comes
  playedRound,        \* the round whose ending has been handled
  lastFinished,       \* the last real reveal
  snapshotOverride,   \* the past round a replay is about
  showing,            \* mode, and the round the show is about
  cells,              \* how many are revealed, -1 when no show is on
  jackpotShown, sweeping,
  timers,             \* what is scheduled, and for which show
  replays

feed  == <<live, cold>>
stage == <<snapshotOverride, showing, cells, jackpotShown, sweeping, timers>>
rvars == <<live, cold, snapshot, playedRound, lastFinished, snapshotOverride,
           showing, cells, jackpotShown, sweeping, timers, replays>>

Init ==
  /\ live = [round |-> 2, state |-> "open", empty |-> TRUE]
  /\ cold = NoSnap
  /\ snapshot = NoSnap
  /\ playedRound = 0
  /\ lastFinished \in {NoSnap, Stored}
  /\ snapshotOverride = NoSnap /\ showing = NoShow
  /\ cells = -1 /\ jackpotShown = FALSE /\ sweeping = FALSE
  /\ timers = {}
  /\ replays = 0

-----------------------------------------------------------------------------
(* Timers and shows *)

Dismiss == Cells + 2
Frames(show, selfDismiss) ==
  [show : {show}, frame : 1 .. IF selfDismiss THEN Dismiss ELSE Cells + 1]

(* clear() cancels what is scheduled, and a new generation ignores it.     *)
NeverCleared(more) == timers \cup more                      \* mutant of Cleared
Cleared(more) == more

resetToLive ==
  /\ timers' = Cleared({})
  /\ sweeping' = FALSE /\ snapshotOverride' = NoSnap
  /\ showing' = NoShow /\ cells' = -1 /\ jackpotShown' = FALSE

Raise(show, override, selfDismiss) ==
  /\ timers' = Cleared(Frames(show, selfDismiss))
  /\ sweeping' = (show.mode = "sweep")
  /\ snapshotOverride' = override
  /\ showing' = show /\ cells' = 0 /\ jackpotShown' = FALSE

play(snap, selfDismiss, override) ==
  Raise([mode |-> "settle", round |-> snap.round], override, selfDismiss)
playSweep(snap) ==
  Raise([mode |-> "sweep", round |-> snap.round], NoSnap, TRUE)

(* A timer fires after the earlier ones of its show. *)
Fire(t) ==
  /\ t \in timers
  /\ \A u \in timers : u.show = t.show => t.frame <= u.frame
  /\ IF t.frame = Dismiss
     THEN resetToLive
     ELSE /\ timers' = timers \ {t}
          /\ cells' = IF t.frame <= Cells THEN cells + 1 ELSE cells
          /\ jackpotShown' = (t.frame > Cells)
          /\ UNCHANGED <<snapshotOverride, showing, sweeping>>
  /\ UNCHANGED <<feed, snapshot, playedRound, lastFinished, replays>>

-----------------------------------------------------------------------------
(* A snapshot arrives: the effect on [roundId, state] *)

Drawn(s) == s.state \in {"settled", "claimable"}

KeptOverride == snapshotOverride                            \* mutant of NaturalOverride
NaturalOverride == NoSnap

Settles(s) ==
  /\ Drawn(s) /\ playedRound # s.round
  /\ playedRound' = s.round /\ lastFinished' = s
  /\ play(s, FALSE, NaturalOverride)

Scrapped(s) ==
  /\ s.state = "closed" /\ playedRound # s.round
  /\ playedRound' = s.round
  /\ IF s.empty THEN playSweep(s) ELSE resetToLive
  /\ UNCHANGED lastFinished

(* The snapshot before was an empty round, and its end was not seen. *)
EndMissed(s) ==
  /\ snapshot.round \notin {0, s.round, playedRound}
  /\ snapshot.empty

Opens(s) ==
  /\ s.state = "open" /\ playedRound # s.round
  /\ IF EndMissed(s)
     THEN playedRound' = snapshot.round /\ playSweep(s)
     ELSE /\ UNCHANGED playedRound
          /\ IF sweeping THEN UNCHANGED stage ELSE resetToLive
  /\ UNCHANGED lastFinished

SameOrHandled(s) ==
  /\ \/ s.round = snapshot.round /\ s.state = snapshot.state
     \/ s.state = "vrf_pending" \/ playedRound = s.round
  /\ UNCHANGED <<stage, playedRound, lastFinished>>

Changed(s) == s.round # snapshot.round \/ s.state # snapshot.state

Receive(s) ==
  /\ snapshot' = s
  /\ \/ Changed(s) /\ (Settles(s) \/ Scrapped(s) \/ Opens(s))
     \/ SameOrHandled(s)
  /\ UNCHANGED replays

(* keeper-client: a frame of the socket, and the fetch of the start, which *)
(* the server answers at some time and the page gets at a later one.       *)
Frame == live # snapshot /\ Receive(live) /\ UNCHANGED feed

ColdAnswer ==
  /\ cold = NoSnap /\ cold' \in {live, Gone}
  /\ UNCHANGED <<live, snapshot, playedRound, lastFinished, stage, replays>>

ColdLoad ==
  /\ cold \notin {NoSnap, Gone}
  /\ Receive(cold)
  /\ cold' = Gone /\ UNCHANGED live

(* The replay button, which is there when no show is on.                   *)
CanReplay == lastFinished # NoSnap \/ Drawn(snapshot)

LeftOn(snap) == FALSE                                       \* mutant of HandsBack
HandsBack(snap) == ~ Drawn(snap)

replay ==
  /\ snapshot # NoSnap /\ cells = -1 /\ CanReplay
  /\ replays < MaxReplays /\ replays' = replays + 1
  /\ IF Drawn(snapshot)
     THEN play(snapshot, HandsBack(snapshot), NoSnap)
     ELSE play(lastFinished, HandsBack(snapshot), lastFinished)
  /\ UNCHANGED <<feed, snapshot, playedRound, lastFinished>>

-----------------------------------------------------------------------------
(* The keeper's rounds: staked or not, drawn or scrapped. *)
Follows(s, t) ==
  \/ t = [s EXCEPT !.empty = FALSE] /\ s.state = "open" /\ s.empty
  \/ /\ t.round = s.round /\ t.empty = s.empty
     /\ \/ s.state = "open" /\ t.state = (IF s.empty THEN "closed" ELSE "vrf_pending")
        \/ s.state = "vrf_pending" /\ t.state \in {"settled", "closed"}
        \/ s.state = "settled" /\ t.state = "claimable"
  \/ /\ s.state \in {"claimable", "closed"}
     /\ t = [round |-> s.round + 1, state |-> "open", empty |-> TRUE]

KeeperMoves ==
  /\ live' \in [round : 2 .. LastRound, state : States, empty : BOOLEAN]
  /\ Follows(live, live')
  /\ UNCHANGED <<cold, snapshot, playedRound, lastFinished, stage, replays>>

TimerFires == \E t \in timers : Fire(t)

Next == KeeperMoves \/ Frame \/ ColdAnswer \/ ColdLoad \/ replay \/ TimerFires

(* Timers do fire; frames, clicks and the keeper promise nothing.          *)
Spec == Init /\ [][Next]_rvars /\ WF_rvars(TimerFires)

-----------------------------------------------------------------------------
(* Properties *)

Rendered == IF snapshotOverride # NoSnap THEN snapshotOverride ELSE snapshot

(* use-reveal.ts:74, "a straggler timer from a previous round's reveal can *)
(* never write state after the board moved on".                            *)
NoStraggler == \A t \in timers : t.show = showing

(* PlayBoard.tsx:116, "the gold square must land where it did on-chain":   *)
(* at a reveal's finale the board never has another round's draw on it.    *)
GoldLandsRight ==
  jackpotShown /\ showing.mode = "settle" /\ Drawn(Rendered)
    => Rendered.round = showing.round

(* A sweep and a replay of a past round give the board back to the live    *)
(* round by themselves, whatever arrives meanwhile, and if nothing does.   *)
BoardHandedBack ==
  showing.mode = "sweep" \/ snapshotOverride # NoSnap
    ~> showing.mode # "sweep" /\ snapshotOverride = NoSnap
=============================================================================
