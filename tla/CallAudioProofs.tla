--------------------------- MODULE CallAudioProofs ---------------------------
(***************************************************************************)
(* The safety of the gate of CallAudio, for any number of playbacks and    *)
(* barge-ins.                                                              *)
(***************************************************************************)
EXTENDS CallAudio, FiniteSetTheorems, TLAPS

USE DEF sessionVars, playVars, histVars

Counted(g) == g.count = Cardinality(g.tokens) /\ (g.playing <=> g.tokens # {})

Live == cleanup \in {"no", "begun"}

(* The session leaves the store at the end of the call only. *)
StoredWhileLive == ~stored => cleanup = "done"

(* A playback that has started or is being asked for holds its token, unless it is
   one of those that lost it early.                                          *)
Audible(p) == asterisk[p] = "playing" \/ (player[p] = "ari" /\ asterisk[p] = "none")
AudibleIsHeld == \A p \in Playbacks : Audible(p) /\ Live => p \in gate.tokens \cup ungated

(* A token or a file comes with a reference. *)
TokenHasRef == Live => gate.tokens \subseteq refs
FileHasRef == \A p \in files : player[p] = "ari" => p \in refs

(* A timer is set when the request has been answered. *)
TimerIsLast == \A p \in timers : player[p] = "over"
StartedIsAsked == \A p \in Playbacks : player[p] = "none" => asterisk[p] = "none"

Shape == TypeOK /\ TokensAreCounted /\ StoredWhileLive /\ TimerIsLast /\ StartedIsAsked
Releases == TokenHasReleaser /\ TokenHasRef /\ FileHasOwner /\ FileHasRef
IInv == Shape /\ Releases /\ GatedWhileHeld /\ AudibleIsHeld
-----------------------------------------------------------------------------
(* The operators of the gate *)

LEMMA TokensFinite ==
  ASSUME NEW ts \in SUBSET Playbacks
  PROVE  /\ IsFiniteSet(ts) /\ Cardinality(ts) \in 0..Cardinality(Playbacks)
         /\ Cardinality(ts) = 0 <=> ts = {}
<1>1. IsFiniteSet(Playbacks)
  BY CallAudioAssumption
<1>2. /\ IsFiniteSet(ts) /\ Cardinality(ts) <= Cardinality(Playbacks)
  BY <1>1, FS_Subset
<1>3. Cardinality(ts) \in Nat /\ Cardinality(Playbacks) \in Nat
  BY <1>1, <1>2, FS_CardinalityType
<1>4. Cardinality(ts) = 0 <=> ts = {}
  BY <1>2, FS_EmptySet
<1> QED
  BY <1>2, <1>3, <1>4

LEMMA ClosedIs ==
  ASSUME NEW ts \in SUBSET Playbacks, ts # {}
  PROVE  /\ Closed(ts) \in Gates /\ Counted(Closed(ts))
         /\ Closed(ts).tokens = ts /\ ~Closed(ts).capture
BY TokensFinite DEF Closed, Gates, Counted

LEMMA OpenedIs ==
  Opened \in Gates /\ Counted(Opened) /\ Opened.tokens = {}
<1>1. Cardinality({}) = 0 /\ 0 \in 0..Cardinality(Playbacks)
  BY TokensFinite
<1> QED
  BY <1>1 DEF Opened, Gates, Counted

LEMMA SetTokenIs ==
  ASSUME NEW g \in Gates, NEW p \in Playbacks
  PROVE  /\ SetToken(g, p) \in Gates /\ Counted(SetToken(g, p))
         /\ SetToken(g, p).tokens = g.tokens \cup {p} /\ ~SetToken(g, p).capture
<1>1. g.tokens \cup {p} \in SUBSET Playbacks
  BY DEF Gates
<1> QED
  BY <1>1, ClosedIs DEF SetToken

LEMMA ClearTokensIs ==
  ASSUME NEW g \in Gates, Counted(g), NEW ts \in SUBSET Playbacks
  PROVE  /\ ClearTokens(g, ts) \in Gates /\ Counted(ClearTokens(g, ts))
         /\ ClearTokens(g, ts).tokens = g.tokens \ ts
         /\ ClearTokens(g, ts).tokens # {} => ~ClearTokens(g, ts).capture
<1> DEFINE left == g.tokens \ ts
<1>1. left \in SUBSET Playbacks /\ g.tokens \in SUBSET Playbacks
  BY DEF Gates
<1>2. CASE left # {}
  BY <1>1, <1>2, ClosedIs DEF ClearTokens
<1>3. CASE left = {} /\ g.count = 0
  <2>1. g.tokens = {} /\ g.playing = FALSE
    BY <1>1, <1>3, TokensFinite DEF Counted, Gates
  <2>2. ClearTokens(g, ts) = [tokens |-> {}, count |-> 0, playing |-> g.playing,
                              capture |-> g.capture]
    BY <1>3 DEF ClearTokens
  <2>3. Cardinality({}) = 0 /\ 0 \in 0..Cardinality(Playbacks)
    BY TokensFinite
  <2> QED
    BY <1>3, <2>1, <2>2, <2>3 DEF Gates, Counted
<1>4. CASE left = {} /\ g.count # 0
  <2>1. ClearTokens(g, ts) = Opened
    BY <1>4 DEF ClearTokens
  <2> QED
    BY <1>4, <2>1, OpenedIs
<1> QED
  BY <1>2, <1>3, <1>4

LEMMA EndIs ==
  ASSUME gate \in Gates, Counted(gate), stored \in BOOLEAN,
         NEW ts \in SUBSET Playbacks, End(ts)
  PROVE  /\ gate' \in Gates /\ Counted(gate')
         /\ gate'.tokens \subseteq gate.tokens
         /\ stored => gate'.tokens = gate.tokens \ ts
         /\ stored /\ gate'.tokens # {} => ~gate'.capture
<1>1. CASE stored
  BY <1>1, ClearTokensIs DEF End
<1>2. CASE ~stored
  BY <1>2 DEF End
<1> QED
  BY <1>1, <1>2

LEMMA CapturingIs ==
  ASSUME NEW g \in Gates, Counted(g), NEW on \in BOOLEAN
  PROVE  /\ Capturing(g, on) \in Gates /\ Counted(Capturing(g, on))
         /\ Capturing(g, on).tokens = g.tokens
         /\ Capturing(g, on).capture <=> g.capture \/ on
BY DEF Capturing, Gates, Counted

LEMMA BargeEndsIs ==
  ASSUME TypeOK, Counted(gate), NEW b \in Bargers, BargeEnds(b)
  PROVE  /\ gate' \in Gates /\ Counted(gate')
         /\ gate'.tokens \subseteq gate.tokens
         /\ stored => gate'.tokens = {}
<1> DEFINE g == IF stored THEN ClearTokens(gate, gate.tokens) ELSE gate
<1>1. gate \in Gates /\ gate.tokens \in SUBSET Playbacks /\ barge[b].vad \in BOOLEAN
  BY DEF TypeOK, Gates
<1>2. /\ g \in Gates /\ Counted(g) /\ g.tokens \subseteq gate.tokens
      /\ stored => g.tokens = {}
  <2>1. CASE stored
    <3>1. g = ClearTokens(gate, gate.tokens)
      BY <2>1
    <3> QED
      BY <1>1, <3>1, ClearTokensIs
  <2>2. CASE ~stored
    BY <1>1, <2>2
  <2> QED
    BY <2>1, <2>2
<1>3. gate' = Capturing(g, barge[b].vad)
  BY DEF BargeEnds
<1> HIDE DEF g
<1> QED
  BY <1>1, <1>2, <1>3, CapturingIs
-----------------------------------------------------------------------------
(* The shape of the state *)

LEMMA ShapeInit == Init => Shape
<1> SUFFICES ASSUME Init PROVE Shape
  OBVIOUS
<1>1. gate \in Gates /\ Counted(gate)
  BY OpenedIs DEF Init
<1> QED
  BY <1>1 DEF Init, Shape, TypeOK, TokensAreCounted, Counted, StoredWhileLive,
              TimerIsLast, StartedIsAsked, NoBarge

LEMMA ShapeStep == Shape /\ [Next]_vars => Shape'
<1> SUFFICES ASSUME Shape, [Next]_vars PROVE Shape'
  OBVIOUS
<1> USE DEF Shape, TypeOK, StoredWhileLive, TimerIsLast, StartedIsAsked
<1>g. gate \in Gates /\ Counted(gate)
  BY DEF TokensAreCounted, Counted
<1>1. ASSUME NEW p \in Playbacks, Play(p) PROVE Shape'
  <2>1. gate' \in Gates /\ Counted(gate')
    BY <1>g, <1>1, SetTokenIs DEF Play
  <2> QED
    BY <1>1, <2>1 DEF Play, Counted, TokensAreCounted
<1>2. ASSUME NEW p \in Playbacks, Starts(p) \/ Ends(p) \/ EventLost(p) PROVE Shape'
  BY <1>g, <1>2 DEF Starts, Ends, EventLost, Counted, TokensAreCounted
<1>3. ASSUME NEW p \in Playbacks, PlayAnswered(p) PROVE Shape'
  BY <1>g, <1>3 DEF PlayAnswered, TimerOf, Counted, TokensAreCounted
<1>4. ASSUME NEW p \in Playbacks, PlayRefused(p) PROVE Shape'
  <2>1. gate' \in Gates /\ Counted(gate')
    BY <1>g, <1>4, EndIs DEF PlayRefused, RefusedToken
  <2>2. ungated' \subseteq Playbacks
    BY <1>4 DEF PlayRefused
  <2> QED
    BY <1>4, <2>1, <2>2 DEF PlayRefused, Counted, TokensAreCounted
<1>5. ASSUME NEW p \in Playbacks, PlaybackFinished(p) PROVE Shape'
  <2>1. gate' \in Gates /\ Counted(gate')
    BY <1>g, <1>5, EndIs DEF PlaybackFinished
  <2> QED
    BY <1>5, <2>1 DEF PlaybackFinished, WithoutFile, Counted, TokensAreCounted
<1>6. ASSUME NEW p \in Playbacks, GatingFallback(p) PROVE Shape'
  <2>1. gate' \in Gates /\ Counted(gate')
    BY <1>g, <1>6, EndIs DEF GatingFallback
  <2> QED
    BY <1>6, <2>1 DEF GatingFallback, WithoutFile, StillPlaying, Counted, TokensAreCounted
<1>7. ASSUME NEW b \in Bargers, NEW vad \in BOOLEAN, BargeIn(b, vad) PROVE Shape'
  <2>1. gate' \in Gates /\ Counted(gate')
    BY <1>g, <1>7, CapturingIs DEF BargeIn
  <2>2. ungated' \subseteq Playbacks
    BY <1>g, <1>7 DEF BargeIn, Gates
  <2> QED
    BY <1>7, <2>1, <2>2 DEF BargeIn, Counted, TokensAreCounted
<1>8. ASSUME NEW b \in Bargers, BargeLists(b) \/ \E p \in Playbacks : BargeStops(b, p)
      PROVE Shape'
  BY <1>g, <1>8 DEF BargeLists, BargeStops, Counted, TokensAreCounted
<1>9. ASSUME NEW b \in Bargers, BargeEnds(b) PROVE Shape'
  <2>1. gate' \in Gates /\ Counted(gate')
    BY <1>g, <1>9, BargeEndsIs
  <2>2. gate.tokens \subseteq Playbacks
    BY <1>g DEF Gates
  <2> QED
    BY <1>9, <2>1, <2>2 DEF BargeEnds, NoBarge, StillPlaying, Counted, TokensAreCounted
<1>10. CASE SetBargeIn \/ CleanupBegins
  BY <1>g, <1>10 DEF SetBargeIn, CleanupBegins, Counted, TokensAreCounted
<1>11. CASE CleanupCancels
  BY <1>g, <1>11 DEF CleanupCancels, Counted, TokensAreCounted
<1>12. CASE CleanupRemoves
  BY <1>g, <1>12 DEF CleanupRemoves, Counted, TokensAreCounted
<1>13. CASE UNCHANGED vars
  BY <1>g, <1>13 DEF vars, Counted, TokensAreCounted
<1> QED
  BY <1>1, <1>2, <1>3, <1>4, <1>5, <1>6, <1>7, <1>8, <1>9, <1>10, <1>11,
     <1>12, <1>13 DEF Next, Playback, BargeStep, CleanupStep
-----------------------------------------------------------------------------
(* What releases tokens and files *)

LEMMA ReleasesStep == Shape /\ Releases /\ [Next]_vars => Releases'
<1> SUFFICES ASSUME Shape, Releases, [Next]_vars PROVE Releases'
  OBVIOUS
<1> USE DEF Shape, TypeOK, StoredWhileLive, TimerIsLast, StartedIsAsked,
            Releases, TokenHasReleaser, TokenHasRef, FileHasOwner, FileHasRef, Live
<1>g. gate \in Gates /\ Counted(gate) /\ gate.tokens \subseteq Playbacks
  BY DEF TokensAreCounted, Counted, Gates
<1>1. ASSUME NEW p \in Playbacks, Play(p) PROVE Releases'
  <2>1. gate'.tokens = gate.tokens \cup {p}
    BY <1>g, <1>1, SetTokenIs DEF Play
  <2> QED
    BY <1>g, <1>1, <2>1 DEF Play
<1>2. ASSUME NEW p \in Playbacks, Starts(p) \/ Ends(p) \/ EventLost(p) PROVE Releases'
  BY <1>g, <1>2 DEF Starts, Ends, EventLost
<1>3. ASSUME NEW p \in Playbacks, PlayAnswered(p) PROVE Releases'
  BY <1>g, <1>3 DEF PlayAnswered, TimerOf
<1>4. ASSUME NEW p \in Playbacks, PlayRefused(p) PROVE Releases'
  <2>1. gate'.tokens \subseteq gate.tokens /\ (stored => gate'.tokens = gate.tokens \ {p})
    BY <1>g, <1>4, EndIs DEF PlayRefused, RefusedToken
  <2> QED
    BY <1>g, <1>4, <2>1 DEF PlayRefused
<1>5. ASSUME NEW p \in Playbacks, PlaybackFinished(p) PROVE Releases'
  <2>1. CASE p \in refs
    <3>1. gate'.tokens \subseteq gate.tokens /\ (stored => gate'.tokens = gate.tokens \ {p})
      BY <1>g, <1>5, <2>1, EndIs DEF PlaybackFinished
    <3> QED
      BY <1>g, <1>5, <2>1, <3>1 DEF PlaybackFinished, WithoutFile
  <2>2. CASE p \notin refs
    BY <1>g, <1>5, <2>2 DEF PlaybackFinished
  <2> QED
    BY <2>1, <2>2
<1>6. ASSUME NEW p \in Playbacks, GatingFallback(p) PROVE Releases'
  <2>1. CASE p \in refs
    <3>1. gate'.tokens \subseteq gate.tokens /\ (stored => gate'.tokens = gate.tokens \ {p})
      BY <1>g, <1>6, <2>1, EndIs DEF GatingFallback
    <3> QED
      BY <1>g, <1>6, <2>1, <3>1 DEF GatingFallback, WithoutFile
  <2>2. CASE p \notin refs
    BY <1>g, <1>6, <2>2 DEF GatingFallback
  <2> QED
    BY <2>1, <2>2
<1>7. ASSUME NEW b \in Bargers, NEW vad \in BOOLEAN, BargeIn(b, vad) PROVE Releases'
  <2>1. gate'.tokens = gate.tokens
    BY <1>g, <1>7, CapturingIs DEF BargeIn
  <2> QED
    BY <1>g, <1>7, <2>1 DEF BargeIn
<1>8. ASSUME NEW b \in Bargers, BargeLists(b) \/ \E p \in Playbacks : BargeStops(b, p)
      PROVE Releases'
  BY <1>g, <1>8 DEF BargeLists, BargeStops
<1>9. ASSUME NEW b \in Bargers, BargeEnds(b) PROVE Releases'
  <2>1. gate'.tokens \subseteq gate.tokens /\ (stored => gate'.tokens = {})
    BY <1>g, <1>9, BargeEndsIs
  <2> QED
    BY <1>g, <1>9, <2>1 DEF BargeEnds
<1>10. CASE SetBargeIn \/ CleanupBegins
  BY <1>g, <1>10 DEF SetBargeIn, CleanupBegins
<1>11. CASE CleanupCancels
  BY <1>g, <1>11 DEF CleanupCancels
<1>12. CASE CleanupRemoves
  BY <1>g, <1>12 DEF CleanupRemoves
<1>13. CASE UNCHANGED vars
  BY <1>g, <1>13 DEF vars
<1> QED
  BY <1>1, <1>2, <1>3, <1>4, <1>5, <1>6, <1>7, <1>8, <1>9, <1>10, <1>11,
     <1>12, <1>13 DEF Next, Playback, BargeStep, CleanupStep
-----------------------------------------------------------------------------
(* What keeps the gate closed *)

LEMMA ClosedStep ==
  Shape /\ GatedWhileHeld /\ AudibleIsHeld /\ [Next]_vars => (GatedWhileHeld /\ AudibleIsHeld)'
<1> SUFFICES ASSUME Shape, GatedWhileHeld, AudibleIsHeld, [Next]_vars
             PROVE  (GatedWhileHeld /\ AudibleIsHeld)'
  OBVIOUS
<1> DEFINE Shut == GatedWhileHeld /\ AudibleIsHeld
<1> USE DEF Shape, TypeOK, StoredWhileLive, TimerIsLast, StartedIsAsked,
            GatedWhileHeld, AudibleIsHeld, Audible, Live
<1>g. gate \in Gates /\ Counted(gate) /\ gate.tokens \subseteq Playbacks
  BY DEF TokensAreCounted, Counted, Gates
<1>1. ASSUME NEW p \in Playbacks, Play(p) PROVE Shut'
  <2>1. gate'.tokens = gate.tokens \cup {p} /\ ~gate'.capture
    BY <1>g, <1>1, SetTokenIs DEF Play
  <2> QED
    BY <1>g, <1>1, <2>1 DEF Play
<1>2. ASSUME NEW p \in Playbacks, Starts(p) \/ Ends(p) \/ EventLost(p) PROVE Shut'
  BY <1>g, <1>2 DEF Starts, Ends, EventLost
<1>3. ASSUME NEW p \in Playbacks, PlayAnswered(p) PROVE Shut'
  BY <1>g, <1>3 DEF PlayAnswered
<1>4. ASSUME NEW p \in Playbacks, PlayRefused(p) PROVE Shut'
  <2>1. /\ gate'.tokens \subseteq gate.tokens
        /\ stored => gate'.tokens = gate.tokens \ {p} /\ (gate'.tokens # {} => ~gate'.capture)
    BY <1>g, <1>4, EndIs DEF PlayRefused, RefusedToken
  <2> QED
    BY <1>g, <1>4, <2>1 DEF PlayRefused
<1>5. ASSUME NEW p \in Playbacks, PlaybackFinished(p) PROVE Shut'
  <2>1. CASE p \in refs
    <3>1. /\ gate'.tokens \subseteq gate.tokens
          /\ stored => gate'.tokens = gate.tokens \ {p} /\ (gate'.tokens # {} => ~gate'.capture)
      BY <1>g, <1>5, <2>1, EndIs DEF PlaybackFinished
    <3> QED
      BY <1>g, <1>5, <2>1, <3>1 DEF PlaybackFinished
  <2>2. CASE p \notin refs
    BY <1>g, <1>5, <2>2 DEF PlaybackFinished
  <2> QED
    BY <2>1, <2>2
<1>6. ASSUME NEW p \in Playbacks, GatingFallback(p) PROVE Shut'
  <2>1. CASE p \in refs
    <3>1. /\ gate'.tokens \subseteq gate.tokens
          /\ stored => gate'.tokens = gate.tokens \ {p} /\ (gate'.tokens # {} => ~gate'.capture)
      BY <1>g, <1>6, <2>1, EndIs DEF GatingFallback
    <3> QED
      BY <1>g, <1>6, <2>1, <3>1 DEF GatingFallback, StillPlaying
  <2>2. CASE p \notin refs
    BY <1>g, <1>6, <2>2 DEF GatingFallback
  <2> QED
    BY <2>1, <2>2
<1>7. ASSUME NEW b \in Bargers, NEW vad \in BOOLEAN, BargeIn(b, vad) PROVE Shut'
  <2>1. gate'.tokens = gate.tokens /\ (gate'.capture => gate.capture \/ (vad /\ ~override))
    BY <1>g, <1>7, CapturingIs DEF BargeIn
  <2> QED
    BY <1>g, <1>7, <2>1 DEF BargeIn
<1>8. ASSUME NEW b \in Bargers, BargeLists(b) \/ \E p \in Playbacks : BargeStops(b, p)
      PROVE Shut'
  BY <1>g, <1>8 DEF BargeLists, BargeStops
<1>9. ASSUME NEW b \in Bargers, BargeEnds(b) PROVE Shut'
  <2>1. gate'.tokens \subseteq gate.tokens /\ (stored => gate'.tokens = {})
    BY <1>g, <1>9, BargeEndsIs
  <2> QED
    BY <1>g, <1>9, <2>1 DEF BargeEnds, StillPlaying
<1>10. CASE SetBargeIn \/ CleanupBegins
  BY <1>g, <1>10 DEF SetBargeIn, CleanupBegins
<1>11. CASE CleanupCancels
  BY <1>g, <1>11 DEF CleanupCancels
<1>12. CASE CleanupRemoves
  BY <1>g, <1>12 DEF CleanupRemoves
<1>13. CASE UNCHANGED vars
  BY <1>g, <1>13 DEF vars
<1> QED
  BY <1>1, <1>2, <1>3, <1>4, <1>5, <1>6, <1>7, <1>8, <1>9, <1>10, <1>11,
     <1>12, <1>13 DEF Next, Playback, BargeStep, CleanupStep
-----------------------------------------------------------------------------
(* Every step keeps the invariant, and what follows from it. *)

THEOREM Invariance == Spec => []IInv
<1>1. Init => IInv
  <2> SUFFICES ASSUME Init PROVE IInv
    OBVIOUS
  <2>1. Shape
    BY ShapeInit
  <2>2. gate.tokens = {}
    BY OpenedIs DEF Init
  <2> QED
    BY <2>1, <2>2 DEF Init, IInv, Releases, TokenHasReleaser, TokenHasRef, FileHasOwner,
       FileHasRef, GatedWhileHeld, AudibleIsHeld, Audible
<1>2. IInv /\ [Next]_vars => IInv'
  BY ShapeStep, ReleasesStep, ClosedStep DEF IInv
<1> QED
  BY <1>1, <1>2, PTL DEF Spec

(* The state is well typed, for any playbacks and barge-ins. *)
THEOREM TypeCorrect == Spec => []TypeOK
<1>1. IInv => TypeOK
  BY DEF IInv, Shape
<1> QED
  BY <1>1, Invariance, PTL

(* tts_active_count is the number of tokens, the call plays while there is one, and
   the recognizer gets no audio while one is held, but for the VAD path of a
   barge-in that is switched off: session_store.py, lines 112-121 and 163-174. *)
THEOREM Gating == Spec => []GateMatchesTokens
<1>1. IInv => GateMatchesTokens
  BY DEF IInv, Shape, GateMatchesTokens
<1> QED
  BY <1>1, Invariance, PTL

(* What the caller hears is not recognized: with several playbacks and barge-ins
   at once the end of one opens the gate to no other.  The playbacks that are not
   gated are those in ungated, which is also where one goes whose answer is lost
   while it plays.                                                           *)
THEOREM NoEcho == Spec => []PlayingIsGated
<1>1. IInv => PlayingIsGated
  <2> SUFFICES ASSUME IInv, NEW p \in Playbacks, asterisk[p] = "playing", stored,
                      cleanup = "no", gate.capture
               PROVE  p \in ungated
    BY DEF PlayingIsGated
  <2>1. p \in gate.tokens \cup ungated
    BY DEF IInv, AudibleIsHeld, Audible, Live
  <2>2. gate.tokens \subseteq ungated
    BY DEF IInv, GatedWhileHeld
  <2> QED
    BY <2>1, <2>2
<1> QED
  BY <1>1, Invariance, PTL

(* Every token of a live call can still be released without an event of Asterisk. *)
THEOREM Released == Spec => []TokenHasReleaser
<1>1. IInv => TokenHasReleaser
  BY DEF IInv, Releases
<1> QED
  BY <1>1, Invariance, PTL

(* No audio file is left behind but by a request that failed or was cancelled. *)
THEOREM NoFileLeft == Spec => []FileHasOwner
<1>1. IInv => FileHasOwner
  BY DEF IInv, Releases
<1> QED
  BY <1>1, Invariance, PTL
=============================================================================
