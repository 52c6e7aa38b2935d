---------------------------- MODULE Hotkey_proofs ----------------------------
(* The listener is never stuck, asks only for chords whose modifiers are      *)
(* down, and answers none of them twice, for any chord and number of presses. *)
EXTENDS Hotkey, TLAPS

USE KeysOK DEF listener

(* The strengthening.  What the listener remembers is down for the desktop;   *)
(* an active combination has a key that is still to go up; and as long as the *)
(* worker types nothing, a held and unanswered chord has its credit, or owes  *)
(* its answer to a key that went up over it.                                  *)
Remembers == pressed \subseteq logical
Releasable == comboActive => logical # {}
Accounted == ~typed =>
  /\ logical \subseteq held
  /\ platform # "Windows" => pressed = held
  /\ credit + overlaps >= 0
  /\ Chord \subseteq held /\ ~comboActive => credit + overlaps >= 1

Positions == /\ last # NoKey => last \in held
             /\ typing > 1 => typed

Invariant == /\ TypeOK /\ Positions
             /\ credit <= Presses - pressesLeft
             /\ Remembers /\ Releasable /\ Accounted

LEMMA Numbers == Presses \in Nat /\ MaxQueue \in Nat
  OBVIOUS

LEMMA OneLess ==
  ASSUME NEW a \in Int, NEW b \in Int, NEW n \in Int, b >= a - 1, a + n >= 1
  PROVE  b + n >= 0
  OBVIOUS

LEMMA Letter == /\ \A k \in Chord \ Modifiers : Chord \ Modifiers = {k}
                /\ Chord # {} /\ Chord \subseteq Keys
                /\ PasteMod \in Keys /\ PasteKey \in Keys
  BY DEF Keys

LEMMA InitInvariant == Init => Invariant
  <1> SUFFICES ASSUME Init PROVE Invariant
    OBVIOUS
  <1>1. /\ queue \in 0..MaxQueue /\ typing \in 0..4 /\ credit \in -Presses..Presses
        /\ pressesLeft \in 0..Presses /\ credit <= Presses - pressesLeft
    BY Numbers DEF Init
  <1>2. /\ platform \in Platforms /\ held \subseteq Keys /\ last \in Keys \cup {NoKey}
        /\ logical \subseteq Keys /\ pressed \subseteq Keys
        /\ comboActive \in BOOLEAN /\ typed \in BOOLEAN /\ overlaps \in Nat
    BY DEF Init
  <1>3. Positions /\ Remembers /\ Releasable /\ Accounted
    BY Letter DEF Init, Positions, Remembers, Releasable, Accounted
  <1> QED BY <1>1, <1>2, <1>3 DEF Invariant, TypeOK

LEMMA SyncedSubset ==
  ASSUME NEW keys, NEW down, keys \subseteq down
  PROVE  Synced(keys, down) \subseteq down
  BY DEF Synced

LEMMA CutOffBounds ==
  ASSUME NEW n \in 0..MaxQueue
  PROVE  CutOff(n + 1) \in 0..MaxQueue
  BY DEF CutOff

(* The request, if any, that a key leads to.                                  *)
LEMMA Trigger ==
  ASSUME Invariant, NEW earned \in -Presses..Presses, TriggerHotkeyMatch(earned)
  PROVE  /\ queue' \in 0..MaxQueue
         /\ credit' \in -Presses..Presses /\ credit' <= earned
         /\ comboActive'
         /\ comboActive => credit' = earned /\ queue' = queue
         /\ credit' >= earned - 1
  <1>1. CASE comboActive
    BY <1>1 DEF TriggerHotkeyMatch, MayTrigger, Invariant, TypeOK
  <1>2. CASE ~comboActive
    BY <1>2, CutOffBounds DEF TriggerHotkeyMatch, MayTrigger, Invariant, TypeOK
  <1> QED BY <1>1, <1>2

(* A press, by the user or the worker.                                        *)
LEMMA Down ==
  ASSUME Invariant, NEW k \in Keys, NEW injected \in BOOLEAN,
         NEW earned \in -Presses..Presses, KeyDown(k, injected, earned), UNCHANGED platform
  PROVE  /\ logical' \subseteq logical \cup {k} /\ pressed' \subseteq Keys
         /\ comboActive' \in BOOLEAN
         /\ Remembers' /\ Releasable'
         /\ platform # "Windows" => pressed' = pressed \cup {k}
         /\ queue' \in 0..MaxQueue
         /\ credit' \in -Presses..Presses /\ credit' <= earned
         /\ \/ /\ TriggerHotkeyMatch(earned)
               /\ Chord \subseteq logical' \cup {k}
               /\ Chord \cap Modifiers \subseteq logical'
            \/ /\ credit' = earned
               /\ UNCHANGED <<queue, comboActive>>
  <1>0. pressed \subseteq logical /\ pressed \subseteq Keys /\ logical \subseteq Keys
        /\ comboActive \in BOOLEAN /\ queue \in 0..MaxQueue
    BY DEF Invariant, TypeOK, Remembers
  <1>1. CASE Filtered(k, injected)
    <2>1. TriggerHotkeyMatch(earned) /\ logical' = logical /\ pressed' = pressed
      BY <1>1 DEF KeyDown
    <2>2. platform = "Windows" /\ k \in Chord \ Modifiers /\ Chord \cap Modifiers \subseteq logical
      BY <1>1 DEF Filtered, ModifiersSatisfied
    <2>3. Chord \ Modifiers = {k}
      BY <2>2, Letter
    <2>4. Chord \subseteq logical \cup {k} /\ logical # {}
      BY <2>2, <2>3
    <2> QED BY <1>0, <2>1, <2>2, <2>4, Trigger DEF Remembers, Releasable
  <1>2. CASE ~Filtered(k, injected)
    <2>1. logical' = logical \cup {k} /\ pressed' = Synced(pressed \cup {k}, logical')
      BY <1>2 DEF KeyDown
    <2>2. pressed' \subseteq logical' /\ logical' \subseteq Keys /\ logical' # {}
      BY <1>0, <2>1, SyncedSubset
    <2>3. platform # "Windows" => pressed' = pressed \cup {k}
      BY <2>1 DEF Synced
    <2>4. CASE ChordDown(pressed')
      <3>1. TriggerHotkeyMatch(earned)
        BY <1>2, <2>4 DEF KeyDown
      <3>2. Chord \subseteq logical'
        BY <2>2, <2>4 DEF ChordDown
      <3> QED BY <2>1, <2>2, <2>3, <3>1, <3>2, Trigger DEF Remembers, Releasable
    <2>5. CASE ~ChordDown(pressed')
      <3>1. credit' = earned /\ UNCHANGED <<queue, comboActive>>
        BY <1>2, <2>5 DEF KeyDown
      <3> QED BY <1>0, <2>1, <2>2, <2>3, <3>1 DEF Remembers, Releasable
    <2> QED BY <2>4, <2>5
  <1> QED BY <1>1, <1>2

LEMMA Up ==
  ASSUME Invariant, NEW k \in Keys, KeyUp(k), UNCHANGED platform
  PROVE  /\ logical' = logical \ {k} /\ pressed' \subseteq Keys
         /\ comboActive' \in BOOLEAN
         /\ Remembers' /\ Releasable'
         /\ platform # "Windows" => pressed' = pressed \ {k}
         /\ comboActive' <=> comboActive /\ Chord \subseteq pressed'
         /\ queue' = queue
  <1>1. pressed \subseteq logical /\ logical \subseteq Keys /\ comboActive \in BOOLEAN
    BY DEF Invariant, TypeOK, Remembers
  <1>2. /\ logical' = logical \ {k} /\ pressed' = Synced(pressed \ {k}, logical')
        /\ comboActive' = ActiveAfter(pressed') /\ queue' = queue
    BY DEF KeyUp
  <1>3. pressed' \subseteq logical'
    BY <1>1, <1>2, SyncedSubset
  <1>4. platform # "Windows" => pressed' = pressed \ {k}
    BY <1>2 DEF Synced
  <1>5. comboActive' <=> comboActive /\ Chord \subseteq pressed'
    BY <1>1, <1>2 DEF ActiveAfter, ChordDown
  <1>6. comboActive' \in BOOLEAN
    BY <1>1, <1>2 DEF ActiveAfter
  <1> QED BY <1>1, <1>2, <1>3, <1>4, <1>5, <1>6, Letter DEF Remembers, Releasable

LEMMA PressStep ==
  ASSUME Invariant, NEW k \in Keys, Press(k)
  PROVE  Invariant'
  <1> DEFINE earned == IF Completes(k) THEN credit + 1 ELSE credit
  <1>1. /\ k \notin held /\ pressesLeft > 0 /\ pressesLeft' = pressesLeft - 1
        /\ held' = held \cup {k} /\ last' = k
        /\ UNCHANGED <<platform, typing, overlaps, typed>>
        /\ KeyDown(k, FALSE, earned)
    BY DEF Press
  <1>2. /\ pressesLeft \in 0..Presses /\ credit \in -Presses..Presses
        /\ credit <= Presses - pressesLeft
    BY DEF Invariant, TypeOK
  <1>3. earned \in -Presses..Presses /\ earned <= credit + 1 /\ credit <= earned
    BY <1>1, <1>2
  <1> HIDE DEF earned
  <1>4. /\ logical' \subseteq logical \cup {k} /\ pressed' \subseteq Keys
        /\ comboActive' \in BOOLEAN
        /\ Remembers' /\ Releasable'
        /\ platform # "Windows" => pressed' = pressed \cup {k}
        /\ queue' \in 0..MaxQueue
        /\ credit' \in -Presses..Presses /\ credit' <= earned
        /\ \/ /\ TriggerHotkeyMatch(earned)
              /\ Chord \subseteq logical' \cup {k}
           \/ /\ credit' = earned
              /\ UNCHANGED <<queue, comboActive>>
    BY <1>1, <1>3, Down
  <1>5. TypeOK' /\ (credit <= Presses - pressesLeft)'
    <2>0. credit' \in -Presses..Presses /\ credit' <= earned /\ pressesLeft' = pressesLeft - 1
          /\ pressesLeft > 0
      BY <1>1, <1>4
    <2>1. pressesLeft' \in 0..Presses /\ credit' <= Presses - pressesLeft'
      <3>1. pressesLeft' \in 0..Presses /\ pressesLeft' < pressesLeft
        BY <1>2, <2>0, Numbers
      <3>2. credit' <= credit + 1
        BY <1>2, <1>3, <2>0, Numbers
      <3> QED BY <1>2, <2>0, <3>1, <3>2, Numbers
    <2> QED BY <1>1, <1>4, <2>1 DEF Invariant, TypeOK
  <1>6. Accounted'
    <2> SUFFICES ASSUME ~typed PROVE Accounted'
      BY <1>1 DEF Accounted
    <2>1. /\ logical \subseteq held /\ credit + overlaps >= 0 /\ overlaps \in Nat
          /\ platform # "Windows" => pressed = held
          /\ Chord \subseteq held /\ ~comboActive => credit + overlaps >= 1
      BY DEF Invariant, Accounted, TypeOK
    <2>2. logical' \subseteq held' /\ (platform' # "Windows" => pressed' = held')
      BY <1>1, <1>4, <2>1
    <2>3. Chord \subseteq held' /\ ~comboActive => earned + overlaps >= 1
      <3>1. CASE k \in Chord
        BY <1>1, <1>2, <2>1, <3>1 DEF earned, Completes
      <3>2. CASE k \notin Chord
        BY <1>1, <1>3, <1>2, <2>1, <3>2
      <3> QED BY <3>1, <3>2
    <2>4. CASE TriggerHotkeyMatch(earned) /\ Chord \subseteq logical' \cup {k}
      <3>1. Chord \subseteq held'
        BY <1>1, <2>2, <2>4
      <3>2. credit' + overlaps >= 0 /\ comboActive'
        <4>1. CASE comboActive
          BY <1>2, <1>3, <2>1, <2>4, <4>1, Numbers, Trigger
        <4>2. CASE ~comboActive
          <5>1. credit' >= earned - 1 /\ credit' \in Int /\ comboActive'
            BY <1>3, <2>4, Numbers, Trigger
          <5>2. earned + overlaps >= 1 /\ earned \in Int /\ overlaps \in Int
            BY <1>3, <2>1, <2>3, <3>1, <4>2, Numbers
          <5> HIDE DEF earned
          <5> QED BY <5>1, <5>2, OneLess
        <4> QED BY <4>1, <4>2
      <3> QED BY <1>1, <2>2, <3>2 DEF Accounted
    <2>5. CASE credit' = earned /\ UNCHANGED <<queue, comboActive>>
      BY <1>1, <1>2, <1>3, <2>1, <2>2, <2>3, <2>5, Numbers DEF Accounted
    <2> QED BY <1>4, <2>4, <2>5
  <1>7. Positions'
    BY <1>1 DEF Invariant, Positions
  <1> QED BY <1>4, <1>5, <1>6, <1>7 DEF Invariant

LEMMA RepeatStep ==
  ASSUME Invariant, Repeat
  PROVE  Invariant'
  <1>1. /\ last \in Keys /\ last \in held /\ KeyDown(last, FALSE, credit)
        /\ UNCHANGED <<platform, held, last, typing, overlaps, typed, pressesLeft>>
    BY DEF Repeat, Invariant, Positions, TypeOK
  <1>2. credit \in -Presses..Presses /\ pressesLeft \in 0..Presses /\ credit <= Presses - pressesLeft
    BY DEF Invariant, TypeOK
  <1>3. /\ logical' \subseteq logical \cup {last} /\ pressed' \subseteq Keys
        /\ comboActive' \in BOOLEAN
        /\ Remembers' /\ Releasable'
        /\ platform # "Windows" => pressed' = pressed \cup {last}
        /\ queue' \in 0..MaxQueue
        /\ credit' \in -Presses..Presses /\ credit' <= credit
        /\ \/ /\ TriggerHotkeyMatch(credit)
              /\ Chord \subseteq logical' \cup {last}
           \/ /\ credit' = credit
              /\ UNCHANGED <<queue, comboActive>>
    BY <1>1, <1>2, Down
  <1>4. TypeOK' /\ (credit <= Presses - pressesLeft)'
    <2>0. credit' \in -Presses..Presses /\ credit' <= credit /\ pressesLeft' = pressesLeft
      BY <1>1, <1>3
    <2>1. credit' <= Presses - pressesLeft'
      BY <1>2, <2>0, Numbers
    <2> QED BY <1>1, <1>3, <2>1 DEF Invariant, TypeOK
  <1>5. Accounted'
    <2> SUFFICES ASSUME ~typed PROVE Accounted'
      BY <1>1 DEF Accounted
    <2>1. /\ logical \subseteq held /\ credit + overlaps >= 0 /\ overlaps \in Nat
          /\ platform # "Windows" => pressed = held
          /\ Chord \subseteq held /\ ~comboActive => credit + overlaps >= 1
      BY DEF Invariant, Accounted, TypeOK
    <2>2. logical' \subseteq held' /\ (platform' # "Windows" => pressed' = held')
      BY <1>1, <1>3, <2>1
    <2>3. CASE TriggerHotkeyMatch(credit) /\ Chord \subseteq logical' \cup {last}
      <3>1. Chord \subseteq held /\ comboActive'
        BY <1>1, <1>2, <2>2, <2>3, Trigger
      <3>2. credit' + overlaps >= 0
        <4>1. CASE comboActive
          BY <1>2, <2>1, <2>3, <4>1, Trigger
        <4>2. CASE ~comboActive
          <5>1. credit' >= credit - 1 /\ credit' \in Int
            BY <1>2, <2>3, Numbers, Trigger
          <5>2. credit + overlaps >= 1 /\ credit \in Int /\ overlaps \in Int
            BY <1>2, <2>1, <3>1, <4>2, Numbers
          <5> QED BY <5>1, <5>2, OneLess
        <4> QED BY <4>1, <4>2
      <3> QED BY <1>1, <2>2, <3>1, <3>2 DEF Accounted
    <2>4. CASE credit' = credit /\ UNCHANGED <<queue, comboActive>>
      BY <1>1, <2>1, <2>2, <2>4 DEF Accounted
    <2> QED BY <1>3, <2>3, <2>4
  <1>6. Positions'
    BY <1>1 DEF Invariant, Positions
  <1> QED BY <1>3, <1>4, <1>5, <1>6 DEF Invariant

LEMMA ReleaseStep ==
  ASSUME Invariant, NEW k \in Keys, Release(k)
  PROVE  Invariant'
  <1>1. /\ k \in held /\ held' = held \ {k}
        /\ last' = IF last = k THEN NoKey ELSE last
        /\ KeyUp(k)
        /\ overlaps' = IF Overlaps(k) THEN overlaps + 1 ELSE overlaps
        /\ UNCHANGED <<platform, typing, credit, typed, pressesLeft>>
    BY DEF Release
  <1>2. /\ logical' = logical \ {k} /\ pressed' \subseteq Keys
        /\ comboActive' \in BOOLEAN
        /\ Remembers' /\ Releasable'
        /\ platform # "Windows" => pressed' = pressed \ {k}
        /\ comboActive' <=> comboActive /\ Chord \subseteq pressed'
        /\ queue' = queue
    BY <1>1, Up
  <1>3. overlaps \in Nat /\ overlaps' \in Nat /\ overlaps' >= overlaps /\ credit \in Int
    BY <1>1, Numbers DEF Invariant, TypeOK
  <1>4. TypeOK' /\ (credit <= Presses - pressesLeft)'
    BY <1>1, <1>2, <1>3 DEF Invariant, TypeOK
  <1>5. Accounted'
    <2> SUFFICES ASSUME ~typed PROVE Accounted'
      BY <1>1 DEF Accounted
    <2>1. /\ logical \subseteq held /\ credit + overlaps >= 0 /\ overlaps \in Nat
          /\ platform # "Windows" => pressed = held
          /\ Chord \subseteq held /\ ~comboActive => credit + overlaps >= 1
      BY DEF Invariant, Accounted, TypeOK
    <2>2. logical' \subseteq held' /\ (platform' # "Windows" => pressed' = held')
      BY <1>1, <1>2, <2>1
    <2>3. ASSUME Chord \subseteq held', ~comboActive' PROVE credit' + overlaps' >= 1
      <3>1. k \notin Chord /\ Chord \subseteq held
        BY <1>1, <2>3
      <3>2. CASE ~comboActive
        BY <1>1, <1>3, <2>1, <3>1, <3>2
      <3>3. CASE comboActive /\ platform = "Windows"
        BY <1>1, <1>3, <2>1, <3>1, <3>3 DEF Overlaps
      <3>4. CASE comboActive /\ platform # "Windows"
        BY <1>1, <1>2, <2>2, <2>3, <3>4
      <3> QED BY <3>2, <3>3, <3>4
    <2> QED BY <1>1, <1>3, <2>1, <2>2, <2>3 DEF Accounted
  <1>6. Positions'
    BY <1>1 DEF Invariant, Positions
  <1> QED BY <1>2, <1>4, <1>5, <1>6 DEF Invariant

LEMMA WorkerStep ==
  ASSUME Invariant, Worker
  PROVE  Invariant'
  <1>1. CASE Idle
    BY <1>1 DEF Idle, vars, Invariant, Positions, TypeOK, Remembers, Releasable, Accounted
  <1>2. CASE Take
    BY <1>2 DEF Take, Invariant, Positions, TypeOK, Remembers, Releasable, Accounted
  <1>3. CASE NothingTyped
    BY <1>3 DEF NothingTyped, Invariant, Positions, TypeOK, Remembers, Releasable, Accounted
  <1>4. CASE TypeDown
    <2> DEFINE k == IF typing = 1 THEN PasteMod ELSE PasteKey
    <2>1. /\ typing \in {1, 2} /\ typing' = typing + 1 /\ typed' = TRUE
          /\ KeyDown(k, TRUE, credit)
          /\ UNCHANGED <<platform, held, last, overlaps, pressesLeft>>
      BY <1>4 DEF TypeDown
    <2>2. k \in Keys /\ credit \in -Presses..Presses /\ pressesLeft \in 0..Presses
          /\ credit <= Presses - pressesLeft
      BY Letter DEF Invariant, TypeOK
    <2> HIDE DEF k
    <2>3. /\ logical' \subseteq logical \cup {k} /\ pressed' \subseteq Keys
          /\ comboActive' \in BOOLEAN
          /\ Remembers' /\ Releasable'
          /\ queue' \in 0..MaxQueue
          /\ credit' \in -Presses..Presses /\ credit' <= credit
      BY <2>1, <2>2, Down
    <2>4. logical' \subseteq Keys /\ typing' \in 0..4
      BY <2>1, <2>2, <2>3 DEF Invariant, TypeOK
    <2>5. credit' \in -Presses..Presses /\ credit' <= credit /\ pressesLeft' = pressesLeft
      BY <2>1, <2>3
    <2>6. credit' <= Presses - pressesLeft'
      BY <2>2, <2>5, Numbers
    <2> QED BY <2>1, <2>3, <2>4, <2>6 DEF Invariant, Positions, TypeOK, Accounted
  <1>5. CASE TypeUp
    <2> DEFINE k == IF typing = 3 THEN PasteKey ELSE PasteMod
    <2>1. /\ typing' = AfterRelease /\ KeyUp(k)
          /\ UNCHANGED <<platform, held, last, credit, overlaps, typed, pressesLeft>>
      BY <1>5 DEF TypeUp
    <2>2. k \in Keys
      BY Letter
    <2> HIDE DEF k
    <2>3. /\ logical' = logical \ {k} /\ pressed' \subseteq Keys
          /\ comboActive' \in BOOLEAN
          /\ Remembers' /\ Releasable'
          /\ queue' = queue
      BY <2>1, <2>2, Up
    <2>4. typing' \in 0..4
      BY <2>1 DEF AfterRelease
    <2>5. typed /\ typing \in {3, 4}
      BY <1>5 DEF TypeUp, Invariant, Positions
    <2> QED BY <2>1, <2>3, <2>4, <2>5 DEF Invariant, Positions, TypeOK, Accounted
  <1> QED BY <1>1, <1>2, <1>3, <1>4, <1>5 DEF Worker

LEMMA StepInvariant == Invariant /\ [Next]_vars => Invariant'
  <1> SUFFICES ASSUME Invariant, [Next]_vars PROVE Invariant'
    OBVIOUS
  <1>1. CASE UNCHANGED vars
    BY <1>1 DEF vars, Invariant, Positions, TypeOK, Remembers, Releasable, Accounted
  <1>2. CASE User
    BY <1>2, PressStep, RepeatStep, ReleaseStep DEF User
  <1>3. CASE Worker
    BY <1>3, WorkerStep
  <1> QED BY <1>1, <1>2, <1>3 DEF Next

THEOREM HotkeyInvariant == Spec => []Invariant
  BY InitInvariant, StepInvariant, PTL DEF Spec

(* Every variable keeps its type, for any chord, keys and number of presses.  *)
THEOREM HotkeyTypes == Spec => []TypeOK
  <1>1. Invariant => TypeOK
    BY DEF Invariant
  <1> QED BY <1>1, HotkeyInvariant, PTL

(* With no key down the listener has forgotten every key and is armed.        *)
THEOREM AlwaysArmedAgain == Spec => []NeverWedged
  <1>1. Invariant => NeverWedged
    BY DEF Invariant, TypeOK, Remembers, Releasable, NeverWedged
  <1> QED BY <1>1, HotkeyInvariant, PTL

(* While the worker types nothing, requests never outnumber the chords, and   *)
(* under Windows the keys that were let go over an answered chord.            *)
THEOREM AnsweredOnce == Spec => []OncePerArming
  <1>1. Invariant => OncePerArming
    BY DEF Invariant, Accounted, OncePerArming
  <1> QED BY <1>1, HotkeyInvariant, PTL

(* A request is made only while the modifiers of the chord are down.          *)
LEMMA RequestStep ==
  ASSUME Invariant, Next, queue' > queue
  PROVE  Chord \cap Modifiers \subseteq logical'
  <1>1. queue \in 0..MaxQueue /\ credit \in -Presses..Presses /\ pressesLeft \in 0..Presses
        /\ credit <= Presses - pressesLeft
    BY DEF Invariant, TypeOK
  <1>2. ASSUME NEW k \in Keys, NEW injected \in BOOLEAN, NEW earned \in -Presses..Presses,
               KeyDown(k, injected, earned), UNCHANGED platform
        PROVE  Chord \cap Modifiers \subseteq logical'
    BY <1>1, <1>2, Down
  <1>3. CASE \E k \in Keys : Press(k)
    <2>1. PICK k \in Keys : Press(k)
      BY <1>3
    <2>2. pressesLeft > 0
      BY <2>1 DEF Press
    <2>3. (IF Completes(k) THEN credit + 1 ELSE credit) \in -Presses..Presses
      BY <1>1, <2>2
    <2> QED BY <1>2, <2>1, <2>3 DEF Press
  <1>4. CASE Repeat
    BY <1>1, <1>2, <1>4 DEF Repeat, Invariant, TypeOK
  <1>5. CASE \E k \in Keys : Release(k)
    BY <1>1, <1>5 DEF Release, KeyUp
  <1>6. CASE TypeDown
    <2>1. (IF typing = 1 THEN PasteMod ELSE PasteKey) \in Keys
      BY Letter
    <2> QED BY <1>1, <1>2, <1>6, <2>1 DEF TypeDown
  <1>7. CASE Idle \/ Take \/ NothingTyped \/ TypeUp
    BY <1>1, <1>7 DEF Idle, Take, NothingTyped, TypeUp, KeyUp, vars
  <1> QED BY <1>3, <1>4, <1>5, <1>6, <1>7 DEF Next, User, Worker

THEOREM ModifiersDown == Spec => RequestNeedsModifiers
  <1>1. Invariant /\ [Next]_vars => [queue' > queue => Chord \cap Modifiers \subseteq logical']_vars
    BY RequestStep DEF vars
  <1> QED BY <1>1, HotkeyInvariant, PTL DEF Spec, RequestNeedsModifiers

-----------------------------------------------------------------------------
(* What is down for the desktop is under the user's fingers or under the      *)
(* worker's.                                                                  *)
WorkerHolds == IF typing \in {2, 4} THEN {PasteMod}
               ELSE IF typing = 3 THEN {PasteMod, PasteKey} ELSE {}
DownIsHeld == logical \subseteq held \cup WorkerHolds

LEMMA DownIsHeldStep == Invariant /\ DownIsHeld /\ [Next]_vars => DownIsHeld'
  <1> SUFFICES ASSUME Invariant, DownIsHeld, [Next]_vars PROVE DownIsHeld'
    OBVIOUS
  <1>0. typing \in 0..4 /\ credit \in -Presses..Presses /\ pressesLeft \in 0..Presses
        /\ credit <= Presses - pressesLeft
    BY DEF Invariant, TypeOK
  <1>1. CASE UNCHANGED vars \/ Idle \/ Take \/ NothingTyped
    BY <1>0, <1>1 DEF vars, Idle, Take, NothingTyped, DownIsHeld, WorkerHolds
  <1>2. ASSUME NEW k \in Keys, Press(k) PROVE DownIsHeld'
    <2>1. (IF Completes(k) THEN credit + 1 ELSE credit) \in -Presses..Presses
      BY <1>0, <1>2 DEF Press
    <2>2. logical' \subseteq logical \cup {k}
      BY <1>2, <2>1, Down DEF Press
    <2> QED BY <1>2, <2>2 DEF Press, DownIsHeld, WorkerHolds
  <1>3. CASE Repeat
    <2>1. last \in Keys /\ last \in held
      BY <1>3 DEF Repeat, Invariant, Positions, TypeOK
    <2>2. logical' \subseteq logical \cup {last}
      BY <1>0, <1>3, <2>1, Down DEF Repeat
    <2> QED BY <1>3, <2>1, <2>2 DEF Repeat, DownIsHeld, WorkerHolds
  <1>4. ASSUME NEW k \in Keys, Release(k) PROVE DownIsHeld'
    BY <1>4 DEF Release, KeyUp, DownIsHeld, WorkerHolds
  <1>5. CASE TypeDown
    <2>1. (IF typing = 1 THEN PasteMod ELSE PasteKey) \in Keys
      BY Letter
    <2>2. logical' \subseteq logical \cup {IF typing = 1 THEN PasteMod ELSE PasteKey}
      BY <1>0, <1>5, <2>1, Down DEF TypeDown
    <2> QED BY <1>5, <2>2 DEF TypeDown, DownIsHeld, WorkerHolds
  <1>6. CASE TypeUp
    BY <1>6 DEF TypeUp, KeyUp, AfterRelease, DownIsHeld, WorkerHolds
  <1> QED BY <1>1, <1>2, <1>3, <1>4, <1>5, <1>6 DEF Next, User, Worker

THEOREM DownIsUnderFingers == Spec => []DownIsHeld
  <1>1. Init => DownIsHeld
    BY DEF Init, DownIsHeld
  <1> QED BY <1>1, DownIsHeldStep, HotkeyInvariant, PTL DEF Spec

(* The worker's own two keys are not the chord, so they complete none.        *)
LEMMA NoRequestAlone ==
  ASSUME ~(Chord \subseteq {PasteMod, PasteKey}), Invariant, DownIsHeld, Next, held' = {}
  PROVE  queue' <= queue
  <1>0. queue \in 0..MaxQueue /\ credit \in -Presses..Presses
    BY DEF Invariant, TypeOK
  <1>1. CASE User
    <2>1. ~Repeat /\ \A k \in Keys : ~Press(k)
      BY DEF Repeat, Press, Invariant, Positions
    <2>2. PICK k \in Keys : Release(k)
      BY <1>1, <2>1 DEF User
    <2>3. queue' = queue
      BY <2>2 DEF Release, KeyUp
    <2> QED BY <1>0, <2>3
  <1>2. CASE TypeDown
    <2> DEFINE k == IF typing = 1 THEN PasteMod ELSE PasteKey
    <2>1. k \in Keys /\ typing \in {1, 2} /\ held = {}
          /\ KeyDown(k, TRUE, credit) /\ UNCHANGED platform
      BY <1>2, Letter DEF TypeDown
    <2>2. logical \cup {k} \subseteq {PasteMod, PasteKey}
      BY <2>1 DEF DownIsHeld, WorkerHolds
    <2> HIDE DEF k
    <2>3. logical' \subseteq logical \cup {k}
          /\ (Chord \subseteq logical' \cup {k} \/ UNCHANGED queue)
      BY <1>0, <2>1, Down
    <2> QED BY <1>0, <2>2, <2>3
  <1>3. CASE Idle \/ Take \/ NothingTyped \/ TypeUp
    BY <1>0, <1>3 DEF Idle, Take, NothingTyped, TypeUp, KeyUp, vars
  <1> QED BY <1>1, <1>2, <1>3 DEF Next, Worker

(* With any chord but the paste keys themselves, the worker asks for nothing. *)
THEOREM WorkerAsksNothing ==
  ASSUME ~(Chord \subseteq {PasteMod, PasteKey})
  PROVE  Spec => OwnKeysAskNothing
  <1>1. Invariant /\ DownIsHeld /\ [Next]_vars => [held' = {} => queue' <= queue]_vars
    BY NoRequestAlone DEF vars
  <1> QED BY <1>1, HotkeyInvariant, DownIsUnderFingers, PTL DEF Spec, OwnKeysAskNothing

(* The safety half of PastingStops: the pastes asked for and the keys still   *)
(* to be typed for the one at hand.  With the user's hands off every step of  *)
(* the worker leaves less to do, and no other step changes it.                *)
ToDo == 5 * queue + (IF typing = 0 THEN 0 ELSE 5 - typing)
LessToDo == [][held' = {} => ToDo' < ToDo \/ UNCHANGED <<queue, typing>>]_vars

THEOREM WorkerGetsDone ==
  ASSUME ~(Chord \subseteq {PasteMod, PasteKey})
  PROVE  Spec => LessToDo
  <1>1. ASSUME Invariant, DownIsHeld, Next, held' = {}
        PROVE  ToDo' < ToDo \/ UNCHANGED <<queue, typing>>
    <2>1. queue \in 0..MaxQueue /\ queue' \in 0..MaxQueue /\ typing \in 0..4
      BY <1>1, StepInvariant DEF Invariant, TypeOK
    <2>2. queue' <= queue
      BY <1>1, NoRequestAlone
    <2>3. CASE User
      <3>1. ~Repeat /\ \A k \in Keys : ~Press(k)
        BY <1>1 DEF Repeat, Press, Invariant, Positions
      <3>2. PICK k \in Keys : Release(k)
        BY <2>3, <3>1 DEF User
      <3> QED BY <3>2 DEF Release, KeyUp
    <2>4. CASE Idle
      BY <2>4 DEF Idle, vars
    <2>5. CASE Take
      <3>1. queue > 0 /\ queue' = queue - 1 /\ typing = 0 /\ typing' = 1
        BY <2>5 DEF Take
      <3>2. ToDo = 5 * queue /\ ToDo' = 5 * (queue - 1) + 4
        BY <2>1, <3>1 DEF ToDo
      <3> QED BY <2>1, <3>1, <3>2
    <2>6. CASE NothingTyped
      BY <2>1, <2>6 DEF NothingTyped, ToDo
    <2>7. CASE TypeDown
      <3>1. typing \in {1, 2} /\ typing' = typing + 1
        BY <2>7 DEF TypeDown
      <3>2. ToDo = 5 * queue + (5 - typing) /\ ToDo' = 5 * queue' + (5 - typing')
        BY <2>1, <3>1 DEF ToDo
      <3>3. ASSUME NEW q \in Int, NEW r \in Int, NEW t \in Int, r <= q
            PROVE  5 * r + (5 - (t + 1)) < 5 * q + (5 - t)
        BY <3>3
      <3>4. queue \in Int /\ queue' \in Int /\ typing \in Int
        BY <2>1, Numbers
      <3> QED BY <2>2, <3>1, <3>2, <3>3, <3>4
    <2>8. CASE TypeUp
      BY <2>1, <2>8 DEF TypeUp, KeyUp, AfterRelease, ToDo
    <2> QED BY <1>1, <2>3, <2>4, <2>5, <2>6, <2>7, <2>8 DEF Next, Worker
  <1>2. Invariant /\ DownIsHeld /\ [Next]_vars
          => [held' = {} => ToDo' < ToDo \/ UNCHANGED <<queue, typing>>]_vars
    BY <1>1 DEF vars
  <1> QED BY <1>2, HotkeyInvariant, DownIsUnderFingers, PTL DEF Spec, LessToDo
=============================================================================
