------------------------------- MODULE Hotkey -------------------------------
(***************************************************************************)
(* The keyboard thread (monitor_keyboard) and the keys that the paste      *)
(* worker itself presses.  The listener follows the keys, asks for a paste *)
(* when the configured chord is complete, and under Windows swallows the   *)
(* key that completes it.  After writing the clipboard, the worker of      *)
(* Windows and macOS types Ctrl+V or Cmd+V, which the listener hears too.  *)
(* The listener handles every event when it happens.                       *)
(***************************************************************************)
EXTENDS Integers

CONSTANTS
  Chord,      \* config.hotkeys.paste
  Modifiers,  \* the keys that _sync_win32_modifier_tokens reads back
  PasteMod,   \* Ctrl, on macOS Cmd: what the worker holds ...
  PasteKey,   \* ... while it presses v
  Others,     \* any other keys
  Platforms,  \* where the program may run
  Presses,    \* bound: how many keys the user presses
  MaxQueue    \* bound: a longer paste queue is cut

Keys == Chord \cup {PasteMod, PasteKey} \cup Others
NoKey == "none"

ASSUME KeysOK ==
  /\ \E letter \in Chord : Chord \ Modifiers = {letter}
  /\ Chord \cap Modifiers # {}
  /\ PasteMod \in Modifiers
  /\ PasteKey \notin Modifiers
  /\ NoKey \notin Keys
  /\ Platforms \subseteq {"Windows", "Darwin", "Linux"}
  /\ Presses \in Nat
  /\ MaxQueue \in Nat \ {0}

VARIABLES
  platform,    \* platform.system()
  held,        \* the keys under the user's fingers
  last,        \* the one of them that repeats
  logical,     \* the keys that are down for the desktop
  pressed,     \* the listener's set
  comboActive, \* the listener's combo_active
  queue,       \* the requests in the paste queue
  typing,      \* the worker: 0 idle, 1 has an entry, 2..4 the keys of the paste
  credit,      \* ghost: chords the user completed minus requests, cut at -Presses
  overlaps,    \* ghost: how often under Windows, where the letter of the chord
               \* is swallowed and not in the set, a key outside the chord went
               \* up over a held chord that was answered
  typed,       \* ghost: the worker has pressed a key
  pressesLeft

listener == <<pressed, comboActive>>
vars == <<platform, held, last, logical, listener, queue, typing, credit,
          overlaps, typed, pressesLeft>>

TypeOK ==
  /\ platform \in Platforms
  /\ held \subseteq Keys
  /\ last \in Keys \cup {NoKey}
  /\ logical \subseteq Keys
  /\ pressed \subseteq Keys
  /\ comboActive \in BOOLEAN
  /\ queue \in 0..MaxQueue
  /\ typing \in 0..4
  /\ credit \in -Presses..Presses
  /\ overlaps \in Nat
  /\ typed \in BOOLEAN
  /\ pressesLeft \in 0..Presses

Init ==
  /\ platform \in Platforms
  /\ held = {}
  /\ last = NoKey
  /\ logical = {}
  /\ pressed = {}
  /\ comboActive = FALSE
  /\ queue = 0
  /\ typing = 0
  /\ credit = 0
  /\ overlaps = 0
  /\ typed = FALSE
  /\ pressesLeft = Presses

-----------------------------------------------------------------------------
(* The listener. *)

(* _sync_win32_modifier_tokens: what the desktop says of the modifiers. *)
Synced(keys, down) ==
  IF platform = "Windows" THEN (keys \ Modifiers) \cup (down \cap Modifiers) ELSE keys

CutOff(n) == IF n < MaxQueue THEN n ELSE MaxQueue

(* trigger_hotkey_match; earned is what the user's chords have earned so far. *)
TriggerEachTime(active) == TRUE   \* variant: combo_active is not looked at
MayTrigger(active) == ~active

TriggerHotkeyMatch(earned) ==
  IF MayTrigger(comboActive)
  THEN /\ queue' = CutOff(queue + 1)
       /\ comboActive' = TRUE
       /\ credit' = IF earned > -Presses THEN earned - 1 ELSE earned
  ELSE credit' = earned /\ UNCHANGED <<queue, comboActive>>

(* win32_event_filter: the letter of the chord, from the keyboard and not    *)
(* injected, with the other keys of the chord down.                          *)
AnyModifiers(down) == TRUE   \* variant: the modifiers are not looked at
ModifiersSatisfied(down) == Chord \cap Modifiers \subseteq down

Filtered(k, injected) ==
  /\ platform = "Windows"
  /\ ~injected
  /\ k \in Chord \ Modifiers
  /\ ModifiersSatisfied(logical)

(* paste_hotkey <= pressed *)
OneModifierDown(keys) ==   \* variant: one of the modifiers is enough
  /\ Chord \ Modifiers \subseteq keys
  /\ Chord \cap Modifiers \cap keys # {}
ChordDown(keys) == Chord \subseteq keys

(* A press reaches the filter and then on_press; a filtered one neither      *)
(* on_press nor the desktop.                                                 *)
KeyDown(k, injected, earned) ==
  IF Filtered(k, injected)
  THEN TriggerHotkeyMatch(earned) /\ UNCHANGED <<logical, pressed>>
  ELSE /\ logical' = logical \cup {k}
       /\ pressed' = Synced(pressed \cup {k}, logical')
       /\ IF ChordDown(pressed')
          THEN TriggerHotkeyMatch(earned)
          ELSE credit' = earned /\ UNCHANGED <<queue, comboActive>>

(* on_release *)
StaysActive(keys) == comboActive   \* variant: the chord is not armed again
ActiveAfter(keys) == comboActive /\ ChordDown(keys)

KeyUp(k) ==
  /\ logical' = logical \ {k}
  /\ pressed' = Synced(pressed \ {k}, logical')
  /\ comboActive' = ActiveAfter(pressed')
  /\ UNCHANGED queue

-----------------------------------------------------------------------------
(* The user. *)

Completes(k) == k \in Chord /\ Chord \subseteq held \cup {k}

Press(k) ==
  /\ k \notin held
  /\ pressesLeft > 0
  /\ pressesLeft' = pressesLeft - 1
  /\ held' = held \cup {k}
  /\ last' = k
  /\ KeyDown(k, FALSE, IF Completes(k) THEN credit + 1 ELSE credit)
  /\ UNCHANGED <<platform, typing, overlaps, typed>>

(* The key pressed last repeats while it is held. *)
Repeat ==
  /\ last # NoKey
  /\ KeyDown(last, FALSE, credit)
  /\ UNCHANGED <<platform, held, last, typing, overlaps, typed, pressesLeft>>

Overlaps(k) ==
  platform = "Windows" /\ k \notin Chord /\ Chord \subseteq held /\ comboActive

Release(k) ==
  /\ k \in held
  /\ held' = held \ {k}
  /\ last' = IF last = k THEN NoKey ELSE last
  /\ KeyUp(k)
  /\ overlaps' = IF Overlaps(k) THEN overlaps + 1 ELSE overlaps
  /\ UNCHANGED <<platform, typing, credit, typed, pressesLeft>>

-----------------------------------------------------------------------------
(* The worker. *)

(* get(timeout=0.2) on an empty queue *)
Idle ==
  /\ typing = 0
  /\ queue = 0
  /\ UNCHANGED vars

Take ==
  /\ typing = 0
  /\ queue > 0
  /\ queue' = queue - 1
  /\ typing' = 1
  /\ UNCHANGED <<platform, held, last, logical, listener, credit, overlaps,
                 typed, pressesLeft>>

(* None, a failed write or a failed download; X11 writes and types nothing. *)
NothingTyped ==
  /\ typing = 1
  /\ typing' = 0
  /\ UNCHANGED <<platform, held, last, logical, listener, queue, credit, overlaps,
                 typed, pressesLeft>>

(* pressed(ctrl): press('v'), release('v') *)
OneMoreKey == typing + 1   \* variant: the sequence does not end
AfterRelease == IF typing = 3 THEN 4 ELSE 0

TypeDown ==
  /\ platform # "Linux"
  /\ typing \in {1, 2}
  /\ KeyDown(IF typing = 1 THEN PasteMod ELSE PasteKey, TRUE, credit)
  /\ typing' = typing + 1
  /\ typed' = TRUE
  /\ UNCHANGED <<platform, held, last, overlaps, pressesLeft>>

TypeUp ==
  /\ typing \in {3, 4}
  /\ KeyUp(IF typing = 3 THEN PasteKey ELSE PasteMod)
  /\ typing' = AfterRelease
  /\ UNCHANGED <<platform, held, last, credit, overlaps, typed, pressesLeft>>

-----------------------------------------------------------------------------
User   == Repeat \/ \E k \in Keys : Press(k) \/ Release(k)
Worker == Idle \/ Take \/ NothingTyped \/ TypeDown \/ TypeUp

Next == User \/ Worker

Spec == Init /\ [][Next]_vars

(* The worker keeps going; the user owes nothing. *)
FairSpec == Spec /\ WF_vars(Worker)

-----------------------------------------------------------------------------
(* Properties. *)

(* No paste is asked for while a modifier of the chord is up for the desktop,*)
(* whoever presses the other keys (win32_event_filter, on_press).            *)
RequestNeedsModifiers ==
  [][queue' > queue => Chord \cap Modifiers \subseteq logical']_vars

(* When no key is down any more the chord is armed again and the listener    *)
(* remembers no key: the next chord counts, after every overlap of the       *)
(* user's keys, the swallowed ones and the worker's (on_release).            *)
NeverWedged == logical = {} => ~comboActive /\ pressed = {}

(* The keys that the worker types never ask for the next paste by themselves,*)
(* whatever is left in the listener's set or held at the desktop: a request  *)
(* needs a key under the user's fingers (trigger_hotkey_match).              *)
OwnKeysAskNothing == [][held' = {} => queue' <= queue]_vars

(* Once the user lets go of the keyboard the pastes come to an end: the keys *)
(* that the worker types do not ask for the next paste for ever.             *)
PastingStops == <>[](held = {}) => <>[](queue = 0 /\ typing = 0)

(* As long as the worker types nothing, a chord is answered once, however    *)
(* long it is held, in whatever order its keys go up and down, and whatever  *)
(* other keys are pressed with it (combo_active).  Under Windows it is       *)
(* answered at most once more for every other key that is let go over it:    *)
(* on_release finds the swallowed letter missing and arms the chord again,   *)
(* although it is still held, and the repeating letter completes it.         *)
OncePerArming == ~typed => credit + overlaps >= 0

(* "Enqueue the latest clipboard snapshot once per completed hotkey chord":  *)
(* the listener never asks for more pastes than the user completed chords.   *)
OncePerChord == credit >= 0
=============================================================================
