------------------------- MODULE SuppressionWindow -------------------------
(***************************************************************************)
(* How one machine tells its own clipboard writes from the user's, with    *)
(* real time in ticks.  The worker writes the clipboard and then opens a   *)
(* window (mark_programmatic_clipboard_write); the first change the        *)
(* monitor notices while it is open is not broadcast (has_entry).  The     *)
(* monitor sleeps Poll ticks between two looks and is held up while a      *)
(* broadcast waits for its peers.                                          *)
(***************************************************************************)
EXTENDS Integers

CONSTANTS
  Values,    \* clipboard contents
  Empty,     \* an empty clipboard, and "no fingerprint yet"
  Poll,      \* ticks the monitor sleeps
  Window,    \* ticks the window stays open
  PostTicks  \* the longest a broadcast takes: two seconds per dead peer

ASSUME TimesOK == /\ Poll \in Nat \ {0}
                  /\ Window \in Nat
                  /\ PostTicks \in Nat
                  /\ Empty \notin Values

Authors == {"user", "worker"}
Contents == [value : Values \cup {Empty}, by : Authors]
Closed == -1

Longest == Poll + PostTicks

VARIABLES
  clipboard,       \* content, with the author as a ghost
  lastFingerprint, \* the monitor's last_fingerprint
  monPc,           \* "sleep", "check" (a change was read) or "post"
  polled,          \* the content the monitor read
  sleepLeft,       \* ticks until it looks again
  postLeft,        \* ticks until its broadcast is over
  window,          \* _suppress_next_local_change_until - monotonic()
  workerPc,        \* "idle", "paste" or "mark"
  incoming,        \* the text the worker pastes
  calm,            \* ghost: only the worker has acted since its write
  undisturbed,     \* ghost: calm when the window opened, and no write since
  swallowed,       \* ghost: the contents has_entry suppressed since that mark
  age              \* ghost: ticks that this content of the clipboard has waited
                   \* for the monitor, counted up to the first one too many

vars == <<clipboard, lastFingerprint, monPc, polled, sleepLeft, postLeft, window,
          workerPc, incoming, calm, undisturbed, swallowed, age>>

TypeOK ==
  /\ clipboard \in Contents
  /\ lastFingerprint \in Values \cup {Empty}
  /\ monPc \in {"sleep", "check", "post"}
  /\ polled \in Contents
  /\ sleepLeft \in 0..Poll
  /\ postLeft \in 0..PostTicks
  /\ window \in Closed..Window
  /\ workerPc \in {"idle", "paste", "mark"}
  /\ incoming \in Values \cup {Empty}
  /\ calm \in BOOLEAN
  /\ undisturbed \in BOOLEAN
  /\ swallowed \subseteq Contents
  /\ age \in 0..(Longest + 1)

Init ==
  /\ clipboard \in [value : Values \cup {Empty}, by : {"user"}]
  /\ lastFingerprint = Empty
  /\ monPc = "sleep"
  /\ polled = clipboard
  /\ sleepLeft = 0
  /\ postLeft = 0
  /\ window = Closed
  /\ workerPc = "idle"
  /\ incoming = Empty
  /\ calm = FALSE
  /\ undisturbed = FALSE
  /\ swallowed = {}
  /\ age = 0

-----------------------------------------------------------------------------
Unread == clipboard.value \notin {Empty, lastFingerprint}

UserCopy(v) ==
  /\ clipboard.value # v
  /\ age' = 0
  /\ clipboard' = [value |-> v, by |-> "user"]
  /\ calm' = FALSE
  /\ undisturbed' = FALSE
  /\ UNCHANGED <<lastFingerprint, monPc, polled, sleepLeft, postLeft, window,
                 workerPc, incoming, swallowed>>

(* An entry comes off the paste queue. *)
Take(v) ==
  /\ workerPc = "idle"
  /\ workerPc' = "paste"
  /\ incoming' = v
  /\ UNCHANGED <<clipboard, lastFingerprint, monPc, polled, sleepLeft, postLeft,
                 window, calm, undisturbed, swallowed, age>>

Paste ==
  /\ workerPc = "paste"
  /\ clipboard' = [value |-> incoming, by |-> "worker"]
  /\ age' = IF incoming = clipboard.value THEN age ELSE 0
  /\ workerPc' = "mark"
  /\ calm' = (monPc = "sleep")
  /\ undisturbed' = FALSE
  /\ UNCHANGED <<lastFingerprint, monPc, polled, sleepLeft, postLeft, window,
                 incoming, swallowed>>

(* A writer that gives up without an exception: the window opens for nothing. *)
PasteGivesUp ==
  /\ workerPc = "paste"
  /\ workerPc' = "mark"
  /\ calm' = FALSE
  /\ undisturbed' = FALSE
  /\ UNCHANGED <<clipboard, lastFingerprint, monPc, polled, sleepLeft, postLeft,
                 window, incoming, swallowed, age>>

PasteRaises ==
  /\ workerPc = "paste"
  /\ workerPc' = "idle"
  /\ UNCHANGED <<clipboard, lastFingerprint, monPc, polled, sleepLeft, postLeft,
                 window, incoming, calm, undisturbed, swallowed, age>>

ExpiredAlready == 0           \* variant: the time to live is left out
InMilliseconds == Window * 1000  \* variant: the wrong unit
Deadline == Window   \* monotonic() + ttl_seconds

Mark ==
  /\ workerPc = "mark"
  /\ window' = Deadline
  /\ workerPc' = "idle"
  /\ undisturbed' = calm
  /\ swallowed' = {}
  /\ UNCHANGED <<clipboard, lastFingerprint, monPc, polled, sleepLeft, postLeft,
                 incoming, calm, age>>

-----------------------------------------------------------------------------
Awake == monPc = "sleep" /\ sleepLeft = 0

RestTwice == 2 * Poll   \* variant: a second sleep after the broadcast
Rest == Poll   \* sleep_time

LookUnchanged ==
  /\ Awake
  /\ ~Unread
  /\ sleepLeft' = Rest
  /\ UNCHANGED <<clipboard, lastFingerprint, monPc, polled, postLeft, window,
                 workerPc, incoming, calm, undisturbed, swallowed, age>>

LookChanged ==
  /\ Awake
  /\ Unread
  /\ polled' = clipboard
  /\ monPc' = "check"
  /\ calm' = FALSE
  /\ UNCHANGED <<clipboard, lastFingerprint, sleepLeft, postLeft, window, workerPc,
                 incoming, undisturbed, swallowed, age>>

SuppressedLate == window <= Window   \* variant: the comparison turned round
Suppressed == window >= 0

ConsumedNot == window    \* variant: has_entry leaves the deadline as it is
Consumed == Closed

(* has_entry is True: the loop continues without a sleep. *)
Swallow ==
  /\ monPc = "check"
  /\ Suppressed
  /\ window' = Consumed
  /\ lastFingerprint' = polled.value
  /\ swallowed' = swallowed \cup {polled}
  /\ monPc' = "sleep"
  /\ UNCHANGED <<clipboard, polled, sleepLeft, postLeft, workerPc, incoming, calm,
                 undisturbed, age>>

Publish(ticks) ==
  /\ monPc = "check"
  /\ ~Suppressed
  /\ lastFingerprint' = polled.value
  /\ monPc' = "post"
  /\ postLeft' = ticks
  /\ UNCHANGED <<clipboard, polled, sleepLeft, window, workerPc, incoming, calm,
                 undisturbed, swallowed, age>>

PostsOver ==
  /\ monPc = "post"
  /\ postLeft = 0
  /\ monPc' = "sleep"
  /\ sleepLeft' = Rest
  /\ UNCHANGED <<clipboard, lastFingerprint, polled, postLeft, window, workerPc,
                 incoming, calm, undisturbed, swallowed, age>>

Aged(n) == IF n > Longest THEN n ELSE n + 1

(* Threads are prompt: time passes only while the monitor sleeps or waits   *)
(* for a peer, and never between the worker's write and its mark.           *)
Tick ==
  /\ ~Awake
  /\ monPc # "check"
  /\ monPc = "post" => postLeft > 0
  /\ workerPc # "mark"
  /\ sleepLeft' = IF monPc = "sleep" THEN sleepLeft - 1 ELSE sleepLeft
  /\ postLeft' = IF monPc = "post" THEN postLeft - 1 ELSE postLeft
  /\ window' = IF window >= 0 THEN window - 1 ELSE window
  /\ age' = IF Unread THEN Aged(age) ELSE age
  /\ UNCHANGED <<clipboard, lastFingerprint, monPc, polled, workerPc, incoming,
                 calm, undisturbed, swallowed>>

Monitor == \/ LookUnchanged
           \/ LookChanged
           \/ Swallow
           \/ \E ticks \in 0..PostTicks : Publish(ticks)
           \/ PostsOver

Worker == Paste \/ PasteGivesUp \/ PasteRaises \/ Mark

Next == \/ \E v \in Values : UserCopy(v) \/ Take(v)
        \/ Worker
        \/ Monitor
        \/ Tick

Spec == Init /\ [][Next]_vars

(* Both threads run and the clock advances. *)
FairSpec == Spec /\ WF_vars(Monitor) /\ WF_vars(Worker) /\ WF_vars(Tick)

-----------------------------------------------------------------------------
(* Properties. *)

(* A write of the worker that nothing disturbs is not rebroadcast: if the    *)
(* monitor slept from the write to the mark and nobody writes afterwards,    *)
(* nothing is broadcast (the promise of the fingerprint and the window).     *)
PasteNotRebroadcast == undisturbed => monPc # "post"

(* has_entry is True once per mark: one window hides one change, so two      *)
(* copies in a row are never both lost to one paste.                         *)
OneSwallowPerMark == \A c, d \in swallowed : c = d

(* No content stays on the clipboard longer than one sleep after the longest *)
(* broadcast without the monitor having noted it, whatever the worker, the   *)
(* window and further copies do (the loop of monitor_clipboard).             *)
ReadInTime == Unread => age <= Longest

(* A copy of the user that is not on the clipboard's record, made while the  *)
(* window is shut and the worker idle.                                       *)
CopyPending(v) == /\ clipboard = [value |-> v, by |-> "user"]
                  /\ lastFingerprint # v
                  /\ window < 0
                  /\ workerPc = "idle"

(* Such a copy is broadcast, or overtaken by another write.                  *)
CopyIsBroadcast == \A v \in Values :
  CopyPending(v) ~> \/ monPc = "post" /\ polled.value = v
                    \/ clipboard.value # v
                    \/ workerPc # "idle"

(* What has_entry hides is the worker's own write: "when a locally written   *)
(* clipboard update should not be rebroadcast".                              *)
OnlyOwnWritesSwallowed == \A c \in swallowed : c.by = "worker"
=============================================================================
