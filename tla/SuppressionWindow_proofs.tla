---------------------- MODULE SuppressionWindow_proofs ----------------------
(* For which polling intervals the suppression window does its work: all that *)
(* do not exceed it.                                                          *)
EXTENDS SuppressionWindow, TLAPS

USE TimesOK DEF vars

LEMMA Times == 0 \in 0..Poll /\ Poll \in 0..Poll /\ 0 \in 0..PostTicks
               /\ Closed \in Closed..Window /\ Window \in Closed..Window
               /\ Longest \in Nat /\ 0 \in 0..(Longest + 1)
  BY DEF Closed, Longest

LEMMA AgedInRange ==
  ASSUME NEW n \in 0..(Longest + 1)
  PROVE  Aged(n) \in 0..(Longest + 1)
  BY Times DEF Aged

LEMMA InitTypes == Init => TypeOK
  <1> SUFFICES ASSUME Init PROVE TypeOK
    OBVIOUS
  <1>1. clipboard \in Contents /\ polled \in Contents
    BY DEF Init, Contents, Authors
  <1>2. swallowed \subseteq Contents
    BY DEF Init
  <1> QED BY <1>1, <1>2, Times DEF Init, TypeOK

LEMMA StepTypes == TypeOK /\ [Next]_vars => TypeOK'
  <1> SUFFICES ASSUME TypeOK, [Next]_vars PROVE TypeOK'
    OBVIOUS
  <1> USE DEF TypeOK
  <1>1. CASE UNCHANGED vars
    BY <1>1
  <1>2. ASSUME NEW v \in Values, UserCopy(v) \/ Take(v) PROVE TypeOK'
    <2>1. [value |-> v, by |-> "user"] \in Contents
      BY DEF Contents, Authors
    <2> QED BY <1>2, <2>1, Times DEF UserCopy, Take
  <1>3. CASE Worker
    <2>1. [value |-> incoming, by |-> "worker"] \in Contents
      BY DEF Contents, Authors
    <2> QED BY <1>3, <2>1, Times DEF Worker, Paste, PasteGivesUp, PasteRaises, Mark, Deadline
  <1>4. CASE Monitor
    <2>1. polled.value \in Values \cup {Empty}
      BY DEF Contents
    <2>2. CASE LookUnchanged \/ LookChanged \/ PostsOver
      BY <2>2, Times DEF LookUnchanged, LookChanged, PostsOver, Rest
    <2>3. CASE Swallow
      <3>1. swallowed' \subseteq Contents /\ lastFingerprint' \in Values \cup {Empty}
        BY <2>1, <2>3 DEF Swallow
      <3>2. window' \in Closed..Window
        BY <2>3, Times DEF Swallow, Consumed
      <3> QED BY <2>3, <3>1, <3>2 DEF Swallow
    <2>4. CASE \E ticks \in 0..PostTicks : Publish(ticks)
      <3>1. lastFingerprint' \in Values \cup {Empty} /\ postLeft' \in 0..PostTicks
        BY <2>1, <2>4 DEF Publish
      <3> QED BY <2>4, <3>1 DEF Publish
    <2> QED BY <1>4, <2>2, <2>3, <2>4 DEF Monitor
  <1>5. CASE Tick
    <2>1. age' \in 0..(Longest + 1)
      BY <1>5, AgedInRange DEF Tick
    <2> QED BY <1>5, <2>1 DEF Tick, Awake, Closed
  <1> QED BY <1>1, <1>2, <1>3, <1>4, <1>5 DEF Next

(* Every variable keeps its type, for every interval and window.              *)
THEOREM WindowTypes == Spec => []TypeOK
  BY InitTypes, StepTypes, PTL DEF Spec

(* The strengthening: while a write is undisturbed, either the monitor has it *)
(* on record, or it will look again before the window shuts, or it has just   *)
(* read that very write with the window still open.                           *)
Covered ==
  /\ calm => monPc = "sleep"
  /\ undisturbed => \/ /\ monPc = "sleep"
                       /\ \/ clipboard.value \in {Empty, lastFingerprint}
                          \/ window >= sleepLeft
                    \/ /\ monPc = "check"
                       /\ window >= 0
                       /\ polled = clipboard

LEMMA StepCovered ==
  ASSUME Poll <= Window, TypeOK, Covered, [Next]_vars
  PROVE  Covered'
  <1> USE DEF TypeOK, Covered, Closed
  <1>1. CASE UNCHANGED vars
    BY <1>1
  <1>2. ASSUME NEW v \in Values, UserCopy(v) \/ Take(v) PROVE Covered'
    BY <1>2 DEF UserCopy, Take
  <1>3. CASE Paste \/ PasteGivesUp \/ PasteRaises
    BY <1>3 DEF Paste, PasteGivesUp, PasteRaises
  <1>4. CASE Mark
    <2>1. window' >= sleepLeft'
      BY <1>4 DEF Mark, Deadline
    <2> QED BY <1>4, <2>1 DEF Mark
  <1>5. CASE LookUnchanged
    BY <1>5 DEF LookUnchanged, Awake, Unread, Rest
  <1>6. CASE LookChanged
    BY <1>6 DEF LookChanged, Awake, Unread
  <1>7. CASE Swallow
    BY <1>7 DEF Swallow
  <1>8. CASE \E ticks \in 0..PostTicks : Publish(ticks)
    BY <1>8 DEF Publish, Suppressed
  <1>9. CASE PostsOver
    BY <1>9 DEF PostsOver
  <1>10. CASE Tick
    BY <1>10 DEF Tick, Awake
  <1> QED BY <1>1, <1>2, <1>3, <1>4, <1>5, <1>6, <1>7, <1>8, <1>9, <1>10
          DEF Next, Monitor, Worker

(* If the monitor looks at least once per window, a write of the worker that  *)
(* nothing disturbs is never rebroadcast.  Two seconds against 1.5, the pair  *)
(* of constants under Wayland, is outside the theorem, and a run refutes it.  *)
THEOREM PromptPollSuffices ==
  ASSUME Poll <= Window
  PROVE  Spec => []PasteNotRebroadcast
  <1>1. Init => Covered
    BY DEF Init, Covered
  <1>2. TypeOK /\ Covered /\ [Next]_vars => Covered'
    BY StepCovered
  <1>3. Covered => PasteNotRebroadcast
    BY DEF Covered, PasteNotRebroadcast
  <1> QED BY <1>1, <1>2, <1>3, WindowTypes, PTL DEF Spec

(* The strengthening: an open window has hidden nothing yet.                  *)
HidesOnce == OneSwallowPerMark /\ (window >= 0 => swallowed = {})

LEMMA StepHidesOnce ==
  ASSUME TypeOK, HidesOnce, [Next]_vars
  PROVE  HidesOnce'
  <1> USE DEF TypeOK, HidesOnce, OneSwallowPerMark, Closed
  <1>1. CASE UNCHANGED vars
    BY <1>1
  <1>2. ASSUME NEW v \in Values, UserCopy(v) \/ Take(v) PROVE HidesOnce'
    BY <1>2 DEF UserCopy, Take
  <1>3. CASE Worker
    BY <1>3 DEF Worker, Paste, PasteGivesUp, PasteRaises, Mark
  <1>4. CASE Swallow
    <2>1. swallowed' = {polled} /\ window' = -1
      BY <1>4 DEF Swallow, Suppressed, Consumed
    <2> QED BY <2>1
  <1>5. CASE LookUnchanged \/ LookChanged \/ PostsOver
    BY <1>5 DEF LookUnchanged, LookChanged, PostsOver
  <1>6. CASE \E ticks \in 0..PostTicks : Publish(ticks)
    BY <1>6 DEF Publish
  <1>7. CASE Tick
    BY <1>7 DEF Tick
  <1> QED BY <1>1, <1>2, <1>3, <1>4, <1>5, <1>6, <1>7 DEF Next, Monitor

(* One mark hides one change, for every interval and window.                  *)
THEOREM OneHiddenChange == Spec => []OneSwallowPerMark
  <1>1. Init => HidesOnce
    BY DEF Init, HidesOnce, OneSwallowPerMark, Closed
  <1>2. TypeOK /\ HidesOnce /\ [Next]_vars => HidesOnce'
    BY StepHidesOnce
  <1>3. HidesOnce => OneSwallowPerMark
    BY DEF HidesOnce
  <1> QED BY <1>1, <1>2, <1>3, WindowTypes, PTL DEF Spec

-----------------------------------------------------------------------------
(* The strengthening of ReadInTime: what the clipboard has waited and what is *)
(* left of the broadcast and of the sleep add up to no more than the bound;   *)
(* a change that the monitor has read is still there, or is brand new.        *)
OnSchedule ==
  /\ monPc = "sleep" /\ Unread => age + sleepLeft <= Longest
  /\ monPc = "post" /\ Unread => age + postLeft <= PostTicks
  /\ monPc = "check" => \/ age = 0
                        \/ polled.value = clipboard.value /\ age <= Longest

LEMMA StepOnSchedule ==
  ASSUME TypeOK, OnSchedule, [Next]_vars
  PROVE  OnSchedule'
  <1>0. /\ sleepLeft \in 0..Poll /\ postLeft \in 0..PostTicks /\ age \in 0..(Longest + 1)
        /\ Longest = Poll + PostTicks /\ Poll \in Nat \ {0} /\ PostTicks \in Nat
        /\ monPc \in {"sleep", "check", "post"}
    BY DEF TypeOK, Longest
  <1>1. CASE UNCHANGED vars
    BY <1>1 DEF OnSchedule, Unread
  <1>2. ASSUME NEW v \in Values, UserCopy(v) PROVE OnSchedule'
    BY <1>0, <1>2 DEF UserCopy, OnSchedule
  <1>3. CASE Paste
    <2>1. CASE incoming = clipboard.value
      BY <1>3, <2>1 DEF Paste, OnSchedule, Unread
    <2>2. CASE incoming # clipboard.value
      BY <1>0, <1>3, <2>2 DEF Paste, OnSchedule
    <2> QED BY <2>1, <2>2
  <1>4. ASSUME NEW v \in Values, Take(v) PROVE OnSchedule'
    BY <1>4 DEF Take, OnSchedule, Unread
  <1>5. CASE PasteGivesUp \/ PasteRaises \/ Mark
    BY <1>5 DEF PasteGivesUp, PasteRaises, Mark, OnSchedule, Unread
  <1>6. CASE LookUnchanged
    BY <1>6 DEF LookUnchanged, Awake, OnSchedule, Unread
  <1>7. CASE LookChanged
    BY <1>0, <1>7 DEF LookChanged, Awake, OnSchedule
  <1>8. CASE Swallow
    BY <1>0, <1>8 DEF Swallow, OnSchedule, Unread
  <1>9. ASSUME NEW ticks \in 0..PostTicks, Publish(ticks) PROVE OnSchedule'
    BY <1>0, <1>9 DEF Publish, OnSchedule, Unread
  <1>10. CASE PostsOver
    BY <1>0, <1>10 DEF PostsOver, OnSchedule, Unread, Rest
  <1>11. CASE Tick
    <2>1. Unread' <=> Unread
      BY <1>11 DEF Tick, Unread
    <2>2. CASE monPc = "sleep"
      <3>1. monPc' = "sleep" /\ sleepLeft > 0 /\ sleepLeft' = sleepLeft - 1
        BY <1>0, <1>11, <2>2 DEF Tick, Awake
      <3>2. Unread => age' = age + 1
        BY <1>0, <1>11, <2>2, <3>1 DEF Tick, Aged, OnSchedule
      <3> QED BY <1>0, <2>1, <2>2, <3>1, <3>2 DEF OnSchedule
    <2>3. CASE monPc = "post"
      <3>1. monPc' = "post" /\ postLeft > 0 /\ postLeft' = postLeft - 1
        BY <1>11, <2>3 DEF Tick
      <3>2. Unread => age' = age + 1
        BY <1>0, <1>11, <2>3, <3>1 DEF Tick, Aged, OnSchedule
      <3> QED BY <1>0, <2>1, <2>3, <3>1, <3>2 DEF OnSchedule
    <2> QED BY <1>0, <1>11, <2>2, <2>3 DEF Tick
  <1> QED BY <1>1, <1>2, <1>3, <1>4, <1>5, <1>6, <1>7, <1>8, <1>9, <1>10, <1>11
          DEF Next, Monitor, Worker

(* The monitor notes every content within one sleep and the longest           *)
(* broadcast, for every interval and window, also those of Wayland.           *)
THEOREM NotedInTime == Spec => []ReadInTime
  <1>1. Init => OnSchedule
    BY DEF Init, OnSchedule, Unread, Longest
  <1>2. TypeOK /\ OnSchedule /\ [Next]_vars => OnSchedule'
    BY StepOnSchedule
  <1>3. TypeOK /\ OnSchedule => ReadInTime
    BY Times DEF TypeOK, OnSchedule, ReadInTime, Longest
  <1> QED BY <1>1, <1>2, <1>3, WindowTypes, PTL DEF Spec

(* The safety half of CopyIsBroadcast: a copy that is pending is not hidden.  *)
(* It stays pending until it is broadcast, overwritten, or a paste begins;    *)
(* and by NotedInTime it is pending no longer than one sleep and the longest  *)
(* broadcast.                                                                 *)
PendingUntilBroadcast == [][\A v \in Values : CopyPending(v) =>
  \/ CopyPending(v)'
  \/ monPc' = "post" /\ polled'.value = v
  \/ clipboard'.value # v
  \/ workerPc' # "idle"]_vars

THEOREM NeverHidden == Spec => PendingUntilBroadcast
  <1>1. ASSUME TypeOK, Next, NEW v \in Values, CopyPending(v)
        PROVE  \/ CopyPending(v)'
               \/ monPc' = "post" /\ polled'.value = v
               \/ clipboard'.value # v
               \/ workerPc' # "idle"
    <2>1. /\ clipboard = [value |-> v, by |-> "user"] /\ lastFingerprint # v
          /\ window < 0 /\ workerPc = "idle" /\ window \in Closed..Window
      BY <1>1 DEF CopyPending, TypeOK
    <2>2. ~Swallow /\ ~Worker
      BY <2>1 DEF Swallow, Suppressed, Worker, Paste, PasteGivesUp, PasteRaises, Mark, Closed
    <2>3. ASSUME NEW w \in Values, UserCopy(w)
          PROVE  clipboard'.value # v
      BY <2>1, <2>3 DEF UserCopy
    <2>4. ASSUME NEW w \in Values, Take(w) PROVE workerPc' # "idle"
      BY <2>4 DEF Take
    <2>5. CASE LookUnchanged \/ LookChanged \/ PostsOver
      BY <2>1, <2>5 DEF LookUnchanged, LookChanged, PostsOver, CopyPending
    <2>6. ASSUME NEW ticks \in 0..PostTicks, Publish(ticks)
          PROVE  CopyPending(v)' \/ (monPc' = "post" /\ polled'.value = v)
      BY <2>1, <2>6 DEF Publish, CopyPending
    <2>7. CASE Tick
      BY <2>1, <2>7 DEF Tick, CopyPending
    <2> QED BY <1>1, <2>2, <2>3, <2>4, <2>5, <2>6, <2>7 DEF Next, Monitor
  <1>2. TypeOK /\ [Next]_vars => [\A v \in Values : CopyPending(v) =>
           \/ CopyPending(v)'
           \/ monPc' = "post" /\ polled'.value = v
           \/ clipboard'.value # v
           \/ workerPc' # "idle"]_vars
    BY <1>1
  <1> QED BY <1>2, WindowTypes, PTL DEF Spec, PendingUntilBroadcast
=============================================================================
