------------------------ MODULE Configurator_proofs ------------------------
(* What the window says of its server and what the server has loaded, for any *)
(* files, processes and threads.                                              *)
EXTENDS Configurator, SequenceTheorems, TLAPS

USE ConfigOK DEF windowVars, spawnVars, threadVars, External, Defaults, Enters

LEMMA Joins == JoinOrder \in Seq(Threads)
  <1>1. /\ Len(JoinOrder) \in Nat
        /\ JoinOrder = [i \in 1..Len(JoinOrder) |-> JoinOrder[i]]
    BY LenProperties
  <1>2. \A i \in 1..Len(JoinOrder) : JoinOrder[i] \in Threads
    BY DEF Threads
  <1>3. JoinOrder \in [1..Len(JoinOrder) -> Threads]
    BY <1>1, <1>2
  <1> QED BY <1>1, <1>3, SeqDef

LEMMA Written ==
  /\ \A s \in Settings : Shows(s) \in Form
  /\ Defaults \in Settings
  /\ \A f \in Form : f.port \in Ports => Collected(f) \in Settings
  BY DEF Shows, Form, Settings, Collected

LEMMA FormTypes ==
  ASSUME TypeOK, NEW f \in Files
  PROVE  FormOf(f) \in Form
  <1>1. disk[f] # NoFile => disk[f] \in Settings
    BY DEF TypeOK
  <1> QED BY <1>1, Written DEF FormOf

LEMMA SpendType ==
  ASSUME TypeOK, NEW kind \in External, Spend(kind)
  PROVE  budget' \in [External -> Nat]
  BY DEF Spend, TypeOK

LEMMA InitTypes == Init => TypeOK
  <1> SUFFICES ASSUME Init PROVE TypeOK
    OBVIOUS
  <1>1. form \in Form /\ shown \in [Servers -> Form] /\ config \in [Servers -> Settings]
    BY Written DEF Init
  <1>2. joins \in [Servers -> Seq(Threads)] /\ budget \in [External -> Nat]
    BY DEF Init
  <1>3. /\ stage \in [Servers -> Stages] /\ port \in [Servers -> Ports]
        /\ reads \in [Servers -> Files] /\ env \in [Servers -> BOOLEAN]
        /\ threads \in [Servers -> SUBSET Threads]
    BY DEF Init, Stages
  <1>4. disk \in [Files -> Settings \cup {NoFile}] /\ path \in Files
    BY DEF Init
  <1> QED BY <1>1, <1>2, <1>3, <1>4 DEF Init, TypeOK

(* The window's file.                                                         *)
LEMMA WriteTypes ==
  ASSUME TypeOK, NEW f \in Form, f.port \in Ports, Write(f)
  PROVE  disk' \in [Files -> Settings \cup {NoFile}]
  BY Written DEF Write, TypeOK

LEMMA TouchesType == TypeOK => Touches \subseteq Servers
  BY DEF TypeOK, Touches

LEMMA FormActions ==
  ASSUME TypeOK,
         \/ OpenWindow \/ CloseWindow \/ EditForm \/ LoadForm \/ ResetDefaults
         \/ SaveConfig \/ GenerateNewKey \/ ImportKeyArchive
  PROVE  TypeOK'
  <1>1. CASE OpenWindow
    <2>1. form' \in Form
      BY <1>1, FormTypes DEF OpenWindow
    <2> QED BY <1>1, <2>1 DEF OpenWindow, TypeOK
  <1>2. CASE CloseWindow
    <2>1. budget' \in [External -> Nat]
      BY <1>2, SpendType DEF CloseWindow
    <2> QED BY <1>2, <2>1 DEF CloseWindow, TypeOK
  <1>3. CASE EditForm
    <2>1. budget' \in [External -> Nat]
      BY <1>3, SpendType DEF EditForm
    <2> QED BY <1>3, <2>1 DEF EditForm, TypeOK
  <1>4. CASE LoadForm
    <2>1. form' \in Form
      BY <1>4, FormTypes DEF LoadForm, TypeOK
    <2> QED BY <1>4, <2>1 DEF LoadForm, TypeOK
  <1>5. CASE ResetDefaults
    <2>1. form' \in Form
      BY <1>5, Written DEF ResetDefaults
    <2> QED BY <1>5, <2>1 DEF ResetDefaults, TypeOK
  <1>6. CASE SaveConfig \/ ImportKeyArchive
    <2>1. SaveConfig
      BY <1>6 DEF ImportKeyArchive
    <2>2. disk' \in [Files -> Settings \cup {NoFile}]
      BY <2>1, WriteTypes DEF SaveConfig, Valid, TypeOK
    <2>3. touched' \subseteq Servers
      BY <2>1, TouchesType DEF SaveConfig
    <2> QED BY <2>1, <2>2, <2>3 DEF SaveConfig, TypeOK
  <1>7. CASE GenerateNewKey
    <2> DEFINE f == [form EXCEPT !.secure = TRUE, !.typed = FALSE]
    <2>1. f \in Form /\ f.port = form.port
      BY DEF TypeOK, Form
    <2>2. /\ form' = f
          /\ \/ Valid /\ Write(f) /\ touched' = Touches
             \/ UNCHANGED <<disk, touched>>
          /\ UNCHANGED <<window, path, label, child, mine, stage, spawnVars, config, keyed,
                         threadVars, responding, terminated, budget>>
      BY <1>7 DEF GenerateNewKey
    <2> HIDE DEF f
    <2>3. disk' \in [Files -> Settings \cup {NoFile}]
      <3>1. CASE Valid /\ Write(f)
        BY <2>1, <3>1, WriteTypes DEF Valid
      <3>2. CASE UNCHANGED disk
        BY <3>2 DEF TypeOK
      <3> QED BY <2>2, <3>1, <3>2
    <2>4. touched' \subseteq Servers
      BY <2>2, TouchesType DEF TypeOK
    <2> QED BY <2>1, <2>2, <2>3, <2>4 DEF TypeOK
  <1> QED BY <1>1, <1>2, <1>3, <1>4, <1>5, <1>6, <1>7

LEMMA ButtonActions ==
  ASSUME TypeOK,
         \/ AlreadyRunning \/ StartRefused \/ NothingToStop \/ StopApplication \/ Waiting
         \/ \E i \in Servers : StartApplication(i)
  PROVE  TypeOK'
  <1>1. CASE AlreadyRunning \/ NothingToStop \/ Waiting
    BY <1>1 DEF AlreadyRunning, NothingToStop, Waiting, StopDone, StopTimesOut,
                LabelAfterTimeout, ChildAfterTimeout, TypeOK
  <1>2. CASE StartRefused
    <2>1. disk' \in [Files -> Settings \cup {NoFile}]
      <3>1. CASE UNCHANGED disk
        BY <3>1 DEF TypeOK
      <3>2. CASE Valid /\ Write(form)
        BY <3>2, WriteTypes DEF Valid, TypeOK
      <3> QED BY <1>2, <3>1, <3>2 DEF StartRefused
    <2>2. touched' \subseteq Servers
      BY <1>2, TouchesType DEF StartRefused, TypeOK
    <2> QED BY <1>2, <2>1, <2>2 DEF StartRefused, TypeOK
  <1>3. CASE StopApplication
    <2>1. child \in Servers
      BY <1>3 DEF StopApplication, ChildLives, TypeOK
    <2>2. stage' \in [Servers -> Stages]
      BY <1>3, <2>1 DEF StopApplication, TypeOK, Stages
    <2> QED BY <1>3, <2>1, <2>2 DEF StopApplication, TypeOK
  <1>4. ASSUME NEW i \in Servers, StartApplication(i) PROVE TypeOK'
    <2>1. form \in Form /\ form.port \in Ports /\ form.typed \in BOOLEAN /\ path \in Files
      BY <1>4 DEF StartApplication, Valid, TypeOK, Form
    <2>2. disk' \in [Files -> Settings \cup {NoFile}]
      BY <1>4, <2>1, WriteTypes DEF StartApplication
    <2>3. touched' \subseteq Servers
      BY <1>4, TouchesType DEF StartApplication
    <2>4. /\ stage' \in [Servers -> Stages]
          /\ port' \in [Servers -> Ports]
          /\ reads' \in [Servers -> Files]
          /\ env' \in [Servers -> BOOLEAN]
          /\ shown' \in [Servers -> Form]
      BY <1>4, <2>1 DEF StartApplication, TypeOK, Stages
    <2>5. /\ child' = i /\ mine' = mine \cup {i} /\ label' = "Running"
          /\ UNCHANGED <<window, path, form, config, keyed, threadVars, responding, terminated,
                         budget>>
      BY <1>4 DEF StartApplication
    <2> QED BY <2>2, <2>3, <2>4, <2>5 DEF TypeOK
  <1> QED BY <1>1, <1>2, <1>3, <1>4

LEMMA ServerActions ==
  ASSUME TypeOK, NEW i \in Servers, Server(i) \/ Respond(i) \/ ResponseEnds(i)
  PROVE  TypeOK'
  <1>1. CASE LoadConfig(i)
    <2> DEFINE s == disk[reads[i]]
    <2>1. s \in Settings \cup {NoFile}
      BY DEF TypeOK
    <2>2. stage' \in [Servers -> Stages]
      BY <1>1 DEF LoadConfig, TypeOK, Stages
    <2>3. config' \in [Servers -> Settings]
      <3>1. config' = config \/ (s # NoFile /\ config' = [config EXCEPT ![i] = s])
        BY <1>1 DEF LoadConfig
      <3>2. config \in [Servers -> Settings]
        BY DEF TypeOK
      <3> HIDE DEF s
      <3> QED BY <2>1, <3>1, <3>2
    <2>4. keyed' \subseteq Servers
      <3>1. keyed' \subseteq keyed \cup {i}
        BY <1>1 DEF LoadConfig
      <3> QED BY <3>1 DEF TypeOK
    <2>5. UNCHANGED <<windowVars, disk, spawnVars, touched, threadVars, responding, terminated,
                      budget>>
      BY <1>1 DEF LoadConfig
    <2> QED BY <2>2, <2>3, <2>4, <2>5 DEF TypeOK
  <1>2. CASE Listen(i)
    <2>1. stage' \in [Servers -> Stages] /\ threads' \in [Servers -> SUBSET Threads]
      <3>1. PICK s \in {"gone", "draining", "serving"} : stage' = [stage EXCEPT ![i] = s]
        BY <1>2 DEF Listen
      <3>2. threads' = threads \/ threads' = [threads EXCEPT ![i] = Threads]
        BY <1>2 DEF Listen
      <3>3. stage' \in [Servers -> Stages]
        BY <3>1 DEF TypeOK, Stages
      <3> QED BY <3>2, <3>3 DEF TypeOK
    <2> QED BY <1>2, <2>1 DEF Listen, TypeOK
  <1>3. CASE Drain(i)
    BY <1>3 DEF Drain, TypeOK, Stages
  <1>4. CASE Leave(i)
    <2>1. /\ stage' \in [Servers -> Stages]
          /\ threads' \in [Servers -> SUBSET Threads]
          /\ joins' \in [Servers -> Seq(Threads)]
      <3>1. PICK s \in {"gone", "joining"} : stage' = [stage EXCEPT ![i] = s]
        BY <1>4 DEF Leave
      <3>2. threads' = threads \/ threads' = [threads EXCEPT ![i] = {}]
        BY <1>4 DEF Leave
      <3>3. joins' = joins \/ joins' = [joins EXCEPT ![i] = JoinOrder]
        BY <1>4 DEF Leave
      <3>4. stage' \in [Servers -> Stages]
        BY <3>1 DEF TypeOK, Stages
      <3>5. joins' \in [Servers -> Seq(Threads)]
        BY <3>3, Joins DEF TypeOK
      <3> QED BY <3>2, <3>4, <3>5 DEF TypeOK
    <2> QED BY <1>4, <2>1 DEF Leave, TypeOK
  <1>5. CASE Join(i)
    <2>1. joins[i] \in Seq(Threads) /\ joins[i] # <<>>
      BY <1>5 DEF Join, TypeOK
    <2>2. Tail(joins[i]) \in Seq(Threads)
      BY <2>1
    <2>3. joins' \in [Servers -> Seq(Threads)]
      BY <1>5, <2>2 DEF Join, TypeOK
    <2> QED BY <1>5, <2>3 DEF Join, TypeOK
  <1>6. CASE Exit(i)
    <2>1. stage' \in [Servers -> Stages] /\ threads' \in [Servers -> SUBSET Threads]
      BY <1>6 DEF Exit, TypeOK, Stages
    <2> QED BY <1>6, <2>1 DEF Exit, TypeOK
  <1>7. CASE Respond(i) \/ ResponseEnds(i)
    BY <1>7 DEF Respond, ResponseEnds, TypeOK
  <1> QED BY <1>1, <1>2, <1>3, <1>4, <1>5, <1>6, <1>7 DEF Server

LEMMA EndActions ==
  ASSUME TypeOK, NEW i \in Servers, Crash(i) \/ \E t \in Threads : ThreadEnds(i, t)
  PROVE  TypeOK'
  <1>1. CASE Crash(i)
    <2>1. budget' \in [External -> Nat]
      BY <1>1, SpendType DEF Crash
    <2>2. /\ stage' \in [Servers -> Stages]
          /\ threads' \in [Servers -> SUBSET Threads]
          /\ joins' \in [Servers -> Seq(Threads)]
      <3>1. /\ stage' = [stage EXCEPT ![i] = "gone"]
            /\ threads' = [threads EXCEPT ![i] = {}]
            /\ joins' = [joins EXCEPT ![i] = <<>>]
        BY <1>1 DEF Crash
      <3>2. <<>> \in Seq(Threads) /\ "gone" \in Stages
        BY DEF Stages
      <3> QED BY <3>1, <3>2 DEF TypeOK
    <2>3. /\ responding' = responding \ {i}
          /\ UNCHANGED <<windowVars, disk, spawnVars, touched, config, keyed, terminated>>
      BY <1>1 DEF Crash
    <2> QED BY <2>1, <2>2, <2>3 DEF TypeOK
  <1>2. CASE \E t \in Threads : ThreadEnds(i, t)
    <2>1. PICK t \in Threads : ThreadEnds(i, t)
      BY <1>2
    <2>2. threads' \in [Servers -> SUBSET Threads]
      BY <2>1 DEF ThreadEnds, TypeOK
    <2> QED BY <2>1, <2>2 DEF ThreadEnds, TypeOK
  <1> QED BY <1>1, <1>2

LEMMA StepTypes == TypeOK /\ [Next]_vars => TypeOK'
  <1> SUFFICES ASSUME TypeOK, [Next]_vars PROVE TypeOK'
    OBVIOUS
  <1>1. CASE UNCHANGED vars
    BY <1>1 DEF vars, TypeOK
  <1> QED BY <1>1, FormActions, ButtonActions, ServerActions, EndActions DEF Next, Window

(* Every variable keeps its type, for any files, processes and budgets.       *)
THEOREM ConfiguratorTypes == Spec => []TypeOK
  BY InitTypes, StepTypes, PTL DEF Spec

-----------------------------------------------------------------------------
(* No process comes to life but by StartApplication, and no process touches   *)
(* the window.                                                                *)
Process == \E i \in Servers :
  Server(i) \/ Respond(i) \/ ResponseEnds(i) \/ Crash(i) \/ \E t \in Threads : ThreadEnds(i, t)

LEMMA ProcessStages ==
  ASSUME TypeOK, Process
  PROVE  /\ UNCHANGED windowVars
         /\ UNCHANGED <<disk, spawnVars, touched>>
         /\ \A j \in Servers : Live(j)' => Live(j)
  <1>1. PICK i \in Servers : \/ Server(i) \/ Respond(i) \/ ResponseEnds(i) \/ Crash(i)
                             \/ \E t \in Threads : ThreadEnds(i, t)
    BY DEF Process
  <1>2. UNCHANGED windowVars /\ UNCHANGED <<disk, spawnVars, touched>>
    BY <1>1 DEF Server, LoadConfig, Listen, Drain, Leave, Join, Exit, Respond, ResponseEnds,
                Crash, ThreadEnds
  <1>3. UNCHANGED stage \/ (Live(i) /\ \E s \in Stages : stage' = [stage EXCEPT ![i] = s])
    <2>1. CASE LoadConfig(i) \/ Listen(i)
      BY <2>1 DEF LoadConfig, Listen, Live, Stages
    <2>2. CASE Drain(i) \/ Leave(i) \/ Exit(i)
      BY <2>2 DEF Drain, Leave, Exit, Live, Stages
    <2>3. CASE Join(i) \/ Respond(i) \/ ResponseEnds(i) \/ \E t \in Threads : ThreadEnds(i, t)
      <3>1. UNCHANGED stage
        BY <2>3 DEF Join, Respond, ResponseEnds, ThreadEnds
      <3> QED BY <3>1
    <2>4. CASE Crash(i)
      BY <2>4 DEF Crash, Stages
    <2> QED BY <1>1, <2>1, <2>2, <2>3, <2>4 DEF Server
  <1>4. \A j \in Servers : stage'[j] = stage[j] \/ Live(j)
    BY <1>3 DEF TypeOK
  <1> QED BY <1>2, <1>4 DEF Live

(* What the window knows: which processes it answers for, and its label.      *)
Honest == OneServer /\ StoppedIsTrue

LEMMA ChildIsTheOne ==
  ASSUME Honest, ~ChildLives, TypeOK
  PROVE  \A i \in mine : ~Live(i)
  <1> SUFFICES ASSUME NEW i \in mine, Live(i) PROVE FALSE
    OBVIOUS
  <1>1. i = child /\ i \in Servers
    BY DEF Honest, OneServer, TypeOK
  <1> QED BY <1>1 DEF ChildLives

LEMMA HonestStep ==
  ASSUME TypeOK, Honest, [Next]_vars
  PROVE  Honest'
  <1> USE DEF Honest, OneServer, StoppedIsTrue
  <1>1. CASE UNCHANGED vars
    BY <1>1 DEF vars, Live
  <1>2. CASE OpenWindow
    BY <1>2 DEF OpenWindow
  <1>3. CASE CloseWindow \/ EditForm \/ LoadForm \/ ResetDefaults
    <2>1. UNCHANGED <<mine, child, label, stage>> /\ (window' = window \/ window' = "closed")
      BY <1>3 DEF CloseWindow, EditForm, LoadForm, ResetDefaults
    <2> QED BY <2>1 DEF Live
  <1>4. CASE SaveConfig \/ GenerateNewKey \/ ImportKeyArchive \/ AlreadyRunning
    <2>1. UNCHANGED <<mine, child, window, stage>> /\ label' \in {label, "Running"}
      BY <1>4 DEF SaveConfig, GenerateNewKey, ImportKeyArchive, AlreadyRunning
    <2> QED BY <2>1 DEF Live
  <1>5. CASE StartRefused \/ NothingToStop \/ StopDone
    <2>1. ~ChildLives /\ UNCHANGED <<mine, child, stage>>
      BY <1>5 DEF StartRefused, NothingToStop, StopDone
    <2>2. \A i \in mine : ~Live(i)
      BY <2>1, ChildIsTheOne
    <2> QED BY <2>1, <2>2 DEF Live
  <1>6. CASE StopApplication
    <2>1. /\ UNCHANGED <<mine, child, label>> /\ window = "open"
          /\ \A j \in Servers : Live(j)' => Live(j)
      BY <1>6 DEF StopApplication, Live, TypeOK
    <2> QED BY <2>1 DEF TypeOK
  <1>7. CASE StopTimesOut
    <2>1. UNCHANGED <<mine, child, label, stage>> /\ window = "waiting"
      BY <1>7 DEF StopTimesOut, LabelAfterTimeout, ChildAfterTimeout
    <2> QED BY <2>1 DEF Live
  <1>8. ASSUME NEW i \in Servers, StartApplication(i) PROVE Honest'
    <2>1. /\ ~ChildLives /\ child' = i /\ mine' = mine \cup {i} /\ label' = "Running"
          /\ \A j \in Servers \ {i} : stage'[j] = stage[j]
      BY <1>8 DEF StartApplication, TypeOK
    <2>2. \A j \in mine : ~Live(j)
      BY <2>1, ChildIsTheOne
    <2>3. \A j \in mine' : Live(j)' => j = i
      BY <2>1, <2>2 DEF Live, TypeOK
    <2> QED BY <2>1, <2>3
  <1>9. CASE Process
    <2>1. UNCHANGED windowVars /\ \A j \in Servers : Live(j)' => Live(j)
      BY <1>9, ProcessStages
    <2> QED BY <2>1 DEF TypeOK
  <1> QED BY <1>1, <1>2, <1>3, <1>4, <1>5, <1>6, <1>7, <1>8, <1>9
          DEF Next, Window, Waiting, Process

(* The inductive invariant behind the two theorems below.                     *)
THEOREM HonestWindow == Spec => []Honest
  <1>1. Init => Honest
    BY DEF Init, Honest, OneServer, StoppedIsTrue
  <1> QED BY <1>1, HonestStep, ConfiguratorTypes, PTL DEF Spec

(* A window never has two live servers, in any number of starts and stops.    *)
THEOREM NeverTwoServers == Spec => []OneServer
  <1>1. Honest => OneServer
    BY DEF Honest
  <1> QED BY <1>1, HonestWindow, PTL

(* "Stopped" is shown only when none of the window's processes lives.         *)
THEOREM StoppedMeansGone == Spec => []StoppedIsTrue
  <1>1. Honest => StoppedIsTrue
    BY DEF Honest
  <1> QED BY <1>1, HonestWindow, PTL

-----------------------------------------------------------------------------
(* The strengthening: until a server has loaded its file, the file holds what *)
(* the window showed, unless it was touched.                                  *)
Prepared == \A i \in Servers :
  /\ stage[i] \in {"none", "spawned"} => i \notin keyed
  /\ i \notin touched /\ stage[i] = "spawned" =>
       /\ disk[reads[i]] = Collected(shown[i])
       /\ port[i] = shown[i].port /\ shown[i].port \in Ports
       /\ env[i] = shown[i].typed

Faithful == Prepared /\ StartsAsShown

(* The window writes its file, or not, while no process changes.              *)
LEMMA WriteFaithful ==
  ASSUME TypeOK, Faithful,
         \/ touched' = Touches /\ \E f \in Form : Write(f)
         \/ UNCHANGED <<disk, touched>>,
         UNCHANGED <<stage, spawnVars, config, keyed>>
  PROVE  Faithful'
  <1>1. touched \subseteq touched'
    BY DEF Touches
  <1>2. \A i \in Servers \ touched' :
          stage[i] = "spawned" => disk'[reads[i]] = disk[reads[i]]
    BY DEF Touches, Write, TypeOK
  <1>3. Prepared'
    BY <1>1, <1>2 DEF Faithful, Prepared
  <1>4. StartsAsShown'
    BY <1>1 DEF Faithful, StartsAsShown
  <1> QED BY <1>3, <1>4 DEF Faithful

(* A process ends or goes on after it has loaded its file.                    *)
LEMMA GoesOnFaithful ==
  ASSUME TypeOK, Faithful, UNCHANGED <<disk, spawnVars, touched, config, keyed>>,
         \A j \in Servers : \/ stage'[j] \in {stage[j], "gone"}
                            \/ /\ stage[j] \notin {"none", "spawned", "gone"}
                               /\ stage'[j] \notin {"none", "spawned"}
  PROVE  Faithful'
  <1>1. Prepared'
    BY DEF Faithful, Prepared
  <1>2. StartsAsShown'
    BY DEF Faithful, StartsAsShown
  <1> QED BY <1>1, <1>2 DEF Faithful

LEMMA LoadFaithful ==
  ASSUME TypeOK, Faithful, NEW i \in Servers, LoadConfig(i)
  PROVE  Faithful'
  <1> DEFINE s == disk[reads[i]]
  <1>1. stage[i] = "spawned" /\ UNCHANGED <<disk, spawnVars, touched>>
    BY DEF LoadConfig
  <1>2. CASE s = NoFile
    <2>1. stage' = [stage EXCEPT ![i] = "gone"] /\ UNCHANGED <<config, keyed>>
      BY <1>2 DEF LoadConfig
    <2>2. \A j \in Servers : stage'[j] \in {stage[j], "gone"}
      BY <2>1 DEF TypeOK
    <2> QED BY <1>1, <2>1, <2>2, GoesOnFaithful
  <1>3. CASE s # NoFile
    <2>1. /\ stage' = [stage EXCEPT ![i] = "starting"]
          /\ config' = [config EXCEPT ![i] = s]
          /\ keyed' = IF LoadsKey(i, s) THEN keyed \cup {i} ELSE keyed
      BY <1>3 DEF LoadConfig
    <2>2. /\ stage'[i] = "starting" /\ config'[i] = s
          /\ \A j \in Servers \ {i} :
               stage'[j] = stage[j] /\ config'[j] = config[j] /\ (j \in keyed' <=> j \in keyed)
      BY <2>1 DEF TypeOK
    <2>3. i \in keyed' <=> LoadsKey(i, s)
      BY <1>1, <2>1 DEF Faithful, Prepared
    <2>4. Prepared'
      <3> SUFFICES ASSUME NEW j \in Servers
                   PROVE  /\ stage'[j] \in {"none", "spawned"} => j \notin keyed'
                          /\ j \notin touched /\ stage'[j] = "spawned" =>
                               /\ disk[reads[j]] = Collected(shown[j])
                               /\ port[j] = shown[j].port /\ shown[j].port \in Ports
                               /\ env[j] = shown[j].typed
        BY <1>1 DEF Prepared
      <3>1. CASE j = i
        BY <2>2, <3>1
      <3>2. CASE j # i
        <4>1. stage'[j] = stage[j] /\ (j \in keyed' <=> j \in keyed)
          BY <2>2, <3>2
        <4>2. /\ stage[j] \in {"none", "spawned"} => j \notin keyed
              /\ j \notin touched /\ stage[j] = "spawned" =>
                   /\ disk[reads[j]] = Collected(shown[j])
                   /\ port[j] = shown[j].port /\ shown[j].port \in Ports
                   /\ env[j] = shown[j].typed
          BY DEF Faithful, Prepared
        <4> QED BY <4>1, <4>2
      <3> QED BY <3>1, <3>2
    <2>5. i \notin touched =>
            config'[i].port = port[i] /\ (i \in keyed' <=> shown[i].secure /\ shown[i].typed)
      <3> SUFFICES ASSUME i \notin touched
                   PROVE  /\ config'[i].port = port[i]
                          /\ i \in keyed' <=> shown[i].secure /\ shown[i].typed
        OBVIOUS
      <3>1. s = Collected(shown[i]) /\ port[i] = shown[i].port /\ env[i] = shown[i].typed
        BY <1>1 DEF Faithful, Prepared
      <3>2. s.port = port[i] /\ s.secure = shown[i].secure /\ s.password = FALSE
        BY <3>1 DEF Collected
      <3>3. LoadsKey(i, s) <=> shown[i].secure /\ shown[i].typed
        BY <3>1, <3>2 DEF LoadsKey
      <3> QED BY <2>2, <2>3, <3>2, <3>3
    <2>6. StartsAsShown'
      <3> SUFFICES ASSUME NEW j \in Servers \ touched,
                          stage'[j] \notin {"none", "spawned", "gone"}
                   PROVE  /\ config'[j].port = port[j]
                          /\ j \in keyed' <=> shown[j].secure /\ shown[j].typed
        BY <1>1 DEF StartsAsShown
      <3>1. CASE j = i
        <4>1. i \notin touched
          BY <3>1
        <4>2. config'[i].port = port[i] /\ (i \in keyed' <=> shown[i].secure /\ shown[i].typed)
          BY <2>5, <4>1
        <4> QED BY <3>1, <4>2
      <3>2. CASE j # i
        <4>1. stage'[j] = stage[j] /\ config'[j] = config[j] /\ (j \in keyed' <=> j \in keyed)
          BY <2>2, <3>2
        <4>2. config[j].port = port[j] /\ (j \in keyed <=> shown[j].secure /\ shown[j].typed)
          BY <4>1 DEF Faithful, StartsAsShown
        <4> QED BY <4>1, <4>2
      <3> QED BY <3>1, <3>2
    <2> QED BY <2>4, <2>6 DEF Faithful
  <1> QED BY <1>2, <1>3

LEMMA StartFaithful ==
  ASSUME TypeOK, Faithful, NEW i \in Servers, StartApplication(i)
  PROVE  Faithful'
  <1>1. /\ Valid /\ stage[i] = "none" /\ Write(form)
        /\ touched' = Touches \cup (IF Reads[path] = path THEN {} ELSE {i})
        /\ UNCHANGED <<config, keyed>>
    BY DEF StartApplication, IsNext
  <1>2. /\ stage'[i] = "spawned" /\ port'[i] = form.port /\ reads'[i] = Reads[path]
        /\ env'[i] = form.typed /\ shown'[i] = form
        /\ \A j \in Servers \ {i} :
             /\ stage'[j] = stage[j] /\ port'[j] = port[j] /\ reads'[j] = reads[j]
             /\ env'[j] = env[j] /\ shown'[j] = shown[j]
    BY DEF StartApplication, TypeOK
  <1>3. touched \subseteq touched'
    BY <1>1 DEF Touches
  <1>4. \A j \in Servers \ touched' : stage[j] = "spawned" => disk'[reads[j]] = disk[reads[j]]
    BY <1>1 DEF Touches, Write, TypeOK
  <1>5. i \notin touched' => disk'[reads'[i]] = Collected(form)
    BY <1>1, <1>2 DEF Write, TypeOK
  <1>6. Prepared'
    <2> SUFFICES ASSUME NEW j \in Servers
                 PROVE  /\ stage'[j] \in {"none", "spawned"} => j \notin keyed'
                        /\ j \notin touched' /\ stage'[j] = "spawned" =>
                             /\ disk'[reads'[j]] = Collected(shown'[j])
                             /\ port'[j] = shown'[j].port /\ shown'[j].port \in Ports
                             /\ env'[j] = shown'[j].typed
      BY DEF Prepared
    <2>1. CASE j = i
      BY <1>1, <1>2, <1>5, <2>1 DEF Faithful, Prepared, Valid
    <2>2. CASE j # i
      <3>1. /\ stage'[j] = stage[j] /\ port'[j] = port[j] /\ reads'[j] = reads[j]
            /\ env'[j] = env[j] /\ shown'[j] = shown[j] /\ keyed' = keyed
        BY <1>1, <1>2, <2>2
      <3>2. j \notin touched' => j \notin touched
        BY <1>3
      <3>3. j \notin touched' /\ stage[j] = "spawned" => disk'[reads[j]] = disk[reads[j]]
        BY <1>4
      <3>4. /\ stage[j] \in {"none", "spawned"} => j \notin keyed
            /\ j \notin touched /\ stage[j] = "spawned" =>
                 /\ disk[reads[j]] = Collected(shown[j])
                 /\ port[j] = shown[j].port /\ shown[j].port \in Ports
                 /\ env[j] = shown[j].typed
        BY DEF Faithful, Prepared
      <3> QED BY <3>1, <3>2, <3>3, <3>4
    <2> QED BY <2>1, <2>2
  <1>7. StartsAsShown'
    BY <1>1, <1>2, <1>3 DEF Faithful, StartsAsShown
  <1> QED BY <1>6, <1>7 DEF Faithful

LEMMA FaithfulStep ==
  ASSUME TypeOK, Faithful, [Next]_vars
  PROVE  Faithful'
  <1>1. CASE UNCHANGED vars
    BY <1>1 DEF vars, Faithful, Prepared, StartsAsShown
  <1>2. CASE \/ OpenWindow \/ CloseWindow \/ EditForm \/ LoadForm \/ ResetDefaults
             \/ AlreadyRunning \/ NothingToStop \/ Waiting
    <2>1. UNCHANGED <<disk, touched, stage, spawnVars, config, keyed>>
      BY <1>2 DEF OpenWindow, CloseWindow, EditForm, LoadForm, ResetDefaults, AlreadyRunning,
                  NothingToStop, Waiting, StopDone, StopTimesOut
    <2> QED BY <2>1, WriteFaithful
  <1>3. CASE SaveConfig \/ ImportKeyArchive \/ StartRefused
    <2>1. /\ form \in Form
          /\ \/ touched' = Touches /\ Write(form)
             \/ UNCHANGED <<disk, touched>>
          /\ UNCHANGED <<stage, spawnVars, config, keyed>>
      BY <1>3 DEF SaveConfig, ImportKeyArchive, StartRefused, TypeOK
    <2> QED BY <2>1, WriteFaithful
  <1>4. CASE GenerateNewKey
    <2> DEFINE f == [form EXCEPT !.secure = TRUE, !.typed = FALSE]
    <2>1. f \in Form
      BY DEF TypeOK, Form
    <2>2. /\ \/ touched' = Touches /\ Write(f)
             \/ UNCHANGED <<disk, touched>>
          /\ UNCHANGED <<stage, spawnVars, config, keyed>>
      BY <1>4 DEF GenerateNewKey
    <2> HIDE DEF f
    <2> QED BY <2>1, <2>2, WriteFaithful
  <1>5. CASE StopApplication
    <2>1. /\ UNCHANGED <<disk, spawnVars, touched, config, keyed>>
          /\ UNCHANGED stage \/ stage' = [stage EXCEPT ![child] = "gone"]
      BY <1>5 DEF StopApplication
    <2>2. \A j \in Servers : stage'[j] \in {stage[j], "gone"}
      BY <2>1 DEF TypeOK
    <2> QED BY <2>1, <2>2, GoesOnFaithful
  <1>6. ASSUME NEW i \in Servers, StartApplication(i) \/ LoadConfig(i) PROVE Faithful'
    BY <1>6, StartFaithful, LoadFaithful
  <1>7. ASSUME NEW i \in Servers, Listen(i) \/ Drain(i) \/ Leave(i) \/ Exit(i) PROVE Faithful'
    <2>1. /\ UNCHANGED <<disk, spawnVars, touched, config, keyed>>
          /\ stage[i] \notin {"none", "spawned", "gone"}
      BY <1>7 DEF Listen, Drain, Leave, Exit
    <2>2. \E s \in {"serving", "draining", "joining", "gone"} :
            stage' = [stage EXCEPT ![i] = s]
      BY <1>7 DEF Listen, Drain, Leave, Exit
    <2>3. \A j \in Servers : \/ stage'[j] = stage[j]
                             \/ /\ stage[j] \notin {"none", "spawned", "gone"}
                                /\ stage'[j] \notin {"none", "spawned"}
      BY <2>1, <2>2 DEF TypeOK
    <2> QED BY <2>1, <2>3, GoesOnFaithful
  <1>8. ASSUME NEW i \in Servers,
               \/ Join(i) \/ Respond(i) \/ ResponseEnds(i) \/ Crash(i)
               \/ \E t \in Threads : ThreadEnds(i, t)
        PROVE  Faithful'
    <2>1. /\ UNCHANGED <<disk, spawnVars, touched, config, keyed>>
          /\ UNCHANGED stage \/ stage' = [stage EXCEPT ![i] = "gone"]
      BY <1>8 DEF Join, Respond, ResponseEnds, Crash, ThreadEnds
    <2>2. \A j \in Servers : stage'[j] \in {stage[j], "gone"}
      BY <2>1 DEF TypeOK
    <2> QED BY <2>1, <2>2, GoesOnFaithful
  <1> QED BY <1>1, <1>2, <1>3, <1>4, <1>5, <1>6, <1>7, <1>8 DEF Next, Window, Server

(* A server runs with the port and the key that the window showed when it was *)
(* started, for any files, edits and restarts.                                *)
THEOREM ServersStartAsShown == Spec => []StartsAsShown
  <1>1. Init => Faithful
    BY DEF Init, Faithful, Prepared, StartsAsShown
  <1>2. Faithful => StartsAsShown
    BY DEF Faithful
  <1> QED BY <1>1, <1>2, FaithfulStep, ConfiguratorTypes, PTL DEF Spec

-----------------------------------------------------------------------------
(* The way of a process: it never goes back to an earlier stage, each step of *)
(* its own takes it to a later one or to fewer joins, and once it no longer   *)
(* serves no response is opened that could hold it up.                        *)
Reached(s) == IF s = "none" THEN 0
              ELSE IF s = "spawned" THEN 1
              ELSE IF s = "starting" THEN 2
              ELSE IF s = "serving" THEN 3
              ELSE IF s = "draining" THEN 4
              ELSE IF s = "joining" THEN 5
              ELSE 6

Further(i) == Reached(stage'[i]) > Reached(stage[i])
FewerJoins(i) == stage'[i] = stage[i] /\ Len(joins'[i]) < Len(joins[i])
Stays(i) == stage'[i] = stage[i] /\ joins'[i] = joins[i]

NothingOpened(i) == stage[i] # "serving" /\ i \in responding' => i \in responding

GoesForward == [][\A i \in Servers :
  /\ Further(i) \/ FewerJoins(i) \/ (Stays(i) /\ ~Server(i))
  /\ NothingOpened(i)]_vars

LEMMA OthersStay ==
  ASSUME TypeOK, NEW i \in Servers, NEW s \in Stages, NEW j \in Servers, j # i,
         UNCHANGED stage \/ stage' = [stage EXCEPT ![i] = s],
         UNCHANGED joins \/ \E q : joins' = [joins EXCEPT ![i] = q]
  PROVE  Stays(j)
  BY DEF Stays, TypeOK

(* A step of a process takes it forward and leaves the others where they are. *)
LEMMA ServerForward ==
  ASSUME TypeOK, NEW i \in Servers, Server(i)
  PROVE  /\ Further(i) \/ FewerJoins(i)
         /\ \A j \in Servers \ {i} : Stays(j)
         /\ UNCHANGED responding
  <1> USE DEF Stages
  <1>1. CASE LoadConfig(i)
    <2>1. /\ stage[i] = "spawned" /\ UNCHANGED <<joins, responding>>
          /\ \E s \in {"gone", "starting"} : stage' = [stage EXCEPT ![i] = s]
      BY <1>1 DEF LoadConfig
    <2>2. \A j \in Servers \ {i} : Stays(j)
      BY <2>1, OthersStay
    <2>3. Further(i)
      BY <2>1 DEF Further, Reached, TypeOK
    <2> QED BY <2>1, <2>2, <2>3
  <1>2. CASE Listen(i)
    <2>1. /\ stage[i] = "starting" /\ UNCHANGED <<joins, responding>>
          /\ \E s \in {"gone", "draining", "serving"} : stage' = [stage EXCEPT ![i] = s]
      BY <1>2 DEF Listen
    <2>2. \A j \in Servers \ {i} : Stays(j)
      BY <2>1, OthersStay
    <2>3. Further(i)
      BY <2>1 DEF Further, Reached, TypeOK
    <2> QED BY <2>1, <2>2, <2>3
  <1>3. CASE Drain(i)
    <2>1. /\ stage[i] = "serving" /\ UNCHANGED <<joins, responding>>
          /\ stage' = [stage EXCEPT ![i] = "draining"]
      BY <1>3 DEF Drain
    <2>2. \A j \in Servers \ {i} : Stays(j)
      BY <2>1, OthersStay
    <2>3. Further(i)
      BY <2>1 DEF Further, Reached, TypeOK
    <2> QED BY <2>1, <2>2, <2>3
  <1>4. CASE Leave(i)
    <2>1. /\ stage[i] = "draining" /\ UNCHANGED responding
          /\ \E s \in {"gone", "joining"} : stage' = [stage EXCEPT ![i] = s]
          /\ UNCHANGED joins \/ joins' = [joins EXCEPT ![i] = JoinOrder]
      BY <1>4 DEF Leave
    <2>2. \A j \in Servers \ {i} : Stays(j)
      BY <2>1, OthersStay
    <2>3. Further(i)
      BY <2>1 DEF Further, Reached, TypeOK
    <2> QED BY <2>1, <2>2, <2>3
  <1>5. CASE Join(i)
    <2>1. /\ UNCHANGED <<stage, responding>> /\ joins[i] # <<>> /\ joins[i] \in Seq(Threads)
          /\ joins' = [joins EXCEPT ![i] = Tail(joins[i])]
      BY <1>5 DEF Join, TypeOK
    <2>2. joins'[i] = Tail(joins[i])
      BY <2>1 DEF TypeOK
    <2>3. Len(Tail(joins[i])) < Len(joins[i])
      BY <2>1
    <2>4. FewerJoins(i)
      BY <2>1, <2>2, <2>3 DEF FewerJoins
    <2>5. \A j \in Servers \ {i} : Stays(j)
      BY <2>1, OthersStay
    <2> QED BY <2>1, <2>4, <2>5
  <1>6. CASE Exit(i)
    <2>1. /\ stage[i] = "joining" /\ UNCHANGED <<joins, responding>>
          /\ stage' = [stage EXCEPT ![i] = "gone"]
      BY <1>6 DEF Exit
    <2>2. \A j \in Servers \ {i} : Stays(j)
      BY <2>1, OthersStay
    <2>3. Further(i)
      BY <2>1 DEF Further, Reached, TypeOK
    <2> QED BY <2>1, <2>2, <2>3
  <1> QED BY <1>1, <1>2, <1>3, <1>4, <1>5, <1>6 DEF Server

(* Who stays has made no step of its own.                                     *)
LEMMA StaysIdle ==
  ASSUME TypeOK, NEW i \in Servers, Stays(i)
  PROVE  ~Server(i)
  <1> SUFFICES ASSUME Server(i) PROVE FALSE
    OBVIOUS
  <1>1. Further(i) \/ FewerJoins(i)
    BY ServerForward
  <1>2. Reached(stage[i]) \in Nat /\ Len(joins[i]) \in Nat
    BY DEF Reached, TypeOK
  <1> QED BY <1>1, <1>2 DEF Stays, Further, FewerJoins

LEMMA StepForward ==
  ASSUME TypeOK, [Next]_vars, NEW i \in Servers
  PROVE  /\ Further(i) \/ FewerJoins(i) \/ (Stays(i) /\ ~Server(i))
         /\ NothingOpened(i)
  <1>1. CASE UNCHANGED vars
    BY <1>1, StaysIdle DEF vars, Stays, NothingOpened
  <1>2. CASE \/ OpenWindow \/ CloseWindow \/ EditForm \/ LoadForm \/ ResetDefaults
            \/ SaveConfig \/ GenerateNewKey \/ ImportKeyArchive
            \/ AlreadyRunning \/ StartRefused \/ NothingToStop \/ StopDone \/ StopTimesOut
    <2>1. UNCHANGED <<stage, joins, responding>>
      BY <1>2 DEF OpenWindow, CloseWindow, EditForm, LoadForm, ResetDefaults, SaveConfig,
                  GenerateNewKey, ImportKeyArchive, AlreadyRunning, StartRefused,
                  NothingToStop, StopDone, StopTimesOut
    <2> QED BY <2>1, StaysIdle DEF Stays, NothingOpened
  <1>3. CASE StopApplication
    <2>1. /\ UNCHANGED <<joins, responding>> /\ child \in Servers
          /\ \/ UNCHANGED stage
             \/ stage[child] = "spawned" /\ stage' = [stage EXCEPT ![child] = "gone"]
      BY <1>3 DEF StopApplication, ChildLives, TypeOK
    <2>2. Further(i) \/ Stays(i)
      BY <2>1 DEF Further, Stays, Reached, TypeOK
    <2> QED BY <2>1, <2>2, StaysIdle DEF NothingOpened
  <1>4. ASSUME NEW j \in Servers, StartApplication(j)
        PROVE  (Further(i) \/ (Stays(i) /\ ~Server(i))) /\ NothingOpened(i)
    <2>1. /\ UNCHANGED <<joins, responding>> /\ stage[j] = "none"
          /\ stage' = [stage EXCEPT ![j] = "spawned"]
      BY <1>4 DEF StartApplication, IsNext
    <2>2. Further(i) \/ Stays(i)
      BY <2>1 DEF Further, Stays, Reached, TypeOK
    <2> QED BY <2>1, <2>2, StaysIdle DEF NothingOpened
  <1>5. ASSUME NEW j \in Servers, Server(j)
        PROVE  /\ Further(i) \/ FewerJoins(i) \/ (Stays(i) /\ ~Server(i))
               /\ NothingOpened(i)
    <2>1. CASE i = j
      BY <1>5, <2>1, ServerForward DEF NothingOpened
    <2>2. CASE i # j
      <3>1. Stays(i) /\ UNCHANGED responding
        BY <1>5, <2>2, ServerForward
      <3> QED BY <3>1, StaysIdle DEF NothingOpened
    <2> QED BY <2>1, <2>2
  <1>6. ASSUME NEW j \in Servers, Respond(j) \/ ResponseEnds(j) \/ \E t \in Threads : ThreadEnds(j, t)
        PROVE  Stays(i) /\ ~Server(i) /\ NothingOpened(i)
    <2>1. UNCHANGED <<stage, joins>>
      BY <1>6 DEF Respond, ResponseEnds, ThreadEnds
    <2>2. NothingOpened(i)
      BY <1>6 DEF Respond, ResponseEnds, ThreadEnds, NothingOpened
    <2> QED BY <2>1, <2>2, StaysIdle DEF Stays
  <1>7. ASSUME NEW j \in Servers, Crash(j)
        PROVE  (Further(i) \/ (Stays(i) /\ ~Server(i))) /\ NothingOpened(i)
    <2>1. /\ stage[j] \notin {"none", "gone"}
          /\ stage' = [stage EXCEPT ![j] = "gone"]
          /\ joins' = [joins EXCEPT ![j] = <<>>]
          /\ responding' \subseteq responding
      BY <1>7 DEF Crash, Live
    <2>2. CASE i = j
      <3>1. stage[i] \in Stages /\ stage'[i] = "gone"
        BY <2>1, <2>2 DEF TypeOK
      <3>2. Further(i)
        BY <2>1, <2>2, <3>1 DEF Further, Reached, Stages
      <3> QED BY <2>1, <3>2 DEF NothingOpened
    <2>3. CASE i # j
      <3>1. Stays(i)
        BY <2>1, <2>3 DEF Stays, TypeOK
      <3> QED BY <2>1, <3>1, StaysIdle DEF NothingOpened
    <2> QED BY <2>2, <2>3
  <1> QED BY <1>1, <1>2, <1>3, <1>4, <1>5, <1>6, <1>7 DEF Next, Window, Waiting

(* Whatever the window, the clients and the threads do, every step of a       *)
(* process takes it nearer to its end and none takes it back.                 *)
THEOREM ProcessesGoForward == Spec => GoesForward
  <1>1. TypeOK /\ [Next]_vars =>
          [\A i \in Servers :
             /\ Further(i) \/ FewerJoins(i) \/ (Stays(i) /\ ~Server(i))
             /\ NothingOpened(i)]_vars
    BY StepForward
  <1> QED BY <1>1, ConfiguratorTypes, PTL DEF Spec, GoesForward
=============================================================================
