---------------------------- MODULE Configurator ----------------------------
(***************************************************************************)
(* The configuration window, the file it writes and the server processes   *)
(* it starts: what a process loads, how it listens, and how it ends when   *)
(* the window terminates it.  A window blocks while it waits for a process *)
(* to end.  Closing the window by its frame leaves the process alone: the  *)
(* handler that would stop it is bound to nothing.                         *)
(***************************************************************************)
EXTENDS Integers, Sequences

CONSTANTS
  Files,         \* paths of configuration files
  Standard,      \* config/config.yaml of the project, shown at first
  Reads,         \* per path, the file that a server started from it reads
  Ports,         \* valid ports
  DefaultPort,
  BadPort,       \* anything int() refuses
  FilesAtFirst,  \* what may be on the disk before
  NoFile,
  NoChild,
  Servers,       \* processes, numbered in the order of their starts: a bound
  JoinOrder,     \* the threads of a process, in the order of the joins
  Budgets        \* bounds: edits of the form, windows closed, crashes

Threads  == {JoinOrder[i] : i \in 1..Len(JoinOrder)}
Settings == [port : Ports, secure : BOOLEAN, password : BOOLEAN]
Form     == [port : Ports \cup {BadPort}, secure : BOOLEAN, typed : BOOLEAN]
External == {"edit", "close", "crash"}
Defaults == [port |-> DefaultPort, secure |-> FALSE, password |-> FALSE]

ASSUME ConfigOK ==
  /\ Standard \in Files
  /\ Reads \in [Files -> Files]
  /\ DefaultPort \in Ports
  /\ BadPort \notin Ports
  /\ FilesAtFirst \subseteq [Files -> Settings \cup {NoFile}]
  /\ NoFile \notin Settings
  /\ Servers \subseteq Nat
  /\ NoChild \notin Servers
  /\ JoinOrder \in Seq(STRING)
  /\ Budgets \subseteq [External -> Nat]

VARIABLES
  window,     \* "closed", "open" or "waiting" for a process to end
  path,       \* config_path_var
  form,       \* the fields; secure is security with a key archive chosen,
              \* typed the right password in the password field
  label,      \* server_status_var: "Stopped" or "Running"
  child,      \* server_process
  mine,       \* ghost: the processes this window has started
  disk,       \* the configuration files
  stage,      \* of each process
  port,       \* of each process: --port
  reads,      \* the file it will load
  env,        \* whether LANCLIPBOARD_KEY_PASSWORD is right in its environment
  shown,      \* ghost: the form at its start
  touched,    \* ghost: the processes that may load another file than the one
              \* the window wrote at their start
  config,     \* app.state.config
  keyed,      \* private_key_pem is loaded
  threads,    \* the threads that run
  joins,      \* those that the lifespan has still to join
  responding, \* a response is being streamed
  terminated, \* terminate() was called
  budget

windowVars  == <<window, path, form, label, child, mine>>
spawnVars   == <<port, reads, env, shown>>
threadVars  == <<threads, joins>>
vars == <<windowVars, disk, stage, spawnVars, touched, config, keyed, threadVars,
          responding, terminated, budget>>

Stages == {"none", "spawned", "starting", "serving", "draining", "joining",
           "gone"}

TypeOK ==
  /\ window \in {"closed", "open", "waiting"}
  /\ path \in Files
  /\ form \in Form
  /\ label \in {"Stopped", "Running"}
  /\ child \in Servers \cup {NoChild}
  /\ mine \subseteq Servers
  /\ disk \in [Files -> Settings \cup {NoFile}]
  /\ stage \in [Servers -> Stages]
  /\ port \in [Servers -> Ports]
  /\ reads \in [Servers -> Files]
  /\ env \in [Servers -> BOOLEAN]
  /\ shown \in [Servers -> Form]
  /\ touched \subseteq Servers
  /\ config \in [Servers -> Settings]
  /\ keyed \subseteq Servers
  /\ threads \in [Servers -> SUBSET Threads]
  /\ joins \in [Servers -> Seq(Threads)]
  /\ responding \subseteq Servers
  /\ terminated \subseteq Servers
  /\ budget \in [External -> Nat]

Shows(s) == [port |-> s.port, secure |-> s.secure, typed |-> FALSE]

Init ==
  /\ window = "closed"
  /\ path = Standard
  /\ form = Shows(Defaults)
  /\ label = "Stopped"
  /\ child = NoChild
  /\ mine = {}
  /\ disk \in FilesAtFirst
  /\ stage = [i \in Servers |-> "none"]
  /\ port = [i \in Servers |-> DefaultPort]
  /\ reads = [i \in Servers |-> Standard]
  /\ env = [i \in Servers |-> FALSE]
  /\ shown = [i \in Servers |-> Shows(Defaults)]
  /\ touched = {}
  /\ config = [i \in Servers |-> Defaults]
  /\ keyed = {}
  /\ threads = [i \in Servers |-> {}]
  /\ joins = [i \in Servers |-> <<>>]
  /\ responding = {}
  /\ terminated = {}
  /\ budget \in Budgets

Spend(kind) == /\ budget[kind] > 0
               /\ budget' = [budget EXCEPT ![kind] = @ - 1]

Live(i) == stage[i] \notin {"none", "gone"}

Enters(i, s) == stage' = [stage EXCEPT ![i] = s]

-----------------------------------------------------------------------------
(* The form and the file. *)

(* load_from_path: the file, or the defaults if there is none; the password  *)
(* field is emptied.                                                         *)
FormOf(f) == IF disk[f] = NoFile THEN Shows(Defaults) ELSE Shows(disk[f])

OpenWindow ==
  /\ window = "closed"
  /\ window' = "open"
  /\ path' = Standard
  /\ form' = FormOf(Standard)
  /\ label' = "Stopped"
  /\ child' = NoChild
  /\ mine' = {}
  /\ UNCHANGED <<disk, stage, spawnVars, touched, config, keyed, threadVars, responding,
                 terminated, budget>>

(* The window is destroyed; the process goes on without it. *)
CloseWindow ==
  /\ window = "open"
  /\ Spend("close")
  /\ window' = "closed"
  /\ UNCHANGED <<path, form, label, child, mine, disk, stage, spawnVars, touched, config,
                 keyed, threadVars, responding, terminated>>

EditForm ==
  /\ window = "open"
  /\ Spend("edit")
  /\ form' \in Form
  /\ path' \in Files
  /\ UNCHANGED <<window, label, child, mine, disk, stage, spawnVars, touched, config,
                 keyed, threadVars, responding, terminated>>

LoadForm ==
  /\ window = "open"
  /\ form' = FormOf(path)
  /\ UNCHANGED <<window, path, label, child, mine, disk, stage, spawnVars, touched,
                 config, keyed, threadVars, responding, terminated, budget>>

ResetDefaults ==
  /\ window = "open"
  /\ form' = Shows(Defaults)
  /\ UNCHANGED <<window, path, label, child, mine, disk, stage, spawnVars, touched,
                 config, keyed, threadVars, responding, terminated, budget>>

AnyPort == TRUE   \* variant: the port is not converted
Valid == form.port \in Ports

(* _collect_config never writes a password. *)
Collected(f) == [port |-> f.port, secure |-> f.secure, password |-> FALSE]

WriteNothing(f) == UNCHANGED disk   \* variant: the file is not written
Write(f) == disk' = [disk EXCEPT ![path] = Collected(f)]

(* The processes that had not loaded the file when it was written. *)
Touches == touched \cup {i \in Servers : stage[i] = "spawned" /\ reads[i] = path}

SaveConfig ==
  /\ window = "open"
  /\ Valid
  /\ Write(form)
  /\ touched' = Touches
  /\ UNCHANGED <<windowVars, stage, spawnVars, config, keyed, threadVars, responding,
                 terminated, budget>>

(* The new archive is chosen, its password is not put into the field.  The   *)
(* form stays like that when it is not valid or the file cannot be written.  *)
GenerateNewKey ==
  /\ window = "open"
  /\ LET f == [form EXCEPT !.secure = TRUE, !.typed = FALSE]
     IN  /\ form' = f
         /\ \/ Valid /\ Write(f) /\ touched' = Touches
            \/ UNCHANGED <<disk, touched>>
  /\ UNCHANGED <<window, path, label, child, mine, stage, spawnVars, config, keyed,
                 threadVars, responding, terminated, budget>>

(* Importing checks the archive with the typed password, and saves.          *)
ImportKeyArchive ==
  /\ window = "open"
  /\ form.secure
  /\ form.typed
  /\ SaveConfig

-----------------------------------------------------------------------------
(* Start and Stop. *)

ChildLives == child # NoChild /\ Live(child)

AlreadyRunning ==
  /\ window = "open"
  /\ ChildLives
  /\ label' = "Running"
  /\ UNCHANGED <<window, path, form, child, mine, disk, stage, spawnVars, touched, config,
                 keyed, threadVars, responding, terminated, budget>>

(* The form is not valid, the file cannot be written or the process cannot   *)
(* be started.                                                               *)
StartRefused ==
  /\ window = "open"
  /\ ~ChildLives
  /\ label' = "Stopped"
  /\ \/ UNCHANGED <<disk, touched>>
     \/ Valid /\ Write(form) /\ touched' = Touches
  /\ UNCHANGED <<window, path, form, child, mine, stage, spawnVars, config, keyed,
                 threadVars, responding, terminated, budget>>

IsNext(i) == \A j \in Servers : stage[j] = "none" <=> j >= i

StartApplication(i) ==
  /\ window = "open"
  /\ ~ChildLives
  /\ Valid
  /\ IsNext(i)
  /\ Write(form)
  /\ touched' = Touches \cup (IF Reads[path] = path THEN {} ELSE {i})
  /\ Enters(i, "spawned")
  /\ port' = [port EXCEPT ![i] = form.port]
  /\ reads' = [reads EXCEPT ![i] = Reads[path]]
  /\ env' = [env EXCEPT ![i] = form.typed]
  /\ shown' = [shown EXCEPT ![i] = form]
  /\ child' = i
  /\ mine' = mine \cup {i}
  /\ label' = "Running"
  /\ UNCHANGED <<window, path, form, config, keyed, threadVars, responding, terminated,
                 budget>>

NothingToStop ==
  /\ window = "open"
  /\ ~ChildLives
  /\ label' = "Stopped"
  /\ UNCHANGED <<window, path, form, child, mine, disk, stage, spawnVars, touched, config,
                 keyed, threadVars, responding, terminated, budget>>

(* terminate(), then wait(timeout=5).  A signal before the server installs   *)
(* its handlers ends the process at once.                                    *)
StopApplication ==
  /\ window = "open"
  /\ ChildLives
  /\ window' = "waiting"
  /\ terminated' = terminated \cup {child}
  /\ \/ UNCHANGED stage
     \/ stage[child] = "spawned" /\ Enters(child, "gone")
  /\ UNCHANGED <<path, form, label, child, mine, disk, spawnVars, touched, config, keyed,
                 threadVars, responding, budget>>

StopDone ==
  /\ window = "waiting"
  /\ ~ChildLives
  /\ window' = "open"
  /\ label' = "Stopped"
  /\ UNCHANGED <<path, form, child, mine, disk, stage, spawnVars, touched, config, keyed,
                 threadVars, responding, terminated, budget>>

SaysStopped == "Stopped"   \* variant: the exception is taken for success
LabelAfterTimeout == label
Forgotten == NoChild       \* variant: the window lets go of the process
ChildAfterTimeout == child

StopTimesOut ==
  /\ window = "waiting"
  /\ ChildLives
  /\ window' = "open"
  /\ label' = LabelAfterTimeout
  /\ child' = ChildAfterTimeout
  /\ UNCHANGED <<path, form, mine, disk, stage, spawnVars, touched, config, keyed,
                 threadVars, responding, terminated, budget>>

-----------------------------------------------------------------------------
(* A server process. *)

(* The key is loaded if it is enabled and the password is in the file or the *)
(* environment; if not, the process goes on without.                         *)
LoadsKey(i, s) == s.secure /\ (s.password \/ env[i])

(* Without the file, load_config raises and the process ends.                *)
LoadConfig(i) ==
  /\ stage[i] = "spawned"
  /\ LET s == disk[reads[i]]
     IN  IF s = NoFile
         THEN Enters(i, "gone") /\ UNCHANGED <<config, keyed>>
         ELSE /\ Enters(i, "starting")
              /\ config' = [config EXCEPT ![i] = s]
              /\ keyed' = IF LoadsKey(i, s) THEN keyed \cup {i} ELSE keyed
  /\ UNCHANGED <<windowVars, disk, spawnVars, touched, threadVars, responding, terminated,
                 budget>>

Taken(p) == \E j \in Servers : stage[j] = "serving" /\ port[j] = p

(* After discovery and bootstrap handshakes the threads start, and then the  *)
(* server listens: if the port is taken the lifespan ends again, if it was   *)
(* terminated meanwhile the process just ends.                               *)
Listen(i) ==
  /\ stage[i] = "starting"
  /\ IF ~Taken(port[i]) /\ i \in terminated
     THEN Enters(i, "gone") /\ UNCHANGED threads
     ELSE /\ Enters(i, IF Taken(port[i]) THEN "draining" ELSE "serving")
          /\ threads' = [threads EXCEPT ![i] = Threads]
  /\ UNCHANGED <<windowVars, disk, spawnVars, touched, config, keyed, joins, responding,
                 terminated, budget>>

Respond(i) ==
  /\ stage[i] = "serving"
  /\ responding' = responding \cup {i}
  /\ UNCHANGED <<windowVars, disk, stage, spawnVars, touched, config, keyed, threadVars,
                 terminated, budget>>

ResponseEnds(i) ==
  /\ i \in responding
  /\ responding' = responding \ {i}
  /\ UNCHANGED <<windowVars, disk, stage, spawnVars, touched, config, keyed, threadVars,
                 terminated, budget>>

(* The signal is handled: no more connections, but open responses go on. *)
Drain(i) ==
  /\ stage[i] = "serving"
  /\ i \in terminated
  /\ Enters(i, "draining")
  /\ UNCHANGED <<windowVars, disk, spawnVars, touched, config, keyed, threadVars,
                 responding, terminated, budget>>

(* The lifespan's end: discovery_service.stop, stop_event.set and the joins; *)
(* if stop raises, the rest is skipped and the threads end with the process. *)
Leave(i) ==
  /\ stage[i] = "draining"
  /\ i \notin responding
  /\ \/ /\ Enters(i, "joining")
        /\ joins' = [joins EXCEPT ![i] = JoinOrder]
        /\ UNCHANGED threads
     \/ /\ Enters(i, "gone")
        /\ threads' = [threads EXCEPT ![i] = {}]
        /\ UNCHANGED joins
  /\ UNCHANGED <<windowVars, disk, spawnVars, touched, config, keyed, responding,
                 terminated, budget>>

(* A thread sees the event, unless it is busy with a download, a broadcast   *)
(* or a key press that never comes.                                          *)
ThreadEnds(i, t) ==
  /\ stage[i] = "joining"
  /\ t \in threads[i]
  /\ threads' = [threads EXCEPT ![i] = @ \ {t}]
  /\ UNCHANGED <<windowVars, disk, stage, spawnVars, touched, config, keyed, joins,
                 responding, terminated, budget>>

NotTheLast(i) == Len(joins[i]) > 1   \* variant: the last join has no timeout
JoinTimesOut(i) == TRUE

Join(i) ==
  /\ stage[i] = "joining"
  /\ joins[i] # <<>>
  /\ Head(joins[i]) \notin threads[i] \/ JoinTimesOut(i)
  /\ joins' = [joins EXCEPT ![i] = Tail(@)]
  /\ UNCHANGED <<windowVars, disk, stage, spawnVars, touched, config, keyed, threads,
                 responding, terminated, budget>>

(* The threads are daemons. *)
Exit(i) ==
  /\ stage[i] = "joining"
  /\ joins[i] = <<>>
  /\ Enters(i, "gone")
  /\ threads' = [threads EXCEPT ![i] = {}]
  /\ UNCHANGED <<windowVars, disk, spawnVars, touched, config, keyed, joins, responding,
                 terminated, budget>>

Crash(i) ==
  /\ Live(i)
  /\ Spend("crash")
  /\ Enters(i, "gone")
  /\ threads' = [threads EXCEPT ![i] = {}]
  /\ joins' = [joins EXCEPT ![i] = <<>>]
  /\ responding' = responding \ {i}
  /\ UNCHANGED <<windowVars, disk, spawnVars, touched, config, keyed, terminated>>

-----------------------------------------------------------------------------
Waiting == StopDone \/ StopTimesOut
Window == \/ OpenWindow \/ CloseWindow \/ EditForm \/ LoadForm \/ ResetDefaults
          \/ SaveConfig \/ GenerateNewKey \/ ImportKeyArchive
          \/ AlreadyRunning \/ StartRefused \/ NothingToStop \/ StopApplication
          \/ Waiting
          \/ \E i \in Servers : StartApplication(i)
Server(i) == \/ LoadConfig(i) \/ Listen(i) \/ Drain(i) \/ Leave(i)
             \/ Join(i) \/ Exit(i)

Next == \/ Window
        \/ \E i \in Servers : \/ Server(i) \/ Respond(i) \/ ResponseEnds(i) \/ Crash(i)
                              \/ \E t \in Threads : ThreadEnds(i, t)

Spec == Init /\ [][Next]_vars

(* Processes run, waits and joins time out, and responses end because the    *)
(* clients give up in the end.  Threads are not owed to end.                 *)
Fairness == /\ WF_vars(Waiting)
            /\ \A i \in Servers : WF_vars(Server(i)) /\ WF_vars(ResponseEnds(i))

FairSpec == Spec /\ Fairness

-----------------------------------------------------------------------------
(* Properties. *)

(* The window says "Stopped" only when no process that it started lives.     *)
StoppedIsTrue == label = "Stopped" /\ window # "closed" => \A i \in mine : ~Live(i)

(* Whatever is terminated, times out, crashes or is started again, a window  *)
(* never has two live servers, and never loses sight of the one it has.      *)
OneServer == \A i \in mine : Live(i) => i = child

(* A server has loaded what the window showed when it was started: the port  *)
(* it announces is the one it listens at, and its key is loaded if security  *)
(* was on and the password typed; unless the path shown was not the standard *)
(* one or the window wrote the file again before the server read it.         *)
StartsAsShown == \A i \in Servers \ touched :
  stage[i] \notin {"none", "spawned", "gone"} =>
    /\ config[i].port = port[i]
    /\ i \in keyed <=> shown[i].secure /\ shown[i].typed

(* A terminated server is gone some time, whatever its threads do, and the   *)
(* window that waits for it comes back.                                      *)
StopWorks == /\ \A i \in Servers : i \in terminated ~> stage[i] = "gone"
             /\ window = "waiting" ~> window = "open"
=============================================================================
