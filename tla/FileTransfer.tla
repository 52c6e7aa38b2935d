---------------------------- MODULE FileTransfer ----------------------------
(***************************************************************************)
(* Several files of one machine, the origin, downloaded by the paste       *)
(* workers of others: get_files asks for one path after the other, get_file*)
(* checks the request and streams the file itself or, with keys, a private *)
(* encrypted copy of it, and a background task removes the copy.  The user *)
(* edits files in place meanwhile, clients give up, the origin restarts. *)
(* A file is read in Parts chunks; one read of encrypt_file is one step.   *)
(***************************************************************************)
EXTENDS Integers, Sequences

CONSTANTS
  Clients,     \* machines that download
  Origin,      \* the machine that shares
  Paths,       \* files of the origin
  Names,       \* base names
  Base,        \* the base name of each path
  EncNames,    \* the base names that end in ".enc"
  TempName,    \* a client's name for the encrypted file it is receiving
  Lists,       \* file lists the user may copy
  KeyIds,      \* key archives
  NoKey,       \* security is off
  Temps,       \* names mkstemp may choose in the origin's temp directory
  NoTemp,
  NoCopy,
  NoStream,
  Cases        \* the key of each machine, with the bounds: downloads, and edits,
               \* deletions, lapses, revocations and restarts

Parts    == 2
Machines == Clients \cup {Origin}
Locks    == KeyIds \cup {NoKey}
Chunk    == [path : Paths, version : Nat, lock : Locks]
Copy     == Chunk
Stream   == [path : Paths, temp : Temps \cup {NoTemp}, made : Nat]
Saved    == Names \cup {TempName}
External == {"download", "trouble"}

ASSUME TransferOK ==
  /\ Origin \notin Clients
  /\ Base \in [Paths -> Names]
  /\ EncNames \subseteq Names
  /\ TempName \notin Names
  /\ Lists \subseteq Seq(Paths) \ {<<>>}
  /\ NoKey \notin KeyIds
  /\ NoTemp \notin Temps
  /\ NoCopy \notin Copy
  /\ NoStream \notin Stream
  /\ Cases \subseteq [key : [Machines -> Locks], budget : [External -> Nat]]

VARIABLES
  key,        \* the key each process has loaded, or NoKey
  exists,     \* the files that are there
  version,    \* the content of each file
  allowed,    \* SharedFileRegistry._allowed_paths, the unexpired
  known,      \* the origin's authorized peers
  published,  \* the file lists other machines may hold in their stores
  pc,         \* of each worker: "idle", "ask", "wait", "body", "paste"
  list,       \* paths
  got,        \* downloaded_paths, by name
  dir,        \* TRANSFER_TEMP_DIR of each client: the chunks in each file;
              \* <<>> is an empty file or none
  requests,   \* what the origin has received and not answered
  stream,     \* the response to each client
  copies,     \* the encrypted copies in the origin's temp directory
  dying,      \* those whose background task is due
  orphans,    \* ghost: those whose task was lost
  since,      \* ghost: the versions there were when the worker took its list
  budget

fileVars   == <<exists, version>>
originVars == <<allowed, known, published>>
clientVars == <<pc, list, got, dir>>
serverVars == <<requests, stream, copies, dying, orphans>>
vars == <<key, fileVars, originVars, clientVars, serverVars, since, budget>>

Request == [client : Clients, path : Paths, admitted : BOOLEAN, live : BOOLEAN]

TypeOK ==
  /\ key \in [Machines -> Locks]
  /\ exists \subseteq Paths
  /\ version \in [Paths -> Nat]
  /\ allowed \subseteq Paths
  /\ known \subseteq Clients
  /\ published \subseteq Lists
  /\ pc \in [Clients -> {"idle", "ask", "wait", "body", "paste"}]
  /\ list \in [Clients -> Lists \cup {<<>>}]
  /\ got \in [Clients -> Seq(Saved)]
  /\ \A c \in Clients :
       pc[c] \in {"ask", "wait", "body"} => Len(got[c]) < Len(list[c])
  /\ dir \in [Clients -> [Saved -> Seq(Chunk)]]
  /\ \A c \in Clients : \A n \in Saved : Len(dir[c][n]) <= Parts
  /\ requests \subseteq Request
  /\ stream \in [Clients -> Stream \cup {NoStream}]
  /\ copies \in [Temps -> Copy \cup {NoCopy}]
  /\ dying \subseteq Temps
  /\ orphans \subseteq Temps
  /\ since \in [Clients -> [Paths -> Nat]]
  /\ budget \in [External -> Nat]

Unedited == [p \in Paths |-> 0]

Init ==
  /\ \E case \in Cases : key = case.key /\ budget = case.budget
  /\ exists = Paths
  /\ version = Unedited
  /\ allowed = {}
  /\ known = Clients
  /\ published = {}
  /\ pc = [c \in Clients |-> "idle"]
  /\ list = [c \in Clients |-> <<>>]
  /\ got = [c \in Clients |-> <<>>]
  /\ dir = [c \in Clients |-> [n \in Saved |-> <<>>]]
  /\ requests = {}
  /\ stream = [c \in Clients |-> NoStream]
  /\ copies = [t \in Temps |-> NoCopy]
  /\ dying = {}
  /\ orphans = {}
  /\ since = [c \in Clients |-> Unedited]

Spend(kind) == /\ budget[kind] > 0
               /\ budget' = [budget EXCEPT ![kind] = @ - 1]

-----------------------------------------------------------------------------
(* The origin's monitor, its user, and time. *)

PathsOf(l) == {l[i] : i \in 1..Len(l)}

(* monitor_clipboard publishes a file list and allows its paths. *)
Share(l) ==
  /\ allowed' = allowed \cup PathsOf(l)
  /\ published' = published \cup {l}
  /\ UNCHANGED <<key, since, fileVars, known, clientVars, serverVars, budget>>

(* 300 seconds after the last registration. *)
Lapse(p) ==
  /\ p \in allowed
  /\ allowed' = allowed \ {p}
  /\ Spend("trouble")
  /\ UNCHANGED <<key, since, fileVars, known, published, clientVars, serverVars>>

Edit(p) ==
  /\ p \in exists
  /\ version' = [version EXCEPT ![p] = @ + 1]
  /\ Spend("trouble")
  /\ UNCHANGED <<key, since, exists, originVars, clientVars, serverVars>>

Delete(p) ==
  /\ p \in exists
  /\ exists' = exists \ {p}
  /\ Spend("trouble")
  /\ UNCHANGED <<key, since, version, originVars, clientVars, serverVars>>

Revoke(c) ==
  /\ c \in known
  /\ known' = known \ {c}
  /\ Spend("trouble")
  /\ UNCHANGED <<key, since, fileVars, allowed, published, clientVars, serverVars>>

(* A handshake brings a peer back, also after a restart. *)
Authorize(c) ==
  /\ c \notin known
  /\ known' = known \cup {c}
  /\ UNCHANGED <<key, since, fileVars, allowed, published, clientVars, serverVars, budget>>

-----------------------------------------------------------------------------
(* The paste worker of a client: get_files. *)

Take(c) ==
  /\ pc[c] = "idle"
  /\ Spend("download")
  /\ \E l \in published : list' = [list EXCEPT ![c] = l]
  /\ pc' = [pc EXCEPT ![c] = "ask"]
  /\ since' = [since EXCEPT ![c] = version]
  /\ UNCHANGED <<key, fileVars, originVars, got, dir, serverVars>>

Current(c) == list[c][Len(got[c]) + 1]

Ask(c) ==
  /\ pc[c] = "ask"
  /\ requests' = requests \cup
       {[client |-> c, path |-> Current(c), admitted |-> FALSE, live |-> TRUE]}
  /\ pc' = [pc EXCEPT ![c] = "wait"]
  /\ UNCHANGED <<key, since, fileVars, originVars, list, got, dir, stream, copies, dying,
                 orphans, budget>>

(* The name in Content-Disposition. *)
SavedAs(c) == IF stream[c].temp = NoTemp THEN Base[stream[c].path] ELSE TempName

KeepsContent(content) == content   \* variant: open(temp_file, "ab")
Truncated(content) == <<>>

(* open(temp_file, "wb") when the headers have come. *)
Open(c) ==
  /\ pc[c] = "wait"
  /\ stream[c] # NoStream
  /\ dir' = [dir EXCEPT ![c][SavedAs(c)] = Truncated(@)]
  /\ pc' = [pc EXCEPT ![c] = "body"]
  /\ UNCHANGED <<key, since, fileVars, originVars, list, got, serverVars, budget>>

(* iter_file reads the next chunk and the client writes it.  A file that is  *)
(* open stays readable when it is deleted.                                   *)
NextChunk(c) ==
  IF stream[c].temp = NoTemp
  THEN [path |-> stream[c].path, version |-> version[stream[c].path], lock |-> NoKey]
  ELSE copies[stream[c].temp]

Receive(c) ==
  /\ pc[c] = "body"
  /\ stream[c] # NoStream
  /\ LET had == dir[c][SavedAs(c)]
     IN  /\ Len(had) < Parts
         /\ had = <<>> /\ stream[c].temp = NoTemp => stream[c].path \in exists
         /\ NextChunk(c) # NoCopy
         /\ dir' = [dir EXCEPT ![c][SavedAs(c)] = Append(had, NextChunk(c))]
  /\ UNCHANGED <<key, since, fileVars, originVars, pc, list, got, serverVars, budget>>

NeverEncrypted(n) == FALSE   \* variant: the suffix is not looked at
IsEncrypted(n) == n \in EncNames \cup {TempName}

(* decrypt_file needs a key and a file that was encrypted for it. *)
Decrypts(c, content) ==
  key[c] # NoKey /\ \A i \in 1..Len(content) : content[i].lock = key[c]

Unlocked(content) == [i \in 1..Len(content) |-> [content[i] EXCEPT !.lock = NoKey]]

KeepsCopy(c) == {}   \* variant: the response has no background task
CopyOf(c) == {stream[c].temp} \ {NoTemp}

OneMoreFile(c) == Len(got[c]) = Len(list[c])   \* variant: off by one
LastFile(c) == Len(got[c]) + 1 = Len(list[c])

NextFile(c, name) ==
  /\ got' = [got EXCEPT ![c] = Append(@, name)]
  /\ pc' = [pc EXCEPT ![c] = IF LastFile(c) THEN "paste" ELSE "ask"]

GivesUp(c) ==
  /\ pc' = [pc EXCEPT ![c] = "paste"]
  /\ UNCHANGED got

(* The body is complete: the client unpacks it, the origin cleans up. *)
Finish(c) ==
  /\ pc[c] = "body"
  /\ stream[c] # NoStream
  /\ LET saved == SavedAs(c)
         content == dir[c][saved]
         name == Base[stream[c].path]
     IN  /\ Len(content) = Parts
         /\ IF ~IsEncrypted(saved)
            THEN /\ NextFile(c, saved)
                 /\ UNCHANGED dir
            ELSE IF Decrypts(c, content)
            THEN /\ NextFile(c, name)
                 /\ dir' = [dir EXCEPT ![c] = [@ EXCEPT ![saved] = <<>>,
                                                        ![name] = Unlocked(content)]]
            ELSE /\ GivesUp(c)
                 /\ UNCHANGED dir
  /\ stream' = [stream EXCEPT ![c] = NoStream]
  /\ dying' = dying \cup CopyOf(c)
  /\ UNCHANGED <<key, since, fileVars, originVars, list, requests, copies, orphans, budget>>

(* A connection that fails or is silent for too long ends the loop.  The     *)
(* origin may work on the request all the same; a cut response may run its   *)
(* background task or lose it, as the server library does.                   *)
Abandoned(c) == {r \in requests : r.client = c /\ r.live}
BodyOnly(c) == pc[c] = "body"   \* variant: no timeout before the headers
Waits(c) == pc[c] \in {"wait", "body"}

Break(c) ==
  /\ Waits(c)
  /\ GivesUp(c)
  /\ requests' = (requests \ Abandoned(c)) \cup {[r EXCEPT !.live = FALSE] : r \in Abandoned(c)}
  /\ stream' = [stream EXCEPT ![c] = NoStream]
  /\ IF stream[c] = NoStream
     THEN UNCHANGED <<dying, orphans>>
     ELSE \/ dying' = dying \cup CopyOf(c) /\ UNCHANGED orphans
          \/ orphans' = orphans \cup CopyOf(c) /\ UNCHANGED dying
  /\ UNCHANGED <<key, since, fileVars, originVars, list, dir, copies, budget>>

(* What was retrieved is pasted, if anything was. *)
Paste(c) ==
  /\ pc[c] = "paste"
  /\ pc' = [pc EXCEPT ![c] = "idle"]
  /\ list' = [list EXCEPT ![c] = <<>>]
  /\ got' = [got EXCEPT ![c] = <<>>]
  /\ since' = [since EXCEPT ![c] = Unedited]
  /\ UNCHANGED <<key, fileVars, originVars, dir, serverVars, budget>>

-----------------------------------------------------------------------------
(* The origin's event loop: get_file. *)

Drop(r) == requests' = requests \ {r}

Refused(r) ==
  /\ Drop(r)
  /\ pc' = IF r.live THEN [pc EXCEPT ![r.client] = "paste"] ELSE pc
  /\ UNCHANGED <<key, since, fileVars, originVars, list, got, dir, stream, copies, dying,
                 orphans, budget>>

(* The peer is checked before the body is awaited. *)
Admit(r) ==
  /\ ~r.admitted
  /\ r.client \in known
  /\ requests' = (requests \ {r}) \cup {[r EXCEPT !.admitted = TRUE]}
  /\ UNCHANGED <<key, since, fileVars, originVars, clientVars, stream, copies, dying, orphans,
                 budget>>

RefusePeer(r) ==
  /\ ~r.admitted
  /\ r.client \notin known
  /\ Refused(r)

(* A body is understood if both sides have the same key, or none. *)
Servable(r) ==
  /\ key[r.client] = key[Origin]
  /\ r.path \in exists
  /\ r.path \in allowed

RefuseFile(r) ==
  /\ r.admitted
  /\ ~Servable(r)
  /\ Refused(r)

Respond(r, temp) ==
  stream' = IF r.live
            THEN [stream EXCEPT ![r.client] =
                    [path |-> r.path, temp |-> temp, made |-> version[r.path]]]
            ELSE stream

ServePlain(r) ==
  /\ r.admitted
  /\ Servable(r)
  /\ key[Origin] = NoKey
  /\ Drop(r)
  /\ Respond(r, NoTemp)
  /\ UNCHANGED <<key, since, fileVars, originVars, clientVars, copies, dying, orphans, budget>>

AnyName == Temps   \* variant: a name that may be in use
FreshName == {t \in Temps : copies[t] = NoCopy}

(* encrypt_file writes the copy to a new name. *)
ServeEncrypted(r) ==
  /\ r.admitted
  /\ Servable(r)
  /\ key[Origin] # NoKey
  /\ Drop(r)
  /\ \E t \in FreshName :
       /\ copies' = [copies EXCEPT ![t] = [path    |-> r.path,
                                           version |-> version[r.path],
                                           lock    |-> key[Origin]]]
       /\ Respond(r, t)
       /\ IF r.live
          THEN UNCHANGED <<dying, orphans>>
          ELSE \/ dying' = dying \cup {t} /\ UNCHANGED orphans
               \/ orphans' = orphans \cup {t} /\ UNCHANGED dying
  /\ UNCHANGED <<key, since, fileVars, originVars, clientVars, budget>>

(* The BackgroundTask. *)
Cleanup(t) ==
  /\ t \in dying
  /\ copies' = [copies EXCEPT ![t] = NoCopy]
  /\ dying' = dying \ {t}
  /\ UNCHANGED <<key, since, fileVars, originVars, clientVars, requests, stream, orphans,
                 budget>>

(* The origin's process ends and another starts; the clients notice by Break.*)
Restart ==
  /\ Spend("trouble")
  /\ allowed' = {}
  /\ known' = {}
  /\ requests' = {}
  /\ stream' = [c \in Clients |-> NoStream]
  /\ dying' = {}
  /\ orphans' = {t \in Temps : copies[t] # NoCopy}
  /\ UNCHANGED <<key, since, fileVars, published, clientVars, copies>>

-----------------------------------------------------------------------------
Worker(c) == Ask(c) \/ Open(c) \/ Receive(c) \/ Finish(c) \/ Break(c) \/ Paste(c)
Serve(r)  == Admit(r) \/ RefusePeer(r) \/ RefuseFile(r) \/ ServePlain(r) \/ ServeEncrypted(r)
User      == (\E l \in Lists : Share(l)) \/ (\E p \in Paths : Lapse(p) \/ Edit(p) \/ Delete(p))

Next == \/ User
        \/ \E c \in Clients : Revoke(c) \/ Authorize(c) \/ Take(c) \/ Worker(c)
        \/ \E r \in requests : Serve(r)
        \/ \E t \in Temps : Cleanup(t)
        \/ Restart

Spec == Init /\ [][Next]_vars

(* The worker's thread runs, and so do its timeouts; nothing is owed by the  *)
(* origin or the network.                                                    *)
Fairness == \A c \in Clients : WF_vars(Worker(c))

FairSpec == Spec /\ Fairness

-----------------------------------------------------------------------------
(* Properties. *)

(* A complete, readable content of one file. *)
Whole(content) ==
  /\ Len(content) = Parts
  /\ \A i \in 1..Parts : content[i].lock = NoKey /\ content[i].path = content[1].path

OneVersion(content) == \A i \in 1..Len(content) : content[i].version = content[1].version

(* Later files of a worker's list that have the base name of the i-th.  They *)
(* are written over it: all that were retrieved, and, without keys, the next *)
(* one as soon as it begins to arrive.                                       *)
Namesakes(c, i) == {j \in (i + 1)..Len(list[c]) : Base[list[c][j]] = Base[list[c][i]]}
Upcoming(c)  == Len(got[c]) + 1
Opened(c) == IF key[c] = NoKey THEN Upcoming(c) ELSE Len(got[c])

(* What a worker is about to paste are the first names of its list, in order *)
(* ("a list of local paths successfully retrieved"); each file is complete   *)
(* and decrypted, whatever broke off, and with keys it is one version,       *)
(* whatever was edited meanwhile.  The code keeps this but for two things:   *)
(* a later file of the same base name takes the place of an earlier one, and *)
(* without keys a file that broke off has left a torn one in the place of a  *)
(* namesake retrieved before it, which is pasted.                            *)
PastedAsListed == \A c \in Clients : pc[c] = "paste" =>
  \A i \in 1..Len(got[c]) :
    LET content == dir[c][got[c][i]]
    IN  /\ got[c][i] = Base[list[c][i]]
        /\ key[c] # NoKey \/ Upcoming(c) \notin Namesakes(c, i) => Whole(content)
        /\ key[c] # NoKey => OneVersion(content)
        /\ (\A j \in Namesakes(c, i) : j > Opened(c)) => content[1].path = list[c][i]

(* What a worker is about to paste was read from the origin after the worker *)
(* took its list: nothing is left of an earlier download under the same name,*)
(* or of an earlier copy under the same temporary name.                      *)
PastedFresh == \A c \in Clients : pc[c] = "paste" =>
  \A i \in 1..Len(got[c]) :
    LET content == dir[c][got[c][i]]
    IN  \A j \in 1..Len(content) :
          content[j].version \in since[c][content[j].path]..version[content[j].path]

(* An encrypted copy is streamed to one client and stays as it was made      *)
(* until that response is over, although names are used again.               *)
PrivateCopy == \A c \in Clients : stream[c] # NoStream /\ stream[c].temp # NoTemp =>
  /\ copies[stream[c].temp] = [path    |-> stream[c].path,
                               version |-> stream[c].made,
                               lock    |-> key[Origin]]
  /\ stream[c].temp \notin dying
  /\ \A d \in Clients \ {c} : stream[d] # NoStream => stream[d].temp # stream[c].temp

(* Every encrypted copy on the disk is being streamed or about to be         *)
(* removed, unless a restart or a cut connection lost its task.              *)
CopiesOwned == \A t \in Temps : copies[t] # NoCopy =>
  \/ t \in dying \cup orphans
  \/ \E c \in Clients : stream[c] # NoStream /\ stream[c].temp = t

(* A worker that downloads is free again some time, whatever the origin does.*)
TransferEnds == \A c \in Clients : pc[c] # "idle" ~> pc[c] = "idle"
=============================================================================
