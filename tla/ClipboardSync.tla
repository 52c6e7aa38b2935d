--------------------------- MODULE ClipboardSync ---------------------------
(***************************************************************************)
(* LAN clipboard synchronisation between desktops.  Each node runs         *)
(*   - the monitor thread, which polls the desktop clipboard, dedupes,     *)
(*     stores and broadcasts (clipboard_listener.py, broadcast_to_peers),  *)
(*   - the HTTP handlers that admit and store what peers post              *)
(*     (post_clipboard_entry, ClipboardStorage),                           *)
(*   - the worker thread, which drains the paste queue, downloads files    *)
(*     and writes the desktop clipboard (paste_queue_handler.py),          *)
(*   - the keyboard thread, of which only the queueing of the newest entry *)
(*     is modelled here.                                                   *)
(* A step is what one thread does between two points where another thread  *)
(* or machine can observe it.  Time is abstract: the suppression window    *)
(* and the file allowlist may expire at any moment.                        *)
(***************************************************************************)
EXTENDS Integers, Sequences, FiniteSets

CONSTANTS
  Nodes,      \* the machines
  Wayland,    \* those under Wayland: no hotkey, remote entries paste themselves
  Texts,      \* payloads of type "text"
  Paths,      \* file lists: the payloads of type "files"
  ReadAs,     \* per node, what its get_clipboard_entry makes of a content
  TempCopy,   \* the path a downloaded file gets in the local transfer directory
  Bootstrapped, \* per node, the peers its configuration names (bootstrap_peers)
  Oversized,  \* per node, the clips longer than its configured limits
  MaxStamp,   \* bound: wall clocks read 1..MaxStamp
  MaxQueue,   \* bound: length of a paste queue
  Budgets,    \* bounds: how often each thing outside the program happens
  Empty,      \* an empty desktop clipboard, and "no fingerprint yet"
  NoEntry     \* Python's None where an entry is expected

Clips    == [type : {"text"}, value : Texts] \cup [type : {"files"}, value : Paths]
Stamps   == 1..MaxStamp
LocalId(n) == <<"id", n>>      \* the device id a node writes as origin
Ip(n)      == <<"ip", n>>      \* client.host, what a receiver writes as origin
Addrs    == {"id", "ip"} \X Nodes
Entries  == [origin : Addrs, clip : Clips, timestamp : Stamps]
Requests == [from : Nodes, to : Nodes, entry : Entries, admitted : BOOLEAN]
External == {"copy", "hotkey", "churn", "restart", "fault"}

ASSUME ConstantsOK ==
  /\ Wayland \subseteq Nodes
  /\ ReadAs \in [Nodes -> [Clips -> Clips \cup {Empty}]]
  /\ TempCopy \in [Paths -> Paths]
  /\ Bootstrapped \in [Nodes -> SUBSET Nodes]
  /\ \A n \in Nodes : n \notin Bootstrapped[n]
  /\ Oversized \in [Nodes -> SUBSET Clips]
  /\ MaxStamp \in Nat \ {0}
  /\ MaxQueue \in Nat \ {0}
  /\ Budgets \subseteq [External -> Nat]
  /\ Empty \notin Clips
  /\ NoEntry \notin Entries

VARIABLES
  clipboard,        \* the desktop clipboard of each machine
  monPc,            \* where the monitor thread is
  lastFingerprint,  \* the monitor's last_fingerprint
  polled,           \* what the monitor read in this round
  outgoing,         \* the entry the monitor built
  targets,          \* the peers the broadcast still has to post to
  storage,          \* storage_dict: address -> latest entry
  suppress,         \* monotonic() <= _suppress_next_local_change_until
  pasteQueue,       \* app.state.paste_queue
  workerPc,         \* where the paste worker is
  pasting,          \* the entry the worker took
  peers,            \* PeerRegistry, by ip; "revoked" is "unknown" with a past
  allowlist,        \* SharedFileRegistry; "lapsed" is "never" with a past
  net,              \* POST /api/clipboard_entry requests sent and not answered
  published,        \* ghost: every entry a monitor ever built
  budget            \* what is left of the chosen member of Budgets

monVars  == <<monPc, lastFingerprint, polled, outgoing, targets>>
workVars == <<workerPc, pasting>>
vars == <<clipboard, monVars, storage, suppress, pasteQueue, workVars,
          peers, allowlist, net, published, budget>>

TypeOK ==
  /\ clipboard \in [Nodes -> Clips \cup {Empty}]
  /\ monPc \in [Nodes -> {"poll", "check", "store", "broadcast", "post"}]
  /\ lastFingerprint \in [Nodes -> Clips \cup {Empty}]
  /\ polled \in [Nodes -> Clips \cup {Empty}]
  /\ outgoing \in [Nodes -> Entries \cup {NoEntry}]
  /\ targets \in [Nodes -> SUBSET Nodes]
  /\ storage \in [Nodes -> [Addrs -> Entries \cup {NoEntry}]]
  /\ suppress \in [Nodes -> BOOLEAN]
  /\ pasteQueue \in [Nodes -> Seq(Entries \cup {NoEntry})]
  /\ workerPc \in [Nodes -> {"idle", "fetch", "paste", "mark"}]
  /\ pasting \in [Nodes -> Entries \cup {NoEntry}]
  /\ peers \in [Nodes -> [Nodes -> {"unknown", "authorized", "revoked"}]]
  /\ allowlist \in [Nodes -> [Paths -> {"never", "allowed", "lapsed"}]]
  /\ net \subseteq Requests
  /\ published \subseteq Entries
  /\ budget \in [External -> Nat]

(* The bootstrap handshakes end before the threads start. *)
PeersAtStart(reached) == [m \in Nodes |-> IF m \in reached THEN "authorized" ELSE "unknown"]

Init ==
  /\ clipboard = [n \in Nodes |-> Empty]
  /\ monPc = [n \in Nodes |-> "poll"]
  /\ lastFingerprint = [n \in Nodes |-> Empty]
  /\ polled = [n \in Nodes |-> Empty]
  /\ outgoing = [n \in Nodes |-> NoEntry]
  /\ targets = [n \in Nodes |-> {}]
  /\ storage = [n \in Nodes |-> [a \in Addrs |-> NoEntry]]
  /\ suppress = [n \in Nodes |-> FALSE]
  /\ pasteQueue = [n \in Nodes |-> <<>>]
  /\ workerPc = [n \in Nodes |-> "idle"]
  /\ pasting = [n \in Nodes |-> NoEntry]
  /\ peers = [n \in Nodes |-> PeersAtStart(Bootstrapped[n])]
  /\ allowlist = [n \in Nodes |-> [p \in Paths |-> "never"]]
  /\ net = {}
  /\ published = {}
  /\ budget \in Budgets

Spend(kind) == /\ budget[kind] > 0
               /\ budget' = [budget EXCEPT ![kind] = @ - 1]

-----------------------------------------------------------------------------
(* The user, at the keyboard of node n. *)

UserCopy(n, c) ==
  /\ clipboard[n] # c
  /\ Spend("copy")
  /\ clipboard' = [clipboard EXCEPT ![n] = c]
  /\ UNCHANGED <<monVars, storage, suppress, pasteQueue, workVars, peers,
                 allowlist, net, published>>

(* get_latest_clipboard_entry: max() keeps one of the newest, or None. *)
Stored(n) == {storage[n][a] : a \in Addrs} \ {NoEntry}
Newest(n) == IF Stored(n) = {} THEN {NoEntry}
             ELSE {e \in Stored(n) : \A o \in Stored(n) : o.timestamp <= e.timestamp}

Hotkey(n, e) ==
  /\ n \notin Wayland
  /\ e \in Newest(n)
  /\ Len(pasteQueue[n]) < MaxQueue
  /\ Spend("hotkey")
  /\ pasteQueue' = [pasteQueue EXCEPT ![n] = Append(@, e)]
  /\ UNCHANGED <<clipboard, monVars, storage, suppress, workVars, peers,
                 allowlist, net, published>>

-----------------------------------------------------------------------------
(* The monitor thread of node n, from one poll to the next. *)

(* get_clipboard_entry: X11 and Wayland strip a text, Windows rewrites paths. *)
Look(n) == IF clipboard[n] = Empty THEN Empty ELSE ReadAs[n][clipboard[n]]

(* Nothing new on the clipboard: the thread sleeps and polls again. *)
PollUnchanged(n) ==
  /\ monPc[n] = "poll"
  /\ Look(n) \in {Empty, lastFingerprint[n]}
  /\ UNCHANGED vars

ReadClipboard(n) ==
  /\ monPc[n] = "poll"
  /\ Look(n) \notin {Empty, lastFingerprint[n]}
  /\ polled' = [polled EXCEPT ![n] = Look(n)]
  /\ monPc' = [monPc EXCEPT ![n] = "check"]
  /\ UNCHANGED <<clipboard, lastFingerprint, outgoing, targets, storage, suppress,
                 pasteQueue, workVars, peers, allowlist, net, published, budget>>

(* The end of a round; what the thread no longer reads is cleared. *)
RoundOver(n) ==
  /\ monPc' = [monPc EXCEPT ![n] = "poll"]
  /\ polled' = [polled EXCEPT ![n] = Empty]
  /\ outgoing' = [outgoing EXCEPT ![n] = NoEntry]

NotedLate(n) == lastFingerprint   \* variant: the fingerprint is not kept

(* The fingerprint is noted before anything is sent. *)
Noted(n) == [lastFingerprint EXCEPT ![n] = polled[n]]

(* has_entry() is True: the change is taken for the worker's own write. *)
Swallow(n) ==
  /\ monPc[n] = "check"
  /\ suppress[n]
  /\ suppress' = [suppress EXCEPT ![n] = FALSE]
  /\ lastFingerprint' = Noted(n)
  /\ RoundOver(n)
  /\ UNCHANGED <<clipboard, targets, storage, pasteQueue, workVars,
                 peers, allowlist, net, published, budget>>

RegisteredNot(n, c) == allowlist   \* variant: the copied paths are not registered

(* register_paths for a copied file list *)
Registered(n, c) ==
  IF c.type = "files" THEN [allowlist EXCEPT ![n][c.value] = "allowed"] ELSE allowlist

(* has_entry() is False: stamp an entry.  Wall clocks are skewed between the *)
(* machines and may step back, so any reading t is possible.                 *)
Publish(n, t) ==
  /\ monPc[n] = "check"
  /\ ~suppress[n]
  /\ LET e == [origin |-> LocalId(n), clip |-> polled[n], timestamp |-> t]
     IN  /\ outgoing' = [outgoing EXCEPT ![n] = e]
         /\ published' = published \cup {e}
  /\ lastFingerprint' = Noted(n)
  /\ allowlist' = Registered(n, polled[n])
  /\ monPc' = [monPc EXCEPT ![n] = "store"]
  /\ UNCHANGED <<clipboard, polled, targets, storage, suppress, pasteQueue,
                 workVars, peers, net, budget>>

(* store_clipboard_entry: an entry over the limits is refused; an older one  *)
(* does not replace a newer one; under Wayland a foreign entry is queued for *)
(* pasting, also when it was too old to be stored.                           *)
Accepts(n, e) == e.clip \notin Oversized[n]
ReplacesAlways(n, addr, e) == TRUE   \* variant: the last to arrive wins
Replaces(n, addr, e) ==
  storage[n][addr] = NoEntry \/ e.timestamp >= storage[n][addr].timestamp
AutoPastes(n, e) == n \in Wayland /\ e.origin # LocalId(n)

StoreClipboardEntry(n, addr, e) ==
  /\ storage' = IF Accepts(n, e) /\ Replaces(n, addr, e)
                THEN [storage EXCEPT ![n][addr] = e] ELSE storage
  /\ pasteQueue' = IF Accepts(n, e) /\ AutoPastes(n, e)
                   THEN [pasteQueue EXCEPT ![n] = Append(@, e)] ELSE pasteQueue

(* The result is ignored: an oversized entry is broadcast all the same. *)
StoreLocal(n) ==
  /\ monPc[n] = "store"
  /\ StoreClipboardEntry(n, LocalId(n), outgoing[n])
  /\ monPc' = [monPc EXCEPT ![n] = "broadcast"]
  /\ UNCHANGED <<clipboard, lastFingerprint, polled, outgoing, targets, suppress,
                 workVars, peers, allowlist, net, published, budget>>

(* broadcast_to_peers takes its snapshot of the authorized peers once. *)
AuthorizedPeers(n) == {m \in Nodes : peers[n][m] = "authorized"}

StartBroadcast(n) ==
  /\ monPc[n] = "broadcast"
  /\ targets' = [targets EXCEPT ![n] = AuthorizedPeers(n)]
  /\ monPc' = [monPc EXCEPT ![n] = "post"]
  /\ UNCHANGED <<clipboard, lastFingerprint, polled, outgoing, storage, suppress,
                 pasteQueue, workVars, peers, allowlist, net, published, budget>>

(* One client.post.  The monitor goes on when the answer comes or after two  *)
(* seconds, whether or not the request has been, or ever is, served.         *)
Post(n, m) ==
  /\ monPc[n] = "post"
  /\ m \in targets[n]
  /\ targets' = [targets EXCEPT ![n] = @ \ {m}]
  /\ net' = net \cup {[from |-> n, to |-> m, entry |-> outgoing[n], admitted |-> FALSE]}
  /\ UNCHANGED <<clipboard, monPc, lastFingerprint, polled, outgoing, storage,
                 suppress, pasteQueue, workVars, peers, allowlist, published, budget>>

AllPostedOrFailed(n) == TRUE   \* variant: the first failure ends the loop
AllPosted(n) == targets[n] = {}

EndBroadcast(n) ==
  /\ monPc[n] = "post"
  /\ AllPosted(n)
  /\ RoundOver(n)
  /\ UNCHANGED <<clipboard, lastFingerprint, targets, storage, suppress,
                 pasteQueue, workVars, peers, allowlist, net, published, budget>>

(* An exception after the fingerprint was noted (encrypting the body, say)   *)
(* ends the round; the change is never broadcast again.                      *)
PublishFails(n) ==
  /\ monPc[n] \in {"store", "broadcast"}
  /\ Spend("fault")
  /\ RoundOver(n)
  /\ UNCHANGED <<clipboard, lastFingerprint, targets, storage, suppress,
                 pasteQueue, workVars, peers, allowlist, net, published>>

-----------------------------------------------------------------------------
(* POST /api/clipboard_entry at the receiver. *)

AnyPeer(r) == TRUE   \* variant: no peer check
KnownPeer(r) == peers[r.to][r.from] = "authorized"

(* The peer check, made before the body is awaited. *)
Admit(r) ==
  /\ r \in net
  /\ ~r.admitted
  /\ KnownPeer(r)
  /\ net' = (net \ {r}) \cup {[r EXCEPT !.admitted = TRUE]}
  /\ UNCHANGED <<clipboard, monVars, storage, suppress, pasteQueue, workVars,
                 peers, allowlist, published, budget>>

Refuse(r) ==
  /\ r \in net
  /\ ~r.admitted
  /\ ~KnownPeer(r)
  /\ net' = net \ {r}
  /\ UNCHANGED <<clipboard, monVars, storage, suppress, pasteQueue, workVars,
                 peers, allowlist, published, budget>>

ReceivedAsClaimed(r) == r.entry   \* variant: the sender's origin is kept

(* entry.origin becomes the address the request came from. *)
Received(r) == [r.entry EXCEPT !.origin = Ip(r.from)]

KeyOfReceiver(r) == LocalId(r.to)   \* variant: stored under the own address
Key(r) == Ip(r.from)

Handle(r) ==
  /\ r \in net
  /\ r.admitted
  /\ Len(pasteQueue[r.to]) < MaxQueue
  /\ StoreClipboardEntry(r.to, Key(r), Received(r))
  /\ net' = net \ {r}
  /\ UNCHANGED <<clipboard, monVars, suppress, workVars, peers, allowlist,
                 published, budget>>

(* No answer within two seconds, a dead host, a body that does not decrypt. *)
Lose(r) ==
  /\ r \in net
  /\ Spend("fault")
  /\ net' = net \ {r}
  /\ UNCHANGED <<clipboard, monVars, storage, suppress, pasteQueue, workVars,
                 peers, allowlist, published>>

-----------------------------------------------------------------------------
(* The paste worker of node n. *)

FetchesOwn(n, e) ==   \* variant: the test of the origin is inverted
  e.clip.type = "files" /\ e.origin = LocalId(n)
NeedsDownload(n, e) == e.clip.type = "files" /\ e.origin # LocalId(n)

TakeNone(n) ==
  /\ workerPc[n] = "idle"
  /\ pasteQueue[n] # <<>>
  /\ Head(pasteQueue[n]) = NoEntry
  /\ pasteQueue' = [pasteQueue EXCEPT ![n] = Tail(@)]
  /\ UNCHANGED <<clipboard, monVars, storage, suppress, workVars, peers,
                 allowlist, net, published, budget>>

Take(n) ==
  /\ workerPc[n] = "idle"
  /\ pasteQueue[n] # <<>>
  /\ Head(pasteQueue[n]) # NoEntry
  /\ pasting' = [pasting EXCEPT ![n] = Head(pasteQueue[n])]
  /\ pasteQueue' = [pasteQueue EXCEPT ![n] = Tail(@)]
  /\ workerPc' = [workerPc EXCEPT ![n] =
                    IF NeedsDownload(n, Head(pasteQueue[n])) THEN "fetch" ELSE "paste"]
  /\ UNCHANGED <<clipboard, monVars, storage, suppress, peers, allowlist, net,
                 published, budget>>

(* task_done: the worker is ready for the next entry. *)
TaskDone(n) ==
  /\ workerPc' = [workerPc EXCEPT ![n] = "idle"]
  /\ pasting' = [pasting EXCEPT ![n] = NoEntry]

(* POST /api/file at the origin: the caller must be one of its peers and the *)
(* path on its allowlist.                                                    *)
Serves(m, n, p) == peers[m][n] = "authorized" /\ allowlist[m][p] = "allowed"
Owner(e) == e.origin[2]

DownloadedPath(e) == TempCopy[e.clip.value]   \* variant: the bare path
Downloaded(e) == [e EXCEPT !.clip.value = TempCopy[@]]

Download(n) ==
  /\ workerPc[n] = "fetch"
  /\ Serves(Owner(pasting[n]), n, pasting[n].clip.value)
  /\ pasting' = [pasting EXCEPT ![n] = Downloaded(@)]
  /\ workerPc' = [workerPc EXCEPT ![n] = "paste"]
  /\ UNCHANGED <<clipboard, monVars, storage, suppress, pasteQueue, peers,
                 allowlist, net, published, budget>>

(* get_files logs the error and returns no path: nothing is pasted. *)
DownloadRefused(n) ==
  /\ workerPc[n] = "fetch"
  /\ ~Serves(Owner(pasting[n]), n, pasting[n].clip.value)
  /\ TaskDone(n)
  /\ UNCHANGED <<clipboard, monVars, storage, suppress, pasteQueue, peers, allowlist,
                 net, published, budget>>

DownloadFails(n) ==
  /\ workerPc[n] = "fetch"
  /\ Spend("fault")
  /\ TaskDone(n)
  /\ UNCHANGED <<clipboard, monVars, storage, suppress, pasteQueue, peers, allowlist,
                 net, published>>

(* The clipboard is written first, the suppression window opened second. *)
Paste(n) ==
  /\ workerPc[n] = "paste"
  /\ clipboard' = [clipboard EXCEPT ![n] = pasting[n].clip]
  /\ workerPc' = [workerPc EXCEPT ![n] = "mark"]
  /\ UNCHANGED <<monVars, storage, suppress, pasteQueue, pasting, peers, allowlist,
                 net, published, budget>>

(* A platform writer that fails leaves the old content or an emptied         *)
(* clipboard, and returns as if it had succeeded ...                         *)
PasteFails(n, left) ==
  /\ workerPc[n] = "paste"
  /\ left \in {clipboard[n], Empty}
  /\ Spend("fault")
  /\ clipboard' = [clipboard EXCEPT ![n] = left]
  /\ workerPc' = [workerPc EXCEPT ![n] = "mark"]
  /\ UNCHANGED <<monVars, storage, suppress, pasteQueue, pasting, peers, allowlist,
                 net, published>>

(* ... or raises, before the write or after it: no window is opened. *)
PasteRaises(n, left) ==
  /\ workerPc[n] = "paste"
  /\ left \in {clipboard[n], Empty, pasting[n].clip}
  /\ Spend("fault")
  /\ clipboard' = [clipboard EXCEPT ![n] = left]
  /\ TaskDone(n)
  /\ UNCHANGED <<monVars, storage, suppress, pasteQueue, peers, allowlist, net,
                 published>>

Mark(n) ==
  /\ workerPc[n] = "mark"
  /\ suppress' = [suppress EXCEPT ![n] = TRUE]
  /\ TaskDone(n)
  /\ UNCHANGED <<clipboard, monVars, storage, pasteQueue, peers, allowlist, net,
                 published, budget>>

-----------------------------------------------------------------------------
(* Time, discovery and restarts. *)

SuppressExpires(n) ==
  /\ suppress[n]
  /\ suppress' = [suppress EXCEPT ![n] = FALSE]
  /\ UNCHANGED <<clipboard, monVars, storage, pasteQueue, workVars, peers,
                 allowlist, net, published, budget>>

ShareLapses(n, p) ==
  /\ allowlist[n][p] = "allowed"
  /\ allowlist' = [allowlist EXCEPT ![n][p] = "lapsed"]
  /\ UNCHANGED <<clipboard, monVars, storage, suppress, pasteQueue, workVars,
                 peers, net, published, budget>>

(* A handshake, in either direction; a node never authorizes itself. *)
Authorize(n, m) ==
  /\ n # m
  /\ peers[n][m] # "authorized"
  /\ Spend("churn")
  /\ peers' = [peers EXCEPT ![n][m] = "authorized"]
  /\ UNCHANGED <<clipboard, monVars, storage, suppress, pasteQueue, workVars,
                 allowlist, net, published>>

(* mDNS reports the peer's service gone. *)
Revoke(n, m) ==
  /\ peers[n][m] = "authorized"
  /\ Spend("churn")
  /\ peers' = [peers EXCEPT ![n][m] = "revoked"]
  /\ UNCHANGED <<clipboard, monVars, storage, suppress, pasteQueue, workVars,
                 allowlist, net, published>>

(* Everything but the desktop clipboard lives in the process.  The bootstrap *)
(* handshakes of the new one succeed with some of the configured peers.  The *)
(* handlers that had admitted a request die with the old process; a request  *)
(* still on its way finds the new one, or no one.                            *)
Restart(n, reached) ==
  /\ reached \subseteq Bootstrapped[n]
  /\ Spend("restart")
  /\ monPc' = [monPc EXCEPT ![n] = "poll"]
  /\ lastFingerprint' = [lastFingerprint EXCEPT ![n] = Empty]
  /\ polled' = [polled EXCEPT ![n] = Empty]
  /\ outgoing' = [outgoing EXCEPT ![n] = NoEntry]
  /\ targets' = [targets EXCEPT ![n] = {}]
  /\ storage' = [storage EXCEPT ![n] = [a \in Addrs |-> NoEntry]]
  /\ suppress' = [suppress EXCEPT ![n] = FALSE]
  /\ pasteQueue' = [pasteQueue EXCEPT ![n] = <<>>]
  /\ workerPc' = [workerPc EXCEPT ![n] = "idle"]
  /\ pasting' = [pasting EXCEPT ![n] = NoEntry]
  /\ peers' = [peers EXCEPT ![n] = PeersAtStart(reached)]
  /\ allowlist' = [allowlist EXCEPT ![n] =
                     [p \in Paths |-> IF @[p] = "allowed" THEN "lapsed" ELSE @[p]]]
  /\ \E found \in SUBSET {r \in net : r.to = n /\ ~r.admitted} :
       net' = {r \in net : r.to # n} \cup found
  /\ UNCHANGED <<clipboard, published>>

-----------------------------------------------------------------------------
User(n) == \/ \E c \in Clips : UserCopy(n, c)
           \/ \E e \in Newest(n) : Hotkey(n, e)

Monitor(n) == \/ PollUnchanged(n)
              \/ ReadClipboard(n)
              \/ Swallow(n)
              \/ \E t \in Stamps : Publish(n, t)
              \/ StoreLocal(n)
              \/ StartBroadcast(n)
              \/ \E m \in Nodes : Post(n, m)
              \/ EndBroadcast(n)

Worker(n) == \/ TakeNone(n)
             \/ Take(n)
             \/ Download(n)
             \/ DownloadRefused(n)
             \/ Paste(n)
             \/ Mark(n)

Serve(n, m) == \E r \in net : /\ r.from = n
                              /\ r.to = m
                              /\ Admit(r) \/ Refuse(r) \/ Handle(r)

Faults(n) == \/ PublishFails(n)
             \/ DownloadFails(n)
             \/ \E left \in {clipboard[n], Empty} : PasteFails(n, left)
             \/ \E left \in Clips \cup {Empty} : PasteRaises(n, left)
             \/ \E r \in net : r.to = n /\ Lose(r)
             \/ \E reached \in SUBSET Bootstrapped[n] : Restart(n, reached)

Environment(n) == \/ SuppressExpires(n)
                  \/ \E p \in Paths : ShareLapses(n, p)
                  \/ \E m \in Nodes : Authorize(n, m) \/ Revoke(n, m)

Next == \E n \in Nodes : \/ User(n)
                         \/ Monitor(n)
                         \/ Worker(n)
                         \/ Faults(n)
                         \/ Environment(n)
                         \/ \E m \in Nodes : Serve(n, m)

Spec == Init /\ [][Next]_vars

(* The three threads and the event loop of every node keep running; users,   *)
(* faults, discovery and the two expiries are never owed.                    *)
Fairness == \A n \in Nodes : /\ WF_vars(Monitor(n))
                             /\ WF_vars(Worker(n))
                             /\ \A m \in Nodes : WF_vars(Serve(n, m))

FairSpec == Spec /\ Fairness

-----------------------------------------------------------------------------
(* Properties. *)

(* The published original of an entry that arrived from m. *)
Original(e, m) == [e EXCEPT !.origin = LocalId(m)]

(* An entry held at n: n's own publication, or one that its origin published. *)
AuthenticIn(pub, n, e) ==
  \/ e.origin = LocalId(n) /\ e \in pub
  \/ \E m \in Nodes \ {n} : e.origin = Ip(m) /\ Original(e, m) \in pub

Authentic(n, e) == AuthenticIn(published, n, e)

(* Attribution: whatever a node stores under an address, or has queued for   *)
(* pasting, was published by the machine at that address and carries that    *)
(* address as origin, through every delay, restart and change of peers       *)
(* (post_clipboard_entry overwrites the origin the sender claims).           *)
AuthenticCopies ==
  /\ \A r \in net : r.entry \in published /\ r.entry.origin = LocalId(r.from)
  /\ \A n \in Nodes : \A a \in Addrs :
       storage[n][a] # NoEntry => storage[n][a].origin = a /\ Authentic(n, storage[n][a])
  /\ \A n \in Nodes : \A i \in 1..Len(pasteQueue[n]) :
       pasteQueue[n][i] # NoEntry => Authentic(n, pasteQueue[n][i])

(* The parties that know of a file list published by m. *)
Sees(n, m, e) == \/ storage[n][Ip(m)] = e
                 \/ \E i \in 1..Len(pasteQueue[n]) : pasteQueue[n][i] = e

(* A file list that reached another machine, or is on its way, had its paths *)
(* on the owner's allowlist before it left: a prompt download is never       *)
(* refused for having come too early (register_paths precedes the broadcast).*)
SharedBeforeVisible ==
  /\ \A r \in net : r.entry.clip.type = "files" =>
       allowlist[r.from][r.entry.clip.value] # "never"
  /\ \A n, m \in Nodes : \A p \in Paths : \A t \in Stamps :
       Sees(n, m, [origin |-> Ip(m), clip |-> [type |-> "files", value |-> p], timestamp |-> t])
         => allowlist[m][p] # "never"

(* Only a machine that this process has authorized at some time gets an      *)
(* entry into its store or past the peer check: the check made before the    *)
(* body is awaited cannot outlive the process that made it.                  *)
OnlyPeersStored ==
  /\ \A r \in net : r.admitted => peers[r.to][r.from] # "unknown"
  /\ \A n, m \in Nodes : storage[n][Ip(m)] # NoEntry => peers[n][m] # "unknown"

(* The worker writes what somebody published, or nothing: its own entries as  *)
(* they were, a peer's text as it was posted, and of a peer's file list the   *)
(* downloaded copies, never the peer's paths, whatever was delayed, replaced  *)
(* or revoked meanwhile (paste_queue_handler).                                *)
PasteOf(n, x) ==
  IF x.origin = LocalId(n) THEN x
  ELSE LET received == [x EXCEPT !.origin = Ip(Owner(x))]
       IN IF x.clip.type = "files" THEN [received EXCEPT !.clip.value = TempCopy[@]]
          ELSE received

PastesPublished == \A n \in Nodes :
  workerPc[n] = "paste" => \E x \in published : pasting[n] = PasteOf(n, x)

(* The stores implement LatestStore: per node one item per author, published *)
(* by that author, never replaced by an older one while the process runs,    *)
(* whatever the order in which the posts arrive.                             *)
Slot(n, a) == IF n = a THEN storage[n][LocalId(n)] ELSE storage[n][Ip(a)]
Item(e) == [clip |-> e.clip, timestamp |-> e.timestamp]

Latest == INSTANCE LatestStore WITH
  Payloads <- Clips,
  None     <- NoEntry,
  authored <- [a \in Nodes |-> {Item(e) : e \in {x \in published : x.origin = LocalId(a)}}],
  latest   <- [n \in Nodes |-> [a \in Nodes |->
                 IF Slot(n, a) = NoEntry THEN NoEntry ELSE Item(Slot(n, a))]]

ImplementsLatestStore == Latest!Spec

(* Two machines that have authorized each other. *)
Linked(n, m) == peers[n][m] = "authorized" /\ peers[m][n] = "authorized"

Broadcasting(n, m, t) ==
  /\ monPc[n] = "broadcast"
  /\ Linked(n, m)
  /\ outgoing[n] \in {e \in Entries : e.timestamp = t /\ Accepts(m, e)}
Delivered(n, m, t) == storage[m][Ip(n)] \in {e \in Entries : e.timestamp >= t}

(* An entry that n is about to broadcast reaches every machine it is linked  *)
(* with, if that machine accepts its size, unless the link is lost: the      *)
(* machine's slot for n is then at least as new.                             *)
EventualDelivery ==
  \A n \in Nodes : \A m \in Nodes \ {n} : \A t \in Stamps :
    Broadcasting(n, m, t) ~> Delivered(n, m, t) \/ ~Linked(n, m)

Underway(n, m, e) ==
  \/ monPc[n] \in {"store", "broadcast"} /\ outgoing[n] = e
  \/ monPc[n] = "post" /\ outgoing[n] = e /\ m \in targets[n]
  \/ \E r \in net : r.from = n /\ r.to = m /\ r.entry = e
Arrived(n, m, e) ==
  storage[m][Ip(n)] # NoEntry /\ storage[m][Ip(n)].timestamp >= e.timestamp
Interrupted == \E kind \in {"fault", "restart"} : budget'[kind] # budget[kind]

(* No entry gets lost between the threads: on its way from the author's store *)
(* to a linked machine that accepts its size it stays on its way until it, or *)
(* a newer one of the same author, is in that machine's store, and there it   *)
(* stays, unless the link goes, a step fails or a process restarts.           *)
Sound(n, m, e) == Underway(n, m, e) \/ Arrived(n, m, e)

NothingSlips == [][\A n, m \in Nodes : \A e \in published :
  n # m /\ Linked(n, m) /\ Accepts(m, e) /\ Sound(n, m, e) =>
    Sound(n, m, e)' \/ ~Linked(n, m)' \/ Interrupted]_vars

Quiet(n) == /\ monPc[n] = "poll"
            /\ Look(n) \in {Empty, lastFingerprint[n]}
            /\ workerPc[n] = "idle"
            /\ pasteQueue[n] = <<>>
            /\ \A r \in net : r.to # n

(* Once the users stop, the exchange stops: no request, queued entry or      *)
(* unread change is left.  docs/CODE_WALKTHROUGH.md:110 has the suppression  *)
(* window do this ("suppresses self-induced clipboard loops").  Two machines *)
(* that paste what they receive unasked can pass two texts back and forth    *)
(* for ever, each taking the other's text for a copy of its user.            *)
ExchangeStops == <>[](\A n \in Nodes : Quiet(n))

(* With at most one machine that pastes unasked (store_clipboard_entry does  *)
(* so under Wayland only) the echoes of the workers' own writes die out and  *)
(* the exchange stops.                                                       *)
EventuallyQuiet == Cardinality(Wayland) <= 1 => ExchangeStops
=============================================================================
