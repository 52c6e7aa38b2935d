--------------------- MODULE ClipboardSync_safety_proofs ---------------------
(* The safety properties of ClipboardSync, each from its own inductive        *)
(* invariant on top of Basic.                                                 *)
EXTENDS ClipboardSync_proofs

USE ConstantsOK DEF vars, monVars, workVars

(* Attribution: AuthenticCopies is inductive together with Basic, which says  *)
(* what the monitor is about to post and store.                               *)

LEMMA AuthenticGrows ==
  ASSUME NEW P, NEW Q, P \subseteq Q, NEW n, NEW e, AuthenticIn(P, n, e)
  PROVE  AuthenticIn(Q, n, e)
  BY DEF AuthenticIn

LEMMA InitAuthentic == Init => AuthenticCopies
  BY DEF Init, AuthenticCopies

(* A step that adds nothing to the requests, the stores and the queues.       *)
LEMMA AuthenticKept ==
  ASSUME Basic, AuthenticCopies, published \subseteq published', net' \subseteq net,
         \A n \in Nodes : \A a \in Addrs : storage'[n][a] \in {storage[n][a], NoEntry},
         \A n \in Nodes : \/ pasteQueue'[n] \in {pasteQueue[n], <<>>}
                          \/ pasteQueue[n] # <<>> /\ pasteQueue'[n] = Tail(pasteQueue[n])
  PROVE  AuthenticCopies'
  <1>1. \A r \in net' : r.entry \in published' /\ r.entry.origin = LocalId(r.from)
    BY DEF AuthenticCopies
  <1>2. ASSUME NEW n \in Nodes, NEW a \in Addrs, storage'[n][a] # NoEntry
        PROVE  (storage[n][a].origin = a /\ Authentic(n, storage[n][a]))'
    BY <1>2, AuthenticGrows DEF AuthenticCopies, Authentic
  <1>3. ASSUME NEW n \in Nodes, NEW i \in 1..Len(pasteQueue'[n]), pasteQueue'[n][i] # NoEntry
        PROVE  Authentic(n, pasteQueue[n][i])'
    <2>1. pasteQueue[n] \in Seq(Entries \cup {NoEntry})
      BY DEF Basic, TypeOK
    <2>2. \E j \in 1..Len(pasteQueue[n]) : pasteQueue'[n][i] = pasteQueue[n][j]
      <3>1. CASE pasteQueue'[n] = pasteQueue[n]
        BY <3>1
      <3>2. CASE pasteQueue'[n] = <<>>
        BY <3>2
      <3>3. CASE pasteQueue[n] # <<>> /\ pasteQueue'[n] = Tail(pasteQueue[n])
        <4>1. /\ Len(pasteQueue'[n]) = Len(pasteQueue[n]) - 1
              /\ pasteQueue'[n][i] = pasteQueue[n][i + 1]
          BY <2>1, <3>3
        <4> QED BY <2>1, <4>1
      <3> QED BY <3>1, <3>2, <3>3
    <2> QED BY <1>3, <2>2, AuthenticGrows DEF AuthenticCopies, Authentic
  <1> QED BY <1>1, <1>2, <1>3 DEF AuthenticCopies

(* An entry appended to one queue. *)
LEMMA AuthenticAppended ==
  ASSUME Basic, AuthenticCopies, NEW n \in Nodes, NEW e \in Entries \cup {NoEntry},
         e # NoEntry => Authentic(n, e), UNCHANGED published,
         pasteQueue' = [pasteQueue EXCEPT ![n] = Append(@, e)]
  PROVE  \A k \in Nodes : \A i \in 1..Len(pasteQueue'[k]) :
           pasteQueue'[k][i] # NoEntry => Authentic(k, pasteQueue[k][i])'
  <1> SUFFICES ASSUME NEW k \in Nodes, NEW i \in 1..Len(pasteQueue'[k]),
                      pasteQueue'[k][i] # NoEntry
               PROVE  Authentic(k, pasteQueue[k][i])'
    OBVIOUS
  <1>1. pasteQueue \in [Nodes -> Seq(Entries \cup {NoEntry})]
    BY DEF Basic, TypeOK
  <1>2. \/ k = n /\ pasteQueue'[k][i] = e
        \/ i \in 1..Len(pasteQueue[k]) /\ pasteQueue'[k][i] = pasteQueue[k][i]
    BY <1>1
  <1> QED BY <1>2, AuthenticGrows DEF AuthenticCopies, Authentic

LEMMA StoreAuthentic ==
  ASSUME Basic, AuthenticCopies, NEW n \in Nodes, NEW a \in Addrs, NEW e \in Entries,
         e.origin = a, Authentic(n, e), UNCHANGED published,
         StoreClipboardEntry(n, a, e)
  PROVE  /\ \A k \in Nodes : \A b \in Addrs : storage'[k][b] # NoEntry =>
              (storage[k][b].origin = b /\ Authentic(k, storage[k][b]))'
         /\ \A k \in Nodes : \A i \in 1..Len(pasteQueue'[k]) :
              pasteQueue'[k][i] # NoEntry => Authentic(k, pasteQueue[k][i])'
  <1>1. ASSUME NEW k \in Nodes, NEW b \in Addrs, storage'[k][b] # NoEntry
        PROVE  (storage[k][b].origin = b /\ Authentic(k, storage[k][b]))'
    <2>1. \/ storage'[k][b] = storage[k][b]
          \/ k = n /\ b = a /\ storage'[k][b] = e
      BY DEF StoreClipboardEntry, Basic, TypeOK
    <2> QED BY <1>1, <2>1, AuthenticGrows DEF AuthenticCopies, Authentic
  <1>2. CASE pasteQueue' = pasteQueue
    BY <1>1, <1>2, AuthenticGrows DEF AuthenticCopies, Authentic
  <1>3. CASE pasteQueue' = [pasteQueue EXCEPT ![n] = Append(@, e)]
    BY <1>1, <1>3, AuthenticAppended
  <1> QED BY <1>2, <1>3 DEF StoreClipboardEntry

(* What a node stores of a request is the copy of a published original. *)
LEMMA ReceivedAuthentic ==
  ASSUME NEW r \in Requests, r.entry \in published, r.entry.origin = LocalId(r.from),
         r.from # r.to
  PROVE  Authentic(r.to, Received(r))
  <1>1. r.entry \in Entries /\ r.from \in Nodes
    BY DEF Requests
  <1>2. Original(Received(r), r.from) = r.entry
    BY <1>1 DEF Original, Received, Entries
  <1> QED BY <1>1, <1>2, ReceivedType DEF Authentic, AuthenticIn

LEMMA StepAuthentic == Basic /\ AuthenticCopies /\ [Next]_vars => AuthenticCopies'
  <1> SUFFICES ASSUME Basic, AuthenticCopies, [Next]_vars PROVE AuthenticCopies'
    OBVIOUS
  <1>0. TypeOK /\ MonitorOK /\ LinksOK
    BY DEF Basic
  <1>1. CASE UNCHANGED vars
    BY <1>1, AuthenticKept
  <1>2. ASSUME NEW n \in Nodes, User(n) PROVE AuthenticCopies'
    <2>1. CASE \E c \in Clips : UserCopy(n, c)
      BY <2>1, AuthenticKept DEF UserCopy
    <2>2. CASE \E e \in Newest(n) : Hotkey(n, e)
      <3>1. PICK e \in Newest(n) : Hotkey(n, e)
        BY <2>2
      <3>2. e \in Entries \cup {NoEntry}
        BY <1>0, NewestType
      <3>3. e # NoEntry => Authentic(n, e)
        BY <3>1 DEF Newest, Stored, AuthenticCopies
      <3>4. UNCHANGED <<net, storage, published>>
        BY <3>1 DEF Hotkey
      <3>5. pasteQueue' = [pasteQueue EXCEPT ![n] = Append(@, e)]
        BY <3>1 DEF Hotkey
      <3>6. \A k \in Nodes : \A i \in 1..Len(pasteQueue'[k]) :
              pasteQueue'[k][i] # NoEntry => Authentic(k, pasteQueue[k][i])'
        BY <3>2, <3>3, <3>4, <3>5, AuthenticAppended
      <3> QED BY <3>4, <3>6, AuthenticGrows DEF AuthenticCopies, Authentic
    <2> QED BY <1>2, <2>1, <2>2 DEF User
  <1>3. ASSUME NEW n \in Nodes, Monitor(n) PROVE AuthenticCopies'
    <2>1. CASE PollUnchanged(n)
      BY <2>1, AuthenticKept DEF PollUnchanged
    <2>2. CASE ReadClipboard(n)
      BY <2>2, AuthenticKept DEF ReadClipboard
    <2>3. CASE Swallow(n)
      BY <2>3, AuthenticKept DEF Swallow
    <2>4. CASE \E t \in Stamps : Publish(n, t)
      BY <2>4, AuthenticKept DEF Publish
    <2>5. CASE StoreLocal(n)
      <3>1. /\ outgoing[n] \in Entries
            /\ outgoing[n].origin = LocalId(n)
            /\ LocalId(n) \in Addrs
            /\ Authentic(n, outgoing[n])
        BY <1>0, <2>5 DEF StoreLocal, TypeOK, MonitorOK, Authentic, AuthenticIn, LocalId, Addrs
      <3>2. UNCHANGED <<net, published>> /\ StoreClipboardEntry(n, LocalId(n), outgoing[n])
        BY <2>5 DEF StoreLocal
      <3> QED BY <3>1, <3>2, StoreAuthentic DEF AuthenticCopies
    <2>6. CASE StartBroadcast(n)
      BY <2>6, AuthenticKept DEF StartBroadcast
    <2>7. CASE \E m \in Nodes : Post(n, m)
      <3>1. PICK m \in Nodes : Post(n, m)
        BY <2>7
      <3>2. outgoing[n] \in published /\ outgoing[n].origin = LocalId(n)
        BY <1>0, <3>1 DEF Post, MonitorOK
      <3>3. UNCHANGED <<storage, pasteQueue, published>>
        BY <3>1 DEF Post
      <3>4. \A r \in net' : r.entry \in published' /\ r.entry.origin = LocalId(r.from)
        BY <3>1, <3>2 DEF Post, AuthenticCopies
      <3> QED BY <3>3, <3>4, AuthenticGrows DEF AuthenticCopies, Authentic
    <2>8. CASE EndBroadcast(n)
      BY <2>8, AuthenticKept DEF EndBroadcast
    <2> QED BY <1>3, <2>1, <2>2, <2>3, <2>4, <2>5, <2>6, <2>7, <2>8 DEF Monitor
  <1>4. ASSUME NEW n \in Nodes, Worker(n) PROVE AuthenticCopies'
    <2>1. CASE TakeNone(n)
      BY <1>0, <2>1, AuthenticKept DEF TakeNone, TypeOK
    <2>2. CASE Take(n)
      BY <1>0, <2>2, AuthenticKept DEF Take, TypeOK
    <2>3. CASE Download(n) \/ DownloadRefused(n) \/ Paste(n) \/ Mark(n)
      BY <2>3, AuthenticKept DEF Download, DownloadRefused, Paste, Mark
    <2> QED BY <1>4, <2>1, <2>2, <2>3 DEF Worker
  <1>5. ASSUME NEW n \in Nodes, NEW m \in Nodes, Serve(n, m) PROVE AuthenticCopies'
    <2>1. PICK r \in net : Admit(r) \/ Refuse(r) \/ Handle(r)
      BY <1>5 DEF Serve
    <2>2. /\ r \in Requests /\ r.from \in Nodes /\ r.to \in Nodes /\ r.from # r.to
          /\ r.entry \in published /\ r.entry.origin = LocalId(r.from)
      BY <1>0 DEF TypeOK, LinksOK, Requests, AuthenticCopies
    <2>3. CASE Admit(r)
      <3>1. \A q \in net' : q.entry \in published' /\ q.entry.origin = LocalId(q.from)
        BY <2>2, <2>3 DEF Admit, AuthenticCopies, Requests
      <3>2. UNCHANGED <<storage, pasteQueue, published>>
        BY <2>3 DEF Admit
      <3> QED BY <3>1, <3>2, AuthenticGrows DEF AuthenticCopies, Authentic
    <2>4. CASE Refuse(r)
      BY <2>4, AuthenticKept DEF Refuse
    <2>5. CASE Handle(r)
      <3>1. /\ Received(r) \in Entries
            /\ Received(r).origin = Key(r)
            /\ Key(r) \in Addrs
            /\ Authentic(r.to, Received(r))
        BY <2>2, ReceivedType, ReceivedAuthentic DEF Key, Ip, Addrs
      <3>2. /\ StoreClipboardEntry(r.to, Key(r), Received(r))
            /\ net' \subseteq net
            /\ UNCHANGED published
        BY <2>5 DEF Handle
      <3> QED BY <2>2, <3>1, <3>2, StoreAuthentic DEF AuthenticCopies
    <2> QED BY <2>1, <2>3, <2>4, <2>5
  <1>6. ASSUME NEW n \in Nodes, Faults(n) PROVE AuthenticCopies'
    <2>1. CASE PublishFails(n) \/ DownloadFails(n)
      BY <2>1, AuthenticKept DEF PublishFails, DownloadFails
    <2>2. CASE \E left \in Clips \cup {Empty} : PasteFails(n, left) \/ PasteRaises(n, left)
      BY <2>2, AuthenticKept DEF PasteFails, PasteRaises
    <2>3. CASE \E r \in net : Lose(r)
      BY <2>3, AuthenticKept DEF Lose
    <2>4. CASE \E reached \in SUBSET Bootstrapped[n] : Restart(n, reached)
      BY <1>0, <2>4, AuthenticKept DEF Restart, TypeOK
    <2> QED BY <1>0, <1>6, <2>1, <2>2, <2>3, <2>4 DEF Faults, TypeOK
  <1>7. ASSUME NEW n \in Nodes, Environment(n) PROVE AuthenticCopies'
    BY <1>7, AuthenticKept DEF Environment, SuppressExpires, ShareLapses, Authorize, Revoke
  <1> QED BY <1>1, <1>2, <1>3, <1>4, <1>5, <1>6, <1>7 DEF Next

(* Whatever a node stores or is about to paste was published by the machine   *)
(* it is attributed to.                                                       *)
THEOREM Attribution == Spec => []AuthenticCopies
  BY BasicInvariant, InitAuthentic, StepAuthentic, PTL DEF Spec

-----------------------------------------------------------------------------
(* File lists: the owner registers the paths in the step that builds the      *)
(* entry, and a path once registered never becomes unregistered, only lapsed. *)

PublishedShared == \A e \in published :
  e.clip.type = "files" => allowlist[Owner(e)][e.clip.value] # "never"

LEMMA EntryParts == ASSUME NEW e \in Entries
                    PROVE  /\ Owner(e) \in Nodes
                           /\ e.clip.type = "files" => e.clip.value \in Paths
  BY DEF Entries, Addrs, Owner, Clips

LEMMA SharedKept ==
  ASSUME Basic, PublishedShared, UNCHANGED published,
         \A n \in Nodes : \A p \in Paths :
           allowlist'[n][p] = "never" => allowlist[n][p] = "never"
  PROVE  PublishedShared'
  <1> SUFFICES ASSUME NEW e \in published, e.clip.type = "files"
               PROVE  allowlist'[Owner(e)][e.clip.value] # "never"
    BY DEF PublishedShared
  <1>1. Owner(e) \in Nodes /\ e.clip.value \in Paths
    BY EntryParts DEF Basic, TypeOK
  <1> QED BY <1>1 DEF PublishedShared

LEMMA StepShared == Basic /\ PublishedShared /\ [Next]_vars => PublishedShared'
  <1> SUFFICES ASSUME Basic, PublishedShared, [Next]_vars PROVE PublishedShared'
    OBVIOUS
  <1>0. TypeOK /\ MonitorOK
    BY DEF Basic
  <1>1. CASE UNCHANGED vars
    BY <1>1, SharedKept
  <1>2. ASSUME NEW n \in Nodes, \E t \in Stamps : Publish(n, t) PROVE PublishedShared'
    <2>1. PICK t \in Stamps : Publish(n, t)
      BY <1>2
    <2> DEFINE new == [origin |-> LocalId(n), clip |-> polled[n], timestamp |-> t]
    <2>2. polled[n] \in Clips
      BY <1>0, <2>1 DEF Publish, MonitorOK
    <2>3. Owner(new) = n /\ new.clip = polled[n]
      BY DEF Owner, LocalId
    <2>4. published' = published \cup {new} /\ allowlist' = Registered(n, polled[n])
      BY <2>1 DEF Publish
    <2> HIDE DEF new
    <2> SUFFICES ASSUME NEW e \in published', e.clip.type = "files"
                 PROVE  allowlist'[Owner(e)][e.clip.value] # "never"
      BY DEF PublishedShared
    <2>5. CASE e = new
      <3>1. polled[n].value \in Paths
        BY <2>2, <2>3, <2>5 DEF Clips
      <3>2. allowlist' = [allowlist EXCEPT ![n][polled[n].value] = "allowed"]
        BY <2>3, <2>4, <2>5 DEF Registered
      <3> QED BY <1>0, <2>3, <2>5, <3>1, <3>2 DEF TypeOK
    <2>6. CASE e \in published
      <3>1. Owner(e) \in Nodes /\ e.clip.value \in Paths
        BY <1>0, <2>6, EntryParts DEF TypeOK
      <3>2. allowlist[Owner(e)][e.clip.value] # "never"
        BY <2>6 DEF PublishedShared
      <3>3. allowlist'[Owner(e)][e.clip.value] \in
              {allowlist[Owner(e)][e.clip.value], "allowed"}
        <4>1. CASE allowlist' = allowlist
          BY <4>1
        <4>2. CASE polled[n].value \in Paths
                   /\ allowlist' = [allowlist EXCEPT ![n][polled[n].value] = "allowed"]
          BY <1>0, <3>1, <4>2 DEF TypeOK
        <4> QED BY <2>2, <2>4, <4>1, <4>2 DEF Registered, Clips
      <3> QED BY <3>2, <3>3
    <2> QED BY <2>4, <2>5, <2>6
  <1>3. ASSUME NEW n \in Nodes, \E p \in Paths : ShareLapses(n, p) PROVE PublishedShared'
    BY <1>0, <1>3, SharedKept DEF ShareLapses, TypeOK
  <1>4. ASSUME NEW n \in Nodes, \E reached \in SUBSET Bootstrapped[n] : Restart(n, reached)
        PROVE  PublishedShared'
    <2>1. \A k \in Nodes : \A p \in Paths :
            allowlist'[k][p] = "never" => allowlist[k][p] = "never"
      BY <1>0, <1>4 DEF Restart, TypeOK
    <2>2. UNCHANGED published
      BY <1>4 DEF Restart
    <2> QED BY <2>1, <2>2, SharedKept
  <1>5. CASE UNCHANGED <<published, allowlist>>
    BY <1>5, SharedKept
  <1> QED
    BY <1>1, <1>2, <1>3, <1>4, <1>5
    DEF Next, User, Monitor, Worker, Serve, Faults, Environment, UserCopy, Hotkey,
        PollUnchanged, ReadClipboard, Swallow, StoreLocal, StartBroadcast, Post,
        EndBroadcast, TakeNone, Take, Download, DownloadRefused, Paste, Mark, Admit,
        Refuse, Handle, PublishFails, DownloadFails, PasteFails, PasteRaises, Lose,
        SuppressExpires, Authorize, Revoke

LEMMA SharedFollows == Basic /\ AuthenticCopies /\ PublishedShared => SharedBeforeVisible
  <1> SUFFICES ASSUME Basic, AuthenticCopies, PublishedShared PROVE SharedBeforeVisible
    OBVIOUS
  <1>0. TypeOK
    BY DEF Basic
  <1>1. ASSUME NEW r \in net, r.entry.clip.type = "files"
        PROVE  allowlist[r.from][r.entry.clip.value] # "never"
    <2>1. r.entry \in published /\ Owner(r.entry) = r.from
      BY DEF AuthenticCopies, Owner, LocalId
    <2> QED BY <1>1, <2>1 DEF PublishedShared
  <1>2. ASSUME NEW n \in Nodes, NEW m \in Nodes, NEW p \in Paths, NEW t \in Stamps,
               Sees(n, m, [origin |-> Ip(m), clip |-> [type |-> "files", value |-> p],
                           timestamp |-> t])
        PROVE  allowlist[m][p] # "never"
    <2> DEFINE e == [origin |-> Ip(m), clip |-> [type |-> "files", value |-> p], timestamp |-> t]
    <2>1. e \in Entries /\ e # NoEntry
      BY DEF Entries, Addrs, Ip, Clips
    <2>2. Ip(m) \in Addrs
      BY DEF Ip, Addrs
    <2>3. Authentic(n, e)
      BY <1>2, <2>1, <2>2 DEF Sees, AuthenticCopies
    <2>4. PICK k \in Nodes \ {n} : e.origin = Ip(k) /\ Original(e, k) \in published
      BY <2>3 DEF Authentic, AuthenticIn, LocalId, Ip
    <2>5. Original(e, m) \in published
      BY <2>4 DEF Ip
    <2>6. Owner(Original(e, m)) = m /\ Original(e, m).clip = e.clip
      BY DEF Owner, Original, LocalId
    <2> QED BY <2>5, <2>6 DEF PublishedShared
  <1> QED BY <1>1, <1>2 DEF SharedBeforeVisible

(* A file list is never visible to another machine before its paths are on    *)
(* the owner's allowlist.                                                     *)
THEOREM SharedFirst == Spec => []SharedBeforeVisible
  <1>1. Init => PublishedShared
    BY DEF Init, PublishedShared
  <1>2. Spec => []PublishedShared
    BY <1>1, BasicInvariant, StepShared, PTL DEF Spec
  <1> QED BY <1>2, BasicInvariant, Attribution, SharedFollows, PTL

-----------------------------------------------------------------------------
(* Admission: a peer once known to a process stays known until its restart,   *)
(* which empties the store and drops the requests.                            *)

LEMMA PeersKept ==
  ASSUME Basic, OnlyPeersStored, net' \subseteq net,
         \A n, m \in Nodes : storage'[n][Ip(m)] # NoEntry => storage[n][Ip(m)] # NoEntry,
         \A n, m \in Nodes : peers'[n][m] = "unknown" => peers[n][m] = "unknown"
  PROVE  OnlyPeersStored'
  BY DEF OnlyPeersStored, Basic, TypeOK, Requests

LEMMA StepPeers == Basic /\ OnlyPeersStored /\ [Next]_vars => OnlyPeersStored'
  <1> SUFFICES ASSUME Basic, OnlyPeersStored, [Next]_vars PROVE OnlyPeersStored'
    OBVIOUS
  <1>0. TypeOK
    BY DEF Basic
  <1>1. CASE UNCHANGED <<storage, net, peers>>
    BY <1>1, PeersKept
  <1>2. ASSUME NEW n \in Nodes, StoreLocal(n) PROVE OnlyPeersStored'
    <2>1. \A k, m \in Nodes : storage'[k][Ip(m)] = storage[k][Ip(m)]
      BY <1>0, <1>2 DEF StoreLocal, StoreClipboardEntry, TypeOK, LocalId, Ip, Addrs
    <2> QED BY <1>2, <2>1, PeersKept DEF StoreLocal
  <1>3. ASSUME NEW n \in Nodes, NEW m \in Nodes, Post(n, m) PROVE OnlyPeersStored'
    BY <1>3 DEF Post, OnlyPeersStored
  <1>4. ASSUME NEW r \in net, Admit(r) PROVE OnlyPeersStored'
    <2>1. r \in Requests
      BY <1>0 DEF TypeOK
    <2> QED BY <1>4, <2>1 DEF Admit, KnownPeer, OnlyPeersStored, Requests
  <1>5. ASSUME NEW r \in net, Handle(r) PROVE OnlyPeersStored'
    <2>1. r \in Requests /\ peers[r.to][r.from] # "unknown"
      BY <1>0, <1>5 DEF TypeOK, Handle, OnlyPeersStored
    <2>2. \A k, m \in Nodes : storage'[k][Ip(m)] # storage[k][Ip(m)] => k = r.to /\ m = r.from
      BY <1>0, <1>5, <2>1 DEF Handle, StoreClipboardEntry, Key, TypeOK, Ip, Addrs, Requests
    <2>3. net' \subseteq net /\ UNCHANGED peers
      BY <1>5 DEF Handle
    <2> QED BY <2>1, <2>2, <2>3 DEF OnlyPeersStored
  <1>6. ASSUME NEW r \in net, Refuse(r) \/ Lose(r) PROVE OnlyPeersStored'
    BY <1>6, PeersKept DEF Refuse, Lose
  <1>7. ASSUME NEW n \in Nodes, NEW m \in Nodes, Authorize(n, m) \/ Revoke(n, m)
        PROVE  OnlyPeersStored'
    <2>1. UNCHANGED <<storage, net>>
      BY <1>7 DEF Authorize, Revoke
    <2>2. \A k, l \in Nodes : peers'[k][l] = "unknown" => peers[k][l] = "unknown"
      <3>1. \/ peers' = [peers EXCEPT ![n][m] = "authorized"]
            \/ peers' = [peers EXCEPT ![n][m] = "revoked"]
        BY <1>7 DEF Authorize, Revoke
      <3>2. peers \in [Nodes -> [Nodes -> {"unknown", "authorized", "revoked"}]]
        BY <1>0 DEF TypeOK
      <3>3. CASE peers' = [peers EXCEPT ![n][m] = "authorized"]
        BY <3>2, <3>3
      <3>4. CASE peers' = [peers EXCEPT ![n][m] = "revoked"]
        BY <3>2, <3>4
      <3> QED BY <3>1, <3>3, <3>4
    <2> QED BY <2>1, <2>2, PeersKept
  <1>8. ASSUME NEW n \in Nodes, \E reached \in SUBSET Bootstrapped[n] : Restart(n, reached)
        PROVE  OnlyPeersStored'
    <2>1. /\ net' \subseteq net /\ \A r \in net' : r.admitted => r.to # n
          /\ \A k, m \in Nodes : k # n => /\ peers'[k][m] = peers[k][m]
                                          /\ storage'[k] = storage[k]
          /\ \A m \in Nodes : storage'[n][Ip(m)] = NoEntry
      BY <1>0, <1>8 DEF Restart, TypeOK, Ip, Addrs
    <2>2. ASSUME NEW r \in net', r.admitted PROVE peers'[r.to][r.from] # "unknown"
      BY <1>0, <2>1, <2>2 DEF OnlyPeersStored, TypeOK, Requests
    <2>3. ASSUME NEW k \in Nodes, NEW m \in Nodes, storage'[k][Ip(m)] # NoEntry
          PROVE  peers'[k][m] # "unknown"
      <3>1. k # n
        BY <2>1, <2>3
      <3>2. storage[k][Ip(m)] # NoEntry /\ peers'[k][m] = peers[k][m]
        BY <2>1, <2>3, <3>1
      <3> QED BY <3>2 DEF OnlyPeersStored
    <2> QED BY <2>2, <2>3 DEF OnlyPeersStored
  <1> QED
    BY <1>1, <1>2, <1>3, <1>4, <1>5, <1>6, <1>7, <1>8
    DEF Next, User, Monitor, Worker, Serve, Faults, Environment, UserCopy, Hotkey,
        PollUnchanged, ReadClipboard, Swallow, Publish, StartBroadcast, EndBroadcast,
        TakeNone, Take, Download, DownloadRefused, Paste, Mark, PublishFails,
        DownloadFails, PasteFails, PasteRaises, SuppressExpires, ShareLapses

(* Only machines this process has authorized get into its store or past its   *)
(* peer check.                                                                *)
THEOREM Admission == Spec => []OnlyPeersStored
  <1>1. Init => OnlyPeersStored
    BY DEF Init, OnlyPeersStored, Ip, Addrs
  <1> QED BY <1>1, BasicInvariant, StepPeers, PTL DEF Spec

-----------------------------------------------------------------------------
(* Pasting: what the worker fetches is a peer's published list, and what it   *)
(* is about to write is the form of a published entry that belongs here.      *)

PastedFrom(pub, n, e) == \E x \in pub : e = PasteOf(n, x)
Pasted(n) == PastedFrom(published, n, pasting[n])
WorkerHolds == \A n \in Nodes :
  /\ workerPc[n] = "fetch" => Authentic(n, pasting[n]) /\ NeedsDownload(n, pasting[n])
  /\ workerPc[n] = "paste" => Pasted(n)

LEMMA OwnPaste ==
  ASSUME NEW n \in Nodes, NEW e \in published, e.origin = LocalId(n)
  PROVE  e = PasteOf(n, e)
  BY DEF PasteOf

(* The received copy of a peer's entry, as text and as downloaded list.       *)
LEMMA PeersPaste ==
  ASSUME NEW n \in Nodes, NEW m \in Nodes, m # n, NEW e \in Entries, e.origin = Ip(m)
  PROVE  /\ e.clip.type # "files" => e = PasteOf(n, Original(e, m))
         /\ e.clip.type = "files" => Downloaded(e) = PasteOf(n, Original(e, m))
  <1> DEFINE x == Original(e, m)
  <1>1. /\ x.origin = LocalId(m) /\ x.clip = e.clip
        /\ [x EXCEPT !.origin = Ip(m)] = e
    BY DEF Original, Entries
  <1> HIDE DEF x
  <1>2. x.origin # LocalId(n) /\ Owner(x) = m
    BY <1>1 DEF LocalId, Owner
  <1>3. PasteOf(n, x) = IF e.clip.type = "files" THEN Downloaded(e) ELSE e
    BY <1>1, <1>2 DEF PasteOf, Downloaded
  <1> QED BY <1>3 DEF x

LEMMA AuthenticPaste ==
  ASSUME NEW n \in Nodes, NEW e \in Entries, Authentic(n, e)
  PROVE  /\ ~NeedsDownload(n, e) => PastedFrom(published, n, e)
         /\ NeedsDownload(n, e) => PastedFrom(published, n, Downloaded(e))
  <1>1. CASE e.origin = LocalId(n)
    <2>1. e \in published
      BY <1>1 DEF Authentic, AuthenticIn, LocalId, Ip
    <2> QED BY <1>1, <2>1, OwnPaste DEF NeedsDownload, PastedFrom
  <1>2. CASE e.origin # LocalId(n)
    <2>1. PICK m \in Nodes \ {n} : e.origin = Ip(m) /\ Original(e, m) \in published
      BY <1>2 DEF Authentic, AuthenticIn
    <2> QED BY <1>2, <2>1, PeersPaste DEF NeedsDownload, PastedFrom
  <1> QED BY <1>1, <1>2

(* Workers that go on with what they have, or are done with it.               *)
LEMMA HoldsKept ==
  ASSUME WorkerHolds, published \subseteq published',
         \A n \in Nodes : \/ workerPc'[n] = workerPc[n] /\ pasting'[n] = pasting[n]
                          \/ workerPc'[n] \notin {"fetch", "paste"}
  PROVE  WorkerHolds'
  <1> SUFFICES ASSUME NEW n \in Nodes
               PROVE  /\ workerPc'[n] = "fetch" => /\ Authentic(n, pasting[n])'
                                                   /\ NeedsDownload(n, pasting'[n])
                      /\ workerPc'[n] = "paste" => Pasted(n)'
    BY DEF WorkerHolds, NeedsDownload
  <1>1. CASE workerPc'[n] = workerPc[n] /\ pasting'[n] = pasting[n]
    <2>1. workerPc'[n] = "fetch" => Authentic(n, pasting[n])'
      BY <1>1, AuthenticGrows DEF WorkerHolds, Authentic
    <2> QED BY <1>1, <2>1 DEF WorkerHolds, Pasted, PastedFrom, PasteOf
  <1>2. CASE workerPc'[n] \notin {"fetch", "paste"}
    BY <1>2
  <1> QED BY <1>1, <1>2

LEMMA TakeHolds ==
  ASSUME Basic, AuthenticCopies, WorkerHolds, NEW n \in Nodes, Take(n)
  PROVE  WorkerHolds'
  <1> DEFINE e == Head(pasteQueue[n])
  <1>1. /\ e \in Entries /\ Authentic(n, e)
    <2>1. pasteQueue[n] \in Seq(Entries \cup {NoEntry}) /\ pasteQueue[n] # <<>> /\ e # NoEntry
      BY DEF Take, Basic, TypeOK
    <2>2. 1 \in 1..Len(pasteQueue[n]) /\ e = pasteQueue[n][1]
      BY <2>1
    <2> QED BY <2>1, <2>2 DEF AuthenticCopies
  <1>2. /\ pasting' = [pasting EXCEPT ![n] = e]
        /\ workerPc' = [workerPc EXCEPT ![n] = IF NeedsDownload(n, e) THEN "fetch" ELSE "paste"]
        /\ published' = published
    BY DEF Take
  <1> HIDE DEF e
  <1>3. /\ pasting'[n] = e /\ workerPc'[n] = IF NeedsDownload(n, e) THEN "fetch" ELSE "paste"
        /\ \A k \in Nodes \ {n} : workerPc'[k] = workerPc[k] /\ pasting'[k] = pasting[k]
    BY <1>2 DEF Basic, TypeOK
  <1> SUFFICES ASSUME NEW k \in Nodes
               PROVE  /\ workerPc'[k] = "fetch" => /\ Authentic(k, pasting[k])'
                                                   /\ NeedsDownload(k, pasting'[k])
                      /\ workerPc'[k] = "paste" => Pasted(k)'
    BY DEF WorkerHolds, NeedsDownload
  <1>4. CASE k = n
    <2>1. Authentic(n, pasting[n])'
      BY <1>1, <1>2, <1>3 DEF Authentic
    <2>2. ~NeedsDownload(n, e) => Pasted(n)'
      BY <1>1, <1>2, <1>3, AuthenticPaste DEF Pasted
    <2> QED BY <1>3, <1>4, <2>1, <2>2
  <1>5. CASE k # n
    BY <1>2, <1>3, <1>5 DEF WorkerHolds, Authentic, Pasted
  <1> QED BY <1>4, <1>5

LEMMA DownloadHolds ==
  ASSUME Basic, WorkerHolds, NEW n \in Nodes, Download(n)
  PROVE  WorkerHolds'
  <1>1. /\ workerPc[n] = "fetch" /\ published' = published
        /\ pasting' = [pasting EXCEPT ![n] = Downloaded(pasting[n])]
        /\ workerPc' = [workerPc EXCEPT ![n] = "paste"]
    BY DEF Download, Downloaded
  <1>2. pasting[n] \in Entries /\ Authentic(n, pasting[n]) /\ NeedsDownload(n, pasting[n])
    BY <1>1 DEF Basic, WorkerOK, WorkerHolds
  <1>3. /\ pasting'[n] = Downloaded(pasting[n]) /\ workerPc'[n] = "paste"
        /\ \A k \in Nodes \ {n} : workerPc'[k] = workerPc[k] /\ pasting'[k] = pasting[k]
    BY <1>1 DEF Basic, TypeOK
  <1>4. Pasted(n)'
    BY <1>1, <1>2, <1>3, AuthenticPaste DEF Pasted
  <1> SUFFICES ASSUME NEW k \in Nodes
               PROVE  /\ workerPc'[k] = "fetch" => /\ Authentic(k, pasting[k])'
                                                   /\ NeedsDownload(k, pasting'[k])
                      /\ workerPc'[k] = "paste" => Pasted(k)'
    BY DEF WorkerHolds, NeedsDownload
  <1>5. CASE k = n
    BY <1>3, <1>4, <1>5
  <1>6. CASE k # n
    BY <1>1, <1>3, <1>6 DEF WorkerHolds, Authentic, Pasted
  <1> QED BY <1>5, <1>6

LEMMA StepHolds == Basic /\ AuthenticCopies /\ WorkerHolds /\ [Next]_vars => WorkerHolds'
  <1> SUFFICES ASSUME Basic, AuthenticCopies, WorkerHolds, [Next]_vars PROVE WorkerHolds'
    OBVIOUS
  <1>0. TypeOK
    BY DEF Basic
  <1>1. CASE UNCHANGED <<workerPc, pasting, published>>
    BY <1>1, HoldsKept
  <1>2. ASSUME NEW n \in Nodes, \E t \in Stamps : Publish(n, t) PROVE WorkerHolds'
    BY <1>2, HoldsKept DEF Publish
  <1>3. ASSUME NEW n \in Nodes, DownloadRefused(n) \/ DownloadFails(n) \/ Mark(n)
        PROVE  WorkerHolds'
    BY <1>0, <1>3, HoldsKept DEF DownloadRefused, DownloadFails, Mark, TaskDone, TypeOK
  <1>4. ASSUME NEW n \in Nodes, NEW left, Paste(n) \/ PasteFails(n, left) \/ PasteRaises(n, left)
        PROVE  WorkerHolds'
    BY <1>0, <1>4, HoldsKept DEF Paste, PasteFails, PasteRaises, TaskDone, TypeOK
  <1>5. ASSUME NEW n \in Nodes, \E reached \in SUBSET Bootstrapped[n] : Restart(n, reached)
        PROVE  WorkerHolds'
    BY <1>0, <1>5, HoldsKept DEF Restart, TypeOK
  <1> QED
    BY <1>1, <1>2, <1>3, <1>4, <1>5, TakeHolds, DownloadHolds
    DEF Next, User, Monitor, Worker, Serve, Faults, Environment, UserCopy, Hotkey,
        PollUnchanged, ReadClipboard, Swallow, StoreLocal, StartBroadcast, Post,
        EndBroadcast, TakeNone, Admit, Refuse, Handle, PublishFails, Lose,
        SuppressExpires, ShareLapses, Authorize, Revoke

(* Whatever a worker writes to a desktop clipboard was published, and of a    *)
(* peer's files it is the downloaded copies.                                  *)
THEOREM PasteAttribution == Spec => []PastesPublished
  <1>1. Init => WorkerHolds
    BY DEF Init, WorkerHolds
  <1>2. WorkerHolds => PastesPublished
    BY DEF WorkerHolds, Pasted, PastedFrom, PastesPublished
  <1> QED BY <1>1, <1>2, BasicInvariant, Attribution, StepHolds, PTL DEF Spec

-----------------------------------------------------------------------------
(* Delivery: an entry on its way, or arrived, stays so from step to step.     *)

LEMMA SoundPrimed ==
  ASSUME NEW n \in Nodes, NEW m \in Nodes, NEW e,
         \/ monPc'[n] \in {"store", "broadcast"} /\ outgoing'[n] = e
         \/ monPc'[n] = "post" /\ outgoing'[n] = e /\ m \in targets'[n]
         \/ \E r \in net' : r.from = n /\ r.to = m /\ r.entry = e
         \/ storage'[m][Ip(n)] # NoEntry /\ storage'[m][Ip(n)].timestamp >= e.timestamp
  PROVE  Sound(n, m, e)'
  BY DEF Sound, Underway, Arrived, Ip

(* A step that leaves the author's monitor, its requests and its slot alone.  *)
LEMMA SoundKept ==
  ASSUME NEW n \in Nodes, NEW m \in Nodes, NEW e, Sound(n, m, e),
         monPc'[n] = monPc[n], outgoing'[n] = outgoing[n], targets'[n] = targets[n],
         \A r \in net : r.from = n /\ r.to = m =>
           \E q \in net' : q.from = n /\ q.to = m /\ q.entry = r.entry,
         storage'[m][Ip(n)] = storage[m][Ip(n)]
  PROVE  Sound(n, m, e)'
  BY SoundPrimed DEF Sound, Underway, Arrived

(* What is not in the monitor's hands does not depend on it.                  *)
LEMMA SoundAway ==
  ASSUME NEW n \in Nodes, NEW m \in Nodes, NEW e, Sound(n, m, e),
         monPc[n] \in {"poll", "check"} \/ (monPc[n] = "post" /\ m \notin targets[n]),
         UNCHANGED <<net, storage>>
  PROVE  Sound(n, m, e)'
  BY SoundPrimed DEF Sound, Underway, Arrived

LEMMA LocalSlotApart ==
  ASSUME Basic, NEW k \in Nodes, StoreLocal(k), NEW n \in Nodes, NEW m \in Nodes
  PROVE  storage'[m][Ip(n)] = storage[m][Ip(n)]
  BY DEF StoreLocal, StoreClipboardEntry, Basic, TypeOK, LocalId, Ip, Addrs

LEMMA OwnMonitorSound ==
  ASSUME Basic, NEW n \in Nodes, NEW m \in Nodes, NEW e, n # m, Linked(n, m),
         Sound(n, m, e), Monitor(n)
  PROVE  Sound(n, m, e)'
  <1>0. TypeOK
    BY DEF Basic
  <1>1. CASE PollUnchanged(n)
    BY <1>1, SoundKept DEF PollUnchanged
  <1>2. CASE ReadClipboard(n)
    BY <1>2, SoundAway DEF ReadClipboard
  <1>3. CASE Swallow(n)
    BY <1>3, SoundAway DEF Swallow
  <1>4. CASE \E t \in Stamps : Publish(n, t)
    BY <1>4, SoundAway DEF Publish
  <1>5. CASE StoreLocal(n)
    <2>1. /\ monPc[n] = "store" /\ monPc'[n] = "broadcast"
          /\ outgoing' = outgoing /\ net' = net
      BY <1>0, <1>5 DEF StoreLocal, TypeOK
    <2>2. storage'[m][Ip(n)] = storage[m][Ip(n)]
      BY <1>5, LocalSlotApart
    <2> QED BY <2>1, <2>2, SoundPrimed DEF Sound, Underway, Arrived
  <1>6. CASE StartBroadcast(n)
    <2>1. /\ monPc[n] = "broadcast" /\ monPc'[n] = "post"
          /\ m \in targets'[n] /\ UNCHANGED <<outgoing, net, storage>>
      BY <1>0, <1>6 DEF StartBroadcast, AuthorizedPeers, Linked, TypeOK
    <2> QED BY <2>1, SoundPrimed DEF Sound, Underway, Arrived
  <1>7. CASE \E l \in Nodes : Post(n, l)
    <2>1. PICK l \in Nodes : Post(n, l)
      BY <1>7
    <2> DEFINE new == [from |-> n, to |-> l, entry |-> outgoing[n], admitted |-> FALSE]
    <2>2. /\ monPc[n] = "post" /\ net' = net \cup {new}
          /\ targets'[n] = targets[n] \ {l} /\ UNCHANGED <<monPc, outgoing, storage>>
      BY <1>0, <2>1 DEF Post, TypeOK
    <2>3. CASE outgoing[n] = e /\ l = m
      <3>1. new \in net' /\ new.from = n /\ new.to = m /\ new.entry = e
        BY <2>2, <2>3
      <3> QED BY <3>1, SoundPrimed
    <2>4. CASE ~(outgoing[n] = e /\ l = m)
      <3>1. \A r \in net : r \in net'
        BY <2>2
      <3> QED BY <2>2, <2>4, <3>1, SoundPrimed DEF Sound, Underway, Arrived
    <2> QED BY <2>3, <2>4
  <1>8. CASE EndBroadcast(n)
    BY <1>8, SoundAway DEF EndBroadcast, AllPosted
  <1> QED BY <1>1, <1>2, <1>3, <1>4, <1>5, <1>6, <1>7, <1>8 DEF Monitor

LEMMA OtherMonitorSound ==
  ASSUME Basic, NEW n \in Nodes, NEW m \in Nodes, NEW e, Sound(n, m, e),
         NEW k \in Nodes, k # n, Monitor(k)
  PROVE  Sound(n, m, e)'
  <1>0. TypeOK
    BY DEF Basic
  <1>1. monPc'[n] = monPc[n] /\ outgoing'[n] = outgoing[n] /\ targets'[n] = targets[n]
    BY <1>0 DEF Monitor, PollUnchanged, ReadClipboard, Swallow, Publish, StoreLocal,
                StartBroadcast, Post, EndBroadcast, RoundOver, TypeOK
  <1>2. net \subseteq net'
    BY DEF Monitor, PollUnchanged, ReadClipboard, Swallow, Publish, StoreLocal,
           StartBroadcast, Post, EndBroadcast
  <1>3. storage'[m][Ip(n)] = storage[m][Ip(n)]
    <2>1. CASE StoreLocal(k)
      BY <2>1, LocalSlotApart
    <2>2. CASE ~StoreLocal(k)
      BY <2>2 DEF Monitor, PollUnchanged, ReadClipboard, Swallow, Publish,
                  StartBroadcast, Post, EndBroadcast
    <2> QED BY <2>1, <2>2
  <1> QED BY <1>1, <1>2, <1>3, SoundKept

LEMMA HandleSound ==
  ASSUME Basic, NEW n \in Nodes, NEW m \in Nodes, NEW e \in Entries, Accepts(m, e),
         Sound(n, m, e), NEW r \in net, Handle(r)
  PROVE  Sound(n, m, e)'
  <1>0. TypeOK
    BY DEF Basic
  <1>1. /\ r \in Requests /\ r.to \in Nodes /\ r.from \in Nodes
        /\ Ip(r.from) \in Addrs /\ Ip(n) \in Addrs
        /\ Received(r) \in Entries /\ Received(r).clip = r.entry.clip
        /\ Received(r).timestamp = r.entry.timestamp
    BY <1>0, ReceivedType DEF TypeOK, Requests, Ip, Addrs
  <1>2. /\ StoreClipboardEntry(r.to, Ip(r.from), Received(r))
        /\ net' = net \ {r}
        /\ UNCHANGED <<monPc, outgoing, targets>>
    BY DEF Handle, Key
  <1>3. \A k, l \in Nodes : storage[k][Ip(l)] # NoEntry => storage[k][Ip(l)] \in Entries
    BY <1>0 DEF TypeOK, Ip, Addrs
  <1>4. \A x \in Entries : x.timestamp \in Nat
    BY DEF Entries, Stamps
  <1>5. CASE ~(r.from = n /\ r.to = m)
    <2>1. storage'[m][Ip(n)] = storage[m][Ip(n)]
      BY <1>0, <1>1, <1>2, <1>5 DEF StoreClipboardEntry, TypeOK, Ip
    <2>2. \A q \in net : q.from = n /\ q.to = m => q \in net'
      BY <1>2, <1>5
    <2> QED BY <1>2, <2>1, <2>2, SoundKept
  <1>6. CASE r.from = n /\ r.to = m
    <2>1. storage'[m][Ip(n)] = IF Accepts(m, Received(r)) /\ Replaces(m, Ip(n), Received(r))
                               THEN Received(r) ELSE storage[m][Ip(n)]
      BY <1>0, <1>1, <1>2, <1>6 DEF StoreClipboardEntry, TypeOK
    <2>2. Arrived(n, m, e) =>
            storage'[m][Ip(n)] # NoEntry /\ storage'[m][Ip(n)].timestamp >= e.timestamp
      BY <1>1, <1>3, <1>4, <2>1 DEF Arrived, Replaces
    <2>3. r.entry = e =>
            storage'[m][Ip(n)] # NoEntry /\ storage'[m][Ip(n)].timestamp >= e.timestamp
      <3> SUFFICES ASSUME r.entry = e
                   PROVE  /\ storage'[m][Ip(n)] # NoEntry
                          /\ storage'[m][Ip(n)].timestamp >= e.timestamp
        OBVIOUS
      <3>1. Accepts(m, Received(r)) /\ Received(r).timestamp = e.timestamp
        BY <1>1 DEF Accepts
      <3>2. CASE Replaces(m, Ip(n), Received(r))
        BY <1>1, <1>4, <2>1, <3>1, <3>2
      <3>3. CASE ~Replaces(m, Ip(n), Received(r))
        BY <1>1, <1>3, <1>4, <2>1, <3>1, <3>3 DEF Replaces
      <3> QED BY <3>2, <3>3
    <2>4. CASE r.entry = e \/ Arrived(n, m, e)
      BY <2>2, <2>3, <2>4, SoundPrimed
    <2>5. CASE r.entry # e /\ ~Arrived(n, m, e)
      <3>1. \A q \in net : q.entry = e => q \in net'
        BY <1>2, <2>5
      <3> QED BY <1>2, <2>5, <3>1, SoundPrimed DEF Sound, Underway
    <2> QED BY <2>4, <2>5
  <1> QED BY <1>5, <1>6

LEMMA ServeSound ==
  ASSUME Basic, NEW n \in Nodes, NEW m \in Nodes, NEW e \in Entries, Accepts(m, e),
         Linked(n, m), Sound(n, m, e), NEW r \in net, Admit(r) \/ Refuse(r) \/ Handle(r)
  PROVE  Sound(n, m, e)'
  <1>1. CASE Admit(r)
    <2>1. /\ UNCHANGED <<monPc, outgoing, targets, storage>>
          /\ net' = (net \ {r}) \cup {[r EXCEPT !.admitted = TRUE]}
          /\ r \in Requests
      BY <1>1 DEF Admit, Basic, TypeOK
    <2>2. [r EXCEPT !.admitted = TRUE].from = r.from /\ [r EXCEPT !.admitted = TRUE].to = r.to
          /\ [r EXCEPT !.admitted = TRUE].entry = r.entry
      BY <2>1 DEF Requests
    <2>3. \A q \in net : \E p \in net' : p.from = q.from /\ p.to = q.to /\ p.entry = q.entry
      BY <2>1, <2>2
    <2> QED BY <2>1, <2>3, SoundKept
  <1>2. CASE Refuse(r)
    <2>1. /\ UNCHANGED <<monPc, outgoing, targets, storage>>
          /\ net' = net \ {r} /\ ~(r.from = n /\ r.to = m)
      BY <1>2 DEF Refuse, KnownPeer, Linked
    <2> QED BY <2>1, SoundKept
  <1>3. CASE Handle(r)
    BY <1>3, HandleSound
  <1> QED BY <1>1, <1>2, <1>3

LEMMA FaultsInterrupt ==
  ASSUME Basic, NEW n \in Nodes, Faults(n)
  PROVE  Interrupted
  <1>1. Spend("fault") \/ Spend("restart")
    BY DEF Faults, PublishFails, DownloadFails, PasteFails, PasteRaises, Lose, Restart
  <1>2. \A kind \in {"fault", "restart"} : Spend(kind) => budget'[kind] # budget[kind]
    BY DEF Spend, Basic, TypeOK, External
  <1> QED BY <1>1, <1>2 DEF Interrupted

LEMMA StepSound ==
  ASSUME Basic, [Next]_vars, NEW n \in Nodes, NEW m \in Nodes, NEW e \in published,
         n # m, Linked(n, m), Accepts(m, e), Sound(n, m, e)
  PROVE  Sound(n, m, e)' \/ Interrupted
  <1>0. TypeOK /\ e \in Entries
    BY DEF Basic, TypeOK
  <1>1. CASE UNCHANGED <<monVars, net, storage>>
    BY <1>1, SoundKept
  <1>2. ASSUME NEW k \in Nodes, Monitor(k) PROVE Sound(n, m, e)'
    BY <1>2, OwnMonitorSound, OtherMonitorSound
  <1>3. ASSUME NEW r \in net, Admit(r) \/ Refuse(r) \/ Handle(r) PROVE Sound(n, m, e)'
    BY <1>0, <1>3, ServeSound
  <1>4. ASSUME NEW k \in Nodes, Faults(k) PROVE Interrupted
    BY <1>4, FaultsInterrupt
  <1> QED
    BY <1>1, <1>2, <1>3, <1>4
    DEF Next, User, Worker, Serve, Environment, UserCopy, Hotkey, TakeNone, Take, Download,
        DownloadRefused, Paste, Mark, SuppressExpires, ShareLapses, Authorize, Revoke

(* An entry on its way to a linked machine stays on its way until it arrives, *)
(* and then stays there, unless the link goes, a step fails or a process      *)
(* restarts: the safety half of EventualDelivery, with faults.                *)
THEOREM NothingGetsLost == Spec => NothingSlips
  <1>1. Basic /\ [Next]_vars =>
          [\A n, m \in Nodes : \A e \in published :
             n # m /\ Linked(n, m) /\ Accepts(m, e) /\ Sound(n, m, e) =>
               Sound(n, m, e)' \/ ~Linked(n, m)' \/ Interrupted]_vars
    BY StepSound
  <1> QED BY <1>1, BasicInvariant, PTL DEF Spec, NothingSlips
=============================================================================
