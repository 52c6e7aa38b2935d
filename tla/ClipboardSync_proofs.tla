------------------------ MODULE ClipboardSync_proofs ------------------------
(* Theorems about ClipboardSync, for every number of nodes and every value of *)
(* the bounds.                                                                *)
EXTENDS ClipboardSync, SequenceTheorems, TLAPS

(* What the thread positions say of the values the threads hold. *)
MonitorOK == \A n \in Nodes :
  /\ monPc[n] = "check" => polled[n] \in Clips
  /\ monPc[n] \in {"store", "broadcast", "post"} =>
       outgoing[n] \in published /\ outgoing[n].origin = LocalId(n)

WorkerOK == \A n \in Nodes :
  /\ workerPc[n] = "fetch" => pasting[n] \in Entries /\ pasting[n].clip.type = "files"
  /\ workerPc[n] = "paste" => pasting[n] \in Entries

(* No machine is its own peer, so none posts to itself. *)
LinksOK ==
  /\ \A n \in Nodes : peers[n][n] # "authorized" /\ n \notin targets[n]
  /\ \A r \in net : r.from # r.to

Basic == TypeOK /\ MonitorOK /\ WorkerOK /\ LinksOK

LEMMA InitBasic == Init => Basic
  BY ConstantsOK DEF Init, Basic, TypeOK, MonitorOK, WorkerOK, LinksOK, PeersAtStart,
     External, Entries

LEMMA NewestType == ASSUME TypeOK, NEW n \in Nodes
                    PROVE  Newest(n) \subseteq Entries \cup {NoEntry}
  BY DEF TypeOK, Newest, Stored

USE ConstantsOK DEF vars, monVars, workVars

LEMMA UserBasic == ASSUME Basic, NEW n \in Nodes, User(n) PROVE Basic'
  <1> USE DEF Basic
  <1>1. CASE \E c \in Clips : UserCopy(n, c)
    BY <1>1 DEF UserCopy, Spend, TypeOK, MonitorOK, WorkerOK, LinksOK, External
  <1>2. CASE \E e \in Newest(n) : Hotkey(n, e)
    <2>1. PICK e \in Newest(n) : Hotkey(n, e)
      BY <1>2
    <2>2. e \in Entries \cup {NoEntry}
      BY NewestType
    <2>3. pasteQueue' \in [Nodes -> Seq(Entries \cup {NoEntry})]
      BY <2>1, <2>2 DEF Hotkey, TypeOK
    <2> QED BY <2>1, <2>3, SMTT(30) DEF Hotkey, Spend, TypeOK, MonitorOK, WorkerOK, LinksOK,
                                        External
  <1> QED BY <1>1, <1>2 DEF User

LEMMA MonitorBasic == ASSUME Basic, NEW n \in Nodes, Monitor(n) PROVE Basic'
  <1> USE DEF Basic, TypeOK, MonitorOK, WorkerOK, LinksOK
  <1>1. CASE PollUnchanged(n)
    BY <1>1 DEF PollUnchanged
  <1>2. CASE ReadClipboard(n)
    <2>1. Look(n) \in Clips
      BY <1>2 DEF ReadClipboard, Look
    <2> QED BY <1>2, <2>1 DEF ReadClipboard
  <1>3. CASE Swallow(n)
    BY <1>3 DEF Swallow, RoundOver, Noted
  <1>4. CASE \E t \in Stamps : Publish(n, t)
    BY <1>4 DEF Publish, Noted, Registered, Entries, Addrs, LocalId, Clips
  <1>5. CASE StoreLocal(n)
    BY <1>5 DEF StoreLocal, StoreClipboardEntry, Entries, Addrs, LocalId
  <1>6. CASE StartBroadcast(n)
    BY <1>6 DEF StartBroadcast, AuthorizedPeers
  <1>7. CASE \E m \in Nodes : Post(n, m)
    <2>1. PICK m \in Nodes : Post(n, m)
      BY <1>7
    <2>2. m # n /\ outgoing[n] \in Entries
      BY <2>1 DEF Post
    <2> DEFINE new == [from |-> n, to |-> m, entry |-> outgoing[n], admitted |-> FALSE]
    <2>3. new \in Requests /\ new.from # new.to
      BY <2>2 DEF Requests
    <2>4. net' = net \cup {new}
      BY <2>1 DEF Post
    <2> HIDE DEF new
    <2>5. net' \subseteq Requests /\ \A r \in net' : r.from # r.to
      BY <2>3, <2>4
    <2> QED BY <2>1, <2>5 DEF Post
  <1>8. CASE EndBroadcast(n)
    BY <1>8 DEF EndBroadcast, RoundOver
  <1> QED BY <1>1, <1>2, <1>3, <1>4, <1>5, <1>6, <1>7, <1>8 DEF Monitor

LEMMA DownloadedType == ASSUME NEW e \in Entries, e.clip.type = "files"
                        PROVE  /\ Downloaded(e) \in Entries
                               /\ Downloaded(e).origin = e.origin
  <1>1. e.clip \in Clips /\ e.clip.value \in Paths
    BY DEF Entries, Clips
  <1>2. TempCopy[e.clip.value] \in Paths
    BY <1>1
  <1>3. [e.clip EXCEPT !.value = TempCopy[e.clip.value]] \in Clips
    BY <1>1, <1>2 DEF Clips
  <1>4. Downloaded(e) = [e EXCEPT !.clip = [e.clip EXCEPT !.value = TempCopy[e.clip.value]]]
    BY DEF Downloaded
  <1> QED BY <1>3, <1>4 DEF Entries

LEMMA WorkerBasic == ASSUME Basic, NEW n \in Nodes, Worker(n) PROVE Basic'
  <1> USE DEF Basic, TypeOK, MonitorOK, WorkerOK, LinksOK
  <1>1. CASE TakeNone(n)
    BY <1>1 DEF TakeNone
  <1>2. CASE Take(n)
    <2>1. Head(pasteQueue[n]) \in Entries /\ Tail(pasteQueue[n]) \in Seq(Entries \cup {NoEntry})
      BY <1>2 DEF Take
    <2> QED BY <1>2, <2>1 DEF Take, NeedsDownload
  <1>3. CASE Download(n)
    <2>1. Downloaded(pasting[n]) \in Entries
      BY <1>3, DownloadedType DEF Download
    <2> QED BY <1>3, <2>1 DEF Download
  <1>4. CASE DownloadRefused(n)
    BY <1>4 DEF DownloadRefused, TaskDone
  <1>5. CASE Paste(n)
    <2>1. pasting[n].clip \in Clips
      BY <1>5 DEF Paste, Entries
    <2> QED BY <1>5, <2>1 DEF Paste
  <1>6. CASE Mark(n)
    BY <1>6 DEF Mark, TaskDone
  <1> QED BY <1>1, <1>2, <1>3, <1>4, <1>5, <1>6 DEF Worker

LEMMA ReceivedType == ASSUME NEW r \in Requests
                      PROVE  /\ Received(r) \in Entries
                             /\ Received(r).origin = Ip(r.from)
                             /\ Received(r).clip = r.entry.clip
                             /\ Received(r).timestamp = r.entry.timestamp
  BY DEF Received, Requests, Entries, Addrs, Ip

LEMMA ServeBasic == ASSUME Basic, NEW n \in Nodes, NEW m \in Nodes, Serve(n, m) PROVE Basic'
  <1> USE DEF Basic, TypeOK, MonitorOK, WorkerOK, LinksOK
  <1>1. PICK r \in net : Admit(r) \/ Refuse(r) \/ Handle(r)
    BY DEF Serve
  <1>2. r \in Requests /\ r.from \in Nodes /\ r.to \in Nodes /\ r.from # r.to
    BY DEF Requests
  <1>3. CASE Admit(r)
    <2>1. [r EXCEPT !.admitted = TRUE] \in Requests
      BY <1>2 DEF Requests
    <2>2. [r EXCEPT !.admitted = TRUE].from # [r EXCEPT !.admitted = TRUE].to
      BY <1>2 DEF Requests
    <2>3. net' \subseteq Requests /\ \A q \in net' : q.from # q.to
      BY <1>3, <2>1, <2>2 DEF Admit
    <2> QED BY <1>3, <2>3 DEF Admit
  <1>4. CASE Refuse(r)
    BY <1>4 DEF Refuse
  <1>5. CASE Handle(r)
    <2>1. Received(r) \in Entries /\ Key(r) \in Addrs
      BY <1>2, ReceivedType DEF Key, Addrs, Ip
    <2>2. storage' \in [Nodes -> [Addrs -> Entries \cup {NoEntry}]]
      BY <1>5, <1>2, <2>1 DEF Handle, StoreClipboardEntry
    <2>3. pasteQueue' \in [Nodes -> Seq(Entries \cup {NoEntry})]
      BY <1>5, <1>2, <2>1 DEF Handle, StoreClipboardEntry
    <2> QED BY <1>5, <2>2, <2>3 DEF Handle
  <1> QED BY <1>1, <1>3, <1>4, <1>5

LEMMA FaultsBasic == ASSUME Basic, NEW n \in Nodes, Faults(n) PROVE Basic'
  <1> USE DEF Basic, TypeOK, MonitorOK, WorkerOK, LinksOK, Spend, External
  <1>1. CASE PublishFails(n)
    BY <1>1 DEF PublishFails, RoundOver
  <1>2. CASE DownloadFails(n)
    BY <1>2 DEF DownloadFails, TaskDone
  <1>3. CASE \E left \in {clipboard[n], Empty} : PasteFails(n, left)
    BY <1>3 DEF PasteFails
  <1>4. CASE \E left \in Clips \cup {Empty} : PasteRaises(n, left)
    BY <1>4 DEF PasteRaises, TaskDone
  <1>5. CASE \E r \in net : r.to = n /\ Lose(r)
    BY <1>5 DEF Lose
  <1>6. CASE \E reached \in SUBSET Bootstrapped[n] : Restart(n, reached)
    <2>1. PICK reached \in SUBSET Bootstrapped[n] : Restart(n, reached)
      BY <1>6
    <2>2. peers' \in [Nodes -> [Nodes -> {"unknown", "authorized", "revoked"}]]
      BY <2>1 DEF Restart, PeersAtStart
    <2>3. allowlist' \in [Nodes -> [Paths -> {"never", "allowed", "lapsed"}]]
      BY <2>1 DEF Restart
    <2>4. storage' \in [Nodes -> [Addrs -> Entries \cup {NoEntry}]]
      BY <2>1 DEF Restart
    <2>5. \A k \in Nodes : peers'[k][k] # "authorized" /\ k \notin targets'[k]
      BY <2>1 DEF Restart, PeersAtStart
    <2>6. pasteQueue' \in [Nodes -> Seq(Entries \cup {NoEntry})]
      BY <2>1 DEF Restart
    <2>7. budget' \in [External -> Nat] /\ net' \subseteq net
      BY <2>1 DEF Restart
    <2>8. MonitorOK' /\ WorkerOK'
      BY <2>1, SMTT(30) DEF Restart
    <2>9. TypeOK'
      BY <2>1, <2>2, <2>3, <2>4, <2>6, <2>7, SMTT(30) DEF Restart
    <2> QED BY <2>5, <2>7, <2>8, <2>9
  <1> QED BY <1>1, <1>2, <1>3, <1>4, <1>5, <1>6 DEF Faults

LEMMA EnvironmentBasic == ASSUME Basic, NEW n \in Nodes, Environment(n) PROVE Basic'
  <1> USE DEF Basic, TypeOK, MonitorOK, WorkerOK, LinksOK, Spend, External
  <1>1. CASE SuppressExpires(n)
    BY <1>1 DEF SuppressExpires
  <1>2. CASE \E p \in Paths : ShareLapses(n, p)
    BY <1>2 DEF ShareLapses
  <1>3. CASE \E m \in Nodes : Authorize(n, m)
    BY <1>3, SMTT(30) DEF Authorize
  <1>4. CASE \E m \in Nodes : Revoke(n, m)
    BY <1>4, SMTT(30) DEF Revoke
  <1> QED BY <1>1, <1>2, <1>3, <1>4 DEF Environment

LEMMA StepBasic == Basic /\ [Next]_vars => Basic'
  <1> SUFFICES ASSUME Basic, [Next]_vars PROVE Basic'
    OBVIOUS
  <1>1. CASE UNCHANGED vars
    BY <1>1 DEF Basic, TypeOK, MonitorOK, WorkerOK, LinksOK
  <1>2. CASE Next
    BY <1>2, UserBasic, MonitorBasic, WorkerBasic, ServeBasic, FaultsBasic, EnvironmentBasic
       DEF Next
  <1> QED BY <1>1, <1>2

(* Every variable keeps its type, and the threads hold what their positions   *)
(* say, for any number of machines and any bounds.                            *)
THEOREM BasicInvariant == Spec => []Basic
  BY InitBasic, StepBasic, PTL DEF Spec

(* Type correctness: TypeOK, which the runs check on two machines.            *)
THEOREM TypeCorrect == Spec => []TypeOK
  <1>1. Basic => TypeOK
    BY DEF Basic
  <1> QED BY <1>1, BasicInvariant, PTL
=============================================================================
