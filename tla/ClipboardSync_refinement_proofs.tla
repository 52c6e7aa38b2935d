------------------- MODULE ClipboardSync_refinement_proofs -------------------
(* ClipboardSync implements LatestStore: every step of the system, seen       *)
(* through the mapping of ClipboardSync!Latest, publishes, adopts an item     *)
(* that is not older, forgets everything at one node, or changes nothing.     *)
EXTENDS ClipboardSync_safety_proofs

ItemsOf(pub, a) == {Item(e) : e \in {x \in pub : x.origin = LocalId(a)}}
Authored == [a \in Nodes |-> ItemsOf(published, a)]
Kept(e) == IF e = NoEntry THEN NoEntry ELSE Item(e)
Held == [n \in Nodes |-> [a \in Nodes |-> Kept(Slot(n, a))]]

LEMMA Mapping == Latest!vars = <<Authored, Held>>
  BY DEF Latest!vars, Authored, Held, ItemsOf, Kept

LEMMA AddrsDiffer ==
  ASSUME NEW n \in Nodes, NEW m \in Nodes
  PROVE  /\ LocalId(n) \in Addrs /\ Ip(n) \in Addrs /\ LocalId(n) # Ip(m)
         /\ LocalId(n) = LocalId(m) => n = m
         /\ Ip(n) = Ip(m) => n = m
  BY DEF LocalId, Ip, Addrs

LEMMA ItemType == ASSUME NEW e \in Entries
                  PROVE  Item(e) \in Latest!Items /\ Item(e).timestamp = e.timestamp
  BY DEF Item, Latest!Items, Entries

USE ConstantsOK DEF vars, monVars, workVars

LEMMA InitMaps == Init => Latest!Init
  <1> SUFFICES ASSUME Init PROVE Latest!Init
    OBVIOUS
  <1>1. \A n, a \in Nodes : Slot(n, a) = NoEntry
    BY AddrsDiffer DEF Init, Slot
  <1> QED BY <1>1 DEF Init, Latest!Init

(* Steps that change neither what is published nor what is stored. *)
LEMMA StutterMaps == ASSUME UNCHANGED <<published, storage>> PROVE UNCHANGED Latest!vars
  BY Mapping DEF Latest!vars, Slot

(* A new publication of n. *)
LEMMA PublishMaps ==
  ASSUME Basic, NEW n \in Nodes, NEW t \in Stamps, Publish(n, t)
  PROVE  \E i \in Latest!Items : Latest!Author(n, i)
  <1> DEFINE e == [origin |-> LocalId(n), clip |-> polled[n], timestamp |-> t]
  <1>1. e \in Entries /\ e.origin = LocalId(n)
    BY AddrsDiffer DEF Entries, Publish, Basic, MonitorOK
  <1>2. published' = published \cup {e} /\ UNCHANGED storage
    BY DEF Publish
  <1> HIDE DEF e
  <1>3. ItemsOf(published', n) = ItemsOf(published, n) \cup {Item(e)}
    BY <1>1, <1>2 DEF ItemsOf
  <1>4. \A a \in Nodes : a # n => ItemsOf(published', a) = ItemsOf(published, a)
    BY <1>1, <1>2, AddrsDiffer DEF ItemsOf
  <1>5. [a \in Nodes |-> ItemsOf(published', a)]
          = [Authored EXCEPT ![n] = @ \cup {Item(e)}]
    BY <1>3, <1>4 DEF Authored
  <1>6. UNCHANGED Held
    BY <1>2 DEF Held, Slot
  <1>7. Latest!Author(n, Item(e))
    BY <1>5, <1>6 DEF Latest!Author, Authored, ItemsOf, Held, Kept
  <1> QED BY <1>1, <1>7, ItemType DEF Latest!Author

(* An entry stored at n in the slot of author a. *)
LEMMA StoreMaps ==
  ASSUME Basic, NEW n \in Nodes, NEW a \in Nodes, NEW e \in Entries,
         UNCHANGED published, Item(e) \in ItemsOf(published, a),
         NEW addr \in Addrs, addr = IF n = a THEN LocalId(n) ELSE Ip(a),
         StoreClipboardEntry(n, addr, e)
  PROVE  Latest!Adopt(n, a, Item(e)) \/ UNCHANGED Latest!vars
  <1>0. storage \in [Nodes -> [Addrs -> Entries \cup {NoEntry}]]
    BY DEF Basic, TypeOK
  <1>1. CASE storage' = storage
    BY <1>1, StutterMaps
  <1>2. CASE Replaces(n, addr, e) /\ storage' = [storage EXCEPT ![n][addr] = e]
    <2>1. Slot(n, a) = storage[n][addr]
      BY DEF Slot
    <2>2. \A k, b \in Nodes :
            Slot(k, b)' = IF k = n /\ b = a THEN e ELSE Slot(k, b)
      BY <1>0, <1>2, AddrsDiffer DEF Slot
    <2>3. Kept(e) = Item(e)
      BY DEF Kept
    <2>4. Held' = [Held EXCEPT ![n][a] = Item(e)]
      BY <2>2, <2>3 DEF Held
    <2>5. Held[n][a] = NoEntry \/ Item(e).timestamp >= Held[n][a].timestamp
      BY <1>0, <1>2, <2>1, ItemType DEF Held, Kept, Replaces
    <2>6. Item(e) \in Authored[a] /\ UNCHANGED Authored
      BY DEF Authored, ItemsOf
    <2> QED BY <2>4, <2>5, <2>6 DEF Latest!Adopt, Latest!NotOlder, Authored, ItemsOf, Held, Kept
  <1> QED BY <1>1, <1>2 DEF StoreClipboardEntry

LEMMA StoreLocalMaps ==
  ASSUME Basic, NEW n \in Nodes, StoreLocal(n)
  PROVE  \/ \E i \in Latest!Items : Latest!Adopt(n, n, i)
         \/ UNCHANGED Latest!vars
  <1>1. /\ outgoing[n] \in Entries
        /\ outgoing[n] \in published
        /\ outgoing[n].origin = LocalId(n)
    BY DEF StoreLocal, Basic, MonitorOK, TypeOK
  <1>2. Item(outgoing[n]) \in ItemsOf(published, n)
    BY <1>1 DEF ItemsOf
  <1>3. UNCHANGED published /\ StoreClipboardEntry(n, LocalId(n), outgoing[n])
    BY DEF StoreLocal
  <1> QED BY <1>1, <1>2, <1>3, StoreMaps, AddrsDiffer, ItemType

LEMMA HandleMaps ==
  ASSUME Basic, AuthenticCopies, NEW r \in net, Handle(r)
  PROVE  \/ \E i \in Latest!Items : Latest!Adopt(r.to, r.from, i)
         \/ UNCHANGED Latest!vars
  <1>1. /\ r \in Requests /\ r.from \in Nodes /\ r.to \in Nodes /\ r.from # r.to
        /\ r.entry \in published /\ r.entry.origin = LocalId(r.from)
    BY DEF Basic, TypeOK, LinksOK, Requests, AuthenticCopies
  <1>2. Received(r) \in Entries /\ Item(Received(r)) = Item(r.entry)
    BY <1>1, ReceivedType DEF Item
  <1>3. Item(Received(r)) \in ItemsOf(published, r.from)
    BY <1>1, <1>2 DEF ItemsOf
  <1>4. UNCHANGED published /\ StoreClipboardEntry(r.to, Ip(r.from), Received(r))
    BY DEF Handle, Key
  <1> QED BY <1>1, <1>2, <1>3, <1>4, StoreMaps, AddrsDiffer, ItemType

LEMMA RestartMaps ==
  ASSUME Basic, NEW n \in Nodes, \E reached \in SUBSET Bootstrapped[n] : Restart(n, reached)
  PROVE  Latest!Forget(n)
  <1>1. UNCHANGED published /\ storage' = [storage EXCEPT ![n] = [a \in Addrs |-> NoEntry]]
    BY DEF Restart
  <1>2. \A k, b \in Nodes : Slot(k, b)' = IF k = n THEN NoEntry ELSE Slot(k, b)
    BY <1>1, AddrsDiffer DEF Slot, Basic, TypeOK
  <1>3. Held' = [Held EXCEPT ![n] = [a \in Nodes |-> NoEntry]]
    BY <1>2 DEF Held, Kept
  <1> QED BY <1>1, <1>3 DEF Latest!Forget, Held, Kept

LEMMA StepMaps == Basic /\ AuthenticCopies /\ [Next]_vars => [Latest!Next]_(Latest!vars)
  <1> SUFFICES ASSUME Basic, AuthenticCopies, [Next]_vars
               PROVE  Latest!Next \/ UNCHANGED Latest!vars
    OBVIOUS
  <1>1. CASE UNCHANGED <<published, storage>>
    BY <1>1, StutterMaps
  <1>2. ASSUME NEW n \in Nodes, \E t \in Stamps : Publish(n, t) PROVE Latest!Next
    BY <1>2, PublishMaps DEF Latest!Next
  <1>3. ASSUME NEW n \in Nodes, StoreLocal(n) PROVE Latest!Next \/ UNCHANGED Latest!vars
    BY <1>3, StoreLocalMaps DEF Latest!Next
  <1>4. ASSUME NEW r \in net, Handle(r) PROVE Latest!Next \/ UNCHANGED Latest!vars
    <2>1. r.from \in Nodes /\ r.to \in Nodes
      BY DEF Basic, TypeOK, Requests
    <2> QED BY <1>4, <2>1, HandleMaps DEF Latest!Next
  <1>5. ASSUME NEW n \in Nodes, \E reached \in SUBSET Bootstrapped[n] : Restart(n, reached)
        PROVE  Latest!Next
    BY <1>5, RestartMaps DEF Latest!Next
  <1> QED
    BY <1>1, <1>2, <1>3, <1>4, <1>5
    DEF Next, User, Monitor, Worker, Serve, Faults, Environment, UserCopy, Hotkey,
        PollUnchanged, ReadClipboard, Swallow, StartBroadcast, Post, EndBroadcast,
        TakeNone, Take, Download, DownloadRefused, Paste, Mark, Admit, Refuse,
        PublishFails, DownloadFails, PasteFails, PasteRaises, Lose, SuppressExpires,
        ShareLapses, Authorize, Revoke

(* The stores of the whole system implement last-writer-wins registers per    *)
(* author, through any reordering, loss, restart and change of peers.         *)
THEOREM Refinement == Spec => ImplementsLatestStore
  BY InitMaps, StepMaps, BasicInvariant, Attribution, PTL
  DEF Spec, ImplementsLatestStore, Latest!Spec
=============================================================================
