------------------------ MODULE FileTransfer_proofs ------------------------
(* The types of FileTransfer, that encrypted copies are private to their      *)
(* response and never forgotten, and that workers paste what was listed, for  *)
(* any number of clients, files and copies.                                   *)
EXTENDS FileTransfer, SequenceTheorems, TLAPS

USE TransferOK DEF Machines, Locks, Saved, External

(* What a position of the worker says of its list. *)
Progress == \A c \in Clients :
  /\ pc[c] = "idle" => got[c] = <<>>
  /\ Len(got[c]) <= Len(list[c])

Typed == TypeOK /\ Progress

LEMMA Ranges == /\ \A l \in Lists : l \in Seq(Paths) /\ Len(l) > 0
                /\ <<>> \in Seq(Saved) /\ Len(<<>>) = 0
                /\ <<>> \in Seq(Chunk)
                /\ NoKey \in Locks
                /\ Parts = 2
  BY DEF Parts

LEMMA InitTyped == Init => Typed
  <1> SUFFICES ASSUME Init PROVE Typed
    OBVIOUS
  <1>1. PICK case \in Cases : key = case.key /\ budget = case.budget
    BY DEF Init
  <1>2. key \in [Machines -> Locks] /\ budget \in [External -> Nat]
    BY <1>1
  <1>3. dir \in [Clients -> [Saved -> Seq(Chunk)]]
    BY Ranges DEF Init
  <1>4. \A c \in Clients : \A n \in Saved : Len(dir[c][n]) <= Parts
    BY Ranges DEF Init
  <1>5. Unedited \in [Paths -> Nat] /\ since \in [Clients -> [Paths -> Nat]]
    BY DEF Init, Unedited
  <1> QED BY <1>2, <1>3, <1>4, <1>5, Ranges DEF Init, Typed, TypeOK, Progress

LEMMA SpendType ==
  ASSUME Typed, NEW kind \in External, Spend(kind)
  PROVE  budget' \in [External -> Nat]
  BY DEF Spend, Typed, TypeOK

LEMMA CurrentType ==
  ASSUME Typed, NEW c \in Clients, pc[c] \in {"ask", "wait", "body"}
  PROVE  Current(c) \in Paths
  <1>1. list[c] \in Lists \/ list[c] = <<>>
    BY DEF Typed, TypeOK
  <1>2. Len(got[c]) \in Nat /\ Len(got[c]) < Len(list[c])
    BY DEF Typed, TypeOK
  <1>3. list[c] \in Seq(Paths) /\ Len(got[c]) + 1 \in 1..Len(list[c])
    BY <1>1, <1>2, Ranges
  <1> QED BY <1>3 DEF Current

LEMMA StreamType ==
  ASSUME Typed, NEW c \in Clients, stream[c] # NoStream
  PROVE  /\ stream[c] \in Stream
         /\ stream[c].path \in Paths /\ stream[c].made \in Nat
         /\ SavedAs(c) \in Saved
         /\ stream[c].temp # NoTemp => stream[c].temp \in Temps /\ CopyOf(c) = {stream[c].temp}
         /\ stream[c].temp = NoTemp => CopyOf(c) = {}
         /\ CopyOf(c) \subseteq Temps
  BY DEF Typed, TypeOK, Stream, SavedAs, CopyOf

(* The steps of a client that leave types alone are few: what it writes.      *)
LEMMA ReceiveTyped ==
  ASSUME Typed, NEW c \in Clients, Receive(c)
  PROVE  Typed'
  <1>1. /\ stream[c] \in Stream /\ SavedAs(c) \in Saved /\ stream[c].path \in Paths
        /\ stream[c].temp # NoTemp => stream[c].temp \in Temps
    BY StreamType DEF Receive
  <1>2. NextChunk(c) \in Chunk
    BY <1>1, Ranges DEF Receive, NextChunk, Typed, TypeOK, Chunk, Copy
  <1> DEFINE had == dir[c][SavedAs(c)]
  <1>3. had \in Seq(Chunk) /\ Len(had) < Parts /\ Len(had) \in Nat
    BY <1>1 DEF Receive, Typed, TypeOK
  <1>4. Append(had, NextChunk(c)) \in Seq(Chunk) /\ Len(Append(had, NextChunk(c))) = Len(had) + 1
    BY <1>2, <1>3
  <1>5. dir' = [dir EXCEPT ![c][SavedAs(c)] = Append(had, NextChunk(c))]
    BY DEF Receive
  <1>6. dir' \in [Clients -> [Saved -> Seq(Chunk)]]
    BY <1>1, <1>4, <1>5 DEF Typed, TypeOK
  <1>7. \A d \in Clients : \A n \in Saved : Len(dir'[d][n]) <= Parts
    BY <1>1, <1>3, <1>4, <1>5, Ranges DEF Typed, TypeOK
  <1> QED BY <1>6, <1>7 DEF Receive, Typed, TypeOK, Progress, fileVars, originVars,
                            serverVars

LEMMA NextFileTyped ==
  ASSUME Typed, NEW c \in Clients, pc[c] = "body", NEW name \in Saved,
         NextFile(c, name), UNCHANGED list
  PROVE  /\ pc' \in [Clients -> {"idle", "ask", "wait", "body", "paste"}]
         /\ got' \in [Clients -> Seq(Saved)]
         /\ \A d \in Clients :
              pc'[d] \in {"ask", "wait", "body"} => Len(got'[d]) < Len(list'[d])
         /\ Progress'
  <1>1. got[c] \in Seq(Saved) /\ Len(got[c]) \in Nat /\ Len(got[c]) < Len(list[c])
        /\ Len(list[c]) \in Nat
    BY Ranges DEF Typed, TypeOK
  <1>2. Append(got[c], name) \in Seq(Saved) /\ Len(Append(got[c], name)) = Len(got[c]) + 1
    BY <1>1
  <1>3. \A d \in Clients : got'[d] = IF d = c THEN Append(got[c], name) ELSE got[d]
    BY DEF NextFile, Typed, TypeOK
  <1>4. \A d \in Clients : pc'[d] = IF d = c THEN (IF LastFile(c) THEN "paste" ELSE "ask")
                                             ELSE pc[d]
    BY DEF NextFile, Typed, TypeOK
  <1>5. pc' \in [Clients -> {"idle", "ask", "wait", "body", "paste"}]
        /\ got' \in [Clients -> Seq(Saved)]
    BY <1>2 DEF NextFile, Typed, TypeOK
  <1>6. /\ Len(got'[c]) = Len(got[c]) + 1 /\ got'[c] # <<>>
        /\ list'[c] = list[c]
        /\ pc'[c] = IF Len(got[c]) + 1 = Len(list[c]) THEN "paste" ELSE "ask"
    <2>1. got'[c] = Append(got[c], name) /\ list'[c] = list[c]
      BY <1>3
    <2>2. Len(got'[c]) = Len(got[c]) + 1
      BY <1>2, <2>1
    <2>3. got'[c] # <<>>
      BY <1>1, <2>2, Ranges
    <2>4. pc'[c] = IF Len(got[c]) + 1 = Len(list[c]) THEN "paste" ELSE "ask"
      BY <1>4 DEF LastFile
    <2> QED BY <2>1, <2>2, <2>3, <2>4
  <1>7. \A d \in Clients :
          pc'[d] \in {"ask", "wait", "body"} => Len(got'[d]) < Len(list'[d])
    <2> SUFFICES ASSUME NEW d \in Clients, pc'[d] \in {"ask", "wait", "body"}
                 PROVE  Len(got'[d]) < Len(list'[d])
      OBVIOUS
    <2>1. CASE d = c
      BY <1>1, <1>6, <2>1
    <2>2. CASE d # c
      BY <1>3, <1>4, <2>2 DEF Typed, TypeOK
    <2> QED BY <2>1, <2>2
  <1>8. Progress'
    <2> SUFFICES ASSUME NEW d \in Clients
                 PROVE  /\ pc'[d] = "idle" => got'[d] = <<>>
                        /\ Len(got'[d]) <= Len(list'[d])
      BY DEF Progress
    <2>1. CASE d = c
      BY <1>1, <1>6, <2>1
    <2>2. CASE d # c
      BY <1>3, <1>4, <2>2 DEF Typed, Progress
    <2> QED BY <2>1, <2>2
  <1> QED BY <1>5, <1>7, <1>8

LEMMA TwoChunks ==
  ASSUME NEW f \in [1..2 -> Chunk]
  PROVE  f \in Seq(Chunk) /\ Len(f) = 2
  <1>1. f \in Seq(Chunk)
    <2>1. Seq(Chunk) = UNION {[1..n -> Chunk] : n \in Nat}
      BY SeqDef
    <2>2. [1..2 -> Chunk] \in {[1..n -> Chunk] : n \in Nat}
      OBVIOUS
    <2> QED BY <2>1, <2>2, Zenon
  <1>2. DOMAIN f = 1..2 /\ DOMAIN f = 1..Len(f) /\ Len(f) \in Nat
    BY <1>1, LenProperties
  <1> QED BY <1>1, <1>2

LEMMA FinishTyped ==
  ASSUME Typed, NEW c \in Clients, Finish(c)
  PROVE  Typed'
  <1> DEFINE saved == SavedAs(c)
             content == dir[c][saved]
             name == Base[stream[c].path]
  <1>1. saved \in Saved /\ name \in Saved /\ CopyOf(c) \subseteq Temps
    BY StreamType DEF Finish
  <1>2. content \in Seq(Chunk) /\ Len(content) = Parts /\ Len(content) = 2
    BY <1>1, Ranges DEF Finish, Typed, TypeOK
  <1>3. Unlocked(content) \in Seq(Chunk) /\ Len(Unlocked(content)) = 2
    <2>1. \A i \in 1..2 : [content[i] EXCEPT !.lock = NoKey] \in Chunk
      <3> SUFFICES ASSUME NEW i \in 1..2 PROVE [content[i] EXCEPT !.lock = NoKey] \in Chunk
        OBVIOUS
      <3>1. content[i] \in Chunk
        BY <1>2
      <3> QED BY <3>1, Ranges DEF Chunk
    <2> HIDE DEF content
    <2>2. Unlocked(content) = [i \in 1..2 |-> [content[i] EXCEPT !.lock = NoKey]]
      BY <1>2 DEF Unlocked
    <2>3. Unlocked(content) \in [1..2 -> Chunk]
      BY <2>1, <2>2
    <2> QED BY <2>3, TwoChunks
  <1>4. dir' \in [Clients -> [Saved -> Seq(Chunk)]]
        /\ \A d \in Clients : \A n \in Saved : Len(dir'[d][n]) <= Parts
    <2>1. CASE UNCHANGED dir
      BY <2>1 DEF Typed, TypeOK
    <2>2. CASE dir' = [dir EXCEPT ![c] = [@ EXCEPT ![saved] = <<>>,
                                                   ![name] = Unlocked(content)]]
      <3> DEFINE new == [dir[c] EXCEPT ![saved] = <<>>, ![name] = Unlocked(content)]
      <3>1. dir[c] \in [Saved -> Seq(Chunk)] /\ \A n \in Saved : Len(dir[c][n]) <= Parts
        BY DEF Typed, TypeOK
      <3> HIDE DEF saved, content, name
      <3>2. new \in [Saved -> Seq(Chunk)]
            /\ \A n \in Saved : new[n] = IF n = name THEN Unlocked(content)
                                        ELSE IF n = saved THEN <<>> ELSE dir[c][n]
        BY <1>1, <1>3, <3>1, Ranges
      <3>3. \A n \in Saved : Len(new[n]) <= Parts
        <4>1. Len(Unlocked(content)) <= 2 /\ Len(<<>>) <= 2 /\ Parts = 2
          BY <1>3, Ranges
        <4> QED BY <3>1, <3>2, <4>1
      <3>4. dir' = [dir EXCEPT ![c] = new]
        BY <2>2 DEF Typed, TypeOK
      <3> QED BY <3>2, <3>3, <3>4 DEF Typed, TypeOK
    <2> QED BY <2>1, <2>2 DEF Finish
  <1>5. /\ pc' \in [Clients -> {"idle", "ask", "wait", "body", "paste"}]
        /\ got' \in [Clients -> Seq(Saved)]
        /\ \A d \in Clients :
             pc'[d] \in {"ask", "wait", "body"} => Len(got'[d]) < Len(list'[d])
        /\ Progress'
    <2>1. pc[c] = "body" /\ UNCHANGED list
      BY DEF Finish
    <2>2. CASE NextFile(c, saved)
      BY <1>1, <2>1, <2>2, NextFileTyped
    <2>3. CASE NextFile(c, name)
      BY <1>1, <2>1, <2>3, NextFileTyped
    <2>4. CASE GivesUp(c)
      BY <2>1, <2>4 DEF GivesUp, Typed, TypeOK, Progress
    <2> QED BY <2>2, <2>3, <2>4 DEF Finish
  <1> QED BY <1>1, <1>4, <1>5 DEF Finish, Typed, TypeOK, fileVars, originVars, Request

LEMMA BreakTyped ==
  ASSUME Typed, NEW c \in Clients, Break(c)
  PROVE  Typed'
  <1>1. requests' \subseteq Request
    <2>1. \A r \in Request : [r EXCEPT !.live = FALSE] \in Request
      BY DEF Request
    <2> QED BY <2>1 DEF Break, Abandoned, Typed, TypeOK
  <1>2. stream' \in [Clients -> Stream \cup {NoStream}]
    BY DEF Break, Typed, TypeOK
  <1>3. dying' \subseteq Temps /\ orphans' \subseteq Temps
    <2>1. CASE stream[c] = NoStream
      BY <2>1 DEF Break, Typed, TypeOK
    <2>2. CASE stream[c] # NoStream
      BY <2>2, StreamType DEF Break, Typed, TypeOK
    <2> QED BY <2>1, <2>2
  <1>4. pc' = [pc EXCEPT ![c] = "paste"] /\ UNCHANGED <<got, list, dir>>
    BY DEF Break, GivesUp
  <1> QED BY <1>1, <1>2, <1>3, <1>4 DEF Break, Typed, TypeOK, Progress, fileVars, originVars

LEMMA WorkerTyped ==
  ASSUME Typed, NEW c \in Clients, Take(c) \/ Worker(c)
  PROVE  Typed'
  <1>1. CASE Take(c)
    <2>1. PICK l \in published : list' = [list EXCEPT ![c] = l]
      BY <1>1 DEF Take
    <2>2. l \in Lists /\ Len(l) > 0 /\ got[c] = <<>> /\ Len(l) \in Nat
      BY <1>1, Ranges DEF Take, Typed, TypeOK, Progress
    <2>3. budget' \in [External -> Nat]
      BY <1>1, SpendType DEF Take
    <2>4. list' \in [Clients -> Lists \cup {<<>>}] /\ pc' = [pc EXCEPT ![c] = "ask"]
          /\ UNCHANGED got
      BY <1>1, <2>1, <2>2 DEF Take, Typed, TypeOK
    <2>5. \A d \in Clients :
            /\ pc'[d] \in {"ask", "wait", "body"} => Len(got'[d]) < Len(list'[d])
            /\ pc'[d] = "idle" => got'[d] = <<>>
            /\ Len(got'[d]) <= Len(list'[d])
      <3> SUFFICES ASSUME NEW d \in Clients
                   PROVE  /\ pc'[d] \in {"ask", "wait", "body"} => Len(got'[d]) < Len(list'[d])
                          /\ pc'[d] = "idle" => got'[d] = <<>>
                          /\ Len(got'[d]) <= Len(list'[d])
        OBVIOUS
      <3>1. CASE d = c
        <4>1. got'[d] = <<>> /\ list'[d] = l /\ pc'[d] = "ask"
          BY <2>1, <2>2, <2>4, <3>1 DEF Typed, TypeOK
        <4> QED BY <2>2, <4>1, Ranges
      <3>2. CASE d # c
        BY <2>1, <2>4, <3>2 DEF Typed, TypeOK, Progress
      <3> QED BY <3>1, <3>2
    <2>6. UNCHANGED <<key, fileVars, originVars, got, dir, serverVars>>
      BY <1>1 DEF Take
    <2>7. pc' \in [Clients -> {"idle", "ask", "wait", "body", "paste"}]
      BY <2>4 DEF Typed, TypeOK
    <2>8. Progress'
      BY <2>5 DEF Progress
    <2>10. since' \in [Clients -> [Paths -> Nat]]
      BY <1>1 DEF Take, Typed, TypeOK
    <2>9. TypeOK'
      BY <2>3, <2>4, <2>5, <2>6, <2>7, <2>10 DEF Typed, TypeOK, fileVars, originVars, serverVars
    <2> QED BY <2>8, <2>9 DEF Typed
  <1>2. CASE Ask(c)
    <2>1. Current(c) \in Paths
      BY <1>2, CurrentType DEF Ask
    <2>2. requests' \subseteq Request
      <3>1. [client |-> c, path |-> Current(c), admitted |-> FALSE, live |-> TRUE] \in Request
        BY <2>1 DEF Request
      <3> QED BY <1>2, <3>1 DEF Ask, Typed, TypeOK
    <2> QED BY <1>2, <2>2 DEF Ask, Typed, TypeOK, Progress, fileVars, originVars
  <1>3. CASE Open(c)
    <2>1. SavedAs(c) \in Saved
      BY <1>3, StreamType DEF Open
    <2>2. dir' \in [Clients -> [Saved -> Seq(Chunk)]]
          /\ \A d \in Clients : \A n \in Saved : Len(dir'[d][n]) <= Parts
      <3>1. dir' = [dir EXCEPT ![c] = [dir[c] EXCEPT ![SavedAs(c)] = <<>>]]
        BY <1>3 DEF Open, Truncated, Typed, TypeOK
      <3> DEFINE new == [dir[c] EXCEPT ![SavedAs(c)] = <<>>]
      <3>2. dir[c] \in [Saved -> Seq(Chunk)] /\ \A n \in Saved : Len(dir[c][n]) <= Parts
        BY DEF Typed, TypeOK
      <3>3. new \in [Saved -> Seq(Chunk)]
            /\ \A n \in Saved : new[n] = IF n = SavedAs(c) THEN <<>> ELSE dir[c][n]
        BY <2>1, <3>2, Ranges
      <3>4. Len(<<>>) <= Parts
        BY Ranges
      <3>5. \A n \in Saved : Len(new[n]) <= Parts
        BY <3>2, <3>3, <3>4
      <3> HIDE DEF new
      <3>6. dir' = [dir EXCEPT ![c] = new]
        BY <3>1 DEF new
      <3> QED BY <3>3, <3>5, <3>6 DEF Typed, TypeOK
    <2> QED BY <1>3, <2>2 DEF Open, Typed, TypeOK, Progress, fileVars, originVars,
                              serverVars
  <1>4. CASE Paste(c)
    <2>1. /\ pc' = [pc EXCEPT ![c] = "idle"]
          /\ list' = [list EXCEPT ![c] = <<>>]
          /\ got' = [got EXCEPT ![c] = <<>>]
      BY <1>4 DEF Paste
    <2>2. \A d \in Clients :
            /\ pc'[d] \in {"ask", "wait", "body"} => Len(got'[d]) < Len(list'[d])
            /\ pc'[d] = "idle" => got'[d] = <<>>
            /\ Len(got'[d]) <= Len(list'[d])
      <3> SUFFICES ASSUME NEW d \in Clients
                   PROVE  /\ pc'[d] \in {"ask", "wait", "body"} => Len(got'[d]) < Len(list'[d])
                          /\ pc'[d] = "idle" => got'[d] = <<>>
                          /\ Len(got'[d]) <= Len(list'[d])
        OBVIOUS
      <3>1. CASE d = c
        <4>1. got'[d] = <<>> /\ list'[d] = <<>> /\ pc'[d] = "idle"
          BY <2>1, <3>1 DEF Typed, TypeOK
        <4> QED BY <4>1, Ranges
      <3>2. CASE d # c
        BY <2>1, <3>2 DEF Typed, TypeOK, Progress
      <3> QED BY <3>1, <3>2
    <2>3. /\ pc' \in [Clients -> {"idle", "ask", "wait", "body", "paste"}]
          /\ list' \in [Clients -> Lists \cup {<<>>}]
          /\ got' \in [Clients -> Seq(Saved)]
      BY <2>1, Ranges DEF Typed, TypeOK
    <2>4. since' \in [Clients -> [Paths -> Nat]]
      <3>1. Unedited \in [Paths -> Nat]
        BY DEF Unedited
      <3> QED BY <1>4, <3>1 DEF Paste, Typed, TypeOK
    <2> QED BY <2>3, <1>4, <2>1, <2>2, <2>4, Ranges DEF Paste, Typed, TypeOK, Progress, fileVars,
                                            originVars, serverVars
  <1> QED BY <1>1, <1>2, <1>3, <1>4, ReceiveTyped, FinishTyped, BreakTyped DEF Worker

LEMMA ServeTyped ==
  ASSUME Typed, NEW r \in requests, Serve(r)
  PROVE  Typed'
  <1>1. r \in Request /\ r.client \in Clients /\ r.path \in Paths
    BY DEF Typed, TypeOK, Request
  <1>2. requests' \subseteq Request
    <2>1. [r EXCEPT !.admitted = TRUE] \in Request
      BY <1>1 DEF Request
    <2>2. requests' \subseteq requests \cup {[r EXCEPT !.admitted = TRUE]}
      BY DEF Serve, Admit, RefusePeer, RefuseFile, ServePlain, ServeEncrypted, Refused, Drop
    <2> QED BY <2>1, <2>2 DEF Typed, TypeOK
  <1>3. ASSUME Refused(r) PROVE Typed'
    BY <1>1, <1>2, <1>3 DEF Refused, Typed, TypeOK, Progress, fileVars, originVars
  <1>4. CASE Admit(r)
    BY <1>2, <1>4 DEF Admit, Typed, TypeOK, Progress, fileVars, originVars, clientVars
  <1>5. ASSUME NEW t \in Temps \cup {NoTemp}, Respond(r, t)
        PROVE  stream' \in [Clients -> Stream \cup {NoStream}]
    <2>1. [path |-> r.path, temp |-> t, made |-> version[r.path]] \in Stream
      BY <1>1, <1>5 DEF Stream, Typed, TypeOK
    <2> QED BY <1>1, <1>5, <2>1 DEF Respond, Typed, TypeOK
  <1>6. CASE ServePlain(r)
    BY <1>2, <1>5, <1>6 DEF ServePlain, Typed, TypeOK, Progress, fileVars, originVars, clientVars
  <1>7. CASE ServeEncrypted(r)
    <2>1. PICK t \in FreshName :
             /\ copies' = [copies EXCEPT ![t] = [path    |-> r.path,
                                                 version |-> version[r.path],
                                                 lock    |-> key[Origin]]]
             /\ Respond(r, t)
             /\ IF r.live
                THEN UNCHANGED <<dying, orphans>>
                ELSE \/ dying' = dying \cup {t} /\ UNCHANGED orphans
                     \/ orphans' = orphans \cup {t} /\ UNCHANGED dying
      BY <1>7 DEF ServeEncrypted
    <2>2. t \in Temps
      BY DEF FreshName
    <2>3. copies' \in [Temps -> Copy \cup {NoCopy}]
      BY <1>1, <2>1, <2>2 DEF Copy, Chunk, Typed, TypeOK
    <2>4. dying' \subseteq Temps /\ orphans' \subseteq Temps
      BY <2>1, <2>2 DEF Typed, TypeOK
    <2> QED BY <1>2, <1>5, <1>7, <2>1, <2>2, <2>3, <2>4
            DEF ServeEncrypted, Typed, TypeOK, Progress, fileVars, originVars, clientVars
  <1> QED BY <1>3, <1>4, <1>6, <1>7 DEF Serve, RefusePeer, RefuseFile

LEMMA OthersTyped ==
  ASSUME Typed,
         \/ User
         \/ \E c \in Clients : Revoke(c) \/ Authorize(c)
         \/ \E t \in Temps : Cleanup(t)
         \/ Restart
  PROVE  Typed'
  <1>1. ASSUME NEW l \in Lists, Share(l) PROVE Typed'
    <2>1. PathsOf(l) \subseteq Paths
      BY <1>1, Ranges DEF PathsOf
    <2> QED BY <1>1, <2>1 DEF Share, Typed, TypeOK, Progress, fileVars, clientVars, serverVars
  <1>2. ASSUME NEW p \in Paths, Lapse(p) \/ Edit(p) \/ Delete(p) PROVE Typed'
    <2>1. budget' \in [External -> Nat]
      BY <1>2, SpendType DEF Lapse, Edit, Delete
    <2>2. version' \in [Paths -> Nat] /\ exists' \subseteq Paths /\ allowed' \subseteq Paths
      <3>1. CASE Lapse(p)
        BY <3>1 DEF Lapse, Typed, TypeOK, fileVars
      <3>2. CASE Edit(p)
        <4>1. version' = [version EXCEPT ![p] = version[p] + 1] /\ version[p] + 1 \in Nat
          BY <3>2 DEF Edit, Typed, TypeOK
        <4> QED BY <3>2, <4>1 DEF Edit, Typed, TypeOK, originVars
      <3>3. CASE Delete(p)
        BY <3>3 DEF Delete, Typed, TypeOK, originVars
      <3> QED BY <1>2, <3>1, <3>2, <3>3
    <2>3. UNCHANGED <<key, since, known, published, clientVars, serverVars>>
      BY <1>2 DEF Lapse, Edit, Delete, originVars
    <2> QED BY <2>1, <2>2, <2>3 DEF Typed, TypeOK, Progress, clientVars, serverVars
  <1>3. ASSUME NEW c \in Clients, Revoke(c) \/ Authorize(c) PROVE Typed'
    <2>1. budget' \in [External -> Nat]
      BY <1>3, SpendType DEF Revoke, Authorize, Typed, TypeOK
    <2>2. known' \subseteq Clients /\ UNCHANGED <<key, since, fileVars, allowed, published,
                                                clientVars, serverVars>>
      BY <1>3 DEF Revoke, Authorize, Typed, TypeOK
    <2> QED BY <2>1, <2>2 DEF Typed, TypeOK, Progress, fileVars, clientVars, serverVars
  <1>4. ASSUME NEW t \in Temps, Cleanup(t) PROVE Typed'
    BY <1>4 DEF Cleanup, Typed, TypeOK, Progress, fileVars, originVars, clientVars
  <1>5. CASE Restart
    <2>1. budget' \in [External -> Nat]
      BY <1>5, SpendType DEF Restart
    <2> QED BY <1>5, <2>1 DEF Restart, Typed, TypeOK, Progress, fileVars, clientVars
  <1> QED BY <1>1, <1>2, <1>3, <1>4, <1>5 DEF User

LEMMA StepTyped == Typed /\ [Next]_vars => Typed'
  <1> SUFFICES ASSUME Typed, [Next]_vars PROVE Typed'
    OBVIOUS
  <1>1. CASE UNCHANGED vars
    BY <1>1 DEF vars, fileVars, originVars, clientVars, serverVars, Typed, TypeOK, Progress, Request
  <1> QED BY <1>1, WorkerTyped, ServeTyped, OthersTyped DEF Next

(* Every variable keeps its type, and no worker asks for more files than its  *)
(* list has.                                                                  *)
THEOREM TransferTypes == Spec => []TypeOK
  <1>1. Typed => TypeOK
    BY DEF Typed
  <1> QED BY <1>1, InitTyped, StepTyped, PTL DEF Spec
-----------------------------------------------------------------------------
(* The strengthening for the copies: a client waits for one answer at a time, *)
(* a response exists only while its client waits for it or reads it, and what *)
(* is about to be removed is there.                                           *)
OneCall ==
  /\ \A r \in requests : r.live => pc[r.client] = "wait" /\ stream[r.client] = NoStream
  /\ \A r, s \in requests : r.live /\ s.live /\ r.client = s.client => r = s
  /\ \A c \in Clients : stream[c] # NoStream => pc[c] \in {"wait", "body"}

DyingThere == \A t \in dying : t \in Temps /\ copies[t] # NoCopy

Copying == DyingThere /\ PrivateCopy /\ CopiesOwned

LEMMA InitCopying == Init => OneCall /\ Copying
  BY DEF Init, OneCall, Copying, DyingThere, PrivateCopy, CopiesOwned

(* Requests and positions. *)
LEMMA WorkerOneCall ==
  ASSUME Typed, OneCall, NEW c \in Clients, Take(c) \/ Worker(c)
  PROVE  OneCall'
  <1> USE DEF OneCall
  <1>0. pc \in [Clients -> {"idle", "ask", "wait", "body", "paste"}]
        /\ stream \in [Clients -> Stream \cup {NoStream}]
        /\ \A r \in requests : r.client \in Clients /\ r.live \in BOOLEAN
    BY DEF Typed, TypeOK, Request
  <1>1. CASE Take(c) \/ Paste(c)
    BY <1>0, <1>1 DEF Take, Paste, serverVars
  <1>2. CASE Ask(c)
    <2> DEFINE new == [client |-> c, path |-> Current(c), admitted |-> FALSE, live |-> TRUE]
    <2>1. new.client = c /\ new.live
      OBVIOUS
    <2>2. \A r \in requests : ~(r.live /\ r.client = c)
      BY <1>2 DEF Ask
    <2>3. stream[c] = NoStream
      BY <1>2 DEF Ask
    <2> HIDE DEF new
    <2>4. requests' = requests \cup {new} /\ pc' = [pc EXCEPT ![c] = "wait"] /\ UNCHANGED stream
      BY <1>2 DEF Ask, new
    <2> QED BY <1>0, <2>1, <2>2, <2>3, <2>4
  <1>3. CASE Open(c)
    BY <1>0, <1>3 DEF Open, serverVars
  <1>4. CASE Receive(c)
    BY <1>4 DEF Receive, serverVars
  <1>5. CASE Finish(c)
    <2>1. pc[c] = "body" /\ stream' = [stream EXCEPT ![c] = NoStream] /\ UNCHANGED requests
      BY <1>5 DEF Finish
    <2>2. \A d \in Clients \ {c} : pc'[d] = pc[d]
      BY <1>0, <1>5 DEF Finish, NextFile, GivesUp
    <2> QED BY <1>0, <2>1, <2>2
  <1>6. CASE Break(c)
    <2>1. stream' = [stream EXCEPT ![c] = NoStream] /\ pc' = [pc EXCEPT ![c] = "paste"]
      BY <1>6 DEF Break, GivesUp
    <2>2. \A r \in requests' : r.live => r \in requests /\ r.client # c
      <3>1. \A q \in Request : [q EXCEPT !.live = FALSE].live = FALSE
        BY DEF Request
      <3>2. requests' = (requests \ Abandoned(c))
                          \cup {[r EXCEPT !.live = FALSE] : r \in Abandoned(c)}
        BY <1>6 DEF Break
      <3>3. Abandoned(c) \subseteq Request
        BY DEF Abandoned, Typed, TypeOK
      <3>4. \A r \in requests : r.live /\ r.client = c => r \in Abandoned(c)
        BY DEF Abandoned
      <3> QED BY <3>1, <3>2, <3>3, <3>4
    <2>3. \A r \in requests' : r.live => pc'[r.client] = "wait" /\ stream'[r.client] = NoStream
      BY <1>0, <2>1, <2>2
    <2>4. \A r, s \in requests' : r.live /\ s.live /\ r.client = s.client => r = s
      BY <2>2
    <2> QED BY <1>0, <2>1, <2>3, <2>4
  <1> QED BY <1>1, <1>2, <1>3, <1>4, <1>5, <1>6 DEF Worker

LEMMA ServeOneCall ==
  ASSUME Typed, OneCall, NEW r \in requests, Serve(r)
  PROVE  OneCall'
  <1> USE DEF OneCall
  <1>0. pc \in [Clients -> {"idle", "ask", "wait", "body", "paste"}]
        /\ stream \in [Clients -> Stream \cup {NoStream}]
        /\ r \in Request
        /\ \A s \in requests : s.client \in Clients
    BY DEF Typed, TypeOK, Request
  <1>1. CASE Admit(r)
    <2> DEFINE new == [r EXCEPT !.admitted = TRUE]
    <2>1. new.client = r.client /\ new.live = r.live
      BY <1>0 DEF Request
    <2> HIDE DEF new
    <2>2. requests' = (requests \ {r}) \cup {new} /\ UNCHANGED <<pc, stream>>
      BY <1>1 DEF Admit, new, clientVars
    <2> QED BY <2>1, <2>2
  <1>2. ASSUME Refused(r) PROVE OneCall'
    BY <1>0, <1>2 DEF Refused, Drop
  <1>3. ASSUME NEW t \in Temps \cup {NoTemp}, Respond(r, t), Drop(r), UNCHANGED pc
        PROVE  OneCall'
    <2>1. CASE r.live
      <3>1. \A d \in Clients \ {r.client} : stream'[d] = stream[d]
        BY <1>0, <1>3, <2>1 DEF Respond
      <3>2. \A s \in requests' : s.live => s.client # r.client /\ s \in requests
        BY <1>3, <2>1 DEF Drop
      <3> QED BY <1>0, <1>3, <2>1, <3>1, <3>2
    <2>2. CASE ~r.live
      BY <1>3, <2>2 DEF Respond, Drop
    <2> QED BY <2>1, <2>2
  <1>4. CASE ServePlain(r)
    BY <1>3, <1>4 DEF ServePlain, clientVars
  <1>5. CASE ServeEncrypted(r)
    BY <1>3, <1>5 DEF ServeEncrypted, clientVars, FreshName
  <1> QED BY <1>1, <1>2, <1>4, <1>5 DEF Serve, RefusePeer, RefuseFile

LEMMA StepOneCall == Typed /\ OneCall /\ [Next]_vars => OneCall'
  <1> SUFFICES ASSUME Typed, OneCall, [Next]_vars PROVE OneCall'
    OBVIOUS
  <1>1. CASE UNCHANGED vars
    BY <1>1 DEF vars, clientVars, serverVars, OneCall
  <1>2. CASE User
    BY <1>2 DEF User, Share, Lapse, Edit, Delete, clientVars, serverVars, OneCall
  <1>3. ASSUME NEW c \in Clients, Revoke(c) \/ Authorize(c) PROVE OneCall'
    BY <1>3 DEF Revoke, Authorize, clientVars, serverVars, OneCall
  <1>4. ASSUME NEW t \in Temps, Cleanup(t) PROVE OneCall'
    BY <1>4 DEF Cleanup, clientVars, OneCall
  <1>5. CASE Restart
    BY <1>5 DEF Restart, clientVars, OneCall
  <1> QED BY <1>1, <1>2, <1>3, <1>4, <1>5, WorkerOneCall, ServeOneCall DEF Next

(* Copies.  A response that is over hands its copy to whoever removes it.     *)
LEMMA HandedOver ==
  ASSUME Typed, Copying, NEW c \in Clients, stream[c] # NoStream,
         stream' = [stream EXCEPT ![c] = NoStream], UNCHANGED <<key, copies>>,
         \/ dying' = dying \cup CopyOf(c) /\ UNCHANGED orphans
         \/ orphans' = orphans \cup CopyOf(c) /\ UNCHANGED dying
  PROVE  Copying'
  <1>1. \A d \in Clients : stream'[d] # NoStream => d # c /\ stream'[d] = stream[d]
    BY DEF Typed, TypeOK
  <1>2. stream[c].temp # NoTemp => /\ stream[c].temp \in Temps
                                   /\ copies[stream[c].temp] # NoCopy
                                   /\ CopyOf(c) = {stream[c].temp}
    <2>1. stream[c].temp # NoTemp =>
            copies[stream[c].temp] = [path    |-> stream[c].path,
                                      version |-> stream[c].made,
                                      lock    |-> key[Origin]]
      BY DEF Copying, PrivateCopy
    <2>2. [path |-> stream[c].path, version |-> stream[c].made, lock |-> key[Origin]] \in Copy
      BY StreamType DEF Copy, Chunk, Typed, TypeOK
    <2> QED BY <2>1, <2>2, StreamType
  <1>3. stream[c].temp = NoTemp => CopyOf(c) = {}
    BY StreamType
  <1>4. DyingThere'
    BY <1>2, <1>3 DEF Copying, DyingThere
  <1>5. PrivateCopy'
    <2> SUFFICES ASSUME NEW d \in Clients, stream'[d] # NoStream, stream'[d].temp # NoTemp
                 PROVE  /\ copies'[stream'[d].temp] = [path    |-> stream'[d].path,
                                                       version |-> stream'[d].made,
                                                       lock    |-> key'[Origin]]
                        /\ stream'[d].temp \notin dying'
                        /\ \A e \in Clients \ {d} :
                             stream'[e] # NoStream => stream'[e].temp # stream'[d].temp
      BY DEF PrivateCopy
    <2>1. d # c /\ stream'[d] = stream[d] /\ stream[d] # NoStream
      BY <1>1
    <2>2. stream[c].temp # stream[d].temp
      BY <2>1 DEF Copying, PrivateCopy
    <2>3. stream'[d].temp \notin dying'
      BY <1>2, <1>3, <2>1, <2>2 DEF Copying, PrivateCopy
    <2> QED BY <1>1, <2>1, <2>3 DEF Copying, PrivateCopy
  <1>6. CopiesOwned'
    <2> SUFFICES ASSUME NEW t \in Temps, copies'[t] # NoCopy
                 PROVE  \/ t \in dying' \cup orphans'
                        \/ \E d \in Clients : stream'[d] # NoStream /\ stream'[d].temp = t
      BY DEF CopiesOwned
    <2>1. CASE t \in dying \cup orphans
      BY <2>1
    <2>2. CASE stream[c].temp = t
      <3>1. t # NoTemp
        OBVIOUS
      <3> QED BY <1>2, <2>2, <3>1
    <2>3. ASSUME NEW d \in Clients, d # c, stream[d] # NoStream, stream[d].temp = t
          PROVE  stream'[d] # NoStream /\ stream'[d].temp = t
      BY <2>3 DEF Typed, TypeOK
    <2> QED BY <2>1, <2>2, <2>3 DEF Copying, CopiesOwned
  <1> QED BY <1>4, <1>5, <1>6 DEF Copying

LEMMA EncryptedCopying ==
  ASSUME Typed, OneCall, Copying, NEW r \in requests, ServeEncrypted(r)
  PROVE  Copying'
  <1>0. r.client \in Clients /\ r.path \in Paths
    BY DEF Typed, TypeOK, Request
  <1> DEFINE new == [path |-> r.path, version |-> version[r.path], lock |-> key[Origin]]
  <1>1. PICK t \in FreshName :
           /\ copies' = [copies EXCEPT ![t] = new]
           /\ Respond(r, t)
           /\ IF r.live
              THEN UNCHANGED <<dying, orphans>>
              ELSE \/ dying' = dying \cup {t} /\ UNCHANGED orphans
                   \/ orphans' = orphans \cup {t} /\ UNCHANGED dying
    BY DEF ServeEncrypted
  <1>2. t \in Temps /\ copies[t] = NoCopy /\ t # NoTemp
    BY DEF FreshName
  <1>3. new \in Copy
    BY <1>0 DEF Copy, Chunk, Typed, TypeOK
  <1>4. copies'[t] = new /\ new # NoCopy /\ \A u \in Temps \ {t} : copies'[u] = copies[u]
    BY <1>1, <1>2, <1>3 DEF Typed, TypeOK
  <1>5. UNCHANGED key
    BY DEF ServeEncrypted
  <1>6. t \notin dying
    BY <1>2 DEF Copying, DyingThere
  <1>7. \A c \in Clients : stream[c] # NoStream => stream[c].temp # t
    <2> SUFFICES ASSUME NEW c \in Clients, stream[c] # NoStream, stream[c].temp = t
                 PROVE  FALSE
      OBVIOUS
    <2>1. copies[t] = [path    |-> stream[c].path,
                       version |-> stream[c].made,
                       lock    |-> key[Origin]]
      BY <1>2 DEF Copying, PrivateCopy
    <2>2. [path |-> stream[c].path, version |-> stream[c].made, lock |-> key[Origin]] \in Copy
      BY StreamType DEF Copy, Chunk, Typed, TypeOK
    <2> QED BY <1>2, <2>1, <2>2
  <1> HIDE DEF new
  <1>8. CASE ~r.live
    <2>1. UNCHANGED stream
      BY <1>1, <1>8 DEF Respond
    <2>2. DyingThere'
      BY <1>1, <1>2, <1>4, <1>8 DEF Copying, DyingThere
    <2>3. PrivateCopy'
      <3> SUFFICES ASSUME NEW d \in Clients, stream[d] # NoStream, stream[d].temp # NoTemp
                   PROVE  /\ copies'[stream[d].temp] = [path    |-> stream[d].path,
                                                        version |-> stream[d].made,
                                                        lock    |-> key[Origin]]
                          /\ stream[d].temp \notin dying'
                          /\ \A e \in Clients \ {d} :
                               stream[e] # NoStream => stream[e].temp # stream[d].temp
        BY <1>5, <2>1 DEF PrivateCopy
      <3>1. stream[d].temp \in Temps \ {t}
        BY <1>7, StreamType
      <3>2. copies'[stream[d].temp] = copies[stream[d].temp] /\ stream[d].temp \notin dying'
        BY <1>1, <1>4, <1>8, <3>1 DEF Copying, PrivateCopy
      <3> QED BY <3>2 DEF Copying, PrivateCopy
    <2>4. CopiesOwned'
      BY <1>1, <1>4, <1>8, <2>1 DEF Copying, CopiesOwned
    <2> QED BY <2>2, <2>3, <2>4 DEF Copying
  <1>9. CASE r.live
    <2>1. stream' = [stream EXCEPT ![r.client] =
                       [path |-> r.path, temp |-> t, made |-> version[r.path]]]
          /\ UNCHANGED <<dying, orphans>>
      BY <1>1, <1>9 DEF Respond
    <2>2. stream[r.client] = NoStream
      BY <1>9 DEF OneCall
    <2>3. /\ stream'[r.client].path = r.path /\ stream'[r.client].temp = t
          /\ stream'[r.client].made = version[r.path]
          /\ stream'[r.client] # NoStream
          /\ \A d \in Clients \ {r.client} : stream'[d] = stream[d]
      <3>1. [path |-> r.path, temp |-> t, made |-> version[r.path]] \in Stream
        BY <1>0, <1>2 DEF Stream, Typed, TypeOK
      <3> QED BY <1>0, <2>1, <3>1 DEF Typed, TypeOK
    <2>4. DyingThere'
      BY <1>4, <1>6, <2>1 DEF Copying, DyingThere
    <2>5. PrivateCopy'
      <3> SUFFICES ASSUME NEW d \in Clients, stream'[d] # NoStream, stream'[d].temp # NoTemp
                   PROVE  /\ copies'[stream'[d].temp] = [path    |-> stream'[d].path,
                                                         version |-> stream'[d].made,
                                                         lock    |-> key[Origin]]
                          /\ stream'[d].temp \notin dying
                          /\ \A e \in Clients \ {d} :
                               stream'[e] # NoStream => stream'[e].temp # stream'[d].temp
        BY <1>5, <2>1 DEF PrivateCopy
      <3>1. CASE d = r.client
        BY <1>4, <1>6, <1>7, <2>3, <3>1 DEF new
      <3>2. CASE d # r.client
        <4>1. stream'[d] = stream[d] /\ stream[d] # NoStream /\ stream[d].temp # NoTemp
          BY <2>3, <3>2
        <4>2. stream[d].temp \in Temps \ {t}
          BY <1>7, <4>1, StreamType
        <4>3. copies'[stream[d].temp] = copies[stream[d].temp]
          BY <1>4, <4>2
        <4>4. \A e \in Clients \ {d} :
                stream'[e] # NoStream => stream'[e].temp # stream[d].temp
          <5> SUFFICES ASSUME NEW e \in Clients \ {d}, stream'[e] # NoStream
                       PROVE  stream'[e].temp # stream[d].temp
            OBVIOUS
          <5>1. CASE e = r.client
            BY <2>3, <4>2, <5>1
          <5>2. CASE e # r.client
            <6>1. stream[e] # NoStream /\ stream'[e] = stream[e]
              BY <2>3, <5>2
            <6> QED BY <4>1, <6>1 DEF Copying, PrivateCopy
          <5> QED BY <5>1, <5>2
        <4> QED BY <4>1, <4>3, <4>4 DEF Copying, PrivateCopy
      <3> QED BY <3>1, <3>2
    <2>6. CopiesOwned'
      <3> SUFFICES ASSUME NEW u \in Temps, copies'[u] # NoCopy
                   PROVE  \/ u \in dying' \cup orphans'
                          \/ \E d \in Clients : stream'[d] # NoStream /\ stream'[d].temp = u
        BY DEF CopiesOwned
      <3>1. CASE u = t
        BY <1>0, <2>3, <3>1
      <3>2. CASE u # t
        <4>1. copies[u] # NoCopy
          BY <1>4, <3>2
        <4>2. CASE u \in dying \cup orphans
          BY <2>1, <4>2
        <4>3. ASSUME NEW d \in Clients, stream[d] # NoStream, stream[d].temp = u
              PROVE  stream'[d] # NoStream /\ stream'[d].temp = u
          BY <2>2, <2>3, <4>3
        <4> QED BY <4>1, <4>2, <4>3 DEF Copying, CopiesOwned
      <3> QED BY <3>1, <3>2
    <2> QED BY <2>4, <2>5, <2>6 DEF Copying
  <1> QED BY <1>8, <1>9

LEMMA PlainCopying ==
  ASSUME Typed, OneCall, Copying, NEW r \in requests, ServePlain(r)
  PROVE  Copying'
  <1>0. r.client \in Clients /\ r.path \in Paths
    BY DEF Typed, TypeOK, Request
  <1>1. UNCHANGED <<key, copies, dying, orphans>>
    BY DEF ServePlain
  <1>2. CASE ~r.live
    BY <1>1, <1>2 DEF ServePlain, Respond, Copying, DyingThere, PrivateCopy, CopiesOwned
  <1>3. CASE r.live
    <2>1. /\ stream[r.client] = NoStream
          /\ stream'[r.client].temp = NoTemp
          /\ \A d \in Clients \ {r.client} : stream'[d] = stream[d]
      BY <1>0, <1>3 DEF ServePlain, Respond, OneCall, Typed, TypeOK
    <2>2. PrivateCopy'
      BY <1>1, <2>1 DEF Copying, PrivateCopy
    <2>3. CopiesOwned'
      BY <1>1, <2>1 DEF Copying, CopiesOwned
    <2> QED BY <1>1, <2>2, <2>3 DEF Copying, DyingThere
  <1> QED BY <1>2, <1>3

LEMMA StepCopying == Typed /\ OneCall /\ Copying /\ [Next]_vars => Copying'
  <1> SUFFICES ASSUME Typed, OneCall, Copying, [Next]_vars PROVE Copying'
    OBVIOUS
  <1>1. ASSUME UNCHANGED <<key, stream, copies, dying, orphans>> PROVE Copying'
    BY <1>1 DEF Copying, DyingThere, PrivateCopy, CopiesOwned
  <1>2. CASE UNCHANGED vars
    BY <1>1, <1>2 DEF vars, serverVars
  <1>3. CASE User
    BY <1>1, <1>3 DEF User, Share, Lapse, Edit, Delete, serverVars
  <1>4. ASSUME NEW c \in Clients, Revoke(c) \/ Authorize(c) \/ Take(c) \/ Worker(c)
        PROVE  Copying'
    <2>1. CASE Finish(c)
      BY <2>1, HandedOver DEF Finish
    <2>2. CASE Break(c)
      <3>1. CASE stream[c] = NoStream
        <4>1. stream' = stream
          BY <2>2, <3>1 DEF Break, Typed, TypeOK
        <4> QED BY <1>1, <2>2, <3>1, <4>1 DEF Break
      <3>2. CASE stream[c] # NoStream
        BY <2>2, <3>2, HandedOver DEF Break
      <3> QED BY <3>1, <3>2
    <2>3. CASE Revoke(c) \/ Authorize(c) \/ Take(c) \/ Ask(c) \/ Open(c) \/ Receive(c) \/ Paste(c)
      BY <1>1, <2>3 DEF Revoke, Authorize, Take, Ask, Open, Receive, Paste, serverVars
    <2> QED BY <1>4, <2>1, <2>2, <2>3 DEF Worker
  <1>5. ASSUME NEW r \in requests, Serve(r) PROVE Copying'
    BY <1>1, <1>5, EncryptedCopying, PlainCopying
    DEF Serve, Admit, RefusePeer, RefuseFile, Refused
  <1>6. ASSUME NEW t \in Temps, Cleanup(t) PROVE Copying'
    <2>1. \A u \in Temps : copies'[u] = IF u = t THEN NoCopy ELSE copies[u]
      BY <1>6 DEF Cleanup, Typed, TypeOK
    <2>2. \A c \in Clients : stream[c] # NoStream /\ stream[c].temp # NoTemp =>
            stream[c].temp \in Temps \ {t}
      BY <1>6, StreamType DEF Cleanup, Copying, PrivateCopy
    <2>3. dying' = dying \ {t} /\ UNCHANGED <<key, stream, orphans>>
      BY <1>6 DEF Cleanup
    <2>4. DyingThere'
      BY <2>1, <2>3 DEF Copying, DyingThere
    <2>5. PrivateCopy'
      BY <2>1, <2>2, <2>3 DEF Copying, PrivateCopy
    <2>6. CopiesOwned'
      BY <2>1, <2>3 DEF Copying, CopiesOwned
    <2> QED BY <2>4, <2>5, <2>6 DEF Copying
  <1>7. CASE Restart
    BY <1>7 DEF Restart, Copying, DyingThere, PrivateCopy, CopiesOwned
  <1> QED BY <1>2, <1>3, <1>4, <1>5, <1>6, <1>7 DEF Next

LEMMA CopyInvariant == Spec => [](Typed /\ OneCall /\ Copying)
  <1>1. Init => Typed /\ OneCall /\ Copying
    BY InitTyped, InitCopying
  <1>2. (Typed /\ OneCall /\ Copying) /\ [Next]_vars => (Typed /\ OneCall /\ Copying)'
    BY StepTyped, StepOneCall, StepCopying
  <1> QED BY <1>1, <1>2, PTL DEF Spec

(* Responses never share an encrypted copy, and none is removed or written    *)
(* again while it is being streamed, although names are used again.           *)
THEOREM CopiesArePrivate == Spec => []PrivateCopy
  <1>1. Copying => PrivateCopy
    BY DEF Copying
  <1> QED BY <1>1, CopyInvariant, PTL

(* No encrypted copy is forgotten, except by a restart or a cut connection.   *)
THEOREM CopiesAreOwned == Spec => []CopiesOwned
  <1>1. Copying => CopiesOwned
    BY DEF Copying
  <1> QED BY <1>1, CopyInvariant, PTL
-----------------------------------------------------------------------------
(* The strengthening for what is pasted: what each file of a worker is, what  *)
(* its open request asks for, and what has come of the next file.             *)
AsListed(c, i) ==
  LET content == dir[c][got[c][i]]
  IN  /\ got[c][i] \in Names /\ got[c][i] = Base[list[c][i]]
      /\ key[c] # NoKey \/ Upcoming(c) \notin Namesakes(c, i) => Whole(content)
      /\ key[c] # NoKey => OneVersion(content)
      /\ (\A j \in Namesakes(c, i) : j > Opened(c)) => content[1].path = list[c][i]

Asked(c) == \A r \in requests : r.client = c /\ r.live => r.path = Current(c)

Answered(c) == stream[c] # NoStream =>
  /\ stream[c].path = Current(c)
  /\ key[c] = key[Origin]
  /\ stream[c].temp = NoTemp <=> key[Origin] = NoKey

PartOf(c, chunk) == /\ chunk.path = stream[c].path
                    /\ chunk.lock = key[c]
                    /\ stream[c].temp # NoTemp => chunk.version = stream[c].made

Arriving(c) == pc[c] = "body" /\ stream[c] # NoStream =>
  \A i \in 1..Len(dir[c][SavedAs(c)]) : PartOf(c, dir[c][SavedAs(c)][i])

Delivered(c) == /\ \A i \in 1..Len(got[c]) : AsListed(c, i)
                /\ Asked(c) /\ Answered(c) /\ Arriving(c)

Delivery == \A c \in Clients : Delivered(c)

LEMMA InitDelivery == Init => Delivery
  <1> SUFFICES ASSUME Init, NEW c \in Clients PROVE Delivered(c)
    BY DEF Delivery
  <1>1. got[c] = <<>> /\ requests = {} /\ stream[c] = NoStream
    BY DEF Init
  <1> QED BY <1>1, Ranges DEF Delivered, Asked, Answered, Arriving

(* A step that leaves the client's files alone, and answers nothing.          *)
LEMMA Untouched ==
  ASSUME NEW c \in Clients, Delivered(c), UNCHANGED key,
         list'[c] = list[c], got'[c] = got[c], dir'[c] = dir[c],
         stream'[c] \in {stream[c], NoStream},
         pc'[c] = "body" => pc[c] = "body",
         Asked(c)'
  PROVE  Delivered(c)'
  <1>1. \A i \in 1..Len(got'[c]) : AsListed(c, i)'
    BY DEF Delivered, AsListed, Namesakes, Upcoming, Opened
  <1>2. Answered(c)'
    BY DEF Delivered, Answered, Current
  <1>3. Arriving(c)'
    BY DEF Delivered, Arriving, SavedAs, PartOf
  <1> QED BY <1>1, <1>2, <1>3 DEF Delivered

(* Requests of which some are dropped, admitted or abandoned ask for the same.*)
LEMMA StillAsked ==
  ASSUME NEW c \in Clients, Asked(c), list'[c] = list[c], got'[c] = got[c],
         \A r \in requests' : r.client = c /\ r.live =>
           \E q \in requests : q.client = c /\ q.live /\ q.path = r.path
  PROVE  Asked(c)'
  BY DEF Asked, Current

(* The file that is arriving takes the place of none that has arrived but of *)
(* its namesakes, and with keys not yet of them.                              *)
LEMMA Elsewhere ==
  ASSUME Typed, OneCall, NEW c \in Clients, Delivered(c), stream[c] # NoStream,
         NEW i \in 1..Len(got[c])
  PROVE  /\ got[c][i] = Base[stream[c].path] <=> Upcoming(c) \in Namesakes(c, i)
         /\ got[c][i] = SavedAs(c) => key[c] = NoKey /\ Upcoming(c) \in Namesakes(c, i)
  <1>1. /\ stream[c].path = Current(c) /\ key[c] = key[Origin]
        /\ stream[c].temp = NoTemp <=> key[Origin] = NoKey
    BY DEF Delivered, Answered
  <1>2. AsListed(c, i)
    BY DEF Delivered
  <1>3. /\ list[c] \in Seq(Paths) /\ Len(got[c]) \in Nat /\ Len(list[c]) \in Nat
        /\ Len(got[c]) < Len(list[c])
    <2>1. pc[c] \in {"wait", "body"}
      BY DEF OneCall
    <2>2. Len(got[c]) < Len(list[c]) /\ got[c] \in Seq(Saved)
          /\ list[c] \in Lists \cup {<<>>}
      BY <2>1 DEF Typed, TypeOK
    <2> QED BY <2>2, Ranges
  <1>4. Upcoming(c) \in (i + 1)..Len(list[c])
    BY <1>3 DEF Upcoming
  <1>5. got[c][i] = Base[stream[c].path] <=> Upcoming(c) \in Namesakes(c, i)
    BY <1>1, <1>2, <1>4 DEF AsListed, Current, Namesakes, Upcoming
  <1>6. CASE stream[c].temp = NoTemp
    BY <1>1, <1>5, <1>6 DEF SavedAs
  <1>7. CASE stream[c].temp # NoTemp
    BY <1>2, <1>5, <1>7 DEF AsListed, SavedAs
  <1> QED BY <1>5, <1>6, <1>7

(* A file stays as listed while other names are written, and while its own    *)
(* is written for a namesake that arrives without keys.                       *)
LEMMA StillListed ==
  ASSUME Typed, NEW c \in Clients, NEW i \in 1..Len(got[c]), AsListed(c, i),
         UNCHANGED key, list'[c] = list[c], got'[c][i] = got[c][i],
         \/ Len(got'[c]) = Len(got[c])
         \/ Len(got'[c]) = Len(got[c]) + 1 /\ Upcoming(c) \notin Namesakes(c, i),
         \/ dir'[c][got[c][i]] = dir[c][got[c][i]]
         \/ /\ key[c] = NoKey /\ Upcoming(c) \in Namesakes(c, i)
            /\ Len(got'[c]) = Len(got[c])
  PROVE  AsListed(c, i)'
  <1>1. Len(got[c]) \in Nat
    BY DEF Typed, TypeOK
  <1>2. Namesakes(c, i)' = Namesakes(c, i)
    BY DEF Namesakes
  <1>3. /\ Namesakes(c, i) \subseteq Int /\ Upcoming(c) = Len(got[c]) + 1
        /\ Opened(c) = IF key[c] = NoKey THEN Upcoming(c) ELSE Len(got[c])
    BY DEF Namesakes, Upcoming, Opened
  <1>4. /\ Upcoming(c)' = Len(got'[c]) + 1
        /\ Opened(c)' = IF key[c] = NoKey THEN Upcoming(c)' ELSE Len(got'[c])
    BY DEF Upcoming, Opened
  <1>5. (\A j \in Namesakes(c, i) : j > Opened(c)') => \A j \in Namesakes(c, i) : j > Opened(c)
    BY <1>1, <1>3, <1>4
  <1>6. CASE dir'[c][got[c][i]] = dir[c][got[c][i]]
    <2>1. key[c] # NoKey \/ Upcoming(c)' \notin Namesakes(c, i) => Whole(dir[c][got[c][i]])
      <3>1. Len(got'[c]) = Len(got[c]) => Upcoming(c)' = Upcoming(c)
        BY <1>3, <1>4
      <3> QED BY <3>1 DEF AsListed
    <2> QED BY <1>2, <1>5, <1>6, <2>1 DEF AsListed
  <1>7. CASE /\ key[c] = NoKey /\ Upcoming(c) \in Namesakes(c, i)
             /\ Len(got'[c]) = Len(got[c])
    <2>1. Upcoming(c)' \in Namesakes(c, i) /\ Opened(c)' = Upcoming(c)'
      BY <1>3, <1>4, <1>7
    <2>2. ~(\A j \in Namesakes(c, i) : j > Opened(c)')
      BY <1>1, <1>3, <2>1
    <2> QED BY <1>2, <1>7, <2>1, <2>2 DEF AsListed
  <1> QED BY <1>6, <1>7

LEMMA OpenDelivery ==
  ASSUME Typed, OneCall, NEW c \in Clients, Delivered(c), Open(c)
  PROVE  Delivered(c)'
  <1>1. SavedAs(c) \in Saved /\ dir[c] \in [Saved -> Seq(Chunk)]
    BY StreamType DEF Open, Typed, TypeOK
  <1>2. \A n \in Saved : dir'[c][n] = IF n = SavedAs(c) THEN <<>> ELSE dir[c][n]
    BY <1>1 DEF Open, Truncated, Typed, TypeOK
  <1>3. UNCHANGED <<key, list, got, stream, requests>> /\ stream[c] # NoStream
    BY DEF Open, serverVars
  <1>4. ASSUME NEW i \in 1..Len(got[c]) PROVE AsListed(c, i)'
    <2>1. AsListed(c, i) /\ got[c][i] \in Saved
      BY DEF Delivered, AsListed
    <2>2. got[c][i] = SavedAs(c) => key[c] = NoKey /\ Upcoming(c) \in Namesakes(c, i)
      BY <1>3, Elsewhere
    <2> QED BY <1>2, <1>3, <2>1, <2>2, StillListed
  <1>5. Asked(c)' /\ Answered(c)'
    BY <1>3 DEF Delivered, Asked, Answered, Current
  <1>6. Arriving(c)'
    <2>1. dir'[c][SavedAs(c)'] = <<>>
      BY <1>1, <1>2, <1>3 DEF SavedAs
    <2> QED BY <2>1, Ranges DEF Arriving
  <1> QED BY <1>3, <1>4, <1>5, <1>6 DEF Delivered

LEMMA ReceiveDelivery ==
  ASSUME Typed, OneCall, PrivateCopy, NEW c \in Clients, Delivered(c), Receive(c)
  PROVE  Delivered(c)'
  <1> DEFINE had == dir[c][SavedAs(c)]
             chunk == NextChunk(c)
  <1>1. SavedAs(c) \in Saved /\ dir[c] \in [Saved -> Seq(Chunk)]
    BY StreamType DEF Receive, Typed, TypeOK
  <1>2. \A n \in Saved : dir'[c][n] = IF n = SavedAs(c) THEN Append(had, chunk) ELSE dir[c][n]
    BY <1>1 DEF Receive, Typed, TypeOK
  <1>3. UNCHANGED <<key, list, got, stream, requests, pc>> /\ stream[c] # NoStream
        /\ pc[c] = "body"
    BY DEF Receive, serverVars
  <1>4. ASSUME NEW i \in 1..Len(got[c]) PROVE AsListed(c, i)'
    <2>1. AsListed(c, i) /\ got[c][i] \in Saved
      BY DEF Delivered, AsListed
    <2>2. got[c][i] = SavedAs(c) => key[c] = NoKey /\ Upcoming(c) \in Namesakes(c, i)
      BY <1>3, Elsewhere
    <2> QED BY <1>2, <1>3, <2>1, <2>2, StillListed
  <1>5. Asked(c)' /\ Answered(c)'
    BY <1>3 DEF Delivered, Asked, Answered, Current
  <1>6. PartOf(c, chunk)
    <2>1. key[c] = key[Origin] /\ (stream[c].temp = NoTemp <=> key[Origin] = NoKey)
      BY <1>3 DEF Delivered, Answered
    <2>2. CASE stream[c].temp = NoTemp
      BY <2>1, <2>2 DEF NextChunk, PartOf
    <2>3. CASE stream[c].temp # NoTemp
      <3>1. chunk = [path |-> stream[c].path, version |-> stream[c].made, lock |-> key[Origin]]
        BY <1>3, <2>3 DEF NextChunk, PrivateCopy
      <3> QED BY <2>1, <3>1 DEF PartOf
    <2> QED BY <2>2, <2>3
  <1>7. had \in Seq(Chunk) /\ chunk \in Chunk
    <2>1. stream[c].path \in Paths /\ (stream[c].temp # NoTemp => stream[c].temp \in Temps)
      BY <1>3, StreamType
    <2> QED BY <1>1, <2>1, Ranges DEF Receive, NextChunk, Typed, TypeOK, Chunk, Copy
  <1>8. Arriving(c)'
    <2> DEFINE new == Append(had, chunk)
    <2>1. dir'[c][SavedAs(c)'] = new
      BY <1>1, <1>2, <1>3 DEF SavedAs
    <2>2. \A i \in 1..Len(had) : PartOf(c, had[i])
      BY <1>3 DEF Delivered, Arriving
    <2> HIDE DEF had, chunk
    <2>3. \A i \in 1..Len(new) : new[i] = chunk \/ (i \in 1..Len(had) /\ new[i] = had[i])
      <3>1. Len(new) = Len(had) + 1 /\ Len(had) \in Nat /\ new[Len(had) + 1] = chunk
        BY <1>7
      <3>2. \A i \in 1..Len(had) : new[i] = had[i]
        BY <1>7
      <3> HIDE DEF new
      <3>3. \A i \in 1..Len(new) : i = Len(had) + 1 \/ i \in 1..Len(had)
        BY <3>1
      <3> QED BY <3>1, <3>2, <3>3
    <2>4. \A i \in 1..Len(new) : PartOf(c, new[i])
      BY <1>6, <2>2, <2>3
    <2> HIDE DEF new
    <2> QED BY <1>3, <2>1, <2>4 DEF Arriving, PartOf
  <1> QED BY <1>3, <1>4, <1>5, <1>8 DEF Delivered

(* A complete body, read with the client's key, is the file that was asked.   *)
LEMMA Unpacked ==
  ASSUME Typed, OneCall, NEW c \in Clients, Delivered(c), stream[c] # NoStream,
         pc[c] = "body", Len(dir[c][SavedAs(c)]) = Parts
  PROVE  LET content == dir[c][SavedAs(c)]
         IN  /\ content[1].path = stream[c].path
             /\ key[c] = NoKey => Whole(content)
             /\ Whole(Unlocked(content)) /\ Unlocked(content)[1].path = stream[c].path
             /\ key[c] # NoKey => OneVersion(Unlocked(content))
  <1> DEFINE content == dir[c][SavedAs(c)]
  <1>1. content \in Seq(Chunk) /\ Len(content) = 2 /\ 1 \in 1..2
    <2>1. SavedAs(c) \in Saved /\ dir[c] \in [Saved -> Seq(Chunk)]
      BY StreamType DEF Typed, TypeOK
    <2> QED BY <2>1, Ranges
  <1>2. \A i \in 1..2 : PartOf(c, content[i]) /\ content[i] \in Chunk
    BY <1>1 DEF Delivered, Arriving
  <1>3. key[c] = key[Origin] /\ (stream[c].temp = NoTemp <=> key[Origin] = NoKey)
    BY DEF Delivered, Answered
  <1> HIDE DEF content
  <1>4. Unlocked(content) = [i \in 1..2 |-> [content[i] EXCEPT !.lock = NoKey]]
    BY <1>1 DEF Unlocked
  <1>5. \A i \in 1..2 : /\ Unlocked(content)[i].path = content[i].path
                        /\ Unlocked(content)[i].version = content[i].version
                        /\ Unlocked(content)[i].lock = NoKey
    BY <1>2, <1>4 DEF Chunk
  <1>6. Len(Unlocked(content)) = 2
    <2>1. \A i \in 1..2 : [content[i] EXCEPT !.lock = NoKey] \in Chunk
      BY <1>2, Ranges DEF Chunk
    <2> QED BY <1>4, <2>1, TwoChunks
  <1>7. content[1].path = stream[c].path /\ Unlocked(content)[1].path = stream[c].path
    BY <1>1, <1>2, <1>5 DEF PartOf
  <1>8. key[c] = NoKey => Whole(content)
    BY <1>1, <1>2, Ranges DEF PartOf, Whole
  <1>9. Whole(Unlocked(content))
    BY <1>1, <1>2, <1>5, <1>6, Ranges DEF PartOf, Whole
  <1>10. key[c] # NoKey => OneVersion(Unlocked(content))
    BY <1>1, <1>2, <1>3, <1>5, <1>6 DEF PartOf, OneVersion
  <1> QED BY <1>7, <1>8, <1>9, <1>10 DEF content

LEMMA FinishDelivery ==
  ASSUME Typed, OneCall, NEW c \in Clients, Delivered(c), Finish(c)
  PROVE  Delivered(c)'
  <1> DEFINE saved == SavedAs(c)
             content == dir[c][saved]
             name == Base[stream[c].path]
  <1>0. PICK n \in Nat : n = Len(got[c]) + 1
    BY DEF Typed, TypeOK
  <1>1. /\ saved \in Saved /\ name \in Names /\ stream[c] # NoStream /\ pc[c] = "body"
        /\ dir[c] \in [Saved -> Seq(Chunk)] /\ Len(content) = Parts
        /\ UNCHANGED <<key, list, requests>>
    BY StreamType DEF Finish, Typed, TypeOK
  <1>2. /\ content[1].path = stream[c].path
        /\ key[c] = NoKey => Whole(content)
        /\ Whole(Unlocked(content)) /\ Unlocked(content)[1].path = stream[c].path
        /\ key[c] # NoKey => OneVersion(Unlocked(content))
    BY <1>1, Unpacked
  <1>3. /\ stream[c].path = list[c][n] /\ name = Base[list[c][n]]
        /\ key[c] = key[Origin] /\ (stream[c].temp = NoTemp <=> key[Origin] = NoKey)
    BY <1>0, <1>1 DEF Delivered, Answered, Current
  <1>4. got[c] \in Seq(Saved) /\ Len(got[c]) \in Nat
    BY DEF Typed, TypeOK
  <1>5. Asked(c)'
    BY <1>1 DEF OneCall, Asked
  <1>6. stream'[c] = NoStream
    BY DEF Finish, Typed, TypeOK
  <1>7. ASSUME NEW i \in 1..Len(got[c])
        PROVE  /\ AsListed(c, i) /\ got[c][i] \in Saved
               /\ got[c][i] = name <=> Upcoming(c) \in Namesakes(c, i)
               /\ got[c][i] = saved => key[c] = NoKey /\ got[c][i] = name
    <2>1. AsListed(c, i) /\ got[c][i] \in Saved
      BY DEF Delivered, AsListed
    <2> QED BY <1>1, <2>1, Elsewhere
  <1> HIDE DEF saved, content, name
  <1>8. ASSUME NEW x \in Saved, NextFile(c, x)
        PROVE  /\ Len(got'[c]) = n /\ got'[c][n] = x
               /\ \A i \in 1..Len(got[c]) : got'[c][i] = got[c][i]
               /\ \A i \in 1..Len(got'[c]) : i = n \/ i \in 1..Len(got[c])
    <2>1. got'[c] = Append(got[c], x)
      BY <1>8 DEF NextFile, Typed, TypeOK
    <2>2. Len(got'[c]) = n /\ got'[c][n] = x
      BY <1>0, <1>4, <2>1
    <2>3. \A i \in 1..Len(got[c]) : got'[c][i] = got[c][i]
      BY <1>4, <2>1
    <2> QED BY <1>0, <1>4, <2>2, <2>3
  <1>9. ASSUME NEW i \in 1..Len(got[c]), got[c][i] = name, NextFile(c, name),
               Whole(dir'[c][name]), key[c] # NoKey => OneVersion(dir'[c][name])
        PROVE  AsListed(c, i)'
    <2>1. AsListed(c, i) /\ Upcoming(c) \in Namesakes(c, i) /\ n = Upcoming(c)
      BY <1>0, <1>7, <1>9 DEF Upcoming
    <2>2. Len(got'[c]) = n /\ got'[c][i] = name
      BY <1>1, <1>8, <1>9
    <2>3. n \in Namesakes(c, i)' /\ ~(n > Opened(c)')
      BY <1>1, <2>1, <2>2 DEF Namesakes, Opened, Upcoming
    <2>4. name \in Names /\ got'[c][i] = Base[list'[c][i]]
      BY <1>1, <1>9, <2>1, <2>2 DEF AsListed
    <2> QED BY <1>1, <1>9, <2>2, <2>3, <2>4 DEF AsListed
  <1>10. ASSUME NEW i \in 1..Len(got[c]), got[c][i] # name, NextFile(c, name),
                dir'[c][got[c][i]] = dir[c][got[c][i]]
         PROVE  AsListed(c, i)'
    <2>1. Len(got'[c]) = Len(got[c]) + 1 /\ got'[c][i] = got[c][i]
      BY <1>0, <1>1, <1>8, <1>10
    <2> QED BY <1>1, <1>7, <1>10, <2>1, StillListed
  <1>11. \A i \in 1..Len(got'[c]) : AsListed(c, i)'
    <2>1. CASE ~IsEncrypted(saved)
      <3>1. NextFile(c, saved) /\ UNCHANGED dir
        BY <2>1 DEF Finish, saved
      <3>2. stream[c].temp = NoTemp /\ saved = name /\ key[c] = NoKey
        BY <1>3, <2>1 DEF saved, name, SavedAs, IsEncrypted
      <3>3. AsListed(c, n)'
        <4>1. got'[c][n] = name /\ dir'[c][name] = content
          BY <1>1, <1>8, <3>1, <3>2 DEF content
        <4> QED BY <1>1, <1>2, <1>3, <3>2, <4>1 DEF AsListed
      <3>4. Whole(dir'[c][name])
        BY <1>2, <3>1, <3>2 DEF content
      <3>5. ASSUME NEW i \in 1..Len(got[c]) PROVE AsListed(c, i)'
        BY <1>1, <1>9, <1>10, <3>1, <3>2, <3>4
      <3> QED BY <1>1, <1>8, <3>1, <3>3, <3>5
    <2>2. CASE IsEncrypted(saved) /\ Decrypts(c, content)
      <3>1. /\ NextFile(c, name)
            /\ dir' = [dir EXCEPT ![c] = [@ EXCEPT ![saved] = <<>>,
                                                   ![name] = Unlocked(content)]]
        BY <2>2 DEF Finish, saved, content, name
      <3>2. \A x \in Saved : dir'[c][x] = IF x = name THEN Unlocked(content)
                                          ELSE IF x = saved THEN <<>> ELSE dir[c][x]
        BY <1>1, <3>1 DEF Typed, TypeOK
      <3>3. key[c] # NoKey /\ name \in Saved
        BY <1>1, <2>2 DEF Decrypts
      <3>4. AsListed(c, n)'
        <4>1. got'[c][n] = name /\ dir'[c][name] = Unlocked(content)
          BY <1>8, <3>1, <3>2, <3>3
        <4> QED BY <1>1, <1>2, <1>3, <4>1 DEF AsListed
      <3>5. ASSUME NEW i \in 1..Len(got[c]) PROVE AsListed(c, i)'
        <4>1. got[c][i] \in Saved /\ got[c][i] # saved
          BY <1>7, <3>3, <3>5
        <4>2. CASE got[c][i] = name
          BY <1>2, <1>9, <3>1, <3>2, <3>3, <4>2
        <4>3. CASE got[c][i] # name
          <5>1. dir'[c][got[c][i]] = dir[c][got[c][i]]
            BY <3>2, <4>1, <4>3
          <5> QED BY <1>10, <3>1, <4>3, <5>1
        <4> QED BY <4>2, <4>3
      <3> QED BY <1>8, <3>1, <3>3, <3>4, <3>5
    <2>3. CASE IsEncrypted(saved) /\ ~Decrypts(c, content)
      <3>1. UNCHANGED <<got, dir>>
        BY <2>3 DEF Finish, GivesUp, saved, content
      <3> QED BY <1>1, <1>7, <3>1, StillListed
    <2> QED BY <2>1, <2>2, <2>3
  <1> QED BY <1>5, <1>6, <1>11 DEF Delivered, Answered, Arriving

LEMMA WorkerDelivery ==
  ASSUME Typed, OneCall, OneCall', PrivateCopy, Delivery,
         NEW c \in Clients, Take(c) \/ Worker(c)
  PROVE  Delivery'
  <1>1. ASSUME NEW d \in Clients, d # c PROVE Delivered(d)'
    <2>1. Delivered(d) /\ UNCHANGED key
      BY DEF Delivery, Take, Worker, Ask, Open, Receive, Finish, Break, Paste
    <2>2. list'[d] = list[d] /\ got'[d] = got[d] /\ pc'[d] = pc[d] /\ stream'[d] = stream[d]
      BY <1>1 DEF Take, Worker, Ask, Open, Receive, Finish, Break, Paste, NextFile, GivesUp,
                  serverVars, Typed, TypeOK
    <2>3. dir'[d] = dir[d]
      BY <1>1 DEF Take, Worker, Ask, Open, Receive, Finish, Break, Paste, Typed, TypeOK
    <2>4. \A r \in requests' : r.client = d /\ r.live => r \in requests
      <3>1. CASE Ask(c)
        BY <1>1, <3>1 DEF Ask
      <3>2. CASE Break(c)
        <4>1. \A q \in Abandoned(c) : [q EXCEPT !.live = FALSE].live = FALSE
          BY DEF Abandoned, Typed, TypeOK, Request
        <4> QED BY <3>2, <4>1 DEF Break
      <3>3. CASE UNCHANGED requests
        BY <3>3
      <3> QED BY <3>1, <3>2, <3>3 DEF Take, Worker, Open, Receive, Finish, Paste, serverVars
    <2>5. Asked(d)'
      BY <2>1, <2>2, <2>4, StillAsked DEF Delivered
    <2> QED BY <2>1, <2>2, <2>3, <2>5, Untouched
  <1>2. Delivered(c)'
    <2>0. Delivered(c)
      BY DEF Delivery
    <2>1. CASE Take(c) \/ Paste(c)
      <3>1. got'[c] = <<>> /\ Len(got'[c]) = 0 /\ pc[c] \in {"idle", "paste"}
        BY <2>1, Ranges DEF Take, Paste, Typed, TypeOK, Progress
      <3>2. stream'[c] = NoStream /\ \A r \in requests' : ~(r.client = c /\ r.live)
        BY <2>1, <3>1 DEF Take, Paste, serverVars, OneCall
      <3> QED BY <3>1, <3>2 DEF Delivered, Asked, Answered, Arriving
    <2>2. CASE Ask(c)
      <3> DEFINE new == [client |-> c, path |-> Current(c), admitted |-> FALSE, live |-> TRUE]
      <3>1. /\ requests' = requests \cup {new} /\ new.path = Current(c)
            /\ UNCHANGED <<key, list, got, dir, stream>> /\ pc'[c] = "wait"
        BY <2>2 DEF Ask, Typed, TypeOK
      <3>2. \A r \in requests : ~(r.client = c /\ r.live)
        BY <2>2 DEF Ask, OneCall
      <3> HIDE DEF new
      <3>3. Asked(c)'
        BY <3>1, <3>2 DEF Asked, Current
      <3> QED BY <2>0, <3>1, <3>3, Untouched
    <2>3. CASE Break(c)
      <3>1. /\ UNCHANGED <<key, list, got, dir>> /\ pc'[c] = "paste" /\ stream'[c] = NoStream
        BY <2>3 DEF Break, GivesUp, Typed, TypeOK
      <3>2. Asked(c)'
        BY <3>1 DEF OneCall, Asked
      <3> QED BY <2>0, <3>1, <3>2, Untouched
    <2> QED BY <2>0, <2>1, <2>2, <2>3, OpenDelivery, ReceiveDelivery, FinishDelivery DEF Worker
  <1> QED BY <1>1, <1>2 DEF Delivery

LEMMA ServeDelivery ==
  ASSUME Typed, OneCall, Delivery, NEW r \in requests, Serve(r)
  PROVE  Delivery'
  <1>0. r \in Request /\ r.client \in Clients
    BY DEF Typed, TypeOK, Request
  <1>1. /\ UNCHANGED <<key, list, got, dir>>
        /\ \A c \in Clients : pc'[c] = "body" => pc[c] = "body"
    BY <1>0 DEF Serve, Admit, RefusePeer, RefuseFile, ServePlain, ServeEncrypted, Refused,
                clientVars, Typed, TypeOK
  <1>2. \A q \in requests' : \E s \in requests :
          q.client = s.client /\ q.live = s.live /\ q.path = s.path
    <2> DEFINE new == [r EXCEPT !.admitted = TRUE]
    <2>1. new.client = r.client /\ new.live = r.live /\ new.path = r.path
      BY <1>0 DEF Request
    <2> HIDE DEF new
    <2>2. requests' \subseteq requests \cup {new}
      BY DEF Serve, Admit, RefusePeer, RefuseFile, ServePlain, ServeEncrypted, Refused, Drop, new
    <2> QED BY <2>1, <2>2
  <1>3. ASSUME NEW c \in Clients PROVE Delivered(c) /\ Asked(c)'
    BY <1>1, <1>2, StillAsked DEF Delivery, Delivered
  <1>4. ASSUME NEW c \in Clients, stream'[c] = stream[c] PROVE Delivered(c)'
    BY <1>1, <1>3, <1>4, Untouched
  <1>5. ASSUME NEW t \in Temps \cup {NoTemp}, t = NoTemp <=> key[Origin] = NoKey,
               Respond(r, t), Servable(r), UNCHANGED pc
        PROVE  Delivery'
    <2>1. CASE ~r.live
      BY <1>4, <1>5, <2>1 DEF Respond, Delivery
    <2>2. CASE r.live
      <3> DEFINE c == r.client
      <3>1. pc[c] = "wait" /\ r.path = Current(c) /\ key[c] = key[Origin]
        BY <1>0, <1>3, <1>5, <2>2 DEF OneCall, Delivered, Asked, Servable
      <3>2. /\ stream'[c].path = r.path /\ stream'[c].temp = t
            /\ \A d \in Clients \ {c} : stream'[d] = stream[d]
        BY <1>0, <1>5, <2>2 DEF Respond, Typed, TypeOK
      <3> HIDE DEF c
      <3>3. c \in Clients
        BY <1>0 DEF c
      <3>4. Delivered(c)'
        <4>1. Answered(c)'
          BY <1>1, <1>5, <3>1, <3>2 DEF Answered, Current
        <4>2. Arriving(c)'
          BY <1>5, <3>1 DEF Arriving
        <4>3. \A i \in 1..Len(got'[c]) : AsListed(c, i)'
          BY <1>1, <1>3, <3>3 DEF Delivered, AsListed, Namesakes, Upcoming, Opened
        <4> QED BY <1>3, <3>3, <4>1, <4>2, <4>3 DEF Delivered
      <3> QED BY <1>4, <3>2, <3>4 DEF Delivery
    <2> QED BY <2>1, <2>2
  <1>6. CASE ServePlain(r)
    BY <1>5, <1>6 DEF ServePlain, clientVars
  <1>7. CASE ServeEncrypted(r)
    <2>1. PICK t \in Temps : Respond(r, t)
      BY <1>7 DEF ServeEncrypted, FreshName
    <2> QED BY <1>5, <1>7, <2>1 DEF ServeEncrypted, clientVars
  <1>8. CASE UNCHANGED stream
    BY <1>4, <1>8 DEF Delivery
  <1> QED BY <1>6, <1>7, <1>8 DEF Serve, Admit, RefusePeer, RefuseFile, Refused

LEMMA StepDelivery ==
  Typed /\ OneCall /\ OneCall' /\ PrivateCopy /\ Delivery /\ [Next]_vars => Delivery'
  <1> SUFFICES ASSUME Typed, OneCall, OneCall', PrivateCopy, Delivery, [Next]_vars
               PROVE  Delivery'
    OBVIOUS
  <1>1. ASSUME UNCHANGED <<key, clientVars>>, requests' \subseteq requests,
               \A c \in Clients : stream'[c] \in {stream[c], NoStream}
        PROVE  Delivery'
    <2> SUFFICES ASSUME NEW c \in Clients PROVE Delivered(c)'
      BY DEF Delivery
    <2>1. Delivered(c)
      BY DEF Delivery
    <2>2. Asked(c)'
      BY <1>1, <2>1, StillAsked DEF Delivered, clientVars
    <2> QED BY <1>1, <2>1, <2>2, Untouched DEF clientVars
  <1>2. CASE UNCHANGED vars
    BY <1>1, <1>2 DEF vars, serverVars
  <1>3. CASE User
    BY <1>1, <1>3 DEF User, Share, Lapse, Edit, Delete, serverVars
  <1>4. ASSUME NEW c \in Clients, Revoke(c) \/ Authorize(c) PROVE Delivery'
    BY <1>1, <1>4 DEF Revoke, Authorize, serverVars
  <1>5. ASSUME NEW t \in Temps, Cleanup(t) PROVE Delivery'
    BY <1>1, <1>5 DEF Cleanup
  <1>6. CASE Restart
    BY <1>1, <1>6 DEF Restart
  <1> QED BY <1>2, <1>3, <1>4, <1>5, <1>6, WorkerDelivery, ServeDelivery DEF Next

(* What a worker is about to paste are the first names of its list, in order, *)
(* complete and decrypted, and with keys one version each; the two exceptions *)
(* of PastedAsListed are those of files that share a base name.               *)
THEOREM PastesWhatIsListed == Spec => []PastedAsListed
  <1>1. Init => Delivery
    BY InitDelivery
  <1>2. (Typed /\ OneCall /\ Copying) /\ (Typed /\ OneCall /\ Copying)' /\ Delivery
          /\ [Next]_vars => Delivery'
    BY StepDelivery DEF Copying
  <1>3. Delivery => PastedAsListed
    BY DEF Delivery, Delivered, AsListed, PastedAsListed
  <1> QED BY <1>1, <1>2, <1>3, CopyInvariant, PTL DEF Spec

-----------------------------------------------------------------------------
(* The strengthening for freshness: every chunk of a file that has arrived or *)
(* is arriving, and the copy that is streamed, are of a version the file had  *)
(* after the worker took its list.                                            *)
Recent(c, path, v) == v \in since[c][path]..version[path]
AllRecent(c, content) == \A j \in 1..Len(content) : Recent(c, content[j].path, content[j].version)

FreshFor(c) ==
  /\ \A p \in Paths : Recent(c, p, version[p])
  /\ \A i \in 1..Len(got[c]) : AllRecent(c, dir[c][got[c][i]])
  /\ stream[c] # NoStream => Recent(c, stream[c].path, stream[c].made)
  /\ pc[c] = "body" /\ stream[c] # NoStream => AllRecent(c, dir[c][SavedAs(c)])

Freshness == \A c \in Clients : FreshFor(c)

LEMMA InitFreshness == Init => Freshness
  <1> SUFFICES ASSUME Init, NEW c \in Clients PROVE FreshFor(c)
    BY DEF Freshness
  <1>1. got[c] = <<>> /\ stream[c] = NoStream /\ \A p \in Paths : since[c][p] = 0 /\ version[p] = 0
    BY DEF Init, Unedited
  <1> QED BY <1>1, Ranges DEF FreshFor, Recent

(* Files are only edited, so what is recent stays so during the download.     *)
LEMMA VersionsGrow ==
  ASSUME Typed, [Next]_vars
  PROVE  \A p \in Paths : version[p] \in Nat /\ version'[p] \in Nat /\ version[p] <= version'[p]
  <1>1. version \in [Paths -> Nat] /\ version' \in [Paths -> Nat]
    BY StepTyped DEF Typed, TypeOK
  <1>2. CASE UNCHANGED version
    BY <1>1, <1>2
  <1>3. ASSUME NEW q \in Paths, Edit(q)
        PROVE  \A p \in Paths : version[p] <= version'[p]
    <2>1. version' = [version EXCEPT ![q] = version[q] + 1]
      BY <1>3 DEF Edit
    <2> QED BY <1>1, <2>1
  <1> QED BY <1>1, <1>2, <1>3
          DEF Next, vars, fileVars, User, Share, Lapse, Delete, Revoke, Authorize, Take, Worker,
              Ask, Open, Receive, Finish, Break, Paste, Serve, Admit, RefusePeer, RefuseFile,
              Refused, ServePlain, ServeEncrypted, Cleanup, Restart

LEMMA RecentKept ==
  ASSUME Typed, [Next]_vars, NEW c \in Clients, since'[c] = since[c],
         NEW p \in Paths, NEW v \in Nat, Recent(c, p, v)
  PROVE  Recent(c, p, v)' /\ Recent(c, p, version[p])'
  <1>1. since[c][p] \in Nat
    BY DEF Typed, TypeOK
  <1>2. version[p] \in Nat /\ version'[p] \in Nat /\ version[p] <= version'[p]
    BY VersionsGrow
  <1>3. since[c][p] <= v /\ v <= version[p]
    BY <1>1, <1>2 DEF Recent
  <1> QED BY <1>1, <1>2, <1>3 DEF Recent

LEMMA StillRecent ==
  ASSUME Typed, [Next]_vars, NEW c \in Clients, since'[c] = since[c],
         NEW content \in Seq(Chunk), AllRecent(c, content)
  PROVE  AllRecent(c, content)'
  <1> SUFFICES ASSUME NEW j \in 1..Len(content)
               PROVE  Recent(c, content[j].path, content[j].version)'
    BY DEF AllRecent
  <1>1. content[j] \in Chunk /\ content[j].path \in Paths /\ content[j].version \in Nat
    <2>1. content[j] \in Chunk
      OBVIOUS
    <2> QED BY <2>1 DEF Chunk
  <1>2. Recent(c, content[j].path, content[j].version)
    BY DEF AllRecent
  <1> QED BY <1>1, <1>2, RecentKept

LEMMA FileRecent ==
  ASSUME Typed, [Next]_vars, NEW c \in Clients, since'[c] = since[c], NEW n \in Saved,
         AllRecent(c, dir[c][n]), dir'[c][n] = dir[c][n]
  PROVE  AllRecent(c, dir[c][n])'
  <1>1. PICK content \in Seq(Chunk) : content = dir[c][n]
    BY DEF Typed, TypeOK
  <1>2. AllRecent(c, content)'
    BY <1>1, StillRecent
  <1> QED BY <1>1, <1>2 DEF AllRecent

(* What is left to show of a step of the client that writes files.            *)
LEMMA FilesWritten ==
  ASSUME Typed, [Next]_vars, NEW c \in Clients, FreshFor(c), since'[c] = since[c],
         stream'[c] \in {stream[c], NoStream},
         \A i \in 1..Len(got'[c]) : AllRecent(c, dir[c][got[c][i]])',
         pc'[c] = "body" /\ stream'[c] # NoStream => AllRecent(c, dir[c][SavedAs(c)])'
  PROVE  FreshFor(c)'
  <1>1. \A p \in Paths : Recent(c, p, version[p])'
    BY RecentKept DEF FreshFor, Typed, TypeOK
  <1>2. ASSUME stream'[c] # NoStream PROVE Recent(c, stream[c].path, stream[c].made)'
    <2>1. stream'[c] = stream[c] /\ stream[c].path \in Paths /\ stream[c].made \in Nat
      BY <1>2, StreamType
    <2>2. Recent(c, stream[c].path, stream[c].made)
      BY <1>2, <2>1 DEF FreshFor
    <2>3. PICK q \in Paths, w \in Nat : q = stream[c].path /\ w = stream[c].made
      BY <2>1
    <2>4. Recent(c, q, w)'
      BY <2>2, <2>3, RecentKept
    <2> QED BY <2>1, <2>3, <2>4 DEF Recent
  <1> QED BY <1>1, <1>2 DEF FreshFor

(* A step of others leaves the client's files as recent as they were.         *)
LEMMA FreshElsewhere ==
  ASSUME Typed, [Next]_vars, NEW c \in Clients, FreshFor(c),
         since'[c] = since[c], got'[c] = got[c], dir'[c] = dir[c],
         stream'[c] \in {stream[c], NoStream}, pc'[c] = "body" => pc[c] = "body"
  PROVE  FreshFor(c)'
  <1>1. \A n \in Saved : AllRecent(c, dir[c][n]) => AllRecent(c, dir[c][n])'
    BY FileRecent
  <1>2. \A i \in 1..Len(got'[c]) : AllRecent(c, dir[c][got[c][i]])'
    <2> SUFFICES ASSUME NEW i \in 1..Len(got[c]) PROVE AllRecent(c, dir[c][got[c][i]])'
      OBVIOUS
    <2>1. PICK n \in Saved : n = got[c][i]
      BY DEF Typed, TypeOK
    <2>2. AllRecent(c, dir[c][n])'
      BY <1>1, <2>1 DEF FreshFor
    <2> QED BY <2>1, <2>2 DEF AllRecent
  <1>3. ASSUME pc'[c] = "body", stream'[c] # NoStream PROVE AllRecent(c, dir[c][SavedAs(c)])'
    <2>1. PICK n \in Saved : n = SavedAs(c)
      BY <1>3, StreamType
    <2>2. AllRecent(c, dir[c][n])' /\ SavedAs(c)' = n
      BY <1>1, <1>3, <2>1 DEF FreshFor, SavedAs
    <2> QED BY <2>2 DEF AllRecent
  <1> QED BY <1>2, <1>3, FilesWritten

LEMMA OpenFreshness ==
  ASSUME Typed, [Next]_vars, NEW c \in Clients, FreshFor(c), Open(c)
  PROVE  FreshFor(c)'
  <1>1. /\ SavedAs(c) \in Saved /\ dir[c] \in [Saved -> Seq(Chunk)] /\ SavedAs(c)' = SavedAs(c)
        /\ \A n \in Saved : dir'[c][n] = IF n = SavedAs(c) THEN <<>> ELSE dir[c][n]
        /\ UNCHANGED <<since, got, stream>>
    BY StreamType DEF Open, Truncated, SavedAs, serverVars, Typed, TypeOK
  <1>2. AllRecent(c, <<>>)'
    BY Ranges DEF AllRecent
  <1>3. ASSUME NEW n \in Saved, AllRecent(c, dir[c][n]) PROVE AllRecent(c, dir[c][n])'
    <2>1. CASE n = SavedAs(c)
      BY <1>1, <1>2, <2>1 DEF AllRecent
    <2>2. CASE n # SavedAs(c)
      BY <1>1, <1>3, <2>2, FileRecent
    <2> QED BY <2>1, <2>2
  <1>4. \A i \in 1..Len(got'[c]) : AllRecent(c, dir[c][got[c][i]])'
    <2> SUFFICES ASSUME NEW i \in 1..Len(got[c]) PROVE AllRecent(c, dir[c][got[c][i]])'
      BY <1>1
    <2>1. PICK n \in Saved : n = got[c][i]
      BY DEF Typed, TypeOK
    <2>2. AllRecent(c, dir[c][n])'
      BY <1>3, <2>1 DEF FreshFor
    <2> QED BY <1>1, <2>1, <2>2 DEF AllRecent
  <1>5. AllRecent(c, dir[c][SavedAs(c)])'
    BY <1>1, <1>2 DEF AllRecent
  <1> QED BY <1>1, <1>4, <1>5, FilesWritten

LEMMA ReceiveFreshness ==
  ASSUME Typed, [Next]_vars, PrivateCopy, NEW c \in Clients, FreshFor(c), Receive(c)
  PROVE  FreshFor(c)'
  <1> DEFINE had == dir[c][SavedAs(c)]
             chunk == NextChunk(c)
             new == Append(had, chunk)
  <1>1. /\ SavedAs(c) \in Saved /\ dir[c] \in [Saved -> Seq(Chunk)] /\ stream[c] # NoStream
        /\ pc[c] = "body" /\ stream[c].path \in Paths
        /\ stream[c].temp # NoTemp => stream[c].temp \in Temps
    BY StreamType DEF Receive, Typed, TypeOK
  <1>2. \A n \in Saved : dir'[c][n] = IF n = SavedAs(c) THEN new ELSE dir[c][n]
    BY <1>1 DEF Receive, Typed, TypeOK
  <1>3. UNCHANGED <<since, got, stream, pc>> /\ SavedAs(c)' = SavedAs(c)
    BY DEF Receive, serverVars, SavedAs
  <1>4. had \in Seq(Chunk) /\ chunk \in Chunk /\ AllRecent(c, had)
    BY <1>1, Ranges DEF Receive, NextChunk, Typed, TypeOK, Chunk, Copy, FreshFor
  <1>5. Recent(c, chunk.path, chunk.version)
    <2>1. CASE stream[c].temp = NoTemp
      BY <1>1, <2>1 DEF NextChunk, FreshFor
    <2>2. CASE stream[c].temp # NoTemp
      <3>1. chunk = [path |-> stream[c].path, version |-> stream[c].made, lock |-> key[Origin]]
        BY <1>1, <2>2 DEF NextChunk, PrivateCopy
      <3>2. chunk.path = stream[c].path /\ chunk.version = stream[c].made
        BY <3>1
      <3> QED BY <1>1, <3>2 DEF FreshFor
    <2> QED BY <2>1, <2>2
  <1> HIDE DEF had, chunk
  <1>6. new \in Seq(Chunk) /\ AllRecent(c, new)
    <2>1. new \in Seq(Chunk) /\ Len(new) = Len(had) + 1 /\ Len(had) \in Nat
          /\ new[Len(had) + 1] = chunk /\ \A j \in 1..Len(had) : new[j] = had[j]
      BY <1>4
    <2> HIDE DEF new
    <2>2. \A j \in 1..Len(new) : j = Len(had) + 1 \/ j \in 1..Len(had)
      BY <2>1
    <2> QED BY <1>4, <1>5, <2>1, <2>2 DEF AllRecent
  <1> HIDE DEF new
  <1>7. AllRecent(c, dir[c][SavedAs(c)])'
    <2>1. PICK content \in Seq(Chunk) : content = new
      BY <1>6
    <2>2. AllRecent(c, content)'
      BY <1>3, <1>6, <2>1, StillRecent
    <2> QED BY <1>1, <1>2, <1>3, <2>1, <2>2 DEF AllRecent
  <1>8. \A i \in 1..Len(got'[c]) : AllRecent(c, dir[c][got[c][i]])'
    <2> SUFFICES ASSUME NEW i \in 1..Len(got[c]) PROVE AllRecent(c, dir[c][got[c][i]])'
      BY <1>3
    <2>1. PICK n \in Saved : n = got[c][i]
      BY DEF Typed, TypeOK
    <2>2. CASE n = SavedAs(c)
      BY <1>3, <1>7, <2>1, <2>2 DEF AllRecent
    <2>3. CASE n # SavedAs(c)
      <3>1. AllRecent(c, dir[c][n]) /\ dir'[c][n] = dir[c][n]
        BY <1>2, <2>1, <2>3 DEF FreshFor
      <3>2. AllRecent(c, dir[c][n])'
        BY <1>3, <3>1, FileRecent
      <3> QED BY <1>3, <2>1, <3>2 DEF AllRecent
    <2> QED BY <2>2, <2>3
  <1> QED BY <1>3, <1>7, <1>8, FilesWritten

LEMMA FinishFreshness ==
  ASSUME Typed, [Next]_vars, NEW c \in Clients, FreshFor(c), Finish(c)
  PROVE  FreshFor(c)'
  <1>1. /\ SavedAs(c) \in Saved /\ Base[stream[c].path] \in Saved
        /\ stream[c] # NoStream /\ pc[c] = "body" /\ dir[c] \in [Saved -> Seq(Chunk)]
    BY StreamType DEF Finish, Typed, TypeOK
  <1>2. PICK content \in Seq(Chunk) :
          content = dir[c][SavedAs(c)] /\ Len(content) = 2 /\ AllRecent(c, content)
    BY <1>1, Ranges DEF Finish, FreshFor
  <1>3. PICK saved \in Saved, name \in Saved : saved = SavedAs(c) /\ name = Base[stream[c].path]
    BY <1>1
  <1>4. stream'[c] = NoStream /\ since' = since
    BY DEF Finish, Typed, TypeOK
  <1>5. AllRecent(c, Unlocked(content))' /\ AllRecent(c, content)' /\ AllRecent(c, <<>>)'
    <2>1. \A i \in 1..2 : content[i] \in Chunk
      BY <1>2
    <2>2. \A i \in 1..2 : [content[i] EXCEPT !.lock = NoKey] \in Chunk
      BY <2>1, Ranges DEF Chunk
    <2>3. Unlocked(content) = [i \in 1..2 |-> [content[i] EXCEPT !.lock = NoKey]]
      BY <1>2 DEF Unlocked
    <2>4. Len(Unlocked(content)) = 2
      BY <2>2, <2>3, TwoChunks
    <2>5. \A i \in 1..2 : /\ Unlocked(content)[i].path = content[i].path
                          /\ Unlocked(content)[i].version = content[i].version
      BY <2>1, <2>3 DEF Chunk
    <2>6. AllRecent(c, content)'
      BY <1>2, <1>4, StillRecent
    <2> QED BY <1>2, <2>4, <2>5, <2>6, Ranges DEF AllRecent
  <1>6. ASSUME NEW n \in Saved, AllRecent(c, dir[c][n]) PROVE AllRecent(c, dir[c][n])'
    <2>1. dir'[c][n] \in {dir[c][n], <<>>, Unlocked(content)}
      <3>1. CASE UNCHANGED dir
        BY <3>1
      <3>2. CASE dir' = [dir EXCEPT ![c] = [@ EXCEPT ![saved] = <<>>,
                                                     ![name] = Unlocked(content)]]
        BY <1>1, <3>2 DEF Typed, TypeOK
      <3> QED BY <1>2, <1>3, <3>1, <3>2 DEF Finish
    <2>2. CASE dir'[c][n] = dir[c][n]
      BY <1>4, <1>6, <2>2, FileRecent
    <2>3. CASE dir'[c][n] \in {<<>>, Unlocked(content)}
      BY <1>5, <2>3 DEF AllRecent
    <2> QED BY <2>1, <2>2, <2>3
  <1>7. ASSUME NEW x \in {saved, name}, NextFile(c, x), AllRecent(c, dir[c][x])'
        PROVE  \A i \in 1..Len(got'[c]) : AllRecent(c, dir[c][got[c][i]])'
    <2> SUFFICES ASSUME NEW i \in 1..Len(got'[c]) PROVE AllRecent(c, dir[c][got[c][i]])'
      OBVIOUS
    <2>1. got[c] \in Seq(Saved) /\ got'[c] = Append(got[c], x)
      BY <1>7 DEF NextFile, Typed, TypeOK
    <2>2. CASE i \in 1..Len(got[c])
      <3>1. PICK n \in Saved : n = got[c][i] /\ n = got'[c][i]
        BY <2>1, <2>2
      <3>2. AllRecent(c, dir[c][n])'
        BY <1>6, <2>2, <3>1 DEF FreshFor
      <3> QED BY <3>1, <3>2 DEF AllRecent
    <2>3. CASE i \notin 1..Len(got[c])
      <3>1. got'[c][i] = x
        BY <2>1, <2>3
      <3> QED BY <1>7, <3>1 DEF AllRecent
    <2> QED BY <2>2, <2>3
  <1>8. \A i \in 1..Len(got'[c]) : AllRecent(c, dir[c][got[c][i]])'
    <2>1. CASE NextFile(c, saved) /\ UNCHANGED dir
      <3>1. AllRecent(c, dir[c][saved])'
        BY <1>2, <1>3, <1>5, <2>1 DEF AllRecent
      <3> QED BY <1>7, <2>1, <3>1
    <2>2. CASE NextFile(c, name)
               /\ dir' = [dir EXCEPT ![c] = [@ EXCEPT ![saved] = <<>>, ![name] = Unlocked(content)]]
      <3>1. dir'[c][name] = Unlocked(content)
        BY <1>1, <2>2 DEF Typed, TypeOK
      <3>2. AllRecent(c, dir[c][name])'
        BY <1>5, <3>1 DEF AllRecent
      <3> QED BY <1>7, <2>2, <3>2
    <2>3. CASE GivesUp(c)
      <3> SUFFICES ASSUME NEW i \in 1..Len(got[c]) PROVE AllRecent(c, dir[c][got[c][i]])'
        BY <2>3 DEF GivesUp
      <3>1. PICK n \in Saved : n = got[c][i] /\ n = got'[c][i]
        BY <2>3 DEF GivesUp, Typed, TypeOK
      <3>2. AllRecent(c, dir[c][n])'
        BY <1>6, <3>1 DEF FreshFor
      <3> QED BY <3>1, <3>2 DEF AllRecent
    <2> QED BY <1>2, <1>3, <2>1, <2>2, <2>3 DEF Finish
  <1> QED BY <1>4, <1>8, FilesWritten

LEMMA WorkerFreshness ==
  ASSUME Typed, [Next]_vars, OneCall, PrivateCopy, Freshness,
         NEW c \in Clients, Take(c) \/ Worker(c)
  PROVE  Freshness'
  <1>1. ASSUME NEW d \in Clients, d # c PROVE FreshFor(d)'
    <2>1. FreshFor(d)
      BY DEF Freshness
    <2>2. /\ since'[d] = since[d] /\ got'[d] = got[d] /\ dir'[d] = dir[d] /\ pc'[d] = pc[d]
          /\ stream'[d] = stream[d]
      BY <1>1 DEF Take, Worker, Ask, Open, Receive, Finish, Break, Paste, NextFile, GivesUp,
                  serverVars, Typed, TypeOK
    <2> QED BY <2>1, <2>2, FreshElsewhere
  <1>2. FreshFor(c)
    BY DEF Freshness
  <1>3. CASE Take(c)
    <2>1. got'[c] = <<>> /\ stream'[c] = NoStream /\ since'[c] = version /\ version' = version
      BY <1>3 DEF Take, Typed, TypeOK, Progress, OneCall, serverVars, fileVars
    <2>2. \A p \in Paths : version[p] \in Nat
      BY DEF Typed, TypeOK
    <2> QED BY <1>1, <2>1, <2>2, Ranges DEF Freshness, FreshFor, Recent
  <1>4. CASE Paste(c)
    <2>1. got'[c] = <<>> /\ stream'[c] = NoStream /\ since'[c] = Unedited /\ version' = version
      BY <1>4 DEF Paste, Typed, TypeOK, OneCall, serverVars, fileVars
    <2>2. \A p \in Paths : version[p] \in Nat /\ since'[c][p] = 0
      BY <2>1 DEF Typed, TypeOK, Unedited
    <2> QED BY <1>1, <2>1, <2>2, Ranges DEF Freshness, FreshFor, Recent
  <1>5. CASE Ask(c)
    BY <1>1, <1>2, <1>5, FreshElsewhere DEF Ask, Typed, TypeOK, Freshness
  <1>6. CASE Break(c)
    BY <1>1, <1>2, <1>6, FreshElsewhere DEF Break, GivesUp, Typed, TypeOK, Freshness
  <1> QED BY <1>1, <1>2, <1>3, <1>4, <1>5, <1>6, OpenFreshness, ReceiveFreshness, FinishFreshness
          DEF Worker, Freshness

LEMMA ServeFreshness ==
  ASSUME Typed, [Next]_vars, OneCall, Freshness, NEW r \in requests, Serve(r)
  PROVE  Freshness'
  <1>0. r \in Request /\ r.client \in Clients /\ r.path \in Paths
    BY DEF Typed, TypeOK, Request
  <1>1. /\ UNCHANGED <<since, got, dir, version>>
        /\ \A c \in Clients : pc'[c] = "body" => pc[c] = "body"
    BY <1>0 DEF Serve, Admit, RefusePeer, RefuseFile, ServePlain, ServeEncrypted, Refused,
                clientVars, fileVars, Typed, TypeOK
  <1>2. ASSUME NEW c \in Clients, stream'[c] = stream[c] PROVE FreshFor(c)'
    BY <1>1, <1>2, FreshElsewhere DEF Freshness
  <1>3. ASSUME NEW t \in Temps \cup {NoTemp}, Respond(r, t), UNCHANGED pc PROVE Freshness'
    <2>1. CASE ~r.live
      BY <1>2, <1>3, <2>1 DEF Respond, Freshness
    <2>2. CASE r.live
      <3>1. \A d \in Clients \ {r.client} : FreshFor(d)'
        BY <1>2, <1>3, <2>2 DEF Respond, Typed, TypeOK
      <3>2. /\ stream'[r.client] = [path |-> r.path, temp |-> t, made |-> version[r.path]]
            /\ pc[r.client] = "wait"
        BY <1>0, <1>3, <2>2 DEF Respond, OneCall, Typed, TypeOK
      <3>3. /\ FreshFor(r.client) /\ Recent(r.client, r.path, version[r.path])
        BY <1>0 DEF Freshness, FreshFor
      <3>4. FreshFor(r.client)'
        <4>1. PICK c \in Clients : c = r.client
          BY <1>0
        <4>2. stream'[c].path = r.path /\ stream'[c].made = version[r.path] /\ pc'[c] # "body"
          BY <1>3, <3>2, <4>1
        <4>3. /\ \A p \in Paths : Recent(c, p, version[p])'
              /\ Recent(c, r.path, version[r.path])'
          BY <1>0, <1>1, <3>3, <4>1 DEF FreshFor, Recent
        <4>4. \A i \in 1..Len(got'[c]) : AllRecent(c, dir[c][got[c][i]])'
          <5> SUFFICES ASSUME NEW i \in 1..Len(got[c])
                       PROVE  AllRecent(c, dir[c][got[c][i]])'
            BY <1>1
          <5>1. PICK n \in Saved : n = got[c][i] /\ n = got'[c][i]
            BY <1>1 DEF Typed, TypeOK
          <5>2. AllRecent(c, dir[c][n])'
            BY <1>1, <3>3, <4>1, <5>1, FileRecent DEF FreshFor
          <5> QED BY <5>1, <5>2 DEF AllRecent
        <4>5. Recent(c, stream[c].path, stream[c].made)'
          BY <1>1, <4>2, <4>3 DEF Recent
        <4> QED BY <4>1, <4>2, <4>3, <4>4, <4>5 DEF FreshFor
      <3> QED BY <3>1, <3>4 DEF Freshness
    <2> QED BY <2>1, <2>2
  <1>4. CASE ServePlain(r)
    BY <1>3, <1>4 DEF ServePlain, clientVars
  <1>5. CASE ServeEncrypted(r)
    <2>1. PICK t \in Temps : Respond(r, t)
      BY <1>5 DEF ServeEncrypted, FreshName
    <2> QED BY <1>3, <1>5, <2>1 DEF ServeEncrypted, clientVars
  <1>6. CASE UNCHANGED stream
    BY <1>2, <1>6 DEF Freshness
  <1> QED BY <1>4, <1>5, <1>6 DEF Serve, Admit, RefusePeer, RefuseFile, Refused

LEMMA StepFreshness ==
  Typed /\ OneCall /\ PrivateCopy /\ Freshness /\ [Next]_vars => Freshness'
  <1> SUFFICES ASSUME Typed, OneCall, PrivateCopy, Freshness, [Next]_vars PROVE Freshness'
    OBVIOUS
  <1>1. ASSUME UNCHANGED <<since, clientVars>>,
               \A c \in Clients : stream'[c] \in {stream[c], NoStream}
        PROVE  Freshness'
    BY <1>1, FreshElsewhere DEF Freshness, clientVars
  <1>2. CASE UNCHANGED vars
    BY <1>1, <1>2 DEF vars, serverVars
  <1>3. CASE User
    BY <1>1, <1>3 DEF User, Share, Lapse, Edit, Delete, serverVars
  <1>4. ASSUME NEW c \in Clients, Revoke(c) \/ Authorize(c) PROVE Freshness'
    BY <1>1, <1>4 DEF Revoke, Authorize, serverVars
  <1>5. ASSUME NEW t \in Temps, Cleanup(t) PROVE Freshness'
    BY <1>1, <1>5 DEF Cleanup
  <1>6. CASE Restart
    BY <1>1, <1>6 DEF Restart
  <1> QED BY <1>2, <1>3, <1>4, <1>5, <1>6, WorkerFreshness, ServeFreshness DEF Next

(* What is pasted was read from the origin after the worker took its list:    *)
(* with PastesWhatIsListed, a download with keys is a snapshot of each file,  *)
(* taken while it ran.                                                        *)
THEOREM PastesFreshFiles == Spec => []PastedFresh
  <1>1. Typed /\ OneCall /\ Copying /\ Freshness /\ [Next]_vars => Freshness'
    BY StepFreshness DEF Copying
  <1>2. Freshness => PastedFresh
    BY DEF Freshness, FreshFor, AllRecent, Recent, PastedFresh
  <1> QED BY <1>1, <1>2, InitFreshness, CopyInvariant, PTL DEF Spec

-----------------------------------------------------------------------------
(* The safety half of TransferEnds: what a worker still has to do, counted in *)
(* files, in positions within a file and in chunks of a body.  Nobody adds to *)
(* it while it downloads, and each step of its own leaves less.               *)
FilesLeft(c) == Len(list[c]) - Len(got[c])
ChunksLeft(c) == IF stream[c] = NoStream THEN 0 ELSE Parts - Len(dir[c][SavedAs(c)])

Left(c) == IF pc[c] = "idle" THEN 0
           ELSE IF pc[c] = "paste" THEN 1
           ELSE IF pc[c] = "body" THEN 6 * FilesLeft(c) + ChunksLeft(c)
           ELSE IF pc[c] = "wait" THEN 6 * FilesLeft(c) + 3
           ELSE 6 * FilesLeft(c) + 4

NoMore(c) == Left(c)' < Left(c) \/ Left(c)' = Left(c)

Advances == [][\A c \in Clients : /\ pc[c] # "idle" => NoMore(c)
                                  /\ Worker(c) => Left(c)' < Left(c)]_vars

USE DEF NoMore

LEMMA LeftRange ==
  ASSUME Typed, NEW c \in Clients
  PROVE  /\ pc[c] \in {"ask", "wait", "body"} => FilesLeft(c) \in Nat /\ FilesLeft(c) >= 1
         /\ ChunksLeft(c) \in 0..2
         /\ Left(c) \in Nat
  <1>1. ASSUME pc[c] \in {"ask", "wait", "body"} PROVE FilesLeft(c) \in Nat /\ FilesLeft(c) >= 1
    <2>1. /\ Len(got[c]) < Len(list[c]) /\ got[c] \in Seq(Saved)
          /\ list[c] \in Lists \cup {<<>>}
      BY <1>1 DEF Typed, TypeOK
    <2>2. Len(got[c]) \in Nat /\ Len(list[c]) \in Nat
      BY <2>1, Ranges
    <2> QED BY <2>1, <2>2 DEF FilesLeft
  <1>2. ChunksLeft(c) \in 0..2
    <2>1. CASE stream[c] = NoStream
      BY <2>1 DEF ChunksLeft
    <2>2. CASE stream[c] # NoStream
      <3>1. SavedAs(c) \in Saved /\ dir[c] \in [Saved -> Seq(Chunk)]
            /\ Len(dir[c][SavedAs(c)]) <= 2
        BY <2>2, StreamType, Ranges DEF Typed, TypeOK
      <3>2. Len(dir[c][SavedAs(c)]) \in Nat
        BY <3>1
      <3>3. ChunksLeft(c) = 2 - Len(dir[c][SavedAs(c)])
        BY <2>2, Ranges DEF ChunksLeft
      <3>4. \A n \in Nat : n <= 2 => 2 - n \in 0..2
        OBVIOUS
      <3> QED BY <3>1, <3>2, <3>3, <3>4
    <2> QED BY <2>1, <2>2
  <1>3. Left(c) \in Nat
    <2>1. pc[c] \in {"idle", "ask", "wait", "body", "paste"}
      BY DEF Typed, TypeOK
    <2> QED BY <1>1, <1>2, <2>1 DEF Left
  <1> QED BY <1>1, <1>2, <1>3

LEMMA LeftElsewhere ==
  ASSUME Typed, NEW c \in Clients, pc'[c] = pc[c], list'[c] = list[c], got'[c] = got[c],
         pc[c] = "body" => stream'[c] = stream[c] /\ dir'[c] = dir[c]
  PROVE  Left(c)' = Left(c)
  BY DEF Left, FilesLeft, ChunksLeft, SavedAs

LEMMA FinishAdvances ==
  ASSUME Typed, NEW c \in Clients, Finish(c)
  PROVE  Left(c)' < Left(c)
  <1>1. /\ pc[c] = "body" /\ stream[c] # NoStream /\ list' = list
        /\ Len(dir[c][SavedAs(c)]) = 2
    BY Ranges DEF Finish
  <1>2. /\ Left(c) = 6 * FilesLeft(c) /\ FilesLeft(c) \in Nat /\ FilesLeft(c) >= 1
    <2>1. FilesLeft(c) \in Nat /\ FilesLeft(c) >= 1
      BY <1>1, LeftRange
    <2>2. ChunksLeft(c) = 0
      BY <1>1, Ranges DEF ChunksLeft
    <2> QED BY <1>1, <2>1, <2>2 DEF Left
  <1>3. ASSUME NEW x \in Saved, NextFile(c, x) PROVE Left(c)' < Left(c)
    <2>1. /\ got'[c] = Append(got[c], x) /\ got[c] \in Seq(Saved)
          /\ pc'[c] = IF LastFile(c) THEN "paste" ELSE "ask"
      BY <1>3 DEF NextFile, Typed, TypeOK
    <2>2. FilesLeft(c)' = FilesLeft(c) - 1
      <3>1. Len(got'[c]) = Len(got[c]) + 1 /\ Len(got[c]) \in Nat
        BY <2>1
      <3>2. Len(list[c]) \in Nat
        BY Ranges DEF Typed, TypeOK
      <3> QED BY <1>1, <3>1, <3>2 DEF FilesLeft
    <2>3. Left(c)' = IF LastFile(c) THEN 1 ELSE 6 * FilesLeft(c)' + 4
      BY <2>1 DEF Left
    <2> QED BY <1>2, <2>2, <2>3
  <1>4. CASE GivesUp(c)
    <2>1. Left(c)' = 1
      BY <1>4 DEF GivesUp, Left, Typed, TypeOK
    <2> QED BY <1>2, <2>1
  <1>5. SavedAs(c) \in Saved /\ Base[stream[c].path] \in Saved
    BY <1>1, StreamType
  <1> QED BY <1>3, <1>4, <1>5 DEF Finish

LEMMA WorkerAdvances ==
  ASSUME Typed, NEW c \in Clients, Worker(c)
  PROVE  Left(c)' < Left(c)
  <1>1. CASE Ask(c)
    <2>1. pc[c] = "ask" /\ pc'[c] = "wait" /\ UNCHANGED <<list, got>>
      BY <1>1 DEF Ask, Typed, TypeOK
    <2>2. Left(c) = 6 * FilesLeft(c) + 4 /\ Left(c)' = 6 * FilesLeft(c) + 3
      BY <2>1 DEF Left, FilesLeft
    <2>3. FilesLeft(c) \in Nat
      BY <2>1, LeftRange
    <2> QED BY <2>2, <2>3
  <1>2. CASE Open(c)
    <2>1. /\ pc[c] = "wait" /\ pc'[c] = "body" /\ UNCHANGED <<list, got, stream>>
          /\ stream[c] # NoStream /\ SavedAs(c) \in Saved
      BY <1>2, StreamType DEF Open, Typed, TypeOK, serverVars
    <2>2. dir'[c][SavedAs(c)] = <<>>
      BY <1>2, <2>1 DEF Open, Truncated, Typed, TypeOK
    <2>3. ChunksLeft(c)' = 2
      BY <2>1, <2>2, Ranges DEF ChunksLeft, SavedAs
    <2>4. Left(c) = 6 * FilesLeft(c) + 3 /\ Left(c)' = 6 * FilesLeft(c) + 2
      BY <2>1, <2>3 DEF Left, FilesLeft
    <2>5. FilesLeft(c) \in Nat
      BY <2>1, LeftRange
    <2> QED BY <2>4, <2>5
  <1>3. CASE Receive(c)
    <2>1. /\ pc[c] = "body" /\ UNCHANGED <<pc, list, got, stream>>
          /\ stream[c] # NoStream /\ SavedAs(c) \in Saved
      BY <1>3, StreamType DEF Receive, serverVars
    <2>2. /\ dir[c][SavedAs(c)] \in Seq(Chunk) /\ NextChunk(c) \in Chunk
          /\ dir'[c][SavedAs(c)] = Append(dir[c][SavedAs(c)], NextChunk(c))
      <3>1. stream[c].path \in Paths /\ (stream[c].temp # NoTemp => stream[c].temp \in Temps)
        BY <2>1, StreamType
      <3>2. NextChunk(c) \in Chunk
        BY <1>3, <3>1, Ranges DEF Receive, NextChunk, Typed, TypeOK, Chunk, Copy
      <3>3. dir[c] \in [Saved -> Seq(Chunk)]
        BY DEF Typed, TypeOK
      <3>4. dir'[c][SavedAs(c)] = Append(dir[c][SavedAs(c)], NextChunk(c))
        BY <1>3, <2>1, <3>3 DEF Receive, Typed, TypeOK
      <3> QED BY <2>1, <3>2, <3>3, <3>4
    <2>3. Len(dir'[c][SavedAs(c)]) = Len(dir[c][SavedAs(c)]) + 1 /\ Len(dir[c][SavedAs(c)]) \in Nat
      BY <2>2
    <2>4. ChunksLeft(c)' = ChunksLeft(c) - 1
      BY <2>1, <2>3, Ranges DEF ChunksLeft, SavedAs
    <2>5. Left(c) = 6 * FilesLeft(c) + ChunksLeft(c) /\ Left(c)' = 6 * FilesLeft(c) + ChunksLeft(c)'
      BY <2>1 DEF Left, FilesLeft
    <2>6. FilesLeft(c) \in Nat /\ ChunksLeft(c) \in 0..2
      BY <2>1, LeftRange
    <2> QED BY <2>4, <2>5, <2>6
  <1>4. CASE Finish(c)
    BY <1>4, FinishAdvances
  <1>5. CASE Break(c)
    <2>1. pc[c] \in {"wait", "body"} /\ pc'[c] = "paste"
      BY <1>5 DEF Break, Waits, GivesUp, Typed, TypeOK
    <2>2. Left(c)' = 1 /\ Left(c) >= 6
      BY <2>1, LeftRange DEF Left
    <2> QED BY <2>2, LeftRange
  <1>6. CASE Paste(c)
    <2>1. pc[c] = "paste" /\ pc'[c] = "idle"
      BY <1>6 DEF Paste, Typed, TypeOK
    <2> QED BY <2>1 DEF Left
  <1> QED BY <1>1, <1>2, <1>3, <1>4, <1>5, <1>6 DEF Worker

LEMMA OthersAdvance ==
  ASSUME Typed, OneCall, Next, NEW d \in Clients, pc[d] # "idle", ~Worker(d)
  PROVE  NoMore(d)
  <1>0. Left(d) \in Nat
    BY LeftRange
  <1>1. ASSUME UNCHANGED <<pc, list, got, dir, stream>> PROVE NoMore(d)
    BY <1>0, <1>1, LeftElsewhere
  <1>2. CASE User \/ \E t \in Temps : Cleanup(t)
    BY <1>1, <1>2 DEF User, Share, Lapse, Edit, Delete, Cleanup, clientVars, serverVars
  <1>3. ASSUME NEW c \in Clients, Revoke(c) \/ Authorize(c) PROVE NoMore(d)
    BY <1>1, <1>3 DEF Revoke, Authorize, clientVars, serverVars
  <1>4. ASSUME NEW c \in Clients, Take(c) \/ Worker(c) PROVE NoMore(d)
    <2>1. c # d
      BY <1>4 DEF Take
    <2>2. /\ list'[d] = list[d] /\ got'[d] = got[d] /\ pc'[d] = pc[d]
          /\ stream'[d] = stream[d] /\ dir'[d] = dir[d]
      BY <1>4, <2>1 DEF Take, Worker, Ask, Open, Receive, Finish, Break, Paste, NextFile,
                        GivesUp, serverVars, Typed, TypeOK
    <2> QED BY <1>0, <2>2, LeftElsewhere
  <1>5. ASSUME NEW r \in requests, Serve(r) PROVE NoMore(d)
    <2>0. r \in Request /\ r.client \in Clients
      BY DEF Typed, TypeOK, Request
    <2>1. CASE Refused(r)
      <3>1. UNCHANGED <<list, got, dir, stream>>
        BY <2>1 DEF Refused
      <3>2. CASE pc'[d] = pc[d]
        BY <1>0, <3>1, <3>2, LeftElsewhere
      <3>3. CASE pc'[d] # pc[d]
        <4>1. pc[d] = "wait" /\ pc'[d] = "paste"
          BY <2>0, <2>1, <3>3 DEF Refused, OneCall, Typed, TypeOK
        <4>2. Left(d)' = 1 /\ Left(d) >= 6
          BY <4>1, LeftRange DEF Left
        <4> QED BY <1>0, <4>2
      <3> QED BY <3>2, <3>3
    <2>2. CASE Admit(r)
      BY <1>1, <2>2 DEF Admit, clientVars
    <2>3. ASSUME NEW t, Respond(r, t), UNCHANGED clientVars PROVE NoMore(d)
      <3>1. pc[d] = "body" => stream'[d] = stream[d]
        BY <2>0, <2>3 DEF Respond, OneCall, Typed, TypeOK
      <3> QED BY <1>0, <2>3, <3>1, LeftElsewhere DEF clientVars
    <2> QED BY <1>5, <2>1, <2>2, <2>3 DEF Serve, RefusePeer, RefuseFile, ServePlain, ServeEncrypted
  <1>6. CASE Restart
    <2>1. UNCHANGED <<pc, list, got, dir>> /\ stream'[d] = NoStream
      BY <1>6 DEF Restart, clientVars
    <2>2. CASE pc[d] = "body"
      <3>1. Left(d)' = 6 * FilesLeft(d) + 0 /\ Left(d) = 6 * FilesLeft(d) + ChunksLeft(d)
        BY <2>1, <2>2 DEF Left, FilesLeft, ChunksLeft
      <3> QED BY <2>2, <3>1, LeftRange
    <2>3. CASE pc[d] # "body"
      BY <1>0, <2>1, <2>3, LeftElsewhere
    <2> QED BY <2>2, <2>3
  <1> QED BY <1>2, <1>3, <1>4, <1>5, <1>6 DEF Next

(* A worker's download only advances, whatever the origin, the other clients  *)
(* and the network do.                                                        *)
THEOREM DownloadAdvances == Spec => Advances
  <1>1. ASSUME Typed, OneCall, Next, NEW c \in Clients
        PROVE  /\ pc[c] # "idle" => NoMore(c)
               /\ Worker(c) => Left(c)' < Left(c)
    <2>2. Worker(c) => Left(c)' < Left(c)
      BY <1>1, WorkerAdvances
    <2>3. pc[c] # "idle" /\ ~Worker(c) => NoMore(c)
      BY <1>1, OthersAdvance
    <2> QED BY <2>2, <2>3
  <1>2. Typed /\ OneCall /\ [Next]_vars =>
          [\A c \in Clients : /\ pc[c] # "idle" => NoMore(c)
                              /\ Worker(c) => Left(c)' < Left(c)]_vars
    BY <1>1
  <1> QED BY <1>2, CopyInvariant, PTL DEF Spec, Advances
=============================================================================
