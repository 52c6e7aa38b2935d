-------------------------- MODULE Discovery_proofs --------------------------
(* Who can become an authorized peer, for any network and any number of stops,*)
(* losses and removals.                                                       *)
EXTENDS Discovery, TLAPS

USE NetworkOK DEF nodeVars, callVars, External

LEMMA CallParts ==
  ASSUME NEW c \in Calls
  PROVE  /\ c[1] \in Nodes /\ c[2] \in Nodes /\ c[1] # c[2] /\ c[3] \in Kinds(c[1])
         /\ c = <<c[1], c[2], c[3]>>
  BY DEF Calls

LEMMA Numbers == Attempts \in 0..Attempts /\ 0 \in 0..Attempts /\ Attempts >= 1
  OBVIOUS

(* A call in progress has an attempt left.                                    *)
Calling == \A c \in Calls : stage[c] # "idle" => left[c] >= 1

Typed == TypeOK /\ Calling

LEMMA InitTyped == Init => Typed
  <1> SUFFICES ASSUME Init PROVE Typed
    OBVIOUS
  <1>1. budget \in [External -> Nat]
    BY DEF Init
  <1>2. bootTodo \in [Nodes -> Seq(Nodes)]
    BY DEF Init
  <1> QED BY <1>1, <1>2, Numbers DEF Init, Typed, TypeOK, Calling

LEMMA SpendType ==
  ASSUME Typed, NEW kind \in External, Spend(kind)
  PROVE  budget' \in [External -> Nat]
  BY DEF Spend, Typed, TypeOK

LEMMA MarkTypes ==
  ASSUME Typed, NEW n \in Nodes, NEW m \in Nodes, MarkCandidate(n, m)
  PROVE  candidates' \in [Nodes -> SUBSET Nodes] /\ invited' \in [Nodes -> SUBSET Nodes]
  BY DEF MarkCandidate, Typed, TypeOK

LEMMA AuthorizeTypes ==
  ASSUME Typed, NEW n \in Nodes, NEW m \in Nodes, Authorize(n, m)
  PROVE  /\ candidates' \in [Nodes -> SUBSET Nodes]
         /\ authorized' \in [Nodes -> SUBSET Nodes]
         /\ excused' \subseteq SUBSET Nodes
  BY DEF Authorize, Typed, TypeOK

LEMMA AgainTypes ==
  ASSUME Typed, NEW c \in Calls, stage[c] # "idle", Again(c)
  PROVE  /\ stage' \in [Calls -> {"idle", "try", "accepted", "refused"}]
         /\ left' \in [Calls -> 0..Attempts]
         /\ Calling'
  <1>1. left[c] \in 0..Attempts /\ left[c] >= 1
    BY DEF Typed, TypeOK, Calling
  <1>2. left[c] - 1 \in 0..Attempts /\ (left[c] > 1 => left[c] - 1 >= 1)
    BY <1>1
  <1>3. \A d \in Calls : left'[d] = IF d = c THEN left[c] - 1 ELSE left[d]
    BY DEF Again, Typed, TypeOK
  <1>4. \A d \in Calls :
          stage'[d] = IF d = c THEN (IF left[c] > 1 THEN "try" ELSE "idle") ELSE stage[d]
    BY DEF Again, AnotherAttempt, Typed, TypeOK
  <1>5. Calling'
    BY <1>2, <1>3, <1>4 DEF Typed, Calling
  <1> QED BY <1>2, <1>5 DEF Again, Typed, TypeOK

LEMMA NodeTyped ==
  ASSUME Typed, NEW n \in Nodes, Start(n) \/ Boot(n) \/ Stop(n)
  PROVE  Typed'
  <1> USE DEF Typed
  <1>1. CASE Start(n)
    BY <1>1 DEF Start, TypeOK, Calling
  <1>2. CASE BootNext(n)
    <2> DEFINE m == Head(bootTodo[n])
    <2>1. bootTodo[n] \in Seq(Nodes) /\ bootTodo[n] # <<>>
      BY <1>2 DEF BootNext, TypeOK
    <2>2. m \in Nodes /\ Tail(bootTodo[n]) \in Seq(Nodes)
      BY <2>1
    <2>3. candidates' \in [Nodes -> SUBSET Nodes] /\ invited' \in [Nodes -> SUBSET Nodes]
      BY <1>2, <2>2, MarkTypes DEF BootNext
    <2>4. /\ stage' = [stage EXCEPT ![<<n, m, "boot">>] = "try"]
          /\ left' = [left EXCEPT ![<<n, m, "boot">>] = Attempts]
          /\ bootTodo' = [bootTodo EXCEPT ![n] = Tail(bootTodo[n])]
          /\ UNCHANGED <<phase, authorized, services, seen, heard, known, excused, budget>>
      BY <1>2 DEF BootNext
    <2> HIDE DEF m
    <2>5. Calling'
      BY <2>4, Numbers DEF Calling, TypeOK
    <2>6. /\ stage' \in [Calls -> {"idle", "try", "accepted", "refused"}]
          /\ left' \in [Calls -> 0..Attempts]
          /\ bootTodo' \in [Nodes -> Seq(Nodes)]
      BY <2>2, <2>4, Numbers DEF TypeOK
    <2> QED BY <2>3, <2>4, <2>5, <2>6 DEF TypeOK
  <1>3. CASE Listen(n)
    BY <1>3 DEF Listen, TypeOK, Calling
  <1>4. CASE Stop(n)
    <2>1. budget' \in [External -> Nat]
      BY <1>4, SpendType DEF Stop
    <2>2. /\ phase' \in [Nodes -> {"down", "starting", "up"}]
          /\ bootTodo' \in [Nodes -> Seq(Nodes)]
          /\ candidates' \in [Nodes -> SUBSET Nodes]
          /\ authorized' \in [Nodes -> SUBSET Nodes]
          /\ services' \in [Nodes -> SUBSET Nodes]
      BY <1>4 DEF Stop, TypeOK
    <2>3. /\ seen' \in [Nodes -> SUBSET Nodes]
          /\ heard' \in [Nodes -> SUBSET Nodes]
          /\ known' \in [Nodes -> SUBSET Nodes]
          /\ invited' \in [Nodes -> SUBSET Nodes]
      BY <1>4 DEF Stop, TypeOK
    <2>6. excused' \subseteq SUBSET Nodes
      <3>1. excused' = excused \cup {{n, m} : m \in Nodes \ {n}}
        BY <1>4 DEF Stop
      <3>2. SUFFICES ASSUME NEW pair \in excused' PROVE pair \subseteq Nodes
        OBVIOUS
      <3>3. CASE pair \in excused
        BY <3>3 DEF TypeOK
      <3>4. CASE \E m \in Nodes : pair = {n, m}
        BY <3>4
      <3> QED BY <3>1, <3>3, <3>4
    <2>4. /\ stage' = [c \in Calls |-> IF c[1] = n THEN "idle" ELSE stage[c]]
          /\ left' = [c \in Calls |-> IF c[1] = n THEN 0 ELSE left[c]]
      BY <1>4 DEF Stop
    <2>5. /\ stage' \in [Calls -> {"idle", "try", "accepted", "refused"}]
          /\ left' \in [Calls -> 0..Attempts]
          /\ Calling'
      BY <2>4, Numbers DEF TypeOK, Calling
    <2> QED BY <2>1, <2>2, <2>3, <2>5, <2>6 DEF TypeOK
  <1> QED BY <1>1, <1>2, <1>3, <1>4 DEF Boot

LEMMA CallTyped ==
  ASSUME Typed, NEW c \in Calls, CallStep(c) \/ Lost(c)
  PROVE  Typed'
  <1> USE CallParts DEF Typed
  <1>1. CASE Reach(c)
    <2>1. /\ UNCHANGED <<phase, bootTodo, services, seen, heard, known, left, invited, budget>>
          /\ stage[c] = "try"
      BY <1>1 DEF Reach
    <2>2. \E s \in {"accepted", "refused"} : stage' = [stage EXCEPT ![c] = s]
      BY <1>1 DEF Reach
    <2>3. stage' \in [Calls -> {"idle", "try", "accepted", "refused"}] /\ Calling'
      BY <2>1, <2>2 DEF TypeOK, Calling
    <2>4. /\ candidates' \in [Nodes -> SUBSET Nodes]
          /\ authorized' \in [Nodes -> SUBSET Nodes]
          /\ excused' \subseteq SUBSET Nodes
      <3>1. Authorize(c[2], c[1]) \/ UNCHANGED <<authorized, candidates, excused>>
        BY <1>1 DEF Reach
      <3>2. CASE Authorize(c[2], c[1])
        BY <3>2, AuthorizeTypes
      <3> QED BY <3>1, <3>2 DEF TypeOK
    <2> QED BY <2>1, <2>3, <2>4 DEF TypeOK
  <1>2. CASE NoAnswer(c)
    BY <1>2, AgainTypes DEF NoAnswer, TypeOK
  <1>3. CASE Refused(c)
    BY <1>3, AgainTypes DEF Refused, TypeOK
  <1>4. CASE Lost(c)
    <2>1. budget' \in [External -> Nat]
      BY <1>4, SpendType DEF Lost
    <2>2. excused' \subseteq SUBSET Nodes
      <3>1. excused' \subseteq excused \cup {{c[1], c[2]}}
        BY <1>4 DEF Lost
      <3>2. {c[1], c[2]} \in SUBSET Nodes
        OBVIOUS
      <3> QED BY <3>1, <3>2 DEF TypeOK
    <2> QED BY <1>4, <2>1, <2>2, AgainTypes DEF Lost, TypeOK
  <1>5. CASE Accepted(c)
    <2>1. /\ candidates' \in [Nodes -> SUBSET Nodes]
          /\ authorized' \in [Nodes -> SUBSET Nodes]
          /\ excused' \subseteq SUBSET Nodes
      BY <1>5, AuthorizeTypes DEF Accepted
    <2>2. /\ stage' \in [Calls -> {"idle", "try", "accepted", "refused"}]
          /\ left' \in [Calls -> 0..Attempts]
          /\ Calling'
      BY <1>5, Numbers DEF Accepted, TypeOK, Calling
    <2> QED BY <1>5, <2>1, <2>2 DEF Accepted, TypeOK
  <1> QED BY <1>1, <1>2, <1>3, <1>4, <1>5 DEF CallStep

LEMMA ServiceTyped ==
  ASSUME Typed, NEW n \in Nodes, NEW m \in Nodes,
         \/ Hear(n, m) \/ Resolve(n, m) \/ ResolveFails(n, m)
         \/ RateLimitLapses(n, m) \/ Remove(n, m)
  PROVE  Typed'
  <1> USE DEF Typed
  <1>1. CASE Hear(n, m)
    BY <1>1 DEF Hear, TypeOK, Calling
  <1>2. CASE Resolve(n, m)
    <2>1. candidates' \in [Nodes -> SUBSET Nodes] /\ invited' \in [Nodes -> SUBSET Nodes]
      BY <1>2, MarkTypes DEF Resolve
    <2>2. /\ heard' \in [Nodes -> SUBSET Nodes]
          /\ services' \in [Nodes -> SUBSET Nodes]
          /\ seen' \in [Nodes -> SUBSET Nodes]
          /\ UNCHANGED <<phase, bootTodo, authorized, known, excused, budget>>
      BY <1>2 DEF Resolve, TypeOK
    <2>3. \/ UNCHANGED <<stage, left>>
          \/ \E t : /\ stage' = [stage EXCEPT ![<<n, m, t>>] = "try"]
                   /\ left' = [left EXCEPT ![<<n, m, t>>] = Attempts]
      BY <1>2 DEF Resolve
    <2>4. /\ stage' \in [Calls -> {"idle", "try", "accepted", "refused"}]
          /\ left' \in [Calls -> 0..Attempts]
          /\ Calling'
      <3>1. CASE UNCHANGED <<stage, left>>
        BY <3>1 DEF TypeOK, Calling
      <3>2. ASSUME NEW t, stage' = [stage EXCEPT ![<<n, m, t>>] = "try"],
                   left' = [left EXCEPT ![<<n, m, t>>] = Attempts]
            PROVE  /\ stage' \in [Calls -> {"idle", "try", "accepted", "refused"}]
                   /\ left' \in [Calls -> 0..Attempts]
                   /\ Calling'
        <4>1. Calling'
          BY <3>2, Numbers DEF TypeOK, Calling
        <4> QED BY <3>2, <4>1, Numbers DEF TypeOK
      <3> QED BY <2>3, <3>1, <3>2
    <2> QED BY <2>1, <2>2, <2>4 DEF TypeOK
  <1>3. CASE ResolveFails(n, m)
    <2>1. budget' \in [External -> Nat]
      BY <1>3, SpendType DEF ResolveFails
    <2> QED BY <1>3, <2>1 DEF ResolveFails, TypeOK, Calling
  <1>4. CASE RateLimitLapses(n, m)
    BY <1>4 DEF RateLimitLapses, TypeOK, Calling
  <1>5. CASE Remove(n, m)
    <2>1. budget' \in [External -> Nat]
      BY <1>5, SpendType DEF Remove, TypeOK
    <2>2. /\ candidates' \in [Nodes -> SUBSET Nodes]
          /\ authorized' \in [Nodes -> SUBSET Nodes]
          /\ excused' \subseteq SUBSET Nodes
      <3>1. Revoke(n, m) \/ UNCHANGED <<authorized, candidates, excused>>
        BY <1>5 DEF Remove
      <3>2. CASE Revoke(n, m)
        <4>1. {n, m} \in SUBSET Nodes
          OBVIOUS
        <4>2. excused' \subseteq SUBSET Nodes
          BY <3>2, <4>1 DEF Revoke, TypeOK
        <4>3. candidates' \in [Nodes -> SUBSET Nodes]
          BY <3>2 DEF Revoke, TypeOK
        <4>4. authorized' \in [Nodes -> SUBSET Nodes]
          BY <3>2 DEF Revoke, TypeOK
        <4> QED BY <4>2, <4>3, <4>4
      <3> QED BY <3>1, <3>2 DEF TypeOK
    <2>3. /\ UNCHANGED <<phase, bootTodo, seen, heard, stage, left, invited>>
          /\ known' \in [Nodes -> SUBSET Nodes]
          /\ services' \in [Nodes -> SUBSET Nodes]
      BY <1>5 DEF Remove, TypeOK
    <2> QED BY <2>1, <2>2, <2>3 DEF TypeOK, Calling
  <1> QED BY <1>1, <1>2, <1>3, <1>4, <1>5

LEMMA StepTyped == Typed /\ [Next]_vars => Typed'
  <1> SUFFICES ASSUME Typed, [Next]_vars PROVE Typed'
    OBVIOUS
  <1>1. CASE UNCHANGED vars
    BY <1>1 DEF vars, Typed, TypeOK, Calling
  <1> QED BY <1>1, NodeTyped, CallTyped, ServiceTyped DEF Next

LEMMA AlwaysTyped == Spec => []Typed
  BY InitTyped, StepTyped, PTL DEF Spec

(* Every variable keeps its type, for any network and any budget.             *)
THEOREM DiscoveryTypes == Spec => []TypeOK
  <1>1. Typed => TypeOK
    BY DEF Typed
  <1> QED BY <1>1, AlwaysTyped, PTL

-----------------------------------------------------------------------------
(* The strengthening.  Who is invited is never less than who is authorized or  *)
(* a candidate, where only candidates are let in, or who is being called.     *)
Invited ==
  /\ \A n \in Nodes \ AutoAccept : candidates[n] \subseteq invited[n]
  /\ \A c \in Calls : stage[c] # "idle" => c[2] \in invited[c[1]]
Named == \A n \in Nodes : authorized[n] \subseteq candidates[n]

Admission == Invited /\ Named

(* What one registry operation does to all registries.                        *)
LEMMA Marked ==
  ASSUME Typed, NEW n \in Nodes, NEW m \in Nodes, MarkCandidate(n, m)
  PROVE  /\ candidates'[n] = candidates[n] \cup {m}
         /\ invited'[n] = invited[n] \cup {m}
         /\ \A d \in Nodes \ {n} : candidates'[d] = candidates[d] /\ invited'[d] = invited[d]
  BY DEF MarkCandidate, Typed, TypeOK

LEMMA Authorized ==
  ASSUME Typed, NEW n \in Nodes, NEW m \in Nodes, Authorize(n, m)
  PROVE  /\ candidates'[n] = candidates[n] \cup {m}
         /\ authorized'[n] = authorized[n] \cup {m}
         /\ \A d \in Nodes \ {n} : candidates'[d] = candidates[d] /\ authorized'[d] = authorized[d]
  BY DEF Authorize, Typed, TypeOK

(* An authorization is safe for a peer that is invited or let in by all.      *)
LEMMA AuthorizeAdmission ==
  ASSUME Typed, Admission, NEW n \in Nodes, NEW m \in Nodes, Authorize(n, m),
         n \in AutoAccept \/ m \in invited[n], UNCHANGED invited,
         \A c \in Calls : stage'[c] # "idle" => stage[c] # "idle"
  PROVE  Admission'
  <1>0. /\ candidates'[n] = candidates[n] \cup {m}
        /\ authorized'[n] = authorized[n] \cup {m}
        /\ \A d \in Nodes \ {n} : candidates'[d] = candidates[d] /\ authorized'[d] = authorized[d]
    BY Authorized
  <1>1. Named'
    <2> SUFFICES ASSUME NEW d \in Nodes
                 PROVE  authorized'[d] \subseteq candidates'[d]
      BY DEF Named
    <2>1. CASE d = n
      BY <1>0, <2>1 DEF Admission, Named
    <2>2. CASE d # n
      BY <1>0, <2>2 DEF Admission, Named
    <2> QED BY <2>1, <2>2
  <1>2. \A d \in Nodes \ AutoAccept : candidates'[d] \subseteq invited'[d]
    <2> SUFFICES ASSUME NEW d \in Nodes \ AutoAccept
                 PROVE  candidates'[d] \subseteq invited[d]
      OBVIOUS
    <2>1. CASE d = n
      BY <1>0, <2>1 DEF Admission, Invited
    <2>2. CASE d # n
      BY <1>0, <2>2 DEF Admission, Invited
    <2> QED BY <2>1, <2>2
  <1>3. \A c \in Calls : stage'[c] # "idle" => c[2] \in invited'[c[1]]
    BY DEF Admission, Invited
  <1> QED BY <1>1, <1>2, <1>3 DEF Admission, Invited

LEMMA AgainAdmission ==
  ASSUME Typed, Admission, NEW c \in Calls, stage[c] # "idle", Again(c),
         UNCHANGED <<nodeVars, invited>>
  PROVE  Admission'
  <1>1. \A d \in Calls : stage'[d] # "idle" => stage[d] # "idle"
    BY DEF Again, Typed, TypeOK
  <1>2. \A d \in Calls : stage'[d] # "idle" => d[2] \in invited'[d[1]]
    BY <1>1 DEF Admission, Invited
  <1> QED BY <1>2 DEF Admission, Invited, Named

LEMMA NodeAdmission ==
  ASSUME Typed, Admission, NEW n \in Nodes, Start(n) \/ Boot(n) \/ Stop(n)
  PROVE  Admission'
  <1>1. CASE Start(n)
    BY <1>1 DEF Start, Admission, Invited, Named
  <1>2. CASE BootNext(n)
    <2> DEFINE m == Head(bootTodo[n])
    <2>1. bootTodo[n] \in Seq(Nodes) /\ bootTodo[n] # <<>>
      BY <1>2 DEF BootNext, Typed, TypeOK
    <2>2. m \in Nodes
      BY <2>1
    <2>3. /\ MarkCandidate(n, m)
          /\ stage' = [stage EXCEPT ![<<n, m, "boot">>] = "try"]
          /\ UNCHANGED authorized
      BY <1>2 DEF BootNext
    <2> HIDE DEF m
    <2>4. \A c \in Calls : stage'[c] # "idle" => c[2] \in invited'[c[1]]
      <3> SUFFICES ASSUME NEW c \in Calls, stage'[c] # "idle" PROVE c[2] \in invited'[c[1]]
        OBVIOUS
      <3>1. CASE c = <<n, m, "boot">>
        <4>1. c[1] = n /\ c[2] = m
          BY <3>1
        <4>2. m \in invited'[n]
          BY <2>2, <2>3, Marked
        <4> QED BY <4>1, <4>2
      <3>2. CASE c # <<n, m, "boot">>
        <4>1. stage[c] # "idle"
          BY <2>3, <3>2 DEF Typed, TypeOK
        <4>2. c[1] \in Nodes /\ c[2] \in invited[c[1]]
          BY <4>1, CallParts DEF Admission, Invited
        <4>3. invited[c[1]] \subseteq invited'[c[1]]
          BY <2>2, <2>3, <4>2, Marked
        <4> QED BY <4>2, <4>3
      <3> QED BY <3>1, <3>2
    <2>5. \A d \in Nodes \ AutoAccept : candidates'[d] \subseteq invited'[d]
      BY <2>2, <2>3, Marked DEF Admission, Invited
    <2>6. \A d \in Nodes : candidates[d] \subseteq candidates'[d]
      BY <2>2, <2>3, Marked
    <2>7. Named'
      BY <2>3, <2>6 DEF Admission, Named
    <2> QED BY <2>4, <2>5, <2>7 DEF Admission, Invited
  <1>3. CASE Listen(n)
    BY <1>3 DEF Listen, Admission, Invited, Named
  <1>4. CASE Stop(n)
    <2>1. \A d \in Nodes :
            /\ candidates'[d] = IF d = n THEN {} ELSE candidates[d]
            /\ authorized'[d] = IF d = n THEN {} ELSE authorized[d]
            /\ invited'[d] = IF d = n THEN {} ELSE invited[d]
      BY <1>4 DEF Stop, Typed, TypeOK
    <2>3. \A c \in Calls : stage'[c] # "idle" => stage[c] # "idle" /\ c[1] # n
      BY <1>4 DEF Stop
    <2>4. \A c \in Calls : stage'[c] # "idle" => c[2] \in invited'[c[1]]
      BY <2>1, <2>3, CallParts DEF Admission, Invited
    <2>5. \A d \in Nodes : authorized[d] \subseteq Nodes
      BY DEF Typed, TypeOK
    <2>6. Named'
      BY <2>1, <2>5 DEF Admission, Named
    <2> QED BY <2>1, <2>4, <2>6 DEF Admission, Invited
  <1> QED BY <1>1, <1>2, <1>3, <1>4 DEF Boot

LEMMA CallAdmission ==
  ASSUME Typed, Admission, NEW c \in Calls, CallStep(c) \/ Lost(c)
  PROVE  Admission'
  <1> USE CallParts
  <1>1. CASE Reach(c)
    <2>1. /\ UNCHANGED invited
          /\ stage[c] = "try"
          /\ \E s \in {"accepted", "refused"} : stage' = [stage EXCEPT ![c] = s]
      BY <1>1 DEF Reach
    <2>2. \A d \in Calls : stage'[d] # "idle" => stage[d] # "idle"
      BY <2>1 DEF Typed, TypeOK
    <2>3. CASE CanAccept(c[2], c[1])
      <3>1. Authorize(c[2], c[1])
        BY <1>1, <2>3 DEF Reach
      <3>2. c[2] \in AutoAccept \/ c[1] \in invited[c[2]]
        BY <2>3 DEF CanAccept, Admission, Invited
      <3> QED BY <2>1, <2>2, <3>1, <3>2, AuthorizeAdmission
    <2>4. CASE ~CanAccept(c[2], c[1])
      <3>1. UNCHANGED <<authorized, candidates, excused>>
        BY <1>1, <2>4 DEF Reach
      <3> QED BY <2>1, <2>2, <3>1 DEF Admission, Invited, Named
    <2> QED BY <2>3, <2>4
  <1>2. CASE NoAnswer(c)
    BY <1>2, AgainAdmission DEF NoAnswer
  <1>3. CASE Refused(c)
    BY <1>3, AgainAdmission DEF Refused
  <1>4. CASE Lost(c)
    BY <1>4, AgainAdmission DEF Lost
  <1>5. CASE Accepted(c)
    <2>1. /\ Authorize(c[1], c[2]) /\ UNCHANGED invited
          /\ stage[c] = "accepted"
          /\ stage' = [stage EXCEPT ![c] = "idle"]
      BY <1>5 DEF Accepted
    <2>2. \A d \in Calls : stage'[d] # "idle" => stage[d] # "idle"
      BY <2>1 DEF Typed, TypeOK
    <2>3. c[2] \in invited[c[1]]
      BY <2>1 DEF Admission, Invited
    <2> QED BY <2>1, <2>2, <2>3, AuthorizeAdmission
  <1> QED BY <1>1, <1>2, <1>3, <1>4, <1>5 DEF CallStep

LEMMA ServiceAdmission ==
  ASSUME Typed, Admission, NEW n \in Nodes, NEW m \in Nodes,
         \/ Hear(n, m) \/ Resolve(n, m) \/ ResolveFails(n, m)
         \/ RateLimitLapses(n, m) \/ Remove(n, m)
  PROVE  Admission'
  <1>1. CASE Hear(n, m)
    BY <1>1 DEF Hear, Admission, Invited, Named
  <1>2. CASE Resolve(n, m)
    <2>1. /\ MarkCandidate(n, m) /\ UNCHANGED authorized
          /\ \A c \in Calls : stage'[c] # stage[c] => c[1] = n /\ c[2] = m
      BY <1>2 DEF Resolve, Typed, TypeOK
    <2>2. \A c \in Calls : stage'[c] # "idle" => c[2] \in invited'[c[1]]
      <3> SUFFICES ASSUME NEW c \in Calls, stage'[c] # "idle" PROVE c[2] \in invited'[c[1]]
        OBVIOUS
      <3>1. CASE c[1] = n /\ c[2] = m
        <4>1. m \in invited'[n]
          BY <2>1, Marked
        <4> QED BY <3>1, <4>1
      <3>2. CASE ~(c[1] = n /\ c[2] = m)
        <4>1. stage[c] # "idle"
          BY <2>1, <3>2
        <4>2. c[1] \in Nodes /\ c[2] \in invited[c[1]]
          BY <4>1, CallParts DEF Admission, Invited
        <4>3. invited[c[1]] \subseteq invited'[c[1]]
          BY <2>1, <4>2, Marked
        <4> QED BY <4>2, <4>3
      <3> QED BY <3>1, <3>2
    <2>3. \A d \in Nodes \ AutoAccept : candidates'[d] \subseteq invited'[d]
      <3>1. MarkCandidate(n, m)
        BY <2>1
      <3>2. /\ candidates'[n] = candidates[n] \cup {m}
            /\ invited'[n] = invited[n] \cup {m}
            /\ \A d \in Nodes \ {n} : candidates'[d] = candidates[d] /\ invited'[d] = invited[d]
        BY <3>1, Marked
      <3>3. \A d \in Nodes \ AutoAccept : candidates[d] \subseteq invited[d]
        BY DEF Admission, Invited
      <3> QED BY <3>2, <3>3
    <2>4. Named'
      BY <2>1, Marked DEF Admission, Named
    <2> QED BY <2>2, <2>3, <2>4 DEF Admission, Invited
  <1>3. CASE ResolveFails(n, m)
    BY <1>3 DEF ResolveFails, Admission, Invited, Named
  <1>4. CASE RateLimitLapses(n, m)
    BY <1>4 DEF RateLimitLapses, Admission, Invited, Named
  <1>5. CASE Remove(n, m)
    <2>1. UNCHANGED <<stage, invited>>
      BY <1>5 DEF Remove
    <2>2. Revoke(n, m) \/ UNCHANGED <<authorized, candidates>>
      BY <1>5 DEF Remove
    <2>3. CASE Revoke(n, m)
      <3>1. \A d \in Nodes :
              /\ candidates'[d] = IF d = n THEN candidates[d] \ {m} ELSE candidates[d]
              /\ authorized'[d] = IF d = n THEN authorized[d] \ {m} ELSE authorized[d]
        BY <2>3 DEF Revoke, Typed, TypeOK
      <3> QED BY <2>1, <3>1 DEF Admission, Invited, Named
    <2>4. CASE UNCHANGED <<authorized, candidates>>
      BY <2>1, <2>4 DEF Admission, Invited, Named
    <2> QED BY <2>2, <2>3, <2>4
  <1> QED BY <1>1, <1>2, <1>3, <1>4, <1>5

LEMMA StepAdmission == Typed /\ Admission /\ [Next]_vars => Admission'
  <1> SUFFICES ASSUME Typed, Admission, [Next]_vars PROVE Admission'
    OBVIOUS
  <1>1. CASE UNCHANGED vars
    BY <1>1 DEF vars, Admission, Invited, Named
  <1> QED BY <1>1, NodeAdmission, CallAdmission, ServiceAdmission DEF Next

(* The inductive invariant behind the theorem below.                          *)
THEOREM AdmissionInvariant == Spec => []Admission
  <1>1. Init => Admission
    BY DEF Init, Admission, Invited, Named
  <1> QED BY <1>1, AlwaysTyped, StepAdmission, PTL DEF Spec

(* Without auto_accept nobody is authorized uninvited, in any network.        *)
THEOREM NobodyUninvited == Spec => []OnlyInvited
  <1>1. Admission => OnlyInvited
    BY DEF Admission, Invited, Named, OnlyInvited
  <1> QED BY <1>1, AdmissionInvariant, PTL

-----------------------------------------------------------------------------
(* One-sided authorizations.  The strengthening: an acceptance on its way     *)
(* belongs to an authorization at its sender, or to an excused pair.          *)
Backed == \A c \in Calls :
  stage[c] = "accepted" => c[1] \in authorized[c[2]] \/ {c[1], c[2]} \in excused
Paired == OneSidedExplained /\ Backed

LEMMA AnswerOf ==
  ASSUME NEW n \in Nodes, NEW m \in Nodes, n # m
  PROVE  Answered(n, m) <=> \E c \in Calls : c[1] = m /\ c[2] = n /\ stage[c] = "accepted"
  <1>1. ASSUME NEW kind \in Kinds(m) PROVE <<m, n, kind>> \in Calls
    BY DEF Calls
  <1> QED BY <1>1, CallParts DEF Answered

LEMMA AnswerOfNext ==
  ASSUME NEW n \in Nodes, NEW m \in Nodes, n # m
  PROVE  Answered(n, m)' <=> \E c \in Calls : c[1] = m /\ c[2] = n /\ stage'[c] = "accepted"
  <1>1. ASSUME NEW kind \in Kinds(m) PROVE <<m, n, kind>> \in Calls
    BY DEF Calls
  <1> QED BY <1>1, CallParts DEF Answered

(* A step that accepts nobody, and excuses every pair it takes something from.*)
LEMMA NothingAccepted ==
  ASSUME Typed, Paired, excused \subseteq excused',
         \A n \in Nodes : authorized'[n] \subseteq authorized[n],
         \A n, m \in Nodes : n # m /\ m \in authorized[n] =>
           m \in authorized'[n] \/ {n, m} \in excused',
         \A c \in Calls : stage'[c] = "accepted" => stage[c] = "accepted",
         \A c \in Calls : stage[c] = "accepted" =>
           stage'[c] = "accepted" \/ {c[1], c[2]} \in excused'
  PROVE  Paired'
  <1>1. ASSUME NEW n \in Nodes, NEW m \in authorized'[n]
        PROVE  n \in authorized'[m] \/ Answered(n, m)' \/ {n, m} \in excused'
    <2>1. m \in authorized[n] /\ m \in Nodes
      BY DEF Typed, TypeOK
    <2>2. CASE n = m
      BY <2>2
    <2>3. CASE n # m
      <3>1. n \in authorized[m] \/ Answered(n, m) \/ {n, m} \in excused
        BY <2>1 DEF Paired, OneSidedExplained
      <3>2. CASE n \in authorized[m]
        <4>1. {m, n} = {n, m}
          OBVIOUS
        <4> QED BY <2>1, <2>3, <3>2, <4>1
      <3>3. CASE Answered(n, m)
        <4>1. PICK c \in Calls : c[1] = m /\ c[2] = n /\ stage[c] = "accepted"
          BY <2>1, <2>3, <3>3, AnswerOf
        <4>2. CASE stage'[c] = "accepted"
          BY <2>1, <2>3, <4>1, <4>2, AnswerOfNext
        <4>3. CASE {c[1], c[2]} \in excused'
          <5>1. {c[1], c[2]} = {n, m}
            BY <4>1
          <5> QED BY <4>3, <5>1
        <4> QED BY <4>1, <4>2, <4>3
      <3> QED BY <3>1, <3>2, <3>3
    <2> QED BY <2>2, <2>3
  <1>2. ASSUME NEW c \in Calls, stage'[c] = "accepted"
        PROVE  c[1] \in authorized'[c[2]] \/ {c[1], c[2]} \in excused'
    <2>1. c[1] \in authorized[c[2]] \/ {c[1], c[2]} \in excused
      BY <1>2 DEF Paired, Backed
    <2>2. {c[2], c[1]} = {c[1], c[2]}
      OBVIOUS
    <2> QED BY <2>1, <2>2, CallParts
  <1> QED BY <1>1, <1>2 DEF Paired, OneSidedExplained, Backed

(* n authorizes m, because m calls or has accepted n's call. *)
LEMMA PairAuthorized ==
  ASSUME Typed, Paired, NEW n \in Nodes, NEW m \in Nodes, n # m, Authorize(n, m),
         n \in authorized[m] \/ {n, m} \in excused \/ Answered(n, m)',
         \A c \in Calls : stage'[c] = "accepted" =>
           stage[c] = "accepted" \/ (c[1] = m /\ c[2] = n),
         \A c \in Calls : stage[c] = "accepted" =>
           stage'[c] = "accepted" \/ (c[1] = n /\ c[2] = m)
  PROVE  Paired'
  <1>0. /\ authorized'[n] = authorized[n] \cup {m}
        /\ \A d \in Nodes \ {n} : authorized'[d] = authorized[d]
    BY Authorized
  <1>1. /\ authorized'[n] = authorized[n] \cup {m}
        /\ \A d \in Nodes : authorized[d] \subseteq authorized'[d]
        /\ \A d \in Nodes \ {n} : authorized'[d] = authorized[d]
        /\ \A d \in Nodes : authorized'[d] \subseteq Nodes
    <2>1. ASSUME NEW d \in Nodes
          PROVE  authorized[d] \subseteq authorized'[d] /\ authorized'[d] \subseteq Nodes
      <3>1. authorized[d] \subseteq Nodes
        BY DEF Typed, TypeOK
      <3>2. CASE d = n
        BY <1>0, <3>1, <3>2
      <3>3. CASE d # n
        BY <1>0, <3>1, <3>3
      <3> QED BY <3>2, <3>3
    <2> QED BY <1>0, <2>1
  <1>2. ASSUME NEW pair \in excused, pair \notin excused'
        PROVE  pair = {n, m} /\ n \in authorized'[m] /\ m \in authorized'[n]
    BY <1>1, <1>2 DEF Authorize
  <1>3. ASSUME NEW k \in Nodes, NEW l \in Nodes, {k, l} \in excused
        PROVE  (l \in authorized'[k] /\ k \in authorized'[l]) \/ {k, l} \in excused'
    <2>1. CASE {k, l} \in excused'
      BY <2>1
    <2>2. CASE {k, l} \notin excused'
      <3>1. {k, l} = {n, m} /\ n \in authorized'[m] /\ m \in authorized'[n]
        BY <1>2, <1>3, <2>2
      <3>2. (k = n /\ l = m) \/ (k = m /\ l = n)
        BY <3>1
      <3> QED BY <3>1, <3>2
    <2> QED BY <2>1, <2>2
  <1>4. ASSUME NEW k \in Nodes, NEW l \in authorized'[k]
        PROVE  k \in authorized'[l] \/ Answered(k, l)' \/ {k, l} \in excused'
    <2>0. l \in Nodes
      BY <1>1
    <2>1. CASE k = l
      BY <2>1
    <2>2. CASE k = n /\ l = m
      BY <1>1, <1>3, <2>2
    <2>3. CASE k # l /\ ~(k = n /\ l = m)
      <3>1. l \in authorized[k]
        BY <1>1, <2>3
      <3>2. k \in authorized[l] \/ Answered(k, l) \/ {k, l} \in excused
        BY <3>1 DEF Paired, OneSidedExplained
      <3>3. CASE Answered(k, l)
        <4>1. PICK c \in Calls : c[1] = l /\ c[2] = k /\ stage[c] = "accepted"
          BY <2>0, <2>3, <3>3, AnswerOf
        <4>2. CASE stage'[c] = "accepted"
          BY <2>0, <2>3, <4>1, <4>2, AnswerOfNext
        <4>3. CASE c[1] = n /\ c[2] = m
          BY <1>1, <4>1, <4>3
        <4> QED BY <4>1, <4>2, <4>3
      <3> QED BY <1>1, <1>3, <2>0, <3>2, <3>3
    <2> QED BY <2>1, <2>2, <2>3
  <1>5. ASSUME NEW c \in Calls, stage'[c] = "accepted"
        PROVE  c[1] \in authorized'[c[2]] \/ {c[1], c[2]} \in excused'
    <2>1. CASE c[1] = m /\ c[2] = n
      BY <1>1, <2>1
    <2>2. CASE stage[c] = "accepted"
      <3>1. c[1] \in authorized[c[2]] \/ {c[1], c[2]} \in excused
        BY <2>2 DEF Paired, Backed
      <3> QED BY <1>1, <1>3, <3>1, CallParts
    <2> QED BY <1>5, <2>1, <2>2
  <1> QED BY <1>4, <1>5 DEF Paired, OneSidedExplained, Backed

LEMMA AgainStages ==
  ASSUME Typed, NEW c \in Calls, Again(c)
  PROVE  /\ stage'[c] # "accepted"
         /\ \A d \in Calls \ {c} : stage'[d] = stage[d]
  BY DEF Again, Typed, TypeOK

LEMMA NodePaired ==
  ASSUME Typed, Paired, NEW n \in Nodes, Start(n) \/ Boot(n) \/ Stop(n)
  PROVE  Paired'
  <1>1. CASE Start(n)
    BY <1>1, NothingAccepted DEF Start
  <1>2. CASE BootNext(n)
    <2>1. \A c \in Calls : stage'[c] # stage[c] => stage'[c] = "try" /\ stage[c] = "idle"
      BY <1>2, CallParts DEF BootNext, BootCalls, Typed, TypeOK
    <2>2. UNCHANGED <<authorized, excused>>
      BY <1>2 DEF BootNext
    <2> QED BY <2>1, <2>2, NothingAccepted
  <1>3. CASE Listen(n)
    BY <1>3, NothingAccepted DEF Listen
  <1>4. CASE Stop(n)
    <2>1. \A d \in Nodes : authorized'[d] = IF d = n THEN {} ELSE authorized[d]
      BY <1>4 DEF Stop, Typed, TypeOK
    <2>2. excused' = excused \cup {{n, m} : m \in Nodes \ {n}}
      BY <1>4 DEF Stop
    <2>3. \A c \in Calls : stage'[c] = IF c[1] = n THEN "idle" ELSE stage[c]
      BY <1>4 DEF Stop
    <2>4. ASSUME NEW c \in Calls, c[1] = n PROVE {c[1], c[2]} \in excused'
      BY <2>2, <2>4, CallParts
    <2> QED BY <2>1, <2>2, <2>3, <2>4, NothingAccepted
  <1> QED BY <1>1, <1>2, <1>3, <1>4 DEF Boot

LEMMA CallPaired ==
  ASSUME Typed, Paired, NEW c \in Calls, CallStep(c) \/ Lost(c)
  PROVE  Paired'
  <1> USE CallParts
  <1>1. CASE Reach(c)
    <2>1. /\ stage[c] = "try"
          /\ \A d \in Calls \ {c} : stage'[d] = stage[d]
      BY <1>1 DEF Reach, Typed, TypeOK
    <2>2. CASE CanAccept(c[2], c[1])
      <3>1. Authorize(c[2], c[1]) /\ stage'[c] = "accepted"
        BY <1>1, <2>2 DEF Reach, Typed, TypeOK
      <3>2. Answered(c[2], c[1])'
        BY <3>1, AnswerOfNext
      <3>3. \A d \in Calls : stage'[d] = "accepted" =>
              stage[d] = "accepted" \/ (d[1] = c[1] /\ d[2] = c[2])
        BY <2>1
      <3>4. \A d \in Calls : stage[d] = "accepted" => stage'[d] = "accepted"
        BY <2>1
      <3>5. c[1] \in Nodes /\ c[2] \in Nodes /\ c[1] # c[2]
        OBVIOUS
      <3>6. Authorize(c[2], c[1])
        BY <3>1
      <3> QED BY ONLY Typed, Paired, <3>2, <3>3, <3>4, <3>5, <3>6, PairAuthorized
    <2>3. CASE ~CanAccept(c[2], c[1])
      <3>1. UNCHANGED <<authorized, excused>> /\ stage'[c] = "refused"
        BY <1>1, <2>3 DEF Reach, Typed, TypeOK
      <3> QED BY <2>1, <3>1, NothingAccepted
    <2> QED BY <2>2, <2>3
  <1>2. CASE NoAnswer(c)
    BY <1>2, AgainStages, NothingAccepted DEF NoAnswer
  <1>3. CASE Refused(c)
    BY <1>3, AgainStages, NothingAccepted DEF Refused
  <1>4. CASE Lost(c)
    <2>1. /\ UNCHANGED authorized
          /\ excused' = IF stage[c] = "accepted" THEN excused \cup {{c[1], c[2]}} ELSE excused
      BY <1>4 DEF Lost
    <2>2. Again(c)
      BY <1>4 DEF Lost
    <2> QED BY <2>1, <2>2, AgainStages, NothingAccepted
  <1>5. CASE Accepted(c)
    <2>1. /\ Authorize(c[1], c[2])
          /\ stage[c] = "accepted" /\ stage'[c] = "idle"
          /\ \A d \in Calls \ {c} : stage'[d] = stage[d]
      BY <1>5 DEF Accepted, Typed, TypeOK
    <2>2. c[1] \in authorized[c[2]] \/ {c[1], c[2]} \in excused
      BY <2>1 DEF Paired, Backed
    <2>3. \A d \in Calls : stage[d] = "accepted" =>
            stage'[d] = "accepted" \/ (d[1] = c[1] /\ d[2] = c[2])
      BY <2>1
    <2>4. \A d \in Calls : stage'[d] = "accepted" => stage[d] = "accepted"
      BY <2>1
    <2>5. c[1] \in Nodes /\ c[2] \in Nodes /\ c[1] # c[2]
      OBVIOUS
    <2>6. Authorize(c[1], c[2])
      BY <2>1
    <2> QED BY ONLY Typed, Paired, <2>2, <2>3, <2>4, <2>5, <2>6, PairAuthorized
  <1> QED BY <1>1, <1>2, <1>3, <1>4, <1>5 DEF CallStep

LEMMA ServicePaired ==
  ASSUME Typed, Paired, NEW n \in Nodes, NEW m \in Nodes,
         \/ Hear(n, m) \/ Resolve(n, m) \/ ResolveFails(n, m)
         \/ RateLimitLapses(n, m) \/ Remove(n, m)
  PROVE  Paired'
  <1>1. CASE Hear(n, m)
    BY <1>1, NothingAccepted DEF Hear
  <1>2. CASE Resolve(n, m)
    <2>1. UNCHANGED <<authorized, excused>>
      BY <1>2 DEF Resolve
    <2>2. CASE UNCHANGED stage
      BY <2>1, <2>2, NothingAccepted
    <2>3. CASE \E t \in FreeTasks(n, m) : stage' = [stage EXCEPT ![<<n, m, t>>] = "try"]
      <3>1. \A c \in Calls : stage'[c] # stage[c] => stage'[c] = "try" /\ stage[c] = "idle"
        BY <2>3 DEF FreeTasks, Typed, TypeOK
      <3> QED BY <2>1, <3>1, NothingAccepted
    <2> QED BY <1>2, <2>2, <2>3 DEF Resolve
  <1>3. CASE ResolveFails(n, m)
    BY <1>3, NothingAccepted DEF ResolveFails
  <1>4. CASE RateLimitLapses(n, m)
    BY <1>4, NothingAccepted DEF RateLimitLapses
  <1>5. CASE Remove(n, m)
    <2>1. UNCHANGED stage
      BY <1>5 DEF Remove
    <2>2. CASE Revoke(n, m)
      <3>1. /\ \A d \in Nodes :
                 authorized'[d] = IF d = n THEN authorized[d] \ {m} ELSE authorized[d]
            /\ excused' = excused \cup {{n, m}}
        BY <2>2 DEF Revoke, Typed, TypeOK
      <3>2. \A k, l \in Nodes : k # l /\ l \in authorized[k] =>
              l \in authorized'[k] \/ {k, l} \in excused'
        <4> SUFFICES ASSUME NEW k \in Nodes, NEW l \in authorized[k], l \notin authorized'[k]
                     PROVE  {k, l} \in excused'
          OBVIOUS
        <4>1. k = n /\ l = m
          BY <3>1
        <4> QED BY <3>1, <4>1
      <3>3. excused \subseteq excused' /\ \A k \in Nodes : authorized'[k] \subseteq authorized[k]
        BY <3>1
      <3> QED BY <2>1, <3>2, <3>3, NothingAccepted
    <2>3. CASE UNCHANGED <<authorized, excused>>
      BY <2>1, <2>3, NothingAccepted
    <2> QED BY <1>5, <2>2, <2>3 DEF Remove
  <1> QED BY <1>1, <1>2, <1>3, <1>4, <1>5

(* No authorization stays one-sided without a stop, a removal or a lost       *)
(* answer, in any network and with any number of overlapping handshakes.      *)
THEOREM OneSidedOnlyByTrouble == Spec => []OneSidedExplained
  <1>1. Init => Paired
    BY DEF Init, Paired, OneSidedExplained, Backed
  <1>2. Typed /\ Paired /\ [Next]_vars => Paired'
    <2> SUFFICES ASSUME Typed, Paired, [Next]_vars PROVE Paired'
      OBVIOUS
    <2>1. CASE UNCHANGED vars
      BY <2>1, NothingAccepted DEF vars
    <2> QED BY <2>1, NodePaired, CallPaired, ServicePaired DEF Next
  <1>3. Paired => OneSidedExplained
    BY DEF Paired
  <1> QED BY <1>1, <1>2, <1>3, AlwaysTyped, PTL DEF Spec

-----------------------------------------------------------------------------
(* The start of a process comes to its end: what it still has to do, the      *)
(* peers to call, then the attempts left of the call, never grows.            *)
Steady(n) ==
  \/ Len(bootTodo'[n]) < Len(bootTodo[n])
  \/ /\ bootTodo'[n] = bootTodo[n]
     /\ \A c \in BootOf(n) : Nearer(c) \/ (Untouched(c) /\ ~CallStep(c))

(* Each step of a call brings it nearer to its end and touches no other.      *)
LEMMA AgainNearer ==
  ASSUME Typed, NEW c \in Calls, stage[c] # "idle", Again(c)
  PROVE  Nearer(c) /\ \A d \in Calls \ {c} : Untouched(d)
  <1>1. left[c] \in Nat
    BY Numbers DEF Typed, TypeOK
  <1>2. left'[c] = left[c] - 1
    BY DEF Again, Typed, TypeOK
  <1>3. Nearer(c)
    BY <1>1, <1>2 DEF Nearer
  <1>4. \A d \in Calls \ {c} : Untouched(d)
    BY DEF Again, Untouched, Typed, TypeOK
  <1> QED BY <1>3, <1>4

LEMMA CallNearer ==
  ASSUME Typed, NEW c \in Calls, CallStep(c) \/ Lost(c)
  PROVE  /\ Nearer(c)
         /\ \A d \in Calls \ {c} : Untouched(d)
         /\ UNCHANGED <<phase, bootTodo>>
  <1>1. CASE Reach(c)
    <2>1. /\ stage[c] = "try" /\ UNCHANGED <<phase, bootTodo, left>>
          /\ \E s \in {"accepted", "refused"} : stage' = [stage EXCEPT ![c] = s]
      BY <1>1 DEF Reach
    <2>2. stage'[c] # "try" /\ \A d \in Calls \ {c} : stage'[d] = stage[d]
      BY <2>1 DEF Typed, TypeOK
    <2> QED BY <2>1, <2>2 DEF Nearer, Untouched
  <1>2. CASE NoAnswer(c)
    BY <1>2, AgainNearer DEF NoAnswer
  <1>3. CASE Refused(c)
    BY <1>3, AgainNearer DEF Refused
  <1>4. CASE Lost(c)
    BY <1>4, AgainNearer DEF Lost
  <1>5. CASE Accepted(c)
    <2>1. /\ left[c] \in 0..Attempts /\ left[c] >= 1
          /\ left' = [left EXCEPT ![c] = 0]
          /\ stage' = [stage EXCEPT ![c] = "idle"]
          /\ UNCHANGED <<phase, bootTodo>>
      BY <1>5 DEF Accepted, Typed, TypeOK, Calling
    <2>2. left'[c] < left[c]
      BY <2>1 DEF Typed, TypeOK
    <2>3. \A d \in Calls \ {c} : Untouched(d)
      BY <2>1 DEF Untouched, Typed, TypeOK
    <2> QED BY <2>1, <2>2, <2>3 DEF Nearer
  <1> QED BY <1>1, <1>2, <1>3, <1>4, <1>5 DEF CallStep

(* A call step is a change: whoever leaves a call as it is makes none.        *)
LEMMA UntouchedNoStep ==
  ASSUME Typed, NEW c \in Calls, Untouched(c)
  PROVE  ~CallStep(c)
  <1> SUFFICES ASSUME CallStep(c) PROVE FALSE
    OBVIOUS
  <1>1. Nearer(c)
    BY CallNearer
  <1>2. left[c] \in Nat
    BY Numbers DEF Typed, TypeOK
  <1> QED BY <1>1, <1>2 DEF Nearer, Untouched

LEMMA AllUntouched ==
  ASSUME Typed, NEW n \in Nodes, bootTodo'[n] = bootTodo[n],
         \A c \in BootOf(n) : Untouched(c)
  PROVE  Steady(n)
  BY UntouchedNoStep DEF Steady, BootOf

LEMMA StepSteady ==
  ASSUME Typed, [Next]_vars, NEW n \in Nodes, phase[n] = "starting", phase'[n] = "starting"
  PROVE  Steady(n)
  <1>1. CASE UNCHANGED vars
    BY <1>1, AllUntouched DEF vars, BootOf, Untouched
  <1>2. ASSUME NEW d \in Nodes, Start(d) \/ Boot(d) \/ Stop(d) PROVE Steady(n)
    <2>1. CASE Start(d)
      <3>1. d # n /\ bootTodo'[n] = bootTodo[n] /\ UNCHANGED callVars
        BY <2>1 DEF Start, Typed, TypeOK
      <3> QED BY <3>1, AllUntouched DEF BootOf, Untouched
    <2>2. CASE Listen(d)
      BY <2>2, AllUntouched DEF Listen, BootOf, Untouched
    <2>3. CASE Stop(d)
      <3>1. d # n
        BY <2>3 DEF Stop, Typed, TypeOK
      <3>2. bootTodo'[n] = bootTodo[n]
        BY <2>3, <3>1 DEF Stop, Typed, TypeOK
      <3>3. \A c \in BootOf(n) : Untouched(c)
        BY <2>3, <3>1 DEF Stop, BootOf, Untouched
      <3> QED BY <3>2, <3>3, AllUntouched
    <2>4. CASE BootNext(d)
      <3> DEFINE m == Head(bootTodo[d])
      <3>1. /\ bootTodo[d] \in Seq(Nodes) /\ bootTodo[d] # <<>>
            /\ bootTodo' = [bootTodo EXCEPT ![d] = Tail(bootTodo[d])]
            /\ stage' = [stage EXCEPT ![<<d, m, "boot">>] = "try"]
            /\ left' = [left EXCEPT ![<<d, m, "boot">>] = Attempts]
        BY <2>4 DEF BootNext, Typed, TypeOK
      <3>2. CASE d = n
        <4>1. bootTodo'[n] = Tail(bootTodo[n])
          BY <3>1, <3>2 DEF Typed, TypeOK
        <4>2. Len(Tail(bootTodo[n])) < Len(bootTodo[n])
          BY <3>1, <3>2
        <4> QED BY <4>1, <4>2 DEF Steady
      <3>3. CASE d # n
        <4>1. bootTodo'[n] = bootTodo[n]
          BY <3>1, <3>3 DEF Typed, TypeOK
        <4> HIDE DEF m
        <4>2. \A c \in BootOf(n) : Untouched(c)
          BY <3>1, <3>3 DEF BootOf, Untouched, Typed, TypeOK
        <4> QED BY <4>1, <4>2, AllUntouched
      <3> QED BY <3>2, <3>3
    <2> QED BY <1>2, <2>1, <2>2, <2>3, <2>4 DEF Boot
  <1>3. ASSUME NEW c \in Calls, CallStep(c) \/ Lost(c) PROVE Steady(n)
    <2>1. /\ Nearer(c)
          /\ \A d \in Calls \ {c} : Untouched(d)
          /\ UNCHANGED <<phase, bootTodo>>
      BY <1>3, CallNearer
    <2> QED BY <2>1, UntouchedNoStep DEF Steady, BootOf
  <1>4. ASSUME NEW d \in Nodes, NEW m \in Nodes,
               \/ Hear(d, m) \/ Resolve(d, m) \/ ResolveFails(d, m)
               \/ RateLimitLapses(d, m) \/ Remove(d, m)
        PROVE  Steady(n)
    <2>1. /\ bootTodo' = bootTodo
          /\ \/ UNCHANGED callVars
             \/ \E t \in Tasks[d] : /\ stage' = [stage EXCEPT ![<<d, m, t>>] = "try"]
                                    /\ left' = [left EXCEPT ![<<d, m, t>>] = Attempts]
      BY <1>4 DEF FreeTasks, Hear, Resolve, ResolveFails, RateLimitLapses, Remove
    <2>2. ASSUME NEW c \in BootOf(n) PROVE Untouched(c)
      <3>1. c \in Calls /\ \A t \in Tasks[d] : c # <<d, m, t>>
        BY DEF BootOf
      <3> QED BY <2>1, <3>1 DEF Untouched, Typed, TypeOK
    <2> QED BY <2>1, <2>2, AllUntouched
  <1> QED BY <1>1, <1>2, <1>3, <1>4 DEF Next

(* Whatever the network does, nothing prolongs a start, and each step of its  *)
(* calls brings it nearer to listening, in any network.                       *)
THEOREM StartsAdvance == Spec => StartupAdvances
  <1>1. Typed /\ [Next]_vars =>
          [\A n \in Nodes : phase[n] = "starting" /\ phase'[n] = "starting" =>
             \/ Len(bootTodo'[n]) < Len(bootTodo[n])
             \/ /\ bootTodo'[n] = bootTodo[n]
                /\ \A c \in BootOf(n) : Nearer(c) \/ (Untouched(c) /\ ~CallStep(c))]_vars
    BY StepSteady DEF Steady
  <1> QED BY <1>1, AlwaysTyped, PTL DEF Spec, StartupAdvances
=============================================================================
