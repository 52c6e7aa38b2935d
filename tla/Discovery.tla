----------------------------- MODULE Discovery -----------------------------
(***************************************************************************)
(* How machines come to authorize each other: bootstrap handshakes while   *)
(* the process starts (and does not listen yet), mDNS announcements that   *)
(* lead to a handshake, the handshake endpoint, and the revocation of a    *)
(* peer whose service goes away.  PeerRegistry is the candidates and the   *)
(* authorized peers of each node.  A machine has one address and one id.   *)
(***************************************************************************)
EXTENDS Integers, Sequences

CONSTANTS
  Nodes,         \* addresses on the network
  Present,       \* those where a LanClipboard machine may be started
  AutoAccept,    \* the nodes whose registry has auto_accept
  BootstrapList, \* per node, network.bootstrap_peers
  Mdns,          \* whether multicast works and discovery is on
  Attempts,      \* of a handshake: 3 in the code
  Tasks,         \* bound: per caller, its mDNS handshakes with one peer that may overlap
  Budgets        \* bounds: stops of a process, losses, services that flap

Kinds(n) == {"boot"} \cup Tasks[n]
Calls    == UNION {{n} \X (Nodes \ {n}) \X Kinds(n) : n \in Nodes}  \* caller, callee, kind
Pairs    == UNION {{{n, m} : m \in Nodes \ {n}} : n \in Nodes}
External == {"stop", "loss", "flap"}

ASSUME NetworkOK ==
  /\ Present \subseteq Nodes
  /\ AutoAccept \subseteq Nodes
  /\ BootstrapList \in [Nodes -> Seq(Nodes)]
  /\ \A n \in Nodes : \A i \in 1..Len(BootstrapList[n]) : BootstrapList[n][i] # n
  /\ Mdns \in BOOLEAN
  /\ Attempts \in Nat \ {0}
  /\ DOMAIN Tasks = Nodes
  /\ \A n \in Nodes : "boot" \notin Tasks[n]
  /\ Budgets \subseteq [External -> Nat]

VARIABLES
  phase,       \* "down", "starting" (lifespan before the yield), "up" (listening)
  bootTodo,    \* the bootstrap peers still to be called
  candidates,  \* PeerRegistry._candidates
  authorized,  \* PeerRegistry._authorized_by_ip
  services,    \* _service_ips: the services whose address was resolved
  seen,        \* _seen: the devices called less than five seconds ago
  heard,       \* handle_service_update tasks that wait for the resolution
  known,       \* the browser's cache of services
  stage,       \* of each call: "idle", "try", "accepted" or "refused"
  left,        \* of each call: the attempts left
  invited,     \* ghost: the peers the configuration or mDNS ever named
  excused,     \* ghost: the pairs parted by a stop, a removal or a lost answer
  budget

nodeVars == <<phase, bootTodo, candidates, authorized, services, seen, heard, known>>
callVars == <<stage, left>>
vars == <<nodeVars, callVars, invited, excused, budget>>

TypeOK ==
  /\ phase \in [Nodes -> {"down", "starting", "up"}]
  /\ bootTodo \in [Nodes -> Seq(Nodes)]
  /\ candidates \in [Nodes -> SUBSET Nodes]
  /\ authorized \in [Nodes -> SUBSET Nodes]
  /\ services \in [Nodes -> SUBSET Nodes]
  /\ seen \in [Nodes -> SUBSET Nodes]
  /\ heard \in [Nodes -> SUBSET Nodes]
  /\ known \in [Nodes -> SUBSET Nodes]
  /\ stage \in [Calls -> {"idle", "try", "accepted", "refused"}]
  /\ left \in [Calls -> 0..Attempts]
  /\ invited \in [Nodes -> SUBSET Nodes]
  /\ excused \subseteq SUBSET Nodes
  /\ budget \in [External -> Nat]

Init ==
  /\ phase = [n \in Nodes |-> "down"]
  /\ bootTodo = [n \in Nodes |-> <<>>]
  /\ candidates = [n \in Nodes |-> {}]
  /\ authorized = [n \in Nodes |-> {}]
  /\ services = [n \in Nodes |-> {}]
  /\ seen = [n \in Nodes |-> {}]
  /\ heard = [n \in Nodes |-> {}]
  /\ known = [n \in Nodes |-> {}]
  /\ stage = [c \in Calls |-> "idle"]
  /\ left = [c \in Calls |-> 0]
  /\ invited = [n \in Nodes |-> {}]
  /\ excused = {}
  /\ budget \in Budgets

Spend(kind) == /\ budget[kind] > 0
               /\ budget' = [budget EXCEPT ![kind] = @ - 1]

-----------------------------------------------------------------------------
(* PeerRegistry. *)

MarkCandidate(n, m) ==
  /\ candidates' = [candidates EXCEPT ![n] = @ \cup {m}]
  /\ invited' = [invited EXCEPT ![n] = @ \cup {m}]

AcceptsAll(n, m) == TRUE   \* variant: auto_accept is not looked at
CanAccept(n, m) == n \in AutoAccept \/ m \in candidates[n]

(* When the other side has done the same, the pair is whole again. *)
Authorize(n, m) ==
  /\ authorized' = [authorized EXCEPT ![n] = @ \cup {m}]
  /\ candidates' = [candidates EXCEPT ![n] = @ \cup {m}]
  /\ excused' = IF n \in authorized[m] THEN excused \ {{n, m}} ELSE excused

(* revoke_ip takes both the authorization and the candidacy away. *)
Revoke(n, m) ==
  /\ candidates' = [candidates EXCEPT ![n] = @ \ {m}]
  /\ authorized' = [authorized EXCEPT ![n] = @ \ {m}]
  /\ excused' = excused \cup {{n, m}}

-----------------------------------------------------------------------------
(* The life of a process. *)

Start(n) ==
  /\ n \in Present
  /\ phase[n] = "down"
  /\ phase' = [phase EXCEPT ![n] = "starting"]
  /\ bootTodo' = [bootTodo EXCEPT ![n] = BootstrapList[n]]
  /\ UNCHANGED <<candidates, authorized, services, seen, heard, known, callVars,
                 invited, excused, budget>>

BootCalls(n) == {c \in Calls : c[1] = n /\ c[3] = "boot" /\ stage[c] # "idle"}

(* bootstrap_handshake calls the configured peers one after the other. *)
BootNext(n) ==
  /\ phase[n] = "starting"
  /\ BootCalls(n) = {}
  /\ bootTodo[n] # <<>>
  /\ LET m == Head(bootTodo[n])
     IN  /\ MarkCandidate(n, m)
         /\ stage' = [stage EXCEPT ![<<n, m, "boot">>] = "try"]
         /\ left' = [left EXCEPT ![<<n, m, "boot">>] = Attempts]
  /\ bootTodo' = [bootTodo EXCEPT ![n] = Tail(@)]
  /\ UNCHANGED <<phase, authorized, services, seen, heard, known, excused, budget>>

(* Only when all of them have answered or failed does the server listen. *)
Listen(n) ==
  /\ phase[n] = "starting"
  /\ BootCalls(n) = {}
  /\ bootTodo[n] = <<>>
  /\ phase' = [phase EXCEPT ![n] = "up"]
  /\ UNCHANGED <<bootTodo, candidates, authorized, services, seen, heard, known,
                 callVars, invited, excused, budget>>

(* The process ends, in order or not; its registry and calls are gone. *)
Stop(n) ==
  /\ phase[n] # "down"
  /\ Spend("stop")
  /\ phase' = [phase EXCEPT ![n] = "down"]
  /\ bootTodo' = [bootTodo EXCEPT ![n] = <<>>]
  /\ candidates' = [candidates EXCEPT ![n] = {}]
  /\ authorized' = [authorized EXCEPT ![n] = {}]
  /\ services' = [services EXCEPT ![n] = {}]
  /\ seen' = [seen EXCEPT ![n] = {}]
  /\ heard' = [heard EXCEPT ![n] = {}]
  /\ known' = [known EXCEPT ![n] = {}]
  /\ stage' = [c \in Calls |-> IF c[1] = n THEN "idle" ELSE stage[c]]
  /\ left' = [c \in Calls |-> IF c[1] = n THEN 0 ELSE left[c]]
  /\ invited' = [invited EXCEPT ![n] = {}]
  /\ excused' = excused \cup {{n, m} : m \in Nodes \ {n}}

-----------------------------------------------------------------------------
(* _handshake_with_peer: three attempts, a second apart. *)

(* The endpoint answers; a node that does not listen cannot be reached. *)
Reach(c) ==
  LET n == c[1]  m == c[2]
  IN  /\ stage[c] = "try"
      /\ phase[m] = "up"
      /\ IF CanAccept(m, n)
         THEN /\ Authorize(m, n)
              /\ stage' = [stage EXCEPT ![c] = "accepted"]
         ELSE /\ stage' = [stage EXCEPT ![c] = "refused"]
              /\ UNCHANGED <<authorized, candidates, excused>>
      /\ UNCHANGED <<phase, bootTodo, services, seen, heard, known, left, invited,
                     budget>>

(* Another attempt, or the end of the call. *)
OneMore(c) == left[c] >= 1   \* variant: off by one
AnotherAttempt(c) == left[c] > 1

UntilAnswered(c) ==   \* variant: the attempts are not counted
  /\ stage' = [stage EXCEPT ![c] = "try"]
  /\ UNCHANGED left

Again(c) ==
  /\ left' = [left EXCEPT ![c] = @ - 1]
  /\ stage' = [stage EXCEPT ![c] = IF AnotherAttempt(c) THEN "try" ELSE "idle"]

NoAnswer(c) ==
  /\ stage[c] = "try"
  /\ phase[c[2]] # "up"
  /\ Again(c)
  /\ UNCHANGED <<nodeVars, invited, excused, budget>>

(* The request or its answer is lost: a timeout, handled like a refusal. *)
Lost(c) ==
  /\ stage[c] # "idle"
  /\ Spend("loss")
  /\ Again(c)
  /\ excused' = IF stage[c] = "accepted" THEN excused \cup {{c[1], c[2]}} ELSE excused
  /\ UNCHANGED <<nodeVars, invited>>

Accepted(c) ==
  /\ stage[c] = "accepted"
  /\ Authorize(c[1], c[2])
  /\ stage' = [stage EXCEPT ![c] = "idle"]
  /\ left' = [left EXCEPT ![c] = 0]
  /\ UNCHANGED <<phase, bootTodo, services, seen, heard, known, invited, budget>>

AnsweredIsAccepted(c) ==   \* variant: "accepted" is not looked at in the answer
  /\ stage[c] = "refused"
  /\ Authorize(c[1], c[2])
  /\ stage' = [stage EXCEPT ![c] = "idle"]
  /\ left' = [left EXCEPT ![c] = 0]
  /\ UNCHANGED <<phase, bootTodo, services, seen, heard, known, invited, budget>>

(* peer_not_allowed is tried again. *)
Refused(c) ==
  /\ stage[c] = "refused"
  /\ Again(c)
  /\ UNCHANGED <<nodeVars, invited, excused, budget>>

-----------------------------------------------------------------------------
(* mDNS. *)

(* An announcement of m, the first or a periodic one, reaches n. *)
Hear(n, m) ==
  /\ Mdns
  /\ n # m
  /\ phase[n] # "down"
  /\ phase[m] # "down"
  /\ known' = [known EXCEPT ![n] = @ \cup {m}]
  /\ heard' = [heard EXCEPT ![n] = @ \cup {m}]
  /\ UNCHANGED <<phase, bootTodo, candidates, authorized, services, seen, callVars,
                 invited, excused, budget>>

(* handle_service_update after the resolution.  Nothing serializes the tasks: *)
(* five seconds after the last handshake another one begins, whether or not   *)
(* that one has ended.                                                        *)
FreeTasks(n, m) == {t \in Tasks[n] : stage[<<n, m, t>>] = "idle"}

Resolve(n, m) ==
  /\ m \in heard[n]
  /\ heard' = [heard EXCEPT ![n] = @ \ {m}]
  /\ services' = [services EXCEPT ![n] = @ \cup {m}]
  /\ MarkCandidate(n, m)
  /\ seen' = [seen EXCEPT ![n] = @ \cup {m}]
  /\ IF m \in seen[n] THEN UNCHANGED callVars
     ELSE LET call == <<n, m, CHOOSE t \in FreeTasks(n, m) : TRUE>>
          IN  /\ FreeTasks(n, m) # {}
              /\ stage' = [stage EXCEPT ![call] = "try"]
              /\ left' = [left EXCEPT ![call] = Attempts]
  /\ UNCHANGED <<phase, bootTodo, authorized, known, excused, budget>>

(* async_request times out. *)
ResolveFails(n, m) ==
  /\ m \in heard[n]
  /\ Spend("loss")
  /\ heard' = [heard EXCEPT ![n] = @ \ {m}]
  /\ UNCHANGED <<phase, bootTodo, candidates, authorized, services, seen, known,
                 callVars, invited, excused>>

SeenForever(n) == {}   \* variant: the rate limit never lapses
Lapsed(n) == seen[n]

RateLimitLapses(n, m) ==
  /\ m \in Lapsed(n)
  /\ seen' = [seen EXCEPT ![n] = @ \ {m}]
  /\ UNCHANGED <<phase, bootTodo, candidates, authorized, services, heard, known,
                 callVars, invited, excused, budget>>

(* remove_service: a goodbye, an expired record, a lost renewal.  It revokes *)
(* only a service that was resolved before; a resolution or a handshake in   *)
(* flight goes on.                                                           *)
Remove(n, m) ==
  /\ m \in known[n]
  /\ IF phase[m] = "down" THEN UNCHANGED budget ELSE Spend("flap")
  /\ known' = [known EXCEPT ![n] = @ \ {m}]
  /\ services' = [services EXCEPT ![n] = @ \ {m}]
  /\ IF m \in services[n]
     THEN Revoke(n, m)
     ELSE UNCHANGED <<authorized, candidates, excused>>
  /\ UNCHANGED <<phase, bootTodo, seen, heard, callVars, invited>>

-----------------------------------------------------------------------------
Boot(n) == BootNext(n) \/ Listen(n)
CallStep(c) == Reach(c) \/ NoAnswer(c) \/ Accepted(c) \/ Refused(c)

Next == \/ \E n \in Nodes : Start(n) \/ Boot(n) \/ Stop(n)
        \/ \E c \in Calls : CallStep(c) \/ Lost(c)
        \/ \E n, m \in Nodes : \/ Hear(n, m)
                               \/ Resolve(n, m)
                               \/ ResolveFails(n, m)
                               \/ RateLimitLapses(n, m)
                               \/ Remove(n, m)

Spec == Init /\ [][Next]_vars

(* The event loops run, the five seconds pass, and of the announcements that *)
(* a running process repeats every so often some are heard.  Starts, stops,  *)
(* losses and removals are not owed.                                         *)
Fairness == /\ \A n \in Nodes : WF_vars(Boot(n))
            /\ \A c \in Calls : WF_vars(CallStep(c))
            /\ \A n \in Nodes : \A m \in Nodes \ {n} :
                 /\ WF_vars(Hear(n, m))
                 /\ WF_vars(Resolve(n, m))
                 /\ WF_vars(RateLimitLapses(n, m))

FairSpec == Spec /\ Fairness

-----------------------------------------------------------------------------
(* Properties. *)

(* Without auto_accept, only peers that the configuration or a resolved      *)
(* service named are ever authorized, whoever calls first and whatever was   *)
(* revoked in between (can_accept).                                          *)
OnlyInvited == \A n \in Nodes \ AutoAccept : authorized[n] \subseteq invited[n]

(* The acceptance that n gave m is on its way. *)
Answered(n, m) == \E kind \in Kinds(m) : stage[<<m, n, kind>>] = "accepted"

(* No authorization stays one-sided by itself: if n has authorized m and m    *)
(* has not authorized n, the acceptance that n gave m is on its way to m, or  *)
(* since they last had each other one of them stopped, lost the other's mDNS  *)
(* service or never got the answer; overlapping handshakes in both            *)
(* directions, refusals and retries leave no other way (_handshake_with_peer  *)
(* and the handshake endpoint).                                               *)
OneSidedExplained == \A n \in Nodes : \A m \in authorized[n] :
  n \in authorized[m] \/ Answered(n, m) \/ {n, m} \in excused

(* Waiting for the bootstrap peers cannot keep a process from listening:      *)
(* whoever is off, refuses, restarts, flaps or waits for this process in      *)
(* turn, nothing prolongs a start and each step of its calls brings it nearer *)
(* to its end (bootstrap_handshake, awaited by the lifespan).                 *)
BootOf(n) == {c \in Calls : c[1] = n /\ c[3] = "boot"}
Nearer(c) == \/ left'[c] < left[c]
             \/ left'[c] = left[c] /\ stage[c] = "try" /\ stage'[c] # "try"
Untouched(c) == left'[c] = left[c] /\ stage'[c] = stage[c]

StartupAdvances == [][\A n \in Nodes :
  phase[n] = "starting" /\ phase'[n] = "starting" =>
    \/ Len(bootTodo'[n]) < Len(bootTodo[n])
    \/ /\ bootTodo'[n] = bootTodo[n]
       /\ \A c \in BootOf(n) : Nearer(c) \/ (Untouched(c) /\ ~CallStep(c))]_vars

BothUp(pair) == \A n \in pair : phase[n] = "up"
Linked(pair) == \A n \in pair : pair \ {n} \subseteq authorized[n]

(* Two machines that stay up authorize each other for good, whatever the     *)
(* order of their starts, the losses, the removals and the rate limit.       *)
EventuallyLinked == \A pair \in {p \in Pairs : p \subseteq Present} :
  <>[]BothUp(pair) => <>[]Linked(pair)
=============================================================================
