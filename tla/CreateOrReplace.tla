--------------------------- MODULE CreateOrReplace ---------------------------
(***************************************************************************)
(* The changing operations of the KubernetesClient library: CreateOrReplace *)
(* (a list, then a PUT or a POST) and Delete, for pods, deployments and     *)
(* jobs alike, called concurrently through the one Kubernetes object the    *)
(* sample API shares, whose response type another request may switch        *)
(* (ConfigureResponse).  Each client makes one operation on one name.       *)
(***************************************************************************)
EXTENDS FiniteSets

CONSTANTS Clients, Names, Values,
          None,       \* no object; as a wanted value, a deletion
          Selectors,  \* label selectors, as the sets of values they match
          Faults      \* what may go wrong outside: "rejected", "lost"

ASSUME ValuesAssumption ==
  None \notin Values /\ \A s \in Selectors : s \subseteq Values

VARIABLES
  store, dying,        \* the API server's objects, those marked for deletion
  responseType,        \* _config.ResponseType
  target, want, selector,  \* the arguments of each client's operation
  pc,                  \* the request each client has under way
  accept,              \* the Accept header of that request
  raced,               \* clients whose object changed since their list (observer)
  reply                \* how the server answered the changing request

vars == <<store, dying, responseType, target, want, selector, pc, accept, raced, reply>>
args == <<target, want, selector>>

Types == {"Json", "Yaml"}

\* The types, and that only an object that exists is marked for deletion.
TypeOK ==
  /\ store \in [Names -> Values \cup {None}] /\ dying \subseteq Names
  /\ responseType \in Types
  /\ target \in [Clients -> Names] /\ want \in [Clients -> Values \cup {None}]
  /\ selector \in [Clients -> Selectors]
  /\ pc \in [Clients -> {"idle", "get", "put", "post", "delete", "answered", "ok", "failed"}]
  /\ accept \in [Clients -> Types]
  /\ raced \subseteq Clients
  /\ reply \in [Clients -> {"none", "done", "conflict", "rejected"}]
  /\ \A n \in dying : store[n] # None

Init ==
  /\ store \in [Names -> Values \cup {None}] /\ dying = {}
  /\ responseType = "Json"
  /\ target \in [Clients -> Names] /\ want \in [Clients -> Values \cup {None}]
  /\ selector \in [Clients -> Selectors]
  /\ pc = [c \in Clients |-> "idle"]
  /\ accept = [c \in Clients |-> "Json"]
  /\ raced = {} /\ reply = [c \in Clients |-> "none"]

-----------------------------------------------------------------------------
\* SetAcceptHeader reads the shared response type when a request is made.
Request(c, method) ==
  /\ pc' = [pc EXCEPT ![c] = method]
  /\ accept' = [accept EXCEPT ![c] = responseType]

\* JsonConvert.Deserialize throws on an answer in another format.
Deserializes(c) == accept[c] = "Json"

\* MUTANT: the status is not looked at.
AnswerUnchecked(c, what) ==
  /\ reply' = [reply EXCEPT ![c] = what]
  /\ pc' = [pc EXCEPT ![c] = "answered"]

\* EnsureSuccessStatusCode throws for every status that is not a success.
Answer(c, what) ==
  /\ reply' = [reply EXCEPT ![c] = what]
  /\ pc' = [pc EXCEPT ![c] = IF what = "done" THEN "answered" ELSE "failed"]

\* Those who listed an object before it was created or removed.
RacedBy(n) == raced' = raced \cup {d \in Clients : target[d] = n /\ pc[d] \in {"put", "post"}}

Call(c) ==
  /\ pc[c] = "idle"
  /\ Request(c, IF want[c] = None THEN "delete" ELSE "get")
  /\ UNCHANGED <<store, dying, responseType, args, raced, reply>>

\* MUTANT: PUT for an object that is not listed, POST for one that is.
DecideInverted(c) ==
  /\ pc[c] = "get"
  /\ IF Deserializes(c)
     THEN Request(c, IF store[target[c]] \in selector[c] THEN "post" ELSE "put")
     ELSE pc' = [pc EXCEPT ![c] = "failed"] /\ UNCHANGED accept
  /\ UNCHANGED <<store, dying, responseType, args, raced, reply>>

\* The list, made with the same label selector, decides on PUT or POST.
Decide(c) ==
  /\ pc[c] = "get"
  /\ IF Deserializes(c)
     THEN Request(c, IF store[target[c]] \in selector[c] THEN "put" ELSE "post")
     ELSE pc' = [pc EXCEPT ![c] = "failed"] /\ UNCHANGED accept
  /\ UNCHANGED <<store, dying, responseType, args, raced, reply>>

\* MUTANT: a replace removes the object first and waits for a POST to follow.
PutRemovesFirst(c) ==
  /\ pc[c] = "put"
  /\ IF store[target[c]] # None
     THEN /\ store' = [store EXCEPT ![target[c]] = None]
          /\ pc' = [pc EXCEPT ![c] = "post"] /\ UNCHANGED reply
     ELSE UNCHANGED store /\ Answer(c, "conflict")
  /\ UNCHANGED <<dying, responseType, args, accept, raced>>

Put(c) ==
  /\ pc[c] = "put"
  /\ IF store[target[c]] # None
     THEN store' = [store EXCEPT ![target[c]] = want[c]] /\ Answer(c, "done")
     ELSE UNCHANGED store /\ Answer(c, "conflict")
  /\ UNCHANGED <<dying, responseType, args, accept, raced>>

Post(c) ==
  /\ pc[c] = "post"
  /\ IF store[target[c]] = None
     THEN /\ store' = [store EXCEPT ![target[c]] = want[c]]
          /\ RacedBy(target[c]) /\ Answer(c, "done")
     ELSE UNCHANGED <<store, raced>> /\ Answer(c, "conflict")
  /\ UNCHANGED <<dying, responseType, args, accept>>

\* MUTANT: a deletion is accepted for an object that is not there.
DeleteUnchecked(c) ==
  /\ pc[c] = "delete"
  /\ dying' = dying \cup {target[c]} /\ Answer(c, "done")
  /\ UNCHANGED <<store, responseType, args, accept, raced>>

Delete(c) ==
  /\ pc[c] = "delete"
  /\ IF store[target[c]] # None
     THEN dying' = dying \cup {target[c]} /\ Answer(c, "done")
     ELSE UNCHANGED dying /\ Answer(c, "conflict")
  /\ UNCHANGED <<store, responseType, args, accept, raced>>

\* A success is reported when the answer can be read.
Return(c) ==
  /\ pc[c] = "answered"
  /\ pc' = [pc EXCEPT ![c] = IF Deserializes(c) THEN "ok" ELSE "failed"]
  /\ UNCHANGED <<store, dying, responseType, args, accept, raced, reply>>

-----------------------------------------------------------------------------
(* The API server's own steps, the network, and the other endpoint          *)

Reap(n) ==
  /\ n \in dying
  /\ dying' = dying \ {n} /\ store' = [store EXCEPT ![n] = None]
  /\ RacedBy(n)
  /\ UNCHANGED <<responseType, args, pc, accept, reply>>

Reject(c) ==
  /\ "rejected" \in Faults /\ pc[c] \in {"get", "put", "post", "delete"}
  /\ Answer(c, "rejected")
  /\ UNCHANGED <<store, dying, responseType, args, accept, raced>>

\* The connection fails before the request or after the answer.
Lose(c) ==
  /\ "lost" \in Faults /\ pc[c] \in {"get", "put", "post", "delete", "answered"}
  /\ pc' = [pc EXCEPT ![c] = "failed"]
  /\ UNCHANGED <<store, dying, responseType, args, accept, raced, reply>>

ConfigureResponse ==
  /\ \E t \in Types \ {responseType} : responseType' = t
  /\ UNCHANGED <<store, dying, args, pc, accept, raced, reply>>

-----------------------------------------------------------------------------
Client(c) == \/ Call(c) \/ Decide(c) \/ Put(c) \/ Post(c) \/ Delete(c) \/ Return(c)

Next == \/ \E c \in Clients : Client(c) \/ Reject(c) \/ Lose(c)
        \/ \E n \in Names : Reap(n)
        \/ ConfigureResponse

Spec == Init /\ [][Next]_vars

-----------------------------------------------------------------------------
\* Whatever the interleaving, a list-then-write counts as one atomic operation:
\* success means it took effect once, failure that it did so at most once.
StageOf(request) == IF request \in {"get", "put", "post", "delete"} THEN "called"
                    ELSE IF request = "answered" THEN "applied" ELSE request
Stage == [c \in Clients |-> StageOf(pc[c])]
Atomic == INSTANCE AtomicUpsert WITH stage <- Stage
TakesEffectOnce == Atomic!Spec

\* A 404 for a PUT or a 409 for a POST needs a race: the object came or went
\* after the list, or the label selector hid it from the list.
ConflictNeedsRace ==
  \A c \in Clients : reply[c] = "conflict" /\ want[c] # None =>
    c \in raced \/ selector[c] # Values

\* An object disappears only after a deletion of it was accepted: a replace
\* leaves no moment without the object.
WritesSurvive ==
  [][\A n \in Names : store[n] # None /\ store'[n] = None =>
       \E c \in Clients : want[c] = None /\ target[c] = n /\ reply[c] = "done"]_vars

\* "response format: JSON": what the server did for a caller that creates or
\* replaces is reported to it.
AppliedIsReported ==
  \A c \in Clients : pc[c] = "failed" /\ want[c] # None => reply[c] # "done"
=============================================================================
