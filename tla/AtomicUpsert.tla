---------------------------- MODULE AtomicUpsert ----------------------------
(***************************************************************************)
(* What a caller of the API client may rely on: an operation on a named     *)
(* object takes effect at one instant between its call and its return; one  *)
(* that reports success took effect, one that reports failure took effect   *)
(* at most once; and only operations change the objects.  A deletion marks  *)
(* the object, which disappears some time later.                            *)
(***************************************************************************)
CONSTANTS Clients, Names, Values, None

VARIABLES store,   \* the objects: a value, or None
          dying,   \* objects marked for deletion
          stage,   \* how far each client's operation has come
          target,  \* the name it is about
          want     \* the value it stores, None for a deletion

vars == <<store, dying, stage, target, want>>

Init ==
  /\ store \in [Names -> Values \cup {None}]
  /\ dying = {}
  /\ stage = [c \in Clients |-> "idle"]
  /\ target \in [Clients -> Names]
  /\ want \in [Clients -> Values \cup {None}]

Call(c) ==
  /\ stage[c] = "idle"
  /\ stage' = [stage EXCEPT ![c] = "called"]
  /\ UNCHANGED <<store, dying, target, want>>

Apply(c) ==
  /\ stage[c] = "called"
  /\ stage' = [stage EXCEPT ![c] = "applied"]
  /\ \/ /\ want[c] # None
        /\ store' = [store EXCEPT ![target[c]] = want[c]]
        /\ UNCHANGED dying
     \/ /\ want[c] = None /\ store[target[c]] # None
        /\ dying' = dying \cup {target[c]}
        /\ UNCHANGED store
  /\ UNCHANGED <<target, want>>

Return(c) ==
  /\ \/ stage[c] = "applied" /\ stage' = [stage EXCEPT ![c] = "ok"]
     \/ stage[c] \in {"called", "applied"} /\ stage' = [stage EXCEPT ![c] = "failed"]
  /\ UNCHANGED <<store, dying, target, want>>

Reap(n) ==
  /\ n \in dying
  /\ dying' = dying \ {n} /\ store' = [store EXCEPT ![n] = None]
  /\ UNCHANGED <<stage, target, want>>

Next == \/ \E c \in Clients : Call(c) \/ Apply(c) \/ Return(c)
        \/ \E n \in Names : Reap(n)

Spec == Init /\ [][Next]_vars
=============================================================================
