----------------------- MODULE CreateOrReplaceProofs -----------------------
(***************************************************************************)
(* Safety proofs for CreateOrReplace, for any number of clients, names,     *)
(* values and selectors.                                                    *)
(***************************************************************************)
EXTENDS CreateOrReplace, TLAPS

\* What a client's list told it still holds, unless it raced or did not look;
\* and a conflict is answered only where it does not.
RaceInv ==
  \A c \in Clients :
    /\ pc[c] = "delete" => want[c] = None
    /\ pc[c] \in {"get", "put", "post"} => want[c] # None
    /\ pc[c] = "put" => store[target[c]] # None \/ c \in raced
    /\ pc[c] = "post" => store[target[c]] = None \/ c \in raced \/ selector[c] # Values
    /\ reply[c] = "conflict" /\ want[c] # None => c \in raced \/ selector[c] # Values

IInv == TypeOK /\ RaceInv

\* The inductive invariant: what the list of CreateOrReplace saw is still true
\* when the PUT or POST is sent, but for a race or a label selector.
THEOREM Inductive == Spec => []IInv
<1> USE ValuesAssumption
<1>1. Init => TypeOK /\ RaceInv
  BY DEF Init, TypeOK, Types, RaceInv
<1>2. TypeOK /\ RaceInv /\ [Next]_vars => TypeOK'
  <2> SUFFICES ASSUME TypeOK, RaceInv, [Next]_vars PROVE TypeOK'
    OBVIOUS
  <2> USE DEF TypeOK, Types, args
  <2>1. ASSUME NEW c \in Clients, Call(c) PROVE TypeOK'
    BY <2>1 DEF Call, Request
  <2>2. ASSUME NEW c \in Clients, Decide(c) PROVE TypeOK'
    <3>1. pc' \in [Clients -> {"idle", "get", "put", "post", "delete", "answered", "ok", "failed"}]
          /\ accept' \in [Clients -> Types]
      BY <2>2 DEF Decide, Request
    <3>2. QED
      BY <2>2, <3>1 DEF Decide
  <2>3. ASSUME NEW c \in Clients, Return(c) PROVE TypeOK'
    BY <2>3 DEF Return
  <2>4. ASSUME NEW c \in Clients, Put(c) PROVE TypeOK'
    <3>1. store' \in [Names -> Values \cup {None}]
      BY <2>4 DEF Put
    <3>2. \A n \in dying : store'[n] # None
      <4>1. CASE store' = [store EXCEPT ![target[c]] = want[c]] /\ store[target[c]] # None
        <5>1. want[c] # None
          BY <2>4 DEF Put, RaceInv
        <5>2. QED
          BY <4>1, <5>1
      <4>2. CASE store' = store
        BY <4>2
      <4>3. QED
        BY <2>4, <4>1, <4>2 DEF Put
    <3>3. /\ pc' \in [Clients -> {"idle", "get", "put", "post", "delete", "answered", "ok", "failed"}]
          /\ reply' \in [Clients -> {"none", "done", "conflict", "rejected"}]
      BY <2>4 DEF Put, Answer
    <3>4. QED
      BY <2>4, <3>1, <3>2, <3>3 DEF Put
  <2>5. ASSUME NEW c \in Clients, Post(c) PROVE TypeOK'
    <3>1. store' \in [Names -> Values \cup {None}] /\ raced' \subseteq Clients
      BY <2>5 DEF Post, RacedBy
    <3>2. \A n \in dying : store'[n] # None
      BY <2>5 DEF Post
    <3>3. /\ pc' \in [Clients -> {"idle", "get", "put", "post", "delete", "answered", "ok", "failed"}]
          /\ reply' \in [Clients -> {"none", "done", "conflict", "rejected"}]
      BY <2>5 DEF Post, Answer
    <3>4. QED
      BY <2>5, <3>1, <3>2, <3>3 DEF Post
  <2>6. ASSUME NEW c \in Clients, Delete(c) PROVE TypeOK'
    BY <2>6 DEF Delete, Answer
  <2>7. ASSUME NEW c \in Clients, Reject(c) \/ Lose(c) PROVE TypeOK'
    BY <2>7 DEF Reject, Lose, Answer
  <2>8. ASSUME NEW n \in Names, Reap(n) PROVE TypeOK'
    BY <2>8 DEF Reap, RacedBy
  <2>9. CASE ConfigureResponse
    BY <2>9 DEF ConfigureResponse
  <2>10. CASE UNCHANGED vars
    BY <2>10 DEF vars
  <2>11. QED
    BY <2>1, <2>2, <2>3, <2>4, <2>5, <2>6, <2>7, <2>8, <2>9, <2>10 DEF Next, Client
<1>3. TypeOK /\ RaceInv /\ [Next]_vars => RaceInv'
  <2> SUFFICES ASSUME TypeOK, RaceInv, [Next]_vars PROVE RaceInv'
    OBVIOUS
  <2> USE DEF TypeOK, RaceInv, args
  <2>1. ASSUME NEW c \in Clients, Call(c) PROVE RaceInv'
    BY <2>1 DEF Call, Request
  <2>2. ASSUME NEW c \in Clients, Decide(c) PROVE RaceInv'
    <3>1. selector[c] \subseteq Values /\ None \notin selector[c]
      BY DEF TypeOK
    <3>2. /\ UNCHANGED <<store, target, want, selector, raced, reply>>
          /\ pc[c] = "get"
          /\ \/ pc' = [pc EXCEPT ![c] = "put"] /\ store[target[c]] \in selector[c]
             \/ pc' = [pc EXCEPT ![c] = "post"] /\ store[target[c]] \notin selector[c]
             \/ pc' = [pc EXCEPT ![c] = "failed"]
      BY <2>2 DEF Decide, Request
    <3>3. store[target[c]] \in Values \cup {None}
      BY DEF TypeOK
    <3>4. QED
      BY <3>1, <3>2, <3>3
  <2>3. ASSUME NEW c \in Clients, Return(c) PROVE RaceInv'
    BY <2>3 DEF Return
  <2>4. ASSUME NEW c \in Clients, Put(c) PROVE RaceInv'
    BY <2>4 DEF Put, Answer
  <2>5. ASSUME NEW c \in Clients, Post(c) PROVE RaceInv'
    BY <2>5 DEF Post, Answer, RacedBy
  <2>6. ASSUME NEW c \in Clients, Delete(c) PROVE RaceInv'
    BY <2>6 DEF Delete, Answer
  <2>7. ASSUME NEW c \in Clients, Reject(c) \/ Lose(c) PROVE RaceInv'
    BY <2>7 DEF Reject, Lose, Answer
  <2>8. ASSUME NEW n \in Names, Reap(n) PROVE RaceInv'
    BY <2>8 DEF Reap, RacedBy
  <2>9. CASE ConfigureResponse
    BY <2>9 DEF ConfigureResponse
  <2>10. CASE UNCHANGED vars
    BY <2>10 DEF vars
  <2>11. QED
    BY <2>1, <2>2, <2>3, <2>4, <2>5, <2>6, <2>7, <2>8, <2>9, <2>10 DEF Next, Client
<1>4. QED
  BY <1>1, <1>2, <1>3, PTL DEF Spec, IInv

\* The state is well typed: an object marked for deletion is still there.
THEOREM TypeCorrect == Spec => []TypeOK
  BY Inductive, PTL DEF IInv

\* A failed write with no selector has a concurrent operation to blame.
THEOREM ConflictIsARace == Spec => []ConflictNeedsRace
<1>1. IInv => ConflictNeedsRace
  BY DEF IInv, RaceInv, ConflictNeedsRace
<1>2. QED
  BY <1>1, Inductive, PTL

\* A step of one client moves the stage of its operation and of no other.
LEMMA StageStep == ASSUME TypeOK, NEW c \in Clients, NEW r, pc' = [pc EXCEPT ![c] = r]
                   PROVE  Stage' = [Stage EXCEPT ![c] = StageOf(r)] /\ Stage[c] = StageOf(pc[c])
  BY DEF TypeOK, Stage

\* A list followed by a PUT or a POST is one atomic operation.
THEOREM UpsertIsAtomic == Spec => TakesEffectOnce
<1> USE ValuesAssumption
<1>1. Init => Atomic!Init
  BY DEF Init, Atomic!Init, Stage, StageOf
<1>2. IInv /\ [Next]_vars => [Atomic!Next]_(Atomic!vars)
  <2> DEFINE Stutter == UNCHANGED <<store, dying, Stage, target, want>>
  <2> SUFFICES ASSUME IInv, [Next]_vars PROVE Atomic!Next \/ Stutter
    BY DEF Atomic!vars
  <2> USE DEF IInv, args, StageOf
  <2>1. ASSUME NEW c \in Clients, Call(c) PROVE Atomic!Call(c)
    BY <2>1, StageStep DEF Call, Request, Atomic!Call
  <2>2. ASSUME NEW c \in Clients, Decide(c) PROVE Atomic!Return(c) \/ Stutter
    <3>1. CASE pc' = [pc EXCEPT ![c] = "failed"]
      BY <2>2, <3>1, StageStep DEF Decide, Atomic!Return
    <3>2. ASSUME NEW r \in {"put", "post"}, pc' = [pc EXCEPT ![c] = r] PROVE Stutter
      <4>1. Stage[c] = "called" /\ Stage' = [Stage EXCEPT ![c] = "called"]
        BY <2>2, <3>2, StageStep DEF Decide
      <4>2. Stage' = Stage
        BY <4>1 DEF Stage
      <4>3. QED
        BY <2>2, <4>2 DEF Decide
    <3>3. QED
      BY <2>2, <3>1, <3>2 DEF Decide, Request
  <2>3. ASSUME NEW c \in Clients, Put(c) \/ Post(c) PROVE Atomic!Apply(c) \/ Atomic!Return(c)
    <3>1. want[c] # None /\ Stage[c] = "called"
      BY <2>3 DEF RaceInv, Put, Post, Stage
    <3>2. CASE reply' = [reply EXCEPT ![c] = "done"] /\ pc' = [pc EXCEPT ![c] = "answered"]
                /\ store' = [store EXCEPT ![target[c]] = want[c]]
      BY <2>3, <3>1, <3>2, StageStep DEF Put, Post, Atomic!Apply
    <3>3. CASE pc' = [pc EXCEPT ![c] = "failed"] /\ UNCHANGED store
      BY <2>3, <3>1, <3>3, StageStep DEF Put, Post, Atomic!Return
    <3>4. QED
      BY <2>3, <3>2, <3>3 DEF Put, Post, Answer
  <2>4. ASSUME NEW c \in Clients, Delete(c) PROVE Atomic!Apply(c) \/ Atomic!Return(c)
    <3>1. want[c] = None /\ Stage[c] = "called"
      BY <2>4 DEF RaceInv, Delete, Stage
    <3>2. CASE store[target[c]] # None
      BY <2>4, <3>1, <3>2, StageStep DEF Delete, Answer, Atomic!Apply
    <3>3. CASE store[target[c]] = None
      BY <2>4, <3>1, <3>3, StageStep DEF Delete, Answer, Atomic!Return
    <3>4. QED
      BY <3>2, <3>3
  <2>5. ASSUME NEW c \in Clients, Return(c) \/ Reject(c) \/ Lose(c) PROVE Atomic!Return(c)
    <3>1. CASE pc' = [pc EXCEPT ![c] = "failed"]
      BY <2>5, <3>1, StageStep DEF Return, Reject, Lose, Atomic!Return
    <3>2. CASE pc' = [pc EXCEPT ![c] = "ok"] /\ pc[c] = "answered"
      BY <2>5, <3>2, StageStep DEF Return, Reject, Lose, Atomic!Return
    <3>3. QED
      BY <2>5, <3>1, <3>2 DEF Return, Reject, Lose, Answer
  <2>6. ASSUME NEW n \in Names, Reap(n) PROVE Atomic!Reap(n)
    BY <2>6 DEF Reap, Atomic!Reap, Stage
  <2>7. CASE ConfigureResponse
    BY <2>7 DEF ConfigureResponse, Stage
  <2>8. CASE UNCHANGED vars
    BY <2>8 DEF vars, Stage
  <2>9. QED
    BY <2>1, <2>2, <2>3, <2>4, <2>5, <2>6, <2>7, <2>8 DEF Next, Client, Atomic!Next
<1>3. QED
  BY <1>1, <1>2, Inductive, PTL DEF Spec, TakesEffectOnce, Atomic!Spec

\* Whatever is marked for deletion was asked for by a caller that has its answer.
DyingAsked ==
  /\ \A c \in Clients : pc[c] \in {"idle", "get", "put", "post", "delete"} => reply[c] # "done"
  /\ \A n \in dying : \E c \in Clients : want[c] = None /\ target[c] = n /\ reply[c] = "done"

\* An answer to a request keeps all earlier ones.
LEMMA AnswerKeeps ==
  ASSUME TypeOK, DyingAsked, NEW c \in Clients, pc[c] \in {"get", "put", "post", "delete"},
         NEW what \in {"done", "conflict", "rejected"}, Answer(c, what),
         UNCHANGED <<want, target>>, dying' = dying
  PROVE  DyingAsked'
  BY DEF TypeOK, DyingAsked, Answer

\* No replace makes an object disappear, not even for a moment: it takes an
\* accepted deletion.
THEOREM ReplaceLeavesNoGap == Spec => WritesSurvive
<1> USE ValuesAssumption
<1>1. Init => DyingAsked
  BY DEF Init, DyingAsked
<1>2. IInv /\ DyingAsked /\ [Next]_vars => DyingAsked'
  <2> SUFFICES ASSUME IInv, DyingAsked, [Next]_vars PROVE DyingAsked'
    OBVIOUS
  <2> USE DEF IInv, args
  <2>1. ASSUME NEW c \in Clients, Call(c) PROVE DyingAsked'
    BY <2>1 DEF Call, Request, DyingAsked, TypeOK
  <2>2. ASSUME NEW c \in Clients, Decide(c) PROVE DyingAsked'
    <3>1. /\ UNCHANGED <<dying, want, target, reply>> /\ pc[c] = "get"
          /\ \E r \in {"put", "post", "failed"} : pc' = [pc EXCEPT ![c] = r]
      BY <2>2 DEF Decide, Request
    <3>2. QED
      BY <3>1 DEF DyingAsked, TypeOK
  <2>3. ASSUME NEW c \in Clients, Put(c) \/ Post(c) \/ Reject(c) PROVE DyingAsked'
    <3>1. pc[c] \in {"get", "put", "post", "delete"} /\ UNCHANGED <<want, target>> /\ dying' = dying
      BY <2>3 DEF Put, Post, Reject
    <3>2. Answer(c, "done") \/ Answer(c, "conflict") \/ Answer(c, "rejected")
      BY <2>3 DEF Put, Post, Reject
    <3>3. QED
      BY <3>1, <3>2, AnswerKeeps
  <2>4. ASSUME NEW c \in Clients, Delete(c) PROVE DyingAsked'
    <3>1. want[c] = None /\ pc[c] = "delete" /\ UNCHANGED <<want, target>>
      BY <2>4 DEF Delete, RaceInv
    <3>2. CASE dying' = dying \cup {target[c]} /\ Answer(c, "done")
      BY <3>1, <3>2 DEF TypeOK, DyingAsked, Answer
    <3>3. CASE dying' = dying /\ Answer(c, "conflict")
      BY <3>1, <3>3, AnswerKeeps
    <3>4. QED
      BY <2>4, <3>2, <3>3 DEF Delete
  <2>5. ASSUME NEW c \in Clients, Return(c) \/ Lose(c) PROVE DyingAsked'
    BY <2>5 DEF Return, Lose, DyingAsked, TypeOK
  <2>6. ASSUME NEW n \in Names, Reap(n) PROVE DyingAsked'
    BY <2>6 DEF Reap, DyingAsked
  <2>7. CASE ConfigureResponse \/ UNCHANGED vars
    BY <2>7 DEF ConfigureResponse, vars, DyingAsked
  <2>8. QED
    BY <2>1, <2>2, <2>3, <2>4, <2>5, <2>6, <2>7 DEF Next, Client
<1> DEFINE Asked == \A n \in Names : store[n] # None /\ store'[n] = None =>
             \E c \in Clients : want[c] = None /\ target[c] = n /\ reply[c] = "done"
<1>3. IInv /\ DyingAsked /\ [Next]_vars => [Asked]_vars
  <2> SUFFICES ASSUME IInv, DyingAsked, Next, NEW n \in Names, store[n] # None, store'[n] = None
               PROVE  n \in dying
    BY DEF DyingAsked
  <2>1. ASSUME NEW c \in Clients, Put(c) \/ Post(c) PROVE FALSE
    <3>1. want[c] # None
      BY <2>1 DEF IInv, RaceInv, Put, Post
    <3>2. QED
      BY <2>1, <3>1 DEF IInv, TypeOK, Put, Post
  <2>2. ASSUME NEW m \in Names, Reap(m) PROVE n \in dying
    BY <2>2 DEF Reap, IInv, TypeOK
  <2>3. QED
    BY <2>1, <2>2 DEF Next, Client, Call, Decide, Delete, Return, Reject, Lose, ConfigureResponse
<1>4. QED
  BY <1>1, <1>2, <1>3, Inductive, PTL DEF Spec, WritesSurvive
=============================================================================
