-------------------------- MODULE GuestbookProofs --------------------------
(***************************************************************************)
(* Safety proofs for Guestbook, for any pages and any pushes: an answer has *)
(* the entry that was pushed, and only an overtaken answer takes entries    *)
(* back from a page.                                                        *)
(***************************************************************************)
EXTENDS Guestbook, TLAPS

\* A push that was added has a place in the list.
PushInv ==
  \A k \in Pushes :
    /\ stage[k] = "added" => position[k] > 0
    /\ stage[k] = "answered" => position[k] > 0 /\ copy[k] >= position[k]

\* What a request read after its page last changed is no older than the page.
FreshInv ==
  \A r \in Requests : stage[r] = "answered" /\ ~overtaken[r] => copy[r] >= shown[PageOf(r)]

Stages == {"idle", "sent", "added", "answered", "failed", "over"}

\* TypeOK without the bounds on the copies.
Shape ==
  /\ length \in Nat
  /\ page \in [Pushes -> Pages]
  /\ stage \in [Requests -> Stages]
  /\ position \in [Pushes -> Nat] /\ copy \in [Requests -> Nat]
  /\ overtaken \in [Requests -> BOOLEAN]
  /\ shown \in [Pages -> Nat] /\ dots \in [Pages -> BOOLEAN]

\* Every copy is a prefix of the list.
Prefixes ==
  /\ \A k \in Pushes : position[k] <= length
  /\ \A r \in Requests : copy[r] <= length
  /\ \A p \in Pages : shown[p] <= length

IInv == Shape /\ Prefixes /\ PushInv /\ FreshInv

-----------------------------------------------------------------------------
\* Every request belongs to a page.
LEMMA PageType == ASSUME Shape, NEW r \in Requests PROVE PageOf(r) \in Pages
  BY DEF Shape, PageOf, Requests

\* A push is no page.
LEMMA Apart == \A k \in Pushes : k \notin Pages
  BY DisjointAssumption

\* The invariant holds at the start.
LEMMA InitIInv == Init => IInv
<1> SUFFICES ASSUME Init PROVE IInv
  OBVIOUS
<1>1. overtaken \in [Requests -> BOOLEAN] /\ dots \in [Pages -> BOOLEAN]
  BY Zenon DEF Init
<1>2. Shape
  BY <1>1 DEF Init, Shape, Stages
<1>3. Prefixes
  BY DEF Init, Prefixes
<1>4. \A r \in Requests : stage[r] # "answered" /\ stage[r] # "added"
  BY DEF Init
<1>5. PushInv /\ FreshInv
  BY <1>4 DEF PushInv, FreshInv, Requests
<1>6. QED
  BY <1>2, <1>3, <1>5 DEF IInv

\* A submission only sends.
LEMMA SubmitStep == ASSUME IInv, NEW k \in Pushes, Submit(k) PROVE IInv'
<1> USE DEF IInv
<1>1. dots' \in [Pages -> BOOLEAN]
  <2>1. dots \in [Pages -> BOOLEAN] /\ page[k] \in Pages
    BY DEF Shape
  <2>2. QED
    BY <2>1, Zenon DEF Submit
<1>2. stage' = [stage EXCEPT ![k] = "sent"] /\ UNCHANGED <<length, page, position, copy, overtaken, shown>>
  BY DEF Submit
<1>3. Shape'
  BY <1>1, <1>2 DEF Shape, Stages
<1>4. Prefixes' /\ PushInv'
  BY <1>2 DEF Prefixes, PushInv, Shape, Requests
<1>5. FreshInv'
  BY <1>2 DEF FreshInv, Shape, PageOf
<1>6. QED
  BY <1>3, <1>4, <1>5

\* RPUSH: the list grows, the entry is its last.
LEMMA AddStep == ASSUME IInv, NEW k \in Pushes, Add(k) PROVE IInv'
<1> USE DEF IInv
<1>1. /\ length' = length + 1 /\ position' = [position EXCEPT ![k] = length + 1]
      /\ stage' = [stage EXCEPT ![k] = "added"]
      /\ UNCHANGED <<page, copy, overtaken, shown, dots>>
  BY DEF Add
<1>2. Shape'
  <2>1. length' \in Nat /\ position' \in [Pushes -> Nat]
    BY <1>1 DEF Shape
  <2>2. stage' \in [Requests -> Stages]
    BY <1>1 DEF Shape, Stages
  <2>3. QED
    BY <1>1, <2>1, <2>2, Zenon DEF Shape
<1>3. Prefixes'
  BY <1>1 DEF Prefixes, Shape
<1>4. PushInv'
  BY <1>1 DEF PushInv, Shape, Requests
<1>5. FreshInv'
  BY <1>1 DEF FreshInv, Shape, PageOf
<1>6. QED
  BY <1>2, <1>3, <1>4, <1>5

\* LRANGE: the answer is the whole list, as it is now.
LEMMA RangeStep == ASSUME IInv, NEW r \in Requests, Range(r) PROVE IInv'
<1> USE DEF IInv
<1>1. /\ stage[r] = IF r \in Pages THEN "sent" ELSE "added"
      /\ stage' = [stage EXCEPT ![r] = "answered"] /\ copy' = [copy EXCEPT ![r] = length]
      /\ UNCHANGED <<length, page, position, overtaken, shown, dots>>
  BY DEF Range
<1>2. Shape'
  <2>1. copy' \in [Requests -> Nat] /\ stage' \in [Requests -> Stages]
    BY <1>1 DEF Shape, Stages
  <2>2. QED
    BY <1>1, <2>1, Zenon DEF Shape
<1>3. Prefixes'
  BY <1>1 DEF Prefixes, Shape
<1>4. PushInv'
  BY <1>1, Apart DEF PushInv, Prefixes, Shape, Requests
<1>5. FreshInv'
  <2>1. PageOf(r) \in Pages
    BY PageType
  <2>2. \A s \in Requests : PageOf(s)' = PageOf(s)
    BY <1>1 DEF PageOf
  <2>3. QED
    BY <1>1, <2>1, <2>2 DEF FreshInv, Prefixes, Shape
<1>6. QED
  BY <1>2, <1>3, <1>4, <1>5

\* What is left of a request whose answer is shown or that failed.
LEMMA ForgetStep ==
  ASSUME IInv, NEW r \in Requests, NEW s \in Stages \ {"added", "answered"}, Forget(r, s)
  PROVE  /\ stage' = [stage EXCEPT ![r] = s] /\ stage' \in [Requests -> Stages]
         /\ copy' = [copy EXCEPT ![r] = 0] /\ copy' \in [Requests -> Nat]
         /\ position' \in [Pushes -> Nat]
         /\ \A k \in Pushes : position'[k] <= length
         /\ \A q \in Requests : copy'[q] <= length
         /\ PushInv'
<1> USE DEF IInv
<1>1. /\ stage' = [stage EXCEPT ![r] = s] /\ copy' = [copy EXCEPT ![r] = 0]
      /\ position' = [k \in Pushes |-> IF k = r THEN 0 ELSE position[k]]
  BY DEF Forget
<1>2. /\ stage' \in [Requests -> Stages] /\ copy' \in [Requests -> Nat]
      /\ position' \in [Pushes -> Nat]
  BY <1>1 DEF Shape, Stages
<1>3. (\A k \in Pushes : position'[k] <= length) /\ (\A q \in Requests : copy'[q] <= length)
  BY <1>1 DEF Shape, Prefixes
<1>4. PushInv'
  BY <1>1 DEF PushInv, Shape, Stages, Requests
<1>5. QED
  BY <1>1, <1>2, <1>3, <1>4

\* A failure leaves the page alone.
LEMMA FailStep == ASSUME IInv, NEW r \in Requests, Fail(r) PROVE IInv'
<1> USE DEF IInv
<1>1. Forget(r, "failed") /\ UNCHANGED <<length, page, overtaken, shown, dots>>
  BY DEF Fail
<1>2. "failed" \in Stages \ {"added", "answered"}
  BY DEF Stages
<1>3. /\ stage' = [stage EXCEPT ![r] = "failed"] /\ stage' \in [Requests -> Stages]
      /\ copy' = [copy EXCEPT ![r] = 0] /\ copy' \in [Requests -> Nat]
      /\ position' \in [Pushes -> Nat]
      /\ \A k \in Pushes : position'[k] <= length
      /\ \A q \in Requests : copy'[q] <= length
      /\ PushInv'
  BY <1>1, <1>2, ForgetStep
<1>4. Shape'
  BY <1>1, <1>3, Zenon DEF Shape
<1>5. Prefixes'
  BY <1>1, <1>3 DEF Prefixes
<1>6. FreshInv'
  BY <1>1, <1>3 DEF FreshInv, Shape, PageOf
<1>7. QED
  BY <1>3, <1>4, <1>5, <1>6

\* Nor does a failure that nobody handles.
LEMMA IgnoreStep == ASSUME IInv, NEW r \in Requests, Ignore(r) PROVE IInv'
<1> USE DEF IInv
<1>1. /\ stage' = [stage EXCEPT ![r] = AfterAnswer(r)]
      /\ UNCHANGED <<length, page, position, copy, shown, dots>>
  BY DEF Ignore
<1>2. AfterAnswer(r) \in {"idle", "over"}
  BY DEF AfterAnswer
<1>3. overtaken' \in [Requests -> BOOLEAN]
        /\ \A q \in Requests \ {r} : overtaken'[q] = overtaken[q]
  <2>1. overtaken \in [Requests -> BOOLEAN]
    BY DEF Shape
  <2>2. overtaken' = [overtaken EXCEPT ![r] = FALSE]
    BY DEF Ignore
  <2>3. QED
    BY <2>1, <2>2, Zenon
<1>4. stage' \in [Requests -> Stages]
  BY <1>1, <1>2 DEF Shape, Stages
<1>5. Shape'
  BY <1>1, <1>3, <1>4, Zenon DEF Shape
<1>6. Prefixes' /\ PushInv'
  BY <1>1, <1>2 DEF Prefixes, PushInv, Shape, Requests
<1>7. FreshInv'
  BY <1>1, <1>2, <1>3 DEF FreshInv, Shape, PageOf
<1>8. QED
  BY <1>5, <1>6, <1>7

\* The page shows one answer; every other one of its requests is overtaken.
LEMMA ShowStep == ASSUME IInv, NEW r \in Requests, Show(r) PROVE IInv'
<1> USE DEF IInv
<1>1. /\ stage[r] = "answered" /\ shown' = [shown EXCEPT ![PageOf(r)] = copy[r]]
      /\ Forget(r, AfterAnswer(r)) /\ UNCHANGED <<length, page>>
  BY DEF Show
<1>2. AfterAnswer(r) \in Stages \ {"added", "answered"}
  BY DEF AfterAnswer, Stages
<1>3. /\ stage' = [stage EXCEPT ![r] = AfterAnswer(r)] /\ stage' \in [Requests -> Stages]
      /\ copy' = [copy EXCEPT ![r] = 0] /\ copy' \in [Requests -> Nat]
      /\ position' \in [Pushes -> Nat]
      /\ \A k \in Pushes : position'[k] <= length
      /\ \A q \in Requests : copy'[q] <= length
      /\ PushInv'
  BY <1>1, <1>2, ForgetStep
<1>4. PageOf(r) \in Pages
  BY PageType
<1>5. shown' \in [Pages -> Nat] /\ \A p \in Pages : shown'[p] <= length
  BY <1>1, <1>4 DEF Shape, Prefixes
<1>6. overtaken' \in [Requests -> BOOLEAN]
        /\ \A o \in Requests \ {r} : ~overtaken'[o] => ~overtaken[o] /\ o \notin Others(r)
  BY Zenon DEF Show
<1>7. dots' \in [Pages -> BOOLEAN]
  <2>1. dots \in [Pages -> BOOLEAN] /\ dots' = [dots EXCEPT ![PageOf(r)] = FALSE]
    BY Zenon DEF Shape, Show
  <2>2. QED
    BY <1>4, <2>1, Zenon
<1>8. Shape'
  BY <1>1, <1>3, <1>5, <1>6, <1>7, Zenon DEF Shape
<1>9. Prefixes'
  BY <1>1, <1>3, <1>5 DEF Prefixes
<1>10. FreshInv'
  <2> SUFFICES ASSUME NEW o \in Requests, stage'[o] = "answered", ~overtaken'[o]
               PROVE  copy'[o] >= shown'[PageOf(o)']
    BY DEF FreshInv, PageOf
  <2>1. PageOf(o)' = PageOf(o) /\ PageOf(o) \in Pages
    BY <1>1, PageType DEF PageOf
  <2>2. o # r /\ stage[o] = "answered" /\ copy'[o] = copy[o]
    BY <1>2, <1>3 DEF Shape
  <2>3. ~overtaken[o] /\ PageOf(o) # PageOf(r)
    BY <1>6, <2>2 DEF Others
  <2>4. shown'[PageOf(o)] = shown[PageOf(o)]
    BY <1>1, <2>1, <2>3 DEF Shape
  <2>5. copy[o] >= shown[PageOf(o)]
    BY <2>2, <2>3 DEF FreshInv
  <2>6. QED
    BY <2>1, <2>2, <2>4, <2>5
<1>11. QED
  BY <1>3, <1>8, <1>9, <1>10

\* The timer sends the next poll.
LEMMA PollStep == ASSUME IInv, NEW p \in Pages, Poll(p) PROVE IInv'
<1> USE DEF IInv
<1>1. /\ stage' = [stage EXCEPT ![p] = "sent"]
      /\ UNCHANGED <<length, page, position, copy, overtaken, shown, dots>>
  BY DEF Poll
<1>2. stage' \in [Requests -> Stages]
  BY <1>1 DEF Shape, Stages
<1>3. Shape'
  BY <1>1, <1>2, Zenon DEF Shape
<1>4. Prefixes' /\ PushInv'
  BY <1>1 DEF Prefixes, PushInv, Shape, Requests
<1>5. FreshInv'
  BY <1>1 DEF FreshInv, Shape, PageOf
<1>6. QED
  BY <1>3, <1>4, <1>5

\* The strengthened invariant holds in every reachable state.
LEMMA Inductive == Spec => []IInv
<1>1. IInv /\ [Next]_vars => IInv'
  <2>1. IInv /\ Next => IInv'
    BY SubmitStep, AddStep, RangeStep, FailStep, IgnoreStep, ShowStep, PollStep DEF Next, Request
  <2>2. IInv /\ UNCHANGED vars => IInv'
    <3> SUFFICES ASSUME IInv, UNCHANGED vars PROVE IInv'
      OBVIOUS
    <3>1. UNCHANGED <<length, page, stage, position, copy, overtaken, shown, dots>>
      BY DEF vars
    <3>2. Shape'
      BY <3>1, Zenon DEF IInv, Shape
    <3>3. Prefixes' /\ PushInv' /\ FreshInv'
      BY <3>1 DEF IInv, Prefixes, PushInv, FreshInv, PageOf
    <3>4. QED
      BY <3>2, <3>3 DEF IInv
  <2>3. QED
    BY <2>1, <2>2
<1>2. QED
  BY <1>1, InitIInv, PTL DEF Spec

\* The state is well typed: no copy of the list is longer than the list.
THEOREM TypeCorrect == Spec => []TypeOK
<1>1. IInv => TypeOK
  <2> SUFFICES ASSUME IInv PROVE TypeOK
    OBVIOUS
  <2>1. Shape /\ Prefixes
    BY DEF IInv
  <2>2. /\ position \in [Pushes -> 0..length] /\ copy \in [Requests -> 0..length]
        /\ shown \in [Pages -> 0..length]
    BY <2>1 DEF Shape, Prefixes
  <2>3. QED
    BY <2>1, <2>2, Zenon DEF Shape, TypeOK, Stages
<1>2. QED
  BY <1>1, Inductive, PTL

\* ListPushHandler answers with a list that has the entry, whoever pushes in
\* between its two commands.
THEOREM AnswerHasEntry == Spec => []ReadsOwnEntry
<1>1. IInv => ReadsOwnEntry
  BY DEF IInv, PushInv, ReadsOwnEntry
<1>2. QED
  BY <1>1, Inductive, PTL

\* A page loses entries only to the answer of an overtaken request.
THEOREM OnlyOvertakenShrink == Spec => ShrinksOnlyOvertaken
<1> DEFINE Excused ==
      \A p \in Pages : shown'[p] < shown[p] =>
        \E r \in Requests : PageOf(r) = p /\ overtaken[r] /\ stage[r] = "answered"
                            /\ stage'[r] # "answered"
<1>1. IInv /\ [Next]_vars => [Excused]_vars
  <2> SUFFICES ASSUME IInv, Next, NEW p \in Pages, shown'[p] < shown[p]
               PROVE  \E r \in Requests : PageOf(r) = p /\ overtaken[r] /\ stage[r] = "answered"
                                          /\ stage'[r] # "answered"
    OBVIOUS
  <2>1. shown \in [Pages -> Nat] /\ copy \in [Requests -> Nat]
    BY DEF IInv, Shape
  <2>2. PICK r \in Requests : Show(r)
    <3>1. shown' # shown
      BY <2>1
    <3>2. QED
      BY <3>1 DEF Next, Request, Submit, Add, Poll, Range, Fail, Ignore
  <2>3. /\ stage[r] = "answered" /\ shown' = [shown EXCEPT ![PageOf(r)] = copy[r]]
        /\ stage' = [stage EXCEPT ![r] = AfterAnswer(r)]
    BY <2>2 DEF Show, Forget
  <2>4. PageOf(r) = p /\ copy[r] < shown[p]
    BY <2>1, <2>3
  <2>5. overtaken[r]
    BY <2>1, <2>3, <2>4 DEF IInv, FreshInv
  <2>6. stage'[r] # "answered"
    BY <2>3 DEF IInv, Shape, AfterAnswer
  <2>7. QED
    BY <2>3, <2>4, <2>5, <2>6
<1>2. QED
  BY <1>1, Inductive, PTL DEF Spec, ShrinksOnlyOvertaken
=============================================================================
