------------------------------ MODULE Guestbook ------------------------------
(***************************************************************************)
(* The guestbook of argocd/sample-local-image: pages that push entries and  *)
(* poll, a stateless Go server, and one list in redis.  The list only       *)
(* grows, so a copy of it is told by its length.                            *)
(***************************************************************************)
EXTENDS Naturals

CONSTANTS Pages,    \* open pages; a page's poll has the page's name
          Pushes    \* bound: entries submitted

ASSUME DisjointAssumption == Pages \cap Pushes = {}

Requests == Pages \cup Pushes

VARIABLES
  length,    \* of the list guestbook in redis
  page,      \* the page that submitted a push
  stage,     \* of each request
  position,  \* of a push's entry in the list, 0 unless the push is being answered
  copy,      \* the length a request read, 0 unless its answer is under way
  overtaken, \* while a request was out its page showed another answer (observer)
  shown,     \* the list a page shows
  dots       \* it ends in "..."

vars == <<length, page, stage, position, copy, overtaken, shown, dots>>

\* The types; no copy is longer than the list.
TypeOK ==
  /\ length \in Nat
  /\ page \in [Pushes -> Pages]
  /\ stage \in [Requests -> {"idle", "sent", "added", "answered", "failed", "over"}]
  /\ position \in [Pushes -> 0..length] /\ copy \in [Requests -> 0..length]
  /\ overtaken \in [Requests -> BOOLEAN]
  /\ shown \in [Pages -> 0..length] /\ dots \in [Pages -> BOOLEAN]

\* A page polls as soon as it is ready.
Init ==
  /\ length = 0 /\ page \in [Pushes -> Pages]
  /\ stage = [r \in Requests |-> IF r \in Pages THEN "sent" ELSE "idle"]
  /\ position = [k \in Pushes |-> 0] /\ copy = [r \in Requests |-> 0]
  /\ overtaken = [r \in Requests |-> FALSE]
  /\ shown = [p \in Pages |-> 0] /\ dots = [p \in Pages |-> FALSE]

PageOf(r) == IF r \in Pages THEN r ELSE page[r]

\* The other requests of a page that are out.
Others(r) == {o \in Requests \ {r} :
                PageOf(o) = PageOf(r) /\ stage[o] \in {"sent", "added", "answered", "failed"}}

-----------------------------------------------------------------------------
\* handleSubmission: any number of pushes may be out at once.
Submit(k) ==
  /\ stage[k] = "idle"
  /\ stage' = [stage EXCEPT ![k] = "sent"]
  /\ dots' = [dots EXCEPT ![page[k]] = TRUE]
  /\ UNCHANGED <<length, page, position, copy, overtaken, shown>>

\* ListPushHandler, its first command.
Add(k) ==
  /\ stage[k] = "sent"
  /\ length' = length + 1 /\ position' = [position EXCEPT ![k] = length + 1]
  /\ stage' = [stage EXCEPT ![k] = "added"]
  /\ UNCHANGED <<page, copy, overtaken, shown, dots>>

\* MUTANT: a push is answered with the list as it was before.
RangeBeforePush(r) ==
  /\ stage[r] = IF r \in Pages THEN "sent" ELSE "added"
  /\ stage' = [stage EXCEPT ![r] = "answered"]
  /\ copy' = [copy EXCEPT ![r] = IF r \in Pages THEN length ELSE position[r] - 1]
  /\ UNCHANGED <<length, page, position, overtaken, shown, dots>>

\* MUTANT: the answer contains an entry too many.
RangeTooLong(r) ==
  /\ stage[r] = IF r \in Pages THEN "sent" ELSE "added"
  /\ stage' = [stage EXCEPT ![r] = "answered"]
  /\ copy' = [copy EXCEPT ![r] = length + 1]
  /\ UNCHANGED <<length, page, position, overtaken, shown, dots>>

\* MUTANT: polls are served by a replica.
RangeFromReplica(r) ==
  /\ stage[r] = IF r \in Pages THEN "sent" ELSE "added"
  /\ stage' = [stage EXCEPT ![r] = "answered"]
  /\ \E n \in 0..length : copy' = [copy EXCEPT ![r] = IF r \in Pages THEN n ELSE length]
  /\ UNCHANGED <<length, page, position, overtaken, shown, dots>>

\* ListRangeHandler, of a poll or at the end of a push.
Range(r) ==
  /\ stage[r] = IF r \in Pages THEN "sent" ELSE "added"
  /\ stage' = [stage EXCEPT ![r] = "answered"]
  /\ copy' = [copy EXCEPT ![r] = length]
  /\ UNCHANGED <<length, page, position, overtaken, shown, dots>>

\* A request ends in a stage, with nothing left of it.
Forget(r, s) ==
  /\ stage' = [stage EXCEPT ![r] = s]
  /\ copy' = [copy EXCEPT ![r] = 0]
  /\ position' = [k \in Pushes |-> IF k = r THEN 0 ELSE position[k]]

AfterAnswer(r) == IF r \in Pages THEN "idle" ELSE "over"

\* HandleError panics, which is answered 500; or a message is lost.
Fail(r) ==
  /\ stage[r] \in {"sent", "added", "answered"}
  /\ Forget(r, "failed")
  /\ UNCHANGED <<length, page, overtaken, shown, dots>>

\* MUTANT: only a successful poll is followed by the next one.
PollOnSuccess(r) ==
  /\ stage[r] = "failed"
  /\ stage' = [stage EXCEPT ![r] = "over"]
  /\ UNCHANGED <<length, page, position, copy, overtaken, shown, dots>>

\* Nobody handles a failed push; a failed poll is followed by the next one.
Ignore(r) ==
  /\ stage[r] = "failed"
  /\ stage' = [stage EXCEPT ![r] = AfterAnswer(r)]
  /\ overtaken' = [overtaken EXCEPT ![r] = FALSE]
  /\ UNCHANGED <<length, page, position, copy, shown, dots>>

\* appendGuestbookEntries replaces what the page shows, whatever came before.
Show(r) ==
  /\ stage[r] = "answered"
  /\ shown' = [shown EXCEPT ![PageOf(r)] = copy[r]]
  /\ dots' = [dots EXCEPT ![PageOf(r)] = FALSE]
  /\ Forget(r, AfterAnswer(r))
  /\ overtaken' = [o \in Requests |-> (overtaken[o] /\ o # r) \/ o \in Others(r)]
  /\ UNCHANGED <<length, page>>

\* setTimeout: a second after a poll's answer or failure the next is sent.
Poll(p) ==
  /\ stage[p] = "idle"
  /\ stage' = [stage EXCEPT ![p] = "sent"]
  /\ UNCHANGED <<length, page, position, copy, overtaken, shown, dots>>

Request(r) == Range(r) \/ Fail(r) \/ Ignore(r) \/ Show(r)

Next == \/ \E k \in Pushes : Submit(k) \/ Add(k)
        \/ \E p \in Pages : Poll(p)
        \/ \E r \in Requests : Request(r)

\* Every request ends, the timer fires, and not every poll fails.
Fairness ==
  /\ \A k \in Pushes : WF_vars(Add(k) \/ Request(k))
  /\ \A p \in Pages : /\ WF_vars(Poll(p)) /\ WF_vars(Request(p))
                      /\ SF_vars(Range(p)) /\ SF_vars(Show(p))

Spec == Init /\ [][Next]_vars /\ Fairness

-----------------------------------------------------------------------------
\* Push and read are two commands: others may come between them, but the answer
\* has the entry that was pushed.
ReadsOwnEntry == \A k \in Pushes : stage[k] = "answered" => copy[k] >= position[k] /\ position[k] > 0

\* A page shows a shorter list than before only when it had several requests
\* out: polls alone never take an entry back.
ShrinksOnlyOvertaken ==
  [][\A p \in Pages : shown'[p] < shown[p] =>
       \E r \in Requests : PageOf(r) = p /\ overtaken[r] /\ stage[r] = "answered"
                           /\ stage'[r] # "answered"]_vars

\* "Poll every second": when the pushes are over every page comes to show the
\* whole list, without a placeholder, although answers overtake each other.
UpToDate == \A p \in Pages : <>[](shown[p] = length /\ ~dots[p])
=============================================================================
