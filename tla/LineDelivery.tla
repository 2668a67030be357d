---------------------------- MODULE LineDelivery ----------------------------
(***************************************************************************)
(* What a watch promises: its callbacks see the lines the API server wrote, *)
(* in that order, each one once and none skipped; after a cancellation they *)
(* see one more at most; and it returns only if it was cancelled before, or *)
(* they had every line of a response that the server ended, or OnError was  *)
(* told of the request or the response that failed.  Otherwise it throws.   *)
(***************************************************************************)
EXTENDS Naturals, Sequences

CONSTANT Kinds        \* what a line can be

VARIABLES emitted,    \* the lines the server wrote
          stream,     \* the response: open, ended by the server, or broken
          delivered,  \* the lines handed to a callback
          cancelled,  \* somebody, or an error, ends the watch
          late,       \* the lines handed over since then
          errors,     \* calls of OnError
          outcome     \* how it ended: "none" yet, "returned" or "threw"

vars == <<emitted, stream, delivered, cancelled, late, errors, outcome>>

Init ==
  /\ emitted = <<>> /\ stream = "open" /\ delivered = <<>>
  /\ cancelled = FALSE /\ late = 0 /\ errors = 0 /\ outcome = "none"

Emit ==
  /\ stream = "open"
  /\ \E k \in Kinds : emitted' = Append(emitted, k)
  /\ UNCHANGED <<stream, delivered, cancelled, late, errors, outcome>>

Close ==
  /\ stream = "open" /\ stream' \in {"ended", "broken"}
  /\ UNCHANGED <<emitted, delivered, cancelled, late, errors, outcome>>

Cancel ==
  /\ outcome = "none" /\ cancelled' = TRUE
  /\ UNCHANGED <<emitted, stream, delivered, late, errors, outcome>>

\* OnError, which cancels, is called for every failure that is told.
Told(times) == errors' = errors + times /\ (times > 0 => cancelled')

\* A callback may cancel.  A line that does not deserialise is told to OnError,
\* and what OnError throws is told to it again and may end the watch.
Deliver ==
  /\ outcome = "none" /\ Len(delivered) < Len(emitted)
  /\ cancelled => late = 0
  /\ delivered' = Append(delivered, emitted[Len(delivered) + 1])
  /\ late' = IF cancelled THEN 1 ELSE 0
  /\ cancelled' \in {cancelled, TRUE} /\ \E n \in 0..2 : Told(n)
  /\ outcome' \in {"none", "threw"}
  /\ UNCHANGED <<emitted, stream>>

Return ==
  /\ outcome = "none" /\ outcome' = "returned"
  /\ \/ (cancelled \/ (stream = "ended" /\ delivered = emitted)) /\ UNCHANGED <<cancelled, errors>>
     \/ (emitted = <<>> \/ stream = "broken") /\ Told(1)
  /\ UNCHANGED <<emitted, stream, delivered, late>>

Throw ==
  /\ outcome = "none" /\ outcome' = "threw"
  /\ cancelled' \in {cancelled, TRUE} /\ \E n \in 0..1 : Told(n)
  /\ UNCHANGED <<emitted, stream, delivered, late>>

Next == Emit \/ Close \/ Cancel \/ Deliver \/ Return \/ Throw

Spec == Init /\ [][Next]_vars
=============================================================================
