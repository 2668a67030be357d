-------------------------------- MODULE Watch --------------------------------
(***************************************************************************)
(* The watch of the KubernetesClient library as the sample API's watch2     *)
(* endpoints drive it: the HTTP layer peeks at the first line of the        *)
(* response (WatcherDelegatingHandler), Watch.Execute reads line after      *)
(* line and calls back, and the callbacks cancel it after enough Added      *)
(* events, on an error, or by a timer.  The pod and deployment endpoints    *)
(* swallow errors and stop after five Added events (PodLimit here), the job *)
(* endpoint stops after one and rethrows the error.                         *)
(***************************************************************************)
EXTENDS Naturals, Sequences

CONSTANTS PodLimit,  \* "added >= 5" of WatchPods2 and WatchDeployments2
          MaxLines   \* bound: the lines the server writes at most

ASSUME BoundAssumption == PodLimit \in Nat \ {0} /\ MaxLines \in Nat

VARIABLES
  endpoint,   \* whose callbacks these are
  emitted,    \* lines the API server wrote to the response
  stream,     \* the response: open, ended by the server, or broken
  taken,      \* lines read from the response so far
  buffer,     \* PeekableStreamReader._buffer: line numbers
  pc,         \* where the endpoint stands
  line,       \* the line being handled
  delivered,  \* lines handed to OnEvent or OnError
  result,     \* the Added lines collected by the endpoint
  cancelled,  \* cts
  late,       \* lines delivered since the cancellation (observer only)
  errors,     \* calls of OnError
  outcome     \* what the request of the endpoint's caller came to

vars == <<endpoint, emitted, stream, taken, buffer, pc, line, delivered, result,
          cancelled, late, errors, outcome>>

\* An ERROR event's object is a Status, which does not deserialise as the
\* watched type: its "status" is a string there and an object here.
Kinds == {"added", "other", "error"}

\* The types; a position never passes what the server wrote, and only the
\* first line is ever in the peek buffer.
TypeOK ==
  /\ endpoint \in {"pods", "jobs"}
  /\ emitted \in Seq(Kinds) /\ delivered \in Seq(Kinds) /\ result \in Seq({"added"})
  /\ stream \in {"open", "ended", "broken"}
  /\ taken \in 0..Len(emitted) /\ line \in 0..Len(emitted)
  /\ buffer \in {<<>>, <<1>>}
  /\ pc \in {"listing", "requesting", "reading", "dispatching", "closed"}
  /\ cancelled \in BOOLEAN /\ late \in Nat /\ errors \in Nat
  /\ outcome \in {"none", "returned", "threw"}

Limit == IF endpoint = "jobs" THEN 1 ELSE PodLimit

Init ==
  /\ endpoint \in {"pods", "jobs"}
  /\ emitted = <<>> /\ stream = "open" /\ taken = 0 /\ buffer = <<>>
  /\ pc = "listing" /\ line = 0 /\ delivered = <<>> /\ result = <<>>
  /\ cancelled = FALSE /\ late = 0 /\ errors = 0 /\ outcome = "none"

-----------------------------------------------------------------------------
(* The API server, the network and the timer of the CancellationTokenSource *)

ServerWrites ==
  /\ pc \notin {"listing", "closed"} /\ stream = "open" /\ Len(emitted) < MaxLines
  /\ \E k \in Kinds : emitted' = Append(emitted, k)
  /\ UNCHANGED <<endpoint, stream, taken, buffer, pc, line, delivered, result,
                 cancelled, late, errors, outcome>>

ServerCloses ==
  /\ pc \notin {"listing", "closed"} /\ stream = "open"
  /\ stream' \in {"ended", "broken"}
  /\ UNCHANGED <<endpoint, emitted, taken, buffer, pc, line, delivered, result,
                 cancelled, late, errors, outcome>>

Expire ==
  /\ pc # "closed" /\ ~cancelled
  /\ cancelled' = TRUE
  /\ UNCHANGED <<endpoint, emitted, stream, taken, buffer, pc, line, delivered, result,
                 late, errors, outcome>>

-----------------------------------------------------------------------------
(* The endpoint                                                            *)

\* The finally of Execute, and how the endpoint answers.
Finish(how) == pc' = "closed" /\ outcome' = how

\* OnError of the endpoint: it cancels; the job endpoint throws again.  An error
\* on a line is caught by Execute's inner catch, and what OnError throws there by
\* the outer one, which calls OnError again.
OnErrorForLine ==
  /\ cancelled' = TRUE
  /\ IF endpoint = "jobs"
     THEN errors' = errors + 2 /\ Finish("threw")
     ELSE errors' = errors + 1 /\ pc' = "reading" /\ UNCHANGED outcome

OnErrorForStream ==
  /\ cancelled' = TRUE /\ errors' = errors + 1
  /\ Finish(IF endpoint = "jobs" THEN "threw" ELSE "returned")

\* The list made for a resourceVersion that is then not used.
List ==
  /\ pc = "listing"
  /\ \/ pc' = "requesting" /\ UNCHANGED outcome
     \/ Finish("threw")
  /\ UNCHANGED <<endpoint, emitted, stream, taken, buffer, line, delivered, result,
                 cancelled, late, errors>>

\* SerializeToStreamAsync: the response is returned to the client once its
\* first line is read; the line stays in the peek buffer.
PeekFirstLine ==
  /\ pc = "requesting" /\ emitted # <<>>
  /\ taken' = 1 /\ buffer' = <<1>> /\ pc' = "reading"
  /\ UNCHANGED <<endpoint, emitted, stream, line, delivered, result, cancelled, late,
                 errors, outcome>>

\* The request is refused, times out before a first line, or ends without one
\* (an empty body does not deserialise).
RequestFails ==
  /\ pc = "requesting" /\ emitted = <<>>
  /\ OnErrorForStream
  /\ UNCHANGED <<endpoint, emitted, stream, taken, buffer, line, delivered, result, late>>

\* MUTANT: ReadLineAsync counts a buffered line as read once more.
CountsBufferedLine ==
  /\ pc = "reading"
  /\ \/ buffer # <<>> /\ line' = Head(buffer) /\ buffer' = Tail(buffer)
     \/ buffer = <<>> /\ taken < Len(emitted) /\ line' = taken + 1 /\ UNCHANGED buffer
  /\ taken' = taken + 1
  /\ IF cancelled THEN Finish("returned") ELSE pc' = "dispatching" /\ UNCHANGED outcome
  /\ UNCHANGED <<endpoint, emitted, stream, delivered, result, cancelled, late, errors>>

\* MUTANT: cts is not tested after a line.
NoCancelTest ==
  /\ pc = "reading"
  /\ \/ buffer # <<>> /\ line' = Head(buffer) /\ buffer' = Tail(buffer) /\ UNCHANGED taken
     \/ buffer = <<>> /\ taken < Len(emitted)
        /\ line' = taken + 1 /\ taken' = taken + 1 /\ UNCHANGED buffer
  /\ pc' = "dispatching"
  /\ UNCHANGED <<endpoint, emitted, stream, delivered, result, cancelled, late, errors, outcome>>

\* ReadLineAsync, and the test of cts that drops the line.
ReadLine ==
  /\ pc = "reading"
  /\ \/ buffer # <<>> /\ line' = Head(buffer) /\ buffer' = Tail(buffer) /\ UNCHANGED taken
     \/ buffer = <<>> /\ taken < Len(emitted)
        /\ line' = taken + 1 /\ taken' = taken + 1 /\ UNCHANGED buffer
  /\ IF cancelled THEN Finish("returned") ELSE pc' = "dispatching" /\ UNCHANGED outcome
  /\ UNCHANGED <<endpoint, emitted, stream, delivered, result, cancelled, late, errors>>

\* MUTANT: the end of the stream is not told from an empty line.
IgnoresEnd ==
  /\ pc = "reading" /\ buffer = <<>> /\ taken = Len(emitted)
  /\ stream = "broken" /\ OnErrorForStream
  /\ UNCHANGED <<endpoint, emitted, stream, taken, buffer, line, delivered, result, late>>

\* MUTANT: a broken stream passes for its end.
BreakIsEnd ==
  /\ pc = "reading" /\ buffer = <<>> /\ taken = Len(emitted)
  /\ stream # "open" /\ Finish("returned")
  /\ UNCHANGED <<endpoint, emitted, stream, taken, buffer, line, delivered, result, late,
                 cancelled, errors>>

ReadEnd ==
  /\ pc = "reading" /\ buffer = <<>> /\ taken = Len(emitted)
  /\ \/ stream = "ended" /\ Finish("returned") /\ UNCHANGED <<cancelled, errors>>
     \/ stream = "broken" /\ OnErrorForStream
  /\ UNCHANGED <<endpoint, emitted, stream, taken, buffer, line, delivered, result, late>>

\* Deserialisation and OnEvent.
Dispatch ==
  /\ pc = "dispatching"
  /\ delivered' = Append(delivered, emitted[line])
  /\ late' = IF cancelled THEN late + 1 ELSE late
  /\ \/ /\ emitted[line] = "error"
        /\ OnErrorForLine /\ UNCHANGED result
     \/ /\ emitted[line] = "added"
        /\ result' = Append(result, "added")
        /\ cancelled' = (cancelled \/ Len(result) + 1 >= Limit)
        /\ pc' = "reading" /\ UNCHANGED <<errors, outcome>>
     \/ /\ emitted[line] = "other"
        /\ pc' = "reading" /\ UNCHANGED <<result, cancelled, errors, outcome>>
  /\ UNCHANGED <<endpoint, emitted, stream, taken, buffer, line>>

-----------------------------------------------------------------------------
Endpoint == \/ List \/ PeekFirstLine \/ RequestFails \/ ReadLine \/ ReadEnd \/ Dispatch

Next == ServerWrites \/ ServerCloses \/ Expire \/ Endpoint

\* The client runs what it can run; HttpClient's own timeout ends a request that
\* gets no first line.  Nothing is assumed of the server.
Fairness == WF_vars(Endpoint)

Spec == Init /\ [][Next]_vars /\ Fairness

-----------------------------------------------------------------------------
\* The callbacks see the server's lines in order, none lost to the peek buffer and
\* none twice; a cancellation lets one more through; and an answer is only given
\* for a watch that was cancelled before, had every line, or told OnError why not.
Promise == INSTANCE LineDelivery
IsLineDelivery == Promise!Spec

\* The endpoint never returns more Added objects than it asked for, although
\* the lines after the last one are already waiting in the stream.
ResultWithinLimit == Len(result) <= Limit

\* OnError is called at most twice in a watch: the line or the stream that fails
\* first cancels it, and only one more failure is still under way, be it the
\* stream's or the one that the callback itself throws.
OnErrorAtMostTwice == errors <= 2

\* The watch closes after the server closed the stream, whatever is buffered.
ClosesWithServer == stream # "open" ~> pc = "closed"

\* "auto cancel after {expire}": an expired watch closes.
AutoCancels == cancelled ~> pc = "closed"
=============================================================================
