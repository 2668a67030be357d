----------------------------- MODULE WatchProofs -----------------------------
(***************************************************************************)
(* Safety proofs for Watch, for any limit and any number of lines: the      *)
(* refinement of LineDelivery and the bounds on what a callback still gets. *)
(***************************************************************************)
EXTENDS Watch, TLAPS

\* Where the lines read from the stream are: delivered, in the peek buffer, or
\* in hand.
PositionInv ==
  /\ pc \in {"listing", "requesting"} => delivered = <<>> /\ buffer = <<>> /\ taken = 0
  /\ pc = "reading" => taken = Len(delivered) + Len(buffer)
                       /\ (buffer = <<1>> => delivered = <<>>)
  /\ pc = "dispatching" => buffer = <<>> /\ line = taken /\ taken = Len(delivered) + 1

\* A line in hand was read before the cancellation.
LateInv ==
  /\ late <= 1
  /\ pc = "dispatching" => late = 0
  /\ ~cancelled => late = 0

\* The endpoint goes on only while it has room for one more object.
RoomInv ==
  /\ Len(result) <= Limit
  /\ ~cancelled \/ pc = "dispatching" => Len(result) < Limit

\* Every endpoint asks for at least one object ("added >= 5", "added >= 1").
LEMMA LimitType == endpoint \in {"pods", "jobs"} => Limit \in Nat \ {0}
  BY BoundAssumption DEF Limit

\* The state is well typed; the peek buffer holds at most the first line.
THEOREM TypeCorrect == Spec => [](TypeOK /\ PositionInv)
<1>1. Init => TypeOK /\ PositionInv
  <2> SUFFICES ASSUME Init PROVE TypeOK /\ PositionInv
    OBVIOUS
  <2>1. cancelled \in BOOLEAN
    BY Zenon DEF Init
  <2>2. emitted \in Seq(Kinds) /\ delivered \in Seq(Kinds) /\ result \in Seq({"added"})
    BY DEF Init
  <2>3. QED
    BY <2>1, <2>2 DEF Init, TypeOK, PositionInv
<1>2. TypeOK /\ PositionInv /\ [Next]_vars => TypeOK' /\ PositionInv'
  <2> SUFFICES ASSUME TypeOK, PositionInv, [Next]_vars PROVE TypeOK' /\ PositionInv'
    OBVIOUS
  <2> USE DEF TypeOK, PositionInv
  <2>1. CASE ServerWrites
    <3>1. PICK k \in Kinds : emitted' = Append(emitted, k)
      BY <2>1 DEF ServerWrites
    <3>2. emitted' \in Seq(Kinds) /\ Len(emitted') = Len(emitted) + 1
      BY <3>1
    <3>3. QED
      BY <2>1, <3>2 DEF ServerWrites
  <2>2. CASE ServerCloses \/ Expire
    BY <2>2 DEF ServerCloses, Expire
  <2>3. CASE List
    BY <2>3 DEF List, Finish
  <2>4. CASE PeekFirstLine
    BY <2>4 DEF PeekFirstLine
  <2>5. CASE RequestFails
    BY <2>5 DEF RequestFails, OnErrorForStream, Finish
  <2>6. CASE ReadLine
    <3>1. CASE buffer # <<>>
      BY <2>6, <3>1 DEF ReadLine, Finish
    <3>2. CASE buffer = <<>>
      BY <2>6, <3>2 DEF ReadLine, Finish
    <3>3. QED
      BY <3>1, <3>2
  <2>7. CASE ReadEnd
    <3>1. cancelled' \in BOOLEAN
      BY <2>7 DEF ReadEnd, OnErrorForStream
    <3>2. errors' \in Nat
      BY <2>7 DEF ReadEnd, OnErrorForStream
    <3>3. pc' = "closed" /\ outcome' \in {"returned", "threw"}
      BY <2>7 DEF ReadEnd, OnErrorForStream, Finish
    <3>4. UNCHANGED <<endpoint, emitted, stream, taken, buffer, line, delivered, result, late>>
      BY <2>7 DEF ReadEnd
    <3>5. QED
      BY <3>1, <3>2, <3>3, <3>4
  <2>8. CASE Dispatch
    <3>1. pc = "dispatching" /\ line \in 1..Len(emitted) /\ emitted[line] \in Kinds
      BY <2>8 DEF Dispatch
    <3>2. delivered' \in Seq(Kinds) /\ Len(delivered') = Len(delivered) + 1
      BY <2>8, <3>1 DEF Dispatch
    <3>3. result' \in Seq({"added"})
      <4>1. result' = result \/ result' = Append(result, "added")
        BY <2>8, Zenon DEF Dispatch
      <4>2. result \in Seq({"added"}) /\ "added" \in {"added"}
        BY Zenon
      <4> HIDE DEF TypeOK, PositionInv
      <4>3. QED
        BY <4>1, <4>2
    <3>4. cancelled' \in BOOLEAN
      BY <2>8 DEF Dispatch, OnErrorForLine
    <3>5. /\ UNCHANGED <<endpoint, emitted, stream, taken, buffer, line>>
          /\ pc' \in {"reading", "closed"}
          /\ outcome' \in {"none", "returned", "threw"}
          /\ late' \in Nat /\ errors' \in Nat
      BY <2>8 DEF Dispatch, OnErrorForLine, Finish
    <3>6. QED
      BY <3>1, <3>2, <3>3, <3>4, <3>5
  <2>9. CASE UNCHANGED vars
    BY <2>9 DEF vars
  <2>10. QED
    BY <2>1, <2>2, <2>3, <2>4, <2>5, <2>6, <2>7, <2>8, <2>9 DEF Next, Endpoint
<1>3. QED
  BY <1>1, <1>2, PTL DEF Spec

\* What is past the test of cts is one line, and there is room for it.
LEMMA RoomForOne == Spec => [](LateInv /\ RoomInv)
<1> USE BoundAssumption
<1>1. Init => LateInv /\ RoomInv
  BY DEF Init, LateInv, RoomInv, Limit
<1>2. TypeOK /\ PositionInv /\ LateInv /\ RoomInv /\ [Next]_vars => LateInv' /\ RoomInv'
  <2> SUFFICES ASSUME TypeOK, PositionInv, LateInv, RoomInv, [Next]_vars
               PROVE  LateInv' /\ RoomInv'
    OBVIOUS
  <2> USE DEF LateInv, RoomInv
  <2>1. Limit \in Nat \ {0} /\ Limit' = Limit
    BY LimitType DEF TypeOK, Limit, Next, Endpoint, ServerWrites, ServerCloses, Expire, List,
       PeekFirstLine, RequestFails, ReadLine, ReadEnd, Dispatch, vars
  <2>2. late \in Nat /\ Len(result) \in Nat
    BY DEF TypeOK
  <2>3. CASE ServerWrites \/ ServerCloses \/ Expire
    BY <2>1, <2>2, <2>3 DEF ServerWrites, ServerCloses, Expire
  <2>4. CASE List \/ PeekFirstLine
    BY <2>1, <2>2, <2>4 DEF List, PeekFirstLine, Finish
  <2>5. CASE RequestFails
    BY <2>1, <2>2, <2>5 DEF RequestFails, OnErrorForStream, Finish
  <2>6. CASE ReadLine
    BY <2>1, <2>2, <2>6 DEF ReadLine, Finish
  <2>7. CASE ReadEnd
    BY <2>1, <2>2, <2>7 DEF ReadEnd, OnErrorForStream, Finish
  <2>8. CASE Dispatch
    <3>1. pc = "dispatching" /\ late = 0 /\ Len(result) < Limit
      BY <2>8 DEF Dispatch
    <3>2. pc' \in {"reading", "closed"}
      BY <2>8 DEF Dispatch, OnErrorForLine, Finish
    <3>3. cancelled => cancelled'
      BY <2>8, Zenon DEF Dispatch, OnErrorForLine, TypeOK
    <3>4. late' = 0 \/ (late' = 1 /\ cancelled)
      BY <2>8, <3>1 DEF Dispatch
    <3>5. LateInv'
      BY <3>2, <3>3, <3>4
    <3>6. CASE result' = result
      BY <2>1, <2>2, <3>1, <3>2, <3>6, <3>5
    <3>7. CASE result' = Append(result, "added") /\ cancelled' = (cancelled \/ Len(result) + 1 >= Limit)
      <4>1. Len(result') = Len(result) + 1
        BY <3>7 DEF TypeOK
      <4>2. ~cancelled' => ~(Len(result) + 1 >= Limit)
        BY <3>7, Zenon
      <4>3. RoomInv'
        BY <2>1, <2>2, <3>1, <3>2, <4>1, <4>2
      <4>4. QED
        BY <3>5, <4>3
    <3>8. QED
      BY <2>8, <3>6, <3>7 DEF Dispatch
  <2>9. CASE UNCHANGED vars
    BY <2>1, <2>9 DEF vars
  <2>10. QED
    BY <2>3, <2>4, <2>5, <2>6, <2>7, <2>8, <2>9 DEF Next, Endpoint
<1>3. QED
  BY <1>1, <1>2, TypeCorrect, PTL DEF Spec

\* The endpoint stops at its limit: the callback that reaches it cancels before the
\* next line is tested.
THEOREM CancellationIsPrompt == Spec => []ResultWithinLimit
<1>1. RoomInv => ResultWithinLimit
  BY DEF RoomInv, ResultWithinLimit
<1>2. QED
  BY <1>1, RoomForOne, PTL

\* Whoever cancels, at most the one line already past the test of cts is still
\* delivered.
AtMostOneLineAfterCancel == late <= 1

\* A cancellation lets at most the line through that was already past its test.
THEOREM LateLineIsTheLast == Spec => []AtMostOneLineAfterCancel
<1>1. LateInv => AtMostOneLineAfterCancel
  BY DEF LateInv, AtMostOneLineAfterCancel
<1>2. QED
  BY <1>1, RoomForOne, PTL

\* Whoever fails first cancels; after that only what is still under way fails.
ErrorInv ==
  /\ errors <= 2
  /\ pc # "closed" => errors <= 1
  /\ pc = "dispatching" \/ ~cancelled => errors = 0

\* What was handed over is a prefix of what the server wrote.
PrefixInv ==
  /\ Len(delivered) <= Len(emitted)
  /\ \A i \in 1..Len(delivered) : delivered[i] = emitted[i]

\* The failure of a line and of what follows it: OnError is called twice at most.
THEOREM OnErrorTwiceAtMost == Spec => []OnErrorAtMostTwice
<1>1. Init => ErrorInv
  BY DEF Init, ErrorInv
<1>2. TypeOK /\ ErrorInv /\ [Next]_vars => ErrorInv'
  <2> SUFFICES ASSUME TypeOK, ErrorInv, [Next]_vars PROVE ErrorInv'
    OBVIOUS
  <2>1. errors \in Nat
    BY Zenon DEF TypeOK
  <2> USE DEF ErrorInv
  <2>2. CASE ServerWrites \/ ServerCloses \/ Expire
    BY <2>1, <2>2 DEF ServerWrites, ServerCloses, Expire
  <2>3. CASE List \/ PeekFirstLine
    BY <2>1, <2>3 DEF List, PeekFirstLine, Finish
  <2>4. CASE RequestFails \/ ReadEnd
    BY <2>1, <2>4 DEF RequestFails, ReadEnd, OnErrorForStream, Finish
  <2>5. CASE ReadLine
    BY <2>1, <2>5 DEF ReadLine, Finish
  <2>6. CASE Dispatch
    <3>1. errors = 0 /\ pc = "dispatching"
      BY <2>6 DEF Dispatch
    <3>2. CASE emitted[line] = "error"
      BY <2>6, <3>1, <3>2 DEF Dispatch, OnErrorForLine, Finish
    <3>3. CASE emitted[line] # "error"
      BY <2>6, <3>1, <3>3 DEF Dispatch
    <3>4. QED
      BY <3>2, <3>3
  <2>7. CASE UNCHANGED vars
    BY <2>7 DEF vars
  <2>8. QED
    BY <2>2, <2>3, <2>4, <2>5, <2>6, <2>7 DEF Next, Endpoint
<1>3. ErrorInv => OnErrorAtMostTwice
  BY DEF ErrorInv, OnErrorAtMostTwice
<1>4. QED
  BY <1>1, <1>2, <1>3, TypeCorrect, PTL DEF Spec

\* A watch that closes without having been cancelled handed over everything
\* the server wrote, and the server ended the stream: nothing is cut silently.
CompleteUnlessCancelled ==
  pc = "closed" /\ ~cancelled /\ outcome = "returned" =>
    stream = "ended" /\ delivered = emitted

\* A watch that nobody cancelled is only over when the server is, and then the
\* callbacks had every line.
LEMMA AllHandedOver == Spec => [](PrefixInv /\ CompleteUnlessCancelled)
<1>1. Init => PrefixInv /\ CompleteUnlessCancelled
  BY DEF Init, PrefixInv, CompleteUnlessCancelled
<1>2. TypeOK /\ PositionInv /\ PrefixInv /\ CompleteUnlessCancelled /\ [Next]_vars =>
        PrefixInv' /\ CompleteUnlessCancelled'
  <2> SUFFICES ASSUME TypeOK, PositionInv, PrefixInv, CompleteUnlessCancelled, [Next]_vars
               PROVE  PrefixInv' /\ CompleteUnlessCancelled'
    OBVIOUS
  <2>1. emitted \in Seq(Kinds) /\ delivered \in Seq(Kinds)
    BY Zenon DEF TypeOK
  <2> USE DEF PrefixInv, CompleteUnlessCancelled
  <2>2. CASE ServerWrites
    <3>1. PICK k \in Kinds : emitted' = Append(emitted, k)
      BY <2>2 DEF ServerWrites
    <3>2. pc # "closed" /\ UNCHANGED <<pc, delivered>>
      BY <2>2 DEF ServerWrites
    <3>3. QED
      BY <2>1, <3>1, <3>2
  <2>3. CASE ServerCloses \/ Expire
    BY <2>1, <2>3 DEF ServerCloses, Expire
  <2>4. CASE List \/ PeekFirstLine
    BY <2>1, <2>4 DEF List, PeekFirstLine, Finish
  <2>5. CASE RequestFails
    BY <2>1, <2>5 DEF RequestFails, OnErrorForStream, Finish
  <2>6. CASE ReadLine
    BY <2>1, <2>6 DEF ReadLine, Finish
  <2>7. CASE ReadEnd
    <3>1. UNCHANGED <<emitted, delivered, stream>>
      BY <2>7 DEF ReadEnd
    <3>2. CASE cancelled'
      BY <2>1, <3>1, <3>2
    <3>3. CASE ~cancelled'
      <4>1. stream = "ended" /\ buffer = <<>> /\ taken = Len(emitted) /\ pc = "reading"
        BY <2>7, <3>3 DEF ReadEnd, OnErrorForStream
      <4>2. Len(delivered) = Len(emitted)
        BY <2>1, <4>1 DEF PositionInv
      <4>3. delivered = emitted
        BY <2>1, <4>2
      <4>4. QED
        BY <3>1, <4>1, <4>3
    <3>4. QED
      BY <3>2, <3>3
  <2>8. CASE Dispatch
    <3>1. line = Len(delivered) + 1 /\ line <= Len(emitted)
      BY <2>1, <2>8 DEF Dispatch, PositionInv, TypeOK
    <3>2. delivered' = Append(delivered, emitted[line]) /\ UNCHANGED emitted
      BY <2>8 DEF Dispatch
    <3>3. emitted[line] \in Kinds
      BY <2>1, <3>1
    <3>4. PrefixInv'
      BY <2>1, <3>1, <3>2, <3>3
    <3>5. pc' = "reading" \/ cancelled'
      BY <2>8, Zenon DEF Dispatch, OnErrorForLine
    <3>6. QED
      BY <3>4, <3>5
  <2>9. CASE UNCHANGED vars
    BY <2>1, <2>9 DEF vars
  <2>10. QED
    BY <2>2, <2>3, <2>4, <2>5, <2>6, <2>7, <2>8, <2>9 DEF Next, Endpoint
<1>3. QED
  BY <1>1, <1>2, TypeCorrect, PTL DEF Spec

\* No answer is given for a watch that was cut without anybody's cancelling it.
THEOREM NothingIsCut == Spec => []CompleteUnlessCancelled
  BY AllHandedOver, PTL

-----------------------------------------------------------------------------
\* An answer, or an exception, comes with the end of the watch.
ClosedInv == (pc = "closed") <=> (outcome # "none")

\* Only Finish sets either.
LEMMA StepClosedInv == ClosedInv /\ [Next]_vars => ClosedInv'
<1> SUFFICES ASSUME ClosedInv, [Next]_vars PROVE ClosedInv'
  OBVIOUS
<1> USE DEF ClosedInv, Finish
<1>1. CASE ServerWrites \/ ServerCloses \/ Expire \/ UNCHANGED vars
  BY <1>1 DEF ServerWrites, ServerCloses, Expire, vars
<1>2. CASE List \/ PeekFirstLine \/ RequestFails
  BY <1>2 DEF List, PeekFirstLine, RequestFails, OnErrorForStream
<1>3. CASE ReadLine \/ ReadEnd
  BY <1>3 DEF ReadLine, ReadEnd, OnErrorForStream
<1>4. CASE Dispatch
  BY <1>4 DEF Dispatch, OnErrorForLine
<1>5. QED
  BY <1>1, <1>2, <1>3, <1>4 DEF Next, Endpoint

\* Every step of the detailed watch is one of LineDelivery, or one it does not see.
LEMMA StepDelivery ==
  ASSUME TypeOK, PositionInv, LateInv, PrefixInv, ClosedInv, [Next]_vars
  PROVE  Promise!Next \/ UNCHANGED Promise!vars
<1> USE DEF Promise!Next, Promise!vars, ClosedInv
<1>0. errors \in Nat /\ cancelled \in BOOLEAN
  BY Zenon DEF TypeOK
<1>1. CASE ServerWrites
  BY <1>1 DEF ServerWrites, Promise!Emit
<1>2. CASE ServerCloses
  BY <1>2 DEF ServerCloses, Promise!Close
<1>3. CASE Expire
  BY <1>3 DEF Expire, Promise!Cancel
<1>4. CASE List
  BY <1>0, <1>4 DEF List, Finish, Promise!Throw, Promise!Told
<1>5. CASE PeekFirstLine
  BY <1>5 DEF PeekFirstLine
<1>6. ASSUME OnErrorForStream, pc # "closed", UNCHANGED <<emitted, stream, delivered, late>>,
             emitted = <<>> \/ stream = "broken"
      PROVE  Promise!Return \/ Promise!Throw
  <2>1. Promise!Told(1) /\ cancelled' = TRUE
    BY <1>0, <1>6 DEF OnErrorForStream, Promise!Told
  <2>2. outcome = "none" /\ outcome' \in {"threw", "returned"}
    BY <1>6 DEF OnErrorForStream, Finish
  <2>3. CASE outcome' = "returned"
    <3>1. Promise!Return
      BY <1>6, <2>1, <2>2, <2>3 DEF Promise!Return
    <3> QED
      BY <3>1
  <2>4. CASE outcome' = "threw"
    <3>1. (\E n \in 0..1 : Promise!Told(n)) /\ cancelled' \in {cancelled, TRUE}
      BY <2>1
    <3>2. Promise!Throw
      BY <1>6, <2>2, <2>4, <3>1 DEF Promise!Throw
    <3> QED
      BY <3>2
  <2> QED
    BY <2>2, <2>3, <2>4
<1>7. CASE RequestFails
  BY <1>6, <1>7 DEF RequestFails
<1>8. CASE ReadLine
  BY <1>8 DEF ReadLine, Finish, Promise!Return, TypeOK
<1>9. CASE ReadEnd
  <2>1. UNCHANGED <<emitted, stream, delivered, late>> /\ pc = "reading"
    BY <1>9 DEF ReadEnd
  <2>2. CASE stream = "ended" /\ Finish("returned") /\ UNCHANGED <<cancelled, errors>>
    <3>1. Len(delivered) = Len(emitted)
      BY <1>9 DEF ReadEnd, PositionInv, TypeOK
    <3>2. delivered = emitted
      BY <3>1 DEF PrefixInv, TypeOK
    <3>3. QED
      BY <2>1, <2>2, <3>2 DEF Finish, Promise!Return
  <2>3. QED
    BY <1>6, <1>9, <2>1, <2>2 DEF ReadEnd
<1>10. CASE Dispatch
  <2>1. line = Len(delivered) + 1 /\ Len(delivered) < Len(emitted) /\ pc = "dispatching"
    BY <1>10 DEF Dispatch, PositionInv, TypeOK
  <2>2. delivered' = Append(delivered, emitted[Len(delivered) + 1]) /\ UNCHANGED <<emitted, stream>>
    BY <1>10, <2>1 DEF Dispatch
  <2>3. late = 0 /\ late' = IF cancelled THEN 1 ELSE 0
    BY <1>10, <2>1 DEF Dispatch, LateInv
  <2>4. cancelled' \in {cancelled, TRUE}
    <3>1. \/ cancelled' = TRUE
          \/ cancelled' = (cancelled \/ Len(result) + 1 >= Limit)
          \/ UNCHANGED cancelled
      BY <1>10, Zenon DEF Dispatch, OnErrorForLine
    <3>2. cancelled \in BOOLEAN
      BY Zenon DEF TypeOK
    <3>3. QED
      BY <3>1, <3>2, Zenon
  <2>5. outcome = "none" /\ outcome' \in {"none", "threw"}
    BY <1>10, <2>1 DEF Dispatch, OnErrorForLine, Finish
  <2>6. \E n \in 0..2 : Promise!Told(n)
    <3>1. CASE errors' = errors
      BY <1>0, <3>1 DEF Promise!Told
    <3>2. CASE errors' \in {errors + 1, errors + 2} /\ cancelled' = TRUE
      BY <1>0, <3>2 DEF Promise!Told
    <3> QED
      BY <1>10, <3>1, <3>2 DEF Dispatch, OnErrorForLine
  <2>7. Promise!Deliver
    BY <2>1, <2>2, <2>3, <2>4, <2>5, <2>6 DEF Promise!Deliver
  <2> QED
    BY <2>7
<1>11. CASE UNCHANGED vars
  BY <1>11 DEF vars
<1>12. QED
  BY <1>1, <1>2, <1>3, <1>4, <1>5, <1>7, <1>8, <1>9, <1>10, <1>11 DEF Next, Endpoint

\* The library with its HTTP layer and its endpoints keeps what LineDelivery
\* promises, for any limit and any number of lines.
THEOREM WatchImplementsDelivery == Spec => IsLineDelivery
<1>1. Init => Promise!Init /\ ClosedInv
  BY DEF Init, Promise!Init, ClosedInv
<1>2. TypeOK /\ PositionInv /\ LateInv /\ PrefixInv /\ ClosedInv /\ [Next]_vars =>
        [Promise!Next]_(Promise!vars)
  BY StepDelivery
<1>3. QED
  BY <1>1, <1>2, StepClosedInv, TypeCorrect, RoomForOne, AllHandedOver, PTL
  DEF Spec, IsLineDelivery, Promise!Spec
=============================================================================
