------------------------- MODULE GrpcShutdownProofs -------------------------
(***************************************************************************)
(* Safety proofs for GrpcShutdown, for any number of calls and any delays.  *)
(***************************************************************************)
EXTENDS GrpcShutdown, FiniteSetTheorems, TLAPS

\* The calls whose Connect() has not been matched by the callback's Disconnect().
Counted == {c \in Calls : pc[c] # "idle" /\ (pc[c] = "connected" \/ c \notin fired)}

\* The reference count is the number of those calls.
CountInv == refs = Cardinality(Counted)

\* Once the monitor saw a count of zero, no call is counted.
CompletedInv == outcome = "completed" =>
                  /\ phase \notin {"running", "preStop", "stopping"}
                  /\ Counted = {}

\* Where the clock may stand in each phase.
TimeInv ==
  /\ phase = "running" => now = 0
  /\ phase = "preStop" => now <= PreStop /\ due = PreStop
  /\ phase = "stopping" => now = began /\ began <= PreStop
  /\ phase = "closing" => began <= PreStop /\ now <= began + HostTimeout
  /\ phase = "monitoring" => /\ began <= PreStop + HostTimeout
                             /\ now <= due
                             /\ due <= began + MonitorLimit - 1 + Poll
  /\ phase = "draining" => /\ now <= due
                           /\ due <= PreStop + HostTimeout + MonitorLimit + Poll + Drain - 1

IInv == TypeOK /\ CountInv /\ CompletedInv

\* The state is well typed: an aborted token belongs to a client that left.
THEOREM TypeCorrect == Spec => []TypeOK
<1> USE TimeAssumption
<1>1. Init => TypeOK
  <2> SUFFICES ASSUME Init PROVE TypeOK
    OBVIOUS
  <2>1. pc \in [Calls -> Handler] /\ reader \in [Calls -> Reader]
    BY DEF Init, Handler, Reader
  <2>2. phase \in Phases /\ gone \subseteq Calls /\ fired \subseteq gone
    BY DEF Init, Phases
  <2>3. forced \in BOOLEAN
    BY Zenon DEF Init
  <2>4. QED
    BY <2>1, <2>2, <2>3 DEF Init, TypeOK
<1>2. TypeOK /\ [Next]_vars => TypeOK'
  <2> SUFFICES ASSUME TypeOK, [Next]_vars PROVE TypeOK'
    OBVIOUS
  <2> USE DEF TypeOK, Handler, Reader, Phases, callVars, hostVars
  <2>1. CASE \E c \in Calls : Call(c)
    <3>1. PICK c \in Calls : Call(c)
      BY <2>1
    <3>2. CASE Connect(c)
      BY <3>2 DEF Connect
    <3>3. CASE Register(c)
      BY <3>3 DEF Register
    <3>4. CASE LoopTurn(c)
      BY <3>4 DEF LoopTurn
    <3>5. CASE WriteDone(c) \/ WriteFails(c) \/ DelayOver(c)
      BY <3>5 DEF WriteDone, WriteFails, DelayOver
    <3>6. CASE ReaderReceive(c) \/ ReaderWritten(c) \/ ReaderEnd(c)
      BY <3>6 DEF ReaderReceive, ReaderWritten, ReaderEnd
    <3>7. CASE ClientGone(c) \/ TokenFires(c)
      BY <3>7 DEF ClientGone, TokenFires
    <3>8. QED
      BY <3>1, <3>2, <3>3, <3>4, <3>5, <3>6, <3>7 DEF Call, Handle
  <2>2. CASE PodDeleted \/ Kill \/ Tick
    BY <2>2 DEF PodDeleted, Kill, Tick
  <2>3. CASE Host
    <3>1. CASE SigTerm \/ Unbind \/ Exit
      BY <3>1 DEF SigTerm, Unbind, Exit
    <3>2. CASE ServerStopped \/ ServerTimeout
      BY <3>2 DEF ServerStopped, ServerTimeout, StartMonitor
    <3>3. CASE MonitorPoll
      BY <3>3 DEF MonitorPoll
    <3>4. QED
      BY <2>3, <3>1, <3>2, <3>3 DEF Host
  <2>4. CASE UNCHANGED vars
    BY <2>4 DEF vars
  <2>5. QED
    BY <2>1, <2>2, <2>3, <2>4 DEF Next
<1>3. QED
  BY <1>1, <1>2, PTL DEF Spec

\* The counted calls are some of the calls.
LEMMA CountedFinite == IsFiniteSet(Counted)
  BY CallsAssumption, FS_Subset DEF Counted

\* No step adds a counted call without Connect, or removes one without a callback.
LEMMA CountStep == ASSUME TypeOK, TypeOK', CountInv, CompletedInv, [Next]_vars
                   PROVE  CountInv' /\ CompletedInv'
<1> USE DEF CountInv, CompletedInv
<1>0. IsFiniteSet(Counted)
  BY CountedFinite
<1>1. ASSUME UNCHANGED <<refs, outcome>>, Counted' = Counted,
             phase' \in {"running", "preStop", "stopping"} => phase \in {"running", "preStop", "stopping"}
      PROVE  CountInv' /\ CompletedInv'
  BY <1>1
<1>2. ASSUME NEW c \in Calls, Call(c)
      PROVE  CountInv' /\ CompletedInv'
  <2> USE <1>2 DEF TypeOK
  <2>1. CASE Connect(c)
    <3>1. outcome # "completed" /\ outcome' = outcome
      BY <2>1 DEF Connect, hostVars
    <3>2. c \notin Counted /\ Counted' = Counted \cup {c}
      BY <2>1 DEF Connect, Counted
    <3>3. Cardinality(Counted') = Cardinality(Counted) + 1
      BY <1>0, <3>2, FS_AddElement
    <3>4. QED
      BY <2>1, <3>1, <3>3 DEF Connect
  <2>2. CASE (Register(c) /\ c \in fired) \/ (TokenFires(c) /\ Registered(c))
    <3>1. c \in Counted /\ Counted' = Counted \ {c}
      BY <2>2 DEF Register, TokenFires, Registered, Counted
    <3>2. Cardinality(Counted') = Cardinality(Counted) - 1
      BY <1>0, <3>1, FS_RemoveElement
    <3>3. refs' = refs - 1 /\ UNCHANGED hostVars
      BY <2>2 DEF Register, TokenFires
    <3>4. QED
      BY <3>1, <3>2, <3>3 DEF hostVars
  <2>3. CASE (Register(c) /\ c \notin fired) \/ (TokenFires(c) /\ ~Registered(c))
    <3>1. Counted' = Counted
      BY <2>3 DEF Register, TokenFires, Registered, Counted
    <3>2. QED
      BY <1>1, <2>3, <3>1 DEF Register, TokenFires, hostVars
  <2>4. CASE LoopTurn(c) \/ WriteDone(c) \/ WriteFails(c) \/ DelayOver(c)
    <3>1. Counted' = Counted
      BY <2>4 DEF LoopTurn, WriteDone, WriteFails, DelayOver, Counted
    <3>2. QED
      BY <1>1, <2>4, <3>1 DEF LoopTurn, WriteDone, WriteFails, DelayOver, hostVars
  <2>5. CASE ReaderReceive(c) \/ ReaderWritten(c) \/ ReaderEnd(c) \/ ClientGone(c)
    BY <1>1, <2>5 DEF Counted, ReaderReceive, ReaderWritten, ReaderEnd, ClientGone, hostVars
  <2>6. QED
    BY <1>2, <2>1, <2>2, <2>3, <2>4, <2>5 DEF Call, Handle
<1>3. CASE PodDeleted \/ Kill \/ Tick
  BY <1>3, <1>1 DEF Counted, PodDeleted, Kill, Tick, callVars, hostVars
<1>4. CASE SigTerm \/ Unbind \/ Exit \/ ServerStopped \/ ServerTimeout
  BY <1>4, <1>1 DEF Counted, SigTerm, Unbind, Exit, ServerStopped, ServerTimeout, StartMonitor, callVars
<1>5. CASE MonitorPoll
  <2>1. UNCHANGED callVars /\ Counted' = Counted
    BY <1>5 DEF MonitorPoll, callVars, Counted
  <2>2. outcome' = "completed" => outcome = "completed" \/ refs = 0
    BY <1>5 DEF MonitorPoll
  <2>3. refs = 0 => Counted = {}
    BY <1>0, FS_EmptySet
  <2>4. phase' \in {"monitoring", "draining"}
    BY <1>5 DEF MonitorPoll
  <2>5. QED
    BY <2>1, <2>2, <2>3, <2>4 DEF callVars
<1>6. CASE UNCHANGED vars
  BY <1>6, <1>1 DEF Counted, vars
<1>7. QED
  BY <1>2, <1>3, <1>4, <1>5, <1>6 DEF Next, Host

\* The inductive invariant: _referenceCount never falls below the number of
\* calls that are still to be counted, and a count of zero is for good.
THEOREM Inductive == Spec => []IInv
<1>1. Init => CountInv /\ CompletedInv
  <2>1. Init => Counted = {}
    BY DEF Init, Counted
  <2>2. QED
    BY <2>1, FS_EmptySet DEF Init, CountInv, CompletedInv
<1>2. QED
  BY <1>1, CountStep, TypeCorrect, PTL DEF Spec, IInv

\* Every open call with a client is in the count that the monitor reads.
THEOREM CountCoversCalls == Spec => []NeverUndercounts
<1>1. IInv => NeverUndercounts
  <2> SUFFICES ASSUME IInv PROVE NeverUndercounts
    OBVIOUS
  <2> DEFINE S == {c \in Calls : Open(c) /\ c \notin gone}
  <2>1. S \subseteq Counted
    BY DEF IInv, TypeOK, Counted, Open
  <2>2. Cardinality(S) <= Cardinality(Counted)
    BY <2>1, CountedFinite, FS_Subset
  <2>3. QED
    BY <2>2 DEF IInv, CountInv, NeverUndercounts
<1>2. QED
  BY <1>1, Inductive, PTL

\* "All connections completed." is logged only if every call that was ever
\* accepted has lost its client, and it stays so: one call whose handler
\* returned with its client still there keeps the monitor to its limit, and
\* no call is accepted after the count was read.
AllCompletedIsTrue == outcome = "completed" => \A c \in Calls : pc[c] # "idle" => c \in fired

\* "All connections completed." is true when it is logged and ever after.
THEOREM CompletedIsTrue == Spec => []AllCompletedIsTrue
<1>1. IInv => AllCompletedIsTrue
  BY DEF IInv, CompletedInv, Counted, AllCompletedIsTrue
<1>2. QED
  BY <1>1, Inductive, PTL

\* Once the host stops, and until the process is over, no call begins a WriteAsync: those that are pending then
\* are the only ones ever after.
NoNewWrites == Stopping /\ Alive => \A c \in Calls : pc[c] = "writing" => c \in held

\* The loop's condition, and the delay's token, keep a call from writing again.
LEMMA StepNoNewWrites == TypeOK /\ NoNewWrites /\ [Next]_vars => NoNewWrites'
<1> SUFFICES ASSUME TypeOK, NoNewWrites, [Next]_vars PROVE NoNewWrites'
  OBVIOUS
<1> USE DEF NoNewWrites, Stopping, Alive
<1>1. ASSUME NEW c \in Calls, Call(c) PROVE NoNewWrites'
  <2>1. phase' = phase
    BY <1>1 DEF Call, Handle, Connect, Register, LoopTurn, WriteDone, WriteFails, DelayOver,
       ReaderReceive, ReaderWritten, ReaderEnd, ClientGone, TokenFires, hostVars
  <2>2. CASE LoopTurn(c)
    BY <2>1, <2>2 DEF LoopTurn, LinkedCancelled, TypeOK
  <2>3. CASE WriteDone(c) \/ WriteFails(c)
    BY <2>1, <2>3 DEF WriteDone, WriteFails, TypeOK
  <2>4. CASE Connect(c) \/ Register(c) \/ DelayOver(c)
    BY <2>1, <2>4 DEF Connect, Register, DelayOver, TypeOK
  <2>5. CASE ReaderReceive(c) \/ ReaderWritten(c) \/ ReaderEnd(c) \/ ClientGone(c) \/ TokenFires(c)
    BY <2>1, <2>5 DEF ReaderReceive, ReaderWritten, ReaderEnd, ClientGone, TokenFires
  <2> QED
    BY <1>1, <2>2, <2>3, <2>4, <2>5 DEF Call, Handle
<1>2. CASE SigTerm
  BY <1>2 DEF SigTerm
<1>3. CASE PodDeleted
  BY <1>3 DEF PodDeleted
<1>4. CASE Unbind \/ ServerStopped \/ ServerTimeout \/ MonitorPoll \/ Exit \/ Kill \/ Tick
  <2>1. UNCHANGED <<pc, held>>
    BY <1>4 DEF Unbind, ServerStopped, ServerTimeout, StartMonitor, MonitorPoll, Exit, Kill, Tick,
       callVars
  <2>2. Stopping' /\ Alive' => Stopping /\ Alive
    BY <1>4 DEF Unbind, ServerStopped, ServerTimeout, MonitorPoll, Exit, Kill, Tick, hostVars
  <2> QED
    BY <2>1, <2>2
<1>5. CASE UNCHANGED vars
  BY <1>5 DEF vars
<1> QED
  BY <1>1, <1>2, <1>3, <1>4, <1>5 DEF Next, Host

\* Time passes in a closing server for no call but those whose WriteAsync was
\* pending before the stop: a handler that can run sees ApplicationStopping and
\* ends without another write.
THEOREM StopReachesHandlers == Spec => OnlyStalledClientsDelayStop
<1>1. Init => NoNewWrites
  BY DEF Init, NoNewWrites
<1>2. TypeOK /\ NoNewWrites /\ [Next]_vars =>
        [phase = "closing" /\ now' > now => \A c \in Calls : Open(c) => c \in held]_vars
  <2> SUFFICES ASSUME TypeOK, NoNewWrites, Next, phase = "closing", now' > now,
                      NEW c \in Calls, Open(c)
               PROVE  c \in held
    OBVIOUS
  <2>1. Tick
    BY DEF Next, Call, Handle, Host, Connect, Register, LoopTurn, WriteDone, WriteFails,
           DelayOver, ReaderReceive, ReaderWritten, ReaderEnd, ClientGone, TokenFires,
           PodDeleted, SigTerm, Unbind, ServerStopped, ServerTimeout, StartMonitor,
           MonitorPoll, Exit, Kill, TypeOK
  <2>2. ~Ending(c)
    BY <2>1 DEF Tick, Due
  <2>3. pc[c] = "writing"
    BY <2>2 DEF Ending, Open, LinkedCancelled, Stopping
  <2> QED
    BY <2>1, <2>3 DEF NoNewWrites, Stopping, Tick
<1> QED
  BY <1>1, <1>2, StepNoNewWrites, TypeCorrect, PTL DEF Spec, OnlyStalledClientsDelayStop

\* The shutdown takes at most the sum of its timeouts.
THEOREM ShutdownIsBounded == Spec => []StopBudget
<1> USE TimeAssumption
<1> DEFINE TimeType == now \in Nat /\ due \in Nat /\ began \in Nat
<1>1. Init => TimeInv
  BY DEF Init, TimeInv
<1>2. TypeOK => TimeType /\ phase \in Phases
  BY DEF TypeOK
<1>3. ASSUME TimeType, TimeType', phase \in Phases, TimeInv, [Next]_vars PROVE TimeInv'
  <2> USE <1>3 DEF TimeInv
  <2>1. CASE UNCHANGED <<now, phase, due, began>>
    BY <2>1
  <2>2. ASSUME NEW c \in Calls, Call(c) PROVE TimeInv'
    <3>1. UNCHANGED <<now, hostVars>>
      BY <2>2 DEF Call, Handle, Connect, Register, LoopTurn, WriteDone, WriteFails, DelayOver,
                  ReaderReceive, ReaderWritten, ReaderEnd, ClientGone, TokenFires
    <3>2. QED
      BY <2>1, <3>1 DEF hostVars
  <2>3. CASE PodDeleted
    BY <2>3 DEF PodDeleted
  <2>4. CASE SigTerm
    BY <2>4 DEF SigTerm
  <2>5. CASE Unbind
    BY <2>5 DEF Unbind
  <2>6. CASE ServerStopped
    BY <2>6 DEF ServerStopped, StartMonitor
  <2>7. CASE ServerTimeout
    BY <2>7 DEF ServerTimeout, StartMonitor
  <2>8. CASE MonitorPoll
    BY <2>8 DEF MonitorPoll
  <2>9. CASE Exit \/ Kill
    BY <2>9 DEF Exit, Kill
  <2>10. CASE Tick
    <3>1. /\ now' = now + 1 /\ UNCHANGED <<phase, due, began>>
          /\ phase # "running" /\ phase # "stopping"
          /\ phase \in {"preStop", "monitoring", "draining"} => ~(now >= due)
          /\ phase = "closing" => ~(now >= began + HostTimeout)
      BY <2>10 DEF Tick, Due, hostVars
    <3>2. QED
      BY <3>1
  <2>11. CASE UNCHANGED vars
    BY <2>11, <2>1 DEF vars
  <2>12. QED
    BY <2>2, <2>3, <2>4, <2>5, <2>6, <2>7, <2>8, <2>9, <2>10, <2>11 DEF Next, Host
<1>4. TypeOK /\ TimeInv => StopBudget
  BY DEF TypeOK, TimeInv, StopBudget, Alive, Phases
<1> HIDE DEF TimeType
<1>5. QED
  BY <1>1, <1>2, <1>3, <1>4, TypeCorrect, PTL DEF Spec

\* A pod is killed only if its grace period is shorter than the whole stop may
\* take: no interleaving of the calls makes a sufficient one too short.
NeverCutShort ==
  phase = "killed" => grace < PreStop + HostTimeout + MonitorLimit + Poll + Drain

\* The kill comes at the end of the grace period, and within the stop's bound.
LEMMA StepNeverCutShort ==
  TypeOK /\ StopBudget /\ NeverCutShort /\ [Next]_vars => NeverCutShort'
<1> SUFFICES ASSUME TypeOK, StopBudget, NeverCutShort, [Next]_vars PROVE NeverCutShort'
  OBVIOUS
<1> USE TimeAssumption DEF NeverCutShort
<1>1. CASE \E c \in Calls : Call(c)
  BY <1>1 DEF Call, Handle, Connect, Register, LoopTurn, WriteDone, WriteFails, DelayOver,
     ReaderReceive, ReaderWritten, ReaderEnd, ClientGone, TokenFires, hostVars
<1>2. CASE Kill
  <2>1. now <= PreStop + HostTimeout + MonitorLimit + Poll + Drain - 1 /\ now = grace
    BY <1>2 DEF Kill, StopBudget
  <2>2. now \in Nat /\ grace' = grace
    BY <1>2 DEF Kill, TypeOK
  <2> QED BY <2>1, <2>2
<1>3. CASE PodDeleted \/ Host
  <2>1. phase' # "killed"
    BY <1>3 DEF PodDeleted, Host, SigTerm, Unbind, ServerStopped, ServerTimeout, StartMonitor,
       MonitorPoll, Exit
  <2> QED BY <2>1
<1>4. CASE Tick \/ UNCHANGED vars
  BY <1>4 DEF Tick, hostVars, vars
<1> QED
  BY <1>1, <1>2, <1>3, <1>4 DEF Next

\* A pod whose grace period covers the sum of the timeouts is never killed, whatever
\* its calls do.
THEOREM SufficientGraceSuffices == Spec => []NeverCutShort
<1>1. Init => NeverCutShort
  BY DEF Init, NeverCutShort
<1> QED
  BY <1>1, StepNeverCutShort, TypeCorrect, ShutdownIsBounded, PTL DEF Spec

-----------------------------------------------------------------------------
\* A step of a call is one of GracefulStop's, or none it sees.
LEMMA CallPromise ==
  ASSUME TypeOK, NEW c \in Calls, Call(c)
  PROVE  Promise!Accept(c) \/ Promise!Leave(c) \/ UNCHANGED <<Live, StopStage, outcome>>
<1>1. UNCHANGED <<phase, outcome>>
  BY DEF Call, Handle, Connect, Register, LoopTurn, WriteDone, WriteFails, DelayOver,
     ReaderReceive, ReaderWritten, ReaderEnd, ClientGone, TokenFires, hostVars
<1>2. UNCHANGED <<StopStage, outcome>>
  BY <1>1 DEF StopStage
<1>3. CASE Connect(c)
  <2>1. c \notin Live /\ StopStage = "serving"
    BY <1>3 DEF Connect, Live, StopStage
  <2>2. pc' = [pc EXCEPT ![c] = "connected"] /\ fired' = fired
    BY <1>3 DEF Connect
  <2>3. CASE c \in fired
    <3>1. Live' = Live
      BY <2>2, <2>3 DEF Live, TypeOK
    <3> QED BY <3>1, <1>2
  <2>4. CASE c \notin fired
    <3>1. Live' = Live \cup {c}
      BY <2>2, <2>4 DEF Live, TypeOK
    <3> QED BY <3>1, <2>1, <1>2 DEF Promise!Accept
  <2> QED BY <2>3, <2>4
<1>4. CASE TokenFires(c)
  <2>1. fired' = fired \cup {c} /\ pc' = pc /\ Alive
    BY <1>4 DEF TokenFires
  <2>2. Live' = Live \ {c}
    BY <2>1 DEF Live
  <2>3. StopStage \notin {"left", "killed"}
    BY <2>1 DEF Alive, StopStage, TypeOK, Phases
  <2>4. CASE c \in Live
    BY <2>2, <2>3, <2>4, <1>2 DEF Promise!Leave
  <2>5. CASE c \notin Live
    BY <2>2, <2>5, <1>2
  <2> QED BY <2>4, <2>5
<1>5. CASE ~Connect(c) /\ ~TokenFires(c)
  <2>1. Live' = Live
    BY <1>5 DEF TypeOK, Live, Call, Handle, Register, LoopTurn, WriteDone, WriteFails, DelayOver,
       ReaderReceive, ReaderWritten, ReaderEnd, ClientGone
  <2> QED BY <2>1, <1>2
<1> QED
  BY <1>3, <1>4, <1>5

\* A count of zero is a moment without calls.
LEMMA NobodyCounted == ASSUME CountInv, refs = 0 PROVE Live = {}
<1>1. Counted = {}
  BY CountedFinite, FS_EmptySet DEF CountInv
<1> QED
  BY <1>1 DEF Counted, Live

\* A step of the host or the kubelet is one of GracefulStop's, or none it sees.
LEMMA HostPromise ==
  ASSUME TypeOK, CountInv, PodDeleted \/ Host \/ Kill \/ Tick
  PROVE  \/ Promise!Stop \/ Promise!Decide \/ Promise!Exit \/ Promise!Kill
         \/ UNCHANGED <<Live, StopStage, outcome>>
<1>1. UNCHANGED <<pc, fired>>
  BY DEF PodDeleted, Host, SigTerm, Unbind, ServerStopped, ServerTimeout, StartMonitor,
     MonitorPoll, Exit, Kill, Tick, callVars
<1>2. Live' = Live
  BY <1>1 DEF Live
<1>3. CASE PodDeleted \/ SigTerm \/ ServerStopped \/ ServerTimeout \/ Tick
  BY <1>2, <1>3 DEF PodDeleted, SigTerm, ServerStopped, ServerTimeout, StartMonitor, Tick,
     hostVars, StopStage
<1>4. CASE Unbind
  BY <1>2, <1>4 DEF Unbind, StopStage, Promise!Stop
<1>5. CASE MonitorPoll
  <2>1. CASE now < began + MonitorLimit /\ refs # 0
    BY <1>2, <1>5, <2>1 DEF MonitorPoll, StopStage
  <2>2. CASE ~(now < began + MonitorLimit /\ refs # 0)
    <3>1. /\ phase' = "draining" /\ phase = "monitoring"
          /\ outcome' = IF now < began + MonitorLimit THEN "completed" ELSE "timedOut"
      BY <1>5, <2>2 DEF MonitorPoll
    <3>2. outcome' = "timedOut" \/ (outcome' = "completed" /\ Live = {})
      BY <3>1, <2>2, NobodyCounted
    <3>3. Promise!Decide
      BY <3>1, <3>2, <1>2 DEF StopStage, Promise!Decide
    <3> QED BY <3>3
  <2> QED BY <2>1, <2>2
<1>6. CASE Exit
  BY <1>2, <1>6 DEF Exit, StopStage, Promise!Exit
<1>7. CASE Kill
  BY <1>2, <1>7 DEF Kill, Alive, TypeOK, Phases, StopStage, Promise!Kill
<1> QED
  BY <1>3, <1>4, <1>5, <1>6, <1>7 DEF Host

\* The service with its count, its host and its pod implements GracefulStop, for
\* any number of calls and any delays.
THEOREM ImplementsGracefulStop == Spec => StopsGracefully
<1>1. Init => Promise!Init
  BY DEF Init, Live, StopStage, Promise!Init
<1>2. IInv /\ [Next]_vars => [Promise!Next]_(Promise!vars)
  <2> SUFFICES ASSUME IInv, [Next]_vars
               PROVE  Promise!Next \/ UNCHANGED <<Live, StopStage, outcome>>
    BY DEF Promise!vars
  <2>1. CASE \E c \in Calls : Call(c)
    BY <2>1, CallPromise DEF IInv, Promise!Next
  <2>2. CASE PodDeleted \/ Host \/ Kill \/ Tick
    BY <2>2, HostPromise DEF IInv, Promise!Next
  <2>3. CASE UNCHANGED vars
    BY <2>3 DEF vars, Live, StopStage
  <2> QED
    BY <2>1, <2>2, <2>3 DEF Next
<1> QED
  BY <1>1, <1>2, Inductive, PTL DEF Spec, StopsGracefully, Promise!Spec
=============================================================================
