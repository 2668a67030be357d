---------------------------- MODULE GrpcShutdown ----------------------------
(***************************************************************************)
(* The graceful shutdown of gracefulshutdown/grpc-dotnet: a gRPC service    *)
(* whose duplex calls (ConnectorService.Subscribe) are counted by a shared  *)
(* ConnectionStateProvider, and whose host is kept alive by                 *)
(* ExtendLifeService until the count is back to zero.  Around it, as the    *)
(* code uses them: the generic host and Kestrel, and the kubelet deleting   *)
(* the pod (preStop hook, SIGTERM, grace period, SIGKILL).                  *)
(*                                                                         *)
(* Time is counted in units of the 5 s delays of the code.  The 500 ms      *)
(* pause of Subscribe is shorter than a unit and takes no model time.       *)
(***************************************************************************)
EXTENDS Integers, FiniteSets

CONSTANTS Calls,         \* the Subscribe calls that may be made, each one once
          PreStop,       \* length of the preStop hook
          Poll,          \* Task.Delay of MonitorDisconnectAsync
          Drain,         \* Task.Delay of StopAsync
          MonitorLimit,  \* the CancellationTokenSource of MonitorDisconnectAsync
          HostTimeout,   \* HostOptions.ShutdownTimeout
          Graces         \* terminationGracePeriodSeconds, or what a deletion asks for

ASSUME CallsAssumption == IsFiniteSet(Calls)
ASSUME TimeAssumption ==
  /\ PreStop \in Nat \ {0} /\ Poll \in Nat \ {0} /\ Drain \in Nat \ {0}
  /\ MonitorLimit \in Nat \ {0} /\ HostTimeout \in Nat \ {0} 
  /\ Graces \subseteq Nat \ {0}
  /\ MonitorLimit < HostTimeout

VARIABLES
  refs,     \* ConnectionStateProvider._referenceCount
  pc,       \* where each call's Subscribe stands
  reader,   \* where each call's readTask stands
  gone,     \* calls whose client or connection is gone
  fired,    \* calls whose context.CancellationToken is cancelled
  phase,    \* what the process is doing
  outcome,  \* how MonitorDisconnectAsync ended
  now,      \* time since the pod was deleted
  due,      \* when the pending preStop hook or Task.Delay is over
  began,    \* when Host.StopAsync, later MonitorDisconnectAsync, began
  forced,   \* Kestrel gave up waiting for its connections
  grace,    \* the grace period of the pod's deletion
  held      \* (observer) calls whose WriteAsync is pending since before the stop

callVars == <<refs, pc, reader, gone, fired, held>>
hostVars == <<phase, outcome, due, began, forced, grace>>
vars == <<refs, pc, reader, gone, fired, phase, outcome, now, due, began, forced,
          grace, held>>

Phases == {"running", "preStop", "stopping", "closing", "monitoring",
           "draining", "exited", "killed"}
Handler == {"idle", "connected", "looping", "writing", "delaying", "returned", "failed"}
Reader  == {"none", "reading", "writing", "ended"}

\* The types, and that an aborted token belongs to a client that is gone.
TypeOK ==
  /\ refs \in Int
  /\ pc \in [Calls -> Handler]
  /\ reader \in [Calls -> Reader]
  /\ gone \subseteq Calls
  /\ fired \subseteq gone
  /\ phase \in Phases
  /\ outcome \in {"none", "completed", "timedOut"}
  /\ now \in Nat /\ due \in Nat /\ began \in Nat
  /\ forced \in BOOLEAN
  /\ grace \in Graces \cup {0}
  /\ held \subseteq Calls

Alive    == phase \notin {"exited", "killed"}
Open(c)  == pc[c] \in {"connected", "looping", "writing", "delaying"}
Stopping == phase \notin {"running", "preStop"}    \* ApplicationStopping is cancelled

\* linkedCts: the call's own token, or the host's ApplicationStopping.
LinkedCancelled(c) == c \in fired \/ Stopping

\* The callback that runs Disconnect() is registered on the call's token.
Registered(c) == pc[c] \notin {"idle", "connected"}

Init ==
  /\ refs = 0
  /\ pc = [c \in Calls |-> "idle"]
  /\ reader = [c \in Calls |-> "none"]
  /\ gone = {} /\ fired = {}
  /\ phase = "running" /\ outcome = "none"
  /\ now = 0 /\ due = 0 /\ began = 0
  /\ forced = FALSE
  /\ grace = 0
  /\ held = {}

-----------------------------------------------------------------------------
(* ConnectorService.Subscribe                                              *)

Connect(c) ==
  /\ Alive /\ phase \in {"running", "preStop", "stopping"}
  /\ pc[c] = "idle"
  /\ refs' = refs + 1
  /\ pc' = [pc EXCEPT ![c] = "connected"]
  /\ UNCHANGED <<reader, gone, fired, hostVars, now, held>>

\* Registering on a token that is already cancelled runs the callback at once,
\* and Task.Run with a cancelled token never runs its body.
Register(c) ==
  /\ Alive /\ pc[c] = "connected"
  /\ pc' = [pc EXCEPT ![c] = "looping"]
  /\ refs' = IF c \in fired THEN refs - 1 ELSE refs
  /\ reader' = [reader EXCEPT ![c] = IF c \in fired THEN "ended" ELSE "reading"]
  /\ UNCHANGED <<gone, fired, hostVars, now, held>>

\* MUTANT: the loop looks at the call's own token only.
LoopTurnUnlinked(c) ==
  /\ Alive /\ pc[c] = "looping"
  /\ pc' = [pc EXCEPT ![c] = IF c \in fired THEN "returned"
                             ELSE IF reader[c] = "writing" THEN "failed"
                             ELSE "writing"]
  /\ UNCHANGED <<refs, reader, gone, fired, hostVars, now, held>>

\* The loop's condition, then WriteAsync: a second writer of a response
\* stream gets an InvalidOperationException, which Subscribe does not catch.
LoopTurn(c) ==
  /\ Alive /\ pc[c] = "looping"
  /\ pc' = [pc EXCEPT ![c] = IF LinkedCancelled(c) THEN "returned"
                             ELSE IF reader[c] = "writing" THEN "failed"
                             ELSE "writing"]
  /\ UNCHANGED <<refs, reader, gone, fired, hostVars, now, held>>

\* The client takes the message; a client that stalls leaves WriteAsync pending.
WriteDone(c) ==
  /\ Alive /\ pc[c] = "writing" /\ c \notin gone
  /\ pc' = [pc EXCEPT ![c] = "delaying"]
  /\ held' = held \ {c}
  /\ UNCHANGED <<refs, reader, gone, fired, hostVars, now>>

\* WriteAsync on a broken stream throws.
WriteFails(c) ==
  /\ Alive /\ pc[c] = "writing" /\ c \in gone
  /\ pc' = [pc EXCEPT ![c] = "failed"]
  /\ held' = held \ {c}
  /\ UNCHANGED <<refs, reader, gone, fired, hostVars, now>>

\* Task.Delay(500ms, linkedCts.Token): over, or a TaskCanceledException.
DelayOver(c) ==
  /\ Alive /\ pc[c] = "delaying"
  /\ pc' = [pc EXCEPT ![c] = IF LinkedCancelled(c) THEN "returned" ELSE "looping"]
  /\ UNCHANGED <<refs, reader, gone, fired, hostVars, now, held>>

\* readTask takes a request and echoes it: the write fails, and with it the
\* task, when Subscribe is writing or the call is over.
ReaderReceive(c) ==
  /\ Alive /\ reader[c] = "reading" /\ c \notin gone
  /\ reader' = [reader EXCEPT ![c] = IF pc[c] = "writing" \/ ~Open(c) THEN "ended"
                                     ELSE "writing"]
  /\ UNCHANGED <<refs, pc, gone, fired, hostVars, now, held>>

ReaderWritten(c) ==
  /\ Alive /\ reader[c] = "writing"
  /\ reader' = [reader EXCEPT ![c] = IF Open(c) /\ c \notin gone THEN "reading"
                                     ELSE "ended"]
  /\ UNCHANGED <<refs, pc, gone, fired, hostVars, now, held>>

\* The request stream ends, or is cancelled with the call's token.
ReaderEnd(c) ==
  /\ Alive /\ reader[c] = "reading"
  /\ reader' = [reader EXCEPT ![c] = "ended"]
  /\ UNCHANGED <<refs, pc, gone, fired, hostVars, now, held>>

-----------------------------------------------------------------------------
(* The client and Kestrel.  context.CancellationToken is the request's      *)
(* abort token: it fires for a call whose client or connection is gone, and *)
(* not because a handler returned.                                          *)

ClientGone(c) ==
  /\ Alive /\ Open(c) /\ c \notin gone
  /\ gone' = gone \cup {c}
  /\ UNCHANGED <<refs, pc, reader, fired, hostVars, now, held>>

\* MUTANT: the token fires when the handler has returned, too.
FiresOnReturn(c) ==
  /\ Alive /\ c \notin fired /\ (c \in gone \/ pc[c] = "returned")
  /\ fired' = fired \cup {c}
  /\ refs' = IF Registered(c) THEN refs - 1 ELSE refs
  /\ UNCHANGED <<pc, reader, gone, hostVars, now, held>>

\* MUTANT: Disconnect() runs for every aborted call, registered or not.
AlwaysDisconnects(c) ==
  /\ Alive /\ c \in gone \ fired
  /\ fired' = fired \cup {c} /\ refs' = refs - 1
  /\ UNCHANGED <<pc, reader, gone, hostVars, now, held>>

\* Cancellation runs on the thread pool, some time after the abort.
TokenFires(c) ==
  /\ Alive /\ c \in gone \ fired
  /\ fired' = fired \cup {c}
  /\ refs' = IF Registered(c) THEN refs - 1 ELSE refs
  /\ UNCHANGED <<pc, reader, gone, hostVars, now, held>>

-----------------------------------------------------------------------------
(* The kubelet and the generic host.  Hosted services stop in the reverse   *)
(* of their registration order: the web server, then ExtendLifeService.     *)

PodDeleted ==
  /\ phase = "running"
  /\ phase' = "preStop" /\ due' = PreStop
  /\ grace' \in Graces
  /\ UNCHANGED <<callVars, outcome, now, began, forced>>

SigTerm ==
  /\ phase = "preStop" /\ now >= due
  /\ phase' = "stopping" /\ began' = now
  /\ held' = {c \in Calls : pc[c] = "writing"}
  /\ UNCHANGED <<refs, pc, reader, gone, fired, outcome, now, due, forced, grace>>

\* Kestrel stops listening and tells its connections to go away.
Unbind ==
  /\ phase = "stopping"
  /\ phase' = "closing"
  /\ UNCHANGED <<callVars, outcome, now, due, began, forced, grace>>

StartMonitor ==
  /\ phase' = "monitoring" /\ began' = now /\ due' = now
  /\ UNCHANGED <<refs, pc, reader, fired, outcome, now, grace, held>>

ServerStopped ==
  /\ phase = "closing" /\ \A c \in Calls : ~Open(c)
  /\ StartMonitor
  /\ UNCHANGED <<gone, forced, grace>>

\* The host's token is cancelled: Kestrel aborts what is left and does not wait.
ServerTimeout ==
  /\ phase = "closing" /\ now >= began + HostTimeout
  /\ \E c \in Calls : Open(c)
  /\ gone' = gone \cup {c \in Calls : Open(c)}
  /\ forced' = TRUE
  /\ StartMonitor

\* MUTANT: the loop leaves when one connection remains.
LeavesAtOne ==
  /\ phase = "monitoring" /\ now >= due
  /\ IF now < began + MonitorLimit /\ refs > 1
     THEN due' = now + Poll /\ UNCHANGED <<phase, outcome>>
     ELSE /\ phase' = "draining" /\ due' = now + Drain
          /\ outcome' = IF now < began + MonitorLimit THEN "completed" ELSE "timedOut"
  /\ UNCHANGED <<callVars, now, began, forced, grace>>

\* MUTANT: the loop has no time limit.
PollsForEver ==
  /\ phase = "monitoring" /\ now >= due
  /\ IF refs # 0
     THEN due' = now + Poll /\ UNCHANGED <<phase, outcome>>
     ELSE phase' = "draining" /\ due' = now + Drain /\ outcome' = "completed"
  /\ UNCHANGED <<callVars, now, began, forced, grace>>

\* One turn of MonitorDisconnectAsync's loop.
MonitorPoll ==
  /\ phase = "monitoring" /\ now >= due
  /\ IF now < began + MonitorLimit /\ refs # 0
     THEN /\ due' = now + Poll
          /\ UNCHANGED <<phase, outcome>>
     ELSE /\ phase' = "draining" /\ due' = now + Drain
          /\ outcome' = IF now < began + MonitorLimit THEN "completed" ELSE "timedOut"
  /\ UNCHANGED <<callVars, now, began, forced, grace>>

Exit ==
  /\ phase = "draining" /\ now >= due
  /\ phase' = "exited"
  /\ UNCHANGED <<callVars, outcome, now, due, began, forced, grace>>

Kill ==
  /\ Alive /\ phase # "running" /\ now = grace
  /\ phase' = "killed"
  /\ UNCHANGED <<callVars, outcome, now, due, began, forced, grace>>

\* Steps that take no time in units of 5 s are taken before time passes: those
\* whose delay is over, and those of a handler that was told to end.
Ending(c) ==
  \/ pc[c] \in {"connected", "looping", "delaying"} /\ LinkedCancelled(c)
  \/ pc[c] = "writing" /\ c \in gone

Due ==
  \/ \E c \in Calls : Ending(c)
  \/ phase \in {"preStop", "monitoring", "draining"} /\ now >= due
  \/ phase = "stopping"
  \/ phase = "closing" /\ now >= began + HostTimeout

Tick ==
  /\ Alive /\ phase # "running" /\ ~Due /\ now < grace
  /\ now' = now + 1
  /\ UNCHANGED <<callVars, hostVars>>

-----------------------------------------------------------------------------
Handle(c) == \/ Register(c) \/ LoopTurn(c) \/ WriteFails(c) \/ DelayOver(c)

Call(c) == \/ Connect(c) \/ Handle(c) \/ WriteDone(c) \/ ReaderReceive(c)
           \/ ReaderWritten(c) \/ ReaderEnd(c) \/ ClientGone(c) \/ TokenFires(c)

Host == \/ SigTerm \/ Unbind \/ ServerStopped \/ ServerTimeout \/ MonitorPoll \/ Exit

Next == \/ \E c \in Calls : Call(c)
        \/ PodDeleted \/ Host \/ Kill \/ Tick

\* The thread pool runs what is ready and time passes; the pod need not be
\* deleted, a client need not read, send or leave.
Fairness ==
  /\ \A c \in Calls : WF_vars(Handle(c)) /\ WF_vars(Open(c) /\ TokenFires(c))
  /\ WF_vars(Host) /\ WF_vars(Kill) /\ WF_vars(Tick)

Spec == Init /\ [][Next]_vars /\ Fairness

-----------------------------------------------------------------------------
\* The count never loses a call whose client is still there, however the
\* token's cancellation interleaves with Connect and Register.
NeverUndercounts == Cardinality({c \in Calls : Open(c) /\ c \notin gone}) <= refs

\* Time passes while the server is closing only for a WriteAsync that was pending
\* already when the host began to stop, to a client that does not read: every
\* other call sees the stop, and none begins another write.
OnlyStalledClientsDelayStop ==
  [][phase = "closing" /\ now' > now => \A c \in Calls : Open(c) => c \in held]_vars

\* The whole shutdown is bounded by the sum of its timeouts: the monitor's
\* limit adds to the host's, it does not run inside it.
StopBudget ==
  Alive => now <= PreStop + HostTimeout + MonitorLimit + Poll + Drain - 1

\* With a grace period longer than that bound a deleted pod ends by itself,
\* whatever its calls do.
EndsByItself ==
  phase # "running" /\ grace >= PreStop + HostTimeout + MonitorLimit + Poll + Drain
    ~> phase = "exited"

\* The calls, and the stop, as GracefulStop sees them.
Live == {c \in Calls : pc[c] # "idle" /\ c \notin fired}
StopStage == CASE phase \in {"running", "preStop", "stopping"} -> "serving"
               [] phase \in {"closing", "monitoring"} -> "waiting"
               [] phase = "draining" -> "decided"
               [] phase = "exited" -> "left"
               [] phase = "killed" -> "killed"

Promise == INSTANCE GracefulStop WITH live <- Live, stage <- StopStage, verdict <- outcome

\* The count stands for the calls: the host and its monitor, which see nothing
\* else of them, stop as if they saw every call.
StopsGracefully == Promise!Spec

\* MonitorDisconnectAsync logs "Waiting complete connections. Connections N":
\* after the first such wait there is a connection to wait for.
WaitsForConnections ==
  phase = "monitoring" /\ due > began => \E c \in Calls : Open(c)

=============================================================================
