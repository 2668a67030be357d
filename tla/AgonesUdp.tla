------------------------------ MODULE AgonesUdp ------------------------------
(***************************************************************************)
(* The C# game server of agones/simple-udp-csharp: the command loop of      *)
(* EchoUdpServer, the health loop of AgonesSdk that AgonesHostedService     *)
(* awaits, and the SDK's HTTP calls with their cache of request bodies.     *)
(***************************************************************************)
EXTENDS Naturals

CONSTANTS Values,      \* key-value pairs players may send
          MaxPackets   \* bound: packets received

ASSUME ConstantsAssumption == "{}" \notin Values /\ MaxPackets \in Nat

VARIABLES
  awaited,   \* the host starts the batch after AgonesHostedService
  loop,      \* where ServerLoop stands
  packet,    \* the packet being handled, or handled last
  received,  \* packets received
  asked,     \* Shutdown was called
  acked,     \* the sender of an EXIT has its answer
  enabled,   \* HealthEnabled
  health,    \* where HealthCheckAsync stands
  late,      \* pings sent after HealthEnabled was cleared (observer)
  cache,     \* keys of jsonCache
  wire,      \* each caller's request: none, sent, or seen by the sidecar
  request,   \* its path and body, and whether it carries the body
  missed,    \* requests sent without their body (observer)
  reached,   \* calls the sidecar received
  applied,   \* calls it received with their body
  ended      \* the process is gone

loopVars == <<awaited, loop, packet, received, asked, acked, enabled>>
pingVars == <<health, late>>
sdkVars == <<cache, wire, request, missed, reached, applied>>
vars == <<awaited, loop, packet, received, asked, acked, enabled,
          health, late, cache, wire, request, missed, reached, applied, ended>>

Callers == {"loop", "health"}
Bodies == Values \cup {"{}"}

\* LABEL k v and ANNOTATION k v have the same body; RESERVE has a body too and
\* is not told apart.  READY, ALLOCATE and WATCH are calls with the body "{}".
Metadata == {"label", "annotation"} \X Values
Packets == Metadata \cup
  {<<p, "{}">> : p \in {"EXIT", "UNHEALTHY", "GAMESERVER", "call", "malformed",
                        "reserveNothing", "CRASH", "other"}}

\* The types.
TypeOK ==
  /\ awaited \in BOOLEAN
  /\ loop \in {"notStarted", "marking", "receiving", "handling", "calling",
               "finished", "failed"}
  /\ packet \in Packets \cup {<<"none", "{}">>} /\ received \in 0..MaxPackets
  /\ asked \in BOOLEAN /\ acked \in BOOLEAN /\ enabled \in BOOLEAN
  /\ health \in {"testing", "enabled", "asking", "sleeping", "ended"}
  /\ late \in Nat /\ cache \subseteq Bodies
  /\ wire \in [Callers -> {"none", "sent", "seen"}]
  /\ request \in [Callers -> {"none", "ready", "shutdown", "health", "GAMESERVER", "call",
                            "label", "annotation"} \X Bodies \X BOOLEAN]
  /\ missed \in [Bodies -> 0..MaxPackets]
  /\ applied \subseteq reached /\ reached \subseteq Metadata
  /\ ended \in BOOLEAN

\* The constructor caches "{}".
Init ==
  /\ awaited \in BOOLEAN /\ loop = "notStarted" /\ packet = <<"none", "{}">> /\ received = 0
  /\ asked = FALSE /\ acked = FALSE /\ enabled = TRUE
  /\ health = "testing" /\ late = 0 /\ cache = {"{}"}
  /\ wire = [c \in Callers |-> "none"] /\ request = [c \in Callers |-> <<"none", "{}", FALSE>>]
  /\ missed = [b \in Bodies |-> 0]
  /\ reached = {} /\ applied = {} /\ ended = FALSE

-----------------------------------------------------------------------------
(* AgonesSdk.SendRequestAsync                                              *)

\* MUTANT: the body is never added to the cache.
SendUncached(c, api, body) ==
  /\ wire' = [wire EXCEPT ![c] = "sent"]
  /\ request' = [request EXCEPT ![c] = <<api, body, body \in cache>>]
  /\ missed' = IF body \in cache THEN missed ELSE [missed EXCEPT ![body] = @ + 1]
  /\ UNCHANGED <<cache, reached, applied>>

\* MUTANT: the cache is keyed by the path.
SendCachesPath(c, api, body) ==
  /\ wire' = [wire EXCEPT ![c] = "sent"]
  /\ request' = [request EXCEPT ![c] = <<api, body, body \in cache>>]
  /\ missed' = IF body \in cache THEN missed ELSE [missed EXCEPT ![body] = @ + 1]
  /\ cache' = cache \cup {api}
  /\ UNCHANGED <<reached, applied>>

\* A body that is not cached yet is cached, and only that.
SendRequest(c, api, body) ==
  /\ wire' = [wire EXCEPT ![c] = "sent"]
  /\ request' = [request EXCEPT ![c] = <<api, body, body \in cache>>]
  /\ missed' = IF body \in cache THEN missed ELSE [missed EXCEPT ![body] = @ + 1]
  /\ cache' = cache \cup {body}
  /\ UNCHANGED <<reached, applied>>

SidecarSees(c) ==
  /\ ~ended /\ wire[c] = "sent"
  /\ wire' = [wire EXCEPT ![c] = "seen"]
  /\ LET call == <<request[c][1], request[c][2]>>
     IN  /\ reached' = reached \cup ({call} \cap Metadata)
         /\ applied' = applied \cup (IF request[c][3] THEN {call} \cap Metadata ELSE {})
  /\ UNCHANGED <<loopVars, pingVars, cache, request, missed, ended>>

\* Every call returns: with the sidecar's answer, or with (false, null) when it
\* was refused, lost, or still pending after HttpClient's timeout.
Returns(c) ==
  /\ wire[c] # "none"
  /\ wire' = [wire EXCEPT ![c] = "none"]
  /\ UNCHANGED <<cache, request, missed, reached, applied>>

-----------------------------------------------------------------------------
(* The host and EchoUdpServer.ServerLoop                                   *)

\* StartAsync of one hosted service is awaited before the next one's.
Start ==
  /\ ~ended /\ loop = "notStarted" /\ (awaited => health = "ended")
  /\ loop' = "marking" /\ SendRequest("loop", "ready", "{}")
  /\ UNCHANGED <<awaited, packet, received, asked, acked, enabled, pingVars, ended>>

ReadyReturns ==
  /\ ~ended /\ loop = "marking" /\ Returns("loop")
  /\ loop' = "failed" \/ (wire["loop"] = "seen" /\ loop' = "receiving")
  /\ UNCHANGED <<awaited, packet, received, asked, acked, enabled, pingVars, ended>>

Receive ==
  /\ ~ended /\ loop = "receiving" /\ received < MaxPackets
  /\ packet' \in Packets /\ received' = received + 1 /\ loop' = "handling"
  /\ UNCHANGED <<awaited, asked, acked, enabled, pingVars, sdkVars, ended>>

Handling(kinds) == ~ended /\ loop = "handling" /\ packet[1] \in kinds

\* MUTANT: the answer does not wait for Shutdown.
ExitAcksFirst ==
  /\ Handling({"EXIT"})
  /\ acked' = TRUE /\ loop' = "calling" /\ UNCHANGED <<asked, sdkVars>>
  /\ UNCHANGED <<awaited, packet, received, enabled, pingVars, ended>>

HandleExit ==
  /\ Handling({"EXIT"})
  /\ SendRequest("loop", "shutdown", "{}") /\ asked' = TRUE /\ loop' = "calling"
  /\ UNCHANGED <<awaited, packet, received, acked, enabled, pingVars, ended>>

HandleUnhealthy ==
  /\ Handling({"UNHEALTHY"})
  /\ enabled' = FALSE /\ loop' = "receiving"
  /\ UNCHANGED <<awaited, packet, received, asked, acked, pingVars, sdkVars, ended>>

HandleCall ==
  /\ Handling({"GAMESERVER", "call", "label", "annotation"})
  /\ SendRequest("loop", packet[1], packet[2]) /\ loop' = "calling"
  /\ UNCHANGED <<awaited, packet, received, asked, acked, enabled, pingVars, ended>>

\* The ACK of any other text, and the error for a wrong number of arguments.
HandleEcho ==
  /\ Handling({"malformed", "other"})
  /\ loop' = "receiving"
  /\ UNCHANGED <<awaited, packet, received, asked, acked, enabled, pingVars, sdkVars, ended>>

\* CRASH throws, and so does parts[1] of a RESERVE without seconds.
HandleThrow ==
  /\ Handling({"CRASH", "reserveNothing"})
  /\ loop' = "failed"
  /\ UNCHANGED <<awaited, packet, received, asked, acked, enabled, pingVars, sdkVars, ended>>

\* MUTANT: a Shutdown that fails is not acknowledged.
CallReturnsHonestly ==
  /\ ~ended /\ loop = "calling" /\ Returns("loop")
  /\ IF packet[1] = "EXIT"
     THEN loop' = "finished" /\ acked' = (wire["loop"] = "seen")
     ELSE loop' = "receiving" /\ UNCHANGED acked
  /\ UNCHANGED <<awaited, packet, received, asked, enabled, pingVars, ended>>

\* The outcome of the call is ignored, but GAMESERVER needs the response.  The
\* answer to the player may fail in SendAsync.
CallReturns ==
  /\ ~ended /\ loop = "calling" /\ Returns("loop")
  /\ CASE packet[1] = "EXIT" ->
            \/ loop' = "finished" /\ acked' = TRUE
            \/ loop' = "failed" /\ UNCHANGED acked
       [] packet[1] = "GAMESERVER" ->
            /\ loop' = "failed" \/ (wire["loop"] = "seen" /\ loop' = "receiving")
            /\ UNCHANGED acked
       [] OTHER -> loop' = "receiving" /\ UNCHANGED acked
  /\ UNCHANGED <<awaited, packet, received, asked, enabled, pingVars, ended>>

\* The socket throws when it is opened, read or written.
SocketFails ==
  /\ ~ended /\ \/ loop = "notStarted" /\ (awaited => health = "ended")
               \/ loop = "receiving"
               \/ loop = "handling" /\ packet[1] \in {"malformed", "other"}
  /\ loop' = "failed"
  /\ UNCHANGED <<awaited, packet, received, asked, acked, enabled, pingVars, sdkVars, ended>>

-----------------------------------------------------------------------------
(* AgonesSdk.HealthCheckAsync                                              *)

TestEnabled ==
  /\ ~ended /\ health = "testing"
  /\ health' = IF enabled THEN "enabled" ELSE "ended"
  /\ UNCHANGED <<late, loopVars, sdkVars, ended>>

Ping ==
  /\ ~ended /\ health = "enabled"
  /\ SendRequest("health", "health", "{}") /\ health' = "asking"
  /\ late' = IF enabled THEN late ELSE late + 1
  /\ UNCHANGED <<loopVars, ended>>

PingReturns ==
  /\ ~ended /\ health = "asking" /\ Returns("health")
  /\ health' = "sleeping"
  /\ UNCHANGED <<late, loopVars, ended>>

\* MUTANT: the loop does not test HealthEnabled again.
WakePinging ==
  /\ ~ended /\ health = "sleeping" /\ late < 3
  /\ health' = "enabled"
  /\ UNCHANGED <<late, loopVars, sdkVars, ended>>

\* MUTANT: nothing wakes the loop once pings are off.
WakeSleeping ==
  /\ ~ended /\ health = "sleeping" /\ enabled
  /\ health' = "testing"
  /\ UNCHANGED <<late, loopVars, sdkVars, ended>>

Wake ==
  /\ ~ended /\ health = "sleeping"
  /\ health' = "testing"
  /\ UNCHANGED <<late, loopVars, sdkVars, ended>>

-----------------------------------------------------------------------------
\* A signal, or the host stopping after the batch returned or threw.
End ==
  /\ ~ended /\ ended' = TRUE
  /\ UNCHANGED <<loopVars, pingVars, sdkVars>>

LoopStep == \/ Start \/ ReadyReturns \/ HandleExit \/ HandleUnhealthy \/ HandleCall
            \/ HandleEcho \/ HandleThrow \/ CallReturns
HealthStep == TestEnabled \/ Ping \/ PingReturns \/ Wake

Next == \/ LoopStep \/ HealthStep \/ Receive \/ SocketFails \/ End
        \/ \E c \in Callers : SidecarSees(c)

\* Both tasks run, and every call returns; players and the sidecar owe nothing.
Spec == Init /\ [][Next]_vars /\ WF_vars(LoopStep) /\ WF_vars(HealthStep)

-----------------------------------------------------------------------------
\* A body is left out of a request at most once, whatever became of that
\* request: from then on the cache supplies it, to ANNOTATION as to LABEL.
BodyMissedOnce == \A b \in Bodies : missed[b] <= 1

\* "Turns off health pings": the ping that passed the test before is the last.
AtMostOneLatePing == late <= 1

\* Whatever becomes of Shutdown, refused, lost or unanswered, the sender of the EXIT
\* gets its ACK, unless the socket or the process fails.
ExitIsAcked == asked ~> acked \/ loop = "failed" \/ ended

\* The loop finds HealthEnabled cleared, however its calls end.
PingsEnd == ~enabled ~> health = "ended" \/ ended

\* IAgonesSdk.SetLabel: "Apply a Label to the backing GameServer metadata": a
\* call that reaches the sidecar is applied.
LabelIsApplied == reached \subseteq applied

\* The contract of both game servers, seen in this one's state.
Contract == INSTANCE GameServer WITH
  TellsFirst <- FALSE,   \* the ACK waits for the answer of Shutdown
  last <- IF packet[1] \in {"EXIT", "UNHEALTHY", "none"} THEN packet[1] ELSE "rest",
  told <- acked, off <- ~enabled,
  pinging <- health = "asking", over <- health = "ended", gone <- ended

\* The server keeps the contract of the Go server it is written after: an EXIT is
\* the last packet taken, and only UNHEALTHY stops the pings.
IsGameServer == Contract!Spec
=============================================================================
