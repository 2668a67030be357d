--------------------------- MODULE AgonesUdpProofs ---------------------------
(***************************************************************************)
(* Proofs about AgonesUdp, for any values and any number of packets.        *)
(***************************************************************************)
EXTENDS AgonesUdp, TLAPS

\* The host's order: with the health loop first neither task gets further.
MutualWait == awaited => loop = "notStarted" /\ enabled /\ health # "ended"

\* One ping may be past its test when HealthEnabled is cleared.
PingCredit ==
  /\ late \in Nat /\ late <= 1
  /\ enabled => late = 0
  /\ late = 1 => health # "enabled"
  /\ late = 1 => ~enabled

\* What was left out once is in the cache.
CacheRemembers ==
  /\ missed \in [Bodies -> Nat]
  /\ \A b \in Bodies : missed[b] <= 1 /\ (b \notin cache => missed[b] = 0)
  /\ packet[2] \in Bodies

\* The loop's way through an EXIT.
ExitOrder ==
  /\ loop = "calling" /\ packet[1] = "EXIT" => asked
  /\ acked => asked /\ loop = "finished"

-----------------------------------------------------------------------------
\* The four invariants hold at the start.
LEMMA InitInv == Init => MutualWait /\ PingCredit /\ CacheRemembers /\ ExitOrder
<1> SUFFICES ASSUME Init PROVE MutualWait /\ PingCredit /\ CacheRemembers /\ ExitOrder
  OBVIOUS
<1>1. MutualWait /\ ExitOrder
  <2>1. loop = "notStarted" /\ enabled /\ health = "testing" /\ ~acked
    BY Zenon DEF Init
  <2> QED
    BY <2>1 DEF MutualWait, ExitOrder
<1>2. PingCredit
  <2>1. enabled /\ late = 0
    BY Zenon DEF Init
  <2> QED
    BY <2>1 DEF PingCredit
<1>3. packet[2] \in Bodies
  BY DEF Init, Bodies
<1>4. missed \in [Bodies -> Nat] /\ \A b \in Bodies : missed[b] = 0
  BY DEF Init
<1> QED
  BY <1>1, <1>2, <1>3, <1>4 DEF CacheRemembers

\* A request leaves at most its own body out, and only when it is not cached.
LEMMA SendRemembers ==
  ASSUME NEW c, NEW api, NEW body \in Bodies, CacheRemembers,
         SendRequest(c, api, body), packet[2]' \in Bodies
  PROVE  CacheRemembers'
<1> cache' = cache \cup {body}
  BY Zenon DEF SendRequest
<1>1. CASE body \in cache
  <2>1. missed' = missed
    BY <1>1, Zenon DEF SendRequest
  <2> QED
    BY <2>1, <1>1 DEF CacheRemembers
<1>2. CASE body \notin cache
  <2>1. missed' = [missed EXCEPT ![body] = missed[body] + 1]
    BY <1>2, Zenon DEF SendRequest
  <2>2. missed[body] = 0
    BY <1>2 DEF CacheRemembers
  <2> QED
    BY <2>1, <2>2 DEF CacheRemembers
<1> QED
  BY <1>1, <1>2

\* The body of a packet's call is a body.
LEMMA PacketBody == ASSUME NEW p \in Packets PROVE p[2] \in Bodies
<1>1. CASE p \in Metadata
  BY <1>1 DEF Metadata, Bodies
<1>2. CASE p \notin Metadata
  <2>1. PICK k : p = <<k, "{}">>
    BY <1>2 DEF Packets
  <2> QED
    BY <2>1 DEF Bodies
<1> QED
  BY <1>1, <1>2

\* The body of every call without arguments.
LEMMA EmptyBody == "{}" \in Bodies
  BY DEF Bodies

\* Before Start only the health loop runs, and it runs while it is enabled.
LEMMA StepMutualWait == MutualWait /\ [Next]_vars => MutualWait'
<1> SUFFICES ASSUME MutualWait, [Next]_vars PROVE MutualWait'
  OBVIOUS
<1>1. CASE Start
  BY <1>1 DEF MutualWait, Start, loopVars, pingVars, sdkVars
<1>2. CASE ReadyReturns
  BY <1>2 DEF MutualWait, ReadyReturns, loopVars, pingVars, sdkVars
<1>3. CASE HandleExit
  BY <1>3 DEF MutualWait, HandleExit, loopVars, pingVars, sdkVars, Handling
<1>4. CASE HandleUnhealthy
  BY <1>4 DEF MutualWait, HandleUnhealthy, loopVars, pingVars, sdkVars, Handling
<1>5. CASE HandleCall
  BY <1>5 DEF MutualWait, HandleCall, loopVars, pingVars, sdkVars, Handling
<1>6. CASE HandleEcho
  BY <1>6 DEF MutualWait, HandleEcho, loopVars, pingVars, sdkVars, Handling
<1>7. CASE HandleThrow
  BY <1>7 DEF MutualWait, HandleThrow, loopVars, pingVars, sdkVars, Handling
<1>8. CASE CallReturns
  BY <1>8 DEF MutualWait, CallReturns, loopVars, pingVars, sdkVars
<1>9. CASE TestEnabled
  BY <1>9 DEF MutualWait, TestEnabled, loopVars, pingVars, sdkVars
<1>10. CASE Ping
  BY <1>10 DEF MutualWait, Ping, loopVars, pingVars, sdkVars
<1>11. CASE PingReturns
  BY <1>11 DEF MutualWait, PingReturns, loopVars, pingVars, sdkVars
<1>12. CASE Wake
  BY <1>12 DEF MutualWait, Wake, loopVars, pingVars, sdkVars
<1>13. CASE Receive
  BY <1>13 DEF MutualWait, Receive, loopVars, pingVars, sdkVars
<1>14. CASE SocketFails
  BY <1>14 DEF MutualWait, SocketFails, loopVars, pingVars, sdkVars
<1>15. CASE End
  BY <1>15 DEF MutualWait, End, loopVars, pingVars, sdkVars
<1>16. CASE \E c \in Callers : SidecarSees(c)
  BY <1>16 DEF MutualWait, SidecarSees, loopVars, pingVars
<1>17. CASE UNCHANGED vars
  BY <1>17 DEF MutualWait, vars
<1> QED
  BY <1>1, <1>2, <1>3, <1>4, <1>5, <1>6, <1>7, <1>8, <1>9, <1>10,
     <1>11, <1>12, <1>13, <1>14, <1>15, <1>16, <1>17
  DEF Next, LoopStep, HealthStep

\* Only Ping counts, and only from a test that is not repeated once the flag is
\* cleared.
LEMMA StepPingCredit == PingCredit /\ [Next]_vars => PingCredit'
<1> SUFFICES ASSUME PingCredit, [Next]_vars PROVE PingCredit'
  OBVIOUS
<1>1. CASE Start
  BY <1>1 DEF PingCredit, Start, loopVars, pingVars, sdkVars
<1>2. CASE ReadyReturns
  BY <1>2 DEF PingCredit, ReadyReturns, loopVars, pingVars, sdkVars
<1>3. CASE HandleExit
  BY <1>3 DEF PingCredit, HandleExit, loopVars, pingVars, sdkVars, Handling
<1>4. CASE HandleUnhealthy
  BY <1>4 DEF PingCredit, HandleUnhealthy, loopVars, pingVars, sdkVars, Handling
<1>5. CASE HandleCall
  BY <1>5 DEF PingCredit, HandleCall, loopVars, pingVars, sdkVars, Handling
<1>6. CASE HandleEcho
  BY <1>6 DEF PingCredit, HandleEcho, loopVars, pingVars, sdkVars, Handling
<1>7. CASE HandleThrow
  BY <1>7 DEF PingCredit, HandleThrow, loopVars, pingVars, sdkVars, Handling
<1>8. CASE CallReturns
  BY <1>8 DEF PingCredit, CallReturns, loopVars, pingVars, sdkVars
<1>9. CASE TestEnabled
  BY <1>9 DEF PingCredit, TestEnabled, loopVars, pingVars, sdkVars
<1>10. CASE Ping
  <2>1. enabled' = enabled /\ health = "enabled" /\ health' = "asking"
    BY <1>10, Zenon DEF Ping, loopVars
  <2>2. late = 0
    BY <2>1 DEF PingCredit
  <2>3. enabled => late' = late
    BY <1>10, Zenon DEF Ping
  <2>4. ~enabled => late' = late + 1
    BY <1>10, Zenon DEF Ping
  <2> QED
    BY <2>1, <2>2, <2>3, <2>4 DEF PingCredit
<1>11. CASE PingReturns
  BY <1>11 DEF PingCredit, PingReturns, loopVars, pingVars, sdkVars
<1>12. CASE Wake
  BY <1>12 DEF PingCredit, Wake, loopVars, pingVars, sdkVars
<1>13. CASE Receive
  BY <1>13 DEF PingCredit, Receive, loopVars, pingVars, sdkVars
<1>14. CASE SocketFails
  BY <1>14 DEF PingCredit, SocketFails, loopVars, pingVars, sdkVars
<1>15. CASE End
  BY <1>15 DEF PingCredit, End, loopVars, pingVars, sdkVars
<1>16. CASE \E c \in Callers : SidecarSees(c)
  BY <1>16 DEF PingCredit, SidecarSees, loopVars, pingVars
<1>17. CASE UNCHANGED vars
  BY <1>17 DEF PingCredit, vars
<1> QED
  BY <1>1, <1>2, <1>3, <1>4, <1>5, <1>6, <1>7, <1>8, <1>9, <1>10,
     <1>11, <1>12, <1>13, <1>14, <1>15, <1>16, <1>17
  DEF Next, LoopStep, HealthStep

\* SendRequest is the only action that touches cache and missed.
LEMMA StepCacheRemembers == CacheRemembers /\ [Next]_vars => CacheRemembers'
<1> SUFFICES ASSUME CacheRemembers, [Next]_vars PROVE CacheRemembers'
  OBVIOUS
<1>1. CASE Start
  <2>1. packet[2]' \in Bodies
    BY <1>1 DEF CacheRemembers, Start
  <2> QED
    BY <1>1, <2>1, EmptyBody, SendRemembers DEF Start
<1>2. CASE ReadyReturns
  BY <1>2 DEF CacheRemembers, ReadyReturns, loopVars, pingVars, sdkVars, Returns
<1>3. CASE HandleExit
  <2>1. packet[2]' \in Bodies
    BY <1>3 DEF CacheRemembers, HandleExit, Handling
  <2> QED
    BY <1>3, <2>1, EmptyBody, SendRemembers DEF HandleExit, Handling
<1>4. CASE HandleUnhealthy
  BY <1>4 DEF CacheRemembers, HandleUnhealthy, loopVars, pingVars, sdkVars, Handling
<1>5. CASE HandleCall
  <2>1. packet[2] \in Bodies /\ packet[2]' \in Bodies
    BY <1>5 DEF CacheRemembers, HandleCall
  <2> QED
    BY <1>5, <2>1, SendRemembers DEF HandleCall
<1>6. CASE HandleEcho
  BY <1>6 DEF CacheRemembers, HandleEcho, loopVars, pingVars, sdkVars, Handling
<1>7. CASE HandleThrow
  BY <1>7 DEF CacheRemembers, HandleThrow, loopVars, pingVars, sdkVars, Handling
<1>8. CASE CallReturns
  BY <1>8 DEF CacheRemembers, CallReturns, loopVars, pingVars, sdkVars, Returns
<1>9. CASE TestEnabled
  BY <1>9 DEF CacheRemembers, TestEnabled, loopVars, pingVars, sdkVars
<1>10. CASE Ping
  <2>1. packet[2]' \in Bodies
    BY <1>10 DEF CacheRemembers, Ping, loopVars
  <2> QED
    BY <1>10, <2>1, EmptyBody, SendRemembers DEF Ping
<1>11. CASE PingReturns
  BY <1>11 DEF CacheRemembers, PingReturns, loopVars, pingVars, sdkVars, Returns
<1>12. CASE Wake
  BY <1>12 DEF CacheRemembers, Wake, loopVars, pingVars, sdkVars
<1>13. CASE Receive
  BY <1>13, PacketBody DEF CacheRemembers, Receive, pingVars, sdkVars
<1>14. CASE SocketFails
  BY <1>14 DEF CacheRemembers, SocketFails, loopVars, pingVars, sdkVars
<1>15. CASE End
  BY <1>15 DEF CacheRemembers, End, loopVars, pingVars, sdkVars
<1>16. CASE \E c \in Callers : SidecarSees(c)
  BY <1>16 DEF CacheRemembers, SidecarSees, loopVars, pingVars
<1>17. CASE UNCHANGED vars
  BY <1>17 DEF CacheRemembers, vars
<1> QED
  BY <1>1, <1>2, <1>3, <1>4, <1>5, <1>6, <1>7, <1>8, <1>9, <1>10,
     <1>11, <1>12, <1>13, <1>14, <1>15, <1>16, <1>17
  DEF Next, LoopStep, HealthStep

\* HandleExit is the only way to an EXIT under call, and its return to an ACK.
LEMMA StepExitOrder == ExitOrder /\ [Next]_vars => ExitOrder'
<1> SUFFICES ASSUME ExitOrder, [Next]_vars PROVE ExitOrder'
  OBVIOUS
<1>1. CASE Start
  BY <1>1 DEF ExitOrder, Start, loopVars, pingVars, sdkVars
<1>2. CASE ReadyReturns
  BY <1>2 DEF ExitOrder, ReadyReturns, loopVars, pingVars, sdkVars
<1>3. CASE HandleExit
  BY <1>3 DEF ExitOrder, HandleExit, loopVars, pingVars, sdkVars, Handling
<1>4. CASE HandleUnhealthy
  BY <1>4 DEF ExitOrder, HandleUnhealthy, loopVars, pingVars, sdkVars, Handling
<1>5. CASE HandleCall
  BY <1>5 DEF ExitOrder, HandleCall, loopVars, pingVars, sdkVars, Handling
<1>6. CASE HandleEcho
  BY <1>6 DEF ExitOrder, HandleEcho, loopVars, pingVars, sdkVars, Handling
<1>7. CASE HandleThrow
  BY <1>7 DEF ExitOrder, HandleThrow, loopVars, pingVars, sdkVars, Handling
<1>8. CASE CallReturns
  BY <1>8 DEF ExitOrder, CallReturns, loopVars, pingVars, sdkVars
<1>9. CASE TestEnabled
  BY <1>9 DEF ExitOrder, TestEnabled, loopVars, pingVars, sdkVars
<1>10. CASE Ping
  BY <1>10 DEF ExitOrder, Ping, loopVars, pingVars, sdkVars
<1>11. CASE PingReturns
  BY <1>11 DEF ExitOrder, PingReturns, loopVars, pingVars, sdkVars
<1>12. CASE Wake
  BY <1>12 DEF ExitOrder, Wake, loopVars, pingVars, sdkVars
<1>13. CASE Receive
  BY <1>13 DEF ExitOrder, Receive, pingVars, sdkVars
<1>14. CASE SocketFails
  BY <1>14 DEF ExitOrder, SocketFails, loopVars, pingVars, sdkVars
<1>15. CASE End
  BY <1>15 DEF ExitOrder, End, loopVars, pingVars, sdkVars
<1>16. CASE \E c \in Callers : SidecarSees(c)
  BY <1>16 DEF ExitOrder, SidecarSees, loopVars, pingVars
<1>17. CASE UNCHANGED vars
  BY <1>17 DEF ExitOrder, vars
<1> QED
  BY <1>1, <1>2, <1>3, <1>4, <1>5, <1>6, <1>7, <1>8, <1>9, <1>10,
     <1>11, <1>12, <1>13, <1>14, <1>15, <1>16, <1>17
  DEF Next, LoopStep, HealthStep

\* Where the host awaits the health loop first, the server does not start.
ServerWaitsForHealth == awaited => loop = "notStarted" /\ enabled

\* AgonesHostedService.StartAsync awaits a loop that only the server can end: the
\* host that starts it first never starts the server.
THEOREM EachWaits == Spec => []ServerWaitsForHealth
<1>1. MutualWait => ServerWaitsForHealth
  BY DEF MutualWait, ServerWaitsForHealth
<1> QED
  BY <1>1, InitInv, StepMutualWait, PTL DEF Spec

\* After UNHEALTHY at most the ping that had passed the test is sent.
THEOREM LatePingIsTheLast == Spec => []AtMostOneLatePing
<1>1. PingCredit => AtMostOneLatePing
  BY DEF PingCredit, AtMostOneLatePing
<1> QED
  BY <1>1, InitInv, StepPingCredit, PTL DEF Spec

\* SendRequestAsync leaves each body out once, for any number of values.
THEOREM MissedOnce == Spec => []BodyMissedOnce
<1>1. CacheRemembers => BodyMissedOnce
  BY DEF CacheRemembers, BodyMissedOnce
<1> QED
  BY <1>1, InitInv, StepCacheRemembers, PTL DEF Spec

\* An EXIT is acknowledged after Shutdown was called and returned.
ShutdownBeforeAck == acked => asked /\ (ended \/ loop = "finished")

\* The ACK of an EXIT follows the call of Shutdown.
THEOREM AckFollowsShutdown == Spec => []ShutdownBeforeAck
<1>1. ExitOrder => ShutdownBeforeAck
  BY DEF ExitOrder, ShutdownBeforeAck
<1> QED
  BY <1>1, InitInv, StepExitOrder, PTL DEF Spec

-----------------------------------------------------------------------------
(* Type correctness.  A body is missed by a packet's request only, so the    *)
(* number of packets bounds what is missed.                                  *)

\* What is asked of the sidecar.
Apis == {"none", "ready", "shutdown", "health", "GAMESERVER", "call", "label", "annotation"}

\* The types of the SDK's variables.
SdkTypes ==
  /\ cache \subseteq Bodies /\ "{}" \in cache
  /\ wire \in [Callers -> {"none", "sent", "seen"}]
  /\ request \in [Callers -> Apis \X Bodies \X BOOLEAN]
  /\ applied \subseteq reached /\ reached \subseteq Metadata

\* The types of the tasks' variables.
TaskTypes ==
  /\ awaited \in BOOLEAN /\ asked \in BOOLEAN /\ acked \in BOOLEAN /\ enabled \in BOOLEAN
  /\ ended \in BOOLEAN
  /\ loop \in {"notStarted", "marking", "receiving", "handling", "calling",
               "finished", "failed"}
  /\ health \in {"testing", "enabled", "asking", "sleeping", "ended"}
  /\ packet \in Packets \cup {<<"none", "{}">>}

\* A body that is missing was missed by a packet's request.
CountInv ==
  /\ received \in 0..MaxPackets
  /\ loop = "handling" => received > 0
  /\ \A b \in Bodies : missed[b] > 0 => received > 0

\* A request is what is asked, its body, and whether the body is there.
LEMMA RequestType ==
  ASSUME NEW api \in Apis, NEW body \in Bodies, NEW there \in BOOLEAN
  PROVE  <<api, body, there>> \in Apis \X Bodies \X BOOLEAN
  OBVIOUS

\* A request is well typed.
LEMMA SendTyped ==
  ASSUME SdkTypes, NEW c \in Callers, NEW api \in Apis, NEW body \in Bodies,
         SendRequest(c, api, body)
  PROVE  SdkTypes'
<1>1. /\ wire' = [wire EXCEPT ![c] = "sent"] /\ cache' = cache \cup {body}
      /\ UNCHANGED <<reached, applied>>
  BY Zenon DEF SendRequest
<1>2. request' \in [Callers -> Apis \X Bodies \X BOOLEAN]
  <2>1. request' = [request EXCEPT ![c] = <<api, body, body \in cache>>]
    BY Zenon DEF SendRequest
  <2>2. <<api, body, body \in cache>> \in Apis \X Bodies \X BOOLEAN
    <3>1. (body \in cache) \in BOOLEAN
      OBVIOUS
    <3>2. QED
      BY <3>1, RequestType, Zenon
  <2>3. request \in [Callers -> Apis \X Bodies \X BOOLEAN]
    BY Zenon DEF SdkTypes
  <2>4. QED
    BY <2>1, <2>2, <2>3, Zenon
<1>3. wire' \in [Callers -> {"none", "sent", "seen"}] /\ cache' \subseteq Bodies /\ "{}" \in cache'
  BY <1>1 DEF SdkTypes
<1>4. applied' \subseteq reached' /\ reached' \subseteq Metadata
  BY <1>1 DEF SdkTypes
<1>5. QED
  BY <1>2, <1>3, <1>4, Zenon DEF SdkTypes

\* An answer leaves the SDK's other variables alone.
LEMMA ReturnTyped == ASSUME SdkTypes, NEW c \in Callers, Returns(c) PROVE SdkTypes'
<1>1. wire' = [wire EXCEPT ![c] = "none"] /\ UNCHANGED <<cache, request, missed, reached, applied>>
  BY DEF Returns
<1>2. wire' \in [Callers -> {"none", "sent", "seen"}]
  BY <1>1 DEF SdkTypes
<1>3. QED
  BY <1>1, <1>2, Zenon DEF SdkTypes

\* The sidecar applies only what reaches it.
LEMMA SeenTyped == ASSUME SdkTypes, NEW c \in Callers, SidecarSees(c) PROVE SdkTypes'
<1> DEFINE call == {<<request[c][1], request[c][2]>>} \cap Metadata
<1>1. /\ wire' = [wire EXCEPT ![c] = "seen"] /\ UNCHANGED <<cache, request>>
      /\ reached' = reached \cup call
      /\ applied' = applied \cup call \/ applied' = applied
  <2>1. applied' = applied \cup (IF request[c][3] THEN call ELSE {})
    BY Zenon DEF SidecarSees
  <2>2. QED
    BY <2>1 DEF SidecarSees
<1>2. call \subseteq Metadata
  OBVIOUS
<1> HIDE DEF call
<1>3. wire' \in [Callers -> {"none", "sent", "seen"}]
  BY <1>1 DEF SdkTypes
<1>4. applied' \subseteq reached' /\ reached' \subseteq Metadata
  BY <1>1, <1>2 DEF SdkTypes
<1>5. QED
  BY <1>1, <1>3, <1>4, Zenon DEF SdkTypes

\* The callers and the paths of the calls that are made without a packet.
LEMMA Calls ==
  /\ "loop" \in Callers /\ "health" \in Callers /\ "{}" \in Bodies
  /\ "ready" \in Apis /\ "shutdown" \in Apis /\ "health" \in Apis
  BY DEF Callers, Bodies, Apis

\* The SDK's variables are touched by requests, answers and the sidecar alone.
LEMMA StepSdkTypes == SdkTypes /\ CacheRemembers /\ [Next]_vars => SdkTypes'
<1> SUFFICES ASSUME SdkTypes, CacheRemembers, [Next]_vars PROVE SdkTypes'
  OBVIOUS
<1>1. CASE Start
  BY <1>1, Calls, SendTyped DEF Start
<1>2. CASE HandleExit
  BY <1>2, Calls, SendTyped DEF HandleExit
<1>3. CASE HandleCall
  <2>1. packet[1] \in Apis /\ packet[2] \in Bodies
    BY <1>3 DEF HandleCall, Handling, Apis, CacheRemembers
  <2>2. QED
    BY <1>3, <2>1, Calls, SendTyped DEF HandleCall
<1>4. CASE Ping
  BY <1>4, Calls, SendTyped DEF Ping
<1>5. CASE ReadyReturns \/ CallReturns \/ PingReturns
  BY <1>5, Calls, ReturnTyped DEF ReadyReturns, CallReturns, PingReturns
<1>6. CASE \E c \in Callers : SidecarSees(c)
  BY <1>6, SeenTyped
<1>7. CASE UNCHANGED sdkVars
  BY <1>7, Zenon DEF SdkTypes, sdkVars
<1>8. QED
  BY <1>1, <1>2, <1>3, <1>4, <1>5, <1>6, <1>7
  DEF Next, LoopStep, HealthStep, HandleUnhealthy, HandleEcho, HandleThrow, TestEnabled, Wake,
      Receive, SocketFails, End, vars, sdkVars

\* Each flag is kept, set or cleared.
LEMMA StepTaskTypes == TaskTypes /\ [Next]_vars => TaskTypes'
<1> SUFFICES ASSUME TaskTypes, [Next]_vars PROVE TaskTypes'
  OBVIOUS
<1>1. awaited' = awaited
  BY Zenon DEF Next, LoopStep, HealthStep, Start, ReadyReturns, HandleExit, HandleUnhealthy,
     HandleCall, HandleEcho, HandleThrow, CallReturns, TestEnabled, Ping, PingReturns, Wake,
     Receive, SocketFails, End, SidecarSees, vars, loopVars
<1>2. asked' = asked \/ asked' = TRUE
  BY Zenon DEF Next, LoopStep, HealthStep, Start, ReadyReturns, HandleExit, HandleUnhealthy,
     HandleCall, HandleEcho, HandleThrow, CallReturns, TestEnabled, Ping, PingReturns, Wake,
     Receive, SocketFails, End, SidecarSees, vars, loopVars
<1>3. acked' = acked \/ acked' = TRUE
  BY DEF Next, LoopStep, HealthStep, Start, ReadyReturns, HandleExit, HandleUnhealthy,
     HandleCall, HandleEcho, HandleThrow, CallReturns, TestEnabled, Ping, PingReturns, Wake,
     Receive, SocketFails, End, SidecarSees, vars, loopVars
<1>4. enabled' = enabled \/ enabled' = FALSE
  BY Zenon DEF Next, LoopStep, HealthStep, Start, ReadyReturns, HandleExit, HandleUnhealthy,
     HandleCall, HandleEcho, HandleThrow, CallReturns, TestEnabled, Ping, PingReturns, Wake,
     Receive, SocketFails, End, SidecarSees, vars, loopVars
<1>5. ended' = ended \/ ended' = TRUE
  BY Zenon DEF Next, LoopStep, HealthStep, Start, ReadyReturns, HandleExit, HandleUnhealthy,
     HandleCall, HandleEcho, HandleThrow, CallReturns, TestEnabled, Ping, PingReturns, Wake,
     Receive, SocketFails, End, SidecarSees, vars
<1>6. /\ awaited' \in BOOLEAN /\ asked' \in BOOLEAN /\ acked' \in BOOLEAN
      /\ enabled' \in BOOLEAN /\ ended' \in BOOLEAN
  BY <1>1, <1>2, <1>3, <1>4, <1>5, Zenon DEF TaskTypes
<1>7. packet' = packet \/ packet' \in Packets
  BY Zenon DEF Next, LoopStep, HealthStep, Start, ReadyReturns, HandleExit, HandleUnhealthy,
     HandleCall, HandleEcho, HandleThrow, CallReturns, TestEnabled, Ping, PingReturns, Wake,
     Receive, SocketFails, End, SidecarSees, vars, loopVars
<1>8. loop' = loop \/ loop' \in {"marking", "receiving", "handling", "calling", "finished", "failed"}
  BY DEF Next, LoopStep, HealthStep, Start, ReadyReturns, HandleExit, HandleUnhealthy,
     HandleCall, HandleEcho, HandleThrow, CallReturns, TestEnabled, Ping, PingReturns, Wake,
     Receive, SocketFails, End, SidecarSees, vars, loopVars
<1>9. health' = health \/ health' \in {"testing", "enabled", "asking", "sleeping", "ended"}
  BY DEF Next, LoopStep, HealthStep, Start, ReadyReturns, HandleExit, HandleUnhealthy,
     HandleCall, HandleEcho, HandleThrow, CallReturns, TestEnabled, Ping, PingReturns, Wake,
     Receive, SocketFails, End, SidecarSees, vars, pingVars
<1>10. /\ packet' \in Packets \cup {<<"none", "{}">>}
       /\ loop' \in {"notStarted", "marking", "receiving", "handling", "calling",
                     "finished", "failed"}
       /\ health' \in {"testing", "enabled", "asking", "sleeping", "ended"}
  BY <1>7, <1>8, <1>9 DEF TaskTypes
<1>11. QED
  BY <1>6, <1>10, Zenon DEF TaskTypes

\* A request with "{}" finds it in the cache.
LEMMA CachedKeeps ==
  ASSUME SdkTypes, NEW c, NEW api, SendRequest(c, api, "{}") PROVE missed' = missed
  BY Zenon DEF SdkTypes, SendRequest

\* Only a packet's request may miss its body.
LEMMA StepCountInv == CountInv /\ CacheRemembers /\ SdkTypes /\ [Next]_vars => CountInv'
<1> SUFFICES ASSUME CountInv, CacheRemembers, SdkTypes, [Next]_vars PROVE CountInv'
  OBVIOUS
<1>0. MaxPackets \in Nat
  BY ConstantsAssumption
<1>1. CASE Start \/ HandleExit \/ Ping
  <2>1. missed' = missed
    BY <1>1, CachedKeeps DEF Start, HandleExit, Ping
  <2>2. received' = received /\ (loop' = loop \/ loop' \in {"marking", "calling"})
    BY <1>1 DEF Start, HandleExit, Ping, loopVars
  <2>3. QED
    BY <2>1, <2>2 DEF CountInv
<1>2. CASE HandleCall
  <2>1. received' = received /\ received > 0 /\ loop' = "calling"
    BY <1>2 DEF HandleCall, Handling, CountInv
  <2>2. QED
    BY <2>1 DEF CountInv
<1>3. CASE Receive
  BY <1>0, <1>3 DEF Receive, CountInv, sdkVars
<1>4. CASE ReadyReturns \/ CallReturns \/ HandleUnhealthy \/ HandleEcho \/ HandleThrow \/ SocketFails
  <2>1. UNCHANGED <<received, missed>>
    BY <1>4 DEF ReadyReturns, CallReturns, HandleUnhealthy, HandleEcho, HandleThrow, SocketFails,
       Returns, sdkVars
  <2>2. loop' # "handling"
    BY <1>4 DEF ReadyReturns, CallReturns, HandleUnhealthy, HandleEcho, HandleThrow, SocketFails
  <2>3. QED
    BY <2>1, <2>2 DEF CountInv
<1>5. CASE TestEnabled \/ PingReturns \/ Wake \/ End \/ (\E c \in Callers : SidecarSees(c)) \/ UNCHANGED vars
  <2>1. UNCHANGED <<received, missed, loop>>
    BY <1>5 DEF TestEnabled, PingReturns, Wake, End, SidecarSees, Returns, loopVars, sdkVars, vars
  <2>2. QED
    BY <2>1 DEF CountInv
<1>6. QED
  BY <1>1, <1>2, <1>3, <1>4, <1>5 DEF Next, LoopStep, HealthStep

\* The types hold at the start.
LEMMA InitTypes == Init => SdkTypes /\ TaskTypes /\ CountInv
<1> SUFFICES ASSUME Init PROVE SdkTypes /\ TaskTypes /\ CountInv
  OBVIOUS
<1>1. TaskTypes
  BY Zenon DEF Init, TaskTypes
<1>2. request \in [Callers -> Apis \X Bodies \X BOOLEAN]
  <2>1. <<"none", "{}", FALSE>> \in Apis \X Bodies \X BOOLEAN
    <3>1. "none" \in Apis /\ "{}" \in Bodies
      BY DEF Apis, Bodies
    <3>2. QED
      BY <3>1, RequestType, Zenon
  <2>2. QED
    BY <2>1, Zenon DEF Init
<1>3. /\ cache \subseteq Bodies /\ "{}" \in cache
      /\ wire \in [Callers -> {"none", "sent", "seen"}]
      /\ applied \subseteq reached /\ reached \subseteq Metadata
  BY DEF Init, Bodies
<1>4. CountInv
  <2>1. /\ received = 0 /\ loop = "notStarted" /\ missed = [b \in Bodies |-> 0]
    BY Zenon DEF Init
  <2>2. received \in 0..MaxPackets
    <3>1. MaxPackets \in Nat
      BY ConstantsAssumption
    <3>2. QED
      BY <2>1, <3>1
  <2>3. \A b \in Bodies : missed[b] = 0
    BY <2>1
  <2>4. QED
    BY <2>1, <2>2, <2>3 DEF CountInv
<1>5. QED
  BY <1>1, <1>2, <1>3, <1>4, Zenon DEF SdkTypes

\* The state is well typed: what reaches the sidecar is metadata a player sent,
\* and no more bodies are missed than packets were received.
THEOREM TypeCorrect == Spec => []TypeOK
<1>1. SdkTypes /\ TaskTypes /\ CountInv /\ CacheRemembers /\ PingCredit => TypeOK
  <2> SUFFICES ASSUME SdkTypes, TaskTypes, CountInv, CacheRemembers, PingCredit PROVE TypeOK
    OBVIOUS
  <2>1. missed \in [Bodies -> 0..MaxPackets]
    <3>1. MaxPackets \in Nat
      BY ConstantsAssumption
    <3>2. missed \in [Bodies -> Nat] /\ \A b \in Bodies : missed[b] <= MaxPackets
      BY <3>1 DEF CacheRemembers, CountInv
    <3>3. QED
      BY <3>1, <3>2
  <2>2. received \in 0..MaxPackets /\ late \in Nat
    BY DEF CountInv, PingCredit
  <2>3. QED
    BY <2>1, <2>2, Zenon DEF TypeOK, SdkTypes, TaskTypes, Apis
<1>2. QED
  BY <1>1, InitTypes, InitInv, StepSdkTypes, StepTaskTypes, StepCountInv, StepCacheRemembers,
     StepPingCredit, PTL DEF Spec

-----------------------------------------------------------------------------
\* Shutdown is called for the EXIT in hand, after which no packet is taken.
AskInv ==
  asked => loop \in {"finished", "failed"} \/ (loop = "calling" /\ packet[1] = "EXIT")

\* HandleExit is the only way there, and CallReturns ends the loop.
LEMMA StepAskInv == AskInv /\ [Next]_vars => AskInv'
<1> SUFFICES ASSUME AskInv, [Next]_vars PROVE AskInv'
  OBVIOUS
<1>1. CASE Start \/ ReadyReturns
  BY <1>1 DEF AskInv, Start, ReadyReturns
<1>2. CASE HandleExit
  BY <1>2 DEF AskInv, HandleExit, Handling
<1>3. CASE HandleUnhealthy \/ HandleCall \/ HandleEcho \/ HandleThrow \/ SocketFails
  BY <1>3 DEF AskInv, HandleUnhealthy, HandleCall, HandleEcho, HandleThrow, SocketFails, Handling
<1>4. CASE CallReturns
  BY <1>4 DEF AskInv, CallReturns
<1>5. CASE Receive
  BY <1>5 DEF AskInv, Receive
<1>6. CASE TestEnabled \/ Ping \/ PingReturns \/ Wake \/ End \/ (\E c \in Callers : SidecarSees(c))
           \/ UNCHANGED vars
  BY <1>6 DEF AskInv, TestEnabled, Ping, PingReturns, Wake, End, SidecarSees, loopVars, vars
<1> QED
  BY <1>1, <1>2, <1>3, <1>4, <1>5, <1>6 DEF Next, LoopStep, HealthStep

\* How GameServer sees the packet in hand.
LEMMA SeenPacket ==
  ASSUME NEW p \in Packets
  PROVE  (IF p[1] \in {"EXIT", "UNHEALTHY", "none"} THEN p[1] ELSE "rest")
           \in {"EXIT", "UNHEALTHY", "rest"}
<1>1. CASE p \in Metadata
  BY <1>1 DEF Metadata
<1>2. CASE p \notin Metadata
  <2>1. PICK k \in {"EXIT", "UNHEALTHY", "GAMESERVER", "call", "malformed",
                    "reserveNothing", "CRASH", "other"} : p = <<k, "{}">>
    BY <1>2 DEF Packets
  <2>2. p[1] = k
    BY <2>1
  <2> QED
    BY <2>2
<1> QED
  BY <1>1, <1>2

\* What the two tasks do is a step of GameServer's or none it sees.
LEMMA StepContract ==
  TaskTypes /\ ExitOrder /\ AskInv /\ [Next]_vars => [Contract!Next]_(Contract!vars)
<1> SUFFICES ASSUME TaskTypes, ExitOrder, AskInv, [Next]_vars, ~ UNCHANGED Contract!vars
             PROVE  Contract!Next
  OBVIOUS
<1>1. CASE Start \/ ReadyReturns \/ HandleCall \/ HandleEcho \/ HandleThrow \/ SocketFails
  <2>1. UNCHANGED <<packet, received, asked, acked, enabled, pingVars, ended>>
    BY <1>1, Zenon DEF Start, ReadyReturns, HandleCall, HandleEcho, HandleThrow, SocketFails
  <2>2. UNCHANGED <<received, packet, asked, acked, ~enabled, health, ended>>
    BY <2>1, Zenon DEF pingVars
  <2> QED BY <2>2, Zenon DEF Contract!vars
<1>2. CASE Receive
  <2>1. ~asked /\ ~acked
    BY <1>2 DEF Receive, AskInv, ExitOrder
  <2>2. Contract!Take
    BY <1>2, <2>1, SeenPacket DEF Receive, pingVars, Contract!Take, Contract!Serving
  <2> QED BY <2>2 DEF Contract!Next
<1>3. CASE HandleExit
  <2>1. ~asked
    BY <1>3 DEF HandleExit, Handling, AskInv
  <2>2. Contract!Ask
    BY <1>3, <2>1 DEF HandleExit, Handling, pingVars, Contract!Ask
  <2> QED BY <2>2 DEF Contract!Next
<1>4. CASE HandleUnhealthy
  <2>1. ~asked /\ ~acked
    BY <1>4 DEF HandleUnhealthy, Handling, AskInv, ExitOrder
  <2>2. Contract!SwitchOff
    BY <1>4, <2>1 DEF HandleUnhealthy, Handling, pingVars, Contract!SwitchOff, Contract!Serving
  <2> QED BY <2>2 DEF Contract!Next
<1>5. CASE CallReturns
  <2>1. CASE packet[1] = "EXIT"
    <3>1. ~acked /\ asked
      BY <1>5, <2>1 DEF CallReturns, ExitOrder
    <3>2. CASE acked' = TRUE
      <4>1. Contract!Tell
        BY <1>5, <2>1, <3>1, <3>2 DEF CallReturns, pingVars, Contract!Tell
      <4> QED BY <4>1 DEF Contract!Next
    <3>3. CASE acked' = acked
      BY <1>5, <3>3 DEF CallReturns, pingVars, Contract!vars
    <3> QED BY <1>5, <2>1, <3>2, <3>3 DEF CallReturns
  <2>2. CASE packet[1] # "EXIT"
    BY <1>5, <2>2 DEF CallReturns, pingVars, Contract!vars
  <2> QED BY <2>1, <2>2
<1>6. CASE TestEnabled
  <2>1. CASE enabled
    BY <1>6, <2>1 DEF TestEnabled, loopVars, Contract!vars
  <2>2. CASE ~enabled
    <3>1. Contract!StopPings
      BY <1>6, <2>2 DEF TestEnabled, loopVars, Contract!StopPings
    <3> QED BY <3>1 DEF Contract!Next
  <2> QED BY <2>1, <2>2
<1>7. CASE Ping
  <2>1. Contract!BeginPing
    BY <1>7 DEF Ping, loopVars, Contract!BeginPing
  <2> QED BY <2>1 DEF Contract!Next
<1>8. CASE PingReturns
  <2>1. Contract!EndPing
    BY <1>8 DEF PingReturns, loopVars, Contract!EndPing
  <2> QED BY <2>1 DEF Contract!Next
<1>9. CASE Wake \/ (\E c \in Callers : SidecarSees(c)) \/ UNCHANGED vars
  BY <1>9 DEF Wake, SidecarSees, loopVars, pingVars, vars, Contract!vars
<1>10. CASE End
  <2>1. Contract!End
    BY <1>10 DEF End, loopVars, pingVars, Contract!End
  <2> QED BY <2>1 DEF Contract!Next
<1> QED
  BY <1>1, <1>2, <1>3, <1>4, <1>5, <1>6, <1>7, <1>8, <1>9, <1>10 DEF Next, LoopStep, HealthStep

\* The C# server implements GameServer, for any values and any number of packets.
THEOREM KeepsContract == Spec => IsGameServer
<1>1. Init => Contract!Init /\ AskInv
  <2> SUFFICES ASSUME Init PROVE Contract!Init /\ AskInv
    OBVIOUS
  <2>1. ~asked /\ ~acked /\ enabled /\ ~ended
    BY Zenon DEF Init
  <2>2. packet[1] = "none" /\ received = 0 /\ health = "testing"
    BY DEF Init
  <2> QED
    BY <2>1, <2>2 DEF Contract!Init, AskInv
<1>2. Init => TaskTypes /\ ExitOrder
  BY InitTypes, InitInv
<1> QED
  BY <1>1, <1>2, StepContract, StepAskInv, StepTaskTypes, StepExitOrder, PTL
  DEF Spec, IsGameServer, Contract!Spec
=============================================================================
