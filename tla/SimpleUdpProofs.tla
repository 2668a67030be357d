--------------------------- MODULE SimpleUdpProofs ---------------------------
(***************************************************************************)
(* Proofs about SimpleUdp, for any number of packets and any window: the    *)
(* answer to an EXIT precedes its consequences and is the last one, and     *)
(* pings after UNHEALTHY do not outrun the ticker.                          *)
(***************************************************************************)
EXTENDS SimpleUdp, TLAPS

\* After the answer to an EXIT the main goroutine is inside exit.
InExit ==
  /\ told <=> main \in {"exiting", "exitingAsked"}
  /\ told => packet = "EXIT"
  /\ shutdown => main = "exitingAsked"
  /\ ended = "exit" => main = "exitingAsked"

\* A buffered tick is a ping that may still come.
PingCredit ==
  /\ late \in Nat /\ ticks \in Nat
  /\ ~stop => late = 0 /\ ticks = 0
  /\ late <= ticks + 1
  /\ tick => late <= ticks

IInv == InExit /\ PingCredit

-----------------------------------------------------------------------------
\* The invariant holds at the start.
LEMMA InitIInv == Init => IInv
  BY DEF Init, IInv, InExit, PingCredit

\* What the packet loop does of the ping's variables: it may close the channel.
LEMMA LoopKeepsCredit ==
  ASSUME PingCredit, UNCHANGED pingVars, stop' = stop \/ stop' = TRUE
  PROVE  PingCredit'
  BY DEF PingCredit, pingVars

\* What the pings do of main's variables: nothing.
LEMMA PingsKeepExit ==
  ASSUME InExit, UNCHANGED loopVars, ended' = ended \/ ended' # "exit"
  PROVE  InExit'
  BY DEF InExit, loopVars

\* Every step keeps it: the loop touches the pings only by closing the channel.
LEMMA StepIInv == IInv /\ [Next]_vars => IInv'
<1> SUFFICES ASSUME InExit, PingCredit, [Next]_vars PROVE InExit' /\ PingCredit'
  BY DEF IInv
<1>1. CASE Connect
  <2>1. InExit'
    BY <1>1 DEF InExit, Connect, Running
  <2>2. PingCredit'
    BY <1>1 DEF PingCredit, Connect
  <2> QED BY <2>1, <2>2
<1>2. CASE StartUp
  <2>1. InExit'
    BY <1>2 DEF InExit, StartUp, Running
  <2>2. PingCredit'
    BY <1>2, LoopKeepsCredit DEF StartUp
  <2> QED BY <2>1, <2>2
<1>3. CASE readPacket
  <2>1. InExit'
    BY <1>3 DEF InExit, readPacket, Running
  <2>2. PingCredit'
    BY <1>3, LoopKeepsCredit DEF readPacket
  <2> QED BY <2>1, <2>2
<1>4. CASE HandleExit
  <2>1. InExit'
    BY <1>4 DEF InExit, HandleExit, Running, Handling
  <2>2. PingCredit'
    BY <1>4, LoopKeepsCredit DEF HandleExit
  <2> QED BY <2>1, <2>2
<1>5. CASE HandleUnhealthy
  <2>1. InExit'
    BY <1>5 DEF InExit, HandleUnhealthy, Running, Handling, End, loopVars
  <2>2. PingCredit'
    BY <1>5, LoopKeepsCredit DEF HandleUnhealthy, End, loopVars
  <2> QED BY <2>1, <2>2
<1>6. CASE HandleGameServer
  <2>1. InExit'
    BY <1>6 DEF InExit, HandleGameServer, Running, Handling
  <2>2. PingCredit'
    BY <1>6, LoopKeepsCredit DEF HandleGameServer
  <2> QED BY <2>1, <2>2
<1>7. CASE HandleQuietly
  <2>1. InExit'
    BY <1>7 DEF InExit, HandleQuietly, Running, Handling
  <2>2. PingCredit'
    BY <1>7, LoopKeepsCredit DEF HandleQuietly
  <2> QED BY <2>1, <2>2
<1>8. CASE HandleMalformed
  <2>1. InExit'
    BY <1>8 DEF InExit, HandleMalformed, Running, Handling
  <2>2. PingCredit'
    BY <1>8, LoopKeepsCredit DEF HandleMalformed
  <2> QED BY <2>1, <2>2
<1>9. CASE HandleCrash
  <2>1. InExit'
    BY <1>9 DEF InExit, HandleCrash, Running, Handling, End, loopVars
  <2>2. PingCredit'
    BY <1>9, LoopKeepsCredit DEF HandleCrash, End, loopVars
  <2> QED BY <2>1, <2>2
<1>10. CASE respond
  <2>1. InExit'
    BY <1>10 DEF InExit, respond, Running
  <2>2. PingCredit'
    BY <1>10, LoopKeepsCredit DEF respond
  <2> QED BY <2>1, <2>2
<1>11. CASE Shutdown
  <2>1. InExit'
    BY <1>11 DEF InExit, Shutdown, Running
  <2>2. PingCredit'
    BY <1>11, LoopKeepsCredit DEF Shutdown
  <2> QED BY <2>1, <2>2
<1>12. CASE exit
  <2>1. InExit'
    BY <1>12 DEF InExit, exit, Running, End, loopVars
  <2>2. PingCredit'
    BY <1>12, LoopKeepsCredit DEF exit, End, loopVars
  <2> QED BY <2>1, <2>2
<1>13. CASE MainFails
  <2>1. UNCHANGED <<loopVars, pingVars>> /\ ended' # "exit"
    BY <1>13 DEF MainFails, End
  <2> QED BY <2>1, LoopKeepsCredit, PingsKeepExit DEF loopVars
<1>14. CASE Signal
  <2>1. UNCHANGED <<loopVars, pingVars>> /\ ended' # "exit"
    BY <1>14 DEF Signal, End
  <2> QED BY <2>1, LoopKeepsCredit, PingsKeepExit DEF loopVars
<1>15. CASE PingFails
  <2>1. UNCHANGED <<loopVars, pingVars>> /\ ended' # "exit"
    BY <1>15 DEF PingFails, End
  <2> QED BY <2>1, LoopKeepsCredit, PingsKeepExit DEF loopVars
<1>16. CASE Pinged
  <2>1. InExit'
    BY <1>16, PingsKeepExit DEF Pinged
  <2>2. PingCredit'
    BY <1>16 DEF PingCredit, Pinged, loopVars
  <2> QED BY <2>1, <2>2
<1>17. CASE SelectStop
  <2>1. InExit'
    BY <1>17, PingsKeepExit DEF SelectStop
  <2>2. PingCredit'
    BY <1>17 DEF PingCredit, SelectStop, loopVars
  <2> QED BY <2>1, <2>2
<1>18. CASE SelectTick
  <2>1. InExit'
    BY <1>18, PingsKeepExit DEF SelectTick
  <2>2. PingCredit'
    BY <1>18 DEF PingCredit, SelectTick, loopVars
  <2> QED BY <2>1, <2>2
<1>19. CASE Tick
  <2>1. InExit'
    BY <1>19, PingsKeepExit DEF Tick
  <2>2. PingCredit'
    BY <1>19 DEF PingCredit, Tick, loopVars
  <2> QED BY <2>1, <2>2
<1>20. CASE UNCHANGED vars
  BY <1>20 DEF InExit, PingCredit, vars
<1> QED
  BY <1>1, <1>2, <1>3, <1>4, <1>5, <1>6, <1>7, <1>8, <1>9, <1>10,
     <1>11, <1>12, <1>13, <1>14, <1>15, <1>16, <1>17, <1>18, <1>19, <1>20
  DEF Next, MainStep

\* The strengthened invariant holds in every reachable state.
THEOREM Inductive == Spec => []IInv
  BY InitIInv, StepIInv, PTL DEF Spec

\* "respond here, as we os.Exit() before we get to below" (main.go:107): the
\* sender of an EXIT has its answer before the sidecar or anybody else learns.
THEOREM ExitAnnounced == Spec => []ExitIsAnnounced
<1>1. IInv => ExitIsAnnounced
  BY DEF IInv, InExit, ExitIsAnnounced
<1> QED
  BY <1>1, Inductive, PTL

\* Once an EXIT is answered no other packet is, whatever becomes of Shutdown.
ExitIsFinal == [][told => UNCHANGED <<received, answers>>]_vars

\* An EXIT is the last packet that is read and answered.
THEOREM ExitFinal == Spec => ExitIsFinal
<1>1. IInv /\ [Next]_vars => [told => UNCHANGED <<received, answers>>]_vars
  <2> SUFFICES ASSUME InExit, Next, told PROVE UNCHANGED <<received, answers>>
    BY DEF IInv, vars
  <2>1. main \in {"exiting", "exitingAsked"}
    BY DEF InExit
  <2> QED
    BY <2>1 DEF Next, MainStep, Connect, StartUp, readPacket, HandleExit, HandleUnhealthy,
                HandleGameServer, HandleQuietly, HandleMalformed, HandleCrash, respond,
                Shutdown, exit, Handling, MainFails, Signal, PingFails, Pinged,
                SelectStop, SelectTick, Tick, End, loopVars
<1> QED
  BY <1>1, Inductive, PTL DEF Spec, ExitIsFinal

\* After UNHEALTHY a ping still needs a tick: select may overlook the closed
\* channel any number of times, but pings never outrun the ticker.
THEOREM PingsKeepPace == Spec => []LatePingsNeedTicks
<1>1. IInv => LatePingsNeedTicks
  BY DEF IInv, PingCredit, LatePingsNeedTicks
<1> QED
  BY <1>1, Inductive, PTL

-----------------------------------------------------------------------------
\* How many answers the packet in hand has had, at each point of the loop.
AnswerInv ==
  /\ main \in {"connecting", "asking", "listening", "marking"} => received = 0
  /\ main = "handling" => answers = 0
  /\ main = "replying" => answers = IF packet = "GAMESERVER" THEN 1 ELSE 0
  /\ main = "receiving" /\ received > 0 => answers = IF packet = "GAMESERVER" THEN 2 ELSE 1

\* The types, and the answers with them, hold at the start.
LEMMA InitAnswers == Init => TypeOK /\ AnswerInv
<1> SUFFICES ASSUME Init PROVE TypeOK /\ AnswerInv
  OBVIOUS
<1>1. told \in BOOLEAN /\ shutdown \in BOOLEAN /\ stop \in BOOLEAN /\ tick \in BOOLEAN
  BY Zenon DEF Init
<1>2. QED
  BY <1>1, BoundsAssumption DEF Init, TypeOK, AnswerInv

\* The flags stay Boolean, whatever the step.
LEMMA StepFlags ==
  ASSUME TypeOK, [Next]_vars
  PROVE  told' \in BOOLEAN /\ shutdown' \in BOOLEAN /\ stop' \in BOOLEAN /\ tick' \in BOOLEAN
<1>1. told \in BOOLEAN /\ shutdown \in BOOLEAN /\ stop \in BOOLEAN /\ tick \in BOOLEAN
  BY Zenon DEF TypeOK
<1>2. told' = told \/ told' = TRUE
  BY Zenon DEF Next, MainStep, Connect, StartUp, readPacket, HandleExit, HandleUnhealthy,
     HandleGameServer, HandleQuietly, HandleMalformed, HandleCrash, respond, Shutdown, exit,
     MainFails, Signal, PingFails, Pinged, SelectStop, SelectTick, Tick, End, loopVars, vars
<1>3. shutdown' = shutdown \/ shutdown' \in BOOLEAN
  BY Zenon DEF Next, MainStep, Connect, StartUp, readPacket, HandleExit, HandleUnhealthy,
     HandleGameServer, HandleQuietly, HandleMalformed, HandleCrash, respond, Shutdown, exit,
     MainFails, Signal, PingFails, Pinged, SelectStop, SelectTick, Tick, End, loopVars, vars
<1>4. stop' = stop \/ stop' = TRUE
  BY Zenon DEF Next, MainStep, Connect, StartUp, readPacket, HandleExit, HandleUnhealthy,
     HandleGameServer, HandleQuietly, HandleMalformed, HandleCrash, respond, Shutdown, exit,
     MainFails, Signal, PingFails, Pinged, SelectStop, SelectTick, Tick, End, loopVars, vars
<1>5. tick' = tick \/ tick' = TRUE \/ tick' = FALSE
  BY Zenon DEF Next, MainStep, Connect, StartUp, readPacket, HandleExit, HandleUnhealthy,
     HandleGameServer, HandleQuietly, HandleMalformed, HandleCrash, respond, Shutdown, exit,
     MainFails, Signal, PingFails, Pinged, SelectStop, SelectTick, Tick, End, loopVars, pingVars, vars
<1>6. QED
  BY <1>1, <1>2, <1>3, <1>4, <1>5, Zenon

\* Types other than the flags, and the answers: one step per kind of action.
LEMMA StepAnswers == TypeOK /\ AnswerInv /\ [Next]_vars => TypeOK' /\ AnswerInv'
<1> SUFFICES ASSUME TypeOK, AnswerInv, [Next]_vars PROVE TypeOK' /\ AnswerInv'
  OBVIOUS
<1> USE BoundsAssumption DEF TypeOK, AnswerInv, loopVars, pingVars
<1>1. told' \in BOOLEAN /\ shutdown' \in BOOLEAN /\ stop' \in BOOLEAN /\ tick' \in BOOLEAN
  BY StepFlags
<1>2. CASE Connect \/ StartUp
  BY <1>1, <1>2 DEF Connect, StartUp
<1>3. CASE readPacket
  BY <1>1, <1>3 DEF readPacket, Count
<1>4. CASE HandleExit \/ HandleGameServer \/ HandleQuietly \/ HandleMalformed
  BY <1>1, <1>4 DEF HandleExit, HandleGameServer, HandleQuietly, HandleMalformed, Handling
<1>5. CASE HandleUnhealthy
  BY <1>1, <1>5 DEF HandleUnhealthy, Handling, End
<1>6. CASE respond \/ Shutdown
  BY <1>1, <1>6 DEF respond, Shutdown
<1>7. CASE HandleCrash \/ exit \/ MainFails \/ Signal \/ PingFails
  BY <1>1, <1>7 DEF HandleCrash, exit, MainFails, Signal, PingFails, End
<1>8. CASE Pinged \/ SelectStop \/ SelectTick
  BY <1>1, <1>8 DEF Pinged, SelectStop, SelectTick
<1>9. CASE Tick
  BY <1>1, <1>9 DEF Tick
<1>10. CASE UNCHANGED vars
  BY <1>10 DEF vars
<1>11. QED
  BY <1>2, <1>3, <1>4, <1>5, <1>6, <1>7, <1>8, <1>9, <1>10 DEF Next, MainStep

\* The state is well typed: no packet gets a third answer.
THEOREM TypeCorrect == Spec => []TypeOK
  BY InitAnswers, StepAnswers, PTL DEF Spec

\* Each command's continue or fall-through to the common ACK answers it as often
\* as it should be, whatever commands came before.
THEOREM AnsweredOnce == Spec => []EveryPacketAnswered
<1>1. AnswerInv => EveryPacketAnswered
  BY DEF AnswerInv, EveryPacketAnswered
<1>2. QED
  BY <1>1, InitAnswers, StepAnswers, PTL DEF Spec

-----------------------------------------------------------------------------
\* How GameServer sees the packet in hand.
LEMMA SeenPacket ==
  ASSUME NEW p \in Packets
  PROVE  (IF p \in {"EXIT", "UNHEALTHY", "none"} THEN p ELSE "rest")
           \in {"EXIT", "UNHEALTHY", "rest"}
  BY DEF Packets

\* The goroutine of the pings is started by main.
Starting == main = "connecting" => health = "notStarted"

\* Only Connect leaves that state, and nothing returns to it.
LEMMA StepStarting == Starting /\ [Next]_vars => Starting'
  BY DEF Starting, Next, MainStep, Connect, StartUp, readPacket, HandleExit, HandleUnhealthy,
     HandleGameServer, HandleQuietly, HandleMalformed, HandleCrash, respond, Shutdown, exit,
     Handling, MainFails, Signal, PingFails, Pinged, SelectStop, SelectTick, Tick, End,
     loopVars, pingVars, vars

\* Every step is one of GameServer's or none it sees: the closed channel is what
\* stops the pings, and exit never returns.
LEMMA StepContract ==
  TypeOK /\ InExit /\ Starting /\ [Next]_vars => [Contract!Next]_(Contract!vars)
<1> SUFFICES ASSUME TypeOK, InExit, Starting, [Next]_vars, ~ UNCHANGED Contract!vars
             PROVE  Contract!Next
  OBVIOUS
<1>1. CASE Connect
  <2>1. Contract!BeginPing
    BY <1>1 DEF Connect, Starting, Running, Contract!BeginPing
  <2> QED BY <2>1 DEF Contract!Next
<1>2. CASE StartUp
  BY <1>2 DEF StartUp, pingVars, Contract!vars
<1>3. CASE readPacket
  <2>1. ~told /\ ~shutdown
    BY <1>3 DEF readPacket, InExit
  <2>2. Contract!Take
    BY <1>3, <2>1, SeenPacket DEF readPacket, Running, pingVars, Contract!Take, Contract!Serving
  <2> QED BY <2>2 DEF Contract!Next
<1>4. CASE HandleExit
  <2>1. ~told
    BY <1>4 DEF HandleExit, Handling, InExit
  <2>2. Contract!Tell
    BY <1>4, <2>1 DEF HandleExit, Handling, Running, pingVars, Contract!Tell
  <2> QED BY <2>2 DEF Contract!Next
<1>5. CASE HandleUnhealthy
  <2>1. ~told /\ ~shutdown
    BY <1>5 DEF HandleUnhealthy, Handling, InExit
  <2>2. CASE stop
    <3>1. Contract!End
      BY <1>5, <2>2 DEF HandleUnhealthy, Handling, Running, End, loopVars, pingVars, Contract!End
    <3> QED BY <3>1 DEF Contract!Next
  <2>3. CASE ~stop
    <3>1. Contract!SwitchOff
      BY <1>5, <2>1, <2>3 DEF HandleUnhealthy, Handling, Running, pingVars,
         Contract!SwitchOff, Contract!Serving
    <3> QED BY <3>1 DEF Contract!Next
  <2> QED BY <2>2, <2>3
<1>6. CASE HandleGameServer \/ HandleQuietly \/ HandleMalformed \/ respond
  BY <1>6 DEF HandleGameServer, HandleQuietly, HandleMalformed, respond, pingVars, Contract!vars
<1>7. CASE Shutdown
  <2>1. packet = "EXIT" /\ told /\ ~shutdown
    BY <1>7 DEF Shutdown, InExit
  <2>2. shutdown' = TRUE
    <3>1. shutdown = FALSE /\ shutdown' \in BOOLEAN
      BY <1>7, <2>1, Zenon DEF Shutdown, TypeOK
    <3>2. shutdown' # shutdown
      BY <1>7, Zenon DEF Shutdown, pingVars, Contract!vars
    <3> QED BY <3>1, <3>2, Zenon
  <2>3. Contract!Ask
    BY <1>7, <2>1, <2>2 DEF Shutdown, Running, pingVars, Contract!Ask
  <2> QED BY <2>3 DEF Contract!Next
<1>8. CASE HandleCrash \/ exit \/ MainFails \/ PingFails \/ Signal
  <2>1. Contract!End
    BY <1>8 DEF HandleCrash, exit, MainFails, PingFails, Signal, Handling, Running, End,
       loopVars, pingVars, Contract!End
  <2> QED BY <2>1 DEF Contract!Next
<1>9. CASE Pinged
  <2>1. Contract!EndPing
    BY <1>9 DEF Pinged, Running, loopVars, Contract!EndPing
  <2> QED BY <2>1 DEF Contract!Next
<1>10. CASE SelectStop
  <2>1. Contract!StopPings
    BY <1>10 DEF SelectStop, Running, loopVars, Contract!StopPings
  <2> QED BY <2>1 DEF Contract!Next
<1>11. CASE SelectTick
  <2>1. Contract!BeginPing
    BY <1>11 DEF SelectTick, Running, loopVars, Contract!BeginPing
  <2> QED BY <2>1 DEF Contract!Next
<1>12. CASE Tick \/ UNCHANGED vars
  BY <1>12 DEF Tick, loopVars, vars, Contract!vars
<1> QED
  BY <1>1, <1>2, <1>3, <1>4, <1>5, <1>6, <1>7, <1>8, <1>9, <1>10, <1>11, <1>12
  DEF Next, MainStep

\* The Go server implements GameServer, for any number of packets.
THEOREM KeepsContract == Spec => IsGameServer
<1>1. Init => Contract!Init /\ Starting
  BY DEF Init, Contract!Init, Starting
<1>2. IInv => InExit
  BY DEF IInv
<1> QED
  BY <1>1, <1>2, StepContract, StepStarting, TypeCorrect, Inductive, PTL
  DEF Spec, IsGameServer, Contract!Spec

-----------------------------------------------------------------------------
\* The channel was closed for an UNHEALTHY, and not for the one in hand.
PanicInv ==
  /\ unhealthies \in Nat
  /\ main = "handling" /\ packet = "UNHEALTHY" => unhealthies >= IF stop THEN 2 ELSE 1
  /\ stop => unhealthies >= 1
  /\ ended = "panic" => unhealthies >= 2

\* Only HandleUnhealthy closes it, and moves on.
LEMMA StepPanicInv == PanicInv /\ [Next]_vars => PanicInv'
<1> SUFFICES ASSUME PanicInv, [Next]_vars PROVE PanicInv'
  OBVIOUS
<1> USE DEF PanicInv, Running, loopVars, pingVars
<1>1. CASE Connect \/ StartUp
  BY <1>1 DEF Connect, StartUp
<1>2. CASE readPacket
  BY <1>2 DEF readPacket, Count
<1>3. CASE HandleExit \/ HandleGameServer \/ HandleQuietly \/ HandleMalformed
  BY <1>3 DEF HandleExit, HandleGameServer, HandleQuietly, HandleMalformed, Handling
<1>4. CASE HandleUnhealthy
  BY <1>4 DEF HandleUnhealthy, Handling, End
<1>5. CASE respond \/ Shutdown
  BY <1>5 DEF respond, Shutdown
<1>6. CASE HandleCrash \/ exit \/ MainFails \/ Signal \/ PingFails
  BY <1>6 DEF HandleCrash, exit, MainFails, Signal, PingFails, End
<1>7. CASE Pinged \/ SelectStop \/ SelectTick \/ Tick
  BY <1>7 DEF Pinged, SelectStop, SelectTick, Tick
<1>8. CASE UNCHANGED vars
  BY <1>8 DEF vars
<1> QED
  BY <1>1, <1>2, <1>3, <1>4, <1>5, <1>6, <1>7, <1>8 DEF Next, MainStep

\* A single UNHEALTHY, whatever packets and signals come around it, never panics.
THEOREM OneUnhealthyIsSafe == Spec => []PanicNeedsTwo
<1>1. Init => PanicInv
  BY DEF Init, PanicInv
<1>2. PanicInv => PanicNeedsTwo
  BY DEF PanicInv, PanicNeedsTwo
<1> QED
  BY <1>1, <1>2, StepPanicInv, PTL DEF Spec
=============================================================================
