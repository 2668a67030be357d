------------------------------ MODULE SimpleUdp ------------------------------
(***************************************************************************)
(* The Go game server of agones/simple-udp: main and its packet loop, the   *)
(* goroutine that sends health pings, the one that waits for a signal, and  *)
(* the channel that an UNHEALTHY packet closes.  Players send any packets;  *)
(* UDP may lose, repeat and reorder them, so any packet may come next.      *)
(***************************************************************************)
EXTENDS Naturals

CONSTANTS MaxPackets,  \* bound: packets received
          Window       \* ticks in a window of observation

ASSUME BoundsAssumption == MaxPackets \in Nat /\ Window \in Nat

VARIABLES
  main,      \* where the main goroutine stands
  packet,    \* the packet being handled, or handled last
  received,  \* packets received
  unhealthies,  \* UNHEALTHY packets among them (observer)
  answers,   \* responses to that packet
  told,      \* the sender of an EXIT has its answer
  shutdown,  \* the sidecar was asked to shut the game server down
  stop,      \* the channel is closed
  health,    \* where the doHealth goroutine stands
  tick,      \* a tick is buffered in time.Tick's channel
  ticks,     \* ticks in this window, counted once the channel is closed (observer)
  late,      \* pings begun in this window, counted likewise (observer)
  ended      \* how the process ended

loopVars == <<main, packet, received, unhealthies, answers, told, shutdown, stop>>
pingVars == <<health, tick, ticks, late>>
vars == <<main, packet, received, unhealthies, answers, told, shutdown, stop,
          health, tick, ticks, late, ended>>

\* "sdk" stands for READY, ALLOCATE, RESERVE, WATCH and the well-formed LABEL
\* and ANNOTATION: each is one call of the SDK.
Packets == {"EXIT", "UNHEALTHY", "GAMESERVER", "sdk", "malformed", "CRASH", "other"}

\* The types.
TypeOK ==
  /\ main \in {"connecting", "asking", "listening", "marking", "receiving",
               "handling", "replying", "exiting", "exitingAsked"}
  /\ packet \in Packets \cup {"none"} /\ received \in 0..MaxPackets
  /\ unhealthies \in 0..received
  /\ answers \in 0..2 /\ told \in BOOLEAN /\ shutdown \in BOOLEAN /\ stop \in BOOLEAN
  /\ health \in {"notStarted", "pinging", "waiting", "stopped"}
  /\ tick \in BOOLEAN /\ ticks \in 0..Window /\ late \in Nat
  /\ ended \in {"no", "exit", "crash", "signal", "fatal", "panic"}

Init ==
  /\ main = "connecting" /\ packet = "none" /\ received = 0 /\ unhealthies = 0 /\ answers = 0
  /\ told = FALSE /\ shutdown = FALSE /\ stop = FALSE
  /\ health = "notStarted" /\ tick = FALSE /\ ticks = 0 /\ late = 0
  /\ ended = "no"

Running == ended = "no"

\* os.Exit, log.Fatalf or a panic ends every goroutine at once.
End(how) == ended' = how /\ UNCHANGED <<loopVars, pingVars>>

-----------------------------------------------------------------------------
(* main                                                                    *)

Connect ==
  /\ Running /\ main = "connecting"
  /\ health' = "pinging"
  /\ main' \in {"asking", "listening"}    \* the passthrough flag
  /\ UNCHANGED <<packet, received, unhealthies, answers, told, shutdown, stop, tick, ticks, late, ended>>

StartUp ==
  /\ Running
  /\ \/ main = "asking" /\ main' = "listening"
     \/ main = "listening" /\ main' \in {"marking", "receiving"}    \* the ready flag
     \/ main = "marking" /\ main' = "receiving"
  /\ UNCHANGED <<packet, received, unhealthies, answers, told, shutdown, stop, pingVars, ended>>

Count(p) == unhealthies' = IF p = "UNHEALTHY" THEN unhealthies + 1 ELSE unhealthies

\* MUTANT: the answers of the last packet are counted for the next.
readPacketKeepsAnswers ==
  /\ Running /\ main = "receiving" /\ received < MaxPackets
  /\ packet' \in Packets
  /\ received' = received + 1 /\ main' = "handling" /\ Count(packet')
  /\ UNCHANGED <<answers, told, shutdown, stop, pingVars, ended>>

readPacket ==
  /\ Running /\ main = "receiving" /\ received < MaxPackets
  /\ packet' \in Packets
  /\ received' = received + 1 /\ answers' = 0 /\ main' = "handling"
  /\ Count(packet')
  /\ UNCHANGED <<told, shutdown, stop, pingVars, ended>>

Handling(p) == Running /\ main = "handling" /\ packet = p

\* MUTANT: Shutdown is called before the sender has its answer.
HandleExitSilently ==
  /\ Handling("EXIT")
  /\ shutdown' = TRUE /\ main' = "exitingAsked"
  /\ UNCHANGED <<packet, received, unhealthies, answers, told, stop, pingVars, ended>>

HandleExit ==
  /\ Handling("EXIT")
  /\ answers' = answers + 1 /\ told' = TRUE /\ main' = "exiting"
  /\ UNCHANGED <<packet, received, unhealthies, shutdown, stop, pingVars, ended>>

\* Closing a closed channel panics.
HandleUnhealthy ==
  /\ Handling("UNHEALTHY")
  /\ IF stop
     THEN End("panic")
     ELSE /\ stop' = TRUE /\ main' = "replying"
          /\ UNCHANGED <<packet, received, unhealthies, answers, told, shutdown, pingVars, ended>>

HandleGameServer ==
  /\ Handling("GAMESERVER")
  /\ answers' = answers + 1 /\ main' = "replying"
  /\ UNCHANGED <<packet, received, unhealthies, told, shutdown, stop, pingVars, ended>>

HandleQuietly ==
  /\ Handling("sdk") \/ Handling("other")
  /\ main' = "replying"
  /\ UNCHANGED <<packet, received, unhealthies, answers, told, shutdown, stop, pingVars, ended>>

\* MUTANT: the error answer is followed by the ACK.
HandleMalformedTwice ==
  /\ Handling("malformed")
  /\ answers' = answers + 1 /\ main' = "replying"
  /\ UNCHANGED <<packet, received, unhealthies, told, shutdown, stop, pingVars, ended>>

HandleMalformed ==
  /\ Handling("malformed")
  /\ answers' = answers + 1 /\ main' = "receiving"
  /\ UNCHANGED <<packet, received, unhealthies, told, shutdown, stop, pingVars, ended>>

HandleCrash == Handling("CRASH") /\ End("crash")

respond ==
  /\ Running /\ main = "replying"
  /\ answers' = answers + 1 /\ main' = "receiving"
  /\ UNCHANGED <<packet, received, unhealthies, told, shutdown, stop, pingVars, ended>>

\* exit: the sidecar gets the request, or the call fails, which is only logged.
Shutdown ==
  /\ Running /\ main = "exiting"
  /\ shutdown' \in BOOLEAN /\ main' = "exitingAsked"
  /\ UNCHANGED <<packet, received, unhealthies, answers, told, stop, pingVars, ended>>

\* MUTANT: exit returns to the packet loop.
exitReturns ==
  /\ Running /\ main = "exitingAsked" /\ main' = "receiving"
  /\ UNCHANGED <<packet, received, unhealthies, answers, told, shutdown, stop, pingVars, ended>>

exit == Running /\ main = "exitingAsked" /\ End("exit")

\* A call of the SDK or of the socket returned an error.
MainFails ==
  /\ Running
  /\ \/ main \in {"connecting", "asking", "listening", "marking", "receiving", "replying"}
     \/ main = "handling" /\ packet \in {"EXIT", "GAMESERVER", "sdk", "malformed"}
  /\ End("fatal")

-----------------------------------------------------------------------------
(* doHealth and doSignal                                                   *)

Pinged ==
  /\ Running /\ health = "pinging"
  /\ health' = "waiting"
  /\ UNCHANGED <<loopVars, tick, ticks, late, ended>>

PingFails == Running /\ health = "pinging" /\ End("fatal")

\* MUTANT: the stop leaves the select but not the loop.
SelectStopBreaks ==
  /\ Running /\ health = "waiting" /\ stop
  /\ health' = "pinging"
  /\ UNCHANGED <<loopVars, tick, ticks, late, ended>>

\* The two cases of the select; Go picks at random when both are ready.
SelectStop ==
  /\ Running /\ health = "waiting" /\ stop
  /\ health' = "stopped"
  /\ UNCHANGED <<loopVars, tick, ticks, late, ended>>

\* MUTANT: the select has a default case.
SelectWithoutTick ==
  /\ Running /\ health = "waiting" /\ late <= Window + 1
  /\ health' = "pinging" /\ tick' = FALSE
  /\ late' = IF stop THEN late + 1 ELSE late
  /\ UNCHANGED <<loopVars, ticks, ended>>

SelectTick ==
  /\ Running /\ health = "waiting" /\ tick
  /\ health' = "pinging" /\ tick' = FALSE
  /\ late' = IF stop THEN late + 1 ELSE late
  /\ UNCHANGED <<loopVars, ticks, ended>>

\* The ticker drops a tick when one is still buffered.  The observers begin a
\* new window when one is full.
Tick ==
  /\ Running /\ health # "notStarted"
  /\ tick' = TRUE
  /\ IF stop /\ ticks = Window
     THEN ticks' = 0 /\ late' = 0
     ELSE ticks' = (IF stop THEN ticks + 1 ELSE ticks) /\ UNCHANGED late
  /\ UNCHANGED <<loopVars, health, ended>>

\* MUTANT: a signal closes the channel, to end the pings first.
SignalCloses ==
  /\ Running /\ stop' = TRUE
  /\ UNCHANGED <<main, packet, received, unhealthies, answers, told, shutdown, pingVars, ended>>

Signal == Running /\ End("signal")

-----------------------------------------------------------------------------
MainStep == \/ Connect \/ StartUp \/ HandleExit \/ HandleUnhealthy \/ HandleGameServer
            \/ HandleQuietly \/ HandleMalformed \/ HandleCrash \/ respond
            \/ Shutdown \/ exit

Next == \/ MainStep \/ readPacket \/ MainFails
        \/ Pinged \/ PingFails \/ SelectStop \/ SelectTick \/ Tick \/ Signal

\* Goroutines run, calls return, and a select that finds the stop ready again
\* and again takes it at some time; players and the kubelet owe nothing.
Fairness ==
  /\ WF_vars(MainStep) /\ WF_vars(Pinged) /\ SF_vars(SelectStop) /\ WF_vars(SelectTick)

Spec == Init /\ [][Next]_vars /\ Fairness

-----------------------------------------------------------------------------
\* "respond here, as we os.Exit() before we get to below": whoever is asked to
\* shut down, or sees the process exit, comes after the answer to the EXIT.
ExitIsAnnounced == (shutdown \/ ended = "exit") => told /\ packet = "EXIT"

\* Before the next packet is read the last one is answered: once, or twice for
\* GAMESERVER, whose name is followed by the ACK.
EveryPacketAnswered ==
  Running /\ main = "receiving" /\ received > 0 =>
    answers = IF packet = "GAMESERVER" THEN 2 ELSE 1

\* After UNHEALTHY a ping needs a tick, and in any window at most one was left
\* over from before it: overlooked stops never make pings more frequent.
LatePingsNeedTicks == late <= ticks + 1

\* It takes a second UNHEALTHY, from the player or from the network, to close the
\* channel once too often: nothing else in the process closes it.
PanicNeedsTwo == ended = "panic" => unhealthies >= 2

\* UNHEALTHY "turns off the health pings", although the select may overlook it.
PingsEnd == stop ~> health = "stopped" \/ ended # "no"

\* A process that acknowledged an EXIT ends.
ExitEnds == told ~> ended # "no"

\* The contract of both game servers, seen in this one's state.
Contract == INSTANCE GameServer WITH
  TellsFirst <- TRUE,   \* "respond here, as we os.Exit() before we get to below"
  last <- IF packet \in {"EXIT", "UNHEALTHY", "none"} THEN packet ELSE "rest",
  asked <- shutdown, off <- stop,
  pinging <- health = "pinging", over <- health = "stopped", gone <- ended # "no"

\* An EXIT is the last packet taken, and only UNHEALTHY stops the pings, whichever
\* of the two goroutines is faster.
IsGameServer == Contract!Spec
=============================================================================
