----------------------------- MODULE GameServer -----------------------------
(***************************************************************************)
(* What a player, and Agones, may rely on from either UDP game server: an   *)
(* UNHEALTHY switches the health pings off for good, though a ping under    *)
(* way may still end and others may follow; an EXIT is answered and the     *)
(* sidecar asked to shut down, and nothing but the end comes after.  The    *)
(* two servers differ in the order of answer and request, and in what else  *)
(* ends them.                                                               *)
(***************************************************************************)
EXTENDS Naturals

CONSTANT TellsFirst   \* an EXIT is answered before the sidecar is asked

VARIABLES received,   \* packets taken
          last,       \* the last of them: "EXIT", "UNHEALTHY" or another
          told,       \* an EXIT was answered
          asked,      \* the sidecar was asked to shut down
          off,        \* the pings were switched off
          pinging,    \* a ping is under way
          over,       \* no ping will follow
          gone        \* the process has ended

vars == <<received, last, told, asked, off, pinging, over, gone>>

Init ==
  /\ received = 0 /\ last = "none" /\ ~told /\ ~asked /\ ~off
  /\ ~pinging /\ ~over /\ ~gone

Serving == ~gone /\ ~told /\ ~asked

Take ==
  /\ Serving
  /\ received' = received + 1 /\ last' \in {"EXIT", "UNHEALTHY", "rest"}
  /\ UNCHANGED <<told, asked, off, pinging, over, gone>>

SwitchOff ==
  /\ Serving /\ last = "UNHEALTHY" /\ off' = TRUE
  /\ UNCHANGED <<received, last, told, asked, pinging, over, gone>>

Tell ==
  /\ ~gone /\ ~told /\ last = "EXIT" /\ (asked \/ TellsFirst) /\ told' = TRUE
  /\ UNCHANGED <<received, last, asked, off, pinging, over, gone>>

Ask ==
  /\ ~gone /\ ~asked /\ last = "EXIT" /\ (told \/ ~TellsFirst) /\ asked' = TRUE
  /\ UNCHANGED <<received, last, told, off, pinging, over, gone>>

BeginPing ==
  /\ ~gone /\ ~over /\ ~pinging /\ pinging' = TRUE
  /\ UNCHANGED <<received, last, told, asked, off, over, gone>>

EndPing ==
  /\ ~gone /\ pinging /\ pinging' = FALSE
  /\ UNCHANGED <<received, last, told, asked, off, over, gone>>

StopPings ==
  /\ ~gone /\ off /\ ~pinging /\ over' = TRUE
  /\ UNCHANGED <<received, last, told, asked, off, pinging, gone>>

End ==
  /\ ~gone /\ gone' = TRUE
  /\ UNCHANGED <<received, last, told, asked, off, pinging, over>>

Next == \/ Take \/ SwitchOff \/ Tell \/ Ask
        \/ BeginPing \/ EndPing \/ StopPings \/ End

Spec == Init /\ [][Next]_vars
=============================================================================
