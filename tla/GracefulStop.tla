---------------------------- MODULE GracefulStop ----------------------------
(***************************************************************************)
(* What the service promises of its stop, whatever its calls do: it takes   *)
(* no call once it waits for the others, it says "completed" at a moment    *)
(* when there is none, and it leaves by itself only after it said that or   *)
(* gave up waiting.  What ends it otherwise is a kill.                      *)
(***************************************************************************)
CONSTANT Calls

VARIABLES live,     \* the calls accepted whose client is not known to be gone
          stage,    \* how far the stop has come
          verdict   \* how the wait ended

vars == <<live, stage, verdict>>

Init == live = {} /\ stage = "serving" /\ verdict = "none"

Accept(c) ==
  /\ stage = "serving" /\ c \notin live
  /\ live' = live \cup {c}
  /\ UNCHANGED <<stage, verdict>>

Leave(c) ==
  /\ stage \notin {"left", "killed"} /\ c \in live
  /\ live' = live \ {c}
  /\ UNCHANGED <<stage, verdict>>

Stop ==
  /\ stage = "serving" /\ stage' = "waiting"
  /\ UNCHANGED <<live, verdict>>

Decide ==
  /\ stage = "waiting" /\ stage' = "decided"
  /\ \/ live = {} /\ verdict' = "completed"
     \/ verdict' = "timedOut"
  /\ UNCHANGED live

Exit ==
  /\ stage = "decided" /\ stage' = "left"
  /\ UNCHANGED <<live, verdict>>

Kill ==
  /\ stage # "left" /\ stage' = "killed"
  /\ UNCHANGED <<live, verdict>>

Next == \/ \E c \in Calls : Accept(c) \/ Leave(c)
        \/ Stop \/ Decide \/ Exit \/ Kill

Spec == Init /\ [][Next]_vars
=============================================================================
