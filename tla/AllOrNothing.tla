--------------------------- MODULE AllOrNothing ---------------------------
(***************************************************************************)
(* What the start of the process promises to its jobs: either every        *)
(* connection of datasource.yaml is open before the first job works, and   *)
(* stays open, or the process ends.                                        *)
(***************************************************************************)
EXTENDS FiniteSets

CONSTANTS Names, Jobs

VARIABLES required,  \* the connections of the configuration
          open,      \* those that are open
          phase,     \* "reading" until that is read, "opening", "spawning" once a job has a thread, "serving" or "dead"
          busy       \* the jobs at work

vars == <<required, open, phase, busy>>

Init == required = {} /\ open = {} /\ phase = "reading" /\ busy = {}

Read == /\ phase = "reading" /\ phase' = "opening"
        /\ required' \in SUBSET Names
        /\ UNCHANGED <<open, busy>>
Open == /\ phase = "opening"
        /\ \E c \in required \ open : open' = open \cup {c}
        /\ UNCHANGED <<required, phase, busy>>
Spawn == phase = "opening" /\ open = required /\ phase' = "spawning" /\ UNCHANGED <<required, open, busy>>
Work(j) == /\ phase \in {"spawning", "serving"}
           /\ busy' \in {busy \cup {j}, busy \ {j}}
           /\ UNCHANGED <<required, open, phase>>
Serve == /\ phase = "spawning" \/ (phase = "opening" /\ open = required)
         /\ phase' = "serving" /\ UNCHANGED <<required, open, busy>>
Die == phase \in {"opening", "spawning"} /\ phase' = "dead" /\ UNCHANGED <<required, open, busy>>

Next == Read \/ Open \/ Spawn \/ Serve \/ Die \/ \E j \in Jobs : Work(j)
Spec == Init /\ [][Next]_vars
=============================================================================
