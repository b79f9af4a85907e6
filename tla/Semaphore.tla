----------------------------- MODULE Semaphore -----------------------------
(***************************************************************************)
(* What the worker gate promises to the job threads: a counter of free     *)
(* slots.  A thread takes a slot when one is free and otherwise asks for   *)
(* one.  Nothing is said of the order in which asking threads are served.  *)
(***************************************************************************)
EXTENDS Naturals

CONSTANTS Threads, Slots

VARIABLES free, asking, owning

semVars == <<free, asking, owning>>

SemInit == free = Slots /\ asking = {} /\ owning = {}

Ask(t) ==
    /\ t \notin asking \cup owning
    /\ free = 0
    /\ asking' = asking \cup {t}
    /\ UNCHANGED <<free, owning>>

Take(t) ==
    /\ t \notin owning
    /\ free > 0
    /\ free' = free - 1
    /\ asking' = asking \ {t}
    /\ owning' = owning \cup {t}

Give(t) ==
    /\ t \in owning
    /\ free' = free + 1
    /\ owning' = owning \ {t}
    /\ UNCHANGED asking

SemNext == \E t \in Threads : Ask(t) \/ Take(t) \/ Give(t)

SemSafety == SemInit /\ [][SemNext]_semVars
=============================================================================
