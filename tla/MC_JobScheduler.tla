-------------------------- MODULE MC_JobScheduler --------------------------
(* Four enabled jobs on two slots and a disabled one.  All four are due at *)
(* the same time, so that two wait in the condvar at once, and the first   *)
(* has two more that can fall due while its pass still runs.                *)
EXTENDS JobScheduler

MCJobs == <<"a", "b", "off", "c", "d">>
MCThreads == {"a", "b", "c", "d", "off"}
MCEnabled == [j \in MCThreads |-> j # "off"]
MCCron == [j \in MCThreads |-> IF j = "a" THEN {1, 2, 3} ELSE {1}]
=============================================================================
