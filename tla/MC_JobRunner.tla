---------------------------- MODULE MC_JobRunner ----------------------------
(* Two source rows at first, the later one in front, and room for a third  *)
(* and for updates.  The first goes to the main table, the others to the   *)
(* main and a detail table, in one order and in the other.  Pages of       *)
(* two rows and a flush threshold of two leave rows in the buckets between *)
(* pages and at the end of a pass.                                         *)
EXTENDS JobRunner

MCTables == {"main", "detail"}
MCMain == "main"
MCInitial == << [id |-> 1, wm |-> 2], [id |-> 2, wm |-> 1] >>

\* One row: with a clock to 3 the source grows by two, and the first page of
\* a pass may be a short one.
MCInitialOne == << [id |-> 1, wm |-> 1] >>
MCEtlTables == << <<"main">>, <<"main", "detail">>, <<"detail", "main">> >>
=============================================================================
