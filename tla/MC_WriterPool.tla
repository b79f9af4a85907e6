--------------------------- MODULE MC_WriterPool ---------------------------
(* Two writers and two passes.  In the first pass the ETL splits a source  *)
(* row into a detail row and a second version of key 1; the second page    *)
(* has a row for each writer, so that a row is sent to a writer that may   *)
(* have failed.  The second pass brings key 1 once more and a row the ETL  *)
(* filters out.  With Capacity 1 the job thread blocks in send, and with   *)
(* Threshold 2 one bucket is flushed early and the others at the end.      *)
EXTENDS WriterPool

MainRow(k, v) == [table |-> "main", key |-> k, ver |-> v]
DetailRow(v) == [table |-> "detail", key |-> 0, ver |-> v]

MCTables == {"main", "detail"}
MCMain == "main"
MCOutput ==
    [p \in Passes |->
        IF p = 1 THEN << << <<MainRow(1, 1)>>, <<DetailRow(1), MainRow(1, 2)>> >>,
                         << <<MainRow(2, 1)>>, <<MainRow(1, 3)>> >> >>
        ELSE << << <<MainRow(1, 2 + p), DetailRow(p)>>, <<>> >> >>]
MCNoRows == [p \in Passes |-> <<>>]
Old == MainRow(1, 0)
MCRows == {Old} \cup UNION {RowsOf(p) : p \in Passes}
MCHash == [row \in MCRows |-> row.key]
MCPrior == [t \in MCTables |-> IF t = "main" THEN <<Old>> ELSE <<>>]
=============================================================================
