------------------------------ MODULE MCFileCursor -----------------------------
(* Constants of the FileCursor runs.  A line of the result file is its unit  *)
(* of length: three rows and the header are a large file.                    *)
EXTENDS FileCursor

MCClasses == FileCursorClasses

(* A SELECT of 3 rows (with a location, and with a binary column, or without *)
(* one) or of none, a SHOW of 2 and a CTAS.  A MERGE has no rows to tell it by.*)
MCResults ==
  {q \in Queries :
     /\ q.stmt # "merge"
     /\ q.stmt = "select" => q.n \in {0, 3}
     /\ q.stmt = "show" => q.n = 2
     /\ q.stmt # "select" \/ q.n = 0 => q.located
     /\ q.binary <=> q.stmt = "select" /\ q.located /\ q.n = 3}

Plain == [unload |-> FALSE, staging |-> TRUE, chunksize |-> NULL, auto |-> FALSE,
          arraysize |-> 2]

MCOptions ==
  {Plain, [Plain EXCEPT !.chunksize = 3], [Plain EXCEPT !.auto = TRUE],
   [Plain EXCEPT !.unload = TRUE], [Plain EXCEPT !.unload = TRUE, !.chunksize = 3],
   [Plain EXCEPT !.unload = TRUE, !.staging = FALSE]}

MCKwChunksizes == {NULL, 2}
================================================================================
