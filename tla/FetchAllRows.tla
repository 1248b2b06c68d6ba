------------------------------ MODULE FetchAllRows -----------------------------
(* AthenaResultSet._fetch_all_rows: the pandas, arrow, polars and S3FS       *)
(* result sets read all rows through GetQueryResults when there is no output *)
(* file in S3 (managed query result storage).                                *)
EXTENDS QueryResults

VARIABLES
  next_token,  \* of the next request, None is the first row
  all_rows,    \* the rows so far
  pc           \* "fetching", "returned" or "failed"

vars == <<resultVars, next_token, all_rows, pc>>

Init == ResultsInit /\ next_token = 1 /\ all_rows = <<>> /\ pc = "fetching"

(* The row in front of a page that is left out, on later pages, too. *)
HeaderOffset(page) == IF page # <<>> /\ Head(page) \in labels THEN 1 ELSE 0

(* A page arrives; the last one has no token. *)
PageAnswered ==
  /\ pc = "fetching"
  /\ \E a \in Answers(next_token) :
       LET page == Page(next_token, a.count) IN
       /\ all_rows' = all_rows \o SubSeq(page, HeaderOffset(page) + 1, Len(page))
       /\ next_token' = a.next
       /\ pc' = IF a.next = NULL THEN "returned" ELSE "fetching"
  /\ UNCHANGED resultVars

(* A request fails after its retries: the rows so far are dropped. *)
RequestFails ==
  /\ pc = "fetching"
  /\ pc' = "failed" /\ all_rows' = <<>>
  /\ UNCHANGED <<resultVars, next_token>>

Next == PageAnswered \/ RequestFails

Spec == Init /\ [][Next]_vars
--------------------------------------------------------------------------------
(* "Fetch all rows": every row is in the list, in order, but the header in   *)
(* front of the first.                                                       *)
AllRowsFetched ==
  pc = "returned" =>
    all_rows = [i \in 1..nrows |-> i] \/ (1 \in labels /\ all_rows = [i \in 1..(nrows - 1) |-> i + 1])
================================================================================
