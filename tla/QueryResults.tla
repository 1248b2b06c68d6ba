------------------------------ MODULE QueryResults ----------------------------
(* The answers of GetQueryResults for one succeeded query.  External: Athena *)
(* as src/pyathena/result_set.py calls it.  A row is its number; what        *)
(* matters about its content is whether it equals the column labels, as the  *)
(* first row of a SELECT does.                                               *)
EXTENDS Naturals, Sequences

CONSTANTS
  MaxRows,    \* bound: rows of the result, a header row included
  PageSize,   \* MaxResults of a request: arraysize, or DEFAULT_FETCH_SIZE
  NULL

ASSUME ResultsAssumption ==
  /\ MaxRows \in Nat
  /\ PageSize \in Nat \ {0}
  /\ NULL \notin Nat

VARIABLES
  nrows,      \* the result has the rows 1..nrows
  labels      \* those that equal the column labels

resultVars == <<nrows, labels>>

ResultsInit ==
  /\ nrows \in 0..MaxRows
  /\ labels \in SUBSET (1..nrows)

(* The first k rows from a token, and the token behind them. *)
Page(token, k) == [i \in 1..k |-> token + i - 1]

(* A page has at most PageSize rows and is empty only behind the last row;   *)
(* there is a token while rows are left, and there may be one behind them.   *)
Answers(token) ==
  {a \in [count : 0..PageSize, next : (1..MaxRows + 1) \cup {NULL}] :
     /\ token + a.count <= nrows + 1
     /\ a.count = 0 => token = nrows + 1
     /\ \/ a.next = token + a.count /\ a.count > 0
        \/ a.next = NULL /\ token + a.count = nrows + 1}
===============================================================================
