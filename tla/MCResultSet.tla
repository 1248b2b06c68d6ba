------------------------------ MODULE MCResultSet ------------------------------
(* Constants for the run of ResultSet: one fetcher with up to three calls on *)
(* five rows, and two fetchers with two calls on three rows.                 *)
EXTENDS ResultSet

CONSTANTS f1, f2

MCFetchers == {f1, f2}
MCCrowds == {{f1}, {f1, f2}}
MCMaxCalls(crowd) == IF Cardinality(crowd) = 1 THEN 3 ELSE 2
MCRowsUpTo(crowd) == IF Cardinality(crowd) = 1 THEN 5 ELSE 3
================================================================================
