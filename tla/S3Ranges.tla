-------------------------------- MODULE S3Ranges -------------------------------
(* How S3File and the multipart copies cut a span of bytes into the ranges   *)
(* of parallel requests.  A range is <<start, end>>, the end not included.   *)
EXTENDS Naturals, Sequences, FiniteSetsExt

Ceil(n, d) == (n + d - 1) \div d

(* Mutant: only full blocks, the rest of the span is left out. *)
GetRangesFullOnly(start, end, max_workers, block) ==
  IF max_workers > 1 /\ end - start > block
  THEN [i \in 1..((end - start) \div block) |->
          <<start + (i - 1) * block, start + i * block>>]
  ELSE <<(<<start, end>>)>>

(* S3File._get_ranges *)
GetRanges(start, end, max_workers, block) ==
  IF max_workers > 1 /\ end - start > block
  THEN [i \in 1..Ceil(end - start, block) |->
          <<start + (i - 1) * block, Min({start + i * block, end})>>]
  ELSE <<(<<start, end>>)>>

(* The bytes of a range. *)
Slice(bytes, range) == SubSeq(bytes, range[1] + 1, range[2])
================================================================================
