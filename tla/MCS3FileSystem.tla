----------------------------- MODULE MCS3FileSystem ----------------------------
(* Constants for the runs of S3FileSystem.                                   *)
EXTENDS S3FileSystem

EveryClient == Permutations(Clients)

TheBucket == <<"b">>
TwoFiles == {<<"b", "d", "x">>, <<"b", "d", "y">>}
OneOfEach == {<<"b">>, <<"b", "d">>, <<"b", "d", "x">>}
OneFile == {<<"b", "d", "y">>}
RootAndDirectory == {<<>>, <<"b", "d">>}
================================================================================
