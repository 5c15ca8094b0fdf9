----------------------------- MODULE MCMpBuilder -----------------------------
(***************************************************************************)
(* MpBuilder for TLC: containers three deep with up to two entries each,   *)
(* and a one-character string to pack.                                   *)
(***************************************************************************)
EXTENDS MpBuilder

MCScalars == {MpStr(97)}

=============================================================================
