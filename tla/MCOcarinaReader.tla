-------------------------- MODULE MCOcarinaReader --------------------------
(***************************************************************************)
(* An Ocarina for TLC.  Before it answers the reset it sends nothing, a    *)
(* byte, a byte and 0xAA, or 0xAA and a byte: the end of what an earlier   *)
(* session had not read.                                                   *)
(***************************************************************************)
EXTENDS OcarinaReader

MCOld == {<< >>, <<FALSE>>, <<FALSE, TRUE>>, <<TRUE, FALSE>>}
=============================================================================
