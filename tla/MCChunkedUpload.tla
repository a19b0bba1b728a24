---------------------------- MODULE MCChunkedUpload ----------------------------
(***************************************************************************)
(* A small instance of ChunkedUpload, and of the artifact store, for TLC.  *)
(***************************************************************************)
EXTENDS ChunkedUpload

CONSTANTS small, big

MCSize  == [p \in Payloads |-> IF p = small THEN 1 ELSE 2]
MCFiles == {<<small>>}
=============================================================================
