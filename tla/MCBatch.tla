------------------------------- MODULE MCBatch -------------------------------
(* Small instances of BatchTransfer.                                        *)
EXTENDS BatchTransfer
=============================================================================
