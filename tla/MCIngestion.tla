---------------------------- MODULE MCIngestion ----------------------------
(* Two uploads into the same collection. *)
EXTENDS Ingestion
CONSTANTS handbook, invoice
MCUploads == {handbook, invoice}
=============================================================================
