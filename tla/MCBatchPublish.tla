--------------------------- MODULE MCBatchPublish ---------------------------
(* Small instances of BatchPublish for TLC. *)
EXTENDS BatchPublish

UpToFive == 0..5
=============================================================================
