----------------------------- MODULE MCChunking -----------------------------
(* Chunking on all texts of up to five units.                              *)
EXTENDS Chunking
=============================================================================
