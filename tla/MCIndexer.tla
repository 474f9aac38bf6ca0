------------------------------- MODULE MCIndexer -------------------------------
(* Model values for Indexer. *)
EXTENDS Indexer

CONSTANTS factory, token
================================================================================
