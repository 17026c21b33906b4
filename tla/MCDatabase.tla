----------------------------- MODULE MCDatabase -----------------------------
(* The database file with two blocks to a map and three generations.       *)
EXTENDS Database
=============================================================================
