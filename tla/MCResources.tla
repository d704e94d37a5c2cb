----------------------------- MODULE MCResources -----------------------------
(* Resources for a parent and a child with tables of up to four entries. *)
EXTENDS Resources
=============================================================================
