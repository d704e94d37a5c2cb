----------------------------- MODULE MCLinkedList -----------------------------
(* LinkedList on a few nodes. *)
EXTENDS LinkedList
=============================================================================
