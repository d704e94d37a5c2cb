---------------------------- MODULE MCAddressSpace ----------------------------
(* AddressSpace with two levels of tables of four entries. *)
EXTENDS AddressSpace, TLC

\* A page of the image and a stack of two pages.  load_exec maps a page more
\* than the image needs, and the heap starts on it: at page 3, to go on under
\* another table.
MCLayout == <<{3}, {0, 1}>>
MCAmounts == {3, -1}

\* The slots are alike.
Slots == Permutations(Procs \ {Eve})
=============================================================================
