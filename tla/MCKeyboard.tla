----------------------------- MODULE MCKeyboard -----------------------------
(* Keyboard for TLC: the codes of scan code set 1 of three modifiers, a key  *)
(* with three mappings of its own, one with those of Alt, and a key whose    *)
(* codes take a prefix.                                                      *)
EXTENDS Keyboard

MCMakeCode == [Shift |-> <<42>>, Alt |-> <<56>>, CapsLock |-> <<58>>, KeyQ |-> <<16>>,
               Key1 |-> <<2>>, Up |-> <<224, 72>>]

MCBreakCode == [Shift |-> <<170>>, Alt |-> <<184>>, CapsLock |-> <<186>>, KeyQ |-> <<144>>,
                Key1 |-> <<130>>, Up |-> <<224, 200>>]
=============================================================================
