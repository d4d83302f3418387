----------------------------- MODULE MCItemEditor -----------------------------
(***************************************************************************)
(* Model checking instance of ItemEditor: limits that differ between the   *)
(* window and the command line, as those of the program do; a minute of    *)
(* six units, so that an interval of four does not divide it.              *)
(***************************************************************************)
EXTENDS ItemEditor

MCModes ==
    [random |-> [min |-> 2, max |-> 3, default |-> 3],
     pin |-> [min |-> 1, max |-> 2, default |-> 1],
     passphrase |-> [min |-> 1, max |-> 2, default |-> 1]]
MCPrompts ==
    [random |-> [min |-> 1, max |-> 2, default |-> 2],
     pin |-> [min |-> 2, max |-> 3, default |-> 2],
     passphrase |-> [min |-> 1, max |-> 3, default |-> 1]]
================================================================================
