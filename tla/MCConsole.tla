------------------------------ MODULE MCConsole ------------------------------
(* Budgets for module Console: much input, much output, and some of both. *)
EXTENDS Console

MCBudgets ==
    {[keys |-> 4, of |-> {"a", "nl", "^H", "^D"}, prints |-> 0, reads |-> 2, writes |-> 0, n |-> 2],
     [keys |-> 1, of |-> {"a", "nul"}, prints |-> 1, reads |-> 0, writes |-> 2, n |-> 3],
     [keys |-> 3, of |-> {"a", "cr", "^U"}, prints |-> 0, reads |-> 1, writes |-> 1, n |-> 1]}
=============================================================================
