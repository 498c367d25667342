------------------------------ MODULE MCMemory ------------------------------
(* Programs with one and two segments, the second one ending inside a page, *)
(* and with what can go wrong in the middle of kexec.                       *)
EXTENDS Memory

Segment(vaddr, memsz, filesz, perm) ==
    [vaddr |-> vaddr, memsz |-> memsz, filesz |-> filesz, perm |-> perm, reads |-> TRUE]
Text == Segment(0, 2, 2, {"X"})
Data == Segment(2, 3, 1, {"W"})
MCPrograms == {[segs |-> <<Text>>, args |-> TRUE, argc |-> 1],
               [segs |-> <<Text, Data>>, args |-> TRUE, argc |-> 1],
               [segs |-> <<Text, [Data EXCEPT !.reads = FALSE]>>, args |-> TRUE, argc |-> 1],
               [segs |-> <<[Text EXCEPT !.vaddr = 1]>>, args |-> TRUE, argc |-> 1],
               [segs |-> <<Text>>, args |-> FALSE, argc |-> 2]}
MCAmounts == {-20, -3, -2, 1, 3}
=============================================================================
