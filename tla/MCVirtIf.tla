------------------------------ MODULE MCVirtIf ------------------------------
(***************************************************************************)
(* Processes and handles that can be exchanged for each other.             *)
(***************************************************************************)
EXTENDS VirtIf, TLC

Symmetry == Permutations(Callers) \cup Permutations(Handles)

\* What memory held before it was freed, but for its file, makes no difference
\* as long as no message carries it (NoUseAfterFree): the handles are never
\* used again.
Remembered == [h \in Handles |->
    IF hd[h].st = "freed" THEN [hd[h] EXCEPT !.i = Null, !.done = "no"] ELSE hd[h]]

MCView == << used, Remembered, table, handlers, ndev, refs, pc, job, got, cur,
             cmds, replies, node, evicted \cap Live >>
=============================================================================
