--------------------------- MODULE MCOutputFlush ---------------------------
(***************************************************************************)
(* OutputFlush for TLC: two task ids, an instance that runs its flushes on *)
(* the engine thread and refuses to multiplex, one with workers, and two   *)
(* coroutine addresses, so that flb_coro_new() can also fail.              *)
(***************************************************************************)
EXTENDS OutputFlush, TLC

CONSTANTS a, b, h1, h2

MCTasks       == {0, 1}
MCOneTask     == {0}
MCInstances   == {a, b}
MCOnlyA       == {a}
MCOnlyB       == {b}
MCNone        == {}
MCHandles     == {h1, h2}

\* The model does not tell two free addresses apart.
HandleSymmetry == Permutations(MCHandles)

=============================================================================
