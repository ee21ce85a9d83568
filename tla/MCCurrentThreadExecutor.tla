----------------------- MODULE MCCurrentThreadExecutor -----------------------
(* Model checking CurrentThreadExecutor: symmetric sets of model values.    *)
EXTENDS CurrentThreadExecutor, TLC

Symmetry ==
    Permutations(Executors) \union Permutations(Items) \union Permutations(Threads)
=============================================================================
