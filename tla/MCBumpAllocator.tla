-------------------------- MODULE MCBumpAllocator --------------------------
\* Small heaps for BumpAllocator.
EXTENDS BumpAllocator, TLC

\* Mixed alignments: 1 byte, a word rounded up, and an aligned pair.
MCLayouts == {[size |-> 1, align |-> 1],
              [size |-> 3, align |-> 2],
              [size |-> 2, align |-> 2]}

\* Word and double-word alignments; no request is byte aligned.
MCWordLayouts == {[size |-> 1, align |-> 2], [size |-> 3, align |-> 4]}

Symmetry == Permutations(Threads)
=============================================================================
