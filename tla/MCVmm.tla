------------------------------- MODULE MCVmm -------------------------------
EXTENDS Vmm, TLC
\* Four pages to a 4 MB page.  Memory ends below the code of processes; page 8 begins
\* a 4 MB page.
MCFrames == {5, 6, 7, 8, 9, 10, 11, 13, 14, 15}
MCImages == {<<>>, <<16, 16>>}
MCTables == 0 .. 9
MCBig    == 0 .. 8
MCUser   == 0 .. 7
MCSymmetry == Permutations(Procs)
============================================================================
