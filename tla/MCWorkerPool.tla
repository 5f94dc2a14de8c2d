---------------------------- MODULE MCWorkerPool ----------------------------
(* Instances of WorkerPool for TLC: the cfg files choose the jobs and the  *)
(* bounds.                                                                 *)
EXTENDS WorkerPool, TLC

CONSTANTS j1, j2, j3

ThreeJobs == {j1, j2, j3}
SecondJob == {j2}
FirstJobs == {j1, j2}
LastJobs == {j2, j3}
NoJobs == {}

\* Sound for the safety of jobs that the constants do not tell apart.
ThreeAlike == Permutations(ThreeJobs)
LastAlike == Permutations(LastJobs)

=============================================================================
