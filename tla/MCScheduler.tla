---- MODULE MCScheduler ----
EXTENDS Scheduler, TLC

CONSTANTS i1, i2, w1, w2

OneEach == [w \in Workers |-> 1]
InstanceSymmetry == Permutations({i1, i2}) \cup Permutations({w1, w2})
====
