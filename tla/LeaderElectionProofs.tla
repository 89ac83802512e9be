------------------------ MODULE LeaderElectionProofs ------------------------
(***************************************************************************)
(* For every number of servers and every choice of timings, two servers    *)
(* lead together only after one of them has lost more than the lease       *)
(* leaves over.  The inductive invariant is TypeOK and LeaseCoversLeader,  *)
(* with what the loop's place says of its timer.                           *)
(***************************************************************************)
EXTENDS LeaderElection, TLAPS

IInv ==
    /\ TypeOK
    /\ LeaseCoversLeader
    /\ \A s \in Servers : answer[s] # "none" => wait[s] = 0 /\ role[s] # "down"

(***************************************************************************)
(* Every step of _leader_election_loop, and every crash, restart and tick, *)
(* keeps timers and answers within their bounds.                           *)
(***************************************************************************)
LEMMA TypeStep ==
    TypeOK /\ [Next]_vars => TypeOK'
<1> USE ElectionAssumption
<1> SUFFICES ASSUME TypeOK, [Next]_vars PROVE TypeOK'
  OBVIOUS
<1>1. ASSUME NEW s \in Servers, Acquire(s) PROVE TypeOK'
  BY <1>1 DEF TypeOK, Acquire, Asking
<1>2. ASSUME NEW s \in Servers, RenewLease(s) PROVE TypeOK'
  BY <1>2 DEF TypeOK, RenewLease, Asking
<1>3. ASSUME NEW s \in Servers, Granted(s) PROVE TypeOK'
  BY <1>3 DEF TypeOK, Granted, Sleep
<1>4. ASSUME NEW s \in Servers, Refused(s) PROVE TypeOK'
  BY <1>4 DEF TypeOK, Refused, Sleep
<1>5. ASSUME NEW s \in Servers, Lost(s) PROVE TypeOK'
  BY <1>5 DEF TypeOK, Lost, Stopped
<1>6. ASSUME NEW s \in Servers, Raises(s) PROVE TypeOK'
  BY <1>6 DEF TypeOK, Raises
<1>7. ASSUME NEW s \in Servers, Crash(s) PROVE TypeOK'
  BY <1>7 DEF TypeOK, Crash, Stopped
<1>8. ASSUME NEW s \in Servers, Restart(s) PROVE TypeOK'
  BY <1>8 DEF TypeOK, Restart
<1>9. CASE Tick
  BY <1>9 DEF TypeOK, Tick, Late
<1>10. CASE UNCHANGED vars
  BY <1>10 DEF TypeOK, vars
<1> QED
  BY <1>1, <1>2, <1>3, <1>4, <1>5, <1>6, <1>7, <1>8, <1>9, <1>10 DEF Next, Step

(***************************************************************************)
(* Every step keeps the account of the lease: a sleep or a delay takes as  *)
(* much from the lease as it adds to what the leader has slept or lost,    *)
(* and nobody else is given a lease that has time left.                    *)
(***************************************************************************)
LEMMA LeaseStep ==
    IInv /\ [Next]_vars => IInv'
<1> USE ElectionAssumption DEF Claims, InTime
<1> SUFFICES ASSUME IInv, TypeOK', [Next]_vars
             PROVE  IInv'
  BY TypeStep DEF IInv
<1>1. ASSUME NEW s \in Servers, Acquire(s) PROVE IInv'
  BY <1>1 DEF IInv, TypeOK, LeaseCoversLeader, Acquire, Asking
<1>2. ASSUME NEW s \in Servers, RenewLease(s) PROVE IInv'
  BY <1>2 DEF IInv, TypeOK, LeaseCoversLeader, RenewLease, Asking
<1>3. ASSUME NEW s \in Servers, Granted(s) PROVE IInv'
  BY <1>3 DEF IInv, TypeOK, LeaseCoversLeader, Granted, Sleep
<1>4. ASSUME NEW s \in Servers, Refused(s) PROVE IInv'
  BY <1>4 DEF IInv, TypeOK, LeaseCoversLeader, Refused, Sleep
<1>5. ASSUME NEW s \in Servers, Lost(s) PROVE IInv'
  BY <1>5 DEF IInv, TypeOK, LeaseCoversLeader, Lost, Stopped
<1>6. ASSUME NEW s \in Servers, Raises(s) PROVE IInv'
  BY <1>6 DEF IInv, TypeOK, LeaseCoversLeader, Raises
<1>7. ASSUME NEW s \in Servers, Crash(s) PROVE IInv'
  BY <1>7 DEF IInv, TypeOK, LeaseCoversLeader, Crash, Stopped
<1>8. ASSUME NEW s \in Servers, Restart(s) PROVE IInv'
  BY <1>8 DEF IInv, TypeOK, LeaseCoversLeader, Restart
<1>9. CASE Tick
  BY <1>9 DEF IInv, TypeOK, LeaseCoversLeader, Tick, Late
<1>10. CASE UNCHANGED vars
  BY <1>10 DEF IInv, LeaseCoversLeader, vars
<1> QED
  BY <1>1, <1>2, <1>3, <1>4, <1>5, <1>6, <1>7, <1>8, <1>9, <1>10 DEF Next, Step

(***************************************************************************)
(* The loop keeps its state well formed whatever the timings: no sleep is  *)
(* longer than the code asks for and an expired lease has no holder.       *)
(***************************************************************************)
THEOREM TypeCorrect == Spec => []TypeOK
<1>1. Init => TypeOK
  BY ElectionAssumption DEF Init, TypeOK
<1> QED
  BY <1>1, TypeStep, PTL DEF Spec

(***************************************************************************)
(* Whatever calls fail, hang or are heard late, a server that runs the     *)
(* leader tasks holds the lease until it has lost ttl - renew_interval.    *)
(***************************************************************************)
THEOREM LeaseCovers == Spec => []LeaseCoversLeader
<1>1. Init => IInv
  BY ElectionAssumption DEF Init, IInv, TypeOK, LeaseCoversLeader, Claims
<1>2. IInv => LeaseCoversLeader
  BY DEF IInv
<1> QED
  BY <1>1, <1>2, LeaseStep, PTL DEF Spec

(***************************************************************************)
(* Two servers never run the scheduler and the controllers at once while   *)
(* both are in time.                                                       *)
(***************************************************************************)
THEOREM SingleLeader == Spec => []OneLeaderInTime
<1>1. LeaseCoversLeader => OneLeaderInTime
  BY DEF LeaseCoversLeader, OneLeaderInTime, Claims
<1> QED
  BY <1>1, LeaseCovers, PTL
=============================================================================
