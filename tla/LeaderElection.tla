--------------------------- MODULE LeaderElection ---------------------------
(***************************************************************************)
(* Server._leader_election_loop (gpustack/server/server.py): which of the  *)
(* server instances of a distributed deployment runs the scheduler, the    *)
(* controllers and the other leader-only tasks.  The lock itself is kept   *)
(* by a coordinator that a plugin provides; it is modelled as the lease    *)
(* with a time to live that Coordinator.acquire_leadership and             *)
(* renew_leadership describe.                                              *)
(*                                                                         *)
(* A call to the coordinator is two steps, its effect and its answer, with *)
(* time passing between them if the network or the server's loop is slow.  *)
(* Time is kept as what is left of each timer.  Nothing releases the lock: *)
(* no code calls release_leadership.                                       *)
(***************************************************************************)
EXTENDS Integers, FiniteSets

CONSTANTS
    Servers,
    Ttl,        \* leader_election_ttl, in ticks
    Renew,      \* leader_election_renew_interval
    Retry,      \* the sleep after an exception
    MaxSpent,   \* bound on the time a leader loses to failed and slow calls
                \* between two renewals; a split needs Ttl - Renew of it
    MaxFaults,  \* bound on crashes and failed calls
    None

ASSUME ElectionAssumption ==
    /\ Ttl \in Nat \ {0}
    /\ Renew \in Nat \ {0}
    /\ Retry \in Nat \ {0}
    /\ MaxSpent \in Nat
    /\ MaxFaults \in Nat
    /\ None \notin Servers

VARIABLES
    role,    \* "leader": is_leader() is true and the leader tasks run
    wait,    \* what is left of the loop's sleep
    answer,  \* answer[s]: what the coordinator has decided for s and s has
             \* not heard yet
    spent,   \* time lost to failed and slow calls since the last renewal
    holder,  \* who holds the lease
    left,    \* what is left of the lease
    faults

vars == <<role, wait, answer, spent, holder, left, faults>>

Init ==
    /\ role = [s \in Servers |-> "standby"]
    /\ wait = [s \in Servers |-> 0]
    /\ answer = [s \in Servers |-> "none"]
    /\ spent = [s \in Servers |-> 0]
    /\ holder = None
    /\ left = 0
    /\ faults = 0

\* s runs the leader tasks, or has been told to but does not know yet.
Claims(s) == role[s] = "leader" \/ answer[s] = "yes"

Asking(s) ==
    /\ role[s] # "down"
    /\ wait[s] = 0
    /\ answer[s] = "none"

-----------------------------------------------------------------------------
(***************************************************************************)
(* acquire_leadership reaches the coordinator: the lease is free or not.   *)
(***************************************************************************)
Acquire(s) ==
    /\ Asking(s)
    /\ role[s] = "standby"
    /\ \/ /\ holder = None
          /\ holder' = s
          /\ left' = Ttl
          /\ answer' = [answer EXCEPT ![s] = "yes"]
       \/ /\ holder # None
          /\ answer' = [answer EXCEPT ![s] = "no"]
          /\ UNCHANGED <<holder, left>>
    /\ UNCHANGED <<role, wait, spent, faults>>

\* renew_leadership: it succeeds only while the lease is still the caller's.
RenewLease(s) ==
    /\ Asking(s)
    /\ role[s] = "leader"
    /\ \/ /\ holder = s
          /\ left' = Ttl
          /\ answer' = [answer EXCEPT ![s] = "yes"]
          /\ spent' = [spent EXCEPT ![s] = 0]
       \/ /\ holder # s
          /\ answer' = [answer EXCEPT ![s] = "no"]
          /\ UNCHANGED <<left, spent>>
    /\ UNCHANGED <<role, wait, holder, faults>>

\* Mutant: the loop sleeps for the time to live.
SleepTtl(s) == wait' = [wait EXCEPT ![s] = Ttl]

\* asyncio.sleep(renew_interval).
Sleep(s) == wait' = [wait EXCEPT ![s] = Renew]

(***************************************************************************)
(* The loop hears the answer.  A server that acquired the lock starts the  *)
(* leader tasks.                                                           *)
(***************************************************************************)
Granted(s) ==
    /\ answer[s] = "yes"
    /\ role' = [role EXCEPT ![s] = "leader"]
    /\ Sleep(s)
    /\ answer' = [answer EXCEPT ![s] = "none"]
    /\ UNCHANGED <<spent, holder, left, faults>>

Refused(s) ==
    /\ answer[s] = "no"
    /\ role[s] = "standby"
    /\ Sleep(s)
    /\ answer' = [answer EXCEPT ![s] = "none"]
    /\ UNCHANGED <<role, spent, holder, left, faults>>

Stopped(s) ==
    /\ role' = [role EXCEPT ![s] = "down"]
    /\ wait' = [wait EXCEPT ![s] = 0]
    /\ answer' = [answer EXCEPT ![s] = "none"]
    /\ spent' = [spent EXCEPT ![s] = 0]

\* Mutant: a leader that is refused its renewal carries on.
LostIgnored(s) ==
    /\ answer[s] = "no"
    /\ role[s] = "leader"
    /\ Sleep(s)
    /\ answer' = [answer EXCEPT ![s] = "none"]
    /\ UNCHANGED <<role, spent, holder, left, faults>>

\* Not renewed: os._exit(1).
Lost(s) ==
    /\ answer[s] = "no"
    /\ role[s] = "leader"
    /\ Stopped(s)
    /\ UNCHANGED <<holder, left, faults>>

(***************************************************************************)
(* The call raises, before or after the coordinator has acted on it.  The  *)
(* loop logs the exception, sleeps, and goes on; a leader stays one.       *)
(***************************************************************************)
Raises(s) ==
    /\ role[s] # "down"
    /\ wait[s] = 0
    /\ faults < MaxFaults
    /\ faults' = faults + 1
    /\ wait' = [wait EXCEPT ![s] = Retry]
    /\ answer' = [answer EXCEPT ![s] = "none"]
    /\ \/ /\ role[s] = "leader"
          /\ spent[s] + Retry <= MaxSpent
          /\ spent' = [spent EXCEPT ![s] = spent[s] + Retry]
       \/ /\ role[s] = "standby"
          /\ spent' = [spent EXCEPT ![s] = 0]
    /\ UNCHANGED <<role, holder, left>>

\* The process dies; the lease it may hold stays until it expires.
Crash(s) ==
    /\ role[s] # "down"
    /\ faults < MaxFaults
    /\ faults' = faults + 1
    /\ Stopped(s)
    /\ UNCHANGED <<holder, left>>

\* The container runtime starts the process again, as a standby.
Restart(s) ==
    /\ role[s] = "down"
    /\ role' = [role EXCEPT ![s] = "standby"]
    /\ UNCHANGED <<wait, answer, spent, holder, left, faults>>

(***************************************************************************)
(* Time passes.  A server that claims the lock and is not asleep is late.  *)
(***************************************************************************)
Late(s) == Claims(s) /\ wait[s] = 0

Tick ==
    /\ \A s \in Servers : Late(s) => spent[s] < MaxSpent
    /\ wait' = [s \in Servers |-> IF wait[s] = 0 THEN 0 ELSE wait[s] - 1]
    /\ spent' = [s \in Servers |-> IF Late(s) THEN spent[s] + 1 ELSE spent[s]]
    /\ left' = IF left = 0 THEN 0 ELSE left - 1
    /\ holder' = IF left <= 1 THEN None ELSE holder
    /\ UNCHANGED <<role, answer, faults>>

-----------------------------------------------------------------------------
Step(s) == Acquire(s) \/ RenewLease(s) \/ Granted(s) \/ Refused(s) \/ Lost(s)

Next ==
    \/ \E s \in Servers : Step(s) \/ Raises(s) \/ Crash(s) \/ Restart(s)
    \/ Tick

Spec == Init /\ [][Next]_vars

(***************************************************************************)
(* The clock runs, the loop of a live server is resumed, the coordinator   *)
(* answers calls that do not fail, and the container runtime restarts what *)
(* exited.  Which server wins the lease is not decided by fairness.        *)
(***************************************************************************)
FairSpec ==
    /\ Spec
    /\ WF_vars(Tick)
    /\ \A s \in Servers : WF_vars(Step(s)) /\ WF_vars(Restart(s))

-----------------------------------------------------------------------------
(***************************************************************************)
(* Every loop sleeps no longer than the code tells it to, and a lease that *)
(* nobody holds has no time left.                                          *)
(***************************************************************************)
TypeOK ==
    /\ role \in [Servers -> {"down", "standby", "leader"}]
    /\ wait \in [Servers -> 0 .. (IF Renew >= Retry THEN Renew ELSE Retry)]
    /\ answer \in [Servers -> {"none", "yes", "no"}]
    /\ spent \in [Servers -> 0 .. MaxSpent]
    /\ holder \in Servers \cup {None}
    /\ left \in 0 .. Ttl
    /\ faults \in 0 .. MaxFaults
    /\ holder = None <=> left = 0

(***************************************************************************)
(* Two servers never run the leader tasks at the same time.  The loop      *)
(* exits hard when it loses the lease "to prevent split-brain".            *)
(***************************************************************************)
OneLeader ==
    \A s, t \in Servers : role[s] = "leader" /\ role[t] = "leader" => s = t

\* Failed and slow calls have cost s less than the lease leaves over.
InTime(s) == spent[s] + Renew < Ttl

(***************************************************************************)
(* Two servers run the leader tasks together only after one of them has    *)
(* lost ttl - renew_interval or more to failed and slow calls since its    *)
(* last renewal.                                                           *)
(***************************************************************************)
OneLeaderInTime ==
    \A s, t \in Servers :
        role[s] = "leader" /\ role[t] = "leader" /\ InTime(s) /\ InTime(t) => s = t

(***************************************************************************)
(* What a leader has slept and lost since its last renewal accounts for    *)
(* all that is gone of the lease, so a leader in time holds it.            *)
(***************************************************************************)
LeaseCoversLeader ==
    \A s \in Servers :
        /\ answer[s] = "yes" => left + spent[s] >= Ttl
        /\ role[s] = "leader" => left + spent[s] >= Ttl - (Renew - wait[s])
        /\ Claims(s) /\ InTime(s) => holder = s

(***************************************************************************)
(* There is always a single leader again: an error does not end the loop,  *)
(* a lease left behind by a crash expires, and of two leaders the one      *)
(* whose lease went to the other learns of it at a renewal and exits.      *)
(***************************************************************************)
SingleLeaderReturns == []<>(OneLeader /\ \E s \in Servers : role[s] = "leader")
=============================================================================
