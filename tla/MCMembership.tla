---------------------------- MODULE MCMembership ----------------------------
(***************************************************************************)
(* Who is there, for TLC: a behaviour is either one of the servers         *)
(* electing their leader (LeaderElection) or one of the servers watching a *)
(* worker (WorkerStatus).                                                  *)
(***************************************************************************)
EXTENDS LeaderElection

CONSTANTS s1, s2, s3

VARIABLES
    watching,   \* is this a behaviour of the servers watching a worker?
    up, reachable, serving, heartbeats, reports, flush, row, age, sync, cached, marking,
    instance, mishaps

Status == INSTANCE WorkerStatus WITH MaxFaults <- 1, faults <- mishaps

status == <<up, reachable, serving, heartbeats, reports, flush, row, age, sync, cached,
            marking, instance, mishaps>>

MCInit == watching \in BOOLEAN /\ Init /\ Status!Init

MCNext ==
    /\ UNCHANGED watching
    /\ \/ ~watching /\ Next /\ UNCHANGED status
       \/ watching /\ Status!Next /\ UNCHANGED vars

(***************************************************************************)
(* The fairness of LeaderElection; the worker posts its status as long as  *)
(* it runs, the servers' periodic tasks take their turns, time passes and  *)
(* an outage ends.                                                         *)
(***************************************************************************)
MCSpec ==
    /\ MCInit /\ [][MCNext]_<<vars, status, watching>>
    /\ WF_vars(~watching /\ Tick)
    /\ \A s \in Servers : WF_vars(~watching /\ Step(s)) /\ WF_vars(~watching /\ Restart(s))
    /\ WF_status(watching /\ Status!Report)
    /\ \A s \in {"leader", "peer"} : WF_status(watching /\ Status!FlushStatus(s))
    /\ WF_status(watching /\ Status!Syncer)
    /\ WF_status(watching /\ Status!TimePasses)
    /\ WF_status(watching /\ Status!InstanceMoves)

(***************************************************************************)
(* There is always a single leader again: _leader_election_loop survives   *)
(* errors, leases expire, and a renewal that is refused ends a leader.     *)
(***************************************************************************)
LeaderReturns == ~watching => SingleLeaderReturns

(***************************************************************************)
(* A worker that stays up and reachable is READY from some time on, and    *)
(* its instance is not left UNREACHABLE.                                   *)
(***************************************************************************)
LiveIsReady == watching => Status!LiveIsReady

\* The instance of a worker that stays away is deleted, to be placed elsewhere.
DeadIsCleaned == watching => Status!DeadIsCleaned
=============================================================================
