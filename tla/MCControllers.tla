--------------------------- MODULE MCControllers ---------------------------
(***************************************************************************)
(* Two reconciling controllers of the leader, for TLC: a behaviour is      *)
(* either one of the replicas of a model (Replicas) or one of the catalog  *)
(* of instance types (InstanceTypeCatalog), the other staying as it was    *)
(* initialised.                                                            *)
(***************************************************************************)
EXTENDS Replicas

CONSTANTS a, b, None

VARIABLES
    typing,   \* is this a behaviour of the catalog?
    catalog, stream, phase, seen, dirty, inflight, later, task, stored, active,
    changes, gaps, starts, failed

Types == INSTANCE InstanceTypeCatalog
    WITH Names <- {"n1"}, Specs <- {a, b}, MaxChanges <- 4, MaxGaps <- 1,
         MaxRestarts <- 1, MaxFailures <- 1, restarts <- starts

types == <<catalog, stream, phase, seen, dirty, inflight, later, task, stored, active,
           changes, gaps, starts, failed>>

MCInit ==
    /\ typing \in BOOLEAN
    /\ Init /\ Types!Init
    /\ typing => model.replicas = 0
    /\ ~typing => catalog["n1"] = None

MCNext ==
    /\ UNCHANGED typing
    /\ \/ ~typing /\ Next /\ UNCHANGED types
       \/ typing /\ Types!Next /\ UNCHANGED vars

\* The watcher, the dispatcher, its tasks and its timers.
Catching ==
    \/ Types!List \/ Types!RetireUnlisted \/ Types!OnWatchEvent
    \/ Types!Dispatch("n1") \/ Types!Succeeds("n1") \/ Types!Fails("n1")
    \/ \E x \in later : Types!Retry(x)

(***************************************************************************)
(* The tasks of the leader's loop are resumed, timers fire, and a task in  *)
(* flight comes to an end; a subscription is a queue, so a DELETED event   *)
(* is handed out in the end though others keep coming.  Nothing is assumed *)
(* of users, workers and the cluster.                                      *)
(***************************************************************************)
MCSpec ==
    /\ MCInit /\ [][MCNext]_<<vars, types, typing>>
    /\ WF_vars(~typing /\ Sync)
    /\ WF_vars(~typing /\ (ReadyCount \/ ReadyWrite))
    /\ WF_vars(~typing /\ Scale)
    /\ SF_vars(~typing /\ OnInstanceGone)
    /\ WF_types(typing /\ Catching)

(***************************************************************************)
(* Once GPUInstanceTypeController has caught up, the definition a cluster  *)
(* has for a name is active, if no reconcile has failed; if the watch has  *)
(* not broken either, a name with one snapshot is active exactly if the    *)
(* cluster defines it.                                                     *)
(***************************************************************************)
CatalogIsFollowed == Types!NewestIsActive /\ Types!SettledAgrees

(***************************************************************************)
(* Once users, the clock and the cluster leave them alone, the controllers *)
(* are done for good: a model has as many instances as it wants, if no     *)
(* sync failed, and wants what an enabled schedule says; nothing is on its *)
(* way from the catalog to the table, although a reconcile raised or the   *)
(* watch broke (ModelController, ScalingScheduler,                         *)
(* GPUInstanceTypeController).                                             *)
(***************************************************************************)
ComesToRest == <>[](IF typing THEN Types!Settled("n1") ELSE Matches)
=============================================================================
