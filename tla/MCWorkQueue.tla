----------------------------- MODULE MCWorkQueue -----------------------------
(***************************************************************************)
(* WorkQueue for TLC, in the two ways the controllers set it up.  The cfg  *)
(* gives the constants of a queue that debounces and whose consumer calls  *)
(* get() again at once; Plain is the same queue without a window, with     *)
(* retries and add_after, and with a consumer that awaits between calls.   *)
(***************************************************************************)
EXTENDS WorkQueue

CONSTANTS k1, k2

VARIABLE plain   \* is this the queue without a window?

Plain == INSTANCE WorkQueue
    WITH DedupWindow <- 0, DedupMaxWait <- 0, Delays <- {0, 1}, MaxFailures <- 1,
         YieldBetweenGets <- TRUE

MCInit == plain \in BOOLEAN /\ Init

MCNext ==
    /\ UNCHANGED plain
    /\ \/ ~plain /\ Next
       \/ plain /\ Plain!Next

\* Fairness as in WorkQueue; only the debouncing queue is asked for liveness.
MCSpec ==
    /\ MCInit /\ [][MCNext]_<<qvars, plain>>
    /\ WF_qvars(~plain /\ Consume)
    /\ SF_qvars(~plain /\ Tick)
    /\ \A k \in Keys : SF_qvars(~plain /\ Done(k))

(***************************************************************************)
(* Whatever the producers keep doing, an event that is pending in a queue  *)
(* that debounces is handed out eventually.                                *)
(***************************************************************************)
HandedOut == ~plain => PendingHandedOut
=============================================================================
