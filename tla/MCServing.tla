----------------------------- MODULE MCServing -----------------------------
(***************************************************************************)
(* What one worker runs, for TLC.  Each behaviour is one of one part       *)
(* (focus), the others staying as they were initialised.                   *)
(*   "serving"  the worker serves a model instance         (ServeManager)  *)
(*   "bench"    the worker runs benchmarks of it           (Benchmarks)    *)
(***************************************************************************)
EXTENDS ServeManager

CONSTANTS i1, p1, b1

VARIABLES
    focus,
    row, provisional, up, news, view, calls, stops, enqueuing, line, canceled, active,
    launch, process, runner, poll, marks, slips

Bench == INSTANCE Benchmarks
    WITH Ids <- {b1}, Lag <- 1, MaxFaults <- 1, stream <- news, queue <- line,
         work <- runner, sync <- poll, faults <- slips

bench == <<row, provisional, up, news, view, calls, stops, enqueuing, line, canceled, active,
           launch, process, runner, poll, marks, slips>>

MCInit == focus \in {"serving", "bench"} /\ Init /\ Bench!Init

MCNext ==
    /\ UNCHANGED focus
    /\ \/ focus = "serving" /\ Next /\ UNCHANGED bench
       \/ focus = "bench" /\ Bench!Next /\ UNCHANGED vars

\* The fairness of ServeManager and of Benchmarks.
MCSpec ==
    /\ MCInit /\ [][MCNext]_<<vars, bench, focus>>
    /\ WF_vars(focus = "serving" /\ Connect)
    /\ WF_vars(focus = "serving" /\ Sync)
    /\ \A i \in Instances : /\ WF_vars(focus = "serving" /\ Loop(i))
                            /\ WF_vars(focus = "serving" /\ Container(i))
                            /\ WF_vars(focus = "serving" /\ Clean(i))
    /\ WF_bench(focus = "bench" /\ Bench!Connect)
    /\ WF_bench(focus = "bench" /\ Bench!QueueWorker)
    /\ WF_bench(focus = "bench" /\ Bench!Sync)
    /\ WF_bench(focus = "bench" /\ Bench!Loop(b1))
    /\ WF_bench(focus = "bench" /\ Bench!Provision(b1))
    /\ WF_bench(focus = "bench" /\ Bench!Exit(b1))

(***************************************************************************)
(* A workload whose instance is deleted or has moved away disappears, even *)
(* if every event about it is lost (sync_model_instances_state).           *)
(***************************************************************************)
OrphansLeave == focus = "serving" => OrphansGo

(***************************************************************************)
(* Once faults and moves are over, an instance placed on the worker and    *)
(* never moved away ends up RUNNING with its workload up.                  *)
(***************************************************************************)
AssignedIsServed == focus = "serving" => ServesInTheEnd

(***************************************************************************)
(* One benchmark at a time: what provisions or runs holds the slot of      *)
(* BenchmarkManager, but for strays and benchmarks taken up twice.         *)
(***************************************************************************)
SlotIsHeld == Bench!SlotIsHeld

(***************************************************************************)
(* What a user stopped or deleted does not run on, or is not launched,     *)
(* unless the stop crossed a PATCH of the worker (_canceled_ids).          *)
(***************************************************************************)
StoppedDoesNotRun == Bench!StoppedDoesNotRun

\* A run that is over does not keep an analysis marked in_progress.
NotProvisional == Bench!NotProvisional

(***************************************************************************)
(* Every benchmark ends and gives the slot back to the queue, unless one   *)
(* has crossed a stop or is left to nobody.                                *)
(***************************************************************************)
BenchmarksEnd == focus = "bench" => Bench!RunsEnd
=============================================================================
