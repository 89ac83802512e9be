------------------------------- MODULE Mailbox -------------------------------
(***************************************************************************)
(* What gpustack/server/workqueue.py promises its users, without the       *)
(* machinery that keeps the promise: one slot per key for the work that is *)
(* still to be done, at most one task in flight per key, and at most one   *)
(* event per key that is to be put back later.  The order in which keys    *)
(* are served, the debounce window, the clock and the consumer's sleeping  *)
(* and waking are all left out.                                            *)
(***************************************************************************)
CONSTANTS
    Keys,           \* the work-item keys
    Objects,        \* the payloads an event may carry
    CoalescePolicy, \* how a new event is merged into the slot of its key
    None            \* an empty slot

Types == {"ADDED", "MODIFIED", "DELETED"}
Events == [type : Types, object : Objects]

(***************************************************************************)
(* The three coalescers of the repository: the queue's own default, the    *)
(* one of GPUInstanceController and the one of GPUInstanceTypeController.  *)
(***************************************************************************)
Policies == {"default", "keep_deleted", "latest_wins"}

VARIABLES
    dirty,    \* dirty[k]: the event waiting for key k, or None
    inflight, \* the keys handed out and not yet finished
    later     \* records [key, event] that will be put back at some time

vars == <<dirty, inflight, later>>

\* Mutant: every policy lets the newer event replace the older one.
CoalesceLatest(existing, incoming) == incoming

Coalesce(existing, incoming) ==
    IF \/ CoalescePolicy = "keep_deleted" /\ existing.type = "DELETED"
       \/ /\ CoalescePolicy = "default"
          /\ existing.type = "DELETED"
          /\ incoming.type # "DELETED"
    THEN existing
    ELSE incoming

Merged(slot, event) == IF slot = None THEN event ELSE Coalesce(slot, event)

Without(entries, k) == {x \in entries : x.key # k}

Init ==
    /\ dirty = [k \in Keys |-> None]
    /\ inflight = {}
    /\ later = {}

(***************************************************************************)
(* Put event into k's slot.  A slot that now holds DELETED needs no later  *)
(* event for the key.                                                      *)
(***************************************************************************)
PutWith(k, event, entries) ==
    /\ dirty' = [dirty EXCEPT ![k] = Merged(dirty[k], event)]
    /\ later' = IF Merged(dirty[k], event).type = "DELETED"
                THEN Without(entries, k)
                ELSE entries
    /\ UNCHANGED inflight

Put(k, event) == PutWith(k, event, later)

Fire(x) == PutWith(x.key, x.event, later \ {x})

Schedule(k, event) ==
    /\ later' = Without(later, k) \cup {[key |-> k, event |-> event]}
    /\ UNCHANGED <<dirty, inflight>>

Take(k) ==
    /\ dirty[k] # None
    /\ k \notin inflight
    /\ dirty' = [dirty EXCEPT ![k] = None]
    /\ inflight' = inflight \cup {k}
    /\ UNCHANGED later

Finish(k) ==
    /\ k \in inflight
    /\ inflight' = inflight \ {k}
    /\ UNCHANGED <<dirty, later>>

Next ==
    \/ \E k \in Keys, event \in Events : Put(k, event) \/ Schedule(k, event)
    \/ \E x \in later : Fire(x)
    \/ \E k \in Keys : Take(k) \/ Finish(k)

Spec == Init /\ [][Next]_vars
=============================================================================
