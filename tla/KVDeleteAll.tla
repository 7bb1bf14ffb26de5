---------------------------- MODULE KVDeleteAll ----------------------------
(***************************************************************************)
(* `fastly kv-store-entry delete --all`: DeleteAllKeys of                  *)
(* pkg/commands/kvstoreentry/delete.go.  One goroutine lists the keys page *)
(* by page into keysCh; a pool of workers takes them from it and deletes   *)
(* each with an API call; errorsCh holds the keys that failed, and a       *)
(* worker that finds it full stops.  The main goroutine waits for all of   *)
(* them.  Channels are sets here: no property depends on their order.      *)
(***************************************************************************)
EXTENDS Integers, FiniteSets

CONSTANTS
    Keys,       \* the keys the store holds at the start
    Workers,    \* the pool; as many as --concurrency
    MaxErrors,  \* --max-errors, the capacity of errorsCh
    QueueCap,   \* the capacity of keysCh
    PageSize    \* the most keys a page of the listing holds

ASSUME PoolAssumption ==
    /\ IsFiniteSet(Keys)
    /\ MaxErrors \in Nat
    /\ QueueCap \in Nat
    /\ PageSize \in Nat

VARIABLES
    store,      \* the keys the store holds (external)
    unlisted,   \* the keys no page has returned yet
    pending,    \* the keys of the current page that are not in keysCh yet
    listing,    \* "open", or how the listing ended: "complete", "failed"
    queued,     \* keysCh, closed when the listing has ended
    worker,     \* worker -> "idle", "drained" (keysCh closed), "stopped"; or busy
    holds,      \* worker -> the key it is deleting, as a set of at most one
    errors,     \* errorsCh
    dropped,    \* keys whose failure found errorsCh full
    outcome     \* "waiting", or what the command reported

vars == <<store, unlisted, pending, listing, queued, worker, holds, errors,
          dropped, outcome>>

Init ==
    /\ store = Keys
    /\ unlisted = Keys
    /\ pending = {}
    /\ listing = "open"
    /\ queued = {}
    /\ worker = [w \in Workers |-> "idle"]
    /\ holds = [w \in Workers |-> {}]
    /\ errors = {}
    /\ dropped = {}
    /\ outcome = "waiting"

-----------------------------------------------------------------------------
(* The producer *)

\* p.Next fetches a page (the paginator is external).
NextPage ==
    /\ listing = "open"
    /\ pending = {}
    /\ \E page \in SUBSET unlisted :
           /\ page # {}
           /\ Cardinality(page) <= PageSize
           /\ pending' = page
           /\ unlisted' = unlisted \ page
    /\ UNCHANGED <<store, listing, queued, worker, holds, errors, dropped, outcome>>

\* keysCh <- key blocks while the channel is full.
Push(k) ==
    /\ k \in pending
    /\ Cardinality(queued) < QueueCap
    /\ queued' = queued \cup {k}
    /\ pending' = pending \ {k}
    /\ UNCHANGED <<store, unlisted, listing, worker, holds, errors, dropped, outcome>>

\* p.Next returns false at the end of the listing and on an error alike, and
\* nothing reads p.Err: keysCh is closed.
EndListing ==
    /\ listing = "open"
    /\ pending = {}
    /\ listing' \in (IF unlisted = {} THEN {"complete", "failed"} ELSE {"failed"})
    /\ UNCHANGED <<store, unlisted, pending, queued, worker, holds, errors, dropped,
                   outcome>>

-----------------------------------------------------------------------------
(* The workers *)

Take(w, k) ==
    /\ worker[w] = "idle"
    /\ k \in queued
    /\ queued' = queued \ {k}
    /\ worker' = [worker EXCEPT ![w] = "busy"]
    /\ holds' = [holds EXCEPT ![w] = {k}]
    /\ UNCHANGED <<store, unlisted, pending, listing, errors, dropped, outcome>>

\* Mutant: the loop ends as soon as keysCh is empty.
DrainEarly(w) ==
    /\ worker[w] = "idle"
    /\ queued = {}
    /\ worker' = [worker EXCEPT ![w] = "drained"]
    /\ UNCHANGED <<store, unlisted, pending, listing, queued, holds, errors, dropped,
                   outcome>>
\* Mutant: keysCh is not closed when the listing fails.
DrainIfComplete(w) == listing = "complete" /\ DrainEarly(w)
\* The loop over keysCh ends once it is closed and empty.
Drain(w) ==
    /\ worker[w] = "idle"
    /\ listing # "open"
    /\ queued = {}
    /\ worker' = [worker EXCEPT ![w] = "drained"]
    /\ UNCHANGED <<store, unlisted, pending, listing, queued, holds, errors, dropped,
                   outcome>>

\* Mutant: the key is kept.
FinishHolding(w, state) ==
    /\ worker' = [worker EXCEPT ![w] = state]
    /\ UNCHANGED holds
Finish(w, state) ==
    /\ worker' = [worker EXCEPT ![w] = state]
    /\ holds' = [holds EXCEPT ![w] = {}]

Delete(w) ==
    /\ worker[w] = "busy"
    /\ store' = store \ holds[w]
    /\ Finish(w, "idle")
    /\ UNCHANGED <<unlisted, pending, listing, queued, errors, dropped, outcome>>

\* Mutant: a failure is recorded if there is room for two.
DeleteFailsLate(w) ==
    /\ worker[w] = "busy"
    /\ store' \in {store, store \ holds[w]}
    /\ \/ /\ Cardinality(errors) + 1 < MaxErrors
          /\ errors' = errors \cup holds[w]
          /\ Finish(w, "idle")
          /\ UNCHANGED dropped
       \/ /\ Cardinality(errors) + 1 >= MaxErrors
          /\ dropped' = dropped \cup holds[w]
          /\ Finish(w, "stopped")
          /\ UNCHANGED errors
    /\ UNCHANGED <<unlisted, pending, listing, queued, outcome>>
\* Mutant: a failure is neither recorded nor stops the worker.
DeleteFailsSilently(w) ==
    /\ worker[w] = "busy"
    /\ store' \in {store, store \ holds[w]}
    /\ Finish(w, "idle")
    /\ UNCHANGED <<unlisted, pending, listing, queued, errors, dropped, outcome>>
\* The call fails, whether or not the store applied it.  The key is recorded,
\* and the worker goes on, unless errorsCh is full.
DeleteFails(w) ==
    /\ worker[w] = "busy"
    /\ store' \in {store, store \ holds[w]}
    /\ \/ /\ Cardinality(errors) < MaxErrors
          /\ errors' = errors \cup holds[w]
          /\ Finish(w, "idle")
          /\ UNCHANGED dropped
       \/ /\ Cardinality(errors) >= MaxErrors
          /\ dropped' = dropped \cup holds[w]
          /\ Finish(w, "stopped")
          /\ UNCHANGED errors
    /\ UNCHANGED <<unlisted, pending, listing, queued, outcome>>

-----------------------------------------------------------------------------

\* wg.Wait returns; the outcome depends on the keys found in errorsCh.
Report ==
    /\ outcome = "waiting"
    /\ listing # "open"
    /\ \A w \in Workers : worker[w] \in {"drained", "stopped"}
    /\ outcome' = IF errors = {} THEN "success" ELSE "failure"
    /\ UNCHANGED <<store, unlisted, pending, listing, queued, worker, holds, errors,
                   dropped>>

Producer == NextPage \/ EndListing \/ \E k \in pending : Push(k)
Work(w) == (\E k \in queued : Take(w, k)) \/ Drain(w) \/ Delete(w) \/ DeleteFails(w)

Next == Producer \/ (\E w \in Workers : Work(w)) \/ Report

\* Every goroutine that can run does.
Fairness == WF_vars(Producer) /\ WF_vars(Report) /\ \A w \in Workers : WF_vars(Work(w))

Safety == Init /\ [][Next]_vars
Spec == Safety /\ Fairness

-----------------------------------------------------------------------------
(* Properties *)

\* Types, and a worker has a key while it is busy.
TypeOK ==
    /\ store \subseteq Keys /\ unlisted \subseteq Keys /\ pending \subseteq Keys
    /\ queued \subseteq Keys /\ errors \subseteq Keys /\ dropped \subseteq Keys
    /\ listing \in {"open", "complete", "failed"}
    /\ worker \in [Workers -> {"idle", "busy", "drained", "stopped"}]
    /\ holds \in [Workers -> SUBSET Keys]
    /\ outcome \in {"waiting", "success", "failure"}
    /\ \A w \in Workers : worker[w] = "busy" <=> holds[w] # {}

\* A key that is still in the store is somewhere the command knows of: still to
\* be listed, on its way to a worker, or among the failures.
NoKeyForgotten ==
    \A k \in store :
        \/ k \in unlisted \cup pending \cup queued \cup errors \cup dropped
        \/ \E w \in Workers : k \in holds[w]

\* When the listing was complete and some worker and some error are allowed for,
\* "Deleted all keys" (delete.go:226) is only said of an empty store.
CompleteListingEmpties ==
    (outcome = "success" /\ listing = "complete" /\ MaxErrors > 0 /\ Workers # {})
        => store = {}

\* "The number of errors to accept before stopping" (delete.go:61): a deletion
\* that stopped a worker is not reported as a success.
NoFailureHidden == outcome = "success" => dropped = {}

\* "Once that limit is reached we'll stop the 2. set of goroutines"
\* (delete.go:171): the command ends, whatever fails.
Stops == <>(outcome # "waiting")

\* The command ends whatever fails, however few keys keysCh can hold, unless the
\* failures have stopped every worker.
StopsWithAWorker == <>(outcome # "waiting" \/ \A w \in Workers : worker[w] = "stopped")
=============================================================================
