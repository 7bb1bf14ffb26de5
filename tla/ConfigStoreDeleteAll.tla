------------------------ MODULE ConfigStoreDeleteAll ------------------------
(***************************************************************************)
(* `fastly config-store-entry delete --all`: deleteAllKeys of              *)
(* pkg/commands/configstoreentry/delete.go.  The items are listed at once  *)
(* and cut into batches; every batch gets a goroutine, and a semaphore     *)
(* lets only so many of them delete at a time.  A goroutine is named by    *)
(* the value of i its batch starts at; items are numbered from 1.          *)
(***************************************************************************)
EXTENDS Integers, FiniteSets

CONSTANTS
    Total,      \* the items listed
    PoolSize,   \* --concurrency, the capacity of the semaphore
    BatchSize   \* --batch-size

ASSUME BatchAssumption == Total \in Nat /\ PoolSize \in Nat /\ BatchSize \in Nat \ {0}

Items == 1 .. Total
Starts == 0 .. Total

VARIABLES
    store,      \* the items in the store (external)
    i,          \* the loop of the main goroutine
    phase,      \* goroutine -> "none", "waiting", "deleting", "done", "gone"
    batch,      \* goroutine -> the items it has still to delete
    failedKeys,
    outcome     \* "waiting", or what the command reported

vars == <<store, i, phase, batch, failedKeys, outcome>>

Init ==
    /\ store = Items
    /\ i = 0
    /\ phase = [s \in Starts |-> "none"]
    /\ batch = [s \in Starts |-> {}]
    /\ failedKeys = {}
    /\ outcome = "waiting"

\* Mutant: the last batch is kept below the total.
EndShort(s) == IF s + BatchSize > Total - 1 THEN Total - 1 ELSE s + BatchSize
End(s) == IF s + BatchSize > Total THEN Total ELSE s + BatchSize

\* Mutant: the last item of a batch is the first of the next.
SpawnOverlapping ==
    /\ i < Total
    /\ phase' = [phase EXCEPT ![i] = "waiting"]
    /\ batch' = [batch EXCEPT ![i] = i + 1 .. End(i)]
    /\ i' = i + BatchSize - 1
    /\ UNCHANGED <<store, failedKeys, outcome>>
Spawn ==
    /\ i < Total
    /\ phase' = [phase EXCEPT ![i] = "waiting"]
    /\ batch' = [batch EXCEPT ![i] = i + 1 .. End(i)]
    /\ i' = i + BatchSize
    /\ UNCHANGED <<store, failedKeys, outcome>>

\* A slot of the semaphore is taken until the deferred receive.
Slots == {s \in Starts : phase[s] \in {"deleting", "done"}}

Acquire(s) ==
    /\ phase[s] = "waiting"
    /\ Cardinality(Slots) < PoolSize
    /\ phase' = [phase EXCEPT ![s] = "deleting"]
    /\ UNCHANGED <<store, i, batch, failedKeys, outcome>>

\* A failure, of a deletion that may have been applied, is recorded and the
\* goroutine goes on.
Delete(s, k) ==
    /\ phase[s] = "deleting"
    /\ k \in batch[s]
    /\ batch' = [batch EXCEPT ![s] = @ \ {k}]
    /\ \/ store' = store \ {k} /\ UNCHANGED failedKeys
       \/ store' \in {store, store \ {k}} /\ failedKeys' = failedKeys \cup {k}
    /\ UNCHANGED <<i, phase, outcome>>

\* wg.Done runs before the slot is given back.
Done(s) ==
    /\ phase[s] = "deleting"
    /\ batch[s] = {}
    /\ phase' = [phase EXCEPT ![s] = "done"]
    /\ UNCHANGED <<store, i, batch, failedKeys, outcome>>

\* Mutant: the slot is kept.
ReleaseNever(s) == phase[s] = "done" /\ UNCHANGED vars
Release(s) ==
    /\ phase[s] = "done"
    /\ phase' = [phase EXCEPT ![s] = "gone"]
    /\ UNCHANGED <<store, i, batch, failedKeys, outcome>>

\* wg.Wait returns once every batch has been spawned and is done.
Report ==
    /\ outcome = "waiting"
    /\ i >= Total
    /\ \A s \in Starts : phase[s] \in {"none", "done", "gone"}
    /\ outcome' = IF failedKeys = {} THEN "success" ELSE "failure"
    /\ UNCHANGED <<store, i, phase, batch, failedKeys>>

Work(s) == Acquire(s) \/ (\E k \in batch[s] : Delete(s, k)) \/ Done(s) \/ Release(s)

Next == Spawn \/ Report \/ \E s \in Starts : Work(s)

Safety == Init /\ [][Next]_vars
\* Every goroutine runs, and a semaphore with a free slot lets one of those that
\* wait for it through.
Spec == Safety /\ WF_vars(Spawn \/ Report) /\ WF_vars(\E s \in Starts : Work(s))

-----------------------------------------------------------------------------
(* Properties *)

\* An item is deleted by one goroutine only.
BatchesDisjoint == \A s, t \in Starts : s # t => batch[s] \cap batch[t] = {}

\* Every item that is still in the store will be deleted or is a failure, and the
\* ones not deleted when the command ends are those it names (delete.go:180).
LeftoversNamed ==
    \A k \in store :
        \/ k > i
        \/ k \in failedKeys
        \/ \E s \in Starts : k \in batch[s]

\* The command ends if the semaphore has a slot.
BatchesEnd == PoolSize > 0 => <>(outcome # "waiting")
=============================================================================
