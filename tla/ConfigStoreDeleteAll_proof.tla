--------------------- MODULE ConfigStoreDeleteAll_proof ---------------------
(***************************************************************************)
(* Theorems about `fastly config-store-entry delete --all`, for any number *)
(* of items, any capacity of the semaphore and any size of a batch.        *)
(***************************************************************************)
EXTENDS ConfigStoreDeleteAll, TLAPS

TypeOK ==
    /\ store \subseteq Items
    /\ i \in Nat
    /\ phase \in [Starts -> {"none", "waiting", "deleting", "done", "gone"}]
    /\ batch \in [Starts -> SUBSET Items]
    /\ failedKeys \subseteq Items

\* A goroutine keeps to the items behind the one it starts at, and the loop is past
\* them once it runs.
Blocks ==
    \A s \in Starts : batch[s] # {} =>
        /\ batch[s] \subseteq s + 1 .. s + BatchSize
        /\ s + BatchSize <= i

\* The goroutines that have items left start a batch apart.
Apart ==
    \A s, t \in Starts :
        batch[s] # {} /\ batch[t] # {} /\ s < t => s + BatchSize <= t

BatchInv == TypeOK /\ Blocks /\ Apart /\ LeftoversNamed

LEMMA BatchInit == Init => BatchInv
BY BatchAssumption
DEF Init, BatchInv, TypeOK, Blocks, Apart, LeftoversNamed, Items, Starts

\* The loop takes the next items, which no goroutine has.
LEMMA SpawnInv == ASSUME BatchInv, Spawn PROVE BatchInv'
<1>1. /\ i \in Nat /\ i \in Starts /\ i < Total /\ Total \in Nat
      /\ BatchSize \in Nat \ {0} /\ i' = i + BatchSize
      /\ UNCHANGED <<store, failedKeys>>
  BY BatchAssumption DEF Spawn, BatchInv, TypeOK, Starts
<1>2. /\ End(i) \in Nat /\ End(i) <= i + BatchSize /\ End(i) <= Total
      /\ \A k \in Items : k > i => k <= End(i) \/ k > i + BatchSize
  BY <1>1 DEF End, Items
<1>3. /\ batch'[i] = i + 1 .. End(i)
      /\ \A s \in Starts \ {i} : batch'[s] = batch[s]
  BY <1>1 DEF Spawn, BatchInv, TypeOK
<1>4. batch[i] = {}
  BY <1>1 DEF BatchInv, Blocks
<1>5. TypeOK'
  <2>1. i + 1 .. End(i) \subseteq Items
    BY <1>1, <1>2 DEF Items
  <2> QED
    BY <1>1, <2>1 DEF Spawn, BatchInv, TypeOK
<1>6. Blocks'
  BY <1>1, <1>2, <1>3 DEF BatchInv, Blocks, Starts
<1>7. Apart'
  BY <1>1, <1>3, <1>4 DEF BatchInv, Blocks, Apart, Starts
<1>8. LeftoversNamed'
  <2> SUFFICES ASSUME NEW k \in store, k \notin failedKeys, ~(k > i + BatchSize)
               PROVE  \E s \in Starts : k \in batch'[s]
    BY <1>1 DEF LeftoversNamed
  <2>1. k \in Items
    BY DEF BatchInv, TypeOK
  <2>2. CASE k > i
    BY <1>1, <1>2, <1>3, <2>1, <2>2 DEF Items
  <2>3. CASE \E s \in Starts : k \in batch[s]
    BY <1>3, <1>4, <2>3
  <2> QED
    BY <2>2, <2>3 DEF BatchInv, LeftoversNamed
<1> QED
  BY <1>5, <1>6, <1>7, <1>8 DEF BatchInv

\* An item leaves its batch when it is deleted or named.
LEMMA DeleteInv ==
    ASSUME BatchInv, NEW s \in Starts, NEW k \in batch[s], Delete(s, k) PROVE BatchInv'
<1>1. /\ batch' = [batch EXCEPT ![s] = @ \ {k}] /\ UNCHANGED <<i, phase>>
      /\ store' \subseteq store /\ failedKeys' \subseteq failedKeys \cup {k}
      /\ k \in store' => k \in failedKeys'
      /\ failedKeys \subseteq failedKeys'
  BY DEF Delete
<1>2. \A t \in Starts : batch'[t] \subseteq batch[t] /\ batch[t] \subseteq batch'[t] \cup {k}
  BY <1>1 DEF BatchInv, TypeOK
<1>3. TypeOK'
  BY <1>1 DEF BatchInv, TypeOK
<1>4. Blocks' /\ Apart'
  BY <1>1, <1>2 DEF BatchInv, Blocks, Apart
<1>5. LeftoversNamed'
  BY <1>1, <1>2 DEF BatchInv, LeftoversNamed
<1> QED
  BY <1>3, <1>4, <1>5 DEF BatchInv

LEMMA BatchStep == BatchInv /\ [Next]_vars => BatchInv'
<1> SUFFICES ASSUME BatchInv, [Next]_vars PROVE BatchInv'
  OBVIOUS
<1>1. CASE Spawn
  BY <1>1, SpawnInv
<1>2. ASSUME NEW s \in Starts, NEW k \in batch[s], Delete(s, k) PROVE BatchInv'
  BY <1>2, DeleteInv
<1>3. ASSUME UNCHANGED <<store, i, batch, failedKeys>>, phase' = phase \/
             \E s \in Starts : \E p \in {"deleting", "done", "gone"} :
                 phase' = [phase EXCEPT ![s] = p]
      PROVE  BatchInv'
  BY <1>3 DEF BatchInv, TypeOK, Blocks, Apart, LeftoversNamed
<1>4. CASE Report \/ UNCHANGED vars
  BY <1>3, <1>4 DEF Report, vars
<1>5. CASE \E s \in Starts : Acquire(s) \/ Done(s) \/ Release(s)
  BY <1>3, <1>5 DEF Acquire, Done, Release
<1> QED
  BY <1>1, <1>2, <1>4, <1>5 DEF Next, Work

LEMMA BatchAlways == Safety => []BatchInv
BY BatchInit, BatchStep, PTL DEF Safety

\* However many goroutines run at a time, no two of them have the same item to delete:
\* the loop cuts the listing into batches that do not overlap, the last one included
\* (deleteAllKeys, configstoreentry/delete.go).
THEOREM NoItemTwice == Safety => []BatchesDisjoint
<1>1. BatchInv => BatchesDisjoint
  <2> SUFFICES ASSUME BatchInv, NEW s \in Starts, NEW t \in Starts, s < t
               PROVE  batch[s] \cap batch[t] = {}
    BY BatchAssumption DEF BatchesDisjoint, Starts
  <2>1. s \in Nat /\ t \in Nat /\ BatchSize \in Nat
    BY BatchAssumption DEF Starts
  <2> QED
    BY <2>1 DEF BatchInv, Blocks, Apart
<1> QED
  BY <1>1, BatchAlways, PTL

\* An item that is still in the store has still to be taken up, is in the batch of a
\* goroutine, or is one of the failures the command lists in the end (failedKeys).
THEOREM NoItemForgotten == Safety => []LeftoversNamed
<1>1. BatchInv => LeftoversNamed
  BY DEF BatchInv
<1> QED
  BY <1>1, BatchAlways, PTL

=============================================================================
