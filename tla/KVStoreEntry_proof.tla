------------------------- MODULE KVStoreEntry_proof -------------------------
(***************************************************************************)
(* Theorems about the bulk commands of kv-store-entry: `delete --all`, for *)
(* any keys, pool, page size and channel capacities, and `create --dir`,   *)
(* for any files and any concurrency.                                      *)
(***************************************************************************)
EXTENDS KVDeleteAll, KVUpload, FiniteSetTheorems, TLAPS

\* Once the listing has ended nothing is left to push, and a complete one has
\* returned every key; a worker only drains a closed, empty channel.
ListingDone ==
    /\ listing # "open" => pending = {}
    /\ listing = "complete" => unlisted = {}
    /\ \A w \in Workers : worker[w] = "drained" => listing # "open" /\ queued = {}

\* A worker stops, and a failure is dropped, only when errorsCh is full.
StoppedMeansErrors ==
    MaxErrors > 0 =>
        /\ dropped # {} => errors # {}
        /\ \A w \in Workers : worker[w] = "stopped" => errors # {}

\* The outcome is that of the final state of the channels.
ReportFinal ==
    /\ outcome # "waiting" =>
           listing # "open" /\ \A w \in Workers : worker[w] \in {"drained", "stopped"}
    /\ outcome = "success" => errors = {}

Inv == TypeOK /\ NoKeyForgotten /\ ListingDone /\ StoppedMeansErrors /\ ReportFinal

LEMMA InitInv == Init => Inv
BY DEF Init, Inv, TypeOK, NoKeyForgotten, ListingDone, StoppedMeansErrors, ReportFinal

LEMMA NextPageInv == ASSUME Inv, NextPage PROVE Inv'
<1>1. PICK page \in SUBSET unlisted :
        page # {} /\ pending' = page /\ unlisted' = unlisted \ page
  BY DEF NextPage
<1>2. TypeOK'
  BY <1>1 DEF Inv, TypeOK, NextPage
<1>3. NoKeyForgotten'
  BY <1>1 DEF Inv, NoKeyForgotten, NextPage
<1>4. ListingDone' /\ StoppedMeansErrors' /\ ReportFinal'
  BY <1>1 DEF Inv, ListingDone, StoppedMeansErrors, ReportFinal, NextPage
<1> QED
  BY <1>2, <1>3, <1>4 DEF Inv

LEMMA PushInv == ASSUME Inv, NEW k \in pending, Push(k) PROVE Inv'
<1>1. TypeOK'
  BY DEF Inv, TypeOK, Push
<1>2. NoKeyForgotten'
  BY DEF Inv, NoKeyForgotten, Push
<1>3. ListingDone' /\ StoppedMeansErrors' /\ ReportFinal'
  BY DEF Inv, ListingDone, StoppedMeansErrors, ReportFinal, Push
<1> QED
  BY <1>1, <1>2, <1>3 DEF Inv

LEMMA EndListingInv == ASSUME Inv, EndListing PROVE Inv'
<1>1. TypeOK'
  BY DEF Inv, TypeOK, EndListing
<1>2. NoKeyForgotten'
  BY DEF Inv, NoKeyForgotten, EndListing
<1>3. ListingDone' /\ StoppedMeansErrors' /\ ReportFinal'
  BY DEF Inv, ListingDone, StoppedMeansErrors, ReportFinal, EndListing
<1> QED
  BY <1>1, <1>2, <1>3 DEF Inv

LEMMA TakeInv == ASSUME Inv, NEW w \in Workers, NEW k \in queued, Take(w, k) PROVE Inv'
<1>1. TypeOK'
  BY DEF Inv, TypeOK, Take
<1>2. holds'[w] = {k} /\ worker'[w] = "busy" /\ holds[w] = {}
  BY DEF Inv, TypeOK, Take
<1>3. \A v \in Workers \ {w} : holds'[v] = holds[v] /\ worker'[v] = worker[v]
  BY DEF Inv, TypeOK, Take
<1>4. NoKeyForgotten'
  BY <1>2, <1>3 DEF Inv, NoKeyForgotten, Take
<1>5. ListingDone' /\ StoppedMeansErrors' /\ ReportFinal'
  BY <1>2, <1>3 DEF Inv, ListingDone, StoppedMeansErrors, ReportFinal, Take
<1> QED
  BY <1>1, <1>4, <1>5 DEF Inv

LEMMA DrainInv == ASSUME Inv, NEW w \in Workers, Drain(w) PROVE Inv'
<1>1. TypeOK'
  BY DEF Inv, TypeOK, Drain
<1>2. worker'[w] = "drained" /\ \A v \in Workers \ {w} : worker'[v] = worker[v]
  BY DEF Inv, TypeOK, Drain
<1>3. NoKeyForgotten'
  BY DEF Inv, NoKeyForgotten, Drain
<1>4. ListingDone' /\ StoppedMeansErrors' /\ ReportFinal'
  BY <1>2 DEF Inv, ListingDone, StoppedMeansErrors, ReportFinal, Drain
<1> QED
  BY <1>1, <1>3, <1>4 DEF Inv

\* What Finish does to the worker and to the others.
LEMMA FinishWorker ==
    ASSUME TypeOK, NEW w \in Workers, NEW s \in {"idle", "stopped"}, Finish(w, s)
    PROVE  /\ worker' \in [Workers -> {"idle", "busy", "drained", "stopped"}]
           /\ holds' \in [Workers -> SUBSET Keys]
           /\ worker'[w] = s /\ holds'[w] = {}
           /\ \A v \in Workers \ {w} : worker'[v] = worker[v] /\ holds'[v] = holds[v]
BY DEF TypeOK, Finish

LEMMA DeleteInv == ASSUME Inv, NEW w \in Workers, Delete(w) PROVE Inv'
<1>1. /\ worker' \in [Workers -> {"idle", "busy", "drained", "stopped"}]
      /\ holds' \in [Workers -> SUBSET Keys]
      /\ worker'[w] = "idle" /\ holds'[w] = {} /\ worker[w] = "busy"
      /\ \A v \in Workers \ {w} : worker'[v] = worker[v] /\ holds'[v] = holds[v]
  BY FinishWorker DEF Inv, Delete
<1>2. TypeOK'
  BY <1>1 DEF Inv, TypeOK, Delete
<1>3. NoKeyForgotten'
  BY <1>1 DEF Inv, NoKeyForgotten, Delete
<1>4. ListingDone' /\ StoppedMeansErrors' /\ ReportFinal'
  BY <1>1 DEF Inv, ListingDone, StoppedMeansErrors, ReportFinal, Delete
<1> QED
  BY <1>2, <1>3, <1>4 DEF Inv

LEMMA DeleteFailsInv == ASSUME Inv, NEW w \in Workers, DeleteFails(w) PROVE Inv'
<1>1. worker[w] = "busy" /\ holds[w] \subseteq Keys /\ holds[w] # {}
  BY DEF Inv, TypeOK, DeleteFails
<1>2. CASE /\ errors' = errors \cup holds[w]
           /\ Finish(w, "idle")
           /\ UNCHANGED dropped
  <2>1. /\ worker' \in [Workers -> {"idle", "busy", "drained", "stopped"}]
        /\ holds' \in [Workers -> SUBSET Keys]
        /\ worker'[w] = "idle" /\ holds'[w] = {}
        /\ \A v \in Workers \ {w} : worker'[v] = worker[v] /\ holds'[v] = holds[v]
    BY <1>2, FinishWorker DEF Inv
  <2>2. TypeOK'
    BY <1>1, <1>2, <2>1 DEF Inv, TypeOK, DeleteFails
  <2>3. NoKeyForgotten'
    BY <1>1, <1>2, <2>1 DEF Inv, NoKeyForgotten, DeleteFails
  <2>4. ListingDone' /\ StoppedMeansErrors' /\ ReportFinal'
    BY <1>1, <1>2, <2>1
       DEF Inv, ListingDone, StoppedMeansErrors, ReportFinal, DeleteFails
  <2> QED
    BY <2>2, <2>3, <2>4 DEF Inv
<1>3. CASE /\ Cardinality(errors) >= MaxErrors
           /\ dropped' = dropped \cup holds[w]
           /\ Finish(w, "stopped")
           /\ UNCHANGED errors
  <2>1. /\ worker' \in [Workers -> {"idle", "busy", "drained", "stopped"}]
        /\ holds' \in [Workers -> SUBSET Keys]
        /\ worker'[w] = "stopped" /\ holds'[w] = {}
        /\ \A v \in Workers \ {w} : worker'[v] = worker[v] /\ holds'[v] = holds[v]
    BY <1>3, FinishWorker DEF Inv
  <2>2. MaxErrors > 0 => errors # {}
    BY <1>3, FS_EmptySet, PoolAssumption
  <2>3. TypeOK'
    BY <1>1, <1>3, <2>1 DEF Inv, TypeOK, DeleteFails
  <2>4. NoKeyForgotten'
    BY <1>1, <1>3, <2>1 DEF Inv, NoKeyForgotten, DeleteFails
  <2>5. ListingDone' /\ StoppedMeansErrors' /\ ReportFinal'
    BY <1>1, <1>3, <2>1, <2>2
       DEF Inv, ListingDone, StoppedMeansErrors, ReportFinal, DeleteFails
  <2> QED
    BY <2>3, <2>4, <2>5 DEF Inv
<1> QED
  BY <1>2, <1>3 DEF DeleteFails

LEMMA ReportInv == ASSUME Inv, Report PROVE Inv'
<1>1. TypeOK'
  BY DEF Inv, TypeOK, Report
<1>2. NoKeyForgotten'
  BY DEF Inv, NoKeyForgotten, Report
<1>3. ListingDone' /\ StoppedMeansErrors' /\ ReportFinal'
  BY DEF Inv, ListingDone, StoppedMeansErrors, ReportFinal, Report
<1> QED
  BY <1>1, <1>2, <1>3 DEF Inv

\* The inductive invariant holds of every run of the command.
THEOREM PoolInvariant == Safety => []Inv
<1>1. Inv /\ [Next]_vars => Inv'
  <2> SUFFICES ASSUME Inv, [Next]_vars PROVE Inv'
    OBVIOUS
  <2>1. CASE Producer
    BY <2>1, NextPageInv, EndListingInv, PushInv DEF Producer
  <2>2. ASSUME NEW w \in Workers, Work(w) PROVE Inv'
    BY <2>2, TakeInv, DrainInv, DeleteInv, DeleteFailsInv DEF Work
  <2>3. CASE Report
    BY <2>3, ReportInv
  <2>4. CASE UNCHANGED vars
    BY <2>4 DEF vars, Inv, TypeOK, NoKeyForgotten, ListingDone, StoppedMeansErrors,
                ReportFinal
  <2> QED
    BY <2>1, <2>2, <2>3, <2>4 DEF Next
<1> QED
  BY InitInv, <1>1, PTL DEF Safety

\* The state of the goroutines and channels keeps its types.
THEOREM PoolTypeCorrect == Safety => []TypeOK
<1>1. Inv => TypeOK
  BY DEF Inv
<1> QED
  BY <1>1, PoolInvariant, PTL

\* A key that is still in the store is always accounted for.
THEOREM KeysAccountedFor == Safety => []NoKeyForgotten
<1>1. Inv => NoKeyForgotten
  BY DEF Inv
<1> QED
  BY <1>1, PoolInvariant, PTL

\* If any error at all is accepted, a deletion that stopped a worker is never
\* reported as a success.
THEOREM FailuresShow == ASSUME MaxErrors > 0 PROVE Safety => []NoFailureHidden
<1>1. Inv => NoFailureHidden
  BY DEF Inv, StoppedMeansErrors, ReportFinal, NoFailureHidden
<1> QED
  BY <1>1, PoolInvariant, PTL

\* With some worker and some error allowed for, a success that follows a
\* complete listing is only reported of an empty store.
THEOREM CompleteListingIsEmptied == Safety => []CompleteListingEmpties
<1>1. Inv => CompleteListingEmpties
  <2> SUFFICES ASSUME Inv, outcome = "success", listing = "complete", MaxErrors > 0,
                      NEW v \in Workers, NEW k \in store
               PROVE  FALSE
    BY DEF CompleteListingEmpties
  <2>1. errors = {} /\ dropped = {} /\ \A w \in Workers : worker[w] = "drained"
    BY DEF Inv, ReportFinal, StoppedMeansErrors
  <2>2. queued = {} /\ pending = {} /\ unlisted = {}
    BY <2>1 DEF Inv, ListingDone
  <2>3. \A w \in Workers : holds[w] = {}
    BY <2>1 DEF Inv, TypeOK
  <2> QED
    BY <2>1, <2>2, <2>3 DEF Inv, NoKeyForgotten
<1> QED
  BY <1>1, PoolInvariant, PTL

-----------------------------------------------------------------------------
(* kv-store-entry create --dir.                                            *)

Finished == {"done", "counted", "gone"}

\* A goroutine is finished with a file when it is in the store or named as a failure,
\* and all of them are when the command reports.
FilesDone ==
    /\ uploaded \subseteq Files
    /\ phase \in [Files -> {"spawned", "open", "retry"} \cup Finished]
    /\ \A f \in Files :
           phase[f] \in Finished => f \in uploaded \/ f \in processingErrors
    /\ told \in {"waiting", "success", "failure"}
    /\ told # "waiting" => \A f \in Files : phase[f] \in Finished
    /\ told = "success" => processingErrors = {}

LEMMA FilesInit == UploadInit => FilesDone
BY DEF UploadInit, FilesDone, Finished

LEMMA FilesUpload == ASSUME FilesDone, NEW f \in Files, Upload(f) PROVE FilesDone'
<1> USE DEF FilesDone, Finished, Goto
<1>1. CASE Acquire(f)
  BY <1>1 DEF Acquire
<1>2. CASE Insert(f)
  BY <1>2 DEF Insert
<1>3. CASE LoseConnection(f)
  BY <1>3 DEF LoseConnection
<1>4. CASE Fail(f)
  BY <1>4 DEF Fail
<1>5. CASE SendProcessed(f) \/ Release(f)
  BY <1>5 DEF SendProcessed, Release
<1> QED
  BY <1>1, <1>2, <1>3, <1>4, <1>5 DEF Upload

LEMMA FilesStep == FilesDone /\ [UploadNext]_uploadVars => FilesDone'
<1> SUFFICES ASSUME FilesDone, [UploadNext]_uploadVars PROVE FilesDone'
  OBVIOUS
<1>1. CASE \E f \in Files : Upload(f)
  BY <1>1, FilesUpload
<1>2. CASE Count \/ UNCHANGED uploadVars
  BY <1>2 DEF Count, uploadVars, FilesDone
<1>3. CASE ReportUpload
  BY <1>3 DEF ReportUpload, FilesDone, Finished
<1> QED
  BY <1>1, <1>2, <1>3 DEF UploadNext

\* "Inserted n keys into KV Store" is only said when every file is there, and otherwise
\* each one that is not is listed, however the goroutines and the counter are
\* interleaved and whatever call is retried (ProcessDir, kvstoreentry/create.go).
THEOREM UploadsAreTold == UploadSafety => []EveryFileTold
<1>1. FilesDone => EveryFileTold
  BY DEF FilesDone, Finished, EveryFileTold
<1> QED
  BY FilesInit, FilesStep, <1>1, PTL DEF UploadSafety

=============================================================================
