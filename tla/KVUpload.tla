------------------------------ MODULE KVUpload ------------------------------
(***************************************************************************)
(* `fastly kv-store-entry create --dir`: ProcessDir of                     *)
(* pkg/commands/kvstoreentry/create.go.  Every file has a goroutine, a     *)
(* semaphore lets only so many of them upload at a time, and each reports  *)
(* to a counter through the channel processed when it is done.  The count  *)
(* itself, which is only shown, is left out.                               *)
(***************************************************************************)
EXTENDS Integers, FiniteSets

CONSTANTS
    Files,          \* the files of the directory
    Concurrency     \* --dir-concurrency, the capacity of sem and of processed

ASSUME UploadAssumption ==
    /\ IsFiniteSet(Files)
    /\ Concurrency \in Nat

VARIABLES
    uploaded,           \* the files the store holds (external)
    phase,              \* goroutine -> where it is
    processed,          \* the number of tokens in the channel
    processingErrors,
    told                \* "waiting", or what the command reported

uploadVars == <<uploaded, phase, processed, processingErrors, told>>

UploadInit ==
    /\ uploaded = {}
    /\ phase = [f \in Files |-> "spawned"]
    /\ processed = 0
    /\ processingErrors = {}
    /\ told = "waiting"

\* A slot of sem is taken until the last deferred receive.
Slots == {f \in Files : phase[f] \in {"open", "retry", "done", "counted"}}

Goto(f, p) == phase' = [phase EXCEPT ![f] = p]

Acquire(f) ==
    /\ phase[f] = "spawned"
    /\ Cardinality(Slots) < Concurrency
    /\ Goto(f, "open")
    /\ UNCHANGED <<uploaded, processed, processingErrors, told>>

Insert(f) ==
    /\ phase[f] \in {"open", "retry"}
    /\ uploaded' = uploaded \cup {f}
    /\ Goto(f, "done")
    /\ UNCHANGED <<processed, processingErrors, told>>

\* The connection was lost, the first time, before the call was applied or
\* after: try once more.
LoseConnection(f) ==
    /\ phase[f] = "open"
    /\ uploaded' \in {uploaded, uploaded \cup {f}}
    /\ Goto(f, "retry")
    /\ UNCHANGED <<processed, processingErrors, told>>

\* Mutant: the error of the second attempt is not looked at.
FailFirst(f) ==
    /\ phase[f] \in {"open", "retry"}
    /\ uploaded' \in {uploaded, uploaded \cup {f}}
    /\ processingErrors' = IF phase[f] = "retry" THEN processingErrors
                                                 ELSE processingErrors \cup {f}
    /\ Goto(f, "done")
    /\ UNCHANGED <<processed, told>>

\* The file cannot be read or the API call fails, applied or not.
Fail(f) ==
    /\ phase[f] \in {"open", "retry"}
    /\ uploaded' \in {uploaded, uploaded \cup {f}}
    /\ processingErrors' = processingErrors \cup {f}
    /\ Goto(f, "done")
    /\ UNCHANGED <<processed, told>>

\* wg.Done has run; processed <- struct{}{} comes after it.
SendProcessed(f) ==
    /\ phase[f] = "done"
    /\ processed < Concurrency
    /\ processed' = processed + 1
    /\ Goto(f, "counted")
    /\ UNCHANGED <<uploaded, processingErrors, told>>

\* Mutant: the slot is kept.
ReleaseNever(f) == phase[f] = "counted" /\ UNCHANGED uploadVars

Release(f) ==
    /\ phase[f] = "counted"
    /\ Goto(f, "gone")
    /\ UNCHANGED <<uploaded, processed, processingErrors, told>>

Count ==
    /\ processed > 0
    /\ processed' = processed - 1
    /\ UNCHANGED <<uploaded, phase, processingErrors, told>>

\* wg.Wait returns.
ReportUpload ==
    /\ told = "waiting"
    /\ \A f \in Files : phase[f] \in {"done", "counted", "gone"}
    /\ told' = IF processingErrors = {} THEN "success" ELSE "failure"
    /\ UNCHANGED <<uploaded, phase, processed, processingErrors>>

Upload(f) ==
    \/ Acquire(f) \/ Insert(f) \/ LoseConnection(f) \/ Fail(f)
    \/ SendProcessed(f) \/ Release(f)

UploadNext == (\E f \in Files : Upload(f)) \/ Count \/ ReportUpload

UploadSafety == UploadInit /\ [][UploadNext]_uploadVars

\* Every goroutine that can run does.
UploadSpec ==
    /\ UploadSafety
    /\ WF_uploadVars(Count) /\ WF_uploadVars(ReportUpload)
    /\ WF_uploadVars(\E f \in Files : Upload(f))

-----------------------------------------------------------------------------
(* Properties *)

\* "Inserted n keys into KV Store" (create.go:353) is only said when every file is
\* there; otherwise the files that are not are among the ones listed.
EveryFileTold ==
    /\ told = "success" => uploaded = Files
    /\ told = "failure" => Files \ uploaded \subseteq processingErrors

\* The command ends: the counter never keeps the goroutines from their slots.
UploadEnds == Concurrency > 0 => <>(told # "waiting")
=============================================================================
