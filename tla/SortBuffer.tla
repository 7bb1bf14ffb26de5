----------------------------- MODULE SortBuffer -----------------------------
(***************************************************************************)
(* What `fastly log-tail` promises for the logs it has received (the       *)
(* --sort-buffer flag of pkg/commands/logtail/root.go): a received log is  *)
(* held, and later leaves the buffer for good; the logs of one request     *)
(* leave it lowest sequence number first; those of a stream the user asked *)
(* for are printed.  How long each is held, and the timers that decide it, *)
(* belong to LogTailOutput, which implements this module.                  *)
(***************************************************************************)
EXTENDS Integers

CONSTANTS
    RequestIDs,  \* the requests whose logs are tailed
    LogsOf(_),   \* every log of a request that may be received
    Wanted(_)    \* whether the --stream flag keeps a log

VARIABLES
    held,        \* request -> the logs received and not yet printed
    printed      \* the logs written to the terminal

abstractVars == <<held, printed>>

AbsInit ==
    /\ held = [r \in RequestIDs |-> {}]
    /\ printed = {}

\* A batch arrives: every request it mentions holds more logs.
Accept ==
    /\ held' \in [RequestIDs -> SUBSET UNION {LogsOf(r) : r \in RequestIDs}]
    /\ \A r \in RequestIDs : held[r] \subseteq held'[r]
    /\ UNCHANGED printed

\* The lowest logs of one request leave the buffer together.
Release(r) ==
    \E low \in SUBSET held[r] :
        /\ \A l \in low, k \in held[r] \ low : l.seq < k.seq
        /\ held' = [held EXCEPT ![r] = @ \ low]
        /\ printed' = printed \cup {l \in low : Wanted(l)}

AbsNext == Accept \/ \E r \in RequestIDs : Release(r)

AbsSpec == AbsInit /\ [][AbsNext]_abstractVars
=============================================================================
