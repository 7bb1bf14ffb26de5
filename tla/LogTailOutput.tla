--------------------------- MODULE LogTailOutput ---------------------------
(***************************************************************************)
(* outputLoop of pkg/commands/logtail/root.go: the goroutine that buffers  *)
(* the logs it receives, per request, sorts them by sequence number and    *)
(* prints them when the timer of the batch they came in has run out.       *)
(*                                                                         *)
(* The slice of buffered logs is always sorted when it is read, so it is a *)
(* set here: "append and sort" is union, and splitting it at findIdxBySeq  *)
(* separates the logs up to a sequence number from the rest.  `at` is the  *)
(* time at which a log was received; the code does not keep it, the        *)
(* properties do.                                                          *)
(***************************************************************************)
EXTENDS Integers, Sequences, FiniteSets

CONSTANTS
    RequestIDs,  \* the values of Log.RequestID
    SeqNums,     \* the values of Log.SequenceNum
    SortBuffer,  \* --sort-buffer, in clock ticks
    Horizon,     \* bound: the clock stops here
    MaxReceipts, \* bound: no batch arrives once a request has that many receipts
    Stream,      \* --stream: "" keeps every stream
    StreamOf,    \* [RequestIDs \X SeqNums -> {"stdout", "stderr"}]
    Batches      \* the sets of logs a batch may carry

\* SequenceNum is a Go int, so every non-empty set of them has a highest one.
ASSUME SeqNumsAssumption ==
    /\ SeqNums \subseteq Nat
    /\ \A S \in SUBSET SeqNums : S # {} => \E m \in S : \A s \in S : s <= m
ASSUME BatchesAssumption ==
    Batches \subseteq SUBSET [req : RequestIDs, seq : SeqNums]
ASSUME BoundsAssumption ==
    SortBuffer \in Nat /\ Horizon \in Nat /\ MaxReceipts \in Nat

VARIABLES
    now,         \* the clock (time.Now)
    logs,        \* logmap[req].logs, empty when the map has no such key
    receives,    \* logmap[req].receives, empty when the map has no such key
    timers,      \* the time.AfterFunc timers that have not been served
    printed      \* what printLogs has written

outputVars == <<now, logs, receives, timers, printed>>

Times == 0 .. Horizon

\* A log in the buffer.
Log == [req : RequestIDs, seq : SeqNums, at : Times]
LogsOf(r) == [req : {r}, seq : SeqNums, at : Times]
Receipt == [when : Times, highSeq : SeqNums]
Timer == [req : RequestIDs, seq : SeqNums, due : Nat]

filterStream(l) == Stream = "" \/ StreamOf[l.req, l.seq] = Stream

\* Mutant: the lowest sequence number of the batch.
LowSequence(S) == CHOOSE m \in S : \A s \in S : s >= m
highSequence(S) == CHOOSE m \in S : \A s \in S : s <= m

\* The sequence numbers a batch holds for one request.
splitByReqID(batch, r) == {l.seq : l \in {x \in batch : x.req = r}}

Later(s, t) == IF s < t THEN t ELSE s

OutputInit ==
    /\ now = 0
    /\ logs = [r \in RequestIDs |-> {}]
    /\ receives = [r \in RequestIDs |-> <<>>]
    /\ timers = {}
    /\ printed = {}

\* A batch arrives on batchCh.
Receive(batch) ==
    LET fresh(r) == splitByReqID(batch, r)
        touched == {r \in RequestIDs : fresh(r) # {}}
        \* The batch raises the high sequence of the request's head receipt,
        \* or is its first.
        records(r) ==
            \/ receives[r] = <<>>
            \/ Head(receives[r]).highSeq < highSequence(fresh(r))
    IN
    /\ logs' = [r \in RequestIDs |->
           logs[r] \cup {[req |-> r, seq |-> s, at |-> now] : s \in fresh(r)}]
    /\ receives' = [r \in RequestIDs |->
           IF r \in touched /\ records(r)
           THEN Append(receives[r],
                       [when |-> now, highSeq |-> highSequence(fresh(r))])
           ELSE receives[r]]
    /\ timers' = timers \cup
           {[req |-> r, seq |-> highSequence(fresh(r)), due |-> now + SortBuffer]
               : r \in {x \in touched : receives[x] = <<>>}}
    /\ UNCHANGED <<now, printed>>

\* Mutant: only the logs with the very sequence number of the timer.
UpToExactly(t) == {l \in logs[t.req] : l.seq = t.seq}
UpTo(t) == {l \in logs[t.req] : l.seq <= t.seq}
\* Mutant: the log after the last one printed is dropped.
BeyondByOne(t) == {l \in logs[t.req] : l.seq > t.seq + 1}
Beyond(t) == logs[t.req] \ UpTo(t)

\* Mutant: no timer takes over.
NoSuccessor(t) == {}
\* Mutant: the new timer runs for the whole buffer, from now.
FreshSuccessor(t) ==
    LET rest == Tail(receives[t.req])
    IN IF rest = <<>> THEN {}
       ELSE {[req |-> t.req, seq |-> Head(rest).highSeq, due |-> now + SortBuffer]}
\* Mutant: the buffer is taken off the time of the receipt.
EarlySuccessor(t) ==
    LET rest == Tail(receives[t.req])
    IN IF rest = <<>> THEN {}
       ELSE {[req |-> t.req, seq |-> Head(rest).highSeq,
              due |-> Head(rest).when - SortBuffer]}
\* The timer that takes over from t, for the receipt behind the head.
Successor(t) ==
    LET rest == Tail(receives[t.req])
    IN IF rest = <<>> THEN {}
       ELSE {[req |-> t.req, seq |-> Head(rest).highSeq,
              due |-> Later(now, Head(rest).when + SortBuffer)]}

\* A timer has run out and its message is taken from tdCh.
Fire(t) ==
    /\ t \in timers
    /\ t.due <= now
    /\ printed' = printed \cup {l \in UpTo(t) : filterStream(l)}
    /\ logs' = [logs EXCEPT ![t.req] = Beyond(t)]
    /\ \/ /\ Beyond(t) = {}
          /\ receives' = [receives EXCEPT ![t.req] = <<>>]
          /\ timers' = timers \ {t}
       \/ /\ Beyond(t) # {}
          /\ receives' = [receives EXCEPT ![t.req] = Tail(@)]
          /\ timers' = (timers \ {t}) \cup Successor(t)
    /\ UNCHANGED now

\* Time passes.  A timer that is due need not be served at once.
Tick ==
    /\ now < Horizon
    /\ now' = now + 1
    /\ UNCHANGED <<logs, receives, timers, printed>>

\* The bounds: few receipts, and the timers can run out before Horizon.
MayReceive ==
    /\ now + SortBuffer <= Horizon
    /\ \A r \in RequestIDs : Len(receives[r]) < MaxReceipts

OutputNext ==
    \/ \E batch \in Batches : MayReceive /\ Receive(batch)
    \/ \E t \in timers : Fire(t)
    \/ Tick

\* Timers run out, and the loop serves each one: nothing else blocks it.
OutputFairness ==
    /\ WF_outputVars(Tick)
    /\ \A r \in RequestIDs : WF_outputVars(\E t \in timers : t.req = r /\ Fire(t))

OutputSafety == OutputInit /\ [][OutputNext]_outputVars
OutputSpec == OutputSafety /\ OutputFairness

-----------------------------------------------------------------------------
(* Properties *)

OutputTypeOK ==
    /\ now \in Times
    /\ logs \in [RequestIDs -> SUBSET Log]
    /\ \A r \in RequestIDs : logs[r] \subseteq LogsOf(r)
    /\ receives \in [RequestIDs -> Seq(Receipt)]
    /\ timers \subseteq Timer
    /\ printed \subseteq Log

\* "At most there should be one timer per RequestID" (root.go:353), and it is
\* the timer of the head receipt; a request with buffered logs has one.
OneTimerPerRequest ==
    \A r \in RequestIDs :
        LET mine == {t \in timers : t.req = r}
        IN /\ logs[r] # {} => mine # {}
           /\ \A t, u \in mine : t = u
           /\ \A t \in mine : receives[r] # <<>> /\ t.seq = Head(receives[r]).highSeq

\* receives[1:] (root.go:421) never slices an empty slice, which would panic:
\* whenever a timer leaves logs behind, the receipts still cover them.
NoLogStranded ==
    \A t \in timers : Beyond(t) # {} => Tail(receives[t.req]) # <<>>

\* A log that has been buffered for SortBuffer ticks has a timer that has
\* already run out: only the scheduling of the goroutines can hold it longer.
NoLogOverstays ==
    \A r \in RequestIDs : \A l \in logs[r] :
        now >= l.at + SortBuffer => \E t \in timers : t.req = r /\ t.due <= now

\* Every received log leaves the buffer.
EveryLogLeaves ==
    \A r \in RequestIDs : logs[r] # {} ~> logs[r] = {}

Abstract == INSTANCE SortBuffer WITH held <- logs, Wanted <- filterStream

\* The loop implements the sort buffer: the logs of a request leave it lowest
\* first, once each, and the wanted ones are printed.
ImplementsSortBuffer == Abstract!AbsSpec
=============================================================================
