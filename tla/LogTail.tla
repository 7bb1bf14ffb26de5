------------------------------ MODULE LogTail ------------------------------
(***************************************************************************)
(* `fastly log-tail`, pkg/commands/logtail/root.go: the tail goroutine     *)
(* reads the service's log stream window by window and hands each batch to *)
(* the output loop (LogTailOutput), while Exec waits for the first of:     *)
(* tail failed, tail is done, a signal.                                    *)
(*                                                                         *)
(* The stream server is outside the repository.  What it answers is taken  *)
(* from how tail uses it: `from` names a window, `batch_id` the last batch *)
(* that was read of it, and the "next" link the window that follows.       *)
(***************************************************************************)
EXTENDS LogTailOutput, SequencesExt

CONSTANTS
    FromFlag,      \* --from, 0 when it is not given
    ToFlag,        \* --to, 0 when it is not given
    SearchPadding, \* --search-padding
    Published,     \* [1..n -> Seq(sets of logs)]: the batches of each window
    Live,          \* the window served to a request that names none
    Faults,        \* what may go wrong, a subset of FaultKinds
    MaxFaults      \* bound: how often it goes wrong

FaultKinds == {"busy", "refused", "cut", "garbled", "blank", "badlink", "nolink"}

ASSUME StreamAssumption ==
    /\ FromFlag \in Nat /\ ToFlag \in Nat /\ SearchPadding \in Nat
    /\ MaxFaults \in Nat /\ Faults \subseteq FaultKinds
    /\ Live \in Nat \ {0}
ASSUME PublishedAssumption == Published \in Seq(Seq(Batches))

VARIABLES
    curWindow, lastBatchID, path,  \* the variables of tail
    tailAt,      \* where tail stands: "check", "request", "scan", "returned"
    tailErr,     \* tail returned an error
    resp,        \* the response being scanned
    exit,        \* "running", or how Exec ended
    sent,        \* history: the IDs sent down batchCh
    faults       \* history: what has gone wrong, in order

tailVars == <<curWindow, lastBatchID, path, tailAt, tailErr, resp, sent, faults>>
vars == <<outputVars, tailVars, exit>>

LastWindow == Len(Published)
NoID == <<0, 0>>
IDs(w) == IF w \in 1 .. LastWindow
          THEN [i \in DOMAIN Published[w] |-> <<w, i>>] ELSE <<>>

\* adjustTimes widens the interval by the padding on both sides.
From == IF FromFlag = 0 THEN 0 ELSE FromFlag - SearchPadding
To == IF ToFlag = 0 THEN 0 ELSE ToFlag + SearchPadding

makeNewPath(window, batch) == [from |-> window, batch |-> batch]

NoResponse == [window |-> 0, lines |-> <<>>, cut |-> FALSE, link |-> "ok"]

Init ==
    /\ OutputInit
    /\ curWindow = From
    /\ lastBatchID = NoID
    /\ path = makeNewPath(From, NoID)
    /\ tailAt = "check"
    /\ tailErr = FALSE
    /\ resp = NoResponse
    /\ exit = "running"
    /\ sent = <<>>
    /\ faults = <<>>

-----------------------------------------------------------------------------
(* The stream server (external) *)

\* The window a path asks for and the batches of it that are still to come.
Requested == IF path.from = 0 THEN Live ELSE path.from
Pending == LET all == IDs(Requested)
           IN IF path.batch[1] = Requested
              THEN SubSeq(all, path.batch[2] + 1, Len(all)) ELSE all
AsLines(ids) == [i \in DOMAIN ids |-> [kind |-> "batch", id |-> ids[i]]]
NextLink(w) == IF w > LastWindow THEN w ELSE w + 1

Fault(kind) ==
    /\ kind \in Faults
    /\ Len(faults) < MaxFaults
    /\ faults' = Append(faults, kind)

Answer(lines, cut, link) ==
    /\ exit = "running"
    /\ tailAt = "request"
    /\ tailAt' = "scan"
    /\ resp' = [window |-> Requested, lines |-> lines, cut |-> cut, link |-> link]
    /\ UNCHANGED <<outputVars, curWindow, lastBatchID, path, tailErr, sent, exit>>

AnswerAll == Answer(AsLines(Pending), FALSE, "ok") /\ UNCHANGED faults

\* The connection breaks after some of the lines.
AnswerCut ==
    \E n \in 0 .. Len(Pending) :
        Fault("cut") /\ Answer(AsLines(SubSeq(Pending, 1, n)), TRUE, "ok")

\* One line does not parse, or is a batch without an ID that carries nothing.
AnswerSpoilt(kind) ==
    \E n \in DOMAIN Pending :
        LET lines == AsLines(Pending)
            spoilt == IF kind = "garbled" THEN [lines EXCEPT ![n].kind = kind]
                      ELSE InsertAt(lines, n, [kind |-> kind, id |-> NoID])
        IN Fault(kind) /\ Answer(spoilt, FALSE, "ok")

\* The "next" link is absent, or its time is not a number.
AnswerMislinked(kind) == Fault(kind) /\ Answer(AsLines(Pending), FALSE, kind)

-----------------------------------------------------------------------------
(* tail *)

TailReturns(failed) == tailAt' = "returned" /\ tailErr' = failed

\* Mutant: the loop is not left.
ReachToGoesOn ==
    /\ exit = "running"
    /\ tailAt = "check"
    /\ To # 0 /\ curWindow > To
    /\ tailAt' = "request"
    /\ UNCHANGED <<outputVars, curWindow, lastBatchID, path, tailErr, resp, sent,
                   faults, exit>>
\* The window is past --to: doneCh is closed and the loop left.
ReachTo ==
    /\ exit = "running"
    /\ tailAt = "check"
    /\ To # 0 /\ curWindow > To
    /\ TailReturns(FALSE)
    /\ UNCHANGED <<outputVars, curWindow, lastBatchID, path, resp, sent, faults, exit>>

Request ==
    /\ exit = "running"
    /\ tailAt = "check"
    /\ ~(To # 0 /\ curWindow > To)
    /\ tailAt' = "request"
    /\ UNCHANGED <<outputVars, curWindow, lastBatchID, path, tailErr, resp, sent,
                   faults, exit>>

\* 429 and the 5xx other than 501: wait, then go round the loop again.
Busy ==
    /\ exit = "running"
    /\ tailAt = "request"
    /\ Fault("busy")
    /\ tailAt' = "check"
    /\ UNCHANGED <<outputVars, curWindow, lastBatchID, path, tailErr, resp, sent, exit>>

\* The request cannot be executed, or its status is not worth a retry.
Refused ==
    /\ exit = "running"
    /\ tailAt = "request"
    /\ Fault("refused")
    /\ TailReturns(TRUE)
    /\ UNCHANGED <<outputVars, curWindow, lastBatchID, path, resp, sent, exit>>

Line == Head(resp.lines)
Scanning == exit = "running" /\ tailAt = "scan"
Scan(kind) ==
    /\ Scanning
    /\ resp.lines # <<>>
    /\ Line.kind = kind
    /\ resp' = [resp EXCEPT !.lines = Tail(@)]
    /\ UNCHANGED <<curWindow, tailAt, tailErr, faults, exit>>

\* Mutant: the ID of the batch is not remembered.
ScanBatchForgets ==
    /\ Scan("batch")
    /\ sent' = Append(sent, Line.id)
    /\ Receive(Published[Line.id[1]][Line.id[2]])
    /\ UNCHANGED <<path, lastBatchID>>
\* A batch with an ID: remember it and hand it over on the unbuffered batchCh.
ScanBatch ==
    /\ Scan("batch")
    /\ lastBatchID' = Line.id
    /\ sent' = Append(sent, Line.id)
    /\ Receive(Published[Line.id[1]][Line.id[2]])
    /\ UNCHANGED path

\* A batch without an ID is not sent.
ScanBlank == Scan("blank") /\ UNCHANGED <<outputVars, lastBatchID, path, sent>>

\* A line that does not parse: a path to re-request is made, and the scan goes on.
ScanGarbled ==
    /\ Scan("garbled")
    /\ path' = makeNewPath(curWindow, lastBatchID)
    /\ UNCHANGED <<outputVars, lastBatchID, sent>>

ScanEnds ==
    /\ Scanning
    /\ resp.lines = <<>>
    /\ UNCHANGED <<outputVars, sent, faults, exit>>

\* scanner.Err: ask again for what follows the last batch.
ScanBroken ==
    /\ ScanEnds
    /\ resp.cut
    /\ path' = makeNewPath(curWindow, lastBatchID)
    /\ tailAt' = "check"
    /\ UNCHANGED <<curWindow, lastBatchID, tailErr, resp>>

\* The response was read to its end: go to the window of its next link.  A link
\* whose time does not parse leaves 0, which makes a path without `from`.
FollowLink ==
    /\ ScanEnds
    /\ ~resp.cut
    /\ resp.link # "nolink"
    /\ curWindow' = IF resp.link = "badlink" THEN 0 ELSE NextLink(resp.window)
    /\ lastBatchID' = NoID
    /\ path' = makeNewPath(curWindow', NoID)
    /\ tailAt' = "check"
    /\ UNCHANGED <<tailErr, resp>>

-----------------------------------------------------------------------------
(* Exec *)

\* getTimeFromLink indexes past the end when there is no next link: the
\* goroutine panics and takes the process with it.
LinkPanic ==
    /\ Scanning
    /\ resp.lines = <<>> /\ ~resp.cut /\ resp.link = "nolink"
    /\ exit' = "panicked"
    /\ UNCHANGED <<outputVars, tailVars>>

\* The select takes the failure, or the closed doneCh, whichever is ready; a
\* nil error on the failure channel is the same as doneCh.
ExecReturns ==
    /\ exit = "running"
    /\ tailAt = "returned"
    /\ exit' = IF tailErr THEN "failed" ELSE "done"
    /\ UNCHANGED <<outputVars, tailVars>>

ExecSignalled ==
    /\ exit = "running"
    /\ exit' = "signalled"
    /\ UNCHANGED <<outputVars, tailVars>>

OutputStep ==
    /\ exit = "running"
    /\ (\E t \in timers : Fire(t)) \/ Tick
    /\ UNCHANGED <<tailVars, exit>>

ServerStep ==
    \/ AnswerAll
    \/ AnswerCut
    \/ \E kind \in {"garbled", "blank"} : AnswerSpoilt(kind)
    \/ \E kind \in {"badlink", "nolink"} : AnswerMislinked(kind)
    \/ Busy
    \/ Refused

TailStep ==
    \/ ReachTo
    \/ Request
    \/ ScanBatch
    \/ ScanBlank
    \/ ScanGarbled
    \/ ScanBroken
    \/ FollowLink
    \/ LinkPanic

Next == ServerStep \/ TailStep \/ OutputStep \/ ExecReturns \/ ExecSignalled

\* The server answers, and the goroutines of the process run.
Fairness ==
    /\ WF_vars(ServerStep) /\ WF_vars(TailStep) /\ WF_vars(ExecReturns)
    /\ WF_vars(OutputStep)

Spec == Init /\ [][Next]_vars /\ Fairness

-----------------------------------------------------------------------------
(* Properties *)

FirstWindow == IF From = 0 THEN Live ELSE From
Batch == UNION {Range(IDs(w)) : w \in FirstWindow .. LastWindow}
Earlier(a, b) == a[1] < b[1] \/ (a[1] = b[1] /\ a[2] < b[2])

\* The batches of the stream up to the last one handed over, each once and in order.
InOrder ==
    /\ Range(sent) \subseteq Batch
    /\ \A j, k \in DOMAIN sent : j < k => Earlier(sent[j], sent[k])
    /\ \A id \in Batch : \A k \in DOMAIN sent : Earlier(id, sent[k]) => id \in Range(sent)

\* "attempt to re-request from the last window & batch" (root.go:227): tail never
\* moves to a later window before it has handed over every batch of this one.
WindowsComplete ==
    \A w \in FirstWindow .. LastWindow :
        curWindow > w => Range(IDs(w)) \subseteq Range(sent)

\* As long as every line parses and every next link leads on, the batches handed
\* to the output loop are the stream's, none skipped or repeated, whatever is cut,
\* refused or retried, and no window is left with a gap at its end.
NoBatchSkipped ==
    Range(faults) \cap {"garbled", "badlink", "nolink"} = {} => InOrder /\ WindowsComplete

\* Between tail and the terminal no log is lost and none is invented: the logs
\* of the batches handed over are those buffered or, if wanted, printed.
LogsConserved ==
    LET taken == UNION {Published[id[1]][id[2]] : id \in Range(sent)}
        Wire(S) == {[req |-> l.req, seq |-> l.seq] : l \in S}
    IN /\ Wire(printed) \cup Wire(UNION Range(logs)) \subseteq taken
       /\ {l \in taken : filterStream(l)}
              \subseteq Wire(printed) \cup Wire(UNION Range(logs))

\* With --to the command ends, whatever goes wrong a bounded number of times.
TailEnds == <>(exit # "running")
=============================================================================
