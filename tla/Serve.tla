-------------------------------- MODULE Serve --------------------------------
(***************************************************************************)
(* "compute serve" (src/pkg/commands/compute/serve.go): the project is     *)
(* built, and run by a local server until a signal ends it.  With --watch  *)
(* a change of a file has the server killed, the project rebuilt and the   *)
(* server run again.  With Pushpin enabled a second process is started     *)
(* first and closed at the end.                                            *)
(*                                                                         *)
(* The goroutines: the command itself; for every call of local() one that  *)
(* waits for a signal (Streaming.MonitorSignals of src/pkg/exec/exec.go),  *)
(* one that sets up the watcher (watchFiles) and the handler of a change,  *)
(* which runs when no further change has come for a second; and one that   *)
(* waits for a signal to clean up after Pushpin.  They meet on unbuffered  *)
(* channels, and the processes they kill may have ended or not have        *)
(* started.                                                                *)
(*                                                                         *)
(* A second is long: a timer fires only when no goroutine that could run   *)
(* is about to send what the timer guards against.  Handlers of one        *)
(* local() beyond the first stay blocked on its done channel; like what an *)
(* earlier local() leaves behind they have no further effect, and only the *)
(* monitors of earlier calls are kept.  --file is left out.                *)
(***************************************************************************)
EXTENDS Integers, FiniteSets

CONSTANTS Flags,       \* the combinations of flags a command may be given
          MaxChanges,  \* bound: changes of the project's files
          MaxSignals,  \* bound: signals sent to the command
          MaxExits     \* bound: servers that end by themselves without an error

ASSUME ServeAssumption ==
    /\ Flags \subseteq [watch: BOOLEAN, skipBuild: BOOLEAN, pushpin: BOOLEAN]
    /\ MaxChanges \in Nat /\ MaxSignals \in Nat /\ MaxExits \in Nat

VARIABLES
    flags,      \* --watch, --skip-build, and whether Pushpin is enabled
    pc,         \* where Exec stands
    result,     \* how it ended, or what the last local() returned
    run,        \* the number of calls of local()
    server,     \* the server process of this run, or how it ended
    known,      \* s.Process is set
    monitor,    \* of every run: the goroutine that waits for a signal
    channel,    \* of every run: the messages in s.SignalCh, which holds one
    watcher,    \* the goroutine of watchFiles
    handler,    \* the goroutine that handles a change
    source,     \* the number of changes made to the files so far
    compiling,  \* the changes the running build has read
    binary,     \* the changes contained in the Wasm binary
    serving,    \* the changes contained in what the server runs
    pushpin,    \* the Pushpin process
    cleaner,    \* the goroutine that cleans up after Pushpin
    cleaned,    \* the clean-up has run: Pushpin's context is cancelled
    \* history, on which no step depends but for the bounds:
    signals,    \* the number of signals sent
    exited,     \* the runs whose server ended by itself without an error
    noticed,    \* the changes made when a handler last got to work
    failed,     \* the last build failed
    wanted      \* a signal came while the server ran and nothing else was afoot

process  == <<server, known>>
watching == <<watcher, handler>>
files    == <<source, compiling, binary, serving>>
fanout   == <<pushpin, cleaner, cleaned>>
history  == <<signals, exited, noticed, failed, wanted>>
vars == <<flags, pc, result, run, process, monitor, channel, watching, files, fanout, history>>

Runs == 1 .. 1 + MaxChanges + MaxExits

Init ==
    /\ flags \in Flags
    /\ pc = "begin" /\ result = "none" /\ run = 0
    /\ server = "none" /\ known = FALSE
    /\ monitor = [r \in Runs |-> "none"]
    /\ channel = [r \in Runs |-> 0]
    /\ watcher = "none" /\ handler = "none"
    /\ source = 0 /\ compiling = 0 /\ binary = 0 /\ serving = 0
    /\ pushpin = "none" /\ cleaner = "none" /\ cleaned = FALSE
    /\ signals = 0 /\ exited = {} /\ noticed = 0 /\ failed = FALSE /\ wanted = FALSE

Running == pc # "returned"

Return(how) == pc' = "returned" /\ result' = how

\* The deferred Close, and the one after a failed start, come first.
Close(how) == pc' = "closing" /\ result' = how

-----------------------------------------------------------------------------
(* Up to the first call of local().                                        *)

\* ErrIncompatibleServeFlags.
Begin ==
    /\ pc = "begin"
    /\ IF flags.watch /\ flags.skipBuild
         THEN Return("failed")
         ELSE pc' = (IF flags.skipBuild THEN "prepare" ELSE "build") /\ UNCHANGED result
    /\ UNCHANGED <<flags, run, process, monitor, channel, watching, files, fanout, history>>

FirstBuild ==
    /\ pc = "build"
    /\ \/ pc' = "prepare" /\ binary' = source /\ UNCHANGED result
       \/ Return("failed") /\ UNCHANGED binary
    /\ UNCHANGED <<flags, run, process, monitor, channel, watching, source, compiling,
                   serving, fanout, history>>

\* The manifest is read and GetViceroy finds or installs the server; either
\* may fail.
Prepare ==
    /\ pc = "prepare"
    /\ \/ pc' = (IF flags.pushpin THEN "pushpin" ELSE "local") /\ UNCHANGED result
       \/ Return("failed")
    /\ UNCHANGED <<flags, run, process, monitor, channel, watching, files, fanout, history>>

\* startPushpin: the ports, the runner and the files it is configured with;
\* then the clean-up is registered and signals are awaited.
PreparePushpin ==
    /\ pc = "pushpin"
    /\ \/ Return("failed") /\ UNCHANGED cleaner
       \/ pc' = "launch" /\ cleaner' = "listening" /\ UNCHANGED result
    /\ UNCHANGED <<flags, run, process, monitor, channel, watching, files, pushpin, cleaned,
                   history>>

\* Start refuses once the context is cancelled.
LaunchPushpin ==
    /\ pc = "launch"
    /\ IF cleaned THEN Close("failed")
                  ELSE pc' = "fork" /\ UNCHANGED result
    /\ UNCHANGED <<flags, run, process, monitor, channel, watching, files, fanout, history>>

ForkPushpin ==
    /\ pc = "fork"
    /\ \/ Close("failed") /\ UNCHANGED pushpin
       \/ pc' = "startup" /\ pushpin' = "up" /\ UNCHANGED result
    /\ UNCHANGED <<flags, run, process, monitor, channel, watching, files, cleaner, cleaned,
                   history>>

\* A second after it said "started" Pushpin is still there.  What Exec prints
\* next may fail.
PushpinStarted ==
    /\ pc = "startup"
    /\ pushpin = "up" /\ ~cleaned
    /\ \/ pc' = "local" /\ UNCHANGED result
       \/ Close("failed")
    /\ UNCHANGED <<flags, run, process, monitor, channel, watching, files, fanout,
                   history>>

\* Mutant: a failed start is returned without the clean-up.
PushpinFailedUnclosed ==
    /\ pc = "startup"
    /\ pushpin = "dead" \/ ~cleaned
    /\ Return("failed")
    /\ UNCHANGED <<flags, run, process, monitor, channel, watching, files, fanout, history>>

\* Its output has ended, or cannot be read.
PushpinFailed ==
    /\ pc = "startup"
    /\ pushpin = "dead" \/ ~cleaned
    /\ Close("failed")
    /\ UNCHANGED <<flags, run, process, monitor, channel, watching, files, fanout, history>>

\* The cleanup of pushpinContext, under its once: the process tree is killed.
Cleanup ==
    /\ cleaned' = TRUE
    /\ pushpin' = IF pushpin = "up" /\ ~cleaned THEN "dead" ELSE pushpin

\* The context was cancelled before the process was known: it is killed now.
ContextKills ==
    /\ Running /\ cleaned /\ pushpin = "up"
    /\ pushpin' = "dead"
    /\ UNCHANGED <<flags, pc, result, run, process, monitor, channel, watching, files,
                   cleaner, cleaned, history>>

\* A signal has the goroutine of startPushpin clean up; while Start forks, it
\* finds no process to kill.
CleanerWorks ==
    /\ Running /\ cleaner = "caught"
    /\ cleaner' = "gone"
    /\ Cleanup
    /\ UNCHANGED <<flags, pc, result, run, process, monitor, channel, watching, files,
                   history>>

PushpinDies ==
    /\ Running /\ pushpin = "up"
    /\ pushpin' = "dead"
    /\ UNCHANGED <<flags, pc, result, run, process, monitor, channel, watching, files,
                   cleaner, cleaned, history>>

Closes ==
    /\ pc = "closing"
    /\ pc' = "returned"
    /\ Cleanup
    /\ UNCHANGED <<flags, result, run, process, monitor, channel, watching, files, cleaner,
                   history>>

-----------------------------------------------------------------------------
(* local().                                                                *)

StartLocal ==
    /\ pc = "local"
    /\ pc' = "starting"
    /\ run' = run + 1
    /\ monitor' = [monitor EXCEPT ![run + 1] = "launched"]
    /\ watcher' = IF flags.watch THEN "setup" ELSE "none"
    /\ handler' = "none"
    /\ server' = "none" /\ known' = FALSE
    /\ UNCHANGED <<flags, result, channel, files, fanout, history>>

\* The first second is over: s.Exec starts the server, or cannot.
StartServer ==
    /\ pc = "starting"
    /\ watcher # "failing"
    /\ \/ pc' = "exec" /\ server' = "up" /\ serving' = binary /\ UNCHANGED result
       \/ Close("failed") /\ UNCHANGED <<server, serving>>
    /\ UNCHANGED <<flags, run, known, monitor, channel, watching, source, compiling, binary,
                   fanout, history>>

KnowServer ==
    /\ pc = "exec" /\ ~known
    /\ known' = TRUE
    /\ UNCHANGED <<flags, pc, result, run, server, monitor, channel, watching, files, fanout,
                   history>>

\* Wait has returned.  Without an error, local() is called again at once.
ServerEnded ==
    /\ pc = "exec" /\ known
    /\ \/ server = "ok" /\ pc' = "local" /\ UNCHANGED result
       \/ server = "error" /\ Close("failed")
       \/ server = "interrupted" /\ Close("stopped")
       \/ server = "killed" /\ pc' = "killed" /\ UNCHANGED result
    /\ wanted' = (wanted /\ server # "ok")
    /\ UNCHANGED <<flags, run, process, monitor, channel, watching, files, fanout, signals,
                   exited, noticed, failed>>

\* The failure channel, before the server is started or after it was killed.
ReceiveFailure ==
    /\ pc \in {"starting", "killed"}
    /\ \/ watcher = "failing" /\ watcher' = "gone" /\ UNCHANGED handler
       \/ handler = "failing" /\ handler' = "gone" /\ UNCHANGED watcher
    /\ pc' = "tell" /\ result' = "failed"
    /\ UNCHANGED <<flags, run, process, monitor, channel, files, fanout, history>>

ReceiveRestart ==
    /\ pc = "killed"
    /\ handler = "restart"
    /\ handler' = "gone"
    /\ pc' = "tell" /\ result' = "restart"
    /\ UNCHANGED <<flags, run, process, monitor, channel, watcher, files, fanout, history>>

\* Nobody has been about to send for a second.
NobodySends ==
    /\ pc = "killed"
    /\ watcher # "failing"
    /\ handler \notin {"killing", "restart", "failing"}
    /\ ~(handler = "blocked" /\ watcher = "waiting")
    /\ Close("stopped")
    /\ UNCHANGED <<flags, run, process, monitor, channel, watching, files, fanout, history>>

\* Mutant: the monitor is left listening.
TellNobody ==
    /\ pc = "tell"
    /\ pc' = IF result = "restart" THEN "rebuild" ELSE "closing"
    /\ UNCHANGED <<flags, result, run, process, monitor, channel, watching, files, fanout,
                   history>>

\* s.SignalCh <- syscall.SIGTERM ends the monitor, which would otherwise
\* outlive the server.
TellMonitor ==
    /\ pc = "tell"
    /\ channel[run] = 0
    /\ channel' = [channel EXCEPT ![run] = 1]
    /\ pc' = IF result = "restart" THEN "rebuild" ELSE "closing"
    /\ UNCHANGED <<flags, result, run, process, monitor, watching, files, fanout, history>>

\* Mutant: the server is run again without a build.
RebuildSkipped ==
    /\ pc = "rebuild"
    /\ pc' = "local"
    /\ failed' = FALSE
    /\ UNCHANGED <<flags, result, run, process, monitor, channel, watching, files, fanout,
                   signals, exited, noticed, wanted>>

\* The build has read the files.
Rebuild ==
    /\ pc = "rebuild"
    /\ pc' = "compiling"
    /\ compiling' = source
    /\ UNCHANGED <<flags, result, run, process, monitor, channel, watching, source, binary,
                   serving, fanout, history>>

\* An error is printed; the server runs what there is.
Rebuilt ==
    /\ pc = "compiling"
    /\ pc' = "local" /\ result' = "none"
    /\ \/ failed' = FALSE /\ binary' = compiling
       \/ failed' = TRUE /\ UNCHANGED binary
    /\ compiling' = 0
    /\ UNCHANGED <<flags, run, process, monitor, channel, watching, source, serving, fanout,
                   signals, exited, noticed, wanted>>

Main ==
    \/ Begin \/ FirstBuild \/ Prepare
    \/ PreparePushpin \/ LaunchPushpin \/ ForkPushpin \/ PushpinStarted \/ PushpinFailed
    \/ StartLocal \/ StartServer \/ KnowServer \/ ServerEnded
    \/ ReceiveFailure \/ ReceiveRestart \/ NobodySends \/ TellMonitor
    \/ Rebuild \/ Rebuilt \/ Closes

-----------------------------------------------------------------------------
(* The other goroutines.                                                   *)

\* s.Signal(os.Kill) of run r: nothing happens while the process is not
\* known, and an error is returned once it has been waited for.
Kills(r) ==
    server' = IF r = run /\ known /\ pc = "exec" /\ server = "up" THEN "killed" ELSE server

Finished == known /\ pc # "exec"

MonitorListens(r) ==
    /\ Running /\ monitor[r] = "launched"
    /\ monitor' = [monitor EXCEPT ![r] = "listening"]
    /\ UNCHANGED <<flags, pc, result, run, process, channel, watching, files, fanout, history>>

MonitorCatches(r) ==
    /\ Running /\ monitor[r] = "listening"
    /\ channel[r] = 1
    /\ channel' = [channel EXCEPT ![r] = 0]
    /\ monitor' = [monitor EXCEPT ![r] = "caught"]
    /\ UNCHANGED <<flags, pc, result, run, process, watching, files, fanout, history>>

\* signal.Stop.
MonitorStops(r) ==
    /\ Running /\ monitor[r] = "caught"
    /\ monitor' = [monitor EXCEPT ![r] = "stopped"]
    /\ UNCHANGED <<flags, pc, result, run, process, channel, watching, files, fanout, history>>

\* Mutant: the monitor ends without killing the server.
MonitorForgets(r) ==
    /\ Running /\ monitor[r] = "stopped"
    /\ monitor' = [monitor EXCEPT ![r] = "gone"]
    /\ UNCHANGED <<flags, pc, result, run, process, channel, watching, files, fanout, history>>

MonitorKills(r) ==
    /\ Running /\ monitor[r] = "stopped"
    /\ monitor' = [monitor EXCEPT ![r] = "gone"]
    /\ Kills(r)
    /\ UNCHANGED <<flags, pc, result, run, known, channel, watching, files, fanout, history>>

Monitor(r) == MonitorListens(r) \/ MonitorCatches(r) \/ MonitorStops(r) \/ MonitorKills(r)

\* watchFiles has gone through the directories, or failed to: then it kills
\* the server before it says so.
SetUpWatcher ==
    /\ Running /\ watcher = "setup"
    /\ \/ watcher' = "waiting" /\ UNCHANGED server
       \/ watcher' = "failing" /\ Kills(run)
    /\ UNCHANGED <<flags, pc, result, run, known, monitor, channel, handler, files, fanout,
                   history>>

\* No further change for a second.
Debounced ==
    /\ Running /\ handler = "armed"
    /\ handler' = "blocked"
    /\ UNCHANGED <<flags, pc, result, run, process, monitor, channel, watcher, files, fanout,
                   history>>

\* done <- true meets <-done, and the watcher is closed.
CloseWatcher ==
    /\ Running
    /\ handler = "blocked" /\ watcher = "waiting"
    /\ handler' = "killing" /\ watcher' = "gone"
    /\ noticed' = source
    /\ wanted' = FALSE
    /\ UNCHANGED <<flags, pc, result, run, process, monitor, channel, files, fanout, signals,
                   exited, failed>>

\* Mutant: the handler does not ask for the restart.
HandlerOnlyKills ==
    /\ Running /\ handler = "killing"
    /\ handler' = IF Finished THEN "failing" ELSE "gone"
    /\ Kills(run)
    /\ UNCHANGED <<flags, pc, result, run, known, monitor, channel, watcher, files, fanout,
                   history>>

HandlerKills ==
    /\ Running /\ handler = "killing"
    /\ handler' = IF Finished THEN "failing" ELSE "restart"
    /\ Kills(run)
    /\ UNCHANGED <<flags, pc, result, run, known, monitor, channel, watcher, files, fanout,
                   history>>

-----------------------------------------------------------------------------
(* The environment.                                                        *)

\* A change before the watcher knows the directory goes unseen.  Changes that
\* matter to nobody are left out: without --watch, and before the first build.
ChangeFile ==
    /\ Running /\ flags.watch /\ pc \notin {"begin", "build"}
    /\ source < MaxChanges
    /\ source' = source + 1
    /\ \/ watcher \in {"setup", "waiting"} /\ handler = "none" /\ handler' = "armed"
       \/ watcher # "waiting" /\ UNCHANGED handler
       \/ handler # "none" /\ UNCHANGED handler
    /\ UNCHANGED <<flags, pc, result, run, process, monitor, channel, watcher, compiling,
                   binary, serving, fanout, history>>

ServerExits ==
    /\ Running /\ pc = "exec" /\ server = "up"
    /\ \/ server' = "ok" /\ Cardinality(exited) < MaxExits /\ exited' = exited \cup {run}
       \/ server' = "error" /\ UNCHANGED exited
    /\ UNCHANGED <<flags, pc, result, run, known, monitor, channel, watching, files, fanout,
                   signals, noticed, failed, wanted>>

\* A signal to the command, of which the monitors `notified` have asked to be
\* told, and the goroutine of startPushpin of any: without either it ends the
\* command.  One from the terminal reaches the server as well.
Signalled(atTerminal, notified) ==
    /\ Running
    /\ signals < MaxSignals
    /\ signals' = signals + 1
    /\ channel' = [r \in Runs |-> IF r \in notified THEN 1 ELSE channel[r]]
    /\ cleaner' = IF cleaner = "listening" THEN "caught" ELSE cleaner
    /\ IF notified = {} /\ cleaner = "none" THEN Return("died") ELSE UNCHANGED <<pc, result>>
    /\ \/ UNCHANGED server
       \/ atTerminal /\ server = "up" /\ server' = "interrupted"
    /\ UNCHANGED <<flags, run, known, monitor, watching, files, pushpin, cleaned, exited,
                   noticed, failed>>

\* SIGTERM, or SIGINT.
Signal(atTerminal) ==
    /\ Signalled(atTerminal, {r \in Runs : monitor[r] \in {"listening", "caught"}})
    /\ wanted' = (\/ wanted /\ monitor[run] # "caught"
                  \/ /\ pc = "exec" /\ known /\ server = "up"
                     /\ monitor[run] = "listening"
                     /\ handler \notin {"killing", "restart"})

\* SIGHUP or SIGQUIT, which no monitor is told of: with Pushpin it ends that
\* one only, and the command goes on.
HangUp(atTerminal) ==
    /\ Signalled(atTerminal, {})
    /\ UNCHANGED wanted

Next ==
    \/ Main
    \/ \E r \in Runs : Monitor(r)
    \/ SetUpWatcher \/ Debounced \/ CloseWatcher \/ HandlerKills
    \/ CleanerWorks \/ ContextKills \/ PushpinDies
    \/ ChangeFile \/ ServerExits
    \/ \E atTerminal \in BOOLEAN : Signal(atTerminal) \/ HangUp(atTerminal)

\* The command's goroutines and timers go on when they can.
Fairness ==
    /\ WF_vars(Main)
    /\ \A r \in Runs : WF_vars(Monitor(r))
    /\ WF_vars(SetUpWatcher) /\ WF_vars(Debounced)
    /\ WF_vars(CloseWatcher) /\ WF_vars(HandlerKills)
    /\ WF_vars(CleanerWorks) /\ WF_vars(ContextKills)

Spec == Init /\ [][Next]_vars /\ Fairness

-----------------------------------------------------------------------------
(* Properties.                                                             *)

\* A command that returns leaves no process behind: the server has been
\* waited for, and Pushpin is closed on every path once it may run, whoever
\* cleans up first (the deferred pushpinCtx.Close and its sync.Once).
ReturnsAlone ==
    pc = "returned" /\ result # "died" => server # "up" /\ pushpin # "up"

\* The command says "Local server stopped" only if somebody sent a signal: a
\* kill that was meant to restart the server is never taken for one, whatever
\* the order in which the handler, the server and the timer get to run (the
\* select in local after errKilled).
OnlySignalsStop == result = "stopped" => signals > 0

\* Of all the monitors only that of the current run, or of one whose server
\* ended by itself, is still waiting for its first message: restarts do not
\* pile up listeners (the comment in local on SignalCh).
MonitorsTold ==
    \A r \in 1 .. run : r \notin exited /\ channel[r] = 0
                        /\ monitor[r] \in {"launched", "listening"} =>
        r = run /\ pc \notin {"rebuild", "compiling", "local"}

\* A signal that comes while the server runs ends the command, unless at that
\* very moment a change is handled, the server ends by itself, or a second
\* signal takes the place in s.SignalCh that local() needs.
SignalEnds == wanted ~> (~Running \/ ~wanted)

\* A change that got the running server killed is built and served, unless
\* the build fails, a server ends by itself, two signals come on top of each
\* other or the command ends (Exec's loop on ErrViceroyRestart).
ChangeServed ==
    \A n \in 1 .. MaxChanges :
        (noticed = n /\ handler = "restart" /\ server = "killed")
            ~> (serving >= n \/ failed \/ exited # {} \/ signals > 1 \/ ~Running)

=============================================================================
