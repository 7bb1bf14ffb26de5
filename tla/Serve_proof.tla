----------------------------- MODULE Serve_proof -----------------------------
(***************************************************************************)
(* Proofs about Serve, for any flags, and any number of changes, signals   *)
(* and servers that end by themselves.                                     *)
(*                                                                         *)
(* The safety properties are about three orders of the goroutines: who     *)
(* may have killed the server when Wait returns (Silent), which processes  *)
(* a path that returns has behind it (Alone), and which monitors a call of *)
(* local() leaves (AllTold).  RunsCounted says that the runs are within    *)
(* the range over which the specification keeps monitors.                  *)
(***************************************************************************)
EXTENDS Serve, FiniteSetTheorems, TLAPS

Starting == {"begin", "build", "prepare", "pushpin", "launch", "fork"}
Labels   == Starting \cup {"startup", "local", "starting", "exec", "killed", "tell",
                           "rebuild", "compiling", "closing", "returned"}
Monitors == {"none", "launched", "listening", "caught", "stopped", "gone"}
Watchers == {"none", "setup", "waiting", "failing", "gone"}
Handlers == {"none", "armed", "blocked", "killing", "restart", "failing", "gone"}
Servers  == {"none", "up", "ok", "error", "interrupted", "killed"}

\* Types, of what the properties look at.
TypeOK ==
    /\ pc \in Labels
    /\ result \in {"none", "failed", "died", "stopped", "restart"}
    /\ run \in Nat /\ source \in Nat /\ source <= MaxChanges /\ signals \in Nat
    /\ server \in Servers
    /\ monitor \in [Runs -> Monitors] /\ channel \in [Runs -> {0, 1}]
    /\ watcher \in Watchers /\ handler \in Handlers
    /\ pushpin \in {"none", "up", "dead"} /\ cleaned \in BOOLEAN
    /\ exited \in SUBSET (0 .. run) /\ Cardinality(exited) <= MaxExits

\* The next call of local(), and every one but the first, has a server that
\* ended by itself or a change of the files to itself.
Again ==
    \/ pc \in {"local", "rebuild", "compiling"}
    \/ pc = "tell" /\ result = "restart"
    \/ handler # "none"
    \/ run \in exited

RunsCounted ==
    /\ run <= Cardinality(exited) + source + 1
    /\ Again => run <= Cardinality(exited) + source
    /\ pc \in Starting \cup {"startup"} => run = 0 /\ exited = {}
    /\ pc = "starting" \/ server = "up" => run \notin exited
    /\ server = "ok" => run \in exited
    /\ \A r \in Runs : r > run => monitor[r] = "none" /\ channel[r] = 0

\* A server runs only while Exec waits for it.  Pushpin is not started early;
\* once its context is cancelled it only runs on until that is seen, and then
\* nothing is returned.
Alone ==
    /\ server = "up" => pc = "exec" \/ (pc = "returned" /\ result = "died")
    /\ pushpin = "up" => pc \notin Starting
    /\ pushpin = "up" /\ cleaned => pc = "startup" \/ (pc = "returned" /\ result = "died")
    /\ pushpin = "up" /\ pc = "returned" => result = "died"

\* As long as nobody has sent a signal, the monitor of this run has had no
\* message, and a server that was killed has its killer waiting to say why.
Silent ==
    signals = 0 =>
        /\ result # "stopped" /\ server # "interrupted"
        /\ run > 0 /\ pc \notin {"local", "rebuild", "compiling", "closing", "returned"} =>
              channel[run] = 0 /\ monitor[run] \in {"launched", "listening"}
        /\ pc \in {"exec", "killed"} /\ server = "killed" => watcher = "failing" \/ handler = "restart"
        /\ pc = "killed" => server = "killed"

\* Run r has no listener left, or its server ended by itself.
Told(r) == r \in exited \/ channel[r] = 1 \/ monitor[r] \notin {"launched", "listening"}
AllTold == \A r \in 1 .. run : Told(r) \/ (r = run /\ pc \notin {"local", "rebuild", "compiling"})

Inv == TypeOK /\ RunsCounted /\ Alone /\ Silent /\ AllTold

-----------------------------------------------------------------------------

\* The number of servers that ended by themselves.
LEMMA ExitedFacts ==
    ASSUME TypeOK
    PROVE  /\ IsFiniteSet(exited) /\ Cardinality(exited) \in Nat
           /\ run \notin exited => Cardinality(exited \cup {run}) = Cardinality(exited) + 1
           /\ run \in exited => exited \cup {run} = exited
           /\ run + 1 \notin exited
<1>1. IsFiniteSet(0 .. run)  BY FS_Interval DEF TypeOK
<1>2. IsFiniteSet(exited)  BY <1>1, FS_Subset DEF TypeOK
<1>3. Cardinality(exited) \in Nat  BY <1>2, FS_CardinalityType
<1>4. run \notin exited => Cardinality(exited \cup {run}) = Cardinality(exited) + 1
  BY <1>2, FS_AddElement
<1>5. run + 1 \notin exited  BY DEF TypeOK
<1>6. QED  BY <1>2, <1>3, <1>4, <1>5

\* Run numbers are in range.
LEMMA RunFacts ==
    ASSUME TypeOK, RunsCounted
    PROVE  /\ \A r \in 1 .. run : r \in Runs
           /\ pc = "local" => run + 1 \in Runs
<1>1. run <= MaxExits + MaxChanges + 1
  BY ExitedFacts, ServeAssumption DEF TypeOK, RunsCounted
<1>2. pc = "local" => run <= MaxExits + MaxChanges
  BY ExitedFacts, ServeAssumption DEF TypeOK, RunsCounted, Again
<1>3. QED  BY <1>1, <1>2, ServeAssumption DEF Runs, TypeOK

\* What a signal changes, whichever it is.
LEMMA SignalFacts ==
    ASSUME TypeOK, NEW atTerminal \in BOOLEAN, Signal(atTerminal) \/ HangUp(atTerminal)
    PROVE  /\ Running /\ signals' = signals + 1
           /\ \/ UNCHANGED <<pc, result>>
              \/ pc' = "returned" /\ result' = "died"
           /\ \/ UNCHANGED server
              \/ server = "up" /\ server' = "interrupted"
           /\ channel' \in [Runs -> {0, 1}]
           /\ \A r \in Runs : /\ channel[r] = 1 => channel'[r] = 1
                              /\ monitor[r] = "none" => channel'[r] = channel[r]
           /\ UNCHANGED <<flags, run, known, monitor, watching, files, pushpin, cleaned, exited,
                          noticed, failed>>
<1>1. ASSUME NEW notified, Signalled(atTerminal, notified),
             \A r \in notified : monitor[r] # "none"
      PROVE  /\ Running /\ signals' = signals + 1
             /\ \/ UNCHANGED <<pc, result>>
                \/ pc' = "returned" /\ result' = "died"
             /\ \/ UNCHANGED server
                \/ server = "up" /\ server' = "interrupted"
             /\ channel' \in [Runs -> {0, 1}]
             /\ \A r \in Runs : /\ channel[r] = 1 => channel'[r] = 1
                                /\ monitor[r] = "none" => channel'[r] = channel[r]
             /\ UNCHANGED <<flags, run, known, monitor, watching, files, pushpin, cleaned, exited,
                            noticed, failed>>
  BY <1>1 DEF Signalled, TypeOK, Return
<1>2. CASE Signal(atTerminal)
  <2> DEFINE asked == {r \in Runs : monitor[r] \in {"listening", "caught"}}
  <2>1. Signalled(atTerminal, asked)  BY <1>2 DEF Signal
  <2>2. \A r \in asked : monitor[r] # "none"  OBVIOUS
  <2> HIDE DEF asked
  <2>3. QED  BY <1>1, <2>1, <2>2
<1>3. CASE HangUp(atTerminal)
  <2>1. Signalled(atTerminal, {})  BY <1>3 DEF HangUp
  <2>2. QED  BY <1>1, <2>1
<1>4. QED  BY <1>2, <1>3

LEMMA Initially == Init => Inv
<1> SUFFICES ASSUME Init PROVE Inv  OBVIOUS
<1>1. Cardinality(exited) = 0  BY FS_EmptySet DEF Init
<1>a. exited \in SUBSET (0 .. run) /\ Cardinality(exited) <= MaxExits
  BY <1>1, ServeAssumption DEF Init
<1>b. monitor \in [Runs -> Monitors] /\ channel \in [Runs -> {0, 1}]
  BY DEF Init, Monitors
<1>c. /\ pc \in Labels /\ server \in Servers /\ watcher \in Watchers /\ handler \in Handlers
      /\ result = "none" /\ pushpin = "none" /\ cleaned \in BOOLEAN
      /\ run = 0 /\ source = 0 /\ signals = 0
  BY DEF Init, Labels, Starting, Watchers, Handlers, Servers
<1>2. TypeOK
  BY <1>a, <1>b, <1>c, ServeAssumption DEF TypeOK
<1>3. RunsCounted  BY <1>1 DEF Init, RunsCounted, Again, Starting
<1>4. Alone /\ Silent /\ AllTold  BY DEF Init, Alone, Silent, AllTold, Starting
<1>5. QED  BY <1>2, <1>3, <1>4 DEF Inv

-----------------------------------------------------------------------------
(* Types.                                                                  *)

LEMMA TypeStep == TypeOK /\ RunsCounted /\ Next => TypeOK'
<1> SUFFICES ASSUME TypeOK, RunsCounted, Next PROVE TypeOK'  OBVIOUS
<1> USE DEF process, watching, files, fanout, history, TypeOK, Return, Close
<1>1. CASE \/ Begin \/ FirstBuild \/ Prepare
           \/ PreparePushpin \/ LaunchPushpin \/ ForkPushpin \/ PushpinStarted \/ PushpinFailed
  BY <1>1 DEF Begin, FirstBuild, Prepare, PreparePushpin, LaunchPushpin, ForkPushpin,
              PushpinStarted, PushpinFailed, Labels, Starting
<1>2. CASE StartLocal
  <2>1. monitor' \in [Runs -> Monitors] /\ watcher' \in Watchers /\ handler' \in Handlers
    BY <1>2 DEF StartLocal, Monitors, Watchers, Handlers
  <2>2. run' \in Nat /\ exited' \in SUBSET (0 .. run') /\ Cardinality(exited') <= MaxExits
    BY <1>2 DEF StartLocal
  <2>3. pc' \in Labels /\ server' \in Servers  BY <1>2 DEF StartLocal, Labels, Servers
  <2>4. QED  BY <1>2, <2>1, <2>2, <2>3 DEF StartLocal
<1>3. CASE StartServer \/ KnowServer \/ ServerEnded
  BY <1>3 DEF StartServer, KnowServer, ServerEnded, Labels, Servers
<1>4. CASE ReceiveFailure \/ ReceiveRestart \/ NobodySends
  BY <1>4 DEF ReceiveFailure, ReceiveRestart, NobodySends, Labels, Watchers, Handlers
<1>5. CASE TellMonitor \/ Rebuild \/ Rebuilt
  BY <1>5 DEF TellMonitor, Rebuild, Rebuilt, Labels
<1>6. CASE Closes \/ CleanerWorks \/ ContextKills \/ PushpinDies
  BY <1>6 DEF Closes, CleanerWorks, ContextKills, PushpinDies, Cleanup, Labels
<1>7. CASE \E r \in Runs : Monitor(r)
  BY <1>7 DEF Monitor, MonitorListens, MonitorCatches, MonitorStops, MonitorKills, Kills,
              Monitors, Servers
<1>8. CASE SetUpWatcher \/ Debounced \/ CloseWatcher \/ HandlerKills
  BY <1>8 DEF SetUpWatcher, Debounced, CloseWatcher, HandlerKills, Kills, Watchers, Handlers, Servers
<1>9. CASE ChangeFile
  BY <1>9, ServeAssumption DEF ChangeFile, Handlers
<1>10. CASE ServerExits
  <2>1. Cardinality(exited') <= MaxExits
    BY <1>10, ExitedFacts, ServeAssumption DEF ServerExits
  <2>2. exited' \in SUBSET (0 .. run')
    <3>1. exited \cup {run} \in SUBSET (0 .. run)  OBVIOUS
    <3>2. QED  BY <1>10, <3>1 DEF ServerExits
  <2>3. server' \in Servers  BY <1>10 DEF ServerExits, Servers
  <2>4. QED  BY <1>10, <2>1, <2>2, <2>3 DEF ServerExits
<1>11. CASE \E atTerminal \in BOOLEAN : Signal(atTerminal) \/ HangUp(atTerminal)
  <2>1. /\ signals' = signals + 1
        /\ pc' \in {pc, "returned"} /\ result' \in {result, "died"}
        /\ server' \in {server, "interrupted"} /\ channel' \in [Runs -> {0, 1}]
        /\ UNCHANGED <<flags, run, known, monitor, watching, files, pushpin, cleaned, exited,
                       noticed, failed>>
    BY <1>11, SignalFacts
  <2>2. QED  BY <2>1 DEF Labels, Servers
<1>12. QED
  BY <1>1, <1>2, <1>3, <1>4, <1>5, <1>6, <1>7, <1>8, <1>9, <1>10, <1>11 DEF Next, Main

-----------------------------------------------------------------------------
(* The number of runs.                                                     *)

LEMMA CountedStep == TypeOK /\ RunsCounted /\ Next => RunsCounted'
<1> SUFFICES ASSUME TypeOK, RunsCounted, Next PROVE RunsCounted'  OBVIOUS
<1> USE DEF process, watching, files, fanout, history, Return, Close, RunsCounted, Again, Starting
<1>a. run \in Nat /\ source \in Nat /\ Cardinality(exited) \in Nat
  BY ExitedFacts DEF TypeOK
<1>b. monitor \in [Runs -> Monitors] /\ channel \in [Runs -> {0, 1}]
  BY DEF TypeOK
<1>1. CASE \/ Begin \/ FirstBuild \/ Prepare
           \/ PreparePushpin \/ LaunchPushpin \/ ForkPushpin \/ PushpinStarted \/ PushpinFailed
  <2>1. pc \in Starting \cup {"startup"} /\ UNCHANGED <<run, server, monitor, channel, handler, source, exited>>
    BY <1>1 DEF Begin, FirstBuild, Prepare, PreparePushpin, LaunchPushpin, ForkPushpin,
                PushpinStarted, PushpinFailed, Starting
  <2>2. run = 0 /\ exited = {}  BY <2>1
  <2>3. pc' \notin {"starting", "rebuild", "compiling", "tell"}
    BY <1>1 DEF Begin, FirstBuild, Prepare, PreparePushpin, LaunchPushpin, ForkPushpin,
                PushpinStarted, PushpinFailed
  <2>4. QED  BY <1>a, <2>1, <2>2, <2>3
<1>2. CASE StartLocal
  <2>1. run <= Cardinality(exited) + source /\ run + 1 \notin exited
    BY <1>2, ExitedFacts DEF StartLocal
  <2>2. ~Again'  BY <1>2, <2>1 DEF StartLocal
  <2>3. \A r \in Runs : r > run' => monitor'[r] = "none" /\ channel'[r] = 0
    BY <1>2, <1>a, <1>b DEF StartLocal, Runs
  <2>4. QED  BY <1>2, <1>a, <2>1, <2>2, <2>3 DEF StartLocal
<1>3. CASE StartServer \/ KnowServer \/ ServerEnded
  BY <1>3, <1>a DEF StartServer, KnowServer, ServerEnded
<1>4. CASE ReceiveFailure \/ ReceiveRestart \/ NobodySends
  BY <1>4, <1>a DEF ReceiveFailure, ReceiveRestart, NobodySends
<1>5. CASE TellMonitor
  BY <1>5, <1>a, <1>b DEF TellMonitor
<1>6. CASE Rebuild \/ Rebuilt
  BY <1>6, <1>a DEF Rebuild, Rebuilt
<1>7. CASE Closes \/ CleanerWorks \/ ContextKills \/ PushpinDies
  BY <1>7, <1>a DEF Closes, CleanerWorks, ContextKills, PushpinDies, Cleanup
<1>8. CASE \E r \in Runs : Monitor(r)
  BY <1>8, <1>a, <1>b DEF Monitor, MonitorListens, MonitorCatches, MonitorStops, MonitorKills, Kills
<1>9. CASE SetUpWatcher \/ Debounced \/ CloseWatcher \/ HandlerKills
  BY <1>9, <1>a DEF SetUpWatcher, Debounced, CloseWatcher, HandlerKills, Kills
<1>10. CASE ChangeFile
  BY <1>10, <1>a DEF ChangeFile
<1>11. CASE ServerExits
  <2>1. /\ pc = "exec" /\ UNCHANGED <<pc, result, run, monitor, channel, handler, source>>
        /\ server = "up" /\ run \notin exited
    BY <1>11 DEF ServerExits
  <2>2. CASE exited' = exited /\ server' = "error"  BY <1>a, <2>1, <2>2
  <2>3. CASE exited' = exited \cup {run} /\ server' = "ok"
    <3>1. Cardinality(exited') = Cardinality(exited) + 1  BY <2>1, <2>3, ExitedFacts
    <3>2. QED  BY <1>a, <2>1, <2>3, <3>1
  <2>4. QED  BY <1>11, <2>2, <2>3 DEF ServerExits
<1>12. CASE \E atTerminal \in BOOLEAN : Signal(atTerminal) \/ HangUp(atTerminal)
  BY <1>12, <1>a, <1>b, SignalFacts
<1>13. QED
  BY <1>1, <1>2, <1>3, <1>4, <1>5, <1>6, <1>7, <1>8, <1>9, <1>10, <1>11, <1>12 DEF Next, Main

-----------------------------------------------------------------------------
(* What is left running.                                                   *)

LEMMA AloneStep == TypeOK /\ Alone /\ Next => Alone'
<1> SUFFICES ASSUME TypeOK, Alone, Next PROVE Alone'  OBVIOUS
<1> USE DEF process, watching, files, fanout, history, Return, Close, Alone
<1>a. pc \in Labels  BY DEF TypeOK
<1>1. CASE Begin \/ FirstBuild \/ Prepare \/ PreparePushpin \/ LaunchPushpin
  BY <1>1 DEF Begin, FirstBuild, Prepare, PreparePushpin, LaunchPushpin, Starting
<1>2. CASE ForkPushpin \/ PushpinStarted \/ PushpinFailed
  BY <1>2 DEF ForkPushpin, PushpinStarted, PushpinFailed, Starting
<1>3. CASE StartLocal \/ StartServer \/ KnowServer \/ ServerEnded
  BY <1>3 DEF StartLocal, StartServer, KnowServer, ServerEnded, Starting
<1>4. CASE ReceiveFailure \/ ReceiveRestart \/ NobodySends \/ TellMonitor \/ Rebuild \/ Rebuilt
  BY <1>4 DEF ReceiveFailure, ReceiveRestart, NobodySends, TellMonitor, Rebuild, Rebuilt, Starting
<1>5. CASE Closes
  BY <1>5 DEF Closes, Cleanup, Starting
<1>6. CASE CleanerWorks \/ ContextKills \/ PushpinDies
  BY <1>6 DEF CleanerWorks, ContextKills, PushpinDies, Cleanup, Running
<1>7. CASE \E r \in Runs : Monitor(r)
  BY <1>7 DEF Monitor, MonitorListens, MonitorCatches, MonitorStops, MonitorKills, Kills, Running
<1>8. CASE SetUpWatcher \/ Debounced \/ CloseWatcher \/ HandlerKills
  BY <1>8 DEF SetUpWatcher, Debounced, CloseWatcher, HandlerKills, Kills, Running
<1>9. CASE ChangeFile \/ ServerExits
  BY <1>9 DEF ChangeFile, ServerExits
<1>10. CASE \E atTerminal \in BOOLEAN : Signal(atTerminal) \/ HangUp(atTerminal)
  BY <1>10, SignalFacts DEF Running, Starting
<1>11. QED
  BY <1>1, <1>2, <1>3, <1>4, <1>5, <1>6, <1>7, <1>8, <1>9, <1>10 DEF Next, Main

-----------------------------------------------------------------------------
(* No signal, no end.                                                      *)

LEMMA SilentStep == TypeOK /\ RunsCounted /\ Silent /\ Next => Silent'
<1> SUFFICES ASSUME TypeOK, RunsCounted, Silent, Next, signals' = 0 PROVE Silent'
  BY DEF Silent
<1> USE DEF process, watching, files, fanout, history, Return, Close
<1>a. monitor \in [Runs -> Monitors] /\ channel \in [Runs -> {0, 1}] /\ run \in Nat
  BY DEF TypeOK
<1>b. run > 0 => run \in Runs  BY <1>a, RunFacts
<1>c. signals = 0
  <2>1. CASE \E atTerminal \in BOOLEAN : Signal(atTerminal) \/ HangUp(atTerminal)
    BY <2>1, SignalFacts DEF TypeOK
  <2>2. CASE Main
    BY <2>2 DEF Main, Begin, FirstBuild, Prepare, PreparePushpin, LaunchPushpin, ForkPushpin,
                PushpinStarted, PushpinFailed, StartLocal, StartServer, KnowServer, ServerEnded,
                ReceiveFailure, ReceiveRestart, NobodySends, TellMonitor, Rebuild, Rebuilt, Closes
  <2>3. CASE \/ \E r \in Runs : Monitor(r)
             \/ SetUpWatcher \/ Debounced \/ CloseWatcher \/ HandlerKills
             \/ CleanerWorks \/ ContextKills \/ PushpinDies \/ ChangeFile \/ ServerExits
    BY <2>3 DEF Monitor, MonitorListens, MonitorCatches, MonitorStops, MonitorKills,
                SetUpWatcher, Debounced, CloseWatcher, HandlerKills,
                CleanerWorks, ContextKills, PushpinDies, ChangeFile, ServerExits
  <2>4. QED  BY <2>1, <2>2, <2>3 DEF Next
<1>d. /\ result # "stopped" /\ server # "interrupted"
      /\ run > 0 /\ pc \notin {"local", "rebuild", "compiling", "closing", "returned"} =>
            channel[run] = 0 /\ monitor[run] \in {"launched", "listening"}
      /\ pc \in {"exec", "killed"} /\ server = "killed" => watcher = "failing" \/ handler = "restart"
      /\ pc = "killed" => server = "killed"
  BY <1>c DEF Silent
<1> USE DEF Silent
<1>1. CASE \/ Begin \/ FirstBuild \/ Prepare
           \/ PreparePushpin \/ LaunchPushpin \/ ForkPushpin \/ PushpinStarted \/ PushpinFailed
  BY <1>1, <1>d DEF Begin, FirstBuild, Prepare, PreparePushpin, LaunchPushpin, ForkPushpin,
                    PushpinStarted, PushpinFailed
<1>2. CASE StartLocal
  <2>1. run + 1 \in Runs /\ run + 1 > run /\ run' = run + 1
    BY <1>2, <1>a, RunFacts DEF StartLocal
  <2>2. channel'[run'] = 0 /\ monitor'[run'] = "launched"
    BY <1>2, <1>a, <2>1 DEF StartLocal, RunsCounted
  <2>3. QED  BY <1>2, <1>d, <2>2 DEF StartLocal
<1>3. CASE StartServer \/ KnowServer \/ ServerEnded
  BY <1>3, <1>d DEF StartServer, KnowServer, ServerEnded
<1>4. CASE ReceiveFailure \/ ReceiveRestart \/ NobodySends
  BY <1>4, <1>d DEF ReceiveFailure, ReceiveRestart, NobodySends
<1>5. CASE TellMonitor \/ Rebuild \/ Rebuilt
  BY <1>5, <1>d DEF TellMonitor, Rebuild, Rebuilt
<1>6. CASE Closes \/ CleanerWorks \/ ContextKills \/ PushpinDies
  BY <1>6, <1>d DEF Closes, CleanerWorks, ContextKills, PushpinDies
\* The monitor of this run has no message, and while there is a server to
\* kill that of another kills nothing.
<1>7. ASSUME NEW r \in Runs, Monitor(r) PROVE Silent'
  <2>1. CASE r = run
    <3>1. pc # "returned" /\ run > 0  BY <1>7, <2>1 DEF Monitor, MonitorListens, MonitorCatches,
                                    MonitorStops, MonitorKills, Running, Runs
    <3>2. CASE pc \in {"local", "rebuild", "compiling", "closing"}
      BY <1>7, <1>d, <3>2 DEF Monitor, MonitorListens, MonitorCatches, MonitorStops, MonitorKills, Kills
    <3>3. CASE pc \notin {"local", "rebuild", "compiling", "closing"}
      <4>1. MonitorListens(r)
        BY <1>7, <1>a, <1>d, <2>1, <3>1, <3>3 DEF Monitor, MonitorCatches, MonitorStops, MonitorKills
      <4>2. QED  BY <1>a, <1>d, <2>1, <4>1 DEF MonitorListens
    <3>4. QED  BY <3>2, <3>3
  <2>2. CASE r # run
    <3>1. /\ UNCHANGED <<pc, result, run, server, watcher, handler>>
          /\ run > 0 => channel'[run] = channel[run] /\ monitor'[run] = monitor[run]
      BY <1>7, <1>a, <1>b, <2>2 DEF Monitor, MonitorListens, MonitorCatches, MonitorStops, MonitorKills, Kills
    <3>2. QED  BY <1>d, <3>1
  <2>3. QED  BY <2>1, <2>2
<1>8. CASE SetUpWatcher \/ Debounced \/ CloseWatcher \/ HandlerKills
  BY <1>8, <1>d DEF SetUpWatcher, Debounced, CloseWatcher, HandlerKills, Kills, Finished
<1>9. CASE ChangeFile \/ ServerExits
  BY <1>9, <1>d DEF ChangeFile, ServerExits
<1>10. CASE \E atTerminal \in BOOLEAN : Signal(atTerminal) \/ HangUp(atTerminal)
  BY <1>10, <1>c, SignalFacts DEF TypeOK
<1>11. QED
  BY <1>1, <1>2, <1>3, <1>4, <1>5, <1>6, <1>7, <1>8, <1>9, <1>10 DEF Next, Main

-----------------------------------------------------------------------------
(* The monitors.                                                           *)

LEMMA ToldStep == TypeOK /\ RunsCounted /\ AllTold /\ Next => AllTold'
<1> SUFFICES ASSUME TypeOK, RunsCounted, AllTold, Next PROVE AllTold'  OBVIOUS
<1> USE DEF process, watching, files, fanout, history, Return, Close
<1>a. monitor \in [Runs -> Monitors] /\ channel \in [Runs -> {0, 1}] /\ run \in Nat
  BY DEF TypeOK
<1>b. \A r \in 1 .. run : r \in Runs  BY RunFacts
\* It is enough that what is told stays told, and a run that is over is told.
<1>c. ASSUME run' = run, \A r \in 1 .. run : Told(r) => Told(r)',
             run \in Nat \ {0} /\ pc' \in {"local", "rebuild", "compiling"} =>
                Told(run)' \/ pc \in {"local", "rebuild", "compiling"}
      PROVE  AllTold'
  <2>1. ASSUME NEW r \in 1 .. run
        PROVE  Told(r)' \/ (r = run /\ pc' \notin {"local", "rebuild", "compiling"})
    <3>1. CASE Told(r)  BY <1>c, <2>1, <3>1
    <3>2. CASE r = run /\ pc \notin {"local", "rebuild", "compiling"}
      BY <1>a, <1>c, <2>1, <3>2
    <3>3. QED  BY <2>1, <3>1, <3>2 DEF AllTold
  <2>2. QED  BY <1>c, <2>1 DEF AllTold, Told
<1>1. CASE \/ Begin \/ FirstBuild \/ Prepare
           \/ PreparePushpin \/ LaunchPushpin \/ ForkPushpin \/ PushpinStarted \/ PushpinFailed
  <2>1. run = 0 /\ run' = run
    BY <1>1 DEF Begin, FirstBuild, Prepare, PreparePushpin, LaunchPushpin, ForkPushpin,
                PushpinStarted, PushpinFailed, RunsCounted, Starting
  <2>2. QED  BY <2>1 DEF AllTold
<1>2. CASE StartLocal
  <2>1. run' = run + 1 /\ pc' = "starting" /\ pc = "local"  BY <1>2 DEF StartLocal
  <2>2. \A r \in 1 .. run : Told(r)'
    BY <1>2, <1>a, <1>b, <2>1 DEF StartLocal, AllTold, Told
  <2>3. QED  BY <1>a, <2>1, <2>2 DEF AllTold
<1>3. CASE StartServer \/ KnowServer
  BY <1>3, <1>c DEF StartServer, KnowServer, Told
<1>4. CASE ServerEnded
  BY <1>4, <1>c DEF ServerEnded, Told, RunsCounted
<1>5. CASE ReceiveFailure \/ ReceiveRestart \/ NobodySends
  BY <1>5, <1>c DEF ReceiveFailure, ReceiveRestart, NobodySends, Told
<1>6. CASE TellMonitor
  <2>1. \A r \in 1 .. run : Told(r) => Told(r)'
    BY <1>6, <1>a, <1>b DEF TellMonitor, Told
  <2>2. run \in Nat \ {0} => Told(run)'
    BY <1>6, <1>a, <1>b DEF TellMonitor, Told
  <2>3. run' = run  BY <1>6 DEF TellMonitor
  <2>4. QED  BY <1>c, <2>1, <2>2, <2>3
<1>7. CASE Rebuild \/ Rebuilt
  BY <1>7, <1>c DEF Rebuild, Rebuilt, Told
<1>8. CASE Closes \/ CleanerWorks \/ ContextKills \/ PushpinDies
  BY <1>8, <1>c DEF Closes, CleanerWorks, ContextKills, PushpinDies, Told
<1>9. CASE \E r \in Runs : Monitor(r)
  <2>1. \A r \in 1 .. run : Told(r) => Told(r)'
    BY <1>9, <1>a, <1>b DEF Monitor, MonitorListens, MonitorCatches, MonitorStops, MonitorKills, Told
  <2>2. UNCHANGED <<run, pc>>
    BY <1>9 DEF Monitor, MonitorListens, MonitorCatches, MonitorStops, MonitorKills
  <2>3. QED  BY <1>c, <2>1, <2>2
<1>10. CASE SetUpWatcher \/ Debounced \/ CloseWatcher \/ HandlerKills
  BY <1>10, <1>c DEF SetUpWatcher, Debounced, CloseWatcher, HandlerKills, Told
<1>11. CASE ChangeFile \/ ServerExits
  BY <1>11, <1>c DEF ChangeFile, ServerExits, Told
<1>12. CASE \E atTerminal \in BOOLEAN : Signal(atTerminal) \/ HangUp(atTerminal)
  <2>1. \A r \in 1 .. run : Told(r) => Told(r)'
    BY <1>12, <1>a, <1>b, SignalFacts DEF Told
  <2>2. run' = run /\ pc' \in {pc, "returned"}  BY <1>12, SignalFacts
  <2>3. QED  BY <1>c, <2>1, <2>2
<1>13. QED
  BY <1>1, <1>2, <1>3, <1>4, <1>5, <1>6, <1>7, <1>8, <1>9, <1>10, <1>11, <1>12 DEF Next, Main

-----------------------------------------------------------------------------

LEMMA InvNext == Inv /\ [Next]_vars => Inv'
<1>1. Inv /\ Next => Inv'
  BY TypeStep, CountedStep, AloneStep, SilentStep, ToldStep DEF Inv
<1>2. Inv /\ UNCHANGED vars => Inv'
  BY DEF vars, process, watching, files, fanout, history, Inv, TypeOK, RunsCounted, Again,
         Alone, Silent, AllTold, Told
<1>3. QED  BY <1>1, <1>2

\* What is known of the run, its monitor and the two processes at every place
\* of Exec and local() (src/pkg/commands/compute/serve.go).
THEOREM ServeInvariant == Spec => []Inv
<1>1. QED  BY Initially, InvNext, PTL DEF Spec

\* A command that returns leaves neither a server nor Pushpin behind, on every
\* path and whoever cleans up first (the deferred pushpinCtx.Close and its
\* sync.Once).
THEOREM ReturnsAloneAlways == Spec => []ReturnsAlone
<1>1. Inv => ReturnsAlone  BY DEF Inv, Alone, ReturnsAlone
<1>2. QED  BY ServeInvariant, <1>1, PTL

\* "Local server stopped" is said only after a signal: a kill for a restart is
\* never taken for one (the select in local after errKilled).
THEOREM OnlySignalsStopAlways == Spec => []OnlySignalsStop
<1>1. Inv => OnlySignalsStop  BY DEF Inv, TypeOK, Silent, OnlySignalsStop
<1>2. QED  BY ServeInvariant, <1>1, PTL

\* Restarts do not pile up listeners (the comment in local on SignalCh).
THEOREM MonitorsToldAlways == Spec => []MonitorsTold
<1>1. Inv => MonitorsTold  BY DEF Inv, AllTold, Told, MonitorsTold
<1>2. QED  BY ServeInvariant, <1>1, PTL

=============================================================================
