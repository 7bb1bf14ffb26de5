\* "compute serve": the server, the watcher, the monitors and Pushpin.
CONSTANTS
    Flags      <- MCFlags
    MaxChanges <- MCMaxChanges
    MaxSignals <- MCMaxSignals
    MaxExits   <- MCMaxExits
SPECIFICATION Spec
INVARIANTS ReturnsAlone OnlySignalsStop MonitorsTold
PROPERTIES SignalEnds ChangeServed
\* The command ends, or waits for a signal that nobody sends.
CHECK_DEADLOCK FALSE
