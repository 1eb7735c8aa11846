\* The base process and the base's control loop: every interleaving of commands, failing
\* calls, and a signal.
SPECIFICATION Spec
CONSTANT Timeout = 2
INVARIANTS TypeOK DisarmedStops RecordedStopDisarms
