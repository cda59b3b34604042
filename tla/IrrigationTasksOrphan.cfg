SPECIFICATION Spec
CONSTANT CommandModes = {"OFF", "MANUAL", "HUMIDITY"}
INVARIANT NoOrphanPump
