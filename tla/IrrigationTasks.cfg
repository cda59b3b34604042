SPECIFICATION Spec
CONSTANT CommandModes = {"OFF", "HUMIDITY", "MANUAL", "EVAPOTRANSPIRATION"}
INVARIANTS TypeOK OrphanOnlyByOff
PROPERTIES PumpStops SessionEnds
