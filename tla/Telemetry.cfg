SPECIFICATION TelemetrySpec
CONSTANT QueueSize = 1
INVARIANTS TelemetryTypeOK LowWaterSignalled
PROPERTIES RequestServed PostWateringRead ShownCorrected
