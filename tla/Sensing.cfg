SPECIFICATION Spec
CONSTANTS
    LowSections = 4
    HighSections = 8
    NoTask = NoTask
INVARIANTS TypeOK SoilReadPowered TankNotOverstated
PROPERTIES TriggerNotOvertaken ReadersFinish
