SPECIFICATION Spec
CONSTANTS
    QueueSize = 2
    Configs = {home, office}
    NoCredentials = NoCredentials
INVARIANTS TypeOK ReadyTracksLink CopiesCurrent CancelIsOwn
PROPERTIES SessionEnds ErrorShown QueuedRebootHappens
