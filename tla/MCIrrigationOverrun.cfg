SPECIFICATION Spec
CONSTANTS
    W = 11
    BootTime = 5
    ActiveTick = 1
    MinDuration = 1
    DefaultDuration = 2
    MaxDuration = 3
    Cooldown = 4
    EvapoMaxSleep = 6
    Jitter = 1
    Forecasts <- MCForecasts
    BootModes <- MCAllModes
    CommandModes <- MCAllModes
INVARIANT RunWithinMaxDuration
