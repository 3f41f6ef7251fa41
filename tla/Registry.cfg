SPECIFICATION Spec
CONSTANTS
    Keys = {k1, k2}
    NoKey = NoKey
    Unreliable = {k1}
    MaxTriggers = 3
    MaxRestarts = 2
INVARIANTS ActiveHasTrigger OneTriggerUntilDead
PROPERTIES DeathNoticed RecoversFromRestart WatchSpec
CHECK_DEADLOCK FALSE
