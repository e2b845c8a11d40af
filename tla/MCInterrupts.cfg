SPECIFICATION InterruptsSpec
CONSTANTS
    TICKS = 2
    BiosMasks <- MCBiosMasks
    Devices = {12}
    MaxKeys = 2
    MaxGlitches = 1
INVARIANTS
    HandlersMatchLines
    AllAcknowledged
PROPERTIES
    ScancodesRead
    TicksGoOn
