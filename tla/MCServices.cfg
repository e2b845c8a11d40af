SPECIFICATION Spec
CONSTANTS
    Bytes <- MCBytes
    Prefix <- MCPrefix
    UnitFiles <- MCUnitFiles
    Commands = {"validate", "show", "start", "reload"}
    Passwd <- MCPasswd
    Absolute <- MCAbsolute
    OwnIds <- MCOwnIds
    ValidPath = {"/dev/a", "/dev/b"}
    Locked = {"!h1", "*"}
    Unusable = {"19000"}
    Hashes <- MCHashes
    Password <- MCPassword
    ShadowFiles <- MCShadowFiles
    Inputs = {"Secret-Words1", "weak", "no input"}
    Signals = {9, 15}
INVARIANTS
    ParsedIsDeclared
    SuccessMeansDone
    RunsAsItsUser
    ApprovalIsConfirmed
    AuditIsTrue
    VerifiedMeansMatch
