SPECIFICATION PolicySpec
CONSTANTS
    Servers = {"s1", "s2"}
    Addresses = {"a1", "a2"}
    MaxPort = 3
    BlocksQuic = {"s2"}
    RuleLists <- MCRuleLists
    Splits <- MCSplits
    Presets <- MCPresets
    Targets = {"direct", "s2"}
    ResourceHosts <- MCHosts
    DeviceAddresses = {"a1"}
    Starts <- MCStarts
    DefaultSplit <- Reset
    ResetRules <- MCResetRules
    UnsafeName = "geosite-ads"
    Hosts <- MCHosts
    RuntimeNames <- MCNames
    MaxRules = 3
    MaxFixed = 1
    MaxChanges = 2
    MaxFaults = 1
INVARIANTS SettledPolicyRuns TraceNeverGuesses ConflictsAreReal
PROPERTY PolicyStaysBuildable
CHECK_DEADLOCK FALSE
