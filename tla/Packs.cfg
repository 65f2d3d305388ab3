SPECIFICATION BundlesSpec
CONSTANTS
    Version = {v1, v2}
    Installer = {i1, i2}
    Thread = {t1, t2}
    MaxAttempts = 2
    MaxInstalls = 2
    MaxAccidents = 2
    Absent = Absent
    Torn = Torn
    NoBundle = NoBundle
SYMMETRY MCSymmetry
INVARIANTS
    ListedPackLoads
    ReportedInstallLasts
    OneBundlePerKey
    QuietLoadIsOneVersion
CHECK_DEADLOCK FALSE
