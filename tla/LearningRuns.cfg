\* Two overlapping triggers, three runs, two files of which a scan reads one.
SPECIFICATION ScanSpec
CONSTANTS
    Handlers = {h1, h2}
    Files = {1, 2}
    Location <- MCLocation
    Mappings <- MCMappings
    Requests <- MCRequests
    Contents <- MCContents
    MaxFiles = 1
    MaxScans = 3
    MaxEdits = 1
    Absent = Absent
    Skipped = Skipped
SYMMETRY Symmetry
INVARIANTS
    ScanTypeOK
    DeltaIsExplained
    RescanIsQuiet
CHECK_DEADLOCK FALSE
