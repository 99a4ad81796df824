CONSTANTS
    Devices = {a, b}
    LabDevices = {a}
    Protecting = {a, b}
    Showing = {a, b}
    Publishing = {a}
    Processes = {"process"}
    Stranger = z
    SavedValue = 1
    SavedFaults = {"sensor", "comm"}
SPECIFICATION FaultsSpec
PROPERTIES
    RestoreShowsSnapshot
CHECK_DEADLOCK FALSE
