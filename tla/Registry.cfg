\* A device that is created and deleted twice, and two clients that race for it
\* and its application.
CONSTANTS
    Apps = {app}
    Names = {d1}
    Clients = {c1, c2}
    Specs = {0, 1}
    Absent = Absent
    NoDevice = NoDevice
    NoCopy = NoCopy
    Blind = FALSE
    MaxApps = 1
    MaxDevices = 2
    MaxRevision = 2
SYMMETRY Symmetry
SPECIFICATION RegistrySpec
INVARIANTS DeletionWaits VersionIdentifiesContent
PROPERTIES FinalizersHold ResourcesMoveForward
CHECK_DEADLOCK FALSE
