SPECIFICATION Spec
CONSTANTS
    Listeners = 2
    Null = Null
INVARIANTS
    TypeOK
    OneAdminToken
    JobsHaveDatabase
    ServingMeansReady
    CleanExit
PROPERTIES
    SignalEndsLife
