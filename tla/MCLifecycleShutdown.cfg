SPECIFICATION Spec
CONSTANTS
    Listeners = 2
    Null = Null
INVARIANTS
    ShutdownHonoured
