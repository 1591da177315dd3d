SPECIFICATION Spec
CONSTANTS
    Daemon = Daemon
    OneShots = {o1}
    Items = {}
    NoFile = NoFile
    MaxCrashes = 2
INVARIANTS
    StatusNeverTorn
    OutcomeRecorded
