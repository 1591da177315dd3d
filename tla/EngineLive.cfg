SPECIFICATION FairSpec
CONSTANTS
    Daemon = Daemon
    OneShots = {}
    Items = {i1}
    NoFile = NoFile
    MaxCrashes = 1
PROPERTIES
    PlaybackEventuallySwept
    SignalStopsDaemon
