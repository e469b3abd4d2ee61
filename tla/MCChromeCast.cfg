SPECIFICATION FairSpec
CONSTANTS
    tvCast = tvCast
    tvDlna = tvDlna
    box = box
    NoDevice = NoDevice
    Devices = {tvCast, tvDlna, box}
    NameOf <- MCNameOf
    MaxActions = 3
INVARIANTS TypeOK CastHasServer ChosenIsCast
PROPERTIES StopWins DiscoveryReturns
