CONSTANTS
    Hosts <- MCHosts
    HostIsDebian = FALSE
    tcg = tcg
    kvm = kvm
    Profile = {tcg, kvm}
    Environment = tcg
    MaxUnasked = 1
    MaxFaults = 1
    MaxEdits = 1
    Host = Host
    Nothing = Nothing
SPECIFICATION FairSpec
INVARIANTS
    TypeOK
    MaterializedIsCalibrated
    FollowedLockIsCoherent
    ValidTreeIsWhole
PROPERTY FollowingEnds
