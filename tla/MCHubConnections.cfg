CONSTANTS
    Hubs = {h1, h2}
    Sockets = {s1, s2, s3}
    Nobody = Nobody
    Announcements = {a1}
    Sweeps = {w1}
SPECIFICATION FairSpec
INVARIANTS TypeOK HeardWhole SweepReachesSteadyHubs
PROPERTIES ImplementsDirectory GoneHubsAreForgotten
CHECK_DEADLOCK FALSE
