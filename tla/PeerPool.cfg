\* Two peers, the rounds of Run, and those of refreshes, one at a time.
SPECIFICATION FairSpec
CONSTANTS
    Peers = {p1, p2}
    Run = Run
    Refreshers = {r1}
PROPERTIES
    UpPeersAreFound
    DownPeersAreMissed
