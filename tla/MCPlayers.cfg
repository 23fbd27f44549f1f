\* Two calls of any handlers, two servers that are mounted in turn.
SPECIFICATION FairSpec
CONSTANTS
    Servers = {s1, s2}
    Requests = {r1, r2}
    Asks <- MCAsks
    BanFlying = {s1}
    None = None
PROPERTY TimedBanEnds
