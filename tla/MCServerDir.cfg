\* Two slots, a PATCH, two updates and a restore; mcsm dies at any time.
SPECIFICATION Spec
CONSTANTS
    rcon = rcon
    query = query
    motd = motd
    p1 = p1
    Keys = {rcon, query, motd}
    Writers = {s1, s2, p1}
    Origin = Origin
    None = None
    Updates = {u1, u2}
    OldJar = OldJar
    Archive = Archive
    NoFile = NoFile
    Starts = {s1, s2}
    Patches = {p1}
    Body <- MCBody
    Managed = {rcon, query}
    Reserved = {rcon}
SYMMETRY Symmetry
CONSTRAINT ThreeAtMost
INVARIANTS
    PatchesAreKept
    JvmHasItsPassword
    JarSurvives
    LaunchFindsJar
\* All requests may have been made.
CHECK_DEADLOCK FALSE
