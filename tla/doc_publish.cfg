\* A catalog that does not answer after a publish has committed.
SPECIFICATION MCSpec
CONSTANTS
    None = None
    arc1 = arc1
    arc2 = arc2
    httpfs = httpfs
    odd = odd
    b1 = b1
    b2 = b2
    AnswerFails = TRUE
    MaxChanges = 1
    MaxFaults <- MCFaults
    Vetted = {httpfs}
    VettedHere = {}
    Others = {odd}
    Builds = {b1, b2}
    Slots <- MCSlots
    Contents <- MCContents
    Publishers = {arc1, arc2}
    Digests = {"a", "b"}
    MaxSnapshots = 3
    Procs = {arc1, arc2}
    Bodies <- MCBodies
    Queries <- MCQueries
    Ttl = 0
    MaxTime = 2
    Names <- MCNames
    Agents <- MCAgents
    Configs = {"claude", "codex", "cursor"}
    Releases = {1, 2}
    Runs = {arc1, arc2}
    Gates <- MCGates
    Places = 2
SYMMETRY Symmetry
INVARIANTS
    ReferencedIsThere
CHECK_DEADLOCK FALSE
