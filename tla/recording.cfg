\* Two sessions record, edit and amend in one folder while people work in it.
SPECIFICATION Spec
CONSTANTS
    s1 = s1
    s2 = s2
    load = load
    load2 = load2
    clean = clean
    Absent = Absent
    None = None
    Sessions = {s1, s2}
    Names = {load, load2, clean}
    Slugs = {"load", "clean"}
    Slug <- SlugOf
    NamesOf <- Asked
    Width = 2
    MaxCalls = 3
    MaxChanges = 1
    MaxFaults = 1
INVARIANTS
    CitesWhatIsThere
    AuthorsTextIsKept
    OneStepPerModel
PROPERTIES
    LandsWhole
CHECK_DEADLOCK FALSE
