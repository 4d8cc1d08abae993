SPECIFICATION Spec
CONSTANTS
    Pages = {p1, p2, pd}
    Photos = {p1, p2}
    Opened = {p1, p2}
    Drafts <- StoredDrafts
    Edits = {plain, quick, full}
    Plain = plain
    Quick = {quick}
    None = None
    MaxEntries = 1
    MaxHistory = 1
    MaxInputs = 3
    MaxFaults = 1
SYMMETRY PhotoSymmetry
INVARIANTS PreviewShowsSelection PublishedPagesAreTheManifest
CHECK_DEADLOCK FALSE
