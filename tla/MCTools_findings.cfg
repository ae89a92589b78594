SPECIFICATION Spec
CONSTANTS
    Threads = {t1, t2}
    Uuids <- MCUuids
    Refs <- MCRefs
    Heads = {"top", "sub"}
    Lead = "top"
    x = x
    y = y
    z = z
    Alike <- MCAlike
    Texts <- MCTexts
    Drafts <- MCDrafts
    Absent = Absent
    None = None
    MaxRows = 1
    MaxCalls = 4
CHECK_DEADLOCK FALSE
INVARIANT HitIsFresh
INVARIANT HitIsFreshUnlessMuted
INVARIANT PatchSparesTheRest
INVARIANT TagsKept
INVARIANT DuplicateHasItsCanonical
INVARIANT OneCanonicalPerGist
