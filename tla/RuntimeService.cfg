SPECIFICATION Spec
CONSTANTS
    draft = draft
    gate = gate
    END = END
    Nodes = {draft, gate}
    Entry = draft
    Gates = {gate}
    Prompts = {draft}
    Routes <- SmallRoutes
    StepsPerNode = 1
    MaxFresh = 1
    MaxRuns = 3
    MaxPosts = 2
    MaxCrashes = 1
INVARIANTS
    ResumesOnPath
    AckedDecisionCounts
    PausedResumable
PROPERTY
    PostsAnswered
CHECK_DEADLOCK FALSE
