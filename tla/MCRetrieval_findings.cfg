SPECIFICATION MCSpec
CONSTANTS
    N = 4
    Profiles <- MCProfiles
    Keywords <- MCKeywords
    RowIds <- MCRowIds
    Questions <- MCQuestions
    Limit = 2
    Wide = 3
    Window = 3
    MaxK = 3
    Recall = 2
    Orders <- MCOrders
    Floors = {150, 300}
    Costs <- MCCosts
    MaxBudget = 10
    Pages = {"a1", "a2", "b1", "o1"}
    Source <- MCSource
    Base <- MCBase
    Titles = {"plan", "ui/plan"}
    Contents <- MCContents
    MaxWrites = 4
    LastTime = 3
CHECK_DEADLOCK FALSE
INVARIANT ChunksHideDuplicates
INVARIANT NearestAreRecalledHnsw
INVARIANT TagsScanThePartition
INVARIANT StaticRecallsAsDense
INVARIANT NearerRanksHigherEverywhere
INVARIANT NothingResolvableDangles
INVARIANT BoundToWhatItMeans
INVARIANT InferredOnlyWhereUnlinked
INVARIANT RenamedTargetIsBound
