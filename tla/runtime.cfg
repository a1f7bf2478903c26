SPECIFICATION RuntimeSpec
CONSTANTS
    Parts = {"emitters", "context", "workers", "iterators", "combinators", "atomics", "blocklists", "views", "processes", "decoders", "regexps", "sets", "comparisons", "graph"}
    Dispatchers = {"emitter", "target", "port", "channel"}
    Fns = {f, g}
    Licences <- CarefulLicences
    MaxAdded = 3
    MaxDispatch = 3
    Stores = {"a", "b"}
    MaxResources = 3
    MaxScopes = 2
    Habits = {}
    Scenes = {"worker", "channels", "locks"}
    MaxPosts = 3
    Tabs = {1, 2, 3}
    MaxCasts = 3
    Requests = {r1, r2}
    Kinds = {"map", "flatMap", "filter", "take", "drop", "concat", "shortest", "longest", "strict", "find", "some", "every", "forEach", "reduce", "toArray"}
    Joined = 3
    MaxGot = 2
    MaxCalls = 3
    Methods = {"all", "allSettled", "any", "race", "allKeyed", "allSettledKeyed", "DisposableStack", "AsyncDisposableStack"}
    N = 2
    MaxReports = 2
    MayFail = TRUE
    Views <- AllViews
    Bits = 3
    Half = 2
    Operands <- SmallInts
    MaxOps = 2
    Keys = {k1, k2}
    MaxWaiters = 3
    ByteBits = 2
    MaxRules = 1
    ViewsOf <- SomeViews
    Bytes0 <- FourBytes
    MaxBytes = 6
    Results <- SomeResults
    Sizes = {2, 6}
    MaxChanges = 2
    Careless = FALSE
    Programs <- Children
    PipeSize = 2
    MaxUnits = 3
    MaxUses = 1
    Encodings = {"utf8", "utf16le", "base64", "latin1"}
    ByteKinds = {0, 1, 2, 3, 4, 5}
    MaxInput = 4
    Octets = {0, 201}
    MaxOctets = 4
    Rooms = {3, 5}
    Subjects <- SomeSubjects
    MatchLengths <- SomeLengths
    Captured = {1}
    Limits = {1, 9}
    Templates <- SomeTemplates
    MaxReCalls = 2
    Values = {1, 2, 3}
    SetOps = {"union", "intersection", "difference", "symmetricDifference", "isSubsetOf", "isSupersetOf", "isDisjointFrom"}
    MaxAlters = 2
    Texts <- SomeTexts
    NopLines = 1
    Nodes = {1, 2, 3}
    Shapes <- SomeShapes
    EdgeSets <- SomeEdges
    Places = {1, 2}
    BaseOf <- SomeBases
    IndexAt = 1
    RegionOf <- SomeRegions
    PredMay = {"connect"}
INVARIANTS
    ContextsHold
    MessagesInOrder
    IteratorsInStep
    CombinatorsSettle
    DataIsExact
    ViewsAreExact
    ChildrenAreHeard
PROPERTIES
    EveryoneIsTold
CHECK_DEADLOCK FALSE
