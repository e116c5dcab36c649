SPECIFICATION MCSpec
CONSTANTS
    MaxParams = 16
    ValueSize = 256
    Registries <- FewKeys
    Methods <- Verbs
    Uris <- Paths3
    Prefix <- VerbPrefix
    NumFallbacks = 2
    MaxEntries = 1
    EntrySize = 3
    PatternChars = {"/", "a", ":", "*", "?"}
    PathChars = {"/", "a", "b"}
    MaxPattern = 4
    MaxPath = 4
INVARIANTS BestKept HeadLikeGet RightMethod LinksResolve  FindsMatches
PROPERTIES LoopReturns
CHECK_DEADLOCK FALSE
