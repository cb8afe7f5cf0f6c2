\* Two concurrent searches, any configuration and payload at any time.
CONSTANTS
    Payloads <- MCPayloads
    Configs <- MCConfigs
    Registries <- MCRegistries
    Queries <- MCQueries
    MemoryContents <- MCMemory
    Searches = {s1, s2}
    ShortWords <- MCShortWords
    ShortSuffixes <- MCShortSuffixes
    MetalWord = "metal"
    OpenFamily <- MCOpenFamily
    NoEntity = NoEntity
    NoRule = NoRule
    NoGrade = NoGrade
    NoId = NoId
    NoBundle = NoBundle
    NoDate = NoDate
    NoPolicy = NoPolicy
    NoManifest = NoManifest
    NoValue = NoValue
    NoCache = NoCache
    NoIntent = NoIntent
    NoAnswer = NoAnswer
    Alumina = Alumina
    Aluminium = Aluminium
    Zirconia = Zirconia
    Mullite = Mullite
    White = White
    Primary = Primary
SPECIFICATION MCSpec
SYMMETRY Symmetry
INVARIANTS
    VerifiedPublisherIsOwn
CHECK_DEADLOCK FALSE
