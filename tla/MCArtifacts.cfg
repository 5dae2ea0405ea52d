SPECIFICATION ArtifactsSpec
CONSTANTS
    Writers = {w1, w2}
    Readers = {r1}
    NoFile = NoFile
    NoBundle = NoBundle
    a = a
    b = b
    Bundles <- MCBundles
    Captures = {c1, c2}
    Publishers = {p1, p2}
    Deciders = {d1}
    Horizons <- MCHorizons
    LastFrame = 2
    Partial = Partial
    Savers = {s1, s2}
    Loaders = {l1}
    LastVersion = 3
    Missing = Missing
    LastProcess = 3
    LastSession = 2
    LastCall = 1
    NoSession = NoSession
    Studies = {study}
    Candidates = {c1, c2}
    LastLine = 5
    Updaters = {u1, u2}
    FrameLoaders = {l1, l2}
    Bounded = {l1}
    FreshFrom = 2
    LastPrices = 3
    LastStamp = 4
    None = None
INVARIANTS
    UndisturbedIsReadable
    QuoteAgreement
    BlendIsOfOneIdentity
    PassedIsServed
    PublishedIsLoadable
    CallOutcomeIsTrue
    RefusedOnlyIfShared
    StudiesArePreregistered
    UpdatedIsServed
PROPERTIES
    ReadsAreAtomic
    LoadsAreAtomic
CHECK_DEADLOCK FALSE
