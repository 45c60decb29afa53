SPECIFICATION FairSpec
CONSTANTS
    f1 = f1
    f2 = f2
    f3 = f3
    s1 = s1
    s2 = s2
    s3 = s3
    Files = {f1, f2, f3}
    Shas = {s1, s2, s3}
    Content <- Contents
    Catalogue = {s3}
    Registered = {s1, s2, s3}
    NoFile = NoFile
    MaxGeneration = 2
INVARIANTS
    TitleBelongsToTape
PROPERTIES
    BetterTitleStays
    LonePutKeepsCache
    LoneHitIsShown
