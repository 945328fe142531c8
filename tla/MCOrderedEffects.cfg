\* Runs in the sets of MCRequests; those of Faulty may fail anywhere, those of
\* Crashing may die anywhere.
CONSTANTS
    s1 = s1
    s2 = s2
    s3 = s3
    k1 = k1
    k2 = k2
    k3 = k3
    p1 = p1
    p2 = p2
    p3 = p3
    c1 = c1
    c2 = c2
    asset = asset
    otherAsset = otherAsset
    source = source
    otherSource = otherSource
    paper = paper
    knowledge = knowledge
    sequel = sequel
    nextKnowledge = nextKnowledge
    current = current
    archive0 = archive0
    archive1 = archive1
    note = note
    blob = blob
    otherBlob = otherBlob
    text = text
    otherText = otherText
    v0 = v0
    v1 = v1
    v2 = v2
    Run = {s1, s2, s3, k1, k2, k3, p1, p2, p3, c1, c2}
    NoRun = NoRun
    Absent = Absent
    Torn = Torn
    Name <- MCName
    Content <- MCContent
    Effects <- MCEffects
    InitialFile <- MCInitialFile
    Hook <- MCHook
    Folder <- MCFolder
    Sources <- MCSources
    Supersedes <- MCSupersedes
    Requests <- MCRequests
    Faulty = {s1, k1, k3, p1, c1, c2}
    Crashing = {s1, s2, k1, k2, p1, p2, c1, c2}
SPECIFICATION FairSpec
INVARIANTS
    TypeOK
    DescriptorsStand
    OneResultPerIdentity
    LaterEffectsWait
    ReceiptsAreTrue
PROPERTIES
    OverwrittenIsArchived
    ResultsAreAdmitted
    RunsEnd
CHECK_DEADLOCK FALSE
