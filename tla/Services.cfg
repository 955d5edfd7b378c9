SPECIFICATION ServicesSpec
CHECK_DEADLOCK FALSE
CONSTANTS
    c1 = c1
    c2 = c2
    d1 = d1
    e1 = e1
    e2 = e2
    r1 = r1
    r2 = r2
    w1 = w1
    w2 = w2
    p1 = p1
    p2 = p2
    s1 = s1
    s2 = s2
    v1 = v1
    k1 = k1
    k2 = k2
    o1 = o1
    a1 = a1
    a2 = a2
    a3 = a3
    a4 = a4
    Clients = {c1}
    NoClient = NoClient
    Dictations = {d1}
    MaxRevision = 2
    MaxIssues = 2
    MaxAttempts = 2
    MaxEdits = 2
    Editors = {e1, e2}
    Recordings = {r1, r2}
    Diarized = {0, 1}
    People = {p1}
    Nobody = Nobody
    MaxTranscripts = 3
    MaxCorrections = 2
    MaxRenames = 1
    Workers = {w1, w2}
    Prints = {p1, p2}
    Speakers = {s1, s2}
    VoicePeople = {v1, a1}
    Unknown = Unknown
    MaxVersion = 2
    MaxAttested = 2
    Forms = {e1, e2}
    Readers = {w1}
    Keys = {k1, k2}
    Papers = {d1}
    Scans = {c1, c2}
    Persons = {p1}
    Nothing = Nothing
    MaxRecord = 3
    Operators = {o1}
    Fields = {c1, c2}
    Values = {0, 1}
    MaxDraft = 3
    MaxSpoken = 1
    Voiced = {a1, a2, a4}
    Asking = {a1}
    Nameless = {a4}
    MaxFiles = 2
    MaxParts = 4
    Heard = {s1, s2}
    Duration = 6
    MaxTurns = 3
    SpeechSets <- MCSpeechSets
    MinTurn = 2
    MergeGap = 1
    MaxLength = 5
    MinPiece = 1
    Padding = 1
    Ticks = 4
    MaxReported = 3
    Detections <- MCDetections
    MinOverlap = 1
    MaxClip = 3
    MinClip = 1
    Clerks = {w1, w2}
    Serials = {s1}
    Cards = {d1}
    SubjectRows = {k1}
    ProfileRows = {r1}
    Humans = {p1, p2}
    Absent = Absent
    AliasHops = 2
    MaxItems = 2
    Users = {a1, a2}
    Boss = a1
    Roles = {"ADMIN", "USER"}
    Handlers = {w1, w2}
    MaxAdmitted = 3
    Ladder <- MCLadder
    Tags <- MCTags
    Machines <- MCMachines
    Settings <- MCSettings
    Unseen = Unseen
    MaxProvisions = 1
    StoredFiles = {d1, c1}
    MaxRuns = 2
    Enrolled = {1, 2, 3, 4}
    Orders <- MCOrders
    Likenesses <- MCLikenesses
    Models <- MCModels
    Coherence = 2
    NearDuplicate = 4
    MaxToggles = 1
    Filed = {a1, a2}
    Galleries <- MCGalleries
    Margin = 2
    Anyone = Anyone
    Typed = {1, 2}
    Foreign = {3}
    MaxToken = 2
    Silent = Silent
    MaxTakes = 2
    MaxTokens = 2
    Clicks = {1}
    MaxPolls = 1
    Admins = {a1, a2}
    Ranges <- MCRanges
    Units <- MCUnits
    Environments <- MCEnvironments
    MaxSaves = 2
INVARIANTS
    ServicesTypeOK
    IssuedReportsHold
    TranscriptsHold
    PrintsHold
    ScansKept
    TestimonyKept
    WorkspaceHolds
    SpeechHolds
    NumbersLeadHome
    WordedAsApproved
    WipeHolds
PROPERTIES
    EditorHolds
    NarrationsHold
    DecisionsHold
    RecordHolds
    StatementsHold
    AccountsHold
