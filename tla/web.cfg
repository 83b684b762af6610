\* Each page of the web application, on its own. Visits, joins, loads and edits are bounded, so a page may stop.
CONSTANTS
    row1 = row1
    row2 = row2
    me = me
    someone = someone
    email1 = email1
    email2 = email2
    tab = tab
    call = call
    key1 = key1
    key2 = key2
    key3 = key3
    q1 = q1
    q2 = q2
    item1 = item1
    item2 = item2
    t1 = t1
    t2 = t2
    t3 = t3
    t4 = t4
    host = host
    student = student
    viewer = viewer
    teacher = teacher
    pupil = pupil
    thing = thing
    Null = Null
    None = None
    Nothing = Nothing
    NoTrack = NoTrack
    NoAnswer = NoAnswer
    Rows = {row1, row2}
    Subs = {me, someone}
    Emails = {email1, email2}
    Seeded <- MCSeeded
    Calls = {tab, call}
    Tab = tab
    Me = me
    Keys = {key1, key2, key3}
    MaxVisits = 2
    Queries = {q1, q2}
    Items = {item1, item2}
    MaxLoads = 3
    Tracks = {t1, t2, t3, t4}
    Local = viewer
    Others = {teacher, pupil}
    Teacher = teacher
    Host = host
    Students = {student}
    MaxJoins <- MCJoins
    MaxWire = 2
    Things = {thing}
    MaxAsks = 2
    MaxEdits = 1
SPECIFICATION WebSpec
INVARIANTS
    WebTypeOK
    PaysOncePerVisit
    LatestIsShown
    InvitationIsNotWasted
    StageIsCurrent
    RoomIsTold
    GoneIsDisconnected
    DeskIsCurrent
PROPERTIES
    IdentityIsKept
    EditsAreKept
    WaitingEnds
CHECK_DEADLOCK FALSE
