SPECIFICATION GSpec
CONSTANTS
    SignUps = {i1, i2}
    Reads = {l1}
    Emails = {e1, e2}
    LongEmails = {e2}
    Passwords = {p1, p2}
    Nobody = Nobody
    MaxFaults = 1
    Addresses = {a1, a2}
    Watched = a1
    Burst = 1
    TokenTicks = 2
    Window = 2
SYMMETRY Symmetry
ACTION_CONSTRAINT ClockNeeded
INVARIANTS GTypeOK AnswersTell ReadsSeeWrites RateBound PacedNeverLimited NothingDone EntriesEarned
PROPERTIES AccountsKept IsAtomic
CHECK_DEADLOCK FALSE
