SPECIFICATION Spec
CONSTANTS
    Requests = {q1, q2, q3}
    NoRequest = NoRequest
    Keys = {k1}
    NoKey = NoKey
    Forms = {consenting, plain}
    Consents = {consenting}
    Tokens = {t1, t2}
    MaxConcurrentPerClient = 1
    MaxFaults = 1
INVARIANTS
    DuplicatesHaveAnExcuse
    ReplyIsTrue
    ConsentIsRecorded
    CaptchaPerJob
SYMMETRY IntakeSymmetry
CHECK_DEADLOCK FALSE
