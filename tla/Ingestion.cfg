\* Three requests with any of two keys and two bodies.
CONSTANTS
    Requests = {q1, q2, q3}
    Keys = {k1, k2}
    Bodies = {b1, b2}
    None = None
    Invalid = Invalid

SPECIFICATION FairSpec

INVARIANTS
    TypeOK
    AnswersAgree
    AnnouncedOnce

PROPERTIES
    SubmissionSpec
    RequestsAnswered

CHECK_DEADLOCK FALSE
