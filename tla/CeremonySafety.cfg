SPECIFICATION Spec
CONSTANTS
    o1 = o1
    o2 = o2
    r1 = r1
    r2 = r2
    NoSession = NoSession
    Nobody = Nobody
    Operator = {o1, o2}
    Request = {r1, r2}
    MaxNonce = 3
SYMMETRY Symmetry
INVARIANTS
    VerifiedByHeldKey
    AnswersLastChallenge
    UndisturbedSucceeds
