SPECIFICATION Spec
CONSTANTS
    None = None
    Registries <- MCRegistries
    MaxLedger = 2
    MaxAttempts = 3
    MaxChallenges = 2
    MaxAnswers = 1
INVARIANTS
    LedgerIsTail
    ChallengeSpentOnce
    AnswersAgree
