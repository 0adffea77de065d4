CONSTANTS
    maxTerms = 2
    Fields <- MCBus
    Texts <- MCTexts
    Sizes = {1}
    Overhead = 2
    Budget = 6
    scanBudget = 1
    MaxArrivals = 3
    snapshotLimit = 2
    MaxInFlight = 2
    PatternChars = {33, 42, 45, 63, 91, 93, 97}
    MaxPattern = 5
    SubjectChars = {45, 97}
    MaxSubject = 3
CHECK_DEADLOCK FALSE
SPECIFICATION MCSpec
INVARIANTS RowsAnswerTheFilter UnnotedViewComplete VerdictRight CostBounded
PROPERTIES DetailAnswersTheRequest TailCatchesUp
