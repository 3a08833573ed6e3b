SPECIFICATION AskSpec
CONSTANTS
    HorizonDays = 400
    MaxInt = 127
    CronExprs <- MCCronExprs
    Moments <- MCMoments
    Windows <- MCWindows
    WindowSize = 3
    At = 5
    Temps <- MCTemps
    Hums <- MCHums
    Airs <- MCAirs
    Rows <- MCRows
    Candidates <- MCCandidates
    Roles <- MCRoles
    Weights <- MCWeights
    Source <- MCSource
    Definition <- MCDefinition
    Rule <- MCRule
    Recent = 4
    Histories <- MCHistories
    Computations <- MCComputations
    Slices <- MCSlices
    PageSizes = {1, 2}
INVARIANTS
    CronFindsNext
    FormulasHold
    ValidRowKeepsNumbers
    ScoresFair
    KpisAgree
