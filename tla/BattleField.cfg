SPECIFICATION DuelSpec
CONSTANTS
    Matches <- MCMatches
    BeyondInt <- MCBeyondInt
    MaxTurns = 4
    MaxBattles = 2
INVARIANTS
    TypeOK
    WinnerStands
    ScreensAgree
    EffectsNotEarly
    ExperienceKept
    PokemonKept
    NobodyWithout
    FallsOnlyByStaleId
CHECK_DEADLOCK FALSE
