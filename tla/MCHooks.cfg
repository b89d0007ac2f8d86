SPECIFICATION FairSpec
CONSTANTS
    Games <- MCGames
    HookAddress <- MCHookAddress
    Invitations <- MCInvitations
INVARIANTS
    TypeOK
    StaysInCode
    NoNullRead
    JoinsGuarded
    HandledOnce
    ScriptsBlocked
PROPERTIES
    HookLands
    RoutineReturns
