SPECIFICATION Spec
CONSTANTS
    Games <- MCGames
    HookAddress <- MCHookAddress
    Urls <- MCUrls
    Digests <- MCDigests
    JoinKeys <- MCJoinKeys
    Versions <- MCVersions
INVARIANTS
    TypeOK
    SettingsArrive
    DetectionHidden
    Announced
    FixesInPlace
PROPERTIES
    NothingOverwritten
