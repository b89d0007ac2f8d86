SPECIFICATION Spec
CONSTANTS
    Games <- MCGames
    HookAddress <- MCHookAddress
    Urls <- MCUrls
    Digests <- MCDigests
    JoinKeys <- MCJoinKeys
    Versions <- MCVersions
INVARIANTS
    JoinAtStartAddress
