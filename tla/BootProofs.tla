------------------------------- MODULE BootProofs ------------------------------
(***************************************************************************)
(* Proofs about Boot: what was shown of Startup and of Updater, each on    *)
(* its own, holds of the two together over any number of boots, and each   *)
(* boot's call of TryUpdateAndInstall is the one step Startup takes it for. *)
(***************************************************************************)
EXTENDS Boot, TLAPS

SP == INSTANCE StartupProofs WITH installed <- Installed, result <- Result
UP == INSTANCE UpdaterProofs

-------------------------------------------------------------------------------
(* The parts of the inductive invariant.                                   *)

\* Where the call is between start and its update: it is made once, while
\* start waits for it.
CallInv ==
    /\ update \in {"none", "network", "download", "over"}
    /\ update = "none" => pc \in {"net", "unbootable"}
    /\ Updating => pc # "unbootable" /\ CallsUpdate
    /\ update = "over" => pc = "returned" /\ frame[1].pc \in SP!PastUpdate

\* What start knows of its state holds in a boot that has one.
StartInv == pc # "unbootable" => SP!IInv

\* The updater's own invariant, until its locals are gone.
UpdateInv ==
    /\ UP!TypeOK /\ UP!InstallInv
    /\ update # "over" => UP!IInv

\* Until the copy begins, and after a call that did not come to it, the file is
\* the whole of the image that was booted.
BootedInv == UP!NotReplaced => disk.install = [img |-> booted, len |-> Size]

IInv ==
    /\ game \in Games /\ config \in Configurations
    /\ CallInv
    /\ StartInv
    /\ UpdateInv
    /\ BootedInv

-------------------------------------------------------------------------------
(* The theorems of the two components speak of the same formulas.          *)

LEMMA SameVars == S!vars = SP!vars
  BY DEF S!vars, SP!vars

LEMMA SameAnnounce == S!Announce <=> SP!Announce
  BY DEF S!Announce, SP!Announce, S!At, SP!At, S!Self, SP!Self, S!Show, SP!Show,
     S!Jump, SP!Jump, S!Become, SP!Become, S!patching, SP!patching,
     S!update, SP!update, S!system, SP!system

LEMMA SameLoadAllModules == S!LoadAllModules <=> SP!LoadAllModules
  BY DEF S!LoadAllModules, SP!LoadAllModules, S!At, SP!At, S!Self, SP!Self,
     S!Jump, SP!Jump, S!Become, SP!Become, S!patching, SP!patching,
     S!update, SP!update

LEMMA SameInitLogger == S!InitLogger <=> SP!InitLogger
  BY DEF S!InitLogger, SP!InitLogger, S!At, SP!At, S!Self, SP!Self,
     S!Jump, SP!Jump, S!Become, SP!Become, S!patching, SP!patching,
     S!update, SP!update

LEMMA SameReadConfig == S!ReadConfig <=> SP!ReadConfig
  BY DEF S!ReadConfig, SP!ReadConfig, S!At, SP!At, S!Self, SP!Self, S!Show, SP!Show,
     S!Jump, SP!Jump, S!Become, SP!Become, S!patching, SP!patching,
     S!update, SP!update, S!system, SP!system

LEMMA SameTryUpdate == S!TryUpdate <=> SP!TryUpdate
  BY DEF S!TryUpdate, SP!TryUpdate, S!At, SP!At, S!Self, SP!Self, S!Show, SP!Show,
     S!Jump, SP!Jump, S!Become, SP!Become, S!WantsUpdate, SP!WantsUpdate,
     S!Updated, SP!Updated, S!patching, SP!patching,
     S!update, SP!update, S!system, SP!system

LEMMA SameTryRestartModule == S!TryRestartModule <=> SP!TryRestartModule
  BY DEF S!TryRestartModule, SP!TryRestartModule, S!At, SP!At, S!Self, SP!Self,
     S!Show, SP!Show, S!Jump, SP!Jump, S!Become, SP!Become, S!Started, SP!Started,
     S!Unset, SP!Unset, S!patching, SP!patching, S!update, SP!update,
     S!system, SP!system

LEMMA SameSetPointers == S!SetPointers <=> SP!SetPointers
  BY DEF S!SetPointers, SP!SetPointers, S!At, SP!At, S!Self, SP!Self,
     S!Become, SP!Become, S!JoinKey, SP!JoinKey, S!patching, SP!patching,
     S!update, SP!update, S!system, SP!system

LEMMA SameDetectGame == S!DetectGame <=> SP!DetectGame
  BY DEF S!DetectGame, SP!DetectGame, S!At, SP!At, S!Self, SP!Self, S!Show, SP!Show,
     S!Jump, SP!Jump, S!Become, SP!Become, S!GetLBPGameNumber, SP!GetLBPGameNumber,
     S!patching, SP!patching, S!update, SP!update, S!system, SP!system

LEMMA SameWritePopup == S!WritePopup <=> SP!WritePopup
  BY DEF S!WritePopup, SP!WritePopup, S!At, SP!At, S!Self, SP!Self,
     S!Jump, SP!Jump, S!Become, SP!Become, S!Message, SP!Message,
     S!update, SP!update, S!system, SP!system

LEMMA SameTables == /\ S!PatchesOf(game) = SP!PatchesOf(game)
                    /\ S!PatchCount = SP!PatchCount
  BY DEF S!PatchesOf, SP!PatchesOf, S!PatchCount, SP!PatchCount,
     S!LBP1Patches, SP!LBP1Patches, S!LBP2Patches, SP!LBP2Patches,
     S!LBP3Patches, SP!LBP3Patches

LEMMA SameSource == ASSUME NEW name PROVE S!Source(name) = SP!Source(name)
  BY DEF S!Source, SP!Source, S!Self, SP!Self

LEMMA SameApplyGamePatches == S!ApplyGamePatches <=> SP!ApplyGamePatches
  BY SameTables, SameSource
     DEF S!ApplyGamePatches, SP!ApplyGamePatches, S!At, SP!At, S!Self, SP!Self,
     S!Write, SP!Write, S!Become, SP!Become,
     S!update, SP!update, S!system, SP!system

LEMMA SameEndPatches == S!EndPatches <=> SP!EndPatches
  BY SameTables
     DEF S!EndPatches, SP!EndPatches, S!At, SP!At, S!Self, SP!Self,
     S!Jump, SP!Jump, S!Become, SP!Become, S!patching, SP!patching,
     S!update, SP!update, S!system, SP!system

LEMMA SameLeave == S!Leave <=> SP!Leave
  BY DEF S!Leave, SP!Leave, S!At, SP!At, S!Self, SP!Self, S!patching, SP!patching,
     S!update, SP!update

LEMMA SameResident == S!Resident <=> SP!Resident
  BY SameVars DEF S!Resident, SP!Resident, S!vars, SP!vars

LEMMA SameNext == S!Next <=> SP!Next
  BY SameAnnounce, SameLoadAllModules, SameInitLogger, SameReadConfig, SameTryUpdate,
     SameTryRestartModule, SameSetPointers, SameDetectGame, SameWritePopup,
     SameApplyGamePatches, SameEndPatches, SameLeave, SameResident
     DEF S!Next, SP!Next

LEMMA SameInitNetwork == U!InitNetwork <=> UP!InitNetwork
  BY DEF U!InitNetwork, UP!InitNetwork, U!Goto, UP!Goto, U!session, UP!session,
     U!transfer, UP!transfer

LEMMA SameAllocatePool == U!AllocatePool <=> UP!AllocatePool
  BY DEF U!AllocatePool, UP!AllocatePool, U!Goto, UP!Goto, U!session, UP!session,
     U!transfer, UP!transfer

LEMMA SameInitHttp == U!InitHttp <=> UP!InitHttp
  BY DEF U!InitHttp, UP!InitHttp, U!Goto, UP!Goto, U!session, UP!session,
     U!transfer, UP!transfer

LEMMA SameCreateClient == U!CreateClient <=> UP!CreateClient
  BY DEF U!CreateClient, UP!CreateClient, U!Goto, UP!Goto, U!session,
     UP!session, U!transfer, UP!transfer

LEMMA SameCreateTransaction == U!CreateTransaction <=> UP!CreateTransaction
  BY DEF U!CreateTransaction, UP!CreateTransaction, U!Goto, UP!Goto, U!session,
     UP!session, U!transfer, UP!transfer

LEMMA SameSendRequest == U!SendRequest <=> UP!SendRequest
  BY DEF U!SendRequest, UP!SendRequest, U!Goto, UP!Goto, U!Responses,
     UP!Responses, U!transfer, UP!transfer

LEMMA SameGetHeader == U!GetHeader <=> UP!GetHeader
  BY DEF U!GetHeader, UP!GetHeader, U!HeaderErr, UP!HeaderErr, U!transfer,
     UP!transfer

LEMMA SameOpenDownload == U!OpenDownload <=> UP!OpenDownload
  BY DEF U!OpenDownload, UP!OpenDownload, U!Goto, UP!Goto, U!Emptied, UP!Emptied,
     U!session, UP!session

LEMMA SameReceiveChunk == U!ReceiveChunk <=> UP!ReceiveChunk
  BY DEF U!ReceiveChunk, UP!ReceiveChunk, U!Goto, UP!Goto, U!transfer,
     UP!transfer

LEMMA SameWriteChunk == U!WriteChunk <=> UP!WriteChunk
  BY DEF U!WriteChunk, UP!WriteChunk, U!Goto, UP!Goto, U!AfterWrite,
     UP!AfterWrite, U!session, UP!session

LEMMA SameCompareDigest == U!CompareDigest <=> UP!CompareDigest
  BY DEF U!CompareDigest, UP!CompareDigest, U!Goto, UP!Goto, U!Verdicts,
     UP!Verdicts, U!session, UP!session, U!transfer, UP!transfer

LEMMA SameDestroyTransaction == U!DestroyTransaction <=> UP!DestroyTransaction
  BY DEF U!DestroyTransaction, UP!DestroyTransaction, U!Goto, UP!Goto, U!session,
     UP!session, U!transfer, UP!transfer

LEMMA SameEndHttp == U!EndHttp <=> UP!EndHttp
  BY DEF U!EndHttp, UP!EndHttp, U!Goto, UP!Goto, U!session,
     UP!session, U!transfer, UP!transfer

LEMMA SameDestroyClient == U!DestroyClient <=> UP!DestroyClient
  BY DEF U!DestroyClient, UP!DestroyClient, U!Goto, UP!Goto, U!session,
     UP!session, U!transfer, UP!transfer

LEMMA SameFreePool == U!FreePool <=> UP!FreePool
  BY DEF U!FreePool, UP!FreePool, U!Goto, UP!Goto, U!session,
     UP!session, U!transfer, UP!transfer

LEMMA SameFinalizeNetwork == U!FinalizeNetwork <=> UP!FinalizeNetwork
  BY DEF U!FinalizeNetwork, UP!FinalizeNetwork, U!Goto, UP!Goto, U!session,
     UP!session, U!transfer, UP!transfer

LEMMA SameOpenSource == U!OpenSource <=> UP!OpenSource
  BY DEF U!OpenSource, UP!OpenSource, U!Goto, UP!Goto, U!session,
     UP!session, U!transfer, UP!transfer

LEMMA SameOpenTarget == U!OpenTarget <=> UP!OpenTarget
  BY DEF U!OpenTarget, UP!OpenTarget, U!Goto, UP!Goto, U!Emptied, UP!Emptied,
     U!session, UP!session

LEMMA SameReadChunk == U!ReadChunk <=> UP!ReadChunk
  BY DEF U!ReadChunk, UP!ReadChunk, U!Goto, UP!Goto, U!CloseCopy, UP!CloseCopy,
     U!session, UP!session, U!transfer, UP!transfer

LEMMA SameCopyChunk == U!CopyChunk <=> UP!CopyChunk
  BY DEF U!CopyChunk, UP!CopyChunk, U!Goto, UP!Goto, U!AfterWrite, UP!AfterWrite,
     U!CloseCopy, UP!CloseCopy, U!session, UP!session

LEMMA SameStep == U!Step <=> UP!Step
  BY SameInitNetwork, SameAllocatePool, SameInitHttp, SameCreateClient,
     SameCreateTransaction, SameSendRequest, SameGetHeader, SameOpenDownload,
     SameReceiveChunk, SameWriteChunk, SameCompareDigest, SameDestroyTransaction,
     SameEndHttp, SameDestroyClient, SameFreePool, SameFinalizeNetwork,
     SameOpenSource, SameOpenTarget, SameReadChunk, SameCopyChunk
     DEF U!Step, UP!Step

LEMMA SamePowerCycle == U!PowerCycle <=> UP!PowerCycle
  BY DEF U!PowerCycle, UP!PowerCycle, U!Loaded, UP!Loaded, U!NoResponse, UP!NoResponse

-------------------------------------------------------------------------------
(* The steps of the boot as steps of the components.                       *)

LEMMA StepTypes ==
    IInv => /\ update \in {"none", "network", "download", "over"}
            /\ disk \in [download : UP!Contents, install : UP!Contents]
            /\ err \in 0..2
  BY DEF IInv, CallInv, UpdateInv, UP!TypeOK

\* While the game's thread is in the call, start's variables stand still.
LEMMA BeginStep ==
    ASSUME IInv, BeginUpdate
    PROVE  /\ update = "none" /\ update' = "network"
           /\ UNCHANGED updater /\ UNCHANGED booted /\ UNCHANGED startup
<1>1. update \in {"none", "over"}
  BY DEF IInv, CallInv, BeginUpdate, Updating
<1>2. update # "over"
  <2> SUFFICES ASSUME update = "over" PROVE FALSE
    OBVIOUS
  <2>1. frame[1].pc \in SP!PastUpdate /\ pc # "unbootable"
    BY DEF IInv, CallInv
  <2>2. SP!NestingInv /\ SP!TypeOK
    BY <2>1 DEF IInv, StartInv, SP!IInv
  <2>3. depth > 0 /\ frame[depth].pc = "update" /\ frame[depth].launch = "fresh"
    BY DEF BeginUpdate, CallsUpdate, S!At, S!Self, S!WantsUpdate
  <2>4. depth \in 1..2
    BY <2>2, <2>3 DEF SP!NestingInv, SP!TypeOK
  <2> QED
    BY <2>1, <2>2, <2>3, <2>4 DEF SP!NestingInv, SP!PastUpdate
<1>3. update = "none" /\ pc = "net"
  BY <1>1, <1>2 DEF IInv, CallInv, BeginUpdate
<1>4. err = 0
  BY <1>3 DEF IInv, UpdateInv, UP!IInv, UP!StatusInv, UP!BeforeHttp
<1> QED
  BY <1>3, <1>4 DEF BeginUpdate, updater

LEMMA CallStutters ==
    ASSUME IInv, BeginUpdate \/ UpdateStep
    PROVE  UNCHANGED SP!vars
<1>1. UNCHANGED startup /\ update # "over" /\ update' # "over"
  BY BeginStep DEF UpdateStep, Updating
<1>2. UNCHANGED <<Installed, Result>>
  BY <1>1 DEF Installed, Result
<1> QED
  BY <1>1, <1>2 DEF SP!vars, startup

\* The end of the call is all that start is told of it.
LEMMA EndIsTryUpdate ==
    ASSUME IInv, EndUpdate
    PROVE  S!TryUpdate
<1>1. /\ update # "over" /\ update' = "over" /\ pc = "returned"
      /\ UNCHANGED <<disk, err, booted>>
  BY DEF EndUpdate, Updating
<1>2. S!At("update") /\ S!WantsUpdate
  BY DEF EndUpdate, IInv, CallInv, CallsUpdate
<1>3. Installed = "old" /\ Result' = err /\ err \in 0..2
  BY <1>1, StepTypes DEF Installed, Result
<1>4. S!Updated(Result')
  <2>1. CASE err = 1
    BY <1>1, <1>3, <2>1 DEF S!Updated, Installed
  <2>2. CASE err # 1
    <3>1. disk.install = [img |-> booted, len |-> Size]
      BY <1>1, <2>2 DEF IInv, BootedInv, UP!NotReplaced
    <3>2. disk.install.len = Size /\ Size \in Nat
      BY <3>1, UpdaterAssumption
    <3>3. Installed' = "old"
      BY <1>1, <3>1, <3>2 DEF Installed
    <3> QED
      BY <1>3, <2>2, <3>3 DEF S!Updated
  <2> QED
    BY <2>1, <2>2
<1>5. \/ Result' = 2 /\ S!Show("updateFailed")
      \/ UNCHANGED dialogs
  BY <1>3 DEF EndUpdate
<1>6. S!Jump(IF Result' # 0 THEN "restart" ELSE "pointers")
  BY <1>3 DEF EndUpdate
<1>7. UNCHANGED <<game, config, depth, S!patching, S!system>>
  BY DEF EndUpdate, S!patching, S!system
<1> QED
  BY <1>2, <1>3, <1>4, <1>5, <1>6, <1>7 DEF S!TryUpdate

-------------------------------------------------------------------------------
(* The invariant.                                                          *)

\* The constants are as both components assume them.
LEMMA StartConstants ==
    /\ Games \subseteq SP!KnownGames \union {"unknown"}
    /\ Launches \subseteq {"none", "fresh"}
    /\ GameRefs \in Nat /\ MaxDepth \in Nat /\ MaxDepth >= 2
    /\ Configurations \subseteq SP!Options
  BY StartAssumption, ConfigurationsAssumption
     DEF S!KnownGames, SP!KnownGames, S!Options, SP!Options

\* A boot that comes up.
Fresh ==
    /\ game \in Games /\ config \in Configurations /\ depth = 1 /\ update = "none"
    /\ \E launch \in Launches : frame = Entry(launch)
    /\ memory = GameMemory /\ writers = {} /\ popup = "none" /\ dialogs = {}
    /\ refs = GameModules /\ loadFailed = {} /\ logs = {}

\* It is one that Startup begins with.
LEMMA Booted == Fresh => SP!Init
<1> SUFFICES ASSUME Fresh PROVE SP!Init
  OBVIOUS
<1> USE DEF Fresh
<1>1. Installed = "old" /\ Result = -1
  BY DEF Installed, Result
<1>2. \A launch \in Launches :
         Entry(launch) = [d \in 1..MaxDepth |-> SP!Started(launch)]
  BY DEF Entry, S!Started, SP!Started, S!Unset, SP!Unset
<1>3. GameMemory = [s \in SP!Sites |-> "own"]
  BY DEF GameMemory, S!Sites, SP!Sites
<1>4. GameModules = [m \in SysModules |-> GameRefs]
  BY DEF GameModules
<1> QED
  BY <1>1, <1>2, <1>3, <1>4, StartConstants DEF SP!Init

LEMMA SameInit == S!Init <=> SP!Init
  BY DEF S!Init, SP!Init, S!Options, SP!Options, S!Started, SP!Started, S!Unset,
     SP!Unset, S!Sites, SP!Sites

LEMMA InitInv == Init => IInv
<1> SUFFICES ASSUME Init PROVE IInv
  OBVIOUS
<1>1. UP!Init
  BY DEF Init, U!Init, UP!Init, U!Emptied, UP!Emptied, U!Complete, UP!Complete,
     U!NoResponse, UP!NoResponse
<1>2. UP!IInv
  BY <1>1, UP!InitIInv, UpdaterAssumption
<1>3. UpdateInv
  BY <1>2 DEF UpdateInv, UP!IInv
<1>4. SP!Init
  BY Booted DEF Init, Fresh
<1>5. StartInv
  BY <1>4, SP!InitInv, StartConstants DEF StartInv
<1>6. CallInv
  BY <1>1 DEF Init, CallInv, Updating, UP!Init
<1>7. BootedInv
  BY <1>1 DEF Init, BootedInv, UP!Init, UP!Complete
<1> QED
  BY <1>3, <1>5, <1>6, <1>7 DEF Init, IInv

\* Outside of the call only start moves.
LEMMA StartStepInv == ASSUME IInv, StartStep PROVE IInv'
<1>1. /\ pc # "unbootable" /\ ~Updating /\ ~CallsUpdate /\ S!Next
      /\ UNCHANGED <<updater, update, booted>>
  BY DEF StartStep
<1>2. SP!Next /\ SP!IInv
  BY <1>1, SameNext DEF IInv, StartInv
<1>3. StartInv'
  BY <1>2, SP!InvStep, StartConstants DEF StartInv
<1>4. UpdateInv'
  <2>1. UNCHANGED UP!vars /\ update' = update
    BY <1>1 DEF updater, UP!vars
  <2>2. UP!TypeOK' /\ UP!InstallInv'
    BY <2>1 DEF IInv, UpdateInv, UP!vars, UP!TypeOK, UP!InstallInv, UP!RecoverableImage
  <2>3. UP!IInv => UP!IInv'
    BY <2>1, UP!StutterStep, UpdaterAssumption
  <2> QED
    BY <2>1, <2>2, <2>3 DEF IInv, UpdateInv
<1>5. CallInv'
  <2>1. update \in {"none", "over"} /\ update' = update /\ pc' = pc
    BY <1>1 DEF IInv, CallInv, Updating, updater
  <2>2. update = "over" => frame'[1].pc \in SP!PastUpdate
    BY <1>2, SP!PastUpdateStep, StartConstants DEF IInv, CallInv, SP!IInv
  <2> QED
    BY <2>1, <2>2 DEF IInv, CallInv, Updating, SP!PastUpdate
<1>6. BootedInv'
  BY <1>1 DEF IInv, BootedInv, UP!NotReplaced, updater
<1>7. game' = game /\ config' = config
  BY <1>2 DEF SP!Next, SP!Announce, SP!LoadAllModules, SP!InitLogger, SP!ReadConfig,
     SP!TryUpdate, SP!TryRestartModule, SP!SetPointers, SP!DetectGame, SP!WritePopup,
     SP!ApplyGamePatches, SP!EndPatches, SP!Leave, SP!Resident, SP!vars
<1> QED
  BY <1>3, <1>4, <1>5, <1>6, <1>7 DEF IInv

LEMMA StartStutters == ASSUME SP!IInv, UNCHANGED SP!vars PROVE SP!IInv'
  BY SP!InvStutter, StartConstants

LEMMA BeginUpdateInv == ASSUME IInv, BeginUpdate PROVE IInv'
<1>1. /\ update = "none" /\ update' = "network" /\ UNCHANGED updater
      /\ UNCHANGED booted /\ UNCHANGED startup
  BY BeginStep
<1>2. pc # "unbootable" /\ CallsUpdate
  BY DEF BeginUpdate
<1>3. StartInv'
  BY <1>1, <1>2, CallStutters, StartStutters DEF IInv, StartInv, updater
<1>4. UpdateInv'
  <2>1. UNCHANGED UP!vars /\ UP!IInv
    BY <1>1 DEF IInv, UpdateInv, updater, UP!vars
  <2> QED
    BY <2>1, UP!StutterStep, UpdaterAssumption DEF UpdateInv, UP!IInv
<1>5. CallInv'
  BY <1>1, <1>2 DEF CallInv, Updating, CallsUpdate, updater, startup, S!At, S!Self,
     S!WantsUpdate
<1>6. BootedInv'
  BY <1>1 DEF IInv, BootedInv, UP!NotReplaced, updater
<1> QED
  BY <1>1, <1>3, <1>4, <1>5, <1>6 DEF IInv, startup

LEMMA StepKeepsBootable == UP!Step => pc' # "unbootable"
  BY DEF UP!Step, UP!InitNetwork, UP!AllocatePool, UP!InitHttp, UP!CreateClient,
     UP!CreateTransaction, UP!SendRequest, UP!GetHeader, UP!OpenDownload,
     UP!ReceiveChunk, UP!WriteChunk, UP!CompareDigest, UP!DestroyTransaction,
     UP!EndHttp, UP!DestroyClient, UP!FreePool, UP!FinalizeNetwork, UP!OpenSource,
     UP!OpenTarget, UP!ReadChunk, UP!CopyChunk, UP!Goto, UP!AfterWrite

LEMMA UpdateStepInv == ASSUME IInv, UpdateStep PROVE IInv'
<1>1. /\ Updating /\ Updating' /\ UNCHANGED startup /\ UNCHANGED booted
      /\ update # "over" /\ update' # "over"
  BY DEF UpdateStep, Updating
<1>2. UP!Step /\ UP!IInv
  BY <1>1, SameStep DEF UpdateStep, IInv, UpdateInv
<1>3. pc # "unbootable" /\ pc' # "unbootable" /\ CallsUpdate
  BY <1>1, <1>2, StepKeepsBootable DEF IInv, CallInv
<1>4. StartInv'
  BY <1>3, CallStutters, StartStutters DEF IInv, StartInv
<1>5. UpdateInv'
  <2>1. UP!IInv'
    BY <1>2, UP!InvStep, UpdaterAssumption DEF UP!Next
  <2> QED
    BY <2>1 DEF UpdateInv, UP!IInv
<1>6. CallInv'
  BY <1>1, <1>3 DEF CallInv, Updating, CallsUpdate, startup, S!At, S!Self, S!WantsUpdate
<1>7. BootedInv'
  <2>1. UP!NotReplaced' => UP!NotReplaced /\ disk'.install = disk.install
    BY <1>2, UP!NotReplacedStep, UpdaterAssumption DEF UP!IInv
  <2> QED
    BY <1>1, <2>1 DEF IInv, BootedInv
<1> QED
  BY <1>1, <1>4, <1>5, <1>6, <1>7 DEF IInv, startup

LEMMA EndUpdateInv == ASSUME IInv, EndUpdate PROVE IInv'
<1>1. /\ update' = "over" /\ pc = "returned" /\ pc' = "returned" /\ Updating
      /\ update # "over"
      /\ UNCHANGED <<game, config, disk, held, err, booted>>
      /\ resp' = U!NoResponse /\ hdrOk' = FALSE /\ hashOk' = FALSE
      /\ taken' = 0 /\ chunk' = 0 /\ offset' = 0
  BY DEF EndUpdate, Updating
<1>2. SP!IInv /\ SP!Next
  BY <1>1, EndIsTryUpdate, SameNext DEF IInv, StartInv, S!Next
<1>3. StartInv'
  BY <1>2, SP!InvStep, StartConstants DEF StartInv
<1>4. UpdateInv'
  <2>1. UP!TypeOK /\ UP!InstallInv
    BY DEF IInv, UpdateInv
  <2>2. resp' \in UP!Responses
    BY <1>1, UP!NoResponseType, UpdaterAssumption DEF U!NoResponse, UP!NoResponse
  <2>3. hdrOk' \in BOOLEAN /\ hashOk' \in BOOLEAN
    BY <1>1, Zenon
  <2>4. UP!TypeOK'
    BY <1>1, <2>1, <2>2, <2>3, UpdaterAssumption DEF UP!TypeOK
  <2>5. UP!InstallInv'
    BY <1>1, <2>1 DEF UP!InstallInv, UP!RecoverableImage
  <2> QED
    BY <1>1, <2>4, <2>5 DEF UpdateInv
<1>5. CallInv'
  <2>1. S!At("update") /\ Updating /\ SP!TypeOK /\ SP!NestingInv
    BY <1>1, <1>2 DEF IInv, CallInv, CallsUpdate, SP!IInv
  <2>2. depth = 1
    BY <1>1, <2>1 DEF IInv, CallInv, CallsUpdate, S!At, S!Self, S!WantsUpdate,
       SP!TypeOK, SP!NestingInv
  <2>3. frame' = [frame EXCEPT ![1] = [frame[1] EXCEPT
                      !.pc = IF err # 0 THEN "restart" ELSE "pointers"]]
    BY <2>2 DEF EndUpdate, S!Jump, S!Become, S!Self
  <2>4. frame \in [1..MaxDepth -> SP!Frames] /\ 1 \in 1..MaxDepth
    BY <2>1, <2>2 DEF SP!TypeOK
  <2>5. frame'[1].pc \in {"restart", "pointers"}
    BY <2>3, <2>4 DEF SP!Frames
  <2> QED
    BY <1>1, <2>5 DEF CallInv, Updating, SP!PastUpdate
<1>6. BootedInv'
  BY <1>1 DEF IInv, BootedInv, UP!NotReplaced
<1> QED
  BY <1>1, <1>3, <1>4, <1>5, <1>6 DEF IInv

LEMMA PowerCycleInv == ASSUME IInv, PowerCycle PROVE IInv'
<1>1. UP!PowerCycle /\ UP!TypeOK /\ UP!InstallInv
  BY SamePowerCycle DEF PowerCycle, IInv, UpdateInv
<1>2. UP!IInv'
  BY <1>1, UP!PowerCycleInv, UpdaterAssumption
<1>3. UpdateInv'
  BY <1>2 DEF UpdateInv, UP!IInv
<1>4. /\ update' = "none" /\ pc' \in {"net", "unbootable"}
      /\ game' \in Games /\ config' \in Configurations
  BY <1>1 DEF PowerCycle, UP!PowerCycle, UP!Loaded, IInv
<1>5. StartInv'
  <2> SUFFICES ASSUME pc' # "unbootable" PROVE SP!IInv'
    BY DEF StartInv
  <2>1. depth' = 1
    BY DEF PowerCycle
  <2>2. SP!Init'
    <3>1. Fresh'
      BY <1>4, <2>1 DEF PowerCycle, Fresh, Entry, GameMemory, GameModules, S!Started,
         S!Unset, S!Sites
    <3> QED
      BY <3>1, Booted, PTL
  <2> QED
    BY <2>2, SP!InitInv, StartConstants, PTL
<1>6. CallInv'
  BY <1>4 DEF CallInv, Updating
<1>7. BootedInv'
  <2>1. UNCHANGED disk /\ booted' = disk.install.img
    BY <1>1 DEF UP!PowerCycle, PowerCycle
  <2>2. pc' # "unbootable" => disk.install.len = Size
    BY <1>1 DEF UP!PowerCycle, UP!Loaded
  <2>3. disk.install \in UP!Contents
    BY <1>1 DEF UP!TypeOK
  <2> QED
    BY <2>1, <2>2, <2>3 DEF BootedInv, UP!NotReplaced, UP!Contents
<1> QED
  BY <1>3, <1>4, <1>5, <1>6, <1>7 DEF IInv

LEMMA StutterInv == ASSUME IInv, UNCHANGED vars PROVE IInv'
<1>1. UNCHANGED <<startup, updater, update, booted, Installed, Result>>
  BY DEF vars, startup, updater, Installed, Result
<1>2. UNCHANGED SP!vars /\ UNCHANGED UP!vars
  BY <1>1 DEF SP!vars, UP!vars, startup, updater
<1>3. StartInv'
  BY <1>1, <1>2, StartStutters DEF IInv, StartInv, updater
<1>4. UpdateInv'
  <2>1. UP!TypeOK' /\ UP!InstallInv'
    BY <1>2 DEF IInv, UpdateInv, UP!vars, UP!TypeOK, UP!InstallInv, UP!RecoverableImage
  <2>2. UP!IInv => UP!IInv'
    BY <1>2, UP!StutterStep, UpdaterAssumption
  <2> QED
    BY <1>1, <2>1, <2>2 DEF IInv, UpdateInv
<1>5. CallInv'
  BY <1>1 DEF IInv, CallInv, Updating, CallsUpdate, updater, startup, S!At, S!Self,
     S!WantsUpdate
<1>6. BootedInv'
  BY <1>1 DEF IInv, BootedInv, UP!NotReplaced, updater
<1> QED
  BY <1>1, <1>3, <1>4, <1>5, <1>6 DEF IInv, startup

\* What holds of start and of the update alone holds of the two together, from
\* boot to boot.
THEOREM Invariance == Spec => []IInv
<1>1. IInv /\ [Next]_vars => IInv'
  BY StartStepInv, BeginUpdateInv, UpdateStepInv, EndUpdateInv, PowerCycleInv,
     StutterInv DEF Next, Step
<1> QED
  BY InitInv, <1>1, PTL DEF Spec

-------------------------------------------------------------------------------
(* What follows from it.                                                   *)

\* However the update goes and wherever it is cut short, each boot that has a
\* module to load keeps what start promises.
THEOREM EveryBootSafe == Spec => []SafeEveryBoot
<1>1. IInv => SafeEveryBoot
  <2> SUFFICES ASSUME IInv, pc # "unbootable"
               PROVE  /\ S!RestartOnce /\ S!OneWriter /\ S!ProtectedAtEnd
                      /\ S!KeyAgrees /\ S!ReferencesBalance
    BY DEF SafeEveryBoot
  <2>1. SP!IInv
    BY DEF IInv, StartInv
  <2>2. /\ SP!RestartOnce /\ SP!OneWriter /\ SP!ProtectedAtEnd
        /\ SP!KeyAgrees /\ SP!ReferencesBalance
    BY <2>1, SP!InvSafety, StartConstants
  <2>3. S!RestartOnce /\ S!OneWriter
    BY <2>2 DEF S!RestartOnce, SP!RestartOnce, S!OneWriter, SP!OneWriter
  <2>4. S!ProtectedAtEnd
    BY <2>2 DEF S!ProtectedAtEnd, SP!ProtectedAtEnd, S!Protected, SP!Protected
  <2>5. S!KeyAgrees
    BY <2>2 DEF S!KeyAgrees, SP!KeyAgrees
  <2>6. S!ReferencesBalance
    <3>1. S!Loaded = SP!Loaded
      BY DEF S!Loaded, SP!Loaded
    <3> QED
      BY <2>2, <3>1 DEF S!ReferencesBalance, SP!ReferencesBalance, S!Cardinality,
         SP!Cardinality
  <2> QED
    BY <2>3, <2>4, <2>5, <2>6
<1> QED
  BY Invariance, <1>1, PTL

\* Each boot, with all the calls of the update in it, does what Startup's steps
\* do: what is shown of Startup, where the update is one step, is shown of the
\* program.
THEOREM StartImplemented == Spec => StartupSpec
<1>1. Init => S!Init
  BY Booted, SameInit DEF Init, Fresh
<1>2. IInv /\ [Next]_vars => [S!Next \/ PowerCycle]_(S!vars)
  <2> SUFFICES ASSUME IInv, [Next]_vars
               PROVE  S!Next \/ PowerCycle \/ UNCHANGED S!vars
    OBVIOUS
  <2>1. CASE StartStep
    BY <2>1 DEF StartStep
  <2>2. CASE BeginUpdate \/ UpdateStep
    BY <2>2, CallStutters DEF S!vars, SP!vars
  <2>3. CASE EndUpdate
    BY <2>3, EndIsTryUpdate DEF S!Next
  <2>4. CASE PowerCycle
    BY <2>4
  <2>5. CASE UNCHANGED vars
    BY <2>5 DEF vars, startup, updater, S!vars, Installed, Result
  <2> QED
    BY <2>1, <2>2, <2>3, <2>4, <2>5 DEF Next, Step
<1> QED
  BY Invariance, <1>1, <1>2, PTL DEF Spec, StartupSpec

\* Provided unwritten memory never compares equal to the header, the file the
\* game loads goes through the states of ImageStore, whatever start does around
\* the update and in whichever boot.
THEOREM StoreImplemented == ASSUME ~UP!LuckyCompare PROVE Spec => UP!StoreSpec
<1>1. Init => UP!Store!Init
  <2>1. Init => UP!Init
    BY DEF Init, U!Init, UP!Init, U!Emptied, UP!Emptied, U!Complete, UP!Complete,
       U!NoResponse, UP!NoResponse
  <2> QED
    BY <2>1, UP!StoreInit, UpdaterAssumption
<1>2. IInv /\ [Next]_vars => [UP!Store!Next]_(UP!Store!vars)
  <2> SUFFICES ASSUME IInv, [Next]_vars
               PROVE  UP!Store!Next \/ UNCHANGED UP!Store!vars
    OBVIOUS
  <2>1. CASE StartStep \/ UNCHANGED vars
    <3>1. UNCHANGED UP!vars
      BY <2>1 DEF StartStep, vars, updater, UP!vars
    <3> QED
      BY <3>1, UP!StoreStutter, UpdaterAssumption
  <2>2. CASE BeginUpdate
    <3>1. UNCHANGED UP!vars
      BY <2>2, BeginStep DEF updater, UP!vars
    <3> QED
      BY <3>1, UP!StoreStutter, UpdaterAssumption
  <2>3. CASE UpdateStep
    <3>1. UP!Step /\ UP!IInv
      BY <2>3, SameStep DEF UpdateStep, Updating, IInv, UpdateInv
    <3> QED
      BY <3>1, UP!StoreStep, UpdaterAssumption DEF UP!Next
  <2>4. CASE EndUpdate
    <3>1. disk' = disk /\ ~UP!Installing /\ ~UP!Installing'
      BY <2>4 DEF EndUpdate, UP!Installing
    <3> QED
      BY <3>1 DEF UP!Store!vars
  <2>5. CASE PowerCycle
    <3>1. UP!PowerCycle
      BY <2>5, SamePowerCycle DEF PowerCycle
    <3> QED
      BY <3>1, UP!PowerCycleStore, UpdaterAssumption
  <2> QED
    BY <2>1, <2>2, <2>3, <2>4, <2>5 DEF Next, Step
<1> QED
  BY Invariance, <1>1, <1>2, PTL DEF Spec, UP!StoreSpec, UP!Store!Spec
===============================================================================
