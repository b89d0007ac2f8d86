---------------------------------- MODULE Boot ---------------------------------
(***************************************************************************)
(* start with the whole of the update in it, over several boots: where     *)
(* Startup takes TryUpdateAndInstall for one step, the game's thread goes  *)
(* through the calls of Updater here.  The console may be switched off     *)
(* between any two of them, and the files are what the next boot finds.    *)
(***************************************************************************)
EXTENDS Integers, FiniteSets

CONSTANTS
    Games, Launches, SysModules, GameRefs, MaxDepth,  \* as in Startup
    Images, Published, Factory, NoImage, Size, Chunk, UninitCompare,
                                                      \* as in Updater
    Configurations  \* what the configuration file may hold

VARIABLES
    game, config, depth, frame, memory, writers, popup, dialogs, refs,
    loadFailed, logs,                       \* as in Startup
    pc, disk, held, err, resp, hdrOk, hashOk, taken, chunk, offset,
                                            \* as in Updater
    update,  \* how far the boot's update has come
    booted   \* the image this boot began with

startup == <<game, config, depth, frame, memory, writers, popup, dialogs, refs,
             loadFailed, logs>>
updater == <<pc, disk, held, err, resp, hdrOk, hashOk, taken, chunk, offset>>
vars == <<startup, updater, update, booted>>

-------------------------------------------------------------------------------
\* What Startup keeps of the file at INSTALL_PATH.
Installed ==
    CASE update # "over" -> "old"
      [] update = "over" /\ disk.install.len < Size -> "broken"
      [] update = "over" /\ disk.install = [img |-> booted, len |-> Size] -> "old"
      [] OTHER -> "new"
Result == IF update = "over" THEN err ELSE -1

S == INSTANCE Startup WITH installed <- Installed, result <- Result
U == INSTANCE Updater

\* What the two components assume of their constants, and of the file.
ASSUME StartAssumption ==
    /\ Games \subseteq S!KnownGames \union {"unknown"}
    /\ Launches \subseteq {"none", "fresh"}
    /\ GameRefs \in Nat /\ MaxDepth \in Nat /\ MaxDepth >= 2
ASSUME UpdaterAssumption ==
    /\ Published \subseteq Images /\ Factory \in Images /\ NoImage \notin Images
    /\ Size \in Nat \ {0} /\ Chunk \in Nat \ {0}
    /\ UninitCompare \in SUBSET BOOLEAN /\ UninitCompare # {}
ASSUME ConfigurationsAssumption == Configurations \subseteq S!Options

-------------------------------------------------------------------------------
Entry(launch) == [d \in 1..MaxDepth |-> S!Started(launch)]
GameMemory == [s \in S!Sites |-> "own"]
GameModules == [m \in SysModules |-> GameRefs]

Init ==
    /\ U!Init
    /\ game \in Games /\ config \in Configurations
    /\ depth = 1 /\ \E launch \in Launches : frame = Entry(launch)
    /\ memory = GameMemory /\ writers = {} /\ popup = "none" /\ dialogs = {}
    /\ refs = GameModules /\ loadFailed = {} /\ logs = {}
    /\ update = "none" /\ booted = Factory

\* TryUpdateAndInstall is called where start wants an update.
Updating == update \in {"network", "download"}
CallsUpdate == S!At("update") /\ S!WantsUpdate

\* Every step of start but the call.
StartStep ==
    /\ pc # "unbootable" /\ ~Updating /\ ~CallsUpdate
    /\ UNCHANGED <<updater, update, booted>>
    /\ S!Next

BeginUpdate ==
    /\ pc # "unbootable" /\ ~Updating /\ CallsUpdate
    /\ update' = "network" /\ pc' = "net" /\ err' = 0
    /\ UNCHANGED <<startup, disk, held, resp, hdrOk, hashOk, taken, chunk, offset,
                   booted>>

UpdateStep ==
    /\ Updating
    /\ U!Step
    /\ update' = IF pc = "net" /\ pc' = "alloc" THEN "download" ELSE update
    /\ UNCHANGED <<startup, booted>>

\* Back in start: the locals of the call are gone, err is what it returned.  The
\* 2 of a network that came up (update.c:96-98) is the one without a dialog.
EndUpdate ==
    /\ Updating /\ pc = "returned"
    /\ IF err = 2 /\ update = "download" THEN S!Show("updateFailed")
                                         ELSE UNCHANGED dialogs
    /\ S!Jump(IF err # 0 THEN "restart" ELSE "pointers")
    /\ update' = "over"
    /\ resp' = U!NoResponse /\ hdrOk' = FALSE /\ hashOk' = FALSE
    /\ taken' = 0 /\ chunk' = 0 /\ offset' = 0
    /\ UNCHANGED <<game, config, depth, memory, writers, popup, refs, loadFailed,
                   logs, pc, disk, held, err, booted>>

\* The next boot: a module whose file is whole is loaded into the game; without
\* one the game runs alone.
PowerCycle ==
    /\ U!PowerCycle
    /\ update' = "none" /\ booted' = disk.install.img
    /\ depth' = IF pc' = "unbootable" THEN 0 ELSE 1
    /\ \E launch \in Launches : frame' = Entry(launch)
    /\ memory' = GameMemory /\ writers' = {} /\ popup' = "none" /\ dialogs' = {}
    /\ refs' = GameModules /\ loadFailed' = {} /\ logs' = {}
    /\ UNCHANGED <<game, config>>

Step == StartStep \/ BeginUpdate \/ UpdateStep \/ EndUpdate
Next == Step \/ PowerCycle

Spec == Init /\ [][Next]_vars

\* The game's thread goes on while the console is on.
FairSpec == Spec /\ WF_vars(Step)

-------------------------------------------------------------------------------
(* Properties.                                                             *)

\* In each boot, all that start can tell of the update is what Startup's one step
\* says: the file it loads next is the old one unless 1 was returned, and then it
\* may have been cut (prx.c:98-99, update.c:95-135).  What is shown of Startup
\* holds with the update in it.
StartupSpec == S!Init /\ [][S!Next \/ PowerCycle]_(S!vars)

\* However the update went, in this boot or in those before it, and wherever it
\* was cut short: as long as the module loads, its start is entered at most
\* twice, one instance patches, a known game has its fixes at the end, what is
\* said of the key is true, and the system modules are given back
\* (prx.c:96-194, update.c:95-135).  It follows from StartupSpec and what is
\* shown of Startup; BootProofs has the proof.
SafeEveryBoot ==
    pc # "unbootable" =>
        /\ S!RestartOnce /\ S!OneWriter /\ S!ProtectedAtEnd
        /\ S!KeyAgrees /\ S!ReferencesBalance

\* In a boot that is not cut short the thread the game waits for comes back,
\* through the transfers, the restart and the patches of two instances.
BootReturns ==
    <>[][Step]_vars => <>(depth = 0)
===============================================================================
