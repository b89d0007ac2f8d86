-------------------------------- MODULE Startup --------------------------------
(***************************************************************************)
(* The module's start entry point, from being loaded into the game to      *)
(* SYS_PRX_NO_RESIDENT: announcing an update, loading system modules,      *)
(* reading the configuration, updating and restarting, choosing what the   *)
(* patches write, detecting the game and patching its memory.              *)
(*                                                                         *)
(* TryRestartModule calls start of a second instance of the module inside  *)
(* the first, so the state is a stack of instances: frame[depth] runs, the *)
(* ones below wait for it.  Each instance has its own static data; they    *)
(* share the game's memory, the files and the system.                      *)
(***************************************************************************)
EXTENDS Integers, Sequences, FiniteSets

CONSTANTS
    Games,       \* games the module may be loaded into: of KnownGames, "unknown"
    Launches,    \* launch arguments the game's loader may pass
    SysModules,  \* the system modules start loads
    GameRefs,    \* how many times the game has itself loaded each of them
    MaxDepth     \* bound on the number of nested instances

KnownGames == {"LBP1", "LBP2", "LBP3", "LBP3_JP"}

ASSUME GamesAssumption == Games \subseteq KnownGames \union {"unknown"}
\* Only TryRestartModule passes updated = 1.
ASSUME LaunchesAssumption == Launches \subseteq {"none", "fresh"}
ASSUME BoundAssumption == GameRefs \in Nat /\ MaxDepth \in Nat /\ MaxDepth >= 2

VARIABLES
    game,       \* the game the module was loaded into
    config,     \* the options the configuration file holds
    depth,      \* instances of start under way
    frame,      \* their local and static variables
    memory,     \* the patched sites of the game's memory
    writers,    \* the instances that wrote to it
    popup,      \* the notification handed to webMAN, by kind
    dialogs,    \* dialogs asked for, with the depth of the instance that did
    installed,  \* the image at INSTALL_PATH, "broken" if it cannot be loaded
    result,     \* what TryUpdateAndInstall returned, -1 if it was not called
    refs,       \* references to each system module
    loadFailed, \* the system modules that once failed to load
    logs        \* the instances whose log file is open

vars == <<game, config, depth, frame, memory, writers, popup, dialogs,
          installed, result, refs, loadFailed, logs>>

-------------------------------------------------------------------------------
Options == [server : BOOLEAN, digest : BOOLEAN, joinKey : BOOLEAN,
            enableKey : BOOLEAN, enableUpdates : BOOLEAN, updateServer : BOOLEAN]

\* PatchworkConfigOptions as start initialises it.
Unset == [server |-> FALSE, digest |-> FALSE, joinKey |-> FALSE,
          enableKey |-> FALSE, enableUpdates |-> FALSE, updateServer |-> FALSE]

\* The patch tables: the site and the source of each entry, in their order.
LBP1Patches == <<
    <<"network_key", "NetworkKey">>, <<"user_agent", "UserAgent">>,
    <<"https_url", "ServerURL">>, <<"http_url", "ServerURL">>,
    <<"digest", "ServerDigest">>, <<"playlist", "LBP1PlaylistOverride">>,
    <<"resource_check", "ScriptHookInstruction">>,
    <<"forcejoin", "ForceJoinPatch">> >>
LBP2Patches == <<
    <<"network_key", "NetworkKey">>, <<"user_agent", "UserAgent">>,
    <<"https_url", "ServerURL">>, <<"http_url", "ServerURL">>,
    <<"digest", "ServerDigest">>,
    <<"notification", "NotificationEnableInstruction">>,
    <<"resource_check", "ScriptHookInstruction">>,
    <<"forcejoin", "ForceJoinPatch">> >>
LBP3Patches == <<
    <<"network_key", "NetworkKey">>, <<"user_agent", "UserAgent">>,
    <<"https_url", "ServerURL">>, <<"http_url", "ServerURL">>,
    <<"presence_url", "ServerURL">>, <<"live_url", "ServerURL">>,
    <<"digest", "ServerDigest">>,
    <<"notification", "NotificationEnableInstruction">>,
    <<"resource_check", "ScriptHookInstruction">>,
    <<"forcejoin", "ForceJoinPatch">> >>

PatchesOf(g) == CASE g = "LBP1" -> LBP1Patches
                  [] g = "LBP2" -> LBP2Patches
                  [] OTHER -> LBP3Patches

Sites == {"network_key", "user_agent", "https_url", "http_url", "presence_url",
          "live_url", "digest", "playlist", "notification", "resource_check",
          "forcejoin"}

\* What a site holds: the game's own bytes, or those of a source.
Values == {"own", "joined", "random", "keyed", "NK", "url", "digest", "one",
           "enable", "branch", "check"}

Kinds == {"none", "with_pw", "random_pw", "without_pw"}

\* Locations of start; an instance below the top waits at the next one.
Locations == {"announce", "modules", "logger", "config", "update", "restart",
              "pointers", "detect", "popup", "apply", "leave"}

Frames == [pc : Locations, launch : {"none", "fresh", "updated"}, opts : Options,
           key : {"null", "joined", "random"}, agent : {"null", "keyed", "NK"},
           next : Nat]

\* An instance as sys_prx_start_module starts it.
Started(launch) == [pc |-> "announce", launch |-> launch, opts |-> Unset,
                    key |-> "null", agent |-> "null", next |-> 1]

Init ==
    /\ game \in Games
    /\ config \in Options
    /\ depth = 1
    /\ \E launch \in Launches : frame = [d \in 1..MaxDepth |-> Started(launch)]
    /\ memory = [s \in Sites |-> "own"]
    /\ writers = {}
    /\ popup = "none"
    /\ dialogs = {}
    /\ installed = "old"
    /\ result = -1
    /\ refs = [m \in SysModules |-> GameRefs]
    /\ loadFailed = {}
    /\ logs = {}

\* The running instance, what becomes of it, and its next location.
Self == frame[depth]
At(location) == depth > 0 /\ Self.pc = location
Become(self) == frame' = [frame EXCEPT ![depth] = self]
Jump(location) == Become([Self EXCEPT !.pc = location])
Show(dialog) == dialogs' = dialogs \union {<<dialog, depth>>}

system == <<refs, loadFailed, logs>>
update == <<installed, result>>
patching == <<memory, writers, popup>>

-------------------------------------------------------------------------------
(* From the entry to the configuration.                                    *)

\* Any launch arguments are taken for those of a restart.
Announce ==
    /\ At("announce")
    /\ IF Self.launch = "none" THEN UNCHANGED dialogs ELSE Show("updated")
    /\ Jump("modules")
    /\ UNCHANGED <<game, config, depth, patching, update, system>>

\* LoadAllModules: a module that fails to load is logged and passed over.
LoadAllModules ==
    /\ At("modules")
    /\ \E failed \in SUBSET SysModules :
          /\ refs' = [m \in SysModules |->
                        IF m \in failed THEN refs[m] ELSE refs[m] + 1]
          /\ loadFailed' = loadFailed \union failed
    /\ Jump("logger")
    /\ UNCHANGED <<game, config, depth, patching, dialogs, update, logs>>

\* The open's failure is not looked at.
InitLogger ==
    /\ At("logger")
    /\ logs' \in {logs, logs \union {depth}}
    /\ Jump("config")
    /\ UNCHANGED <<game, config, depth, patching, dialogs, update, refs,
                   loadFailed>>

\* ReadFile and the TOML parser; without the file the options stay unset and
\* the update is passed over.
ReadConfig ==
    /\ At("config")
    /\ \/ /\ Become([Self EXCEPT !.opts = config, !.pc = "update"])
          /\ UNCHANGED dialogs
       \/ Show("noConfig") /\ Jump("pointers")
    /\ UNCHANGED <<game, config, depth, patching, update, system>>

-------------------------------------------------------------------------------
(* Updating and restarting.                                                *)

\* Wrong: start looks for an update whether or not it was restarted by one.
WantsUpdateAgain ==
    /\ Self.launch # "none"
    /\ Self.opts.enableUpdates /\ Self.opts.updateServer

WantsUpdate ==
    /\ Self.launch = "fresh"
    /\ Self.opts.enableUpdates /\ Self.opts.updateServer

\* What TryUpdateAndInstall does, seen from start (Updater has the detail): 1
\* stands for an image that checked out, however little of it was copied.  It
\* shows a dialog for a failed download, none where it ends at the network.
Updated(value) ==
    IF value = 1 THEN installed' \in {installed, "new", "broken"}
                 ELSE UNCHANGED installed

\* Any result but 0 restarts, an error's 2 too.
TryUpdate ==
    /\ At("update")
    /\ \/ /\ ~WantsUpdate
          /\ Jump("pointers")
          /\ UNCHANGED <<dialogs, update>>
       \/ /\ WantsUpdate
          /\ result' \in 0..2
          /\ Updated(result')
          /\ \/ result' = 2 /\ Show("updateFailed")
             \/ UNCHANGED dialogs
          /\ Jump(IF result' # 0 THEN "restart" ELSE "pointers")
    /\ UNCHANGED <<game, config, depth, patching, system>>

\* TryRestartModule: the image at INSTALL_PATH is loaded and its start is
\* called with { my_id, 1 }; loading and starting may fail.
TryRestartModule ==
    /\ At("restart")
    /\ \/ Show("restartFailed") /\ Jump("pointers") /\ UNCHANGED depth
       \/ /\ installed # "broken" /\ depth < MaxDepth
          /\ frame' = [frame EXCEPT ![depth] = [Self EXCEPT !.pc = "pointers"],
                                    ![depth + 1] = Started("updated")]
          /\ depth' = depth + 1
          /\ UNCHANGED dialogs
    /\ UNCHANGED <<game, config, patching, update, system>>

-------------------------------------------------------------------------------
(* What the patches write.                                                 *)

\* CopyHashedJoinKey: the hash of the configured key, or of the time.
JoinKey(opts) == IF opts.joinKey THEN "joined" ELSE "random"

\* Wrong: a key that was set is hashed even if enable_join_key is off.
SetPointersAlways ==
    /\ At("pointers")
    /\ Become([Self EXCEPT !.key = JoinKey(Self.opts), !.pc = "detect"])
    /\ UNCHANGED <<game, config, depth, patching, dialogs, update, system>>

\* NetworkKey is set only if enable_join_key is; ServerURL and ServerDigest
\* are the options themselves.
SetPointers ==
    /\ At("pointers")
    /\ Become([Self EXCEPT
          !.key = IF Self.opts.enableKey THEN JoinKey(Self.opts) ELSE "null",
          !.pc = "detect"])
    /\ UNCHANGED <<game, config, depth, patching, dialogs, update, system>>

\* GetLBPGameNumber looks for a character of the game's own user agent string;
\* the one Patchwork writes over it has another there.
GetLBPGameNumber == IF memory["user_agent"] = "own" THEN game ELSE "unknown"

\* Wrong: the user agent is only made up for a game with a join key.
DetectGameKeyedAgent ==
    /\ At("detect")
    /\ IF GetLBPGameNumber = "unknown"
       THEN Show("notSafe") /\ Jump("leave")
       ELSE /\ Become([Self EXCEPT
                  !.agent = IF Self.opts.enableKey THEN "keyed" ELSE "null",
                  !.pc = "popup"])
            /\ UNCHANGED dialogs
    /\ UNCHANGED <<game, config, depth, patching, update, system>>

DetectGame ==
    /\ At("detect")
    /\ IF GetLBPGameNumber = "unknown"
       THEN Show("notSafe") /\ Jump("leave")
       ELSE /\ Become([Self EXCEPT
                  !.agent = IF Self.opts.enableKey THEN "keyed" ELSE "NK",
                  !.pc = "popup"])
            /\ UNCHANGED dialogs
    /\ UNCHANGED <<game, config, depth, patching, update, system>>

\* The message of the popup.
Message ==
    IF Self.opts.enableKey
    THEN IF Self.key = "random" THEN "random_pw" ELSE "with_pw"
    ELSE "without_pw"

\* WriteFile of wm_request; its failure is not looked at.
WritePopup ==
    /\ At("popup")
    /\ popup' \in {popup, Message}
    /\ Jump("apply")
    /\ UNCHANGED <<game, config, depth, memory, writers, dialogs, update, system>>

-------------------------------------------------------------------------------
(* Patching and leaving.                                                   *)

\* The bytes a source points at, "null" for an INDIRECT one that is NULL.
Source(name) ==
    CASE name = "NetworkKey" -> Self.key
      [] name = "UserAgent" -> Self.agent
      [] name = "ServerURL" -> IF Self.opts.server THEN "url" ELSE "null"
      [] name = "ServerDigest" -> IF Self.opts.digest THEN "digest" ELSE "null"
      [] name = "LBP1PlaylistOverride" -> "one"
      [] name = "NotificationEnableInstruction" -> "enable"
      [] name = "ScriptHookInstruction" -> "branch"
      [] name = "ForceJoinPatch" -> "check"

PatchCount == Len(PatchesOf(game))

Write(site, value) ==
    /\ memory' = [memory EXCEPT ![site] = value]
    /\ writers' = writers \union {depth}

\* Wrong: the first source that is NULL ends the loop.
ApplyGamePatchesUntilNull ==
    /\ At("apply") /\ Self.next <= PatchCount
    /\ LET patch == PatchesOf(game)[Self.next]
           value == Source(patch[2])
       IN  IF value = "null"
           THEN UNCHANGED <<memory, writers>> /\ Jump("leave")
           ELSE Write(patch[1], value) /\ Become([Self EXCEPT !.next = @ + 1])
    /\ UNCHANGED <<game, config, depth, popup, dialogs, update, system>>

\* Wrong: the loop goes on before it has counted an entry whose source is NULL.
ApplyGamePatchesUncounted ==
    /\ At("apply") /\ Self.next <= PatchCount
    /\ LET patch == PatchesOf(game)[Self.next]
           value == Source(patch[2])
       IN  IF value = "null"
           THEN UNCHANGED <<memory, writers, frame>>
           ELSE Write(patch[1], value) /\ Become([Self EXCEPT !.next = @ + 1])
    /\ UNCHANGED <<game, config, depth, popup, dialogs, update, system>>

\* One turn of the loop of ApplyGamePatches: a source that is NULL is passed
\* over.
ApplyGamePatches ==
    /\ At("apply") /\ Self.next <= PatchCount
    /\ LET patch == PatchesOf(game)[Self.next]
           value == Source(patch[2])
       IN  IF value = "null" THEN UNCHANGED <<memory, writers>>
                              ELSE Write(patch[1], value)
    /\ Become([Self EXCEPT !.next = @ + 1])
    /\ UNCHANGED <<game, config, depth, popup, dialogs, update, system>>

EndPatches ==
    /\ At("apply") /\ Self.next > PatchCount
    /\ Jump("leave")
    /\ UNCHANGED <<game, config, depth, patching, dialogs, update, system>>

\* Wrong: start leaves without UnloadAllModules.
LeaveLoaded ==
    /\ At("leave")
    /\ logs' = logs \ {depth}
    /\ depth' = depth - 1
    /\ UNCHANGED <<game, config, frame, patching, dialogs, update, refs,
                   loadFailed>>

\* DestroyLogger, UnloadAllModules, and back to the instance that restarted
\* this one or to the game.
Leave ==
    /\ At("leave")
    /\ logs' = logs \ {depth}
    /\ refs' = [m \in SysModules |-> IF refs[m] > 0 THEN refs[m] - 1 ELSE 0]
    /\ depth' = depth - 1
    /\ UNCHANGED <<game, config, frame, patching, dialogs, update, loadFailed>>

\* start has returned to the game.
Resident == depth = 0 /\ UNCHANGED vars

-------------------------------------------------------------------------------
Next ==
    \/ Announce \/ LoadAllModules \/ InitLogger \/ ReadConfig
    \/ TryUpdate \/ TryRestartModule
    \/ SetPointers \/ DetectGame \/ WritePopup
    \/ ApplyGamePatches \/ EndPatches \/ Leave
    \/ Resident

Spec == Init /\ [][Next]_vars

\* The game's thread runs start to its end: every external call returns.
FairSpec == Spec /\ WF_vars(Next)

-------------------------------------------------------------------------------
(* Safety.                                                                 *)

TypeOK ==
    /\ game \in Games /\ config \in Options
    /\ depth \in 0..MaxDepth
    /\ frame \in [1..MaxDepth -> Frames]
    /\ memory \in [Sites -> Values]
    /\ writers \subseteq 1..MaxDepth
    /\ popup \in Kinds
    /\ dialogs \subseteq {"updated", "noConfig", "updateFailed", "restartFailed",
                          "notSafe"} \X (1..MaxDepth)
    /\ installed \in {"old", "new", "broken"}
    /\ result \in -1..2
    /\ refs \in [SysModules -> 0..(GameRefs + depth)]
    /\ loadFailed \subseteq SysModules
    /\ logs \subseteq 1..MaxDepth

\* A restarted instance never restarts: however the update server answers,
\* start is entered at most twice per boot (prx.c:96, update.c:127).
RestartOnce == depth <= 2

\* One instance writes all that is written to the game's memory: once the inner
\* one has patched it, the outer one, which may have another random join key,
\* no longer finds a game to patch (prx.c:127-190, patches.c:84-90).
OneWriter == \A d, e \in writers : d = e

Protected == memory["resource_check"] = "branch" /\ memory["forcejoin"] = "check"

\* Whatever the configuration, the update and the restart came to, a game the
\* module knows has both of its fixes when start returns: scripts are blocked
\* and join requests are checked (README.md:10-20).
ProtectedAtEnd == depth = 0 /\ game # "unknown" => Protected

\* The user agent sent to the server and the popup shown to the player agree
\* with the key the game encrypts its packets with (prx.c:107-112, 165-187).
KeyAgrees ==
    depth = 0 =>
        LET key == memory["network_key"]
            agent == memory["user_agent"]
        IN  /\ agent # "own" => (agent = "keyed" <=> key # "own")
            /\ popup = "with_pw" => key = "joined"
            /\ popup = "random_pw" => key = "random"
            /\ popup = "without_pw" => key = "own"

\* An instance holds its system modules and its log from LoadAllModules and
\* InitLogger to its end, also while and after an instance it started releases
\* its own; at the end the game has what it had (modules.c, prx.c:69-70, 193-194).
Loaded == {d \in 1..depth : frame[d].pc \notin {"announce", "modules"}}
ReferencesBalance ==
    /\ \A m \in SysModules \ loadFailed : refs[m] = GameRefs + Cardinality(Loaded)
    /\ logs \subseteq 1..depth

-------------------------------------------------------------------------------
(* Liveness.                                                               *)

\* start returns to the game, whether it restarted or not.
StartReturns == <>(depth = 0)

-------------------------------------------------------------------------------
(* What the messages say.                                                  *)

\* "Patchwork has been updated to version" (prx.c:66), from the instance that
\* TryRestartModule started.
UpdatedMeansUpdated == <<"updated", 2>> \in dialogs => result = 1

\* "Failed to detect game, your online is not safe!" (prx.c:158).
NotSafeMeansUnprotected ==
    depth = 0 /\ (\E d \in 1..MaxDepth : <<"notSafe", d>> \in dialogs) => ~Protected
===============================================================================
