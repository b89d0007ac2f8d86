----------------------------- MODULE StartupProofs -----------------------------
(***************************************************************************)
(* Proofs about Startup: that a restart is never repeated, that one        *)
(* instance writes all patches, and what the game's memory holds when      *)
(* start returns.                                                          *)
(***************************************************************************)
EXTENDS Startup, FiniteSetTheorems, TLAPS

-------------------------------------------------------------------------------
(* The parts of the inductive invariant.                                   *)

\* The outer instance, when there is an inner one, waits to set its pointers,
\* and the inner one does not look for updates.
NestingInv ==
    /\ depth <= 2
    /\ depth = 2 => frame[2].launch = "updated" /\ frame[1].pc = "pointers"
    /\ At("restart") => Self.launch = "fresh"
    /\ frame[1].launch \in {"none", "fresh"}
    /\ depth = 2 => frame[1].next = 1
    /\ depth > 0 /\ ~At("apply") /\ ~At("leave") => Self.next = 1

\* Nothing was written, or one instance has put its user agent in place; only
\* the loop of ApplyGamePatches is in between.
WritersInv ==
    /\ writers = {} => \A s \in Sites : memory[s] = "own"
    /\ ~At("apply") /\ writers # {} => memory["user_agent"] # "own"
    /\ \A d, e \in writers : d = e
    /\ At("popup") => writers = {}
    /\ At("apply") => writers \subseteq {depth}
    /\ At("apply") /\ Self.next = 1 => writers = {}

KeyValue(key) == IF key = "null" THEN "own" ELSE key

\* What the running instance will write, from its options.
PointersInv ==
    At("popup") \/ At("apply") \/ At("detect") =>
        /\ Self.opts.enableKey <=> Self.key # "null"
        /\ At("popup") \/ At("apply") =>
              Self.agent = IF Self.opts.enableKey THEN "keyed" ELSE "NK"

\* How far the loop of ApplyGamePatches has come.
ProgressInv ==
    At("popup") \/ At("apply") =>
        /\ game \in KnownGames
        /\ Self.next \in 1..(PatchCount + 1)
        /\ Self.next > 1 => memory["network_key"] = KeyValue(Self.key)
        /\ Self.next > 2 => memory["user_agent"] = Self.agent
        /\ Self.next > PatchCount - 1 => memory["resource_check"] = "branch"
        /\ Self.next > PatchCount => memory["forcejoin"] = "check"

\* What was written agrees with what was said of it.
MessageInv ==
    /\ At("apply") => popup \in {"none", Message}
    /\ ~At("apply") /\ memory["user_agent"] = "own" => popup = "none"
    /\ ~At("apply") /\ memory["user_agent"] # "own" =>
          /\ memory["user_agent"] = "keyed" <=> memory["network_key"] # "own"
          /\ popup = "with_pw" => memory["network_key"] = "joined"
          /\ popup = "random_pw" => memory["network_key"] = "random"
          /\ popup = "without_pw" => memory["network_key"] = "own"

\* A patched user agent goes with both fixes, and a known game is not left
\* without them.
FixesInv ==
    /\ ~At("apply") /\ memory["user_agent"] # "own" => Protected
    /\ (depth = 0 \/ At("leave")) /\ game \in KnownGames =>
          memory["user_agent"] # "own"

\* The instances that have loaded the system modules: all but one that has
\* not come to it.
LoadedCount == IF At("announce") \/ At("modules") THEN depth - 1 ELSE depth

\* A module that failed to load may have lost a reference.
ReferencesInv ==
    /\ \A m \in SysModules :
          /\ refs[m] <= GameRefs + LoadedCount
          /\ m \notin loadFailed => refs[m] = GameRefs + LoadedCount
    /\ logs \subseteq 1..depth

IInv ==
    /\ TypeOK
    /\ NestingInv
    /\ WritersInv
    /\ PointersInv
    /\ ProgressInv
    /\ MessageInv
    /\ FixesInv
    /\ ReferencesInv
-------------------------------------------------------------------------------
(* The patch tables.                                                       *)

\* The common shape of the tables: the key and the user agent come first, the
\* two fixes last, and nothing in between writes to their sites.
LEMMA TableShape ==
    ASSUME NEW g \in KnownGames
    PROVE  LET table == PatchesOf(g)
               n == Len(table)
           IN  /\ n \in {8, 10}
               /\ table[1] = <<"network_key", "NetworkKey">>
               /\ table[2] = <<"user_agent", "UserAgent">>
               /\ table[n - 1] = <<"resource_check", "ScriptHookInstruction">>
               /\ table[n] = <<"forcejoin", "ForceJoinPatch">>
               /\ \A i \in 3..(n - 2) :
                     table[i][1] \in Sites \ {"network_key", "user_agent",
                                              "resource_check", "forcejoin"}
<1>1. CASE g = "LBP1"
  BY <1>1 DEF PatchesOf, LBP1Patches, Sites
<1>2. CASE g = "LBP2"
  BY <1>2 DEF PatchesOf, LBP2Patches, Sites
<1>3. CASE g \in {"LBP3", "LBP3_JP"}
  BY <1>3 DEF PatchesOf, LBP3Patches, Sites
<1> QED
  BY <1>1, <1>2, <1>3 DEF KnownGames

-------------------------------------------------------------------------------
(* What becomes of the running instance.                                   *)

LEMMA UnsetType == Unset \in Options
  BY DEF Unset, Options

LEMMA SelfType ==
    ASSUME TypeOK, depth > 0
    PROVE  depth \in 1..MaxDepth /\ Self \in Frames
  BY DEF TypeOK, Self

LEMMA BecomeEffect ==
    ASSUME TypeOK, depth > 0, NEW self \in Frames, Become(self)
    PROVE  /\ frame' \in [1..MaxDepth -> Frames]
           /\ frame'[depth] = self
           /\ \A d \in 1..MaxDepth \ {depth} : frame'[d] = frame[d]
  BY DEF TypeOK, Become

LEMMA JumpFields ==
    ASSUME NEW old \in Frames, NEW location \in Locations
    PROVE  LET new == [old EXCEPT !.pc = location]
           IN  /\ new \in Frames
               /\ new.pc = location /\ new.launch = old.launch
               /\ new.opts = old.opts /\ new.key = old.key
               /\ new.agent = old.agent /\ new.next = old.next
  BY DEF Frames, Locations

LEMMA ConfigFields ==
    ASSUME NEW old \in Frames, NEW opts \in Options
    PROVE  LET new == [old EXCEPT !.opts = opts, !.pc = "update"]
           IN  /\ new \in Frames
               /\ new.pc = "update" /\ new.launch = old.launch
               /\ new.opts = opts /\ new.key = old.key
               /\ new.agent = old.agent /\ new.next = old.next
  BY DEF Frames, Locations

LEMMA PointersFields ==
    ASSUME NEW old \in Frames, NEW key \in {"null", "joined", "random"}
    PROVE  LET new == [old EXCEPT !.key = key, !.pc = "detect"]
           IN  /\ new \in Frames
               /\ new.pc = "detect" /\ new.launch = old.launch
               /\ new.opts = old.opts /\ new.key = key
               /\ new.agent = old.agent /\ new.next = old.next
  BY DEF Frames, Locations

LEMMA DetectFields ==
    ASSUME NEW old \in Frames, NEW agent \in {"null", "keyed", "NK"}
    PROVE  LET new == [old EXCEPT !.agent = agent, !.pc = "popup"]
           IN  /\ new \in Frames
               /\ new.pc = "popup" /\ new.launch = old.launch
               /\ new.opts = old.opts /\ new.key = old.key
               /\ new.agent = agent /\ new.next = old.next
  BY DEF Frames, Locations

LEMMA ApplyFields ==
    ASSUME NEW old \in Frames
    PROVE  LET new == [old EXCEPT !.next = @ + 1]
           IN  /\ new \in Frames
               /\ new.pc = old.pc /\ new.launch = old.launch
               /\ new.opts = old.opts /\ new.key = old.key
               /\ new.agent = old.agent /\ new.next = old.next + 1
  BY DEF Frames, Locations

LEMMA JumpEffect ==
    ASSUME TypeOK, depth > 0, NEW location \in Locations, Jump(location)
    PROVE  /\ depth \in 1..MaxDepth
           /\ frame' \in [1..MaxDepth -> Frames]
           /\ frame'[depth].pc = location
           /\ frame'[depth].launch = Self.launch
           /\ frame'[depth].opts = Self.opts
           /\ frame'[depth].key = Self.key
           /\ frame'[depth].agent = Self.agent
           /\ frame'[depth].next = Self.next
           /\ \A d \in 1..MaxDepth \ {depth} : frame'[d] = frame[d]
<1> DEFINE new == [Self EXCEPT !.pc = location]
<1>1. depth > 0 /\ Self \in Frames /\ Become(new)
  BY SelfType DEF Jump
<1>2. /\ new \in Frames
      /\ new.pc = location
      /\ new.launch = Self.launch
      /\ new.opts = Self.opts
      /\ new.key = Self.key
      /\ new.agent = Self.agent
      /\ new.next = Self.next
  BY <1>1, JumpFields
<1> HIDE DEF new
<1> QED
  BY <1>1, <1>2, BecomeEffect, SelfType

LEMMA ConfigEffect ==
    ASSUME TypeOK, depth > 0,
           Become([Self EXCEPT !.opts = config, !.pc = "update"])
    PROVE  /\ depth \in 1..MaxDepth
           /\ frame' \in [1..MaxDepth -> Frames]
           /\ frame'[depth].pc = "update"
           /\ frame'[depth].launch = Self.launch
           /\ frame'[depth].opts = config
           /\ frame'[depth].key = Self.key
           /\ frame'[depth].agent = Self.agent
           /\ frame'[depth].next = Self.next
           /\ \A d \in 1..MaxDepth \ {depth} : frame'[d] = frame[d]
<1> DEFINE new == [Self EXCEPT !.opts = config, !.pc = "update"]
<1>1. depth > 0 /\ Self \in Frames /\ Become(new)
  BY SelfType DEF TypeOK
<1>3. config \in Options
  BY DEF TypeOK
<1>2. /\ new \in Frames
      /\ new.pc = "update"
      /\ new.launch = Self.launch
      /\ new.opts = config
      /\ new.key = Self.key
      /\ new.agent = Self.agent
      /\ new.next = Self.next
  BY <1>1, <1>3, ConfigFields
<1> HIDE DEF new
<1> QED
  BY <1>1, <1>2, BecomeEffect, SelfType

LEMMA PointersEffect ==
    ASSUME TypeOK, SetPointers
    PROVE  /\ depth \in 1..MaxDepth
           /\ frame' \in [1..MaxDepth -> Frames]
           /\ frame'[depth].pc = "detect"
           /\ frame'[depth].launch = Self.launch
           /\ frame'[depth].opts = Self.opts
           /\ frame'[depth].key = (IF Self.opts.enableKey THEN JoinKey(Self.opts) ELSE "null")
           /\ frame'[depth].agent = Self.agent
           /\ frame'[depth].next = Self.next
           /\ \A d \in 1..MaxDepth \ {depth} : frame'[d] = frame[d]
<1> DEFINE new == [Self EXCEPT
           !.key = IF Self.opts.enableKey THEN JoinKey(Self.opts) ELSE "null",
           !.pc = "detect"]
<1>1. depth > 0 /\ Self \in Frames /\ Become(new)
  BY SelfType DEF SetPointers, At
<1>3. (IF Self.opts.enableKey THEN JoinKey(Self.opts) ELSE "null") \in {"null", "joined", "random"}
  BY DEF JoinKey
<1>2. /\ new \in Frames
      /\ new.pc = "detect"
      /\ new.launch = Self.launch
      /\ new.opts = Self.opts
      /\ new.key = (IF Self.opts.enableKey THEN JoinKey(Self.opts) ELSE "null")
      /\ new.agent = Self.agent
      /\ new.next = Self.next
  BY <1>1, <1>3, PointersFields
<1> HIDE DEF new
<1> QED
  BY <1>1, <1>2, BecomeEffect, SelfType

LEMMA DetectEffect ==
    ASSUME TypeOK, DetectGame, GetLBPGameNumber # "unknown"
    PROVE  /\ depth \in 1..MaxDepth
           /\ frame' \in [1..MaxDepth -> Frames]
           /\ frame'[depth].pc = "popup"
           /\ frame'[depth].launch = Self.launch
           /\ frame'[depth].opts = Self.opts
           /\ frame'[depth].key = Self.key
           /\ frame'[depth].agent = (IF Self.opts.enableKey THEN "keyed" ELSE "NK")
           /\ frame'[depth].next = Self.next
           /\ \A d \in 1..MaxDepth \ {depth} : frame'[d] = frame[d]
<1> DEFINE new == [Self EXCEPT
           !.agent = IF Self.opts.enableKey THEN "keyed" ELSE "NK",
           !.pc = "popup"]
<1>1. depth > 0 /\ Self \in Frames /\ Become(new)
  BY SelfType DEF DetectGame, At
<1>3. (IF Self.opts.enableKey THEN "keyed" ELSE "NK") \in {"null", "keyed", "NK"}
  OBVIOUS
<1>2. /\ new \in Frames
      /\ new.pc = "popup"
      /\ new.launch = Self.launch
      /\ new.opts = Self.opts
      /\ new.key = Self.key
      /\ new.agent = (IF Self.opts.enableKey THEN "keyed" ELSE "NK")
      /\ new.next = Self.next
  BY <1>1, <1>3, DetectFields
<1> HIDE DEF new
<1> QED
  BY <1>1, <1>2, BecomeEffect, SelfType

LEMMA ApplyEffect ==
    ASSUME TypeOK, ApplyGamePatches
    PROVE  /\ depth \in 1..MaxDepth
           /\ frame' \in [1..MaxDepth -> Frames]
           /\ frame'[depth].pc = Self.pc
           /\ frame'[depth].launch = Self.launch
           /\ frame'[depth].opts = Self.opts
           /\ frame'[depth].key = Self.key
           /\ frame'[depth].agent = Self.agent
           /\ frame'[depth].next = Self.next + 1
           /\ \A d \in 1..MaxDepth \ {depth} : frame'[d] = frame[d]
<1> DEFINE new == [Self EXCEPT !.next = @ + 1]
<1>1. depth > 0 /\ Self \in Frames /\ Become(new)
  BY SelfType DEF ApplyGamePatches, At
<1>2. /\ new \in Frames
      /\ new.pc = Self.pc
      /\ new.launch = Self.launch
      /\ new.opts = Self.opts
      /\ new.key = Self.key
      /\ new.agent = Self.agent
      /\ new.next = Self.next + 1
  BY <1>1, ApplyFields
<1> HIDE DEF new
<1> QED
  BY <1>1, <1>2, BecomeEffect, SelfType

LEMMA RestartEffect ==
    ASSUME TypeOK, NestingInv, At("restart"), depth < MaxDepth,
           frame' = [frame EXCEPT ![depth] = [Self EXCEPT !.pc = "pointers"],
                                  ![depth + 1] = Started("updated")]
    PROVE  /\ depth = 1
           /\ frame' \in [1..MaxDepth -> Frames]
           /\ frame'[1].pc = "pointers"
           /\ frame'[1].launch = frame[1].launch
           /\ frame'[1].opts = frame[1].opts
           /\ frame'[1].key = frame[1].key
           /\ frame'[1].agent = frame[1].agent
           /\ frame'[1].next = frame[1].next
           /\ frame'[2].pc = "announce"
           /\ frame'[2].launch = "updated"
           /\ frame'[2].next = 1
<1> DEFINE outer == [Self EXCEPT !.pc = "pointers"]
<1> DEFINE inner == Started("updated")
<1>1. depth = 1 /\ 2 \in 1..MaxDepth /\ Self = frame[1] /\ Self \in Frames
  BY BoundAssumption DEF TypeOK, NestingInv, At, Self
<1>2. /\ inner \in Frames
      /\ inner.pc = "announce" /\ inner.launch = "updated" /\ inner.next = 1
  BY UnsetType DEF Started, Frames, Locations
<1>3. "pointers" \in Locations
  BY DEF Locations
<1>4. /\ outer \in Frames
      /\ outer.pc = "pointers"
      /\ outer.launch = Self.launch
      /\ outer.opts = Self.opts
      /\ outer.key = Self.key
      /\ outer.agent = Self.agent
      /\ outer.next = Self.next
  BY <1>1, <1>3, JumpFields
<1>5. frame' = [frame EXCEPT ![1] = outer, ![2] = inner]
  BY <1>1
<1> HIDE DEF outer, inner
<1>6. frame \in [1..MaxDepth -> Frames] /\ MaxDepth \in Nat
  BY BoundAssumption DEF TypeOK
<1>7. frame'[1] = outer /\ frame'[2] = inner
  BY <1>1, <1>5, <1>6
<1>8. frame' \in [1..MaxDepth -> Frames]
  BY <1>1, <1>2, <1>4, <1>5, <1>6
<1> QED
  BY <1>1, <1>2, <1>4, <1>7, <1>8

\* What the three actions with more than one outcome come to.
LEMMA ReadConfigEffect ==
    ASSUME TypeOK, ReadConfig
    PROVE  /\ depth' = depth /\ depth \in 1..MaxDepth
           /\ frame' \in [1..MaxDepth -> Frames]
           /\ frame'[depth].pc \in {"update", "pointers"}
           /\ frame'[depth].launch = Self.launch
           /\ frame'[depth].next = Self.next
           /\ \A d \in 1..MaxDepth \ {depth} : frame'[d] = frame[d]
<1>1. depth > 0 /\ depth' = depth /\ "pointers" \in Locations
  BY DEF ReadConfig, At, Locations
<1>2. CASE Jump("pointers")
  BY <1>1, <1>2, JumpEffect
<1>3. CASE Become([Self EXCEPT !.opts = config, !.pc = "update"])
  BY <1>1, <1>3, ConfigEffect
<1> QED
  BY <1>2, <1>3 DEF ReadConfig

LEMMA TryRestartEffect ==
    ASSUME TypeOK, NestingInv, TryRestartModule
    PROVE  /\ depth \in 1..MaxDepth
           /\ frame' \in [1..MaxDepth -> Frames]
           /\ \/ /\ depth' = depth
                 /\ frame'[depth].pc = "pointers"
                 /\ frame'[depth].launch = Self.launch
                 /\ frame'[depth].next = Self.next
                 /\ \A d \in 1..MaxDepth \ {depth} : frame'[d] = frame[d]
              \/ /\ depth = 1 /\ depth' = 2 /\ depth < MaxDepth
                 /\ frame'[1].pc = "pointers"
                 /\ frame'[1].launch = frame[1].launch
                 /\ frame'[1].next = frame[1].next
                 /\ frame'[2].pc = "announce"
                 /\ frame'[2].launch = "updated"
                 /\ frame'[2].next = 1
<1>1. /\ At("restart") /\ depth > 0 /\ depth \in 1..MaxDepth
      /\ "pointers" \in Locations
  BY SelfType DEF TryRestartModule, At, Locations
<1>2. CASE Jump("pointers") /\ UNCHANGED depth
  BY <1>1, <1>2, JumpEffect
<1>3. CASE ~(Jump("pointers") /\ UNCHANGED depth)
  BY <1>1, <1>3, RestartEffect DEF TryRestartModule
<1> QED
  BY <1>2, <1>3

LEMMA DetectGameEffect ==
    ASSUME TypeOK, DetectGame
    PROVE  /\ depth' = depth /\ depth \in 1..MaxDepth
           /\ frame' \in [1..MaxDepth -> Frames]
           /\ frame'[depth].launch = Self.launch
           /\ frame'[depth].opts = Self.opts
           /\ frame'[depth].key = Self.key
           /\ frame'[depth].next = Self.next
           /\ \A d \in 1..MaxDepth \ {depth} : frame'[d] = frame[d]
           /\ IF GetLBPGameNumber = "unknown"
              THEN frame'[depth].pc = "leave"
              ELSE /\ frame'[depth].pc = "popup"
                   /\ frame'[depth].agent =
                        IF Self.opts.enableKey THEN "keyed" ELSE "NK"
<1>1. depth > 0 /\ depth' = depth /\ "leave" \in Locations
  BY DEF DetectGame, At, Locations
<1>2. CASE GetLBPGameNumber = "unknown"
  BY <1>1, <1>2, JumpEffect DEF DetectGame
<1>3. CASE GetLBPGameNumber # "unknown"
  BY <1>1, <1>3, DetectEffect
<1> QED
  BY <1>2, <1>3

LEMMA LeaveEffect ==
    ASSUME TypeOK, NestingInv, Leave
    PROVE  /\ ~At("popup")' /\ ~At("apply")' /\ ~At("detect")' /\ ~At("leave")'
           /\ ~At("announce")' /\ ~At("modules")'
           /\ depth \in 1..2 /\ depth' = depth - 1
<1>1. depth \in 1..2 /\ depth' = depth - 1 /\ frame' = frame
  BY DEF TypeOK, NestingInv, Leave, At
<1>2. depth = 2 => frame[1].pc = "pointers"
  BY DEF NestingInv
<1> QED
  BY <1>1, <1>2 DEF At, Self

-------------------------------------------------------------------------------
(* What the loop of ApplyGamePatches writes.                               *)

\* Each site that is spoken of is written by the turn that comes to it, and by
\* no other.
LEMMA ApplyWrites ==
    ASSUME TypeOK, ApplyGamePatches, game \in KnownGames, Self.next \in Nat \ {0}
    PROVE  /\ PatchCount \in {8, 10}
           /\ memory'["network_key"] =
                IF Self.next = 1 /\ Self.key # "null" THEN Self.key
                                                      ELSE memory["network_key"]
           /\ memory'["user_agent"] =
                IF Self.next = 2 /\ Self.agent # "null" THEN Self.agent
                                                        ELSE memory["user_agent"]
           /\ memory'["resource_check"] =
                IF Self.next = PatchCount - 1 THEN "branch"
                                              ELSE memory["resource_check"]
           /\ memory'["forcejoin"] =
                IF Self.next = PatchCount THEN "check" ELSE memory["forcejoin"]
           /\ \/ UNCHANGED <<memory, writers>>
              \/ writers' = writers \union {depth}
<1> DEFINE table == PatchesOf(game)
<1> DEFINE n == Len(table)
<1> DEFINE site == table[Self.next][1]
<1> DEFINE value == Source(table[Self.next][2])
<1>1. /\ n \in {8, 10}
      /\ table[1] = <<"network_key", "NetworkKey">>
      /\ table[2] = <<"user_agent", "UserAgent">>
      /\ table[n - 1] = <<"resource_check", "ScriptHookInstruction">>
      /\ table[n] = <<"forcejoin", "ForceJoinPatch">>
      /\ \A i \in 3..(n - 2) :
            table[i][1] \in Sites \ {"network_key", "user_agent",
                                     "resource_check", "forcejoin"}
  BY TableShape
<1>2. Self.next \in 1..n
  BY <1>1 DEF ApplyGamePatches, PatchCount
<1>3. \/ UNCHANGED <<memory, writers>> /\ value = "null"
      \/ /\ memory' = [memory EXCEPT ![site] = value] /\ value # "null"
         /\ writers' = writers \union {depth}
  BY DEF ApplyGamePatches, Write
<1>4. DOMAIN memory = Sites
  BY DEF TypeOK
<1> HIDE DEF table
<1>5. CASE Self.next = 1
  <2>1. site = "network_key" /\ value = Self.key
    BY <1>1, <1>5 DEF Source
  <2> QED
    BY <1>1, <1>3, <1>4, <1>5, <2>1 DEF PatchCount, Sites, table
<1>6. CASE Self.next = 2
  <2>1. site = "user_agent" /\ value = Self.agent
    BY <1>1, <1>6 DEF Source
  <2> QED
    BY <1>1, <1>3, <1>4, <1>6, <2>1 DEF PatchCount, Sites, table
<1>7. CASE Self.next \in 3..(n - 2)
  <2>1. site \notin {"network_key", "user_agent", "resource_check", "forcejoin"}
    BY <1>1, <1>7
  <2> HIDE DEF site, value
  <2> QED
    BY <1>1, <1>3, <1>4, <1>7, <2>1 DEF PatchCount, Sites, table
<1>8. CASE Self.next = n - 1
  <2>1. site = "resource_check" /\ value = "branch"
    BY <1>1, <1>8 DEF Source
  <2> QED
    BY <1>1, <1>3, <1>4, <1>8, <2>1 DEF PatchCount, Sites, table
<1>9. CASE Self.next = n
  <2>1. site = "forcejoin" /\ value = "check"
    BY <1>1, <1>9 DEF Source
  <2> QED
    BY <1>1, <1>3, <1>4, <1>9, <2>1 DEF PatchCount, Sites, table
<1> QED
  BY <1>1, <1>2, <1>5, <1>6, <1>7, <1>8, <1>9

\* What the memory holds once the loop has come to the end.
LEMMA AfterLoop ==
    ASSUME TypeOK, PointersInv, ProgressInv, EndPatches
    PROVE  /\ depth > 0
           /\ memory["network_key"] = KeyValue(Self.key)
           /\ memory["user_agent"] = IF Self.opts.enableKey THEN "keyed" ELSE "NK"
           /\ Self.opts.enableKey <=> Self.key # "null"
           /\ Protected
<1>1. At("apply") /\ game \in KnownGames /\ depth > 0
  BY DEF EndPatches, ProgressInv, At
<1>2. PatchCount \in {8, 10}
  BY <1>1, TableShape DEF PatchCount
<1>3. Self.next > PatchCount /\ Self.next \in Nat
  BY <1>1, SelfType DEF EndPatches, Frames
<1> QED
  BY <1>1, <1>2, <1>3 DEF PointersInv, ProgressInv, Protected

\* With it, and with the message that was asked for.
LEMMA EndOfLoop ==
    ASSUME TypeOK, PointersInv, ProgressInv, MessageInv, EndPatches
    PROVE  /\ memory["network_key"] = KeyValue(Self.key)
           /\ memory["user_agent"] = (IF Self.opts.enableKey THEN "keyed" ELSE "NK")
           /\ Self.opts.enableKey <=> Self.key # "null"
           /\ Self.key \in {"null", "joined", "random"}
           /\ popup \in {"none", Message}
<1>1. At("apply")
  BY DEF EndPatches, At
<1>2. Self.key \in {"null", "joined", "random"}
  <2>1. Self \in Frames
    BY AfterLoop, SelfType
  <2> QED
    BY <2>1 DEF Frames
<1>3. popup \in {"none", Message}
  BY <1>1 DEF MessageInv
<1> QED
  BY <1>2, <1>3, AfterLoop, Zenon

-------------------------------------------------------------------------------
(* Every step preserves each part.                                         *)

LEMMA NestingStep == TypeOK /\ NestingInv /\ Next => NestingInv'
<1> SUFFICES ASSUME TypeOK, NestingInv, Next PROVE NestingInv'
  OBVIOUS
<1> USE BoundAssumption DEF NestingInv, Self, At, Frames, TypeOK, update,
       system, patching
<1>1. CASE Announce
  BY <1>1 DEF Announce, Jump, Become
<1>2. CASE LoadAllModules
  BY <1>2 DEF LoadAllModules, Jump, Become
<1>3. CASE InitLogger
  BY <1>3 DEF InitLogger, Jump, Become
<1>4. CASE ReadConfig
  <2>1. /\ depth' = depth /\ depth \in 1..MaxDepth
        /\ frame'[depth].pc \in {"update", "pointers"}
        /\ frame'[depth].launch = Self.launch /\ frame'[depth].next = Self.next
        /\ \A d \in 1..MaxDepth \ {depth} : frame'[d] = frame[d]
    BY <1>4, ReadConfigEffect
  <2> QED
    BY <1>4, <2>1 DEF ReadConfig
<1>5. CASE TryUpdate
  BY <1>5 DEF TryUpdate, Jump, Become, WantsUpdate
<1>6. CASE TryRestartModule
  BY <1>6, TryRestartEffect DEF TryRestartModule
<1>7. CASE SetPointers
  BY <1>7 DEF SetPointers, Become
<1>8. CASE DetectGame
  <2>1. /\ depth' = depth /\ depth \in 1..MaxDepth
        /\ frame'[depth].pc \in {"leave", "popup"}
        /\ frame'[depth].launch = Self.launch /\ frame'[depth].next = Self.next
        /\ \A d \in 1..MaxDepth \ {depth} : frame'[d] = frame[d]
    BY <1>8, DetectGameEffect
  <2> QED
    BY <1>8, <2>1 DEF DetectGame
<1>9. CASE WritePopup
  BY <1>9 DEF WritePopup, Jump, Become
<1>10. CASE ApplyGamePatches
  BY <1>10 DEF ApplyGamePatches, Become
<1>11. CASE EndPatches
  BY <1>11 DEF EndPatches, Jump, Become
<1>12. CASE Leave
  BY <1>12 DEF Leave
<1>13. CASE Resident
  BY <1>13 DEF Resident, vars
<1> QED
  BY <1>1, <1>2, <1>3, <1>4, <1>5, <1>6, <1>7, <1>8, <1>9, <1>10, <1>11, <1>12,
     <1>13 DEF Next

LEMMA WritersStep == TypeOK /\ NestingInv /\ ProgressInv /\ PointersInv /\
    WritersInv /\ Next => WritersInv'
<1> SUFFICES ASSUME TypeOK, NestingInv, ProgressInv, PointersInv, WritersInv,
    Next PROVE WritersInv'
  OBVIOUS
<1> USE BoundAssumption DEF WritersInv, Self, At, Frames, TypeOK, update,
       system, patching
<1>1. CASE Announce
  BY <1>1 DEF Announce, Jump, Become
<1>2. CASE LoadAllModules
  BY <1>2 DEF LoadAllModules, Jump, Become
<1>3. CASE InitLogger
  BY <1>3 DEF InitLogger, Jump, Become
<1>4. CASE ReadConfig
  BY <1>4, ReadConfigEffect DEF ReadConfig
<1>5. CASE TryUpdate
  BY <1>5 DEF TryUpdate, Jump, Become
<1>6. CASE TryRestartModule
  BY <1>6, TryRestartEffect DEF TryRestartModule
<1>7. CASE SetPointers
  BY <1>7 DEF SetPointers, Become
<1>8. CASE DetectGame
  BY <1>8, DetectGameEffect DEF DetectGame, GetLBPGameNumber
<1>9. CASE WritePopup
  BY <1>9 DEF WritePopup, Jump, Become
<1>10. CASE ApplyGamePatches
  <2>1. /\ game \in KnownGames /\ Self.next \in Nat \ {0}
        /\ Self.next > 2 => memory["user_agent"] = Self.agent
    BY <1>10 DEF ApplyGamePatches, ProgressInv
  <2>2. \/ UNCHANGED <<memory, writers>>
        \/ writers' = writers \union {depth}
    BY <1>10, <2>1, ApplyWrites
  <2>3. /\ depth' = depth /\ depth \in 1..MaxDepth /\ frame'[depth].pc = "apply"
        /\ frame'[depth].next = Self.next + 1
    BY <1>10, ApplyEffect DEF ApplyGamePatches
  <2>4. writers \subseteq {depth}
    BY <1>10 DEF ApplyGamePatches
  <2>5. writers' \subseteq {depth}
    BY <2>2, <2>4
  <2>6. writers' = {} => \A s \in Sites : memory'[s] = "own"
    <3>1. CASE UNCHANGED <<memory, writers>>
      BY <3>1
    <3>2. CASE writers' = writers \union {depth}
      BY <3>2
    <3> QED
      BY <2>2, <3>1, <3>2
  <2>7. At("apply")' /\ ~At("popup")' /\ Self'.next # 1
    BY <2>1, <2>3
  <2> QED
    BY <2>3, <2>5, <2>6, <2>7
<1>11. CASE EndPatches
  <2>1. memory["user_agent"] # "own"
    BY <1>11, AfterLoop
  <2> QED
    BY <1>11, <2>1 DEF EndPatches, Jump, Become
<1>12. CASE Leave
  <2>1. ~At("popup")' /\ ~At("apply")' /\ ~At("detect")' /\ ~At("leave")'
    BY <1>12, LeaveEffect
  <2> QED
    BY <1>12, <2>1 DEF Leave
<1>13. CASE Resident
  BY <1>13 DEF Resident, vars
<1> QED
  BY <1>1, <1>2, <1>3, <1>4, <1>5, <1>6, <1>7, <1>8, <1>9, <1>10, <1>11, <1>12,
     <1>13 DEF Next

LEMMA PointersStep == TypeOK /\ NestingInv /\ PointersInv /\ Next =>
    PointersInv'
<1> SUFFICES ASSUME TypeOK, NestingInv, PointersInv, Next PROVE PointersInv'
  OBVIOUS
<1> USE BoundAssumption DEF PointersInv, Self, At, Frames, TypeOK, update,
       system, patching
<1>1. CASE Announce
  BY <1>1 DEF Announce, Jump, Become
<1>2. CASE LoadAllModules
  BY <1>2 DEF LoadAllModules, Jump, Become
<1>3. CASE InitLogger
  BY <1>3 DEF InitLogger, Jump, Become
<1>4. CASE ReadConfig
  BY <1>4, ReadConfigEffect DEF ReadConfig
<1>5. CASE TryUpdate
  BY <1>5 DEF TryUpdate, Jump, Become
<1>6. CASE TryRestartModule
  BY <1>6, TryRestartEffect DEF TryRestartModule
<1>7. CASE SetPointers
  <2>1. /\ depth' = depth /\ depth \in 1..MaxDepth
        /\ frame'[depth].pc = "detect"
        /\ frame'[depth].opts = Self.opts
        /\ frame'[depth].key = (IF Self.opts.enableKey THEN JoinKey(Self.opts)
                                                      ELSE "null")
    BY <1>7, PointersEffect DEF SetPointers
  <2> QED
    BY <2>1 DEF JoinKey
<1>8. CASE DetectGame
  BY <1>8, DetectGameEffect DEF DetectGame, GetLBPGameNumber
<1>9. CASE WritePopup
  BY <1>9 DEF WritePopup, Jump, Become
<1>10. CASE ApplyGamePatches
  BY <1>10 DEF ApplyGamePatches, Become
<1>11. CASE EndPatches
  BY <1>11 DEF EndPatches, Jump, Become
<1>12. CASE Leave
  <2>1. ~At("popup")' /\ ~At("apply")' /\ ~At("detect")' /\ ~At("leave")'
    BY <1>12, LeaveEffect
  <2> QED
    BY <1>12, <2>1 DEF Leave
<1>13. CASE Resident
  BY <1>13 DEF Resident, vars
<1> QED
  BY <1>1, <1>2, <1>3, <1>4, <1>5, <1>6, <1>7, <1>8, <1>9, <1>10, <1>11, <1>12,
     <1>13 DEF Next

LEMMA ProgressStep == TypeOK /\ NestingInv /\ WritersInv /\ PointersInv /\
    ProgressInv /\ Next => ProgressInv'
<1> SUFFICES ASSUME TypeOK, NestingInv, WritersInv, PointersInv, ProgressInv,
    Next PROVE ProgressInv'
  OBVIOUS
<1> USE BoundAssumption DEF ProgressInv, Self, At, PatchCount, KeyValue,
       Frames, TypeOK, update, system, patching
<1>1. CASE Announce
  BY <1>1 DEF Announce, Jump, Become
<1>2. CASE LoadAllModules
  BY <1>2 DEF LoadAllModules, Jump, Become
<1>3. CASE InitLogger
  BY <1>3 DEF InitLogger, Jump, Become
<1>4. CASE ReadConfig
  BY <1>4, ReadConfigEffect DEF ReadConfig
<1>5. CASE TryUpdate
  BY <1>5 DEF TryUpdate, Jump, Become
<1>6. CASE TryRestartModule
  BY <1>6, TryRestartEffect DEF TryRestartModule
<1>7. CASE SetPointers
  BY <1>7 DEF SetPointers, Become
<1>8. CASE DetectGame
  <2>1. CASE GetLBPGameNumber = "unknown"
    BY <1>8, <2>1, DetectGameEffect
  <2>2. CASE GetLBPGameNumber # "unknown"
    <3>1. game' \in KnownGames /\ frame'[depth].next = 1 /\ depth' = depth
      BY <1>8, <2>2, DetectGameEffect, GamesAssumption
         DEF DetectGame, GetLBPGameNumber, NestingInv
    <3>2. PatchCount' \in {8, 10} /\ Self'.next = 1
      BY <3>1, TableShape
    <3> HIDE DEF PatchCount, Self
    <3>3. /\ Self'.next \in 1..(PatchCount' + 1)
          /\ ~(Self'.next > 1) /\ ~(Self'.next > 2)
          /\ ~(Self'.next > PatchCount' - 1) /\ ~(Self'.next > PatchCount')
      BY <3>2
    <3> QED
      BY <3>1, <3>3
  <2> QED
    BY <2>1, <2>2
<1>9. CASE WritePopup
  BY <1>9 DEF WritePopup, Jump, Become
<1>10. CASE ApplyGamePatches
  <2>1. /\ game \in KnownGames /\ Self.next \in Nat \ {0}
        /\ Self.next <= PatchCount
        /\ Self.agent \in {"keyed", "NK"}
    BY <1>10 DEF ApplyGamePatches, PointersInv
  <2>2. /\ depth' = depth /\ depth \in 1..MaxDepth /\ game' = game
        /\ frame'[depth].pc = "apply"
        /\ frame'[depth].next = Self.next + 1
        /\ frame'[depth].key = Self.key
        /\ frame'[depth].agent = Self.agent
    BY <1>10, ApplyEffect DEF ApplyGamePatches
  <2>3. Self.next = 1 => memory["network_key"] = "own"
    BY <1>10 DEF ApplyGamePatches, WritersInv, Sites
  <2>4. /\ PatchCount \in {8, 10}
        /\ memory'["network_key"] =
             IF Self.next = 1 /\ Self.key # "null" THEN Self.key
                                                   ELSE memory["network_key"]
        /\ memory'["user_agent"] =
             IF Self.next = 2 /\ Self.agent # "null" THEN Self.agent
                                                     ELSE memory["user_agent"]
        /\ memory'["resource_check"] =
             IF Self.next = PatchCount - 1 THEN "branch"
                                           ELSE memory["resource_check"]
        /\ memory'["forcejoin"] =
             IF Self.next = PatchCount THEN "check" ELSE memory["forcejoin"]
    BY <1>10, <2>1, ApplyWrites
  <2>5. PatchCount' = PatchCount
    BY <2>2
  <2> HIDE DEF PatchCount
  <2> QED
    BY <1>10, <2>1, <2>2, <2>3, <2>4, <2>5 DEF ApplyGamePatches
<1>11. CASE EndPatches
  BY <1>11 DEF EndPatches, Jump, Become
<1>12. CASE Leave
  <2>1. ~At("popup")' /\ ~At("apply")' /\ ~At("detect")' /\ ~At("leave")'
    BY <1>12, LeaveEffect
  <2> QED
    BY <1>12, <2>1 DEF Leave
<1>13. CASE Resident
  BY <1>13 DEF Resident, vars
<1> QED
  BY <1>1, <1>2, <1>3, <1>4, <1>5, <1>6, <1>7, <1>8, <1>9, <1>10, <1>11, <1>12,
     <1>13 DEF Next

LEMMA MessageStep == TypeOK /\ NestingInv /\ WritersInv /\ PointersInv /\
    ProgressInv /\ MessageInv /\ Next => MessageInv'
<1> SUFFICES ASSUME TypeOK, NestingInv, WritersInv, PointersInv, ProgressInv,
    MessageInv, Next PROVE MessageInv'
  OBVIOUS
<1> USE BoundAssumption DEF MessageInv, Self, At, Message, Frames, TypeOK,
       update, system, patching
<1>1. CASE Announce
  BY <1>1 DEF Announce, Jump, Become
<1>2. CASE LoadAllModules
  BY <1>2 DEF LoadAllModules, Jump, Become
<1>3. CASE InitLogger
  BY <1>3 DEF InitLogger, Jump, Become
<1>4. CASE ReadConfig
  BY <1>4, ReadConfigEffect DEF ReadConfig
<1>5. CASE TryUpdate
  BY <1>5 DEF TryUpdate, Jump, Become
<1>6. CASE TryRestartModule
  BY <1>6, TryRestartEffect DEF TryRestartModule
<1>7. CASE SetPointers
  BY <1>7 DEF SetPointers, Become
<1>8. CASE DetectGame
  BY <1>8, DetectGameEffect DEF DetectGame, GetLBPGameNumber
<1>9. CASE WritePopup
  <2>1. popup = "none"
    BY <1>9 DEF WritePopup, WritersInv, Sites
  <2>2. /\ depth' = depth /\ depth \in 1..MaxDepth
        /\ frame'[depth].pc = "apply"
        /\ frame'[depth].opts = Self.opts
        /\ frame'[depth].key = Self.key
    BY <1>9, JumpEffect DEF WritePopup, Locations
  <2> QED
    BY <1>9, <2>1, <2>2 DEF WritePopup
<1>10. CASE ApplyGamePatches
  BY <1>10 DEF ApplyGamePatches, Become, Write
<1>11. CASE EndPatches
  <2>1. /\ memory["network_key"] = KeyValue(Self.key)
        /\ memory["user_agent"] = (IF Self.opts.enableKey THEN "keyed" ELSE "NK")
        /\ Self.opts.enableKey <=> Self.key # "null"
        /\ Self.key \in {"null", "joined", "random"}
        /\ popup \in {"none", Message}
    BY <1>11, EndOfLoop
  <2>2. ~At("apply")' /\ UNCHANGED <<memory, popup>>
    BY <1>11 DEF EndPatches, Jump, Become
  <2> QED
    BY <2>1, <2>2 DEF KeyValue
<1>12. CASE Leave
  <2>1. ~At("popup")' /\ ~At("apply")' /\ ~At("detect")' /\ ~At("leave")'
    BY <1>12, LeaveEffect
  <2> QED
    BY <1>12, <2>1 DEF Leave
<1>13. CASE Resident
  BY <1>13 DEF Resident, vars
<1> QED
  BY <1>1, <1>2, <1>3, <1>4, <1>5, <1>6, <1>7, <1>8, <1>9, <1>10, <1>11, <1>12,
     <1>13 DEF Next

LEMMA FixesStep == TypeOK /\ NestingInv /\ WritersInv /\ PointersInv /\
    ProgressInv /\ FixesInv /\ Next => FixesInv'
<1> SUFFICES ASSUME TypeOK, NestingInv, WritersInv, PointersInv, ProgressInv,
    FixesInv, Next PROVE FixesInv'
  OBVIOUS
<1> USE BoundAssumption DEF FixesInv, Self, At, Protected, Frames, TypeOK,
       update, system, patching
<1>1. CASE Announce
  BY <1>1 DEF Announce, Jump, Become
<1>2. CASE LoadAllModules
  BY <1>2 DEF LoadAllModules, Jump, Become
<1>3. CASE InitLogger
  BY <1>3 DEF InitLogger, Jump, Become
<1>4. CASE ReadConfig
  BY <1>4, ReadConfigEffect DEF ReadConfig
<1>5. CASE TryUpdate
  BY <1>5 DEF TryUpdate, Jump, Become
<1>6. CASE TryRestartModule
  <2>1. At("restart") /\ UNCHANGED <<game, memory, popup, writers>>
    BY <1>6 DEF TryRestartModule
  <2>2. ~At("apply") /\ ~At("leave") /\ depth > 0
    BY <2>1
  <2>3. /\ depth' \in 1 .. 2 /\ depth' > 0
        /\ frame'[depth'].pc \in {"pointers", "announce"}
    BY ONLY TypeOK, NestingInv, <1>6, TryRestartEffect DEF NestingInv
  <2>4. ~At("apply")' /\ ~At("leave")'
    BY ONLY <2>3 DEF At, Self
  <2> QED
    BY ONLY FixesInv, <2>1, <2>2, <2>3, <2>4 DEF FixesInv, Protected
<1>7. CASE SetPointers
  BY <1>7 DEF SetPointers, Become
<1>8. CASE DetectGame
  BY <1>8, DetectGameEffect DEF DetectGame, GetLBPGameNumber, KnownGames
<1>9. CASE WritePopup
  BY <1>9 DEF WritePopup, Jump, Become
<1>10. CASE ApplyGamePatches
  BY <1>10 DEF ApplyGamePatches, Become, Write
<1>11. CASE EndPatches
  <2>1. memory["user_agent"] # "own" /\ Protected
    BY <1>11, AfterLoop
  <2> QED
    BY <1>11, <2>1 DEF EndPatches, Jump, Become
<1>12. CASE Leave
  BY <1>12 DEF Leave
<1>13. CASE Resident
  BY <1>13 DEF Resident, vars
<1> QED
  BY <1>1, <1>2, <1>3, <1>4, <1>5, <1>6, <1>7, <1>8, <1>9, <1>10, <1>11, <1>12,
     <1>13 DEF Next

LEMMA ReferencesStep == TypeOK /\ NestingInv /\ ReferencesInv /\ Next =>
    ReferencesInv'
<1> SUFFICES ASSUME TypeOK, NestingInv, ReferencesInv, Next PROVE
    ReferencesInv'
  OBVIOUS
<1> USE BoundAssumption DEF ReferencesInv, Self, At, LoadedCount, Frames,
       TypeOK, update, system, patching
<1>1. CASE Announce
  BY <1>1 DEF Announce, Jump, Become
<1>2. CASE LoadAllModules
  BY <1>2 DEF LoadAllModules, Jump, Become
<1>3. CASE InitLogger
  BY <1>3 DEF InitLogger, Jump, Become
<1>4. CASE ReadConfig
  BY <1>4, ReadConfigEffect DEF ReadConfig
<1>5. CASE TryUpdate
  BY <1>5 DEF TryUpdate, Jump, Become
<1>6. CASE TryRestartModule
  <2>1. /\ depth \in 1..MaxDepth
        /\ \/ depth' = depth /\ frame'[depth].pc = "pointers"
           \/ depth = 1 /\ depth' = 2 /\ frame'[2].pc = "announce"
    BY <1>6, TryRestartEffect
  <2>2. LoadedCount' = LoadedCount
    <3>1. LoadedCount = depth
      BY <1>6 DEF TryRestartModule
    <3>2. LoadedCount' = depth
      BY <2>1
    <3> QED
      BY <3>1, <3>2
  <2> HIDE DEF LoadedCount
  <2> QED
    BY <1>6, <2>1, <2>2 DEF TryRestartModule
<1>7. CASE SetPointers
  BY <1>7 DEF SetPointers, Become
<1>8. CASE DetectGame
  BY <1>8, DetectGameEffect DEF DetectGame
<1>9. CASE WritePopup
  BY <1>9 DEF WritePopup, Jump, Become
<1>10. CASE ApplyGamePatches
  BY <1>10 DEF ApplyGamePatches, Become
<1>11. CASE EndPatches
  BY <1>11 DEF EndPatches, Jump, Become
<1>12. CASE Leave
  <2>1. /\ ~At("announce")' /\ ~At("modules")' /\ depth' = depth - 1
        /\ depth \in 1..2
    BY <1>12, LeaveEffect
  <2>2. LoadedCount = depth /\ LoadedCount' = depth - 1
    BY <1>12, <2>1 DEF Leave
  <2>3. logs' \subseteq 1..depth'
    BY <1>12, <2>1 DEF Leave
  <2>4. ASSUME NEW m \in SysModules
        PROVE  /\ refs'[m] <= GameRefs + LoadedCount'
               /\ m \notin loadFailed' => refs'[m] = GameRefs + LoadedCount'
    <3>1. /\ refs[m] \in Nat /\ GameRefs \in Nat
          /\ refs[m] <= GameRefs + depth
          /\ m \notin loadFailed => refs[m] = GameRefs + depth
      BY <2>1, <2>2
    <3>2. refs'[m] = IF refs[m] > 0 THEN refs[m] - 1 ELSE 0
      BY <1>12 DEF Leave
    <3>3. loadFailed' = loadFailed
      BY <1>12 DEF Leave
    <3> HIDE DEF LoadedCount
    <3> QED
      BY ONLY <2>1, <2>2, <3>1, <3>2, <3>3, SMT
  <2> QED
    BY <2>3, <2>4
<1>13. CASE Resident
  BY <1>13 DEF Resident, vars
<1> QED
  BY <1>1, <1>2, <1>3, <1>4, <1>5, <1>6, <1>7, <1>8, <1>9, <1>10, <1>11, <1>12,
     <1>13 DEF Next

\* Every entry of a table names a source.
LEMMA PatchSources ==
    ASSUME TypeOK, depth > 0, NEW g \in KnownGames, NEW i \in 1..Len(PatchesOf(g))
    PROVE  Source(PatchesOf(g)[i][2]) \in Values \union {"null"}
<1>1. Self.key \in {"null", "joined", "random"} /\ Self.agent \in {"null", "keyed", "NK"}
  BY SelfType DEF Frames
<1>2. PatchesOf(g)[i][2] \in {"NetworkKey", "UserAgent", "ServerURL", "ServerDigest",
                            "LBP1PlaylistOverride", "NotificationEnableInstruction",
                            "ScriptHookInstruction", "ForceJoinPatch"}
  <2>1. CASE g = "LBP1"
    BY <2>1 DEF PatchesOf, LBP1Patches
  <2>2. CASE g = "LBP2"
    BY <2>2 DEF PatchesOf, LBP2Patches
  <2>3. CASE g \in {"LBP3", "LBP3_JP"}
    BY <2>3 DEF PatchesOf, LBP3Patches
  <2> QED
    BY <2>1, <2>2, <2>3 DEF KnownGames
<1> QED
  BY <1>1, <1>2 DEF Source, Values

LEMMA TypeStep == TypeOK /\ NestingInv /\ ProgressInv /\ ReferencesInv /\ Next
    => TypeOK'
<1> SUFFICES ASSUME TypeOK, NestingInv, ProgressInv, ReferencesInv, Next
          PROVE TypeOK'
  OBVIOUS
<1> USE BoundAssumption DEF update, system, patching
<1>1. CASE Announce
  <2>1. depth \in 1..MaxDepth
    BY <1>1, SelfType DEF Announce, At
  <2>2. frame' \in [1..MaxDepth -> Frames]
    BY <1>1, <2>1, JumpEffect DEF Announce, Locations
  <2> QED
    BY <1>1, <2>1, <2>2 DEF Announce, TypeOK, Show
<1>2. CASE LoadAllModules
  <2>1. depth \in 1..MaxDepth
    BY <1>2, SelfType DEF LoadAllModules, At
  <2>2. frame' \in [1..MaxDepth -> Frames]
    BY <1>2, <2>1, JumpEffect DEF LoadAllModules, Locations
  <2>3. \A m \in SysModules : refs[m] \in 0..(GameRefs + depth - 1)
    BY <1>2, <2>1 DEF LoadAllModules, TypeOK, ReferencesInv, LoadedCount
  <2>4. PICK failed \in SUBSET SysModules :
           /\ refs' = [m \in SysModules |-> IF m \in failed THEN refs[m]
                                                          ELSE refs[m] + 1]
           /\ loadFailed' = loadFailed \union failed
    BY <1>2 DEF LoadAllModules
  <2>5. refs' \in [SysModules -> 0..(GameRefs + depth)]
    BY <2>1, <2>3, <2>4
  <2> QED
    BY <1>2, <2>1, <2>2, <2>4, <2>5 DEF LoadAllModules, TypeOK
<1>3. CASE InitLogger
  <2>1. depth \in 1..MaxDepth
    BY <1>3, SelfType DEF InitLogger, At
  <2>2. frame' \in [1..MaxDepth -> Frames]
    BY <1>3, <2>1, JumpEffect DEF InitLogger, Locations
  <2> QED
    BY <1>3, <2>1, <2>2 DEF InitLogger, TypeOK
<1>4. CASE ReadConfig
  <2>1. depth \in 1..MaxDepth
    BY <1>4, SelfType DEF ReadConfig, At
  <2>2. frame' \in [1..MaxDepth -> Frames]
    BY <1>4, <2>1, ReadConfigEffect DEF ReadConfig, Locations
  <2> QED
    BY <1>4, <2>1, <2>2 DEF ReadConfig, TypeOK, Show
<1>5. CASE TryUpdate
  <2>1. depth \in 1..MaxDepth
    BY <1>5, SelfType DEF TryUpdate, At
  <2>2. frame' \in [1..MaxDepth -> Frames]
    BY <1>5, <2>1, JumpEffect DEF TryUpdate, Locations
  <2> QED
    BY <1>5, <2>1, <2>2 DEF TryUpdate, TypeOK, Show, Updated
<1>6. CASE TryRestartModule
  <2>1. depth \in 1..MaxDepth
    BY <1>6, SelfType DEF TryRestartModule, At
  <2>2. frame' \in [1..MaxDepth -> Frames]
    BY <1>6, <2>1, TryRestartEffect DEF TryRestartModule, Locations
  <2> QED
    BY <1>6, <2>1, <2>2 DEF TryRestartModule, TypeOK, Show
<1>7. CASE SetPointers
  <2>1. depth \in 1..MaxDepth
    BY <1>7, SelfType DEF SetPointers, At
  <2>2. frame' \in [1..MaxDepth -> Frames]
    BY <1>7, <2>1, PointersEffect DEF SetPointers, Locations
  <2> QED
    BY <1>7, <2>1, <2>2 DEF SetPointers, TypeOK
<1>8. CASE DetectGame
  <2>1. depth \in 1..MaxDepth
    BY <1>8, SelfType DEF DetectGame, At
  <2>2. frame' \in [1..MaxDepth -> Frames]
    BY <1>8, <2>1, DetectGameEffect DEF DetectGame, Locations
  <2> QED
    BY <1>8, <2>1, <2>2 DEF DetectGame, TypeOK, Show
<1>9. CASE WritePopup
  <2>1. depth \in 1..MaxDepth
    BY <1>9, SelfType DEF WritePopup, At
  <2>2. frame' \in [1..MaxDepth -> Frames]
    BY <1>9, <2>1, JumpEffect DEF WritePopup, Locations
  <2> QED
    BY <1>9, <2>1, <2>2 DEF WritePopup, TypeOK, Kinds, Message
<1>10. CASE ApplyGamePatches
  <2>1. depth \in 1..MaxDepth
    BY <1>10, SelfType DEF ApplyGamePatches, At
  <2>2. frame' \in [1..MaxDepth -> Frames]
    BY <1>10, <2>1, ApplyEffect
  <2>3. memory' \in [Sites -> Values] /\ writers' \subseteq 1..MaxDepth
    <3> DEFINE site == PatchesOf(game)[Self.next][1]
    <3> DEFINE value == Source(PatchesOf(game)[Self.next][2])
    <3>1. game \in KnownGames /\ Self.next \in 1..Len(PatchesOf(game))
      BY <1>10, <2>1, SelfType
         DEF ApplyGamePatches, ProgressInv, PatchCount, Frames
    <3>2. Source(PatchesOf(game)[Self.next][2]) \in Values \union {"null"}
      BY <2>1, <3>1, PatchSources
    <3>3. \/ UNCHANGED <<memory, writers>> /\ value = "null"
          \/ /\ memory' = [memory EXCEPT ![site] = value] /\ value # "null"
             /\ writers' = writers \union {depth}
      BY <1>10 DEF ApplyGamePatches, Write
    <3> QED
      BY <2>1, <3>2, <3>3 DEF TypeOK
  <2> QED
    BY <1>10, <2>1, <2>2, <2>3 DEF ApplyGamePatches, TypeOK
<1>11. CASE EndPatches
  <2>1. depth \in 1..MaxDepth
    BY <1>11, SelfType DEF EndPatches, At
  <2>2. frame' \in [1..MaxDepth -> Frames]
    BY <1>11, <2>1, JumpEffect DEF EndPatches, Locations
  <2> QED
    BY <1>11, <2>1, <2>2 DEF EndPatches, TypeOK
<1>12. CASE Leave
  <2>1. depth \in 1..MaxDepth
    BY <1>12, SelfType DEF Leave, At
  <2>2. frame' \in [1..MaxDepth -> Frames]
    BY <1>12 DEF Leave, TypeOK
  <2> QED
    BY <1>12, <2>1, <2>2 DEF Leave, TypeOK
<1>13. CASE Resident
  BY <1>13 DEF Resident, vars, TypeOK
<1> QED
  BY <1>1, <1>2, <1>3, <1>4, <1>5, <1>6, <1>7, <1>8, <1>9, <1>10, <1>11, <1>12,
     <1>13 DEF Next

-------------------------------------------------------------------------------
(* The invariant.                                                          *)

LEMMA InitType == Init => TypeOK
<1> SUFFICES ASSUME Init PROVE TypeOK
  OBVIOUS
<1> USE BoundAssumption DEF Init
<1>1. frame \in [1..MaxDepth -> Frames]
  <2>1. PICK launch \in Launches :
           frame = [d \in 1..MaxDepth |-> Started(launch)]
    OBVIOUS
  <2>2. Started(launch) \in Frames
    BY LaunchesAssumption, UnsetType DEF Started, Frames, Locations
  <2> QED
    BY <2>1, <2>2
<1>2. memory \in [Sites -> Values]
  BY DEF Values
<1>3. refs \in [SysModules -> 0..(GameRefs + depth)]
  OBVIOUS
<1> QED
  BY <1>1, <1>2, <1>3 DEF TypeOK, Kinds

LEMMA InitInv == Init => IInv
<1> SUFFICES ASSUME Init PROVE IInv
  OBVIOUS
<1>1. TypeOK
  BY InitType
<1>2. /\ depth = 1 /\ Self = frame[1]
      /\ frame[1].pc = "announce" /\ frame[1].launch \in {"none", "fresh"}
      /\ frame[1].next = 1
  BY BoundAssumption, LaunchesAssumption DEF Init, Started, Self
<1>3. NestingInv
  BY <1>2 DEF NestingInv, At
<1>4. WritersInv /\ PointersInv /\ ProgressInv
  BY <1>2 DEF Init, WritersInv, PointersInv, ProgressInv, At
<1>5. MessageInv /\ FixesInv
  BY <1>2 DEF Init, MessageInv, FixesInv, At, Sites
<1>6. ReferencesInv
  BY <1>2, BoundAssumption DEF Init, ReferencesInv, LoadedCount, At
<1> QED
  BY <1>1, <1>3, <1>4, <1>5, <1>6 DEF IInv

LEMMA InvStep == IInv /\ Next => IInv'
  BY TypeStep, NestingStep, WritersStep, PointersStep, ProgressStep,
     MessageStep, FixesStep, ReferencesStep DEF IInv

LEMMA InvStutter == IInv /\ UNCHANGED vars => IInv'
<1> SUFFICES ASSUME IInv, UNCHANGED vars PROVE IInv'
  OBVIOUS
<1> USE DEF vars, Self, At
<1>1. TypeOK' /\ NestingInv'
  BY DEF IInv, TypeOK, NestingInv
<1>2. WritersInv' /\ PointersInv'
  BY DEF IInv, WritersInv, PointersInv
<1>3. ProgressInv' /\ MessageInv'
  BY DEF IInv, ProgressInv, MessageInv, PatchCount, Message
<1>4. FixesInv' /\ ReferencesInv'
  BY DEF IInv, FixesInv, Protected, ReferencesInv, LoadedCount
<1> QED
  BY <1>1, <1>2, <1>3, <1>4 DEF IInv

\* The strengthened invariant is inductive.
THEOREM Invariance == Spec => []IInv
  BY InitInv, InvStep, InvStutter, PTL DEF Spec

-------------------------------------------------------------------------------
(* What follows from it.                                                   *)

LEMMA LoadedSize == ASSUME TypeOK, NestingInv
                    PROVE  Cardinality(Loaded) = LoadedCount
<1> USE DEF Loaded, LoadedCount, At, Self
<1>1. depth \in 0..2
  BY DEF TypeOK, NestingInv
<1>2. CASE depth = 0
  <2>1. Loaded = {}
    BY <1>2
  <2> QED
    BY <1>2, <2>1, FS_EmptySet
<1>3. CASE depth = 1
  <2>1. CASE At("announce") \/ At("modules")
    <3>1. Loaded = {}
      BY <1>3, <2>1
    <3> QED
      BY <1>3, <2>1, <3>1, FS_EmptySet
  <2>2. CASE ~(At("announce") \/ At("modules"))
    <3>1. Loaded = {1}
      BY <1>3, <2>2
    <3> QED
      BY <1>3, <2>2, <3>1, FS_Singleton
  <2> QED
    BY <2>1, <2>2
<1>4. CASE depth = 2
  <2>1. frame[1].pc = "pointers"
    BY <1>4 DEF NestingInv
  <2>2. CASE At("announce") \/ At("modules")
    <3>1. Loaded = {1}
      BY <1>4, <2>1, <2>2
    <3>2. Cardinality(Loaded) = 1
      BY <3>1, FS_Singleton
    <3>3. LoadedCount = 1
      BY <1>4, <2>2
    <3> QED
      BY <3>2, <3>3
  <2>3. CASE ~(At("announce") \/ At("modules"))
    <3>1. Loaded = {1} \union {2}
      BY <1>4, <2>1, <2>3
    <3>2. IsFiniteSet({1}) /\ Cardinality({1}) = 1
      BY FS_Singleton
    <3>3. Cardinality({1} \union {2}) = 2
      BY <3>2, FS_AddElement
    <3> QED
      BY <1>4, <2>3, <3>1, <3>3
  <2> QED
    BY <2>2, <2>3
<1> QED
  BY <1>1, <1>2, <1>3, <1>4

LEMMA InvSafety ==
    ASSUME IInv
    PROVE  RestartOnce /\ OneWriter /\ ProtectedAtEnd /\ KeyAgrees
           /\ ReferencesBalance
<1>1. RestartOnce
  BY DEF IInv, NestingInv, RestartOnce
<1>2. OneWriter
  BY DEF IInv, WritersInv, OneWriter
<1>3. ProtectedAtEnd
  BY GamesAssumption DEF IInv, TypeOK, FixesInv, ProtectedAtEnd, At
<1>4. KeyAgrees
  BY DEF IInv, MessageInv, KeyAgrees, At
<1>5. ReferencesBalance
  BY LoadedSize DEF IInv, ReferencesInv, ReferencesBalance
<1> QED
  BY <1>1, <1>2, <1>3, <1>4, <1>5

\* The state keeps its type however many instances and modules there may be.
THEOREM TypeCorrectness == Spec => []TypeOK
  BY Invariance, PTL DEF IInv

\* However far instances could nest, start is entered at most twice.
THEOREM RestartSafety == Spec => []RestartOnce
  BY InvSafety, Invariance, PTL

\* One instance writes all that is written to the game's memory.
THEOREM WriterSafety == Spec => []OneWriter
  BY InvSafety, Invariance, PTL

\* A known game has both of its fixes when start returns to it.
THEOREM ProtectionSafety == Spec => []ProtectedAtEnd
  BY InvSafety, Invariance, PTL

\* What the player and the server are told agrees with the key.
THEOREM KeySafety == Spec => []KeyAgrees
  BY InvSafety, Invariance, PTL

\* Each instance that has come to it holds its system modules to its end.
THEOREM ReferenceSafety == Spec => []ReferencesBalance
  BY InvSafety, Invariance, PTL

-------------------------------------------------------------------------------
(* The outer instance and its update.                                      *)

\* Where start never comes back to its update from.
PastUpdate == {"restart", "pointers", "detect", "popup", "apply", "leave"}

\* An instance the game started looks for an update at most once.
LEMMA PastUpdateStep ==
    ASSUME TypeOK, NestingInv, frame[1].pc \in PastUpdate, Next
    PROVE  frame'[1].pc \in PastUpdate
<1> USE BoundAssumption DEF PastUpdate, At, Self, TypeOK, NestingInv
<1>0. 1 \in 1..MaxDepth /\ PastUpdate \subseteq Locations
  BY DEF Locations
<1>1. CASE Announce \/ LoadAllModules \/ InitLogger
  BY <1>0, <1>1 DEF Announce, LoadAllModules, InitLogger, Jump, Become
<1>2. CASE ReadConfig
  BY <1>0, <1>2, ReadConfigEffect DEF ReadConfig
<1>3. CASE TryUpdate
  BY <1>0, <1>3 DEF TryUpdate, Jump, Become
<1>4. CASE TryRestartModule
  BY <1>0, <1>4, TryRestartEffect
<1>5. CASE SetPointers
  BY <1>0, <1>5, PointersEffect DEF SetPointers
<1>6. CASE DetectGame
  BY <1>0, <1>6, DetectGameEffect
<1>7. CASE WritePopup
  BY <1>0, <1>7, JumpEffect DEF WritePopup
<1>8. CASE ApplyGamePatches
  BY <1>0, <1>8, ApplyEffect DEF ApplyGamePatches
<1>9. CASE EndPatches
  BY <1>0, <1>9, JumpEffect DEF EndPatches
<1>10. CASE Leave
  BY <1>10 DEF Leave
<1>11. CASE Resident
  BY <1>11 DEF Resident, vars
<1> QED
  BY <1>1, <1>2, <1>3, <1>4, <1>5, <1>6, <1>7, <1>8, <1>9, <1>10, <1>11 DEF Next
===============================================================================
