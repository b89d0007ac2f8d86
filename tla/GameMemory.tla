------------------------------- MODULE GameMemory ------------------------------
(***************************************************************************)
(* What is written over a game, byte by byte, by each of the two ways to   *)
(* install Patchwork: the module, whose start fills in the sources and     *)
(* whose ApplyGamePatches copies them to the addresses of offsets.h, and   *)
(* the patch file the generator makes of the same routines and of the      *)
(* game definitions, which an emulator applies.                            *)
(*                                                                         *)
(* A byte is a tuple that tells a character of a string, a byte of the     *)
(* network key and a byte of an instruction apart.                         *)
(***************************************************************************)
EXTENDS Routines, SequencesExt

CONSTANTS
    Urls,       \* values of server_url, and of the servers' primary_url
    Digests,    \* values of digest_key, and of the servers' custom_digest
    JoinKeys,   \* values of join_key
    Versions    \* PATCHWORK_VERSION_MAJOR and _MINOR, each as its digits

\* From minor version 100 on a digit might come where the games are told apart.
ASSUME VersionsAssumption ==
    \A v \in Versions : /\ v.major \in Seq(STRING) /\ Len(v.major) = 1
                        /\ v.minor \in Seq(STRING) /\ Len(v.minor) \in {1, 2}
ASSUME StringsAssumption == Urls \cup Digests \cup JoinKeys \subseteq Seq(STRING)

VARIABLES
    game,       \* the game in memory
    installer,  \* "module" or "file"
    option,     \* the configuration, or the server chosen; a set of at most
                \* one value where an entry may be left out
    version,    \* the module's version
    pointer,    \* what ServerURL, ServerDigest, UserAgent and NetworkKey point
                \* at, those that are not NULL
    number,     \* what GetLBPGameNumber answered
    stage,      \* what start does next
    next,       \* index of the patch, or of the entry, to be applied next
    memory,     \* the bytes written, by their address
    cave,       \* the words put in memory the emulator has allocated
    request     \* the messages written to wm_request

vars == <<game, installer, option, version, pointer, number, stage, next,
          memory, cave, request>>

-------------------------------------------------------------------------------
(* The addresses and sizes of offsets.h.                                   *)

LBP_NETWORK_KEY_SIZE == 16
\* Wrong: the version is left as the game has it.
LBP_USER_AGENT_LENGTH_18 == 18

LBP_USER_AGENT_LENGTH == 22
\* Wrong: the fields are thought to be as far apart as LBP3's others.
LBP_PS3_PROD_URL_LENGTH_80 == 80

LBP_PS3_PROD_URL_LENGTH == 70
LBP_DIGEST_LENGTH == 18

Offset ==
    [LBP1 |-> [key |-> \h74C418, agent |-> \h79FDA0, https |-> \h767C40,
               http |-> \h767CF8, digest |-> \h79FBC0, playlist |-> \h74C2C0],
     LBP2 |-> [key |-> \hC248CC, agent |-> \hC36320, https |-> \hC51B68,
               http |-> \hC51C08, digest |-> \hC361D0,
               notification |-> \h23B398],
     LBP3 |-> [key |-> \hD9D21C, agent |-> \hD8BF50, https |-> \hD9E5D8,
               http |-> \hD9E4C4, digest |-> \hD8BD08,
               presence |-> \hD9E53C, live |-> \hD9E58C,
               notification |-> \h2C15D0],
     LBP3_JP |-> [key |-> \hD8305C, agent |-> \hD71DE8, https |-> \hD84338,
                  http |-> \hD84224, digest |-> \hD71BA0,
                  presence |-> \hD8429C, live |-> \hD842EC,
                  notification |-> \h2BF520]]

UrlSites(g) == DOMAIN Offset[g] \cap {"https", "http", "presence", "live"}

-------------------------------------------------------------------------------
(* Bytes.                                                                  *)

Nul == <<"char", "nul">>

Chars(string) == [i \in DOMAIN string |-> <<"char", string[i]>>]

\* Size bytes from the start of a C string: what follows its end is whatever
\* the buffer holds behind it.
Text(bytes, size) ==
    [k \in 0..(size - 1) |-> IF k < Len(bytes) THEN bytes[k + 1]
                             ELSE IF k = Len(bytes) THEN Nul
                             ELSE <<"behind", k>>]

Code(words) ==
    [k \in 0..(4 * Len(words) - 1) |-> <<"code", words[(k \div 4) + 1], k % 4>>]

Branch(word) == [k \in 0..3 |-> <<"branch", word, k>>]

\* The game's own bytes that are looked at: the user agent's that tell the
\* games apart, and the end of a digest as long as its field.
Original(address) ==
    CASE game = "LBP1" /\ address = Offset.LBP1.agent + 15 -> <<"char", "$">>
      [] game # "LBP1" /\ address = Offset[game].agent + 18 -> <<"char", "2">>
      [] address = Offset[game].digest + LBP_DIGEST_LENGTH -> Nul
      [] OTHER -> <<"game", address>>

Byte(address) == IF address \in DOMAIN memory THEN memory[address]
                                              ELSE Original(address)

Write(address, bytes) ==
    memory' = [a \in DOMAIN memory \cup {address + k : k \in DOMAIN bytes} |->
                 IF a - address \in DOMAIN bytes THEN bytes[a - address]
                                                 ELSE memory[a]]

-------------------------------------------------------------------------------
(* start, up to the patches.                                               *)

\* TrimEnd stops at the first character, be it whitespace or not.
TrimEnd(str) ==
    LET kept == {i \in DOMAIN str : i = 1 \/ str[i] # " "}
    IN  SubSeq(str, 1, IF kept = {} THEN 0 ELSE Max(kept))

At(here, then) == stage = here /\ stage' = then
Set(name, value) == pointer' = [n \in DOMAIN pointer \cup {name} |->
                                  IF n = name THEN value ELSE pointer[n]]

\* The 32 bytes of a digest; with no key it is the time's.
Digest(of) == [k \in 1..32 |-> <<"key", of, k>>]

\* Wrong: the key is taken as it was written.
CopyHashedJoinKeyUntrimmed(key) == Digest(key)

CopyHashedJoinKey(key) == Digest({TrimEnd(k) : k \in key})

SetKey ==
    /\ At("key", "url")
    /\ IF option.enable THEN Set("NetworkKey", CopyHashedJoinKey(option.key))
                        ELSE UNCHANGED pointer
    /\ UNCHANGED <<game, installer, option, version, number, next, memory, cave,
                   request>>

SetString(here, then, name, value) ==
    /\ At(here, then)
    /\ IF value = {} THEN UNCHANGED pointer
       ELSE \E string \in value : Set(name, Chars(TrimEnd(string)))
    /\ UNCHANGED <<game, installer, option, version, number, next, memory, cave,
                   request>>

SetServerURL == SetString("url", "digest", "ServerURL", option.url)
SetServerDigest == SetString("digest", "detect", "ServerDigest", option.digest)

GetLBPGameNumber ==
    CASE Byte(Offset.LBP1.agent + 15) = <<"char", "$">> -> "LBP1"
      [] Byte(Offset.LBP2.agent + 18) = <<"char", "2">> -> "LBP2"
      [] Byte(Offset.LBP3.agent + 18) = <<"char", "2">> -> "LBP3"
      [] Byte(Offset.LBP3_JP.agent + 18) = <<"char", "2">> -> "LBP3_JP"
      [] OTHER -> "unknown"

\* The table is chosen; a game that is not known is left alone.
DetectGame ==
    /\ stage = "detect"
    /\ number' = GetLBPGameNumber
    /\ stage' = IF number' = "unknown" THEN "done" ELSE "agent"
    /\ UNCHANGED <<game, installer, option, version, pointer, next, memory, cave,
                   request>>

Digit == [LBP1 |-> "1", LBP2 |-> "2", LBP3 |-> "3", LBP3_JP |-> "4"]

\* Snprintf of "PatchworkLBP%c %s.%s %s" into 64 bytes.
UserAgentText ==
    <<"P", "a", "t", "c", "h", "w", "o", "r", "k", "L", "B", "P", Digit[number],
      " ">> \o version.major \o <<".">> \o version.minor \o <<" ">>
    \o (IF option.enable THEN <<>> ELSE <<"N", "K">>)

SetUserAgent ==
    /\ At("agent", "announce")
    /\ Set("UserAgent",
           Chars(SubSeq(UserAgentText, 1, Min({Len(UserAgentText), 63}))))
    /\ UNCHANGED <<game, installer, option, version, number, next, memory, cave,
                   request>>

\* The texts, of which only the place of the X and the length matter: the three
\* lengths are without the version's.
Message(length) ==
    LET digits == Len(version.major) + 1 + Len(version.minor)
    IN  [i \in 1..(length + digits) |-> IF i = 45 + digits THEN "X" ELSE "m"]
SuccessMessageWithPw == Message(96)
SuccessMessageRandomPw == Message(103)
SuccessMessageWithoutPw == Message(93)

\* Wrong: nothing is gained by the alignment of the stack.
MessageBufferUnaligned == Len(SuccessMessageWithoutPw) + 1

\* What alloca reserves for the shortest message, the stack being kept aligned
\* to 16 bytes.
MessageBuffer == (((Len(SuccessMessageWithoutPw) + 1) + 15) \div 16) * 16

ReplaceNext(str, target, c) ==
    LET found == {i \in DOMAIN str : str[i] = target}
    IN  IF found = {} THEN str ELSE [str EXCEPT ![Min(found)] = c]

\* WriteFile's failure is not looked at.
Announce ==
    /\ At("announce", "apply")
    /\ LET text == CASE ~option.enable -> SuccessMessageWithoutPw
                     [] option.enable /\ option.key # {} -> SuccessMessageWithPw
                     [] OTHER -> SuccessMessageRandomPw
       IN  \/ request' = Append(request, ReplaceNext(text, "X", Digit[number]))
           \/ UNCHANGED request
    /\ UNCHANGED <<game, installer, option, version, pointer, number, next,
                   memory, cave>>

-------------------------------------------------------------------------------
(* The tables of patches.c.                                                *)

Indirect(offset, source, size) ==
    [offset |-> offset, type |-> "INDIRECT", source |-> source, size |-> size]
Direct(offset, bytes) == [offset |-> offset, type |-> "DIRECT", bytes |-> bytes]

UrlPatch(g, site) == Indirect(Offset[g][site], "ServerURL", LBP_PS3_PROD_URL_LENGTH)

Patches(g) ==
    <<Indirect(Offset[g].key, "NetworkKey", LBP_NETWORK_KEY_SIZE),
      Indirect(Offset[g].agent, "UserAgent", LBP_USER_AGENT_LENGTH),
      UrlPatch(g, "https"), UrlPatch(g, "http")>>
    \o (IF "live" \in UrlSites(g)
        THEN <<UrlPatch(g, "presence"), UrlPatch(g, "live")>> ELSE <<>>)
    \o <<Indirect(Offset[g].digest, "ServerDigest", LBP_DIGEST_LENGTH),
         CASE g = "LBP1" -> Direct(Offset[g].playlist, [k \in {0} |-> <<"data", 1>>])
           [] g = "LBP2" -> Direct(Offset[g].notification, Code(<<Li("r0", 0)>>))
           [] OTHER -> Direct(Offset[g].notification, Code(<<Li("r3", 0)>>)),
         Direct(ResourceCheck[g],
                Branch(RelativeBranch(HookAddress[g], ResourceCheck[g]))),
         Direct(ForceJoinAddress[g],
                Code(SubSeq(ForceJoin[g], 1, ForceJoinLength[g] \div 4)))>>

\* The table goes on; an entry without an offset would end it.
More == /\ next <= Len(Patches(number))
        /\ Patches(number)[next].offset # 0

\* One round of ApplyGamePatches.
ApplyPatch ==
    /\ stage = "apply" /\ More
    /\ LET patch == Patches(number)[next]
       IN  \/ /\ patch.type = "INDIRECT" /\ patch.source \in DOMAIN pointer
              /\ Write(patch.offset, Text(pointer[patch.source], patch.size))
           \/ /\ patch.type = "INDIRECT" /\ patch.source \notin DOMAIN pointer
              /\ UNCHANGED memory
           \/ patch.type = "DIRECT" /\ Write(patch.offset, patch.bytes)
    /\ next' = next + 1
    /\ UNCHANGED <<game, installer, option, version, pointer, number, stage, cave,
                   request>>

Finish ==
    /\ At("apply", "done") /\ ~More
    /\ UNCHANGED <<game, installer, option, version, pointer, number, next,
                   memory, cave, request>>

-------------------------------------------------------------------------------
(* The patch file.                                                         *)

\* What lbpdefs says of each game; the lengths are in words.
LBP1Definition ==
    [agent |-> \h79FDA0, http |-> \h767CF8, https |-> \h767C40, digest |-> \h79FBC0,
     join |-> \h3ab70c, length |-> 16, check |-> \h81BC8, digit |-> "1"]

LBP2Definition ==
    [agent |-> \hC36320, http |-> \hC51C08, https |-> \hC51B68, digest |-> \hC361D0,
     join |-> \h285fb8, length |-> 30, check |-> \h153D74, digit |-> "2"]

LBP3Definition ==
    [agent |-> \hD8BF50, http |-> \hD9E4C4, https |-> \hD9E5D8, digest |-> \hD8BD08,
     live |-> \hD842EC, presence |-> \hD8429C,
     join |-> \h285fb8, length |-> 28, check |-> \h1CFC6C, digit |-> "3"]

LBP3JPDefinition ==
    [agent |-> \hD71DE8, http |-> \hD84224, https |-> \hD84338, digest |-> \hD71BA0,
     live |-> \hD842EC, presence |-> \hD8429C,
     join |-> \h301e34, length |-> 28, check |-> \h1CFB08, digit |-> "3"]

Definition == [LBP1 |-> LBP1Definition, LBP2 |-> LBP2Definition,
               LBP3 |-> LBP3Definition, LBP3_JP |-> LBP3JPDefinition]

\* The section the symbols are looked up in: the routines, one after the other.
Order == <<"LBP1", "LBP2", "LBP3", "LBP3_JP">>
Sections == [i \in 1..4 |-> ForceJoin[Order[i]]]
            \o [i \in 1..4 |-> ScriptHook[Order[i]]]
TextSection == FlattenSeq(Sections)
Symbol(n) == 1 + Len(FlattenSeq(SubSeq(Sections, 1, n - 1)))
Rank(g) == CHOOSE i \in 1..4 : Order[i] = g

\* Wrong: it does not stop before the section's last.
GetHookToLast(start) ==
    SubSeq(TextSection, start,
           Max({i \in DOMAIN TextSection : TextSection[i].op = "ba"}))

\* Wrong: a linked branch counts as an end of the hook.
GetHookLinked(start) ==
    LET ends == {i \in start..Len(TextSection) :
                   TextSection[i].op \in {"ba", "call"}}
    IN  SubSeq(TextSection, start, Min(ends \ {Min(ends)}))

\* GetHook reads up to the second absolute branch that is not linked: a hook
\* leaves by one for each of the two ways the check can go.  What it takes for
\* one is any even word with the bits of the mask 0x48000002; the branches are
\* the only such words of the hooks.
GetHook(start) ==
    LET ends == {i \in start..Len(TextSection) : TextSection[i].op = "ba"}
    IN  SubSeq(TextSection, start, Min(ends \ {Min(ends)}))

Be32(address, word) == [type |-> "be32", address |-> address, word |-> word]
CUtf8(address, string) ==
    [type |-> "cutf8", address |-> address, string |-> string]

MakeOverwritePatch(address, words) ==
    [i \in DOMAIN words |-> Be32(address + 4 * (i - 1), words[i])]
MakeCodePatch(address, words) ==
    <<[type |-> "calloc", address |-> address]>>
    \o [i \in DOMAIN words |-> Be32(0, words[i])]

\* The combined patch of a game, and the patch of a server for it.
MakePatches ==
    LET d == Definition[game]
        join == Symbol(Rank(game))
        primary == CHOOSE url \in Urls : url \in option.url
        https == IF option.https = {} THEN primary
                 ELSE CHOOSE url \in Urls : url \in option.https
    IN  MakeOverwritePatch(d.join, SubSeq(TextSection, join, join + d.length - 1))
        \o MakeCodePatch(d.check, GetHook(Symbol(4 + Rank(game))))
        \o <<CUtf8(d.agent, <<"P", "a", "t", "c", "h", "w", "o", "r", "k", "L",
                              "B", "P", d.digit, " ", "2", ".", "0">>),
             CUtf8(d.http, primary), CUtf8(d.https, https)>>
        \o (IF "live" \in DOMAIN d
            THEN <<CUtf8(d.live, primary), CUtf8(d.presence, primary)>> ELSE <<>>)
        \o SetToSeq({CUtf8(d.digest, digest) : digest \in option.digest})

\* The emulator goes through the entries: a string is written with its end, a
\* calloc puts a branch to new memory at its address, and the words without an
\* address follow each other there.
ApplyEntry ==
    /\ stage = "file"
    /\ \E entries \in {MakePatches} :
         /\ LET entry == entries[next]
            IN  \/ /\ entry.type = "be32" /\ entry.address # 0
                   /\ Write(entry.address, Code(<<entry.word>>))
                   /\ UNCHANGED cave
                \/ /\ entry.type = "be32" /\ entry.address = 0
                   /\ cave' = Append(cave, entry.word)
                   /\ UNCHANGED memory
                \/ /\ entry.type = "calloc"
                   /\ Write(entry.address, [k \in 0..3 |-> <<"cave", k>>])
                   /\ cave' = <<>>
                \/ /\ entry.type = "cutf8"
                   /\ Write(entry.address,
                            Text(Chars(entry.string), Len(entry.string) + 1))
                   /\ UNCHANGED cave
         /\ stage' = IF next = Len(entries) THEN "done" ELSE stage
    /\ next' = next + 1
    /\ UNCHANGED <<game, installer, option, version, pointer, number, request>>

-------------------------------------------------------------------------------
\* At most one value.
Optional(S) == {{}} \cup {{x} : x \in S}

Configurations ==
    [enable : BOOLEAN, key : Optional(JoinKeys), url : Optional(Urls),
     digest : Optional(Digests), https : {{}}]
Servers ==
    [enable : {FALSE}, key : {{}}, url : {{x} : x \in Urls},
     digest : Optional(Digests), https : Optional(Urls)]

Init ==
    /\ game \in Games
    /\ \/ installer = "module" /\ option \in Configurations /\ stage = "key"
          /\ version \in Versions
       \/ installer = "file" /\ option \in Servers /\ stage = "file"
          /\ version = [major |-> <<"2">>, minor |-> <<"0">>]
    /\ pointer = [n \in {} |-> <<>>]
    /\ number = "unknown" /\ next = 1
    /\ memory = [a \in {} |-> Nul]
    /\ cave = <<>> /\ request = <<>>

\* start has returned, or the game runs in the emulator.
Installed == stage = "done" /\ UNCHANGED vars

Next == \/ SetKey \/ SetServerURL \/ SetServerDigest \/ DetectGame
        \/ SetUserAgent \/ Announce \/ ApplyPatch \/ Finish
        \/ ApplyEntry \/ Installed

Spec == Init /\ [][Next]_vars

-------------------------------------------------------------------------------
(* Safety.                                                                 *)

Pointers == {"ServerURL", "ServerDigest", "UserAgent", "NetworkKey"}

TypeOK ==
    /\ number \in KnownGames \cup {"unknown"}
    /\ stage \in {"key", "url", "digest", "detect", "agent", "announce", "apply",
                  "file", "done"}
    /\ DOMAIN pointer \subseteq Pointers
    /\ \A n \in DOMAIN pointer : Len(pointer[n]) <= IF n = "NetworkKey" THEN 32
                                                   ELSE 311
    /\ \A a \in DOMAIN memory : a \in Nat /\ 0 < a /\ a <= \hFFFFFF
    /\ Len(cave) <= 9 /\ Len(request) <= 1

\* Two strings, keys or fixes never share a byte: what one has written stays,
\* though the sizes are constants and the addresses were found one by one
\* (offsets.h:5-62).
NothingOverwritten ==
    [][\A address \in DOMAIN memory :
          memory'[address] = memory[address]]_vars

\* What the game makes of a string at an address.
ReadsAs(address, string) ==
    /\ \A i \in DOMAIN string : Byte(address + i - 1) = <<"char", string[i]>>
    /\ Byte(address + Len(string)) = Nul
Untouched(address, size) ==
    \A k \in 0..(size - 1) : address + k \notin DOMAIN memory

\* The string without the whitespace at its end; one of nothing else keeps one
\* character of it.
Trimmed(string, trimmed) ==
    \E n \in 0..Len(string) :
        /\ trimmed = SubSeq(string, 1, n)
        /\ \A i \in (n + 1)..Len(string) : string[i] = " "
        /\ n > 1 => string[n] # " "
        /\ n = 0 => string = <<>>

Wanted(site) == CASE site = "digest" -> option.digest
                  [] site = "https" /\ option.https # {} -> option.https
                  [] OTHER -> option.url
Size(site) == IF site = "digest" THEN LBP_DIGEST_LENGTH + 1
                                 ELSE LBP_PS3_PROD_URL_LENGTH

\* lbp3.yaml has the addresses of another version for these two.
Misplaced(site) == installer = "file" /\ game = "LBP3" /\ site \in {"live", "presence"}

\* The game gets the digest of the key without the whitespace at its end, or its
\* own key stays if keys are off.
KeyArrives ==
    LET address == Offset[game].key
    IN  IF ~option.enable THEN Untouched(address, LBP_NETWORK_KEY_SIZE)
        ELSE \E of \in Optional(UNION {{SubSeq(k, 1, n) : n \in 0..Len(k)} :
                                       k \in option.key}) :
                /\ of = {} <=> option.key = {}
                /\ \A k \in option.key, t \in of : Trimmed(k, t)
                /\ \A i \in 1..LBP_NETWORK_KEY_SIZE :
                      Byte(address + i - 1) = <<"key", of, i>>

\* Every URL and the digest the game reads is the one that was configured, without
\* the whitespace a text editor leaves at its end, and ends where it should: the
\* module copies a fixed number of bytes, which may hold no end (patches.c:74).
\* One that is not configured is the game's own.  Two players whose join keys
\* differ in whitespace at their ends meet (prx.c:44-47).
SettingsArrive ==
    stage = "done" =>
        /\ \A site \in UrlSites(game) \cup {"digest"} :
            LET address == Offset[game][site]
                wanted == Wanted(site)
            IN  /\ wanted = {} => Untouched(address, Size(site))
                /\ ~Misplaced(site) =>
                      \A string \in wanted :
                          \E n \in 0..Len(string) :
                              LET arrived == SubSeq(string, 1, n)
                              IN  /\ installer = "module" => Trimmed(string, arrived)
                                  /\ installer = "file" => arrived = string
                                  /\ n < Size(site) => ReadsAs(address, arrived)
        /\ installer = "module" => KeyArrives

\* A game is detected, and one that has been patched is not detected again: its
\* user agent differs in the one byte that is looked at (patches.c:84-90), which
\* is what start counts on when it has restarted itself.
DetectionHidden ==
    installer = "module" =>
        /\ stage \in {"agent", "announce", "apply", "done"} => number = game
        /\ stage = "done" => GetLBPGameNumber = "unknown"

\* The popup fits in a buffer that was made for the shortest of its texts
\* (prx.c:174), and names the game the user agent does (prx.c:167, 186).
Announced ==
    \A i \in DOMAIN request :
        /\ Len(request[i]) + 1 <= MessageBuffer
        /\ \E k \in DOMAIN request[i] : request[i][k] = Digit[game]
        /\ stage = "done" => Byte(Offset[game].agent + 12) = <<"char", Digit[game]>>

\* Both fixes are in the game whole, the routine over the game's own code and the
\* hook where the check goes: for the module behind a branch to where it was
\* loaded, for the file in the emulator's memory, cut out of the section at its
\* second absolute branch (hooks.go:26-31).
FixesInPlace ==
    stage = "done" =>
        LET join == IF installer = "module" THEN ForceJoinAddress[game]
                                            ELSE Definition[game].join
            routine == Code(ForceJoin[game])
        IN  /\ \A k \in DOMAIN routine : Byte(join + k) = routine[k]
            /\ installer = "module" =>
                  \E word \in {Byte(ResourceCheck[game])[2]} :
                      /\ \A k \in 0..3 :
                            Byte(ResourceCheck[game] + k) = <<"branch", word, k>>
                      /\ BranchTarget(word, ResourceCheck[game]) = HookAddress[game]
            /\ installer = "file" =>
                  /\ \A k \in 0..3 : Byte(ResourceCheck[game] + k) = <<"cave", k>>
                  /\ cave = ScriptHook[game]

-------------------------------------------------------------------------------
(* What the comments say.                                                  *)

\* "Start address" of the routine (forcejoin-patch.s:7, 32, 75, 115): what the
\* file puts over the game's code is there.
JoinAtStartAddress ==
    stage = "done" =>
        Byte(ForceJoinAddress[game]) = Code(ForceJoin[game])[0]
===============================================================================
