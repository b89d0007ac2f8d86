------------------------------ MODULE MemoryProofs -----------------------------
(***************************************************************************)
(* Proofs about GameMemory: which bytes are written where, entry by entry, *)
(* and what they leave for the game to read.                               *)
(***************************************************************************)
EXTENDS GameMemory, RoutinesProofs, WellFoundedInduction

-------------------------------------------------------------------------------
(* The tables of patches.c.                                                *)

\* The entries of each table, and where they begin and how much they write.
Entries(g) == IF g \in {"LBP1", "LBP2"} THEN 8 ELSE 10

Starts ==
    [LBP1 |-> <<\h74C418, \h79FDA0, \h767C40, \h767CF8, \h79FBC0, \h74C2C0,
                \h81BC8, \h3ab70c>>,
     LBP2 |-> <<\hC248CC, \hC36320, \hC51B68, \hC51C08, \hC361D0, \h23B398,
                \h153D74, \h285fb8>>,
     LBP3 |-> <<\hD9D21C, \hD8BF50, \hD9E5D8, \hD9E4C4, \hD9E53C, \hD9E58C,
                \hD8BD08, \h2C15D0, \h1CFC6C, \h30561c>>,
     LBP3_JP |-> <<\hD8305C, \hD71DE8, \hD84338, \hD84224, \hD8429C, \hD842EC,
                   \hD71BA0, \h2BF520, \h1CFB08, \h301e34>>]

Sizes ==
    [LBP1 |-> <<16, 22, 70, 70, 18, 1, 4, 64>>,
     LBP2 |-> <<16, 22, 70, 70, 18, 4, 4, 120>>,
     LBP3 |-> <<16, 22, 70, 70, 70, 70, 18, 4, 4, 112>>,
     LBP3_JP |-> <<16, 22, 70, 70, 70, 70, 18, 4, 4, 112>>]

\* No two entries of a table share an address.
Apart(g) ==
    \A i, j \in 1 .. Entries(g) :
        /\ Starts[g][i] \in Nat /\ Starts[g][i] > 0 /\ Sizes[g][i] \in 1 .. 120
        /\ Starts[g][i] + Sizes[g][i] < \hFFFFFF
        /\ i # j => \/ Starts[g][i] + Sizes[g][i] <= Starts[g][j]
                    \/ Starts[g][j] + Sizes[g][j] <= Starts[g][i]

LEMMA StartsApart == \A g \in KnownGames : Apart(g)
<1>1. Apart("LBP1")
  BY SMT DEF Apart, Starts, Sizes, Entries
<1>2. Apart("LBP2")
  BY SMT DEF Apart, Starts, Sizes, Entries
<1>3. Apart("LBP3")
  BY SMT DEF Apart, Starts, Sizes, Entries
<1>4. Apart("LBP3_JP")
  BY SMT DEF Apart, Starts, Sizes, Entries
<1> QED
  BY <1>1, <1>2, <1>3, <1>4, Zenon DEF KnownGames

\* The bytes of the last three entries.
FixBytes(g) ==
    CASE g = "LBP1" -> [k \in {0} |-> <<"data", 1>>]
      [] g = "LBP2" -> Code(<<Li("r0", 0)>>)
      [] OTHER -> Code(<<Li("r3", 0)>>)
CheckBytes(g) == Branch(RelativeBranch(HookAddress[g], ResourceCheck[g]))
JoinBytes(g) == Code(SubSeq(ForceJoin[g], 1, ForceJoinLength[g] \div 4))

\* Where each source goes, by the number of the entry.
Source(g, i) ==
    CASE i = 1 -> "NetworkKey"
      [] i = 2 -> "UserAgent"
      [] i > 2 /\ i < Entries(g) - 3 -> "ServerURL"
      [] i = Entries(g) - 3 -> "ServerDigest"

\* Sequences of four and four, and of two between them.
LEMMA Joined ==
    ASSUME NEW a, NEW b, NEW c, NEW d, NEW e, NEW f, NEW h, NEW i
    PROVE  LET t == <<a, b, c, d>> \o <<>> \o <<e, f, h, i>>
           IN  /\ Len(t) = 8
               /\ t[1] = a /\ t[2] = b /\ t[3] = c /\ t[4] = d
               /\ t[5] = e /\ t[6] = f /\ t[7] = h /\ t[8] = i
  BY SMT

LEMMA JoinedLive ==
    ASSUME NEW a, NEW b, NEW c, NEW d, NEW e, NEW f, NEW h, NEW i, NEW x, NEW y
    PROVE  LET t == <<a, b, c, d>> \o <<x, y>> \o <<e, f, h, i>>
           IN  /\ Len(t) = 10
               /\ t[1] = a /\ t[2] = b /\ t[3] = c /\ t[4] = d
               /\ t[5] = x /\ t[6] = y
               /\ t[7] = e /\ t[8] = f /\ t[9] = h /\ t[10] = i
  BY SMT

LEMMA Sites ==
    /\ "live" \notin UrlSites("LBP1") /\ "live" \notin UrlSites("LBP2")
    /\ "live" \in UrlSites("LBP3") /\ "live" \in UrlSites("LBP3_JP")
  BY SMT DEF UrlSites, Offset

\* The first four entries and the last four, whatever is between.
LEMMA TableOf ==
    ASSUME NEW g \in KnownGames
    PROVE  LET t == Patches(g)
               n == Entries(g)
           IN  /\ Len(t) = n
               /\ t[1] = Indirect(Offset[g].key, "NetworkKey", LBP_NETWORK_KEY_SIZE)
               /\ t[2] = Indirect(Offset[g].agent, "UserAgent", LBP_USER_AGENT_LENGTH)
               /\ t[3] = Indirect(Offset[g].https, "ServerURL", LBP_PS3_PROD_URL_LENGTH)
               /\ t[4] = Indirect(Offset[g].http, "ServerURL", LBP_PS3_PROD_URL_LENGTH)
               /\ g \in {"LBP3", "LBP3_JP"} =>
                    /\ t[5] = Indirect(Offset[g].presence, "ServerURL", LBP_PS3_PROD_URL_LENGTH)
                    /\ t[6] = Indirect(Offset[g].live, "ServerURL", LBP_PS3_PROD_URL_LENGTH)
               /\ t[n - 3] = Indirect(Offset[g].digest, "ServerDigest", LBP_DIGEST_LENGTH)
               /\ t[n - 2] = Direct(IF g = "LBP1" THEN Offset[g].playlist
                                    ELSE Offset[g].notification, FixBytes(g))
               /\ t[n - 1] = Direct(ResourceCheck[g], CheckBytes(g))
               /\ t[n] = Direct(ForceJoinAddress[g], JoinBytes(g))
<1> DEFINE fix == CASE g = "LBP1" -> Direct(Offset[g].playlist, [k \in {0} |-> <<"data", 1>>])
                    [] g = "LBP2" -> Direct(Offset[g].notification, Code(<<Li("r0", 0)>>))
                    [] OTHER -> Direct(Offset[g].notification, Code(<<Li("r3", 0)>>))
           a == Indirect(Offset[g].key, "NetworkKey", LBP_NETWORK_KEY_SIZE)
           b == Indirect(Offset[g].agent, "UserAgent", LBP_USER_AGENT_LENGTH)
           c == Indirect(Offset[g].https, "ServerURL", LBP_PS3_PROD_URL_LENGTH)
           d == Indirect(Offset[g].http, "ServerURL", LBP_PS3_PROD_URL_LENGTH)
           x == Indirect(Offset[g].presence, "ServerURL", LBP_PS3_PROD_URL_LENGTH)
           y == Indirect(Offset[g].live, "ServerURL", LBP_PS3_PROD_URL_LENGTH)
           e == Indirect(Offset[g].digest, "ServerDigest", LBP_DIGEST_LENGTH)
           h == Direct(ResourceCheck[g], CheckBytes(g))
           i == Direct(ForceJoinAddress[g], JoinBytes(g))
<1>1. fix = Direct(IF g = "LBP1" THEN Offset[g].playlist
                                    ELSE Offset[g].notification, FixBytes(g))
  <2>1. CASE g = "LBP1"
    BY <2>1, Zenon DEF FixBytes
  <2>2. CASE g = "LBP2"
    BY <2>2, SMT DEF FixBytes
  <2>3. CASE g # "LBP1" /\ g # "LBP2"
    BY <2>3, Zenon DEF FixBytes
  <2> QED
    BY <2>1, <2>2, <2>3
<1>2. UrlPatch(g, "https") = c /\ UrlPatch(g, "http") = d
      /\ UrlPatch(g, "presence") = x /\ UrlPatch(g, "live") = y
  BY Zenon DEF UrlPatch
<1>3. Patches(g) = <<a, b, c, d>>
                   \o (IF "live" \in UrlSites(g) THEN <<x, y>> ELSE <<>>)
                   \o <<e, fix, h, i>>
  BY <1>2, Zenon DEF Patches, CheckBytes, JoinBytes
<1> HIDE DEF a, b, c, d, x, y, e, fix, h, i
<1>4. CASE g \in {"LBP1", "LBP2"}
  <2> DEFINE t == <<a, b, c, d>> \o <<>> \o <<e, fix, h, i>>
  <2>1. Patches(g) = t
    BY <1>3, <1>4, Sites, Zenon
  <2>2. /\ Len(t) = 8 /\ t[1] = a /\ t[2] = b /\ t[3] = c /\ t[4] = d
        /\ t[5] = e /\ t[6] = fix /\ t[7] = h /\ t[8] = i
    BY Joined
  <2> HIDE DEF t
  <2>3. /\ Entries(g) = 8 /\ Entries(g) - 3 = 5 /\ Entries(g) - 2 = 6
        /\ Entries(g) - 1 = 7 /\ g \notin {"LBP3", "LBP3_JP"}
    BY <1>4, SMT DEF Entries
  <2> QED
    BY <1>1, <2>1, <2>2, <2>3, Zenon DEF a, b, c, d, e, h, i
<1>5. CASE g \in {"LBP3", "LBP3_JP"}
  <2> DEFINE t == <<a, b, c, d>> \o <<x, y>> \o <<e, fix, h, i>>
  <2>1. Patches(g) = t
    BY <1>3, <1>5, Sites, Zenon
  <2>2. /\ Len(t) = 10 /\ t[1] = a /\ t[2] = b /\ t[3] = c /\ t[4] = d
        /\ t[5] = x /\ t[6] = y
        /\ t[7] = e /\ t[8] = fix /\ t[9] = h /\ t[10] = i
    BY JoinedLive
  <2> HIDE DEF t
  <2>3. /\ Entries(g) = 10 /\ Entries(g) - 3 = 7 /\ Entries(g) - 2 = 8
        /\ Entries(g) - 1 = 9
    BY <1>5, SMT DEF Entries
  <2> QED
    BY <1>1, <2>1, <2>2, <2>3, Zenon DEF a, b, c, d, x, y, e, h, i
<1> QED
  BY <1>4, <1>5, Zenon DEF KnownGames

\* What the entries after the first ones are, and what they write.
DirectBytes(g, i) == CASE i = Entries(g) - 2 -> FixBytes(g)
                       [] i = Entries(g) - 1 -> CheckBytes(g)
                       [] i = Entries(g) -> JoinBytes(g)

LEMMA CodeSize ==
    ASSUME NEW words, Len(words) \in Nat
    PROVE  DOMAIN Code(words) = 0 .. (4 * Len(words) - 1)
  BY DEF Code

LEMMA DirectSizes ==
    ASSUME NEW g \in KnownGames, NEW i \in (Entries(g) - 2) .. Entries(g)
    PROVE  DOMAIN DirectBytes(g, i) = 0 .. (Sizes[g][i] - 1)
<1>1. Len(<<Li("r0", 0)>>) = 1 /\ Len(<<Li("r3", 0)>>) = 1
  BY SMT
<1>2. DOMAIN FixBytes(g) = IF g = "LBP1" THEN 0 .. 0 ELSE 0 .. 3
  <2>1. CASE g = "LBP1"
    <3>1. FixBytes(g) = [k \in {0} |-> <<"data", 1>>]
      BY <2>1, Zenon DEF FixBytes
    <3>2. DOMAIN FixBytes(g) = {0}
      BY <3>1, Zenon
    <3> QED
      BY <2>1, <3>2, SMT
  <2>2. CASE g # "LBP1"
    <3>1. FixBytes(g) = Code(<<Li("r0", 0)>>) \/ FixBytes(g) = Code(<<Li("r3", 0)>>)
      BY <2>2 DEF FixBytes
    <3>2. DOMAIN FixBytes(g) = 0 .. (4 * 1 - 1)
      BY <1>1, <3>1, CodeSize
    <3> QED
      BY <2>2, <3>2, SMT
  <2> QED
    BY <2>1, <2>2
<1>3. DOMAIN CheckBytes(g) = 0 .. 3
  BY Zenon DEF CheckBytes, Branch
<1>4. DOMAIN JoinBytes(g) = 0 .. (4 * (ForceJoinLength[g] \div 4) - 1)
  <2>1. PICK S : ForceJoin[g] \in Seq(S)
    BY JoinWhole
  <2>2. Len(SubSeq(ForceJoin[g], 1, ForceJoinLength[g] \div 4))
          = ForceJoinLength[g] \div 4
        /\ ForceJoinLength[g] \div 4 \in Nat
    BY <2>1, JoinWhole, Whole
  <2> QED
    BY <2>2, CodeSize DEF JoinBytes
<1>5. CASE g = "LBP1"
  <2>1. /\ Entries(g) = 8 /\ Sizes[g][6] = 1 /\ Sizes[g][7] = 4 /\ Sizes[g][8] = 64
        /\ ForceJoinLength[g] \div 4 = 16
    BY <1>5, SMT DEF Entries, Sizes, ForceJoinLength
  <2>2. /\ DirectBytes(g, 6) = FixBytes(g) /\ DirectBytes(g, 7) = CheckBytes(g)
        /\ DirectBytes(g, 8) = JoinBytes(g) /\ i \in 6 .. 8
    BY <2>1, SMT DEF DirectBytes
  <2>3. DOMAIN DirectBytes(g, 6) = 0 .. (Sizes[g][6] - 1)
    BY <1>2, <1>5, <2>1, <2>2, SMT
  <2>4. DOMAIN DirectBytes(g, 7) = 0 .. (Sizes[g][7] - 1)
    BY <1>3, <2>1, <2>2, SMT
  <2>5. DOMAIN DirectBytes(g, 8) = 0 .. (Sizes[g][8] - 1)
    <3>1. DOMAIN JoinBytes(g) = 0 .. (4 * 16 - 1)
      BY <1>4, <2>1, Zenon
    <3>2. 4 * 16 - 1 = 64 - 1
      BY SMT
    <3> QED
      BY <2>1, <2>2, <3>1, <3>2, Zenon
  <2>6. i = 6 \/ i = 7 \/ i = 8
    BY <2>2, SMT
  <2> QED
    BY <2>2, <2>3, <2>4, <2>5, <2>6
<1>6. CASE g = "LBP2"
  <2>1. /\ Entries(g) = 8 /\ Sizes[g][6] = 4 /\ Sizes[g][7] = 4 /\ Sizes[g][8] = 120
        /\ ForceJoinLength[g] \div 4 = 30
    BY <1>6, SMT DEF Entries, Sizes, ForceJoinLength
  <2>2. /\ DirectBytes(g, 6) = FixBytes(g) /\ DirectBytes(g, 7) = CheckBytes(g)
        /\ DirectBytes(g, 8) = JoinBytes(g) /\ i \in 6 .. 8
    BY <2>1, SMT DEF DirectBytes
  <2>3. DOMAIN DirectBytes(g, 6) = 0 .. (Sizes[g][6] - 1)
    BY <1>2, <1>6, <2>1, <2>2, SMT
  <2>4. DOMAIN DirectBytes(g, 7) = 0 .. (Sizes[g][7] - 1)
    BY <1>3, <2>1, <2>2, SMT
  <2>5. DOMAIN DirectBytes(g, 8) = 0 .. (Sizes[g][8] - 1)
    <3>1. DOMAIN JoinBytes(g) = 0 .. (4 * 30 - 1)
      BY <1>4, <2>1, Zenon
    <3>2. 4 * 30 - 1 = 120 - 1
      BY SMT
    <3> QED
      BY <2>1, <2>2, <3>1, <3>2, Zenon
  <2>6. i = 6 \/ i = 7 \/ i = 8
    BY <2>2, SMT
  <2> QED
    BY <2>2, <2>3, <2>4, <2>5, <2>6
<1>7. CASE g \in {"LBP3", "LBP3_JP"}
  <2>1. /\ Entries(g) = 10 /\ Sizes[g][8] = 4 /\ Sizes[g][9] = 4 /\ Sizes[g][10] = 112
        /\ ForceJoinLength[g] \div 4 = 28 /\ g # "LBP1"
    BY <1>7, SMT DEF Entries, Sizes, ForceJoinLength
  <2>2. /\ DirectBytes(g, 8) = FixBytes(g) /\ DirectBytes(g, 9) = CheckBytes(g)
        /\ DirectBytes(g, 10) = JoinBytes(g) /\ i \in 8 .. 10
    BY <2>1, SMT DEF DirectBytes
  <2>3. DOMAIN DirectBytes(g, 8) = 0 .. (Sizes[g][8] - 1)
    BY <1>2, <1>7, <2>1, <2>2, SMT
  <2>4. DOMAIN DirectBytes(g, 9) = 0 .. (Sizes[g][9] - 1)
    BY <1>3, <2>1, <2>2, SMT
  <2>5. DOMAIN DirectBytes(g, 10) = 0 .. (Sizes[g][10] - 1)
    <3>1. DOMAIN JoinBytes(g) = 0 .. (4 * 28 - 1)
      BY <1>4, <2>1, Zenon
    <3>2. 4 * 28 - 1 = 112 - 1
      BY SMT
    <3> QED
      BY <2>1, <2>2, <3>1, <3>2, Zenon
  <2>6. i = 8 \/ i = 9 \/ i = 10
    BY <2>2, SMT
  <2> QED
    BY <2>2, <2>3, <2>4, <2>5, <2>6
<1> QED
  BY <1>5, <1>6, <1>7 DEF KnownGames

\* Each entry by its number.
LEMMA EntryIs ==
    ASSUME NEW g \in KnownGames, NEW i \in 1 .. Entries(g)
    PROVE  /\ Len(Patches(g)) = Entries(g)
           /\ Patches(g)[i].offset = Starts[g][i]
           /\ IF i <= Entries(g) - 3
              THEN /\ Patches(g)[i].type = "INDIRECT"
                   /\ Patches(g)[i].source = Source(g, i)
                   /\ Patches(g)[i].size = Sizes[g][i]
              ELSE /\ Patches(g)[i].type = "DIRECT"
                   /\ Patches(g)[i].bytes = DirectBytes(g, i)
<1> DEFINE t == Patches(g)
<1>1. \A offset, source, size :
        /\ Indirect(offset, source, size).offset = offset
        /\ Indirect(offset, source, size).type = "INDIRECT"
        /\ Indirect(offset, source, size).source = source
        /\ Indirect(offset, source, size).size = size
  BY Zenon DEF Indirect
<1>2. \A offset, bytes :
        /\ Direct(offset, bytes).offset = offset
        /\ Direct(offset, bytes).type = "DIRECT"
        /\ Direct(offset, bytes).bytes = bytes
  BY Zenon DEF Direct
<1>3. /\ Len(t) = Entries(g)
      /\ t[1] = Indirect(Offset[g].key, "NetworkKey", LBP_NETWORK_KEY_SIZE)
      /\ t[2] = Indirect(Offset[g].agent, "UserAgent", LBP_USER_AGENT_LENGTH)
      /\ t[3] = Indirect(Offset[g].https, "ServerURL", LBP_PS3_PROD_URL_LENGTH)
      /\ t[4] = Indirect(Offset[g].http, "ServerURL", LBP_PS3_PROD_URL_LENGTH)
      /\ g \in {"LBP3", "LBP3_JP"} =>
           /\ t[5] = Indirect(Offset[g].presence, "ServerURL", LBP_PS3_PROD_URL_LENGTH)
           /\ t[6] = Indirect(Offset[g].live, "ServerURL", LBP_PS3_PROD_URL_LENGTH)
      /\ t[Entries(g) - 3] = Indirect(Offset[g].digest, "ServerDigest", LBP_DIGEST_LENGTH)
      /\ t[Entries(g) - 2] = Direct(IF g = "LBP1" THEN Offset[g].playlist
                                    ELSE Offset[g].notification, FixBytes(g))
      /\ t[Entries(g) - 1] = Direct(ResourceCheck[g], CheckBytes(g))
      /\ t[Entries(g)] = Direct(ForceJoinAddress[g], JoinBytes(g))
  BY TableOf
<1> HIDE DEF t
<1>4. CASE g = "LBP1"
  <2>1. /\ Entries(g) = 8
        /\ Offset[g].key = Starts[g][1] /\ Offset[g].agent = Starts[g][2]
        /\ Offset[g].https = Starts[g][3] /\ Offset[g].http = Starts[g][4]
        /\ Offset[g].digest = Starts[g][5] /\ Offset[g].playlist = Starts[g][6]
        /\ ResourceCheck[g] = Starts[g][7] /\ ForceJoinAddress[g] = Starts[g][8]
        /\ Sizes[g][1] = LBP_NETWORK_KEY_SIZE /\ Sizes[g][2] = LBP_USER_AGENT_LENGTH
        /\ Sizes[g][3] = LBP_PS3_PROD_URL_LENGTH /\ Sizes[g][4] = LBP_PS3_PROD_URL_LENGTH
        /\ Sizes[g][5] = LBP_DIGEST_LENGTH
    BY <1>4, SMT DEF Offset, Starts, Sizes, ResourceCheck, ForceJoinAddress, Entries,
       LBP_NETWORK_KEY_SIZE, LBP_USER_AGENT_LENGTH, LBP_PS3_PROD_URL_LENGTH,
       LBP_DIGEST_LENGTH
  <2>2. /\ Source(g, 1) = "NetworkKey" /\ Source(g, 2) = "UserAgent"
        /\ Source(g, 3) = "ServerURL" /\ Source(g, 4) = "ServerURL"
        /\ Source(g, 5) = "ServerDigest"
        /\ DirectBytes(g, 6) = FixBytes(g) /\ DirectBytes(g, 7) = CheckBytes(g)
        /\ DirectBytes(g, 8) = JoinBytes(g)
    BY <2>1, SMT DEF Source, DirectBytes
  <2>3. i \in 1 .. 8
    BY <2>1
  <2> QED
    BY <1>1, <1>2, <1>3, <1>4, <2>1, <2>2, <2>3, SMTT(30) DEF t
<1>5. CASE g = "LBP2"
  <2>1. /\ Entries(g) = 8
        /\ Offset[g].key = Starts[g][1] /\ Offset[g].agent = Starts[g][2]
        /\ Offset[g].https = Starts[g][3] /\ Offset[g].http = Starts[g][4]
        /\ Offset[g].digest = Starts[g][5] /\ Offset[g].notification = Starts[g][6]
        /\ ResourceCheck[g] = Starts[g][7] /\ ForceJoinAddress[g] = Starts[g][8]
        /\ Sizes[g][1] = LBP_NETWORK_KEY_SIZE /\ Sizes[g][2] = LBP_USER_AGENT_LENGTH
        /\ Sizes[g][3] = LBP_PS3_PROD_URL_LENGTH /\ Sizes[g][4] = LBP_PS3_PROD_URL_LENGTH
        /\ Sizes[g][5] = LBP_DIGEST_LENGTH
    BY <1>5, SMT DEF Offset, Starts, Sizes, ResourceCheck, ForceJoinAddress, Entries,
       LBP_NETWORK_KEY_SIZE, LBP_USER_AGENT_LENGTH, LBP_PS3_PROD_URL_LENGTH,
       LBP_DIGEST_LENGTH
  <2>2. /\ Source(g, 1) = "NetworkKey" /\ Source(g, 2) = "UserAgent"
        /\ Source(g, 3) = "ServerURL" /\ Source(g, 4) = "ServerURL"
        /\ Source(g, 5) = "ServerDigest"
        /\ DirectBytes(g, 6) = FixBytes(g) /\ DirectBytes(g, 7) = CheckBytes(g)
        /\ DirectBytes(g, 8) = JoinBytes(g)
    BY <2>1, SMT DEF Source, DirectBytes
  <2>3. i \in 1 .. 8 /\ g # "LBP1"
    BY <1>5, <2>1
  <2> QED
    BY <1>1, <1>2, <1>3, <2>1, <2>2, <2>3, SMTT(30) DEF t
<1>6. CASE g \in {"LBP3", "LBP3_JP"}
  <2>1. /\ Entries(g) = 10
        /\ Offset[g].key = Starts[g][1] /\ Offset[g].agent = Starts[g][2]
        /\ Offset[g].https = Starts[g][3] /\ Offset[g].http = Starts[g][4]
        /\ Offset[g].presence = Starts[g][5] /\ Offset[g].live = Starts[g][6]
        /\ Offset[g].digest = Starts[g][7] /\ Offset[g].notification = Starts[g][8]
        /\ ResourceCheck[g] = Starts[g][9] /\ ForceJoinAddress[g] = Starts[g][10]
        /\ Sizes[g][1] = LBP_NETWORK_KEY_SIZE /\ Sizes[g][2] = LBP_USER_AGENT_LENGTH
        /\ Sizes[g][3] = LBP_PS3_PROD_URL_LENGTH /\ Sizes[g][4] = LBP_PS3_PROD_URL_LENGTH
        /\ Sizes[g][5] = LBP_PS3_PROD_URL_LENGTH /\ Sizes[g][6] = LBP_PS3_PROD_URL_LENGTH
        /\ Sizes[g][7] = LBP_DIGEST_LENGTH
    BY <1>6, SMT DEF Offset, Starts, Sizes, ResourceCheck, ForceJoinAddress, Entries,
       LBP_NETWORK_KEY_SIZE, LBP_USER_AGENT_LENGTH, LBP_PS3_PROD_URL_LENGTH,
       LBP_DIGEST_LENGTH
  <2>2. /\ Source(g, 1) = "NetworkKey" /\ Source(g, 2) = "UserAgent"
        /\ \A k \in 3 .. 6 : Source(g, k) = "ServerURL"
        /\ Source(g, 7) = "ServerDigest"
        /\ DirectBytes(g, 8) = FixBytes(g) /\ DirectBytes(g, 9) = CheckBytes(g)
        /\ DirectBytes(g, 10) = JoinBytes(g)
    BY <2>1, SMT DEF Source, DirectBytes
  <2>3. i \in 1 .. 10 /\ g # "LBP1"
    BY <1>6, <2>1
  <2> QED
    BY <1>1, <1>2, <1>3, <1>6, <2>1, <2>2, <2>3, SMTT(30) DEF t
<1> QED
  BY <1>4, <1>5, <1>6 DEF KnownGames

-------------------------------------------------------------------------------
(* What start has done of the way: the module's inductive invariant.       *)

\* The configuration's, to begin with.
Given ==
    /\ game \in Games /\ option \in Configurations /\ version \in Versions
    /\ stage \in {"key", "url", "digest", "detect", "agent", "announce", "apply",
                  "done"}

\* Each source is set by the step that sets it, or stays NULL.
AgentBytes == Chars(SubSeq(UserAgentText, 1, Min({Len(UserAgentText), 63})))
Pointed ==
    /\ DOMAIN pointer \subseteq Pointers
    /\ "NetworkKey" \in DOMAIN pointer <=> stage # "key" /\ option.enable
    /\ "NetworkKey" \in DOMAIN pointer =>
          pointer["NetworkKey"] = CopyHashedJoinKey(option.key)
    /\ "ServerURL" \in DOMAIN pointer <=>
          stage \notin {"key", "url"} /\ option.url # {}
    /\ "ServerURL" \in DOMAIN pointer =>
          \E string \in option.url : pointer["ServerURL"] = Chars(TrimEnd(string))
    /\ "ServerDigest" \in DOMAIN pointer <=>
          stage \notin {"key", "url", "digest"} /\ option.digest # {}
    /\ "ServerDigest" \in DOMAIN pointer =>
          \E string \in option.digest :
              pointer["ServerDigest"] = Chars(TrimEnd(string))

\* The same of the user agent, which is made of the number that was found.
Detected ==
    /\ number = IF stage \in {"key", "url", "digest", "detect"} THEN "unknown"
                                                                ELSE game
    /\ "UserAgent" \in DOMAIN pointer <=> stage \in {"announce", "apply", "done"}
    /\ "UserAgent" \in DOMAIN pointer => pointer["UserAgent"] = AgentBytes

\* An entry that is not left out, and what it writes.
Laid(i) == i > Entries(game) - 3 \/ Source(game, i) \in DOMAIN pointer
BytesOf(i) == IF i > Entries(game) - 3 THEN DirectBytes(game, i)
              ELSE Text(pointer[Source(game, i)], Sizes[game][i])

\* What has been written is what the entries so far write, and all of it.
Written ==
    /\ next \in 1 .. (Entries(game) + 1)
    /\ stage \notin {"apply", "done"} => next = 1
    /\ stage = "done" => next = Entries(game) + 1
    /\ DOMAIN memory \subseteq Nat
    /\ \A a \in DOMAIN memory :
          \E i \in 1 .. (next - 1) :
              /\ Laid(i) /\ a - Starts[game][i] \in 0 .. (Sizes[game][i] - 1)
              /\ memory[a] = BytesOf(i)[a - Starts[game][i]]
    /\ \A i \in 1 .. (next - 1) :
          Laid(i) => \A k \in 0 .. (Sizes[game][i] - 1) :
                         Starts[game][i] + k \in DOMAIN memory

\* At most the one message, with the game's digit.
MessageText == CASE ~option.enable -> SuccessMessageWithoutPw
                 [] option.enable /\ option.key # {} -> SuccessMessageWithPw
                 [] OTHER -> SuccessMessageRandomPw
Asked ==
    \/ request = <<>>
    \/ /\ stage \in {"apply", "done"}
       /\ request = <<ReplaceNext(MessageText, "X", Digit[game])>>

ModuleInv ==
    installer = "module" => Given /\ Pointed /\ Detected /\ Written /\ Asked

LEMMA TextSize ==
    ASSUME NEW bytes, NEW size
    PROVE  DOMAIN Text(bytes, size) = 0 .. (size - 1)
  BY Zenon DEF Text

LEMMA LaidSize ==
    ASSUME game \in KnownGames, NEW i \in 1 .. Entries(game)
    PROVE  DOMAIN BytesOf(i) = 0 .. (Sizes[game][i] - 1)
<1>1. Entries(game) \in {8, 10}
  BY SMT DEF Entries
<1>2. CASE i > Entries(game) - 3
  <2>1. i \in (Entries(game) - 2) .. Entries(game)
    BY <1>1, <1>2, SMT
  <2> QED
    BY <1>2, <2>1, DirectSizes DEF BytesOf
<1>3. CASE ~(i > Entries(game) - 3)
  BY <1>3, TextSize DEF BytesOf
<1> QED
  BY <1>2, <1>3

\* Nothing is in memory before the first entry.
LEMMA NothingYet ==
    ASSUME Written, stage \notin {"apply", "done"}
    PROVE  memory = [a \in {} |-> Nul] \/ DOMAIN memory = {}
<1>1. next = 1 /\ 1 .. (next - 1) = {}
  BY SMT DEF Written
<1> QED
  BY <1>1 DEF Written

\* The byte of each game's user agent that is looked at, and what it is.
Probe == [LBP1 |-> \h79FDAF, LBP2 |-> \hC36332, LBP3 |-> \hD8BF62,
          LBP3_JP |-> \hD71DFA]
Mark(h) == <<"char", IF h = "LBP1" THEN "$" ELSE "2">>

\* The game's own bytes tell it apart from the three others.
LEMMA Marked ==
    ASSUME game \in KnownGames, NEW h \in KnownGames
    PROVE  Original(Probe[h]) = Mark(h) <=> h = game
<1>1. "$" # "2" /\ "nul" # "$" /\ "nul" # "2" /\ "game" # "char"
  OBVIOUS
<1>2. CASE game = "LBP1"
  BY <1>1, <1>2, SMT DEF Original, Offset, Nul, LBP_DIGEST_LENGTH, Probe, Mark, KnownGames
<1>3. CASE game = "LBP2"
  BY <1>1, <1>3, SMT DEF Original, Offset, Nul, LBP_DIGEST_LENGTH, Probe, Mark, KnownGames
<1>4. CASE game = "LBP3"
  BY <1>1, <1>4, SMT DEF Original, Offset, Nul, LBP_DIGEST_LENGTH, Probe, Mark, KnownGames
<1>5. CASE game = "LBP3_JP"
  BY <1>1, <1>5, SMT DEF Original, Offset, Nul, LBP_DIGEST_LENGTH, Probe, Mark, KnownGames
<1> QED
  BY <1>2, <1>3, <1>4, <1>5 DEF KnownGames

\* At most one mark in memory: the number found is that of the game it is of.
LEMMA Numbered ==
    /\ \A g \in KnownGames :
          (\A h \in KnownGames : Byte(Probe[h]) = Mark(h) <=> h = g)
              => GetLBPGameNumber = g
    /\ (\A h \in KnownGames : Byte(Probe[h]) # Mark(h))
          => GetLBPGameNumber = "unknown"
<1>1. /\ Offset.LBP1.agent + 15 = Probe.LBP1 /\ Offset.LBP2.agent + 18 = Probe.LBP2
      /\ Offset.LBP3.agent + 18 = Probe.LBP3
      /\ Offset.LBP3_JP.agent + 18 = Probe.LBP3_JP
  BY SMT DEF Offset, Probe
<1>2. /\ Mark("LBP1") = <<"char", "$">> /\ Mark("LBP2") = <<"char", "2">>
      /\ Mark("LBP3") = <<"char", "2">> /\ Mark("LBP3_JP") = <<"char", "2">>
  BY Zenon DEF Mark
<1>3. GetLBPGameNumber =
        CASE Byte(Probe["LBP1"]) = Mark("LBP1") -> "LBP1"
          [] Byte(Probe["LBP2"]) = Mark("LBP2") -> "LBP2"
          [] Byte(Probe["LBP3"]) = Mark("LBP3") -> "LBP3"
          [] Byte(Probe["LBP3_JP"]) = Mark("LBP3_JP") -> "LBP3_JP"
          [] OTHER -> "unknown"
  BY <1>1, <1>2, Zenon DEF GetLBPGameNumber
<1>4. /\ "LBP1" \in KnownGames /\ "LBP2" \in KnownGames /\ "LBP3" \in KnownGames
      /\ "LBP3_JP" \in KnownGames
  BY DEF KnownGames
<1>5. ASSUME NEW g \in KnownGames,
             \A h \in KnownGames : Byte(Probe[h]) = Mark(h) <=> h = g
      PROVE  GetLBPGameNumber = g
  BY <1>3, <1>4, <1>5, SMT DEF KnownGames
<1>6. ASSUME \A h \in KnownGames : Byte(Probe[h]) # Mark(h)
      PROVE  GetLBPGameNumber = "unknown"
  BY <1>3, <1>4, <1>6, SMT
<1> QED
  BY <1>5, <1>6

LEMMA Detection ==
    ASSUME game \in KnownGames, DOMAIN memory = {}
    PROVE  GetLBPGameNumber = game
<1>1. \A a : Byte(a) = Original(a)
  BY Zenon DEF Byte
<1> QED
  BY <1>1, Marked, Numbered

LEMMA ModuleSteps ==
    ASSUME installer = "module", Given, Next
    PROVE  /\ UNCHANGED <<game, installer, option, version, cave>>
           /\ \/ SetKey \/ SetServerURL \/ SetServerDigest \/ DetectGame
              \/ SetUserAgent \/ Announce \/ ApplyPatch \/ Finish
              \/ Installed
<1>1. stage # "file" /\ ~ApplyEntry
  BY DEF Given, ApplyEntry
<1>2. CASE SetKey
  BY <1>2 DEF SetKey
<1>3. CASE SetServerURL
  BY <1>3 DEF SetServerURL, SetString
<1>4. CASE SetServerDigest
  BY <1>4 DEF SetServerDigest, SetString
<1>5. CASE DetectGame
  BY <1>5 DEF DetectGame
<1>6. CASE SetUserAgent
  BY <1>6 DEF SetUserAgent
<1>7. CASE Announce
  BY <1>7 DEF Announce
<1>8. CASE ApplyPatch
  BY <1>8 DEF ApplyPatch
<1>9. CASE Finish
  BY <1>9 DEF Finish
<1>10. CASE Installed
  BY <1>10 DEF Installed, vars
<1> QED
  BY <1>1, <1>2, <1>3, <1>4, <1>5, <1>6, <1>7, <1>8, <1>9, <1>10, Zenon DEF Next

LEMMA GivenStays ==
    ASSUME installer = "module", Given, Detected, Written, Next
    PROVE  Given'
<1>1. UNCHANGED <<game, option, version>>
  BY ModuleSteps
<1>2. stage' \in {"key", "url", "digest", "detect", "agent", "announce", "apply",
                  "done"}
  <2>1. CASE SetKey \/ SetServerURL \/ SetServerDigest
    BY <2>1 DEF SetKey, SetServerURL, SetServerDigest, SetString, At
  <2>2. CASE DetectGame
    BY <2>2 DEF DetectGame
  <2>3. CASE SetUserAgent \/ Announce \/ Finish
    BY <2>3 DEF SetUserAgent, Announce, Finish, At
  <2>4. CASE ApplyPatch \/ Installed
    BY <2>4 DEF ApplyPatch, Installed, vars, Given
  <2> QED
    BY <2>1, <2>2, <2>3, <2>4, ModuleSteps
<1> QED
  BY <1>1, <1>2 DEF Given

\* Set adds the name, with the value, and leaves the others.
LEMMA SetEffect ==
    ASSUME NEW name, NEW value, Set(name, value)
    PROVE  /\ DOMAIN pointer' = DOMAIN pointer \union {name}
           /\ pointer'[name] = value
           /\ \A n \in DOMAIN pointer : n # name => pointer'[n] = pointer[n]
  BY Zenon DEF Set

\* What Pointed says, of any pointers at any stage.
PointedAt(p, st) ==
    /\ DOMAIN p \subseteq Pointers
    /\ "NetworkKey" \in DOMAIN p <=> st # "key" /\ option.enable
    /\ "NetworkKey" \in DOMAIN p => p["NetworkKey"] = CopyHashedJoinKey(option.key)
    /\ "ServerURL" \in DOMAIN p <=> st \notin {"key", "url"} /\ option.url # {}
    /\ "ServerURL" \in DOMAIN p =>
          \E string \in option.url : p["ServerURL"] = Chars(TrimEnd(string))
    /\ "ServerDigest" \in DOMAIN p <=>
          st \notin {"key", "url", "digest"} /\ option.digest # {}
    /\ "ServerDigest" \in DOMAIN p =>
          \E string \in option.digest : p["ServerDigest"] = Chars(TrimEnd(string))

LEMMA PointedStays ==
    ASSUME installer = "module", Given, Pointed, Detected, Next
    PROVE  Pointed'
<1>1. UNCHANGED option
  BY ModuleSteps
<1>2. PointedAt(pointer, stage)
  BY DEF Pointed, PointedAt
<1>3. ASSUME UNCHANGED pointer, stage # "key", stage' # "key",
             stage = "url" => option.url = {}, stage' # "url",
             stage = "digest" => option.digest = {},
             stage' = "digest" <=> stage = "url"
      PROVE  Pointed'
  <2>1. PointedAt(pointer, stage')
    BY <1>2, <1>3, SMT DEF PointedAt
  <2> QED
    BY <1>1, <1>3, <2>1, Zenon DEF Pointed, PointedAt
<1>4. CASE SetKey
  <2>1. stage = "key" /\ stage' = "url"
    BY <1>4 DEF SetKey, At
  <2>2. CASE option.enable
    <3>1. Set("NetworkKey", CopyHashedJoinKey(option.key))
      BY <1>4, <2>2 DEF SetKey
    <3>2. /\ DOMAIN pointer' = DOMAIN pointer \union {"NetworkKey"}
          /\ pointer'["NetworkKey"] = CopyHashedJoinKey(option.key)
          /\ "ServerURL" \notin DOMAIN pointer /\ "ServerDigest" \notin DOMAIN pointer
      BY <1>2, <2>1, <3>1, SetEffect DEF PointedAt
    <3>3. PointedAt(pointer', stage')
      BY <1>2, <2>1, <2>2, <3>2, SMT DEF PointedAt, Pointers
    <3> QED
      BY <1>1, <3>3, Zenon DEF PointedAt, Pointed
  <2>3. CASE ~option.enable
    <3>1. UNCHANGED pointer
      BY <1>4, <2>3 DEF SetKey
    <3> QED
      BY <1>1, <1>2, <2>1, <2>3, <3>1 DEF PointedAt, Pointed
  <2> QED
    BY <2>2, <2>3
<1>5. CASE SetServerURL
  <2>1. stage = "url" /\ stage' = "digest"
    BY <1>5 DEF SetServerURL, SetString, At
  <2>2. CASE option.url # {}
    <3>1. PICK string \in option.url : Set("ServerURL", Chars(TrimEnd(string)))
      BY <1>5, <2>2 DEF SetServerURL, SetString
    <3>2. /\ DOMAIN pointer' = DOMAIN pointer \union {"ServerURL"}
          /\ pointer'["ServerURL"] = Chars(TrimEnd(string))
          /\ "NetworkKey" \in DOMAIN pointer =>
                pointer'["NetworkKey"] = pointer["NetworkKey"]
          /\ "ServerDigest" \notin DOMAIN pointer
      BY <1>2, <2>1, <3>1, SetEffect DEF PointedAt
    <3>3. PointedAt(pointer', stage')
      BY <1>2, <2>1, <2>2, <3>2, SMT DEF PointedAt, Pointers
    <3> QED
      BY <1>1, <3>3, Zenon DEF PointedAt, Pointed
  <2>3. CASE option.url = {}
    <3>1. UNCHANGED pointer
      BY <1>5, <2>3 DEF SetServerURL, SetString
    <3> QED
      BY <1>3, <2>1, <2>3, <3>1
  <2> QED
    BY <2>2, <2>3
<1>6. CASE SetServerDigest
  <2>1. stage = "digest" /\ stage' = "detect"
    BY <1>6 DEF SetServerDigest, SetString, At
  <2>2. CASE option.digest # {}
    <3>1. PICK string \in option.digest : Set("ServerDigest", Chars(TrimEnd(string)))
      BY <1>6, <2>2 DEF SetServerDigest, SetString
    <3>2. /\ DOMAIN pointer' = DOMAIN pointer \union {"ServerDigest"}
          /\ pointer'["ServerDigest"] = Chars(TrimEnd(string))
          /\ "NetworkKey" \in DOMAIN pointer =>
                pointer'["NetworkKey"] = pointer["NetworkKey"]
          /\ "ServerURL" \in DOMAIN pointer =>
                pointer'["ServerURL"] = pointer["ServerURL"]
      BY <3>1, SetEffect
    <3>3. PointedAt(pointer', stage')
      BY <1>2, <2>1, <2>2, <3>2, SMT DEF PointedAt, Pointers
    <3> QED
      BY <1>1, <3>3, Zenon DEF PointedAt, Pointed
  <2>3. CASE option.digest = {}
    <3>1. UNCHANGED pointer
      BY <1>6, <2>3 DEF SetServerDigest, SetString
    <3> QED
      BY <1>3, <2>1, <2>3, <3>1
  <2> QED
    BY <2>2, <2>3
<1>7. CASE DetectGame
  BY <1>3, <1>7 DEF DetectGame
<1>8. CASE SetUserAgent
  <2>1. PICK value : Set("UserAgent", value) /\ stage = "agent" /\ stage' = "announce"
    BY <1>8 DEF SetUserAgent, At
  <2>2. /\ DOMAIN pointer' = DOMAIN pointer \union {"UserAgent"}
        /\ \A n \in DOMAIN pointer \ {"UserAgent"} : pointer'[n] = pointer[n]
    BY <2>1, SetEffect
  <2>3. PointedAt(pointer', stage')
    BY <1>2, <2>1, <2>2, SMT DEF PointedAt, Pointers
  <2> QED
    BY <1>1, <2>3, Zenon DEF PointedAt, Pointed
<1>9. CASE Announce
  BY <1>3, <1>9 DEF Announce, At
<1>10. CASE ApplyPatch
  BY <1>3, <1>10 DEF ApplyPatch
<1>11. CASE Finish
  BY <1>3, <1>11 DEF Finish, At
<1>12. CASE Installed
  BY <1>3, <1>12 DEF Installed, vars
<1> QED
  BY <1>4, <1>5, <1>6, <1>7, <1>8, <1>9, <1>10, <1>11, <1>12, ModuleSteps

LEMMA DetectedStays ==
    ASSUME installer = "module", Given, Pointed, Detected, Written, Next
    PROVE  Detected'
<1>1. UNCHANGED <<game, option, version>> /\ game \in KnownGames
  BY ModuleSteps, GamesAssumption DEF Given
<1>2. ASSUME UNCHANGED number PROVE AgentBytes' = AgentBytes
  BY <1>1, <1>2 DEF AgentBytes, UserAgentText
<1>3. CASE SetKey
  <2>1. stage = "key" /\ stage' = "url" /\ UNCHANGED number
    BY <1>3 DEF SetKey, At
  <2>2. "UserAgent" \notin DOMAIN pointer'
    <3>1. \/ UNCHANGED pointer
          \/ \E value : Set("NetworkKey", value)
      BY <1>3 DEF SetKey
    <3>2. DOMAIN pointer' \subseteq DOMAIN pointer \union {"NetworkKey"}
      BY <3>1, SetEffect, Zenon
    <3> QED
      BY <2>1, <3>2 DEF Detected
  <2> QED
    BY <1>1, <2>1, <2>2 DEF Detected
<1>4. CASE SetServerURL
  <2>1. stage = "url" /\ stage' = "digest" /\ UNCHANGED number
    BY <1>4 DEF SetServerURL, SetString, At
  <2>2. "UserAgent" \notin DOMAIN pointer'
    <3>1. \/ UNCHANGED pointer
          \/ \E value : Set("ServerURL", value)
      BY <1>4 DEF SetServerURL, SetString
    <3>2. DOMAIN pointer' \subseteq DOMAIN pointer \union {"ServerURL"}
      BY <3>1, SetEffect, Zenon
    <3> QED
      BY <2>1, <3>2 DEF Detected
  <2> QED
    BY <1>1, <2>1, <2>2 DEF Detected
<1>5. CASE SetServerDigest
  <2>1. stage = "digest" /\ stage' = "detect" /\ UNCHANGED number
    BY <1>5 DEF SetServerDigest, SetString, At
  <2>2. "UserAgent" \notin DOMAIN pointer'
    <3>1. \/ UNCHANGED pointer
          \/ \E value : Set("ServerDigest", value)
      BY <1>5 DEF SetServerDigest, SetString
    <3>2. DOMAIN pointer' \subseteq DOMAIN pointer \union {"ServerDigest"}
      BY <3>1, SetEffect, Zenon
    <3> QED
      BY <2>1, <3>2 DEF Detected
  <2> QED
    BY <1>1, <2>1, <2>2 DEF Detected
<1>6. CASE DetectGame
  <2>1. stage = "detect" /\ number' = GetLBPGameNumber /\ UNCHANGED pointer
    BY <1>6 DEF DetectGame
  <2>2. number' = game
    BY <1>1, <2>1, NothingYet, Detection
  <2>3. stage' = "agent"
    BY <1>1, <1>6, <2>2 DEF DetectGame, KnownGames
  <2> QED
    BY <1>1, <2>1, <2>2, <2>3 DEF Detected
<1>7. CASE SetUserAgent
  <2>1. stage = "agent" /\ stage' = "announce" /\ UNCHANGED number
    BY <1>7 DEF SetUserAgent, At
  <2>2. Set("UserAgent", AgentBytes)
    BY <1>7 DEF SetUserAgent, AgentBytes
  <2>3. "UserAgent" \in DOMAIN pointer' /\ pointer'["UserAgent"] = AgentBytes
    BY <2>2, SetEffect
  <2> QED
    BY <1>1, <1>2, <2>1, <2>3 DEF Detected
<1>8. CASE Announce \/ Finish
  <2>1. /\ UNCHANGED <<number, pointer>>
        /\ stage \in {"announce", "apply"} /\ stage' \in {"apply", "done"}
    BY <1>8 DEF Announce, Finish, At
  <2> QED
    BY <1>1, <1>2, <2>1 DEF Detected
<1>9. CASE ApplyPatch \/ Installed
  <2>1. UNCHANGED <<number, pointer, stage>>
    BY <1>9 DEF ApplyPatch, Installed, vars
  <2> QED
    BY <1>1, <1>2, <2>1 DEF Detected
<1> QED
  BY <1>3, <1>4, <1>5, <1>6, <1>7, <1>8, <1>9, ModuleSteps

\* Write keeps what it does not write over.
LEMMA WriteEffect ==
    ASSUME NEW address, NEW bytes, Write(address, bytes)
    PROVE  /\ DOMAIN memory' = DOMAIN memory \union {address + k : k \in DOMAIN bytes}
           /\ \A a \in DOMAIN memory' :
                 IF a - address \in DOMAIN bytes THEN memory'[a] = bytes[a - address]
                 ELSE a \in DOMAIN memory => memory'[a] = memory[a]
  BY Zenon DEF Write

\* A round of ApplyGamePatches applies the entry, or leaves it out.
LEMMA RoundEffect ==
    ASSUME installer = "module", Given, Detected, Written, ApplyPatch
    PROVE  /\ next \in 1 .. Entries(game) /\ next' = next + 1
           /\ UNCHANGED <<game, pointer, stage>> /\ stage = "apply"
           /\ IF Laid(next) THEN Write(Starts[game][next], BytesOf(next))
                            ELSE UNCHANGED memory
<1>1. game \in KnownGames /\ stage = "apply" /\ number = game
  BY GamesAssumption DEF Given, Detected, ApplyPatch
<1>2. next' = next + 1 /\ UNCHANGED <<game, pointer, stage>>
  BY DEF ApplyPatch
<1>3. Entries(game) \in {8, 10}
  BY DEF Entries
<1>4. next \in 1 .. (Entries(game) + 1) /\ next <= Len(Patches(game))
  BY <1>1 DEF Written, ApplyPatch, More
<1>5. Len(Patches(game)) = Entries(game)
  <2>1. 1 \in 1 .. Entries(game)
    BY <1>3
  <2> QED
    BY <1>1, <2>1, EntryIs
<1>6. next \in 1 .. Entries(game)
  BY <1>3, <1>4, <1>5, SMT
<1> DEFINE patch == Patches(game)[next]
<1>7. /\ patch.offset = Starts[game][next]
      /\ IF next <= Entries(game) - 3
         THEN /\ patch.type = "INDIRECT" /\ patch.source = Source(game, next)
              /\ patch.size = Sizes[game][next]
         ELSE patch.type = "DIRECT" /\ patch.bytes = DirectBytes(game, next)
  BY <1>1, <1>6, EntryIs
<1>8. \/ /\ patch.type = "INDIRECT" /\ patch.source \in DOMAIN pointer
         /\ Write(patch.offset, Text(pointer[patch.source], patch.size))
      \/ /\ patch.type = "INDIRECT" /\ patch.source \notin DOMAIN pointer
         /\ UNCHANGED memory
      \/ patch.type = "DIRECT" /\ Write(patch.offset, patch.bytes)
  BY <1>1, Zenon DEF ApplyPatch
<1> HIDE DEF patch
<1>9. next <= Entries(game) - 3 <=> ~(next > Entries(game) - 3)
  BY <1>3, <1>6, SMT
<1>10. IF Laid(next) THEN Write(Starts[game][next], BytesOf(next))
                     ELSE UNCHANGED memory
  <2>1. CASE next > Entries(game) - 3
    BY <1>7, <1>8, <1>9, <2>1 DEF Laid, BytesOf
  <2>2. CASE ~(next > Entries(game) - 3)
    BY <1>7, <1>8, <1>9, <2>2 DEF Laid, BytesOf
  <2> QED
    BY <2>1, <2>2
<1> QED
  BY <1>1, <1>2, <1>6, <1>10

LEMMA Finished ==
    ASSUME installer = "module", Given, Detected, Written, Finish
    PROVE  next = Entries(game) + 1
<1>1. game \in KnownGames /\ number = game
  BY GamesAssumption DEF Given, Detected, Finish, At
<1>2. Entries(game) \in {8, 10}
  BY DEF Entries
<1>3. next \in 1 .. (Entries(game) + 1)
  BY DEF Written
<1>4. ~(next \in 1 .. Entries(game))
  <2> SUFFICES ASSUME next \in 1 .. Entries(game) PROVE FALSE
    OBVIOUS
  <2>1. /\ Len(Patches(game)) = Entries(game)
        /\ Patches(game)[next].offset = Starts[game][next]
    BY <1>1, EntryIs
  <2>2. Starts[game][next] \in Nat /\ Starts[game][next] > 0
    BY <1>1, StartsApart DEF Apart
  <2>3. ~More
    BY DEF Finish
  <2> QED
    BY <1>1, <1>2, <2>1, <2>2, <2>3, SMT DEF More
<1> QED
  BY <1>2, <1>3, <1>4, SMT

LEMMA WrittenStays ==
    ASSUME installer = "module", Given, Pointed, Detected, Written, Next
    PROVE  Written'
<1>1. UNCHANGED game /\ game \in KnownGames
  BY ModuleSteps, GamesAssumption DEF Given
<1>2. Entries(game) \in {8, 10}
  BY DEF Entries
<1>3. ASSUME next = 1, UNCHANGED <<memory, next>>, stage \notin {"apply", "done"},
             stage' # "done"
      PROVE  Written'
  <2>1. DOMAIN memory = {}
    BY <1>3, NothingYet
  <2>2. 1 .. (next' - 1) = {} /\ next' \in 1 .. (Entries(game) + 1)
    BY <1>2, <1>3, SMT
  <2> QED
    BY <1>1, <1>3, <2>1, <2>2 DEF Written
<1>4. CASE SetKey \/ SetServerURL \/ SetServerDigest \/ DetectGame \/ SetUserAgent
           \/ Announce
  <2>1. /\ stage \in {"key", "url", "digest", "detect", "agent", "announce"}
        /\ UNCHANGED <<memory, next>>
    BY <1>4 DEF SetKey, SetServerURL, SetServerDigest, SetString, DetectGame,
       SetUserAgent, Announce, At
  <2>2. stage' # "done"
    <3>1. CASE DetectGame
      <4>1. number' = game
        BY <2>1, <3>1, <1>1, NothingYet, Detection DEF DetectGame
      <4> QED
        BY <1>1, <3>1, <4>1 DEF DetectGame, KnownGames
    <3>2. CASE ~DetectGame
      BY <1>4, <3>2 DEF SetKey, SetServerURL, SetServerDigest, SetString,
         SetUserAgent, Announce, At
    <3> QED
      BY <3>1, <3>2
  <2>3. next = 1
    BY <2>1 DEF Written
  <2> QED
    BY <1>3, <2>1, <2>2, <2>3
<1>5. CASE ApplyPatch
  <2>1. /\ next \in 1 .. Entries(game) /\ next' = next + 1
        /\ UNCHANGED <<game, pointer, stage>> /\ stage = "apply"
        /\ IF Laid(next) THEN Write(Starts[game][next], BytesOf(next))
                         ELSE UNCHANGED memory
    BY <1>5, RoundEffect
  <2>2. \A i : (Laid(i)' <=> Laid(i)) /\ BytesOf(i)' = BytesOf(i)
    BY <2>1 DEF Laid, BytesOf
  <2>3. /\ next' \in 1 .. (Entries(game) + 1) /\ next' - 1 = next
        /\ \A i \in 1 .. next : i \in 1 .. (next - 1) \/ i = next
        /\ \A i \in 1 .. (next - 1) : i \in 1 .. next
        /\ next \in 1 .. next
    BY <1>2, <2>1, SMT
  <2>4. /\ DOMAIN memory \subseteq Nat
        /\ \A a \in DOMAIN memory :
              \E i \in 1 .. (next - 1) :
                  /\ Laid(i) /\ a - Starts[game][i] \in 0 .. (Sizes[game][i] - 1)
                  /\ memory[a] = BytesOf(i)[a - Starts[game][i]]
        /\ \A i \in 1 .. (next - 1) :
              Laid(i) => \A k \in 0 .. (Sizes[game][i] - 1) :
                             Starts[game][i] + k \in DOMAIN memory
    BY DEF Written
  <2>5. CASE ~Laid(next)
    <3>1. UNCHANGED memory
      BY <2>1, <2>5
    <3>2. \A a \in DOMAIN memory' :
              \E i \in 1 .. (next' - 1) :
                  /\ Laid(i)' /\ a - Starts[game'][i] \in 0 .. (Sizes[game'][i] - 1)
                  /\ memory'[a] = (BytesOf(i)')[a - Starts[game'][i]]
      BY <1>1, <2>2, <2>3, <2>4, <3>1
    <3>3. \A i \in 1 .. (next' - 1) :
              Laid(i)' => \A k \in 0 .. (Sizes[game'][i] - 1) :
                             Starts[game'][i] + k \in DOMAIN memory'
      BY <1>1, <2>2, <2>3, <2>4, <2>5, <3>1
    <3> QED
      BY <1>1, <2>1, <2>3, <2>4, <3>1, <3>2, <3>3 DEF Written
  <2>6. CASE Laid(next)
    <3> DEFINE at == Starts[game][next]
               bytes == BytesOf(next)
    <3>1. /\ DOMAIN memory' = DOMAIN memory \union {at + k : k \in DOMAIN bytes}
          /\ \A a \in DOMAIN memory' :
                IF a - at \in DOMAIN bytes THEN memory'[a] = bytes[a - at]
                ELSE a \in DOMAIN memory => memory'[a] = memory[a]
      BY <2>1, <2>6, WriteEffect
    <3>2. DOMAIN bytes = 0 .. (Sizes[game][next] - 1)
      BY <1>1, <2>1, LaidSize
    <3>3. at \in Nat /\ Sizes[game][next] \in Nat
      BY <1>1, <2>1, StartsApart DEF Apart
    <3> HIDE DEF at, bytes
    <3>4. DOMAIN memory' \subseteq Nat
      BY <2>4, <3>1, <3>2, <3>3, SMT
    <3>5. \A a \in DOMAIN memory' : a \in DOMAIN memory \/ a - at \in DOMAIN bytes
      BY <3>1, <3>2, <3>3, SMT
    <3>6. \A a \in DOMAIN memory' :
              \E i \in 1 .. (next' - 1) :
                  /\ Laid(i)' /\ a - Starts[game'][i] \in 0 .. (Sizes[game'][i] - 1)
                  /\ memory'[a] = (BytesOf(i)')[a - Starts[game'][i]]
      <4> SUFFICES ASSUME NEW a \in DOMAIN memory'
                   PROVE  \E i \in 1 .. (next' - 1) :
                             /\ Laid(i)
                             /\ a - Starts[game][i] \in 0 .. (Sizes[game][i] - 1)
                             /\ memory'[a] = BytesOf(i)[a - Starts[game][i]]
        BY <1>1, <2>2
      <4>1. CASE a - at \in DOMAIN bytes
        BY <2>3, <2>6, <3>1, <3>2, <4>1 DEF at, bytes
      <4>2. CASE a - at \notin DOMAIN bytes
        <5>1. a \in DOMAIN memory /\ memory'[a] = memory[a]
          BY <3>1, <3>5, <4>2
        <5> QED
          BY <2>3, <2>4, <5>1
      <4> QED
        BY <4>1, <4>2
    <3>7. \A i \in 1 .. (next' - 1) :
              Laid(i)' => \A k \in 0 .. (Sizes[game'][i] - 1) :
                             Starts[game'][i] + k \in DOMAIN memory'
      <4> SUFFICES ASSUME NEW i \in 1 .. (next' - 1), Laid(i),
                          NEW k \in 0 .. (Sizes[game][i] - 1)
                   PROVE  Starts[game][i] + k \in DOMAIN memory'
        BY <1>1, <2>2
      <4>1. CASE i = next
        BY <3>1, <3>2, <4>1 DEF at
      <4>2. CASE i \in 1 .. (next - 1)
        BY <2>4, <3>1, <4>2
      <4> QED
        BY <2>3, <4>1, <4>2
    <3> QED
      BY <1>1, <2>1, <2>3, <3>4, <3>6, <3>7 DEF Written
  <2> QED
    BY <2>5, <2>6
<1>6. CASE Finish
  <2>1. next = Entries(game) + 1 /\ UNCHANGED <<memory, next, pointer>>
    BY <1>6, Finished DEF Finish
  <2>2. \A i : (Laid(i)' <=> Laid(i)) /\ BytesOf(i)' = BytesOf(i)
    BY <1>1, <2>1 DEF Laid, BytesOf
  <2>3. stage' = "done"
    BY <1>6 DEF Finish, At
  <2> QED
    BY <1>1, <2>1, <2>2, <2>3, Zenon DEF Written
<1>7. CASE Installed
  <2>1. UNCHANGED <<memory, next, pointer, stage>>
    BY <1>7 DEF Installed, vars
  <2>2. \A i : (Laid(i)' <=> Laid(i)) /\ BytesOf(i)' = BytesOf(i)
    BY <1>1, <2>1 DEF Laid, BytesOf
  <2> QED
    BY <1>1, <2>1, <2>2, Zenon DEF Written
<1> QED
  BY <1>4, <1>5, <1>6, <1>7, ModuleSteps

LEMMA AskedStays ==
    ASSUME installer = "module", Given, Detected, Asked, Next
    PROVE  Asked'
<1>1. UNCHANGED <<game, option, version>> /\ MessageText' = MessageText
  BY ModuleSteps DEF MessageText, SuccessMessageWithoutPw, SuccessMessageWithPw,
     SuccessMessageRandomPw, Message
<1>2. CASE Announce
  <2>1. stage = "announce" /\ stage' = "apply" /\ number = game /\ request = <<>>
    BY <1>2 DEF Announce, At, Detected, Asked
  <2>2. \/ request' = Append(request, ReplaceNext(MessageText, "X", Digit[number]))
        \/ request' = request
    BY <1>2 DEF Announce, MessageText
  <2>3. \A x : Append(<<>>, x) = <<x>>
    OBVIOUS
  <2> QED
    BY <1>1, <2>1, <2>2, <2>3, Zenon DEF Asked
<1>3. CASE ~Announce
  <2>1. UNCHANGED request
    BY <1>3, ModuleSteps DEF SetKey, SetServerURL, SetServerDigest, SetString,
       DetectGame, SetUserAgent, ApplyPatch, Finish, Installed, vars
  <2>2. stage \in {"apply", "done"} => stage' \in {"apply", "done"}
    BY <1>3, ModuleSteps DEF SetKey, SetServerURL, SetServerDigest, SetString, At,
       DetectGame, SetUserAgent, ApplyPatch, Finish, Installed, vars
  <2> QED
    BY <1>1, <2>1, <2>2, Zenon DEF Asked
<1> QED
  BY <1>2, <1>3

-------------------------------------------------------------------------------
(* The user agent and the message.                                         *)

LEMMA Concatenated ==
    ASSUME NEW S, NEW s \in Seq(S), NEW t \in Seq(S)
    PROVE  /\ s \o t \in Seq(S) /\ Len(s \o t) = Len(s) + Len(t)
           /\ \A k \in 1 .. Len(s) : (s \o t)[k] = s[k]
           /\ \A k \in 1 .. Len(t) : (s \o t)[Len(s) + k] = t[k]
  BY SMT

LEMMA Wider ==
    ASSUME NEW S, NEW T, NEW s
    PROVE  s \in Seq(S) \/ s \in Seq(T) => s \in Seq(S \union T)
  BY SMT

\* The characters that are counted on: the digit, the point where the "$" was,
\* and no digit where the "2" was.
LEMMA AgentIs ==
    ASSUME version \in Versions
    PROVE  /\ Len(AgentBytes) \in 18 .. 21 /\ DOMAIN AgentBytes = 1 .. Len(AgentBytes)
           /\ AgentBytes[13] = <<"char", Digit[number]>>
           /\ AgentBytes[16] = <<"char", ".">>
           /\ Len(AgentBytes) > 18 =>
                 AgentBytes[19] = <<"char", " ">> \/ AgentBytes[19] = <<"char", "N">>
<1> DEFINE digit == Digit[number]
           blank == " "
           T == {"P", "a", "t", "c", "h", "w", "o", "r", "k", "L", "B", blank, ".",
                 "N", "K", digit}
           S == STRING
           U == S \union T
           p == <<"P", "a", "t", "c", "h", "w", "o", "r", "k", "L", "B", "P",
                  digit, blank>>
           major == version.major
           minor == version.minor
           point == <<".">>
           space == <<blank>>
           end == IF option.enable THEN <<>> ELSE <<"N", "K">>
<1> HIDE DEF digit, blank
<1>1. /\ major \in Seq(S) /\ Len(major) = 1
      /\ minor \in Seq(S) /\ Len(minor) \in {1, 2}
  BY VersionsAssumption, Zenon
<1> HIDE DEF S, major, minor
<1>2. /\ p \in Seq(T) /\ Len(p) = 14 /\ p[13] = digit
  BY SMT
<1>3. end \in Seq(T) /\ (end = <<>> \/ (Len(end) = 2 /\ end[1] = "N"))
  <2>1. CASE option.enable
    <3>1. end = <<>>
      BY <2>1
    <3>2. <<>> \in Seq(T)
      BY SMT
    <3> QED
      BY <3>1, <3>2, Zenon
  <2>2. CASE ~option.enable
    <3>1. end = <<"N", "K">>
      BY <2>2
    <3>2. <<"N", "K">> \in Seq(T) /\ Len(<<"N", "K">>) = 2 /\ <<"N", "K">>[1] = "N"
      BY SMT
    <3> QED
      BY <3>1, <3>2, Zenon
  <2> QED
    BY <2>1, <2>2
<1>4. /\ point \in Seq(T) /\ Len(point) = 1 /\ point[1] = "."
      /\ space \in Seq(T) /\ Len(space) = 1 /\ space[1] = blank
  BY SMT
<1> HIDE DEF T, p, end, point, space
<1>5. /\ p \in Seq(U) /\ major \in Seq(U) /\ point \in Seq(U) /\ minor \in Seq(U)
      /\ space \in Seq(U) /\ end \in Seq(U)
  BY <1>1, <1>2, <1>3, <1>4, Wider
<1> HIDE DEF U
<1> DEFINE a == p \o major
           b == a \o point
           c == b \o minor
           d == c \o space
           e == d \o end
<1>6. UserAgentText = e
  BY Zenon DEF UserAgentText, p, digit, blank, major, minor, point, space, end
<1>7. /\ a \in Seq(U) /\ Len(a) = Len(p) + Len(major)
      /\ \A k \in 1 .. Len(p) : a[k] = p[k]
      /\ \A k \in 1 .. Len(major) : a[Len(p) + k] = major[k]
  <2>1. p \in Seq(U) /\ major \in Seq(U)
    BY <1>5, Zenon
  <2>2. \A k \in 1 .. Len(p) : a[k] = p[k]
    BY ONLY <2>1, SMT
  <2>3. \A k \in 1 .. Len(major) : a[Len(p) + k] = major[k]
    BY ONLY <2>1, SMT
  <2>4. a \in Seq(U) /\ Len(a) = Len(p) + Len(major)
    BY ONLY <2>1, SMT
  <2> QED
    BY <2>2, <2>3, <2>4, Zenon
<1> HIDE DEF a
<1>8. /\ b \in Seq(U) /\ Len(b) = Len(a) + Len(point)
      /\ \A k \in 1 .. Len(a) : b[k] = a[k]
      /\ \A k \in 1 .. Len(point) : b[Len(a) + k] = point[k]
  <2>1. a \in Seq(U) /\ point \in Seq(U)
    BY <1>5, <1>7, Zenon
  <2>2. \A k \in 1 .. Len(a) : b[k] = a[k]
    BY ONLY <2>1, SMT
  <2>3. \A k \in 1 .. Len(point) : b[Len(a) + k] = point[k]
    BY ONLY <2>1, SMT
  <2>4. b \in Seq(U) /\ Len(b) = Len(a) + Len(point)
    BY ONLY <2>1, SMT
  <2> QED
    BY <2>2, <2>3, <2>4, Zenon
<1> HIDE DEF b
<1>9. /\ c \in Seq(U) /\ Len(c) = Len(b) + Len(minor)
      /\ \A k \in 1 .. Len(b) : c[k] = b[k]
      /\ \A k \in 1 .. Len(minor) : c[Len(b) + k] = minor[k]
  <2>1. b \in Seq(U) /\ minor \in Seq(U)
    BY <1>5, <1>8, Zenon
  <2>2. \A k \in 1 .. Len(b) : c[k] = b[k]
    BY ONLY <2>1, SMT
  <2>3. \A k \in 1 .. Len(minor) : c[Len(b) + k] = minor[k]
    BY ONLY <2>1, SMT
  <2>4. c \in Seq(U) /\ Len(c) = Len(b) + Len(minor)
    BY ONLY <2>1, SMT
  <2> QED
    BY <2>2, <2>3, <2>4, Zenon
<1> HIDE DEF c
<1>10. /\ d \in Seq(U) /\ Len(d) = Len(c) + Len(space)
       /\ \A k \in 1 .. Len(c) : d[k] = c[k]
       /\ \A k \in 1 .. Len(space) : d[Len(c) + k] = space[k]
  <2>1. c \in Seq(U) /\ space \in Seq(U)
    BY <1>5, <1>9, Zenon
  <2>2. \A k \in 1 .. Len(c) : d[k] = c[k]
    BY ONLY <2>1, SMT
  <2>3. \A k \in 1 .. Len(space) : d[Len(c) + k] = space[k]
    BY ONLY <2>1, SMT
  <2>4. d \in Seq(U) /\ Len(d) = Len(c) + Len(space)
    BY ONLY <2>1, SMT
  <2> QED
    BY <2>2, <2>3, <2>4, Zenon
<1> HIDE DEF d
<1>11. /\ e \in Seq(U) /\ Len(e) = Len(d) + Len(end)
       /\ \A k \in 1 .. Len(d) : e[k] = d[k]
       /\ \A k \in 1 .. Len(end) : e[Len(d) + k] = end[k]
  <2>1. d \in Seq(U) /\ end \in Seq(U)
    BY <1>5, <1>10, Zenon
  <2>2. \A k \in 1 .. Len(d) : e[k] = d[k]
    BY ONLY <2>1, SMT
  <2>3. \A k \in 1 .. Len(end) : e[Len(d) + k] = end[k]
    BY ONLY <2>1, SMT
  <2>4. e \in Seq(U) /\ Len(e) = Len(d) + Len(end)
    BY ONLY <2>1, SMT
  <2> QED
    BY <2>2, <2>3, <2>4, Zenon
<1> HIDE DEF e
<1>12. Len(a) = 15 /\ a[13] = digit
  <2>1. 14 + 1 = 15 /\ 13 \in 1 .. 14
    BY SMT
  <2> QED
    BY <1>1, <1>2, <1>7, <2>1, Zenon
<1>13. Len(b) = 16 /\ b[13] = digit /\ b[16] = "."
  <2>1. 13 \in 1 .. 15 /\ 1 \in 1 .. 1 /\ 15 + 1 = 16
    BY SMT
  <2> QED
    <3>1. Len(b) = 15 + 1 /\ b[15 + 1] = "."
      BY <1>4, <1>8, <1>12, <2>1
    <3>2. b[13] = digit
      BY <1>8, <1>12, <2>1, Zenon
    <3> QED
      BY <2>1, <3>1, <3>2, Zenon
<1>14. c[13] = digit /\ c[16] = "." /\ Len(c) = 16 + Len(minor)
  <2>1. 13 \in 1 .. 16 /\ 16 \in 1 .. 16
    BY SMT
  <2> QED
    BY <1>9, <1>13, <2>1, Zenon
<1>15. PICK m \in 1 .. 2 : Len(minor) = m
  BY <1>1
<1>16. Len(d) = 17 + m /\ d[13] = digit /\ d[16] = "." /\ d[17 + m] = blank
  <2>1. /\ 13 \in 1 .. (16 + m) /\ 16 \in 1 .. (16 + m) /\ 1 \in 1 .. 1
        /\ (16 + m) + 1 = 17 + m
    BY SMT
  <2>2. Len(c) = 16 + m
    BY <1>14, <1>15, Zenon
  <2>3. d[13] = digit /\ d[16] = "."
    BY <1>10, <1>14, <2>1, <2>2
  <2>4. Len(d) = (16 + m) + 1 /\ d[(16 + m) + 1] = blank
    BY <1>4, <1>10, <2>1, <2>2
  <2> QED
    BY <2>1, <2>3, <2>4
<1>17. PICK n \in {0, 2} : Len(end) = n /\ (n = 2 => end[1] = "N")
  <2>1. Len(<<>>) = 0
    BY SMT
  <2> QED
    BY <1>3, <2>1
<1>18. PICK l \in 18 .. 21 : /\ e \in Seq(U) /\ Len(e) = l
                             /\ e[13] = digit /\ e[16] = "."
                             /\ l > 18 => e[19] = blank \/ e[19] = "N"
  <2>2. /\ e \in Seq(U) /\ Len(e) = (17 + m) + n
        /\ \A k \in 1 .. (17 + m) : e[k] = d[k]
        /\ \A k \in 1 .. n : e[(17 + m) + k] = end[k]
    BY <1>11, <1>16, <1>17, SMT
  <2>3. /\ 13 \in 1 .. (17 + m) /\ 16 \in 1 .. (17 + m) /\ 17 + m \in 1 .. (17 + m)
        /\ n = 2 => 1 \in 1 .. n
        /\ (17 + m) + n \in 18 .. 21
    OBVIOUS
  <2>4. e[13] = digit /\ e[16] = "." /\ e[17 + m] = blank
    BY <1>16, <2>2, <2>3
  <2>5. n = 2 => e[(17 + m) + 1] = "N"
    BY <1>17, <2>2, <2>3
  <2>6. (17 + m) + n > 18 => 17 + m = 19 \/ (n = 2 /\ (17 + m) + 1 = 19)
    OBVIOUS
  <2> QED
    BY <2>2, <2>3, <2>4, <2>5, <2>6
<1> HIDE DEF e
<1>19. Min({Len(e), 63}) = l
  <2>1. \A x \in {l, 63} : (\A y \in {l, 63} : x <= y) <=> x = l
    BY SMT
  <2> QED
    BY <1>18, <2>1, Zenon DEF Min
<1> DEFINE f == SubSeq(e, 1, l)
<1>20. DOMAIN f = 1 .. l /\ \A k \in 1 .. l : f[k] = e[k]
  BY <1>18, SMT
<1>21. AgentBytes = Chars(f)
  BY <1>6, <1>19 DEF AgentBytes
<1> HIDE DEF f
<1>22. /\ DOMAIN AgentBytes = 1 .. l
       /\ \A k \in 1 .. l : AgentBytes[k] = <<"char", e[k]>>
  BY <1>20, <1>21, Zenon DEF Chars
<1>23. Len(AgentBytes) = l
  BY <1>21, <1>22, SMT
<1>24. 13 \in 1 .. l /\ 16 \in 1 .. l /\ (l > 18 => 19 \in 1 .. l)
  BY SMT
<1> QED
  BY <1>18, <1>22, <1>23, <1>24, Zenon DEF digit, blank

\* A file's installation asks for nothing and looks for no game.
FileInv ==
    installer = "file" => stage \in {"file", "done"} /\ request = <<>>

Inv == installer \in {"module", "file"} /\ ModuleInv /\ FileInv

LEMMA InitModule == Init => Inv
<1> SUFFICES ASSUME Init PROVE Inv
  OBVIOUS
<1>1. CASE installer = "file"
  BY <1>1 DEF Init, Inv, ModuleInv, FileInv
<1>2. CASE installer = "module" /\ option \in Configurations /\ stage = "key"
           /\ version \in Versions
  <2>1. Given
    BY <1>2 DEF Init, Given
  <2>2. DOMAIN pointer = {} /\ DOMAIN memory = {} /\ next = 1 /\ number = "unknown"
        /\ request = <<>>
    BY Zenon DEF Init
  <2>3. Pointed
    BY <1>2, <2>2 DEF Pointed
  <2>4. Detected
    BY <1>2, <2>2 DEF Detected
  <2>5. Written
    <3>1. Entries(game) \in {8, 10}
      BY DEF Entries
    <3>2. 1 .. (next - 1) = {} /\ next \in 1 .. (Entries(game) + 1)
      BY <2>2, <3>1, SMT
    <3> QED
      BY <1>2, <2>2, <3>2 DEF Written
  <2> QED
    BY <1>2, <2>1, <2>2, <2>3, <2>4, <2>5, Zenon
       DEF Inv, ModuleInv, FileInv, Asked
<1> QED
  BY <1>1, <1>2 DEF Init

LEMMA NextModule == Inv /\ Next => Inv'
<1> SUFFICES ASSUME Inv, Next PROVE Inv'
  OBVIOUS
<1>1. CASE installer = "module"
  <2>1. Given /\ Pointed /\ Detected /\ Written /\ Asked
    BY <1>1 DEF Inv, ModuleInv
  <2>2. installer' = "module"
    BY <1>1, <2>1, ModuleSteps
  <2>3. Given' /\ Pointed' /\ Detected' /\ Written' /\ Asked'
    BY <1>1, <2>1, GivenStays, PointedStays, DetectedStays, WrittenStays, AskedStays
  <2> QED
    BY <2>2, <2>3, Zenon DEF Inv, ModuleInv, FileInv
<1>2. CASE installer = "file"
  <2>1. stage \in {"file", "done"} /\ request = <<>>
    BY <1>2 DEF Inv, FileInv
  <2>2. ApplyEntry \/ Installed
    BY <2>1 DEF Next, SetKey, SetServerURL, SetServerDigest, SetString, DetectGame,
       SetUserAgent, Announce, ApplyPatch, Finish, At
  <2>3. CASE ApplyEntry
    <3>1. UNCHANGED <<installer, request>>
      BY <2>3 DEF ApplyEntry
    <3>2. stage' \in {"file", "done"}
      BY <2>1, <2>3 DEF ApplyEntry
    <3> QED
      BY <1>2, <2>1, <3>1, <3>2 DEF Inv, ModuleInv, FileInv
  <2>4. CASE Installed
    BY <1>2, <2>1, <2>4 DEF Inv, ModuleInv, FileInv, Installed, vars
  <2> QED
    BY <2>2, <2>3, <2>4
<1> QED
  BY <1>1, <1>2 DEF Inv

LEMMA StutterModule == Inv /\ UNCHANGED vars => Inv'
<1> SUFFICES ASSUME Inv, UNCHANGED vars PROVE Inv'
  OBVIOUS
<1>1. UNCHANGED <<game, installer, option, version, pointer, number, stage, next,
                  memory, request>>
  BY DEF vars
<1>2. \A i : (Laid(i)' <=> Laid(i)) /\ BytesOf(i)' = BytesOf(i)
  BY <1>1 DEF Laid, BytesOf
<1>3. MessageText' = MessageText /\ AgentBytes' = AgentBytes
  BY <1>1 DEF MessageText, SuccessMessageWithoutPw, SuccessMessageWithPw,
     SuccessMessageRandomPw, Message, AgentBytes, UserAgentText
<1>4. (Given' <=> Given) /\ (Pointed' <=> Pointed)
  BY <1>1, Zenon DEF Given, Pointed
<1>5. (Detected' <=> Detected) /\ (Asked' <=> Asked)
  BY <1>1, <1>3, Zenon DEF Detected, Asked
<1>6. Written => Written'
  BY <1>1, <1>2, Zenon DEF Written
<1> QED
  BY <1>1, <1>4, <1>5, <1>6, Zenon DEF Inv, ModuleInv, FileInv

\* Every byte in memory is one an entry of the table wrote, and every entry that
\* has been applied is there whole: start and ApplyGamePatches write what the
\* tables of patches.c say and nothing else (patches.c:58-81).
THEOREM AsTheTablesSay == Spec => []Inv
<1>1. Init => Inv
  BY InitModule
<1>2. Inv /\ [Next]_vars => Inv'
  BY NextModule, StutterModule
<1> QED
  BY <1>1, <1>2, PTL DEF Spec

-------------------------------------------------------------------------------
(* What GetLBPGameNumber looks at, once a game is patched.                 *)

\* The byte that is looked at is in one entry of one table only: the user agent's
\* of its own game.
LEMMA ProbesApart ==
    ASSUME NEW g \in KnownGames, NEW h \in KnownGames, NEW i \in 1 .. Entries(g)
    PROVE  Probe[h] - Starts[g][i] \in 0 .. (Sizes[g][i] - 1) <=> h = g /\ i = 2
<1>1. CASE g = "LBP1"
  <2>1. i \in 1 .. 8
    BY <1>1, SMT DEF Entries
  <2> QED
    BY <1>1, <2>1, SMT DEF Probe, Starts, Sizes, KnownGames
<1>2. CASE g = "LBP2"
  <2>1. i \in 1 .. 8
    BY <1>2, SMT DEF Entries
  <2> QED
    BY <1>2, <2>1, SMT DEF Probe, Starts, Sizes, KnownGames
<1>3. CASE g = "LBP3"
  <2>1. i \in 1 .. 10
    BY <1>3, SMT DEF Entries
  <2> QED
    BY <1>3, <2>1, SMT DEF Probe, Starts, Sizes, KnownGames
<1>4. CASE g = "LBP3_JP"
  <2>1. i \in 1 .. 10
    BY <1>4, SMT DEF Entries
  <2> QED
    BY <1>4, <2>1, SMT DEF Probe, Starts, Sizes, KnownGames
<1> QED
  BY <1>1, <1>2, <1>3, <1>4 DEF KnownGames

\* Of two ranges that do not meet, a byte is in one only.
LEMMA Disjoint ==
    ASSUME NEW p \in Nat, NEW q \in Nat, NEW m \in 1 .. 120, NEW n \in 1 .. 120,
           NEW a \in Nat, a - p \in 0 .. (m - 1), p + m <= q \/ q + n <= p
    PROVE  ~(a - q \in 0 .. (n - 1))
  BY SMT

\* A byte of an entry that was applied is what that entry writes.
LEMMA Applied ==
    ASSUME game \in KnownGames, Written, NEW i \in 1 .. (next - 1), Laid(i),
           NEW k \in 0 .. (Sizes[game][i] - 1)
    PROVE  Byte(Starts[game][i] + k) = BytesOf(i)[k]
<1> DEFINE a == Starts[game][i] + k
<1>1. Entries(game) \in {8, 10} /\ next \in 1 .. (Entries(game) + 1)
  BY DEF Entries, Written
<1>2. i \in 1 .. Entries(game) /\ \A j \in 1 .. (next - 1) : j \in 1 .. Entries(game)
  BY <1>1, SMT
<1>3. a \in DOMAIN memory
  BY Zenon DEF Written
<1>4. PICK j \in 1 .. (next - 1) :
        /\ a - Starts[game][j] \in 0 .. (Sizes[game][j] - 1)
        /\ memory[a] = BytesOf(j)[a - Starts[game][j]]
  BY <1>3, Zenon DEF Written
<1>5. /\ Starts[game][i] \in Nat /\ Starts[game][j] \in Nat
      /\ Sizes[game][i] \in 1 .. 120 /\ Sizes[game][j] \in 1 .. 120
      /\ i # j => \/ Starts[game][i] + Sizes[game][i] <= Starts[game][j]
                  \/ Starts[game][j] + Sizes[game][j] <= Starts[game][i]
  BY <1>2, StartsApart, SMT DEF Apart
<1>6. a \in Nat /\ a - Starts[game][i] = k
  BY <1>5, SMT
<1>7. j = i
  <2> HIDE DEF a
  <2> QED
    BY <1>4, <1>5, <1>6, Disjoint, Zenon
<1> QED
  BY <1>3, <1>4, <1>6, <1>7, Zenon DEF Byte

\* One that no entry reaches is the game's own.
LEMMA Outside ==
    ASSUME Written, NEW a,
           \A i \in 1 .. Entries(game) :
               ~(Laid(i) /\ a - Starts[game][i] \in 0 .. (Sizes[game][i] - 1))
    PROVE  a \notin DOMAIN memory
<1>1. Entries(game) \in {8, 10} /\ next \in 1 .. (Entries(game) + 1)
  BY DEF Entries, Written
<1>2. \A j \in 1 .. (next - 1) : j \in 1 .. Entries(game)
  BY <1>1, SMT
<1> QED
  BY <1>2, Zenon DEF Written

LEMMA Own ==
    ASSUME Written, NEW a,
           \A i \in 1 .. Entries(game) :
               ~(Laid(i) /\ a - Starts[game][i] \in 0 .. (Sizes[game][i] - 1))
    PROVE  Byte(a) = Original(a)
  BY Outside, Zenon DEF Byte

\* What the user agent's entry leaves of the mark.
LEMMA MarkGone ==
    ASSUME game \in KnownGames, version \in Versions
    PROVE  Text(AgentBytes, Sizes[game][2])[Probe[game] - Starts[game][2]] # Mark(game)
<1>1. Sizes[game][2] = 22
      /\ Probe[game] - Starts[game][2] = IF game = "LBP1" THEN 15 ELSE 18
  BY SMT DEF Sizes, Probe, Starts, KnownGames
<1>2. PICK l \in 18 .. 21 :
        /\ Len(AgentBytes) = l
        /\ AgentBytes[16] = <<"char", ".">>
        /\ l > 18 => AgentBytes[19] = <<"char", " ">> \/ AgentBytes[19] = <<"char", "N">>
  BY AgentIs, Zenon
<1> DEFINE text == Text(AgentBytes, 22)
           blank == " "
<1>3. \A k \in 0 .. 21 : text[k] = IF k < l THEN AgentBytes[k + 1]
                                   ELSE IF k = l THEN Nul ELSE <<"behind", k>>
  <2>1. \A k \in 0 .. (22 - 1) :
          text[k] = IF k < Len(AgentBytes) THEN AgentBytes[k + 1]
                    ELSE IF k = Len(AgentBytes) THEN Nul ELSE <<"behind", k>>
    BY Zenon DEF Text
  <2>2. 0 .. (22 - 1) = 0 .. 21
    BY SMT
  <2> QED
    BY <1>2, <2>1, <2>2, Zenon
<1> HIDE DEF text
<1>4. text[15] = <<"char", ".">>
  <2>1. 15 \in 0 .. 21 /\ 15 < l /\ 15 + 1 = 16
    BY SMT
  <2> QED
    BY <1>2, <1>3, <2>1, Zenon
<1>5. text[18] = <<"char", blank>> \/ text[18] = <<"char", "N">> \/ text[18] = Nul
  <2>1. 18 \in 0 .. 21 /\ 18 + 1 = 19 /\ (18 < l <=> l > 18) /\ (~(l > 18) => 18 = l)
    BY SMT
  <2> QED
    BY <1>2, <1>3, <2>1, Zenon DEF blank
<1>6. /\ <<"char", ".">> # <<"char", "$">> /\ Nul # <<"char", "2">>
      /\ <<"char", "N">> # <<"char", "2">>
  BY SMT DEF Nul
<1>7. <<"char", blank>> # <<"char", "2">>
  <2>1. blank # "2"
    BY Zenon DEF blank
  <2> HIDE DEF blank
  <2> QED
    BY <2>1, SMT
<1> HIDE DEF blank
<1>8. CASE game = "LBP1"
  <2>1. Probe[game] - Starts[game][2] = 15 /\ Mark(game) = <<"char", "$">>
    BY <1>1, <1>8, Zenon DEF Mark
  <2> QED
    BY <1>1, <1>4, <1>6, <2>1, Zenon DEF text
<1>9. CASE game # "LBP1"
  <2>1. Probe[game] - Starts[game][2] = 18 /\ Mark(game) = <<"char", "2">>
    BY <1>1, <1>9, Zenon DEF Mark
  <2> QED
    BY <1>1, <1>5, <1>6, <1>7, <2>1, Zenon DEF text
<1> QED
  BY <1>8, <1>9

\* The whole table has been gone through: what the user agent's entry has written.
LEMMA AgentWritten ==
    ASSUME Given, Detected, Written, stage = "done"
    PROVE  /\ game \in KnownGames /\ version \in Versions
           /\ 2 \in 1 .. (next - 1) /\ Laid(2)
           /\ BytesOf(2) = Text(AgentBytes, Sizes[game][2])
<1>1. game \in KnownGames /\ version \in Versions
  BY GamesAssumption DEF Given
<1>2. Entries(game) \in {8, 10} /\ next = Entries(game) + 1
  BY DEF Entries, Written
<1>3. 2 \in 1 .. (next - 1) /\ ~(2 > Entries(game) - 3)
  BY <1>2, SMT
<1>4. Source(game, 2) = "UserAgent"
  BY <1>2, SMT DEF Source
<1>5. "UserAgent" \in DOMAIN pointer /\ pointer["UserAgent"] = AgentBytes
  BY DEF Detected
<1> QED
  BY <1>1, <1>3, <1>4, <1>5, Zenon DEF Laid, BytesOf

LEMMA Hidden == Inv => DetectionHidden
<1> SUFFICES ASSUME Inv, installer = "module"
             PROVE  /\ stage \in {"agent", "announce", "apply", "done"} => number = game
                    /\ stage = "done" => GetLBPGameNumber = "unknown"
  BY DEF DetectionHidden
<1>1. Given /\ Detected /\ Written
  BY DEF Inv, ModuleInv
<1>2. stage \in {"agent", "announce", "apply", "done"} => number = game
  BY <1>1 DEF Detected
<1>3. ASSUME stage = "done" PROVE GetLBPGameNumber = "unknown"
  <2>1. /\ game \in KnownGames /\ version \in Versions
        /\ 2 \in 1 .. (next - 1) /\ Laid(2)
        /\ BytesOf(2) = Text(AgentBytes, Sizes[game][2])
    BY <1>1, <1>3, AgentWritten
  <2>2. ASSUME NEW h \in KnownGames PROVE Byte(Probe[h]) # Mark(h)
    <3>1. CASE h = game
      <4>1. 2 \in 1 .. Entries(game)
        BY SMT DEF Entries
      <4>2. Probe[game] - Starts[game][2] \in 0 .. (Sizes[game][2] - 1)
        BY <2>1, <4>1, ProbesApart, Zenon
      <4>3. Starts[game][2] + (Probe[game] - Starts[game][2]) = Probe[game]
        BY <2>1, SMT DEF Starts, Probe, KnownGames
      <4>4. Byte(Probe[game])
              = Text(AgentBytes, Sizes[game][2])[Probe[game] - Starts[game][2]]
        BY <1>1, <2>1, <4>2, <4>3, Applied, Zenon
      <4> QED
        BY <2>1, <3>1, <4>4, MarkGone, Zenon
    <3>2. CASE h # game
      <4>1. \A i \in 1 .. Entries(game) :
              ~(Laid(i) /\ Probe[h] - Starts[game][i] \in 0 .. (Sizes[game][i] - 1))
        BY <2>1, <3>2, ProbesApart, Zenon
      <4>2. Byte(Probe[h]) = Original(Probe[h])
        BY <1>1, <4>1, Own, Zenon
      <4> QED
        BY <2>1, <3>2, <4>2, Marked, Zenon
    <3> QED
      BY <3>1, <3>2
  <2> QED
    BY <2>2, Numbered, Zenon
<1> QED
  BY <1>2, <1>3

\* DetectionHidden, for any configuration and any version of at most two digits:
\* the game in memory is detected, and once its table has been applied no game is
\* (patches.c:84-90, prx.c:151-152).
THEOREM DetectedOnce == Spec => []DetectionHidden
  BY AsTheTablesSay, Hidden, PTL

-------------------------------------------------------------------------------
(* The message.                                                            *)

\* A version takes three places or four.
LEMMA Digits ==
    ASSUME version \in Versions
    PROVE  \E d \in {3, 4} : Len(version.major) + 1 + Len(version.minor) = d
<1>1. Len(version.major) = 1 /\ Len(version.minor) \in {1, 2}
  BY VersionsAssumption, Zenon
<1>2. PICK m \in {1, 2} : Len(version.minor) = m
  BY <1>1, Zenon
<1>3. Len(version.major) + 1 + Len(version.minor) = 1 + 1 + m
  BY <1>1, <1>2, Zenon
<1>4. 1 + 1 + m \in {3, 4}
  BY SMT
<1> QED
  BY <1>3, <1>4, Zenon

\* The lengths of the texts without the version's.
Lengths == {93, 96, 103}

\* The place of the X, which is the only one.
LEMMA Spelt ==
    ASSUME version \in Versions, NEW length \in Lengths, NEW c
    PROVE  /\ Len(ReplaceNext(Message(length), "X", c))
                = length + (Len(version.major) + 1 + Len(version.minor))
           /\ \E k \in DOMAIN ReplaceNext(Message(length), "X", c) :
                 ReplaceNext(Message(length), "X", c)[k] = c
<1> DEFINE digits == Len(version.major) + 1 + Len(version.minor)
           str == Message(length)
           found == {i \in DOMAIN str : str[i] = "X"}
<1>2. PICK d \in {3, 4} : digits = d
  BY Digits, Zenon
<1>3. str = [i \in 1 .. (length + d) |-> IF i = 45 + d THEN "X" ELSE "m"]
  BY <1>2, Zenon DEF Message
<1> HIDE DEF digits, str
<1>4. found = {45 + d} /\ 45 + d \in 1 .. (length + d)
  BY <1>3, SMT DEF Lengths
<1>5. found # {} /\ Min(found) = 45 + d
  <2>1. \A x \in {45 + d} : \A y \in {45 + d} : x <= y
    BY SMT
  <2> QED
    BY <1>4, <2>1, Zenon DEF Min
<1>6. ReplaceNext(str, "X", c) = [str EXCEPT ![45 + d] = c]
  BY <1>5, Zenon DEF ReplaceNext
<1>7. DOMAIN [str EXCEPT ![45 + d] = c] = 1 .. (length + d)
      /\ [str EXCEPT ![45 + d] = c][45 + d] = c
  BY <1>3, <1>4, SMT DEF Lengths
<1>8. Len([str EXCEPT ![45 + d] = c]) = length + d
  BY <1>7, SMT DEF Lengths
<1> DEFINE answer == ReplaceNext(str, "X", c)
<1>9. Len(answer) = length + digits
  BY <1>2, <1>6, <1>8, Zenon
<1>10. 45 + d \in DOMAIN answer /\ answer[45 + d] = c
  BY <1>4, <1>6, <1>7, Zenon
<1> HIDE DEF answer
<1>11. \E k \in DOMAIN answer : answer[k] = c
  BY <1>10, Zenon
<1> QED
  BY <1>9, <1>11, Zenon DEF answer, str, digits

\* What is left of the buffer by the longest text.
LEMMA Room ==
    ASSUME version \in Versions
    PROVE  LET digits == Len(version.major) + 1 + Len(version.minor)
           IN  \A length \in Lengths : length + digits + 1 <= MessageBuffer
<1>2. PICK d \in {3, 4} : Len(version.major) + 1 + Len(version.minor) = d
  BY Digits, Zenon
<1>3. SuccessMessageWithoutPw = [i \in 1 .. (93 + d) |-> IF i = 45 + d THEN "X" ELSE "m"]
  BY <1>2, Zenon DEF SuccessMessageWithoutPw, Message
<1>4. Len(SuccessMessageWithoutPw) = 93 + d
  BY <1>3, SMT
<1>5. MessageBuffer = (((93 + d + 1) + 15) \div 16) * 16
  BY <1>4, Zenon DEF MessageBuffer
<1>6. MessageBuffer = 112
  BY <1>5, SMT
<1>7. \A length \in Lengths : length + d + 1 <= 112
  BY SMT DEF Lengths
<1> QED
  BY <1>2, <1>6, <1>7, Zenon

LEMMA Announcement == Inv => Announced
<1> SUFFICES ASSUME Inv, NEW i \in DOMAIN request
             PROVE  /\ Len(request[i]) + 1 <= MessageBuffer
                    /\ \E k \in DOMAIN request[i] : request[i][k] = Digit[game]
                    /\ stage = "done" =>
                          Byte(Offset[game].agent + 12) = <<"char", Digit[game]>>
  BY DEF Announced
<1>1. DOMAIN <<>> = {} /\ \A x : DOMAIN <<x>> = {1} /\ <<x>>[1] = x
  BY SMT
<1>2. installer = "module"
  BY <1>1 DEF Inv, FileInv
<1>3. Given /\ Detected /\ Written /\ Asked
  BY <1>2 DEF Inv, ModuleInv
<1>4. game \in KnownGames /\ version \in Versions
  BY <1>3, GamesAssumption DEF Given
<1>5. /\ stage \in {"apply", "done"} /\ i = 1
      /\ request[i] = ReplaceNext(MessageText, "X", Digit[game])
  BY <1>1, <1>3, Zenon DEF Asked
<1>6. PICK length \in Lengths : MessageText = Message(length)
  <2>1. 93 \in Lengths /\ 96 \in Lengths /\ 103 \in Lengths
    BY SMT DEF Lengths
  <2> QED
    BY <2>1, Zenon DEF MessageText, SuccessMessageWithoutPw, SuccessMessageWithPw,
       SuccessMessageRandomPw
<1>7. Len(request[i]) + 1 <= MessageBuffer
  <2>1. Len(request[i]) = length + (Len(version.major) + 1 + Len(version.minor))
    BY <1>4, <1>5, <1>6, Spelt, Zenon
  <2>2. length + (Len(version.major) + 1 + Len(version.minor)) + 1 <= MessageBuffer
    BY <1>4, Room, Zenon
  <2> QED
    BY <2>1, <2>2, Zenon
<1>8. \E k \in DOMAIN request[i] : request[i][k] = Digit[game]
  <2> DEFINE answer == ReplaceNext(Message(length), "X", Digit[game])
  <2>1. \E k \in DOMAIN answer : answer[k] = Digit[game]
    BY <1>4, Spelt, Zenon
  <2>2. request[i] = answer
    BY <1>5, <1>6, Zenon
  <2> HIDE DEF answer
  <2> QED
    BY <2>1, <2>2, Zenon
<1>9. ASSUME stage = "done"
      PROVE  Byte(Offset[game].agent + 12) = <<"char", Digit[game]>>
  <2>1. /\ 2 \in 1 .. (next - 1) /\ Laid(2)
        /\ BytesOf(2) = Text(AgentBytes, Sizes[game][2])
    BY <1>3, <1>9, AgentWritten
  <2>2. Sizes[game][2] = 22 /\ Offset[game].agent = Starts[game][2]
    BY <1>4, SMT DEF Sizes, Offset, Starts, KnownGames
  <2>3. 12 \in 0 .. (22 - 1) /\ 12 \in 0 .. 21 /\ 12 + 1 = 13
    BY SMT
  <2>4. Byte(Starts[game][2] + 12) = Text(AgentBytes, 22)[12]
    <3>1. 12 \in 0 .. (Sizes[game][2] - 1)
      BY <2>2, <2>3, Zenon
    <3>2. Byte(Starts[game][2] + 12) = BytesOf(2)[12]
      <4> DEFINE k == 12
      <4>1. k \in 0 .. (Sizes[game][2] - 1)
        BY <3>1, Zenon
      <4> HIDE DEF k
      <4>2. Byte(Starts[game][2] + k) = BytesOf(2)[k]
        BY <1>3, <1>4, <2>1, <4>1, Applied, Zenon
      <4> QED
        BY <4>2, Zenon DEF k
    <3> QED
      BY <2>1, <2>2, <3>2, Zenon
  <2>5. PICK l \in 18 .. 21 : Len(AgentBytes) = l
                              /\ AgentBytes[13] = <<"char", Digit[number]>>
    BY <1>4, AgentIs, Zenon
  <2>6. Text(AgentBytes, 22)[12] = AgentBytes[13]
    BY <2>5, SMT DEF Text
  <2>7. number = game
    BY <1>3, <1>9 DEF Detected
  <2> QED
    BY <2>2, <2>4, <2>5, <2>6, <2>7, Zenon
<1> QED
  BY <1>5, <1>7, <1>8, <1>9

\* Announced, for any configuration and any version of at most two digits: the
\* text fits what alloca reserved for the shortest one, and names the game the
\* user agent does (prx.c:167-186).
THEOREM PopupFits == Spec => []Announced
  BY AsTheTablesSay, Announcement, PTL

-------------------------------------------------------------------------------
(* What the module has written stays.                                      *)

LEMMA Kept ==
    ASSUME installer = "module", Inv, Next, NEW a \in DOMAIN memory
    PROVE  memory'[a] = memory[a]
<1>1. Given /\ Pointed /\ Detected /\ Written
  BY DEF Inv, ModuleInv
<1>2. CASE ApplyPatch
  <2>1. /\ next \in 1 .. Entries(game)
        /\ IF Laid(next) THEN Write(Starts[game][next], BytesOf(next))
                         ELSE UNCHANGED memory
    BY <1>1, <1>2, RoundEffect
  <2>2. CASE ~Laid(next)
    BY <2>1, <2>2
  <2>3. CASE Laid(next)
    <3> DEFINE at == Starts[game][next]
    <3>1. game \in KnownGames /\ Entries(game) \in {8, 10}
      BY <1>1, GamesAssumption DEF Given, Entries
    <3>2. DOMAIN BytesOf(next) = 0 .. (Sizes[game][next] - 1)
      BY <2>1, <3>1, LaidSize
    <3>3. PICK i \in 1 .. (next - 1) : a - Starts[game][i] \in 0 .. (Sizes[game][i] - 1)
      BY <1>1, Zenon DEF Written
    <3>4. i \in 1 .. Entries(game) /\ i # next
      BY <2>1, <3>1, <3>3, SMT
    <3>5. /\ at \in Nat /\ Starts[game][i] \in Nat /\ a \in Nat
          /\ Sizes[game][i] \in 1 .. 120 /\ Sizes[game][next] \in 1 .. 120
          /\ \/ Starts[game][i] + Sizes[game][i] <= at
             \/ at + Sizes[game][next] <= Starts[game][i]
      BY <1>1, <2>1, <3>1, <3>4, StartsApart, SMT DEF Apart, Written
    <3>6. a - at \notin DOMAIN BytesOf(next)
      BY <3>2, <3>3, <3>5, Disjoint, Zenon
    <3>7. a \in DOMAIN memory' /\ (a - at \notin DOMAIN BytesOf(next)
                                      => memory'[a] = memory[a])
      BY <2>1, <2>3, WriteEffect, Zenon
    <3> QED
      BY <3>6, <3>7
  <2> QED
    BY <2>2, <2>3
<1>3. CASE ~ApplyPatch
  <2>1. UNCHANGED memory
    BY <1>1, <1>3, ModuleSteps DEF SetKey, SetServerURL, SetServerDigest, SetString,
       DetectGame, SetUserAgent, Announce, Finish, Installed, vars
  <2> QED
    BY <2>1
<1> QED
  BY <1>2, <1>3

\* NothingOverwritten of the module, whatever it was configured with: no two
\* entries of a table share a byte, strings of any length included
\* (patches.c:72-79, offsets.h:5-62).
THEOREM EntriesApart ==
    Spec => [][installer = "module" =>
                   \A address \in DOMAIN memory :
                       memory'[address] = memory[address]]_vars
<1>1. Inv /\ [Next]_vars
        => [installer = "module" =>
              \A address \in DOMAIN memory : memory'[address] = memory[address]]_vars
  <2> SUFFICES ASSUME Inv, Next \/ UNCHANGED vars, installer = "module",
                      NEW address \in DOMAIN memory
               PROVE  memory'[address] = memory[address] \/ UNCHANGED vars
    BY Zenon
  <2>1. CASE Next
    BY <2>1, Kept
  <2>2. CASE UNCHANGED vars
    BY <2>2
  <2> QED
    BY <2>1, <2>2
<1> QED
  BY <1>1, AsTheTablesSay, PTL DEF Spec

-------------------------------------------------------------------------------
(* The two fixes, whole.                                                   *)

\* The module's part of FixesInPlace at the end.
LEMMA Fixed == Inv /\ installer = "module" => FixesInPlace
<1> SUFFICES ASSUME Inv, installer = "module", stage = "done"
             PROVE  /\ \A k \in DOMAIN Code(ForceJoin[game]) :
                          Byte(ForceJoinAddress[game] + k) = Code(ForceJoin[game])[k]
                    /\ \E word \in {Byte(ResourceCheck[game])[2]} :
                          /\ \A k \in 0..3 :
                                Byte(ResourceCheck[game] + k) = <<"branch", word, k>>
                          /\ BranchTarget(word, ResourceCheck[game])
                                = HookAddress[game]
  BY Zenon DEF FixesInPlace
<1>1. Given /\ Written
  BY DEF Inv, ModuleInv
<1>2. game \in Games /\ game \in KnownGames
  BY <1>1, GamesAssumption DEF Given
<1> DEFINE n == Entries(game)
           word == RelativeBranch(HookAddress[game], ResourceCheck[game])
<1>3. n \in {8, 10} /\ next = n + 1
  BY <1>1 DEF Entries, Written
<1> HIDE DEF n
<1>4. /\ n \in 1 .. (next - 1) /\ n - 1 \in 1 .. (next - 1)
      /\ n > n - 3 /\ n - 1 > n - 3 /\ n # n - 2 /\ n - 1 # n - 2 /\ n # n - 1
      /\ ~(n <= n - 3) /\ ~(n - 1 <= n - 3)
      /\ n \in 1 .. n /\ n - 1 \in 1 .. n
  BY <1>3, SMT
<1>5. /\ Laid(n) /\ BytesOf(n) = JoinBytes(game)
      /\ Laid(n - 1) /\ BytesOf(n - 1) = CheckBytes(game)
  <2>1. Laid(n) /\ Laid(n - 1)
    BY <1>4, Zenon DEF Laid, n
  <2>2. BytesOf(n) = DirectBytes(game, n) /\ BytesOf(n - 1) = DirectBytes(game, n - 1)
    BY <1>4, Zenon DEF BytesOf, n
  <2>3. DirectBytes(game, n) = JoinBytes(game)
        /\ DirectBytes(game, n - 1) = CheckBytes(game)
    BY <1>4, SMT DEF DirectBytes, n
  <2> QED
    BY <2>1, <2>2, <2>3
<1>6. Starts[game][n] = ForceJoinAddress[game] /\ Starts[game][n - 1] = ResourceCheck[game]
  BY <1>2, SMT DEF Starts, ForceJoinAddress, ResourceCheck, KnownGames, n, Entries
<1>7. DOMAIN JoinBytes(game) = 0 .. (Sizes[game][n] - 1)
      /\ DOMAIN CheckBytes(game) = 0 .. (Sizes[game][n - 1] - 1)
  <2>1. n \in 1 .. Entries(game) /\ n - 1 \in 1 .. Entries(game)
    BY <1>4 DEF n
  <2> QED
    BY <1>2, <1>5, <2>1, LaidSize, Zenon
<1>8. \A k \in DOMAIN JoinBytes(game) :
        Byte(ForceJoinAddress[game] + k) = JoinBytes(game)[k]
  BY <1>1, <1>2, <1>4, <1>5, <1>6, <1>7, Applied, Zenon
<1>9. \A k \in DOMAIN CheckBytes(game) :
        Byte(ResourceCheck[game] + k) = CheckBytes(game)[k]
  BY <1>1, <1>2, <1>4, <1>5, <1>6, <1>7, Applied, Zenon
<1>10. JoinBytes(game) = Code(ForceJoin[game])
  <2>1. PICK S : ForceJoin[game] \in Seq(S)
    BY <1>2, JoinWhole
  <2>2. ForceJoinLength[game] \div 4 = Len(ForceJoin[game])
    BY <1>2, JoinWhole, Zenon
  <2>3. SubSeq(ForceJoin[game], 1, Len(ForceJoin[game])) = ForceJoin[game]
    BY <2>1
  <2> QED
    BY <2>2, <2>3, Zenon DEF JoinBytes
<1>11. \A k \in 0 .. 3 : Byte(ResourceCheck[game] + k) = <<"branch", word, k>>
  <2>1. CheckBytes(game) = [k \in 0 .. 3 |-> <<"branch", word, k>>]
    BY Zenon DEF CheckBytes, Branch
  <2> HIDE DEF word
  <2> QED
    BY <1>9, <2>1, Zenon
<1>12. Byte(ResourceCheck[game])[2] = word
  <2> HIDE DEF word
  <2>1. ResourceCheck[game] + 0 = ResourceCheck[game] /\ 0 \in 0 .. 3
    BY <1>2, SiteWord
  <2>2. Byte(ResourceCheck[game]) = <<"branch", word, 0>>
    BY <1>11, <2>1, Zenon
  <2> QED
    BY <2>2, SMT
<1>13. BranchTarget(word, ResourceCheck[game]) = HookAddress[game]
  BY <1>2, ReachAssumption, SiteWord, BranchLands
<1> HIDE DEF word
<1> QED
  BY <1>8, <1>10, <1>11, <1>12, <1>13, Zenon

\* FixesInPlace of the module, wherever the hooks were loaded within reach: the
\* routine is over the game's code whole, and the check branches to the hook
\* (patches.c:93-118).
THEOREM ModuleFixes == Spec => [](installer = "module" => FixesInPlace)
  BY AsTheTablesSay, Fixed, PTL

-------------------------------------------------------------------------------
(* What is left of a string without the whitespace at its end.             *)

LEMMA Least ==
    ASSUME NEW T, T \subseteq Nat, T # {}
    PROVE  \E x \in T : \A y \in T : x <= y
<1> DEFINE R == OpToRel(<, Nat)
<1>1. \A x, y \in Nat : <<y, x>> \in R <=> y < x
  BY SMT DEF OpToRel
<1>2. IsWellFoundedOn(R, Nat)
  BY NatLessThanWellFounded
<1> HIDE DEF R
<1>3. PICK x \in T : \A y \in T : ~(<<y, x>> \in R)
  BY <1>2, WFMin, Zenon
<1>4. \A y \in T : ~(y < x)
  BY <1>1, <1>3, Zenon
<1> QED
  BY <1>4

\* A set of naturals that has a bound has a greatest member.
LEMMA Greatest ==
    ASSUME NEW T, NEW n \in Nat, T \subseteq 0 .. n, T # {}
    PROVE  Max(T) \in T /\ \A y \in T : y <= Max(T)
<1> DEFINE U == {n - x : x \in T}
<1>1. U \subseteq Nat /\ U # {}
  <2>1. \A x \in T : n - x \in Nat
    OBVIOUS
  <2> QED
    BY <2>1, Zenon
<1>2. PICK u \in U : \A v \in U : u <= v
  BY <1>1, Least
<1>3. PICK x \in T : u = n - x
  OBVIOUS
<1>4. \A y \in T : x >= y
  <2>1. \A y \in T : n - x <= n - y
    BY <1>2, <1>3, Zenon
  <2> QED
    BY <2>1
<1>5. Max(T) \in T /\ \A y \in T : Max(T) >= y
  BY <1>4, Zenon DEF Max
<1> QED
  BY <1>5, SMT

LEMMA TrimEndTrims ==
    ASSUME NEW S, NEW str \in Seq(S)
    PROVE  \E n \in 0 .. Len(str) :
              TrimEnd(str) = SubSeq(str, 1, n) /\ Trimmed(str, SubSeq(str, 1, n))
<1> DEFINE blank == " "
           kept == {i \in DOMAIN str : i = 1 \/ str[i] # blank}
           n == IF kept = {} THEN 0 ELSE Max(kept)
<1>1. TrimEnd(str) = SubSeq(str, 1, n)
  BY Zenon DEF TrimEnd
<1>2. \A m \in 0 .. Len(str) :
        (/\ \A i \in (m + 1) .. Len(str) : str[i] = blank
         /\ m > 1 => str[m] # blank
         /\ m = 0 => str = <<>>)
        => Trimmed(str, SubSeq(str, 1, m))
  BY Zenon DEF Trimmed
<1> HIDE DEF blank
<1>3. Len(str) \in Nat /\ DOMAIN str = 1 .. Len(str) /\ kept \subseteq 0 .. Len(str)
  OBVIOUS
<1>4. /\ n \in 0 .. Len(str)
      /\ \A i \in (n + 1) .. Len(str) : str[i] = blank
      /\ n > 1 => str[n] # blank
      /\ n = 0 => str = <<>>
  <2>1. CASE kept = {}
    <3>1. 1 \notin DOMAIN str /\ n = 0
      BY <2>1
    <3>2. Len(str) = 0
      BY <1>3, <3>1
    <3> HIDE DEF n, kept
    <3>3. str = <<>>
      BY <3>2
    <3> QED
      BY <3>1, <3>2, <3>3, SMT
  <2>2. CASE kept # {}
    <3>1. n \in kept /\ \A i \in kept : i <= n
      BY <1>3, <2>2, Greatest, Zenon
    <3> HIDE DEF n
    <3>2. n \in 1 .. Len(str) /\ (n = 1 \/ str[n] # blank)
      BY <1>3, <3>1
    <3>3. \A i \in (n + 1) .. Len(str) : i \in DOMAIN str /\ ~(i <= n)
      BY <1>3, <3>2, SMT
    <3>4. \A i \in (n + 1) .. Len(str) : str[i] = blank
      BY <3>1, <3>3, Zenon
    <3> QED
      BY <3>2, <3>4, SMT
  <2> QED
    BY <2>1, <2>2, Zenon
<1> HIDE DEF n
<1> QED
  BY <1>1, <1>2, <1>4, Zenon

-------------------------------------------------------------------------------
(* What the game reads where its strings were.                             *)

\* The entry of a URL or of the digest.
LEMMA SiteEntry ==
    ASSUME NEW g \in KnownGames, NEW site \in UrlSites(g) \union {"digest"}
    PROVE  \E i \in 1 .. Entries(g) :
              /\ Starts[g][i] = Offset[g][site] /\ ~(i > Entries(g) - 3)
              /\ Source(g, i) = IF site = "digest" THEN "ServerDigest" ELSE "ServerURL"
              /\ Sizes[g][i] = IF site = "digest" THEN 18 ELSE 70
<1>1. CASE g = "LBP1"
  <2>1. /\ Entries(g) = 8
        /\ Offset[g]["https"] = Starts[g][3] /\ Offset[g]["http"] = Starts[g][4]
        /\ Offset[g]["digest"] = Starts[g][5]
        /\ Sizes[g][3] = 70 /\ Sizes[g][4] = 70 /\ Sizes[g][5] = 18
        /\ site \in {"https", "http", "digest"}
    BY <1>1, SMT DEF Offset, Starts, Sizes, Entries, UrlSites
  <2>2. /\ Source(g, 3) = "ServerURL" /\ Source(g, 4) = "ServerURL"
        /\ Source(g, 5) = "ServerDigest"
        /\ 3 \in 1 .. Entries(g) /\ ~(3 > Entries(g) - 3)
        /\ 4 \in 1 .. Entries(g) /\ ~(4 > Entries(g) - 3)
        /\ 5 \in 1 .. Entries(g) /\ ~(5 > Entries(g) - 3)
    BY <2>1, SMT DEF Source
  <2> QED
    BY <2>1, <2>2
<1>2. CASE g = "LBP2"
  <2>1. /\ Entries(g) = 8
        /\ Offset[g]["https"] = Starts[g][3] /\ Offset[g]["http"] = Starts[g][4]
        /\ Offset[g]["digest"] = Starts[g][5]
        /\ Sizes[g][3] = 70 /\ Sizes[g][4] = 70 /\ Sizes[g][5] = 18
        /\ site \in {"https", "http", "digest"}
    BY <1>2, SMT DEF Offset, Starts, Sizes, Entries, UrlSites
  <2>2. /\ Source(g, 3) = "ServerURL" /\ Source(g, 4) = "ServerURL"
        /\ Source(g, 5) = "ServerDigest"
        /\ 3 \in 1 .. Entries(g) /\ ~(3 > Entries(g) - 3)
        /\ 4 \in 1 .. Entries(g) /\ ~(4 > Entries(g) - 3)
        /\ 5 \in 1 .. Entries(g) /\ ~(5 > Entries(g) - 3)
    BY <2>1, SMT DEF Source
  <2> QED
    BY <2>1, <2>2
<1>3. CASE g \in {"LBP3", "LBP3_JP"}
  <2>1. /\ Entries(g) = 10
        /\ Offset[g]["https"] = Starts[g][3] /\ Offset[g]["http"] = Starts[g][4]
        /\ Offset[g]["presence"] = Starts[g][5] /\ Offset[g]["live"] = Starts[g][6]
        /\ Offset[g]["digest"] = Starts[g][7]
        /\ Sizes[g][3] = 70 /\ Sizes[g][4] = 70 /\ Sizes[g][5] = 70
        /\ Sizes[g][6] = 70 /\ Sizes[g][7] = 18
        /\ site \in {"https", "http", "presence", "live", "digest"}
    BY <1>3, SMT DEF Offset, Starts, Sizes, Entries, UrlSites
  <2>2. /\ \A k \in 3 .. 6 : Source(g, k) = "ServerURL"
        /\ Source(g, 7) = "ServerDigest"
        /\ \A k \in 3 .. 7 : k \in 1 .. Entries(g) /\ ~(k > Entries(g) - 3)
    BY <2>1, SMT DEF Source
  <2>3. 3 \in 3 .. 6 /\ 4 \in 3 .. 6 /\ 5 \in 3 .. 6 /\ 6 \in 3 .. 6
        /\ 3 \in 3 .. 7 /\ 4 \in 3 .. 7 /\ 5 \in 3 .. 7 /\ 6 \in 3 .. 7 /\ 7 \in 3 .. 7
    OBVIOUS
  <2> QED
    BY <2>1, <2>2, <2>3
<1> QED
  BY <1>1, <1>2, <1>3 DEF KnownGames

\* The byte behind the digest's field is the game's own, and ends a string.
LEMMA DigestEnd ==
    ASSUME game \in KnownGames
    PROVE  /\ \A i \in 1 .. Entries(game) :
                 ~((Offset[game].digest + 18) - Starts[game][i]
                       \in 0 .. (Sizes[game][i] - 1))
           /\ Original(Offset[game].digest + 18) = Nul
<1>1. CASE game = "LBP1"
  <2>1. Entries(game) = 8
    BY <1>1 DEF Entries
  <2> QED
    BY <1>1, <2>1, SMT DEF Offset, Starts, Sizes, Original, LBP_DIGEST_LENGTH
<1>2. CASE game = "LBP2"
  <2>1. Entries(game) = 8
    BY <1>2 DEF Entries
  <2> QED
    BY <1>2, <2>1, SMT DEF Offset, Starts, Sizes, Original, LBP_DIGEST_LENGTH
<1>3. CASE game = "LBP3"
  <2>1. Entries(game) = 10
    BY <1>3 DEF Entries
  <2> QED
    BY <1>3, <2>1, SMT DEF Offset, Starts, Sizes, Original, LBP_DIGEST_LENGTH
<1>4. CASE game = "LBP3_JP"
  <2>1. Entries(game) = 10
    BY <1>4 DEF Entries
  <2> QED
    BY <1>4, <2>1, SMT DEF Offset, Starts, Sizes, Original, LBP_DIGEST_LENGTH
<1> QED
  BY <1>1, <1>2, <1>3, <1>4 DEF KnownGames

\* No byte of an entry that was left out has been written.
LEMMA LeftAlone ==
    ASSUME game \in KnownGames, Written, NEW i \in 1 .. Entries(game), ~Laid(i),
           NEW k \in 0 .. (Sizes[game][i] - 1)
    PROVE  Starts[game][i] + k \notin DOMAIN memory
<1> DEFINE a == Starts[game][i] + k
<1> SUFFICES ASSUME a \in DOMAIN memory PROVE FALSE
  OBVIOUS
<1>1. PICK j \in 1 .. (next - 1) :
        Laid(j) /\ a - Starts[game][j] \in 0 .. (Sizes[game][j] - 1)
  BY Zenon DEF Written
<1>2. Entries(game) \in {8, 10} /\ next \in 1 .. (Entries(game) + 1)
  BY DEF Entries, Written
<1>3. j \in 1 .. Entries(game)
  BY <1>2, SMT
<1>4. j # i
  BY <1>1
<1>5. /\ Starts[game][i] \in Nat /\ Starts[game][j] \in Nat
      /\ Sizes[game][i] \in 1 .. 120 /\ Sizes[game][j] \in 1 .. 120
      /\ \/ Starts[game][i] + Sizes[game][i] <= Starts[game][j]
         \/ Starts[game][j] + Sizes[game][j] <= Starts[game][i]
  BY <1>3, <1>4, StartsApart, SMT DEF Apart
<1>6. a \in Nat /\ a - Starts[game][i] = k
  BY <1>5, SMT
<1> HIDE DEF a
<1>7. ~(a - Starts[game][j] \in 0 .. (Sizes[game][j] - 1))
  BY <1>5, <1>6, Disjoint, Zenon
<1> QED
  BY <1>1, <1>7

\* A string of n characters whose first size bytes are copied.
LEMMA Reads ==
    ASSUME NEW S, NEW s \in Seq(S), NEW size \in Nat, NEW address \in Nat,
           \A k \in 0 .. (size - 1) : Byte(address + k) = Text(Chars(s), size)[k],
           Len(s) <= size, Len(s) = size => Byte(address + size) = Nul
    PROVE  ReadsAs(address, s)
<1> DEFINE bytes == Chars(s)
           n == Len(s)
<1>1. n \in Nat /\ DOMAIN s = 1 .. n /\ n <= size
  OBVIOUS
<1>2. bytes = [i \in 1 .. n |-> <<"char", s[i]>>]
  BY <1>1, Zenon DEF Chars
<1> HIDE DEF n
<1>3. Len(bytes) = n
  BY <1>1, <1>2, SMT
<1>4. \A k \in 0 .. (size - 1) :
        Byte(address + k) = IF k < n THEN bytes[k + 1]
                            ELSE IF k = n THEN Nul ELSE <<"behind", k>>
  <2>1. Text(bytes, size) =
          [k \in 0 .. (size - 1) |-> IF k < n THEN bytes[k + 1]
                                     ELSE IF k = n THEN Nul ELSE <<"behind", k>>]
    BY <1>3, Zenon DEF Text
  <2> HIDE DEF bytes
  <2> QED
    BY <2>1, Zenon DEF bytes
<1>5. \A i \in 1 .. n : Byte(address + i - 1) = <<"char", s[i]>>
  <2> SUFFICES ASSUME NEW i \in 1 .. n
               PROVE  Byte(address + i - 1) = <<"char", s[i]>>
    OBVIOUS
  <2>1. /\ i - 1 \in 0 .. (size - 1) /\ i - 1 < n /\ (i - 1) + 1 = i
        /\ address + (i - 1) = address + i - 1
    BY <1>1, SMT
  <2>2. Byte(address + (i - 1)) = bytes[(i - 1) + 1]
    BY <1>4, <2>1, Zenon
  <2>3. bytes[i] = <<"char", s[i]>>
    BY <1>2, Zenon
  <2> QED
    BY <2>1, <2>2, <2>3, Zenon
<1>6. Byte(address + n) = Nul
  <2>1. CASE n = size
    BY <2>1 DEF n
  <2>2. CASE n # size
    <3>1. n \in 0 .. (size - 1) /\ ~(n < n)
      BY <1>1, <2>2, SMT
    <3> QED
      BY <1>4, <3>1, Zenon
  <2> QED
    BY <2>1, <2>2
<1> QED
  BY <1>1, <1>5, <1>6, Zenon DEF ReadsAs, n

\* A setting that is there is a value of its constant.
LEMMA Settings ==
    ASSUME Given
    PROVE  /\ option.https = {} /\ option.enable \in BOOLEAN
           /\ option.url = {} \/ \E x \in Urls : option.url = {x}
           /\ option.digest = {} \/ \E x \in Digests : option.digest = {x}
           /\ option.key = {} \/ \E x \in JoinKeys : option.key = {x}
<1>1. option \in Configurations
  BY DEF Given
<1>2. /\ option.https \in {{}} /\ option.enable \in BOOLEAN
      /\ option.url \in Optional(Urls) /\ option.digest \in Optional(Digests)
      /\ option.key \in Optional(JoinKeys)
  BY <1>1 DEF Configurations
<1> QED
  BY <1>2, Zenon DEF Optional

\* Once start is done, each entry has been applied, or left out.
LEMMA AllApplied ==
    ASSUME Given, Written, stage = "done"
    PROVE  /\ game \in KnownGames /\ 1 \in 1 .. Entries(game)
           /\ \A i \in 1 .. Entries(game) :
                 IF Laid(i)
                 THEN \A k \in 0 .. (Sizes[game][i] - 1) :
                          Byte(Starts[game][i] + k) = BytesOf(i)[k]
                 ELSE \A k \in 0 .. (Sizes[game][i] - 1) :
                          Starts[game][i] + k \notin DOMAIN memory
<1>1. game \in KnownGames
  BY GamesAssumption DEF Given
<1>2. Entries(game) \in {8, 10} /\ next = Entries(game) + 1
  BY DEF Entries, Written
<1>3. 1 \in 1 .. Entries(game) /\ \A i \in 1 .. Entries(game) : i \in 1 .. (next - 1)
  BY <1>2, SMT
<1> QED
  BY <1>1, <1>3, Applied, LeftAlone, Zenon

\* The URLs and the digest.
LEMMA StringsArrive ==
    ASSUME Inv, installer = "module", stage = "done",
           NEW site \in UrlSites(game) \union {"digest"}
    PROVE  /\ Wanted(site) = {} => Untouched(Offset[game][site], Size(site))
           /\ \A string \in Wanted(site) :
                 \E n \in 0 .. Len(string) :
                    /\ Trimmed(string, SubSeq(string, 1, n))
                    /\ n < Size(site) =>
                          ReadsAs(Offset[game][site], SubSeq(string, 1, n))
<1>1. Given /\ Pointed /\ Detected /\ Written
  BY DEF Inv, ModuleInv
<1>2. game \in KnownGames /\ Apart(game)
  BY <1>1, GamesAssumption, StartsApart DEF Given
<1> DEFINE name == IF site = "digest" THEN "ServerDigest" ELSE "ServerURL"
           size == IF site = "digest" THEN 18 ELSE 70
           at == Offset[game][site]
<1>3. Wanted(site) = IF site = "digest" THEN option.digest ELSE option.url
  BY <1>1, Settings DEF Wanted
<1>4. PICK i \in 1 .. Entries(game) :
        /\ Starts[game][i] = at /\ ~(i > Entries(game) - 3)
        /\ Source(game, i) = name /\ Sizes[game][i] = size
  <2> HIDE DEF at
  <2>1. PICK j \in 1 .. Entries(game) :
          /\ Starts[game][j] = Offset[game][site] /\ ~(j > Entries(game) - 3)
          /\ Source(game, j) = IF site = "digest" THEN "ServerDigest" ELSE "ServerURL"
          /\ Sizes[game][j] = IF site = "digest" THEN 18 ELSE 70
    BY <1>2, SiteEntry
  <2>2. Sizes[game][j] = size /\ Source(game, j) = name
    BY <2>1
  <2> HIDE DEF name, size
  <2> QED
    BY <2>1, <2>2, Zenon DEF at
<1>5. (Laid(i) <=> name \in DOMAIN pointer) /\ BytesOf(i) = Text(pointer[name], size)
  BY <1>4, Zenon DEF Laid, BytesOf
<1>6. (name \in DOMAIN pointer <=> Wanted(site) # {})
  BY <1>1, <1>3 DEF Pointed
<1>7. at \in Nat
  BY <1>2, <1>4 DEF Apart
<1>8. Size(site) = IF site = "digest" THEN 19 ELSE 70
  BY SMT DEF Size, LBP_DIGEST_LENGTH, LBP_PS3_PROD_URL_LENGTH
<1>9. site = "digest" => at + 18 \notin DOMAIN memory /\ Byte(at + 18) = Nul
  <2> SUFFICES ASSUME site = "digest"
               PROVE  at + 18 \notin DOMAIN memory /\ Byte(at + 18) = Nul
    BY Zenon
  <2>1. at = Offset[game].digest
    OBVIOUS
  <2>2. \A j \in 1 .. Entries(game) :
          ~(Laid(j) /\ (at + 18) - Starts[game][j] \in 0 .. (Sizes[game][j] - 1))
    BY <1>2, <2>1, DigestEnd, Zenon
  <2>3. Original(at + 18) = Nul
    BY <1>2, <2>1, DigestEnd, Zenon
  <2> HIDE DEF at
  <2> QED
    BY <1>1, <2>2, <2>3, Outside, Own, Zenon
<1>10. \A k \in 0 .. (size - 1) :
          IF Laid(i) THEN Byte(at + k) = BytesOf(i)[k] ELSE at + k \notin DOMAIN memory
  <2>1. IF Laid(i)
        THEN \A k \in 0 .. (Sizes[game][i] - 1) :
                 Byte(Starts[game][i] + k) = BytesOf(i)[k]
        ELSE \A k \in 0 .. (Sizes[game][i] - 1) :
                 Starts[game][i] + k \notin DOMAIN memory
    BY <1>1, AllApplied, Zenon
  <2> HIDE DEF at, size
  <2> QED
    BY <1>4, <2>1, Zenon
<1> HIDE DEF name, at
<1>11. ASSUME Wanted(site) = {} PROVE Untouched(at, Size(site))
  <2>1. \A k \in 0 .. (size - 1) : at + k \notin DOMAIN memory
    BY <1>5, <1>6, <1>10, <1>11, Zenon
  <2>2. \A k \in 0 .. (Size(site) - 1) :
          k \in 0 .. (size - 1) \/ (site = "digest" /\ k = 18)
    BY <1>8, SMT
  <2> QED
    BY <1>9, <2>1, <2>2, Zenon DEF Untouched
<1>12. ASSUME NEW string \in Wanted(site)
       PROVE  \E n \in 0 .. Len(string) :
                 /\ Trimmed(string, SubSeq(string, 1, n))
                 /\ n < Size(site) => ReadsAs(at, SubSeq(string, 1, n))
  <2> DEFINE S == STRING
  <2>1. string \in Seq(S) /\ Wanted(site) = {string}
    BY <1>1, <1>3, <1>12, Settings, StringsAssumption, Zenon
  <2> HIDE DEF S
  <2>2. pointer[name] = Chars(TrimEnd(string)) /\ Laid(i)
    <3>1. \E s \in Wanted(site) : pointer[name] = Chars(TrimEnd(s))
      BY <1>1, <1>3, <1>6, <2>1 DEF Pointed, name
    <3> QED
      BY <1>5, <1>6, <2>1, <3>1, Zenon
  <2>3. PICK n \in 0 .. Len(string) :
          /\ TrimEnd(string) = SubSeq(string, 1, n)
          /\ Trimmed(string, SubSeq(string, 1, n))
    BY <2>1, TrimEndTrims, Zenon
  <2> DEFINE kept == SubSeq(string, 1, n)
  <2>4. kept \in Seq(S) /\ Len(kept) = n /\ n \in Nat
    BY <2>1
  <2>5. \A k \in 0 .. (size - 1) : Byte(at + k) = Text(Chars(kept), size)[k]
    BY <1>5, <1>10, <2>2, <2>3, Zenon
  <2>6. ASSUME n < Size(site) PROVE ReadsAs(at, kept)
    <3>1. /\ size \in Nat /\ Len(kept) <= size
          /\ Len(kept) = size => size = 18 /\ site = "digest"
      BY <1>8, <2>4, <2>6, SMT
    <3>2. Len(kept) = size => Byte(at + size) = Nul
      BY <1>9, <3>1, Zenon
    <3> HIDE DEF kept, size
    <3> QED
      BY <1>7, <2>4, <2>5, <3>1, <3>2, Reads, Zenon
  <2> QED
    BY <2>3, <2>6
<1> QED
  BY <1>11, <1>12, Zenon DEF at

\* The network key: the digest of the configured one, without the whitespace.
LEMMA TheKey ==
    ASSUME Inv, installer = "module", stage = "done"
    PROVE  KeyArrives
<1>1. Given /\ Pointed /\ Detected /\ Written
  BY DEF Inv, ModuleInv
<1>2. game \in KnownGames /\ Apart(game) /\ 1 \in 1 .. Entries(game)
  BY <1>1, AllApplied, StartsApart, Zenon
<1> DEFINE at == Offset[game].key
<1>3. Starts[game][1] = at /\ Sizes[game][1] = 16 /\ LBP_NETWORK_KEY_SIZE = 16
  BY <1>2, SMT DEF KnownGames, Starts, Sizes, Offset, LBP_NETWORK_KEY_SIZE
<1>4. ~(1 > Entries(game) - 3) /\ Source(game, 1) = "NetworkKey"
  BY SMT DEF Entries, Source
<1>5. /\ Laid(1) <=> "NetworkKey" \in DOMAIN pointer
      /\ BytesOf(1) = Text(pointer["NetworkKey"], Sizes[game][1])
  BY <1>4, Zenon DEF Laid, BytesOf
<1>6. at \in Nat
  BY <1>2, <1>3 DEF Apart
<1> HIDE DEF at
<1>7. IF Laid(1)
      THEN \A k \in 0 .. (Sizes[game][1] - 1) :
               Byte(Starts[game][1] + k) = BytesOf(1)[k]
      ELSE \A k \in 0 .. (Sizes[game][1] - 1) :
               Starts[game][1] + k \notin DOMAIN memory
  BY <1>1, <1>2, AllApplied, Zenon
<1>8. CASE ~option.enable
  <2>1. ~Laid(1)
    BY <1>1, <1>5, <1>8 DEF Pointed
  <2>2. Untouched(at, LBP_NETWORK_KEY_SIZE)
    BY <1>3, <1>7, <2>1, Zenon DEF Untouched
  <2> QED
    BY <1>8, <2>2, Zenon DEF KeyArrives, at
<1>9. CASE option.enable
  <2> DEFINE of == {TrimEnd(k) : k \in option.key}
             parts == UNION {{SubSeq(k, 1, n) : n \in 0 .. Len(k)} : k \in option.key}
             S == STRING
  <2>1. "NetworkKey" \in DOMAIN pointer /\ pointer["NetworkKey"] = Digest(of)
    <3>1. "NetworkKey" \in DOMAIN pointer
          /\ pointer["NetworkKey"] = CopyHashedJoinKey(option.key)
      BY <1>1, <1>9, Zenon DEF Pointed
    <3> QED
      BY <3>1, Zenon DEF CopyHashedJoinKey
  <2>2. option.key = {} \/ \E x \in JoinKeys : option.key = {x}
    BY <1>1, Settings, Zenon
  <2>3. \A k \in option.key : k \in Seq(S)
    BY <2>2, StringsAssumption
  <2> HIDE DEF S
  <2>4. \A k \in option.key : \E n \in 0 .. Len(k) :
          TrimEnd(k) = SubSeq(k, 1, n) /\ Trimmed(k, SubSeq(k, 1, n))
    BY <2>3, TrimEndTrims, Zenon
  <2>5. /\ of \in Optional(parts)
        /\ of = {} <=> option.key = {}
        /\ \A k \in option.key, t \in of : Trimmed(k, t)
    <3>1. CASE option.key = {}
      <4>1. of = {}
        BY <3>1
      <4> QED
        BY <3>1, <4>1, Zenon DEF Optional
    <3>2. CASE option.key # {}
      <4>1. PICK x : option.key = {x}
        BY <2>2, <3>2
      <4>2. of = {TrimEnd(x)} /\ Trimmed(x, TrimEnd(x)) /\ TrimEnd(x) \in parts
        <5>1. PICK n \in 0 .. Len(x) :
                TrimEnd(x) = SubSeq(x, 1, n) /\ Trimmed(x, SubSeq(x, 1, n))
          BY <2>4, <4>1, Zenon
        <5>2. of = {TrimEnd(x)}
          BY <4>1, Zenon
        <5>3. Trimmed(x, TrimEnd(x))
          BY <5>1, Zenon
        <5>4. SubSeq(x, 1, n) \in {SubSeq(x, 1, m) : m \in 0 .. Len(x)}
          BY <5>1, Zenon
        <5>5. {SubSeq(x, 1, m) : m \in 0 .. Len(x)}
                \in {{SubSeq(k, 1, m) : m \in 0 .. Len(k)} : k \in option.key}
          BY <4>1, Zenon
        <5>6. TrimEnd(x) \in parts
          BY <5>1, <5>4, <5>5, Zenon
        <5> QED
          BY <5>2, <5>3, <5>6, Zenon
      <4> HIDE DEF of, parts
      <4> QED
        BY <4>1, <4>2, Zenon DEF Optional
    <3> QED
      BY <3>1, <3>2
  <2> HIDE DEF of
  <2>6. \A i \in 1 .. 16 : Byte(at + i - 1) = <<"key", of, i>>
    <3> DEFINE digest == Digest(of)
    <3>1. digest = [k \in 1 .. 32 |-> <<"key", of, k>>]
      BY Zenon DEF Digest
    <3>2. \A k \in 0 .. 15 : Byte(at + k) = Text(digest, 16)[k]
      <4>1. \A k \in 0 .. (16 - 1) : Byte(at + k) = Text(digest, 16)[k]
        BY <1>3, <1>5, <1>7, <2>1, Zenon
      <4> QED
        BY <4>1, SMT
    <3> HIDE DEF digest
    <3>3. Len(digest) = 32
      BY <3>1, SMT
    <3>4. \A k \in 0 .. 15 : Text(digest, 16)[k] = digest[k + 1]
      BY <3>3, SMT DEF Text
    <3>5. \A i \in 1 .. 16 : /\ i - 1 \in 0 .. 15 /\ (i - 1) + 1 = i /\ i \in 1 .. 32
                             /\ at + (i - 1) = at + i - 1
      BY <1>6, SMT
    <3> QED
      BY <3>1, <3>2, <3>4, <3>5, Zenon
  <2> QED
    BY <1>3, <1>9, <2>5, <2>6, Zenon DEF KeyArrives, at
<1> QED
  BY <1>8, <1>9

LEMMA Arrived == Inv /\ installer = "module" => SettingsArrive
<1> SUFFICES ASSUME Inv, installer = "module", stage = "done"
             PROVE  /\ \A site \in UrlSites(game) \cup {"digest"} :
                         LET address == Offset[game][site]
                             wanted == Wanted(site)
                         IN  /\ wanted = {} => Untouched(address, Size(site))
                             /\ \A string \in wanted :
                                   \E n \in 0..Len(string) :
                                       LET arrived == SubSeq(string, 1, n)
                                       IN  /\ Trimmed(string, arrived)
                                           /\ n < Size(site) => ReadsAs(address, arrived)
                    /\ KeyArrives
  BY DEF SettingsArrive
<1>1. KeyArrives
  BY TheKey
<1> QED
  BY <1>1, StringsArrive, Zenon

\* SettingsArrive of the module, for strings of any length and for keys and URLs
\* with any whitespace at their ends: what is configured is what the game reads,
\* where it fits, and what is not is the game's own (patches.c:44-81, prx.c:44-58).
THEOREM ModuleSettings == Spec => [](installer = "module" => SettingsArrive)
  BY AsTheTablesSay, Arrived, PTL
===============================================================================
