----------------------------- MODULE RoutinesProofs ----------------------------
(***************************************************************************)
(* What the proofs about the routines and about the game's memory need of  *)
(* Routines: where a branch that was encoded goes, and the routines word   *)
(* by word.                                                                *)
(***************************************************************************)
EXTENDS Routines, TLAPS

\* Encoding a displacement in reach and decoding it again comes to where the
\* branch was to go.
THEOREM BranchLands ==
    ASSUME NEW origin \in Nat, NEW destination \in Nat,
           (destination - origin) % 4 = 0,
           destination - origin + Reach >= 0, destination - origin < Reach
    PROVE  BranchTarget(RelativeBranch(destination, origin), origin) = destination
<1> DEFINE displacement == destination - origin
<1> DEFINE low == displacement % (2 * Reach)
<1>1. Reach = 33554432
  BY SMT DEF Reach
<1>2. low = IF displacement < 0 THEN displacement + 2 * Reach ELSE displacement
  BY <1>1, SMT
<1>3. low \in Int /\ low >= 0 /\ low < 2 * Reach
  BY <1>1, <1>2, SMT
<1>4. low % 4 = 0
  BY <1>1, <1>2, SMT
<1>5. /\ (\h48000000 + low) % (2 * Reach) = low
      /\ (low \div 4) * 4 = low
  <2> HIDE DEF low
  <2>1. (\h48000000 + low) % (2 * Reach) = low
    BY <1>1, <1>3, SMT
  <2>2. (low \div 4) * 4 = low
    BY <1>3, <1>4, SMT
  <2> QED
    BY <2>1, <2>2
<1> QED
  BY <1>1, <1>2, <1>5, SMT DEF BranchTarget, RelativeBranch

LEMMA SiteWord == ASSUME NEW g \in KnownGames
                  PROVE  ResourceCheck[g] \in Nat
  BY SMT DEF KnownGames, ResourceCheck

-------------------------------------------------------------------------------
(* The script hooks.                                                       *)

\* The words of each hook, counted.
LEMMA LBP1Words ==
    /\ Len(LBP1ScriptHook) = 8
    /\ LBP1ScriptHook[1] = Arg /\ LBP1ScriptHook[2] = Type("r3")
    /\ LBP1ScriptHook[3] = Cmp("cr7", "r3")
    /\ LBP1ScriptHook[4] = Br("cr7", "eq", 16)
    /\ LBP1ScriptHook[5] = Mr("r3", "r25")
    /\ LBP1ScriptHook[6] = Bla("AddToCSRQueue")
    /\ LBP1ScriptHook[7] = Ba(\h81BCC) /\ LBP1ScriptHook[8] = Ba(\h81B40)
BY SMT DEF LBP1ScriptHook, Arg

LEMMA LBP2Words ==
    /\ Len(LBP2ScriptHook) = 6
    /\ LBP2ScriptHook[1] = Br("cr7", "eq", 20) /\ LBP2ScriptHook[2] = Type("r0")
    /\ LBP2ScriptHook[3] = Cmp("cr7", "r0")
    /\ LBP2ScriptHook[4] = Br("cr7", "eq", 8)
    /\ LBP2ScriptHook[5] = Ba(\h153D78) /\ LBP2ScriptHook[6] = Ba(\h153D3C)
BY SMT DEF LBP2ScriptHook

LEMMA LBP3Words ==
    ASSUME NEW continue, NEW bail
    PROVE  LET hook == LBP3ScriptHookTo(continue, bail)
           IN  /\ Len(hook) = 7
               /\ hook[1] = Cmp("cr0", "r3") /\ hook[2] = Br("cr0", "ne", 20)
               /\ hook[3] = Type("r3") /\ hook[4] = Cmp("cr7", "r3")
               /\ hook[5] = Br("cr7", "eq", 8)
               /\ hook[6] = Ba(continue) /\ hook[7] = Ba(bail)
BY SMT DEF LBP3ScriptHookTo

-------------------------------------------------------------------------------
(* The join routines.                                                      *)

\* Sequences over two sets, as sequences over one.
LEMMA Widen ==
    ASSUME NEW S, NEW T, NEW s \in Seq(S), NEW t \in Seq(T)
    PROVE  \E U : s \in Seq(U) /\ t \in Seq(U)
<1>1. s \in Seq(S \union T) /\ t \in Seq(S \union T)
  BY SMT
<1> QED
  BY <1>1

\* What SubSeq leaves of the whole.
LEMMA Whole ==
    ASSUME NEW S, NEW s \in Seq(S)
    PROVE  /\ Len(SubSeq(s, 1, Len(s))) = Len(s) /\ Len(s) \in Nat
           /\ \A k \in 1 .. Len(s) : SubSeq(s, 1, Len(s))[k] = s[k]
  BY SMT

LEMMA LBP1Join ==
    /\ Len(LBP1ForceJoin) = 16
    /\ LBP1ForceJoin[1] = Mr("r0", "local") /\ LBP1ForceJoin[2] = Cmp("cr7", "r0")
    /\ LBP1ForceJoin[3] = Br("cr7", "ne", \h3b)
    /\ LBP1ForceJoin[10] = Bla("FindFriend") /\ LBP1ForceJoin[11] = Cmp("cr7", "r3")
    /\ LBP1ForceJoin[12] = Br("cr7", "eq", \hd3)
    /\ LBP1ForceJoin[13] = Invited("r6") /\ LBP1ForceJoin[14] = Cmp("cr7", "r6")
    /\ LBP1ForceJoin[15] = Br("cr7", "eq", \hc7)
    /\ \A k \in (4 .. 9) \union {16} : LBP1ForceJoin[k] = Arg
    /\ \E S : LBP1ForceJoin \in Seq(S)
<1>1. LBP1ForceJoin \in Seq({Mr("r0", "local"), Cmp("cr7", "r0"), Br("cr7", "ne", \h3b),
                            Arg, Bla("FindFriend"), Cmp("cr7", "r3"),
                            Br("cr7", "eq", \hd3), Invited("r6"),
                            Cmp("cr7", "r6"), Br("cr7", "eq", \hc7)})
  BY SMT DEF LBP1ForceJoin, Args
<1>2. \E S : LBP1ForceJoin \in Seq(S)
  BY <1>1
<1> QED
  BY <1>2, SMT DEF LBP1ForceJoin, Args, Arg

LEMMA LBP2End ==
    /\ Len(LBP2Deal) = 15
    /\ LBP2Deal[4] = Li("r6", 0) /\ LBP2Deal[5] = Li("r7", 0)
    /\ LBP2Deal[7] = Bla("DealWithRequest") /\ LBP2Deal[8] = Mr("r3", "r3")
    /\ LBP2Deal[9] = Cmp("cr7", "r3") /\ LBP2Deal[10] = Br("cr7", "ne", -\hf0)
    /\ LBP2Deal[14] = Bla("ForwardRequest") /\ LBP2Deal[15] = B(-\h104)
    /\ \A k \in (1 .. 3) \union {6} \union (11 .. 13) : LBP2Deal[k] = Arg
  BY SMT DEF LBP2Deal, Args, Arg

LEMMA LBP2Join ==
    /\ Len(LBP2ForceJoin) = 30
    /\ LBP2ForceJoin[1] = Mr("r0", "local") /\ LBP2ForceJoin[2] = Cmp("cr7", "r0")
    /\ LBP2ForceJoin[3] = Br("cr7", "ne", \h73)
    /\ LBP2ForceJoin[10] = Bla("FindFriend") /\ LBP2ForceJoin[11] = Cmp("cr7", "r3")
    /\ LBP2ForceJoin[12] = Br("cr7", "eq", \h10)
    /\ LBP2ForceJoin[13] = Invited("r6") /\ LBP2ForceJoin[14] = Cmp("cr7", "r6")
    /\ LBP2ForceJoin[15] = Br("cr7", "gt", \h43)
    /\ \A k \in 4 .. 9 : LBP2ForceJoin[k] = Arg
    /\ \A k \in 1 .. 15 : LBP2ForceJoin[15 + k] = LBP2Deal[k]
    /\ \E S : LBP2ForceJoin \in Seq(S)
<1> DEFINE ends == {Arg, Li("r6", 0), Li("r7", 0), Bla("DealWithRequest"),
                       Mr("r3", "r3"), Cmp("cr7", "r3"), Br("cr7", "ne", -\hf0),
                       Bla("ForwardRequest"), B(-\h104)}
<1>1. LBP2Deal \in Seq(ends)
  BY SMT DEF LBP2Deal, Args
<1> DEFINE start ==
      <<Mr("r0", "local"), Cmp("cr7", "r0"), Br("cr7", "ne", \h73)>> \o Args(6)
      \o <<Bla("FindFriend"), Cmp("cr7", "r3"), Br("cr7", "eq", \h10),
           Invited("r6"), Cmp("cr7", "r6"), Br("cr7", "gt", \h43)>>
<1>2. /\ Len(start) = 15
      /\ start[1] = Mr("r0", "local") /\ start[2] = Cmp("cr7", "r0")
      /\ start[3] = Br("cr7", "ne", \h73)
      /\ start[10] = Bla("FindFriend") /\ start[11] = Cmp("cr7", "r3")
      /\ start[12] = Br("cr7", "eq", \h10)
      /\ start[13] = Invited("r6") /\ start[14] = Cmp("cr7", "r6")
      /\ start[15] = Br("cr7", "gt", \h43)
      /\ \A k \in 4 .. 9 : start[k] = Arg
  BY SMT DEF Args, Arg
<1>3. PICK S : start \in Seq(S) /\ LBP2Deal \in Seq(S)
  <2> DEFINE starts == {Mr("r0", "local"), Cmp("cr7", "r0"), Br("cr7", "ne", \h73), Arg,
                      Bla("FindFriend"), Cmp("cr7", "r3"), Br("cr7", "eq", \h10),
                      Invited("r6"), Cmp("cr7", "r6"), Br("cr7", "gt", \h43)}
  <2>1. start \in Seq(starts)
    BY SMT DEF Args
  <2> HIDE DEF start, starts, ends
  <2> QED
    BY <1>1, <2>1, Widen, ZenonT(30)
<1>4. LBP2ForceJoin = start \o LBP2Deal
  BY DEF LBP2ForceJoin
<1> HIDE DEF start
<1>5. /\ LBP2ForceJoin \in Seq(S) /\ Len(LBP2ForceJoin) = 15 + Len(LBP2Deal)
      /\ \A k \in 1 .. 15 : LBP2ForceJoin[k] = start[k]
      /\ \A k \in 1 .. Len(LBP2Deal) : LBP2ForceJoin[15 + k] = LBP2Deal[k]
  <2>1. Len(start) = 15
    BY <1>2
  <2> HIDE DEF ends
  <2>2. /\ start \o LBP2Deal \in Seq(S)
        /\ Len(start \o LBP2Deal) = Len(start) + Len(LBP2Deal)
        /\ \A k \in 1 .. Len(start) : (start \o LBP2Deal)[k] = start[k]
        /\ \A k \in 1 .. Len(LBP2Deal) :
              (start \o LBP2Deal)[Len(start) + k] = LBP2Deal[k]
    BY <1>3, SMT
  <2> QED
    BY <2>1, <2>2, <1>4
<1> HIDE DEF LBP2ForceJoin
<1>6. \A k \in 1 .. 15 : LBP2ForceJoin[k] = start[k]
  BY <1>5
<1> QED
  BY <1>2, <1>3, <1>5, LBP2End, SMT

LEMMA LBP3End ==
    /\ Len(LBP3Deal) = 12
    /\ LBP3Deal[4] = Mr("r6", "local") /\ LBP3Deal[5] = Mr("r7", "r26")
    /\ LBP3Deal[8] = Bla("DealWithRequest") /\ LBP3Deal[9] = Cmp("cr0", "r26")
    /\ LBP3Deal[10] = Br("cr0", "ne", \h33) /\ LBP3Deal[11] = Cmp("cr0", "r3")
    /\ LBP3Deal[12] = Br("cr0", "ne", \h2b)
    /\ \A k \in (1 .. 3) \union (6 .. 7) : LBP3Deal[k] = Arg
  BY SMT DEF LBP3Deal, Args, Arg

LEMMA LBP3Join ==
    /\ Len(LBP3ForceJoin) = 28
    /\ LBP3ForceJoin[1] = Cmp("cr0", "local") /\ LBP3ForceJoin[2] = Br("cr0", "ne", \h33)
    /\ LBP3ForceJoin[8] = Bla("FindFriend") /\ LBP3ForceJoin[9] = Cmp("cr0", "r3")
    /\ LBP3ForceJoin[10] = Br("cr0", "eq", \h1b)
    /\ LBP3ForceJoin[11] = Invited("r3") /\ LBP3ForceJoin[12] = Cmp("cr0", "r3")
    /\ LBP3ForceJoin[13] = Br("cr0", "eq", \hf)
    /\ LBP3ForceJoin[14] = Li("r26", 1) /\ LBP3ForceJoin[15] = B(8)
    /\ LBP3ForceJoin[16] = Li("r26", 0)
    /\ \A k \in 3 .. 7 : LBP3ForceJoin[k] = Arg
    /\ \A k \in 1 .. 12 : LBP3ForceJoin[16 + k] = LBP3Deal[k]
    /\ \E S : LBP3ForceJoin \in Seq(S)
<1> DEFINE ends == {Arg, Mr("r6", "local"), Mr("r7", "r26"),
                       Bla("DealWithRequest"), Cmp("cr0", "r26"),
                       Br("cr0", "ne", \h33), Cmp("cr0", "r3"),
                       Br("cr0", "ne", \h2b)}
<1>1. LBP3Deal \in Seq(ends)
  BY SMT DEF LBP3Deal, Args
<1> DEFINE start ==
      <<Cmp("cr0", "local"), Br("cr0", "ne", \h33)>> \o Args(5)
      \o <<Bla("FindFriend"), Cmp("cr0", "r3"), Br("cr0", "eq", \h1b),
           Invited("r3"), Cmp("cr0", "r3"), Br("cr0", "eq", \hf),
           Li("r26", 1), B(8), Li("r26", 0)>>
<1>2. /\ Len(start) = 16
      /\ start[1] = Cmp("cr0", "local") /\ start[2] = Br("cr0", "ne", \h33)
      /\ start[8] = Bla("FindFriend") /\ start[9] = Cmp("cr0", "r3")
      /\ start[10] = Br("cr0", "eq", \h1b)
      /\ start[11] = Invited("r3") /\ start[12] = Cmp("cr0", "r3")
      /\ start[13] = Br("cr0", "eq", \hf)
      /\ start[14] = Li("r26", 1) /\ start[15] = B(8) /\ start[16] = Li("r26", 0)
      /\ \A k \in 3 .. 7 : start[k] = Arg
  BY SMT DEF Args, Arg
<1>3. PICK S : start \in Seq(S) /\ LBP3Deal \in Seq(S)
  <2> DEFINE starts == {Cmp("cr0", "local"), Br("cr0", "ne", \h33), Arg,
                      Bla("FindFriend"), Cmp("cr0", "r3"), Br("cr0", "eq", \h1b),
                      Invited("r3"), Br("cr0", "eq", \hf), Li("r26", 1), B(8),
                      Li("r26", 0)}
  <2>1. start \in Seq(starts)
    BY SMT DEF Args
  <2> HIDE DEF start, starts, ends
  <2> QED
    BY <1>1, <2>1, Widen, ZenonT(30)
<1>4. LBP3ForceJoin = start \o LBP3Deal
  BY DEF LBP3ForceJoin
<1> HIDE DEF start
<1>5. /\ LBP3ForceJoin \in Seq(S) /\ Len(LBP3ForceJoin) = 16 + Len(LBP3Deal)
      /\ \A k \in 1 .. 16 : LBP3ForceJoin[k] = start[k]
      /\ \A k \in 1 .. Len(LBP3Deal) : LBP3ForceJoin[16 + k] = LBP3Deal[k]
  <2>1. Len(start) = 16
    BY <1>2
  <2> HIDE DEF ends
  <2>2. /\ start \o LBP3Deal \in Seq(S)
        /\ Len(start \o LBP3Deal) = Len(start) + Len(LBP3Deal)
        /\ \A k \in 1 .. Len(start) : (start \o LBP3Deal)[k] = start[k]
        /\ \A k \in 1 .. Len(LBP3Deal) :
              (start \o LBP3Deal)[Len(start) + k] = LBP3Deal[k]
    BY <1>3, SMT
  <2> QED
    BY <2>1, <2>2, <1>4
<1> HIDE DEF LBP3ForceJoin
<1>6. \A k \in 1 .. 16 : LBP3ForceJoin[k] = start[k]
  BY <1>5
<1> QED
  BY <1>2, <1>3, <1>5, LBP3End, SMT

\* What is copied over the game's code is the whole of each routine.
LEMMA JoinWhole ==
    ASSUME NEW g \in KnownGames
    PROVE  /\ Len(ForceJoin[g]) = ForceJoinLength[g] \div 4
           /\ ForceJoinLength[g] \div 4 =
                CASE g = "LBP1" -> 16 [] g = "LBP2" -> 30 [] OTHER -> 28
           /\ \E S : ForceJoin[g] \in Seq(S)
<1>1. CASE g = "LBP1"
  <2>1. ForceJoin[g] = LBP1ForceJoin /\ ForceJoinLength[g] \div 4 = 16
    BY <1>1, SMT DEF ForceJoin, ForceJoinLength
  <2> QED
    BY <1>1, <2>1, LBP1Join, Zenon
<1>2. CASE g = "LBP2"
  <2>1. ForceJoin[g] = LBP2ForceJoin /\ ForceJoinLength[g] \div 4 = 30
    BY <1>2, SMT DEF ForceJoin, ForceJoinLength
  <2> QED
    BY <1>2, <2>1, LBP2Join, Zenon
<1>3. CASE g \in {"LBP3", "LBP3_JP"}
  <2>1. ForceJoin[g] = LBP3ForceJoin /\ ForceJoinLength[g] \div 4 = 28
    BY <1>3, SMT DEF ForceJoin, ForceJoinLength
  <2>2. g # "LBP1" /\ g # "LBP2"
    BY <1>3, SMT
  <2> QED
    BY <2>1, <2>2, LBP3Join, Zenon
<1> QED
  BY <1>1, <1>2, <1>3, Zenon DEF KnownGames
===============================================================================
