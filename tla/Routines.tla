------------------------------- MODULE Routines --------------------------------
(***************************************************************************)
(* The code the module adds to the games: the branch that is put over each *)
(* resource check, the routines that replace the handling of a join        *)
(* request in place, and the ones the check branches to, as words of the   *)
(* instructions that matter.                                               *)
(***************************************************************************)
EXTENDS Integers, Sequences

CONSTANTS
    Games,        \* games the routines run in
    HookAddress   \* where in memory the loader puts each game's script hook

KnownGames == {"LBP1", "LBP2", "LBP3", "LBP3_JP"}

ASSUME GamesAssumption == Games \subseteq KnownGames

-------------------------------------------------------------------------------
(* The branch put at the resource check.                                   *)

\* A branch reaches 2^25 bytes back and as many, less a word, ahead.
Reach == \h2000000

\* Wrong: one bit of the displacement too few.
RelativeBranchNarrow(destination, origin) ==
    \h48000000 + ((destination - origin) % Reach)

\* RelativeBranch: opcode b and the low 26 bits of the displacement.
RelativeBranch(destination, origin) ==
    \h48000000 + ((destination - origin) % (2 * Reach))

\* Where the processor goes from such a word: LI is sign-extended, and its two
\* low bits are no part of the address.
BranchTarget(word, origin) ==
    LET field == word % (2 * Reach)
        li == (field \div 4) * 4
    IN  origin + (IF li < Reach THEN li ELSE li - 2 * Reach)

ResourceCheck == [LBP1 |-> \h81BC8, LBP2 |-> \h153D74,
                  LBP3 |-> \h1CFC6C, LBP3_JP |-> \h1CFB08]

\* A hook lies in reach of a branch, on a word.
ASSUME ReachAssumption ==
    \A g \in Games :
        LET displacement == HookAddress[g] - ResourceCheck[g]
        IN  /\ HookAddress[g] \in Nat /\ displacement % 4 = 0
            /\ displacement + Reach >= 0 /\ displacement < Reach

-------------------------------------------------------------------------------
(* Instructions, and the routines made of them.                            *)

Cmp(field, reg) == [op |-> "cmp", field |-> field, reg |-> reg]
Br(field, cond, offset) ==
    [op |-> "branch", field |-> field, cond |-> cond, offset |-> offset]
B(offset) == [op |-> "b", offset |-> offset]
Ba(address) == [op |-> "ba", address |-> address]
Bla(function) == [op |-> "call", function |-> function]
Li(reg, value) == [op |-> "li", reg |-> reg, value |-> value]
Mr(reg, from) == [op |-> "mr", reg |-> reg, from |-> from]
\* lwz of the invitation from the friend entry r3 points at, lbz of the type.
Invited(reg) == [op |-> "invited", reg |-> reg]
Type(reg) == [op |-> "type", reg |-> reg]
\* One or more instructions that set up arguments.
Arg == [op |-> "args"]
Args(n) == [i \in 1..n |-> Arg]

LBP1ForceJoin ==
    <<Mr("r0", "local"), Cmp("cr7", "r0"), Br("cr7", "ne", \h3b)>>
    \o Args(6)
    \o <<Bla("FindFriend"), Cmp("cr7", "r3"), Br("cr7", "eq", \hd3),
         Invited("r6"), Cmp("cr7", "r6"), Br("cr7", "eq", \hc7)>>
    \o Args(1)

\* The end of LBP2's: the game's own handling, with its branches adjusted.
\* Wrong: the answer is looked for in r0.
LBP2DealStale ==
    Args(3) \o <<Li("r6", 0), Li("r7", 0)>> \o Args(1)
    \o <<Bla("DealWithRequest"), Mr("r3", "r3"), Cmp("cr7", "r0"),
         Br("cr7", "ne", -\hf0)>>
    \o Args(3) \o <<Bla("ForwardRequest"), B(-\h104)>>

\* Wrong: the last branch goes back to the call before it.
LBP2DealAgain ==
    Args(3) \o <<Li("r6", 0), Li("r7", 0)>> \o Args(1)
    \o <<Bla("DealWithRequest"), Mr("r3", "r3"), Cmp("cr7", "r3"),
         Br("cr7", "ne", -\hf0)>>
    \o Args(3) \o <<Bla("ForwardRequest"), B(-4)>>

LBP2Deal ==
    Args(3) \o <<Li("r6", 0), Li("r7", 0)>> \o Args(1)
    \o <<Bla("DealWithRequest"), Mr("r3", "r3"), Cmp("cr7", "r3"),
         Br("cr7", "ne", -\hf0)>>
    \o Args(3) \o <<Bla("ForwardRequest"), B(-\h104)>>

\* Wrong: the invitation is tested as in the other games, != 0.
LBP2ForceJoinNonzero ==
    <<Mr("r0", "local"), Cmp("cr7", "r0"), Br("cr7", "ne", \h73)>>
    \o Args(6)
    \o <<Bla("FindFriend"), Cmp("cr7", "r3"), Br("cr7", "eq", \h10),
         Invited("r6"), Cmp("cr7", "r6"), Br("cr7", "ne", \h43)>>
    \o LBP2Deal

LBP2ForceJoin ==
    <<Mr("r0", "local"), Cmp("cr7", "r0"), Br("cr7", "ne", \h73)>>
    \o Args(6)
    \o <<Bla("FindFriend"), Cmp("cr7", "r3"), Br("cr7", "eq", \h10),
         Invited("r6"), Cmp("cr7", "r6"), Br("cr7", "gt", \h43)>>
    \o LBP2Deal

\* The end of LBP3's: skip_checks, in r26, is handed on in r7.
LBP3Deal ==
    Args(3) \o <<Mr("r6", "local"), Mr("r7", "r26")>> \o Args(2)
    \o <<Bla("DealWithRequest"), Cmp("cr0", "r26"), Br("cr0", "ne", \h33),
         Cmp("cr0", "r3"), Br("cr0", "ne", \h2b)>>

\* Wrong: the branch past the failure path goes back.
LBP3ForceJoinBack ==
    <<Cmp("cr0", "local"), Br("cr0", "ne", \h33)>>
    \o Args(5)
    \o <<Bla("FindFriend"), Cmp("cr0", "r3"), Br("cr0", "eq", \h1b),
         Invited("r3"), Cmp("cr0", "r3"), Br("cr0", "eq", \hf),
         Li("r26", 1), B(-8), Li("r26", 0)>>
    \o LBP3Deal

\* Wrong: the branch for no friend goes to the word behind it.
LBP3ForceJoinUnchecked ==
    <<Cmp("cr0", "local"), Br("cr0", "ne", \h33)>>
    \o Args(5)
    \o <<Bla("FindFriend"), Cmp("cr0", "r3"), Br("cr0", "eq", \h4),
         Invited("r3"), Cmp("cr0", "r3"), Br("cr0", "eq", \hf),
         Li("r26", 1), B(8), Li("r26", 0)>>
    \o LBP3Deal

\* LBP3's and LBP3JP's: they differ in the addresses of what they call.
LBP3ForceJoin ==
    <<Cmp("cr0", "local"), Br("cr0", "ne", \h33)>>
    \o Args(5)
    \o <<Bla("FindFriend"), Cmp("cr0", "r3"), Br("cr0", "eq", \h1b),
         Invited("r3"), Cmp("cr0", "r3"), Br("cr0", "eq", \hf),
         Li("r26", 1), B(8), Li("r26", 0)>>
    \o LBP3Deal

\* Their branches go to labels: the offsets are the assembler's.
LBP1ScriptHook ==
    <<Arg, Type("r3"), Cmp("cr7", "r3"), Br("cr7", "eq", 16),
      Mr("r3", "r25"), Bla("AddToCSRQueue"), Ba(\h81BCC), Ba(\h81B40)>>

\* Wrong: the branch that was overwritten is not made up for.
LBP2ScriptHookUnrelocated ==
    <<Type("r0"), Cmp("cr7", "r0"), Br("cr7", "eq", 8),
      Ba(\h153D78), Ba(\h153D3C)>>

LBP2ScriptHook ==
    <<Br("cr7", "eq", 20), Type("r0"), Cmp("cr7", "r0"), Br("cr7", "eq", 8),
      Ba(\h153D78), Ba(\h153D3C)>>

LBP3ScriptHookTo(continue, bail) ==
    <<Cmp("cr0", "r3"), Br("cr0", "ne", 20), Type("r3"), Cmp("cr7", "r3"),
      Br("cr7", "eq", 8), Ba(continue), Ba(bail)>>

ForceJoin == [LBP1 |-> LBP1ForceJoin, LBP2 |-> LBP2ForceJoin,
              LBP3 |-> LBP3ForceJoin, LBP3_JP |-> LBP3ForceJoin]
ForceJoinAddress == [LBP1 |-> \h3ab70c, LBP2 |-> \h285fb8,
                     LBP3 |-> \h30561c, LBP3_JP |-> \h301e34]
\* Wrong: LBP2's length is LBP3's.
ForceJoinLengthShort ==
    [LBP1 |-> 64, LBP2 |-> 112, LBP3 |-> 112, LBP3_JP |-> 112]

\* How many bytes of each are copied over the game's.
ForceJoinLength == [LBP1 |-> 64, LBP2 |-> 120, LBP3 |-> 112, LBP3_JP |-> 112]

ScriptHook ==
    [LBP1 |-> LBP1ScriptHook, LBP2 |-> LBP2ScriptHook,
     LBP3 |-> LBP3ScriptHookTo(\h1CFC78, \h1CFD10),
     LBP3_JP |-> LBP3ScriptHookTo(\h1CFB14, \h1CFBAC)]

\* The module's code is not loaded over the check that branches to it.
ASSUME ApartAssumption ==
    \A g \in Games :
        \/ ResourceCheck[g] < HookAddress[g]
        \/ ResourceCheck[g] >= HookAddress[g] + 4 * Len(ScriptHook[g])
===============================================================================
