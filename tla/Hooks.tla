--------------------------------- MODULE Hooks ---------------------------------
(***************************************************************************)
(* The routines of Routines, run word by word from the addresses they are  *)
(* put at, as the game's threads would: their branches are counted by      *)
(* hand, and they have to leave the game's own code as they found it.      *)
(*                                                                         *)
(* What a register holds is kept as the set of signs it may have; a call   *)
(* leaves the volatile registers with any.                                 *)
(***************************************************************************)
EXTENDS Routines

CONSTANT Invitations  \* signs of the float WeInvitedThisPlayerToJoinUs

Signs == {-1, 0, 1}

ASSUME InvitationsAssumption == Invitations \subseteq Signs

VARIABLES
    game,     \* the game
    routine,  \* "join" or "script"
    input,    \* the request or the resource it is run for
    pc,       \* address of the next instruction
    regs,     \* the signs each register may have
    cr,       \* outcome of the last comparison in cr0 and in cr7
    calls     \* the calls made into the game: function, argument, result

vars == <<game, routine, input, pc, regs, cr, calls>>

-------------------------------------------------------------------------------
(* Where they leave for the game's own code.                               *)

\* The paths of the game's a request is left for: it is let in without further
\* checks, turned down, asked about, or has been dealt with.  The comments name
\* LBP1's and LBP2's.  Those of LBP3 are where the offsets of its last two
\* branches lead (forcejoin-patch.s:107-109, :147-149), both to one word, and
\* the word behind the routine (:110, :150).
JoinExits ==
    [LBP1 |-> [accept |-> \h3ab74c, refuse |-> \h3ab808],
     LBP2 |-> [accept |-> \h286030, done |-> \h285f28],
     LBP3 |-> [ask |-> \h30568c, done |-> \h3056b0],
     LBP3_JP |-> [ask |-> \h301ea4, done |-> \h301ec8]]

\* The original function goes on, or fails as it does for an unknown resource.
ScriptExits ==
    [LBP1 |-> [continue |-> \h81BCC, bail |-> \h81B40],
     LBP2 |-> [continue |-> \h153D78, bail |-> \h153D3C],
     LBP3 |-> [continue |-> \h1CFC78, bail |-> \h1CFD10],
     LBP3_JP |-> [continue |-> \h1CFB14, bail |-> \h1CFBAC]]

\* Nor is it loaded over the places the hooks leave for.
ASSUME ExitsAssumption ==
    \A g \in Games : \A exit \in {ScriptExits[g].continue, ScriptExits[g].bail} :
        \/ exit < HookAddress[g]
        \/ exit >= HookAddress[g] + 4 * Len(ScriptHook[g])

Exits == IF routine = "join" THEN JoinExits[game] ELSE ScriptExits[game]
At(exit) == exit \in DOMAIN Exits /\ pc = Exits[exit]
Left == \E exit \in DOMAIN Exits : At(exit)

\* The words of the routine that are in memory, and the one at pc.
Code == IF routine = "join"
        THEN SubSeq(ForceJoin[game], 1, ForceJoinLength[game] \div 4)
        ELSE ScriptHook[game]
Base == IF routine = "join" THEN ForceJoinAddress[game] ELSE HookAddress[game]
Word == (pc - Base) \div 4 + 1
InRoutine == pc >= Base /\ Word \in 1..Len(Code)
AtSite == routine = "script" /\ pc = ResourceCheck[game]

-------------------------------------------------------------------------------
Sign(b) == IF b THEN {1} ELSE {0}

Inputs ==
    [local : BOOLEAN, friend : BOOLEAN, invited : Invitations,
     script : BOOLEAN, failed : BOOLEAN]

\* The registers as the game's code leaves them: r3 and cr7 hold what LBP3's
\* and LBP2's own check of the resource found, r25 the resource in LBP1.
Init ==
    /\ game \in Games
    /\ routine \in {"join", "script"}
    /\ input \in Inputs
    /\ pc = IF routine = "join" THEN ForceJoinAddress[game]
                                ELSE ResourceCheck[game]
    /\ regs = [r0 |-> Signs, r3 |-> Sign(input.failed), r6 |-> Signs,
               r7 |-> Signs, r25 |-> {1}, r26 |-> Signs,
               local |-> Sign(input.local)]
    /\ cr = [cr0 |-> Signs, cr7 |-> IF input.failed THEN {0} ELSE {-1, 1}]
    /\ calls = <<>>

Executes(op) == InRoutine /\ Code[Word].op = op
Instr == Code[Word]
Advance == pc' = pc + 4

\* The branch that ApplyGamePatches has put over the game's instruction.
TakeHook ==
    /\ AtSite
    /\ pc' = BranchTarget(RelativeBranch(HookAddress[game], pc), pc)
    /\ UNCHANGED <<game, routine, input, regs, cr, calls>>

Compare ==
    /\ Executes("cmp")
    /\ \E sign \in regs[Instr.reg] : cr' = [cr EXCEPT ![Instr.field] = {sign}]
    /\ Advance
    /\ UNCHANGED <<game, routine, input, regs, calls>>

Holds(cond, sign) ==
    CASE cond = "eq" -> sign = 0
      [] cond = "ne" -> sign # 0
      [] cond = "gt" -> sign = 1

\* The two low bits of the offsets that are counted by hand are not its own.
Branch ==
    /\ Executes("branch")
    /\ \E sign \in cr[Instr.field] :
          pc' = IF Holds(Instr.cond, sign) THEN pc + (Instr.offset \div 4) * 4
                                           ELSE pc + 4
    /\ UNCHANGED <<game, routine, input, regs, cr, calls>>

Jump ==
    /\ \/ Executes("b") /\ pc' = pc + Instr.offset
       \/ Executes("ba") /\ pc' = Instr.address
    /\ UNCHANGED <<game, routine, input, regs, cr, calls>>

Move ==
    /\ \/ /\ Executes("li")
          /\ regs' = [regs EXCEPT ![Instr.reg] = {Instr.value}]
       \/ /\ Executes("mr")
          /\ regs' = [regs EXCEPT ![Instr.reg] = regs[Instr.from]]
       \/ Executes("args") /\ UNCHANGED regs
    /\ Advance
    /\ UNCHANGED <<game, routine, input, cr, calls>>

\* The invitation is a float whose word is compared as an integer; the type is
\* compared with RESOURCE_TYPE_SCRIPT.
Load ==
    /\ \/ /\ Executes("invited")
          /\ regs' = [regs EXCEPT ![Instr.reg] = {input.invited}]
       \/ /\ Executes("type")
          /\ regs' = [regs EXCEPT ![Instr.reg] =
                        IF input.script THEN {0} ELSE {-1, 1}]
    /\ Advance
    /\ UNCHANGED <<game, routine, input, cr, calls>>

\* FindFriendEntryData answers NULL for a player that is no friend; what
\* DealWithRequestJoinParty comes to is the game's.
Results(function) ==
    CASE function = "FindFriend" -> {Sign(input.friend)}
      [] function = "DealWithRequest" -> {{0}, {1}}
      [] OTHER -> {Signs}

\* The argument of note: skip_checks, or the resource.
Argument(function) == IF function = "DealWithRequest" THEN regs.r7 ELSE regs.r3

Call ==
    /\ Executes("call")
    /\ LET f == Instr.function
       IN  \E result \in Results(f) :
              /\ calls' = Append(calls, <<f, Argument(f), result>>)
              /\ regs' = [regs EXCEPT !.r0 = Signs, !.r3 = result,
                                      !.r6 = Signs, !.r7 = Signs]
    /\ cr' = [cr0 |-> Signs, cr7 |-> Signs]
    /\ Advance
    /\ UNCHANGED <<game, routine, input>>

\* The game's own code goes on.
Return == Left /\ UNCHANGED vars

Next == TakeHook \/ Compare \/ Branch \/ Jump \/ Move \/ Load \/ Call \/ Return

Spec == Init /\ [][Next]_vars

\* The game's thread goes on through the routine.
FairSpec == Spec /\ WF_vars(Next)

-------------------------------------------------------------------------------
(* Safety.                                                                 *)

TypeOK ==
    /\ game \in Games /\ routine \in {"join", "script"} /\ input \in Inputs
    /\ pc \in Nat
    /\ regs \in [{"r0", "r3", "r6", "r7", "r25", "r26", "local"} ->
                 SUBSET Signs]
    /\ cr \in [{"cr0", "cr7"} -> SUBSET Signs]
    /\ Len(calls) <= 3

Called(function) == \E i \in DOMAIN calls : calls[i][1] = function
Dealings == {i \in DOMAIN calls : calls[i][1] = "DealWithRequest"}

\* The branch at the resource check comes to the first word of the hook, from
\* wherever in reach the module was loaded (hooks.c:5-8, prx.c:132).
HookLands == [][AtSite => pc' = HookAddress[game]]_vars

\* Every branch, those counted by hand too, comes to a word of the routine or to
\* one of the paths of the game's in JoinExits and ScriptExits: never between two
\* routines or behind what was copied (patches.c:71-79).
StaysInCode == AtSite \/ InRoutine \/ Left

\* WeInvitedThisPlayerToJoinUs is only read from a friend entry that is there.
NoNullRead == Executes("invited") => 0 \notin regs.r3

\* Let in by the game's own path, or by skip_checks.
Accepted ==
    \/ At("accept")
    \/ \E i \in DOMAIN calls :
          calls[i][1] = "DealWithRequest" /\ calls[i][2] # {0}

\* Who is let in: LBP2 looks for an invitation that is still positive, the
\* others for one that is not zero.
Wanted == \/ input.local
          \/ input.friend /\ IF game = "LBP2" THEN input.invited = 1
                                              ELSE input.invited # 0

\* Whatever the sign of the invitation, a request is let in without the game's
\* checks exactly if the comments at the comparisons say so: "== 0.0, goto
\* failure path" in LBP1 and LBP3, "> 0.0, goto success path" in LBP2
\* (forcejoin-patch.s:24, :49, :88).  While no invitation is negative that is the
\* same in every game, a local player's or an invited friend's: "disallowing
\* auto-join for those not explicitly invited" (README.md:17-20).
JoinsGuarded == routine = "join" /\ Left => (Accepted <=> Wanted)

\* A request that is not refused or let in is dealt with once, and LBP2's is
\* forwarded exactly if that came to nothing (forcejoin-patch.s:57-69).
HandledOnce ==
    routine = "join" /\ Left =>
        LET failed == \A i \in Dealings : calls[i][3] = {0}
        IN  /\ \A i, j \in Dealings : i = j
            /\ Dealings # {} <=> At("done") \/ At("ask")
            /\ Called("ForwardRequest") <=> game = "LBP2" /\ At("done") /\ failed
            /\ At("ask") => failed

\* A script is never loaded, anything else is exactly if the game would have,
\* and LBP1 queues the resource itself, once (script-block.s).
ScriptsBlocked ==
    routine = "script" /\ Left =>
        LET fails == game # "LBP1" /\ input.failed
        IN  /\ At("continue") <=> ~input.script /\ ~fails
            /\ Called("AddToCSRQueue") <=> game = "LBP1" /\ At("continue")
            /\ \A i \in DOMAIN calls : calls[i][2] = {1}

-------------------------------------------------------------------------------
(* Liveness.                                                               *)

\* Every request and every resource gets back to the game's own code.
RoutineReturns == <>Left
===============================================================================
