------------------------------ MODULE HooksProofs ------------------------------
(***************************************************************************)
(* Proofs about Hooks: wherever in reach the module is loaded, the branch  *)
(* from the resource check comes to the first word of the hook, and the    *)
(* hook lets no script through and everything else the game would have.    *)
(* Then the routines that are put over the handling of a join request:     *)
(* word by word, what each has found out, which shows that no branch       *)
(* leaves for anywhere but its paths back to the game, and that nobody is  *)
(* let in but those the comparisons are meant to let in.                   *)
(***************************************************************************)
EXTENDS Hooks, RoutinesProofs

LEMMA SiteApart == ASSUME game \in Games, AtSite PROVE ~InRoutine
<1>1. /\ pc = ResourceCheck[game] /\ pc \in Nat /\ HookAddress[game] \in Nat
      /\ Base = HookAddress[game] /\ Code = ScriptHook[game]
  BY GamesAssumption, ReachAssumption, SiteWord DEF AtSite, Base, Code
<1>2. Len(Code) \in Nat
  BY <1>1, GamesAssumption, SMT
     DEF KnownGames, ScriptHook, LBP1ScriptHook, LBP2ScriptHook,
         LBP3ScriptHookTo
<1>3. pc < Base \/ pc >= Base + 4 * Len(Code)
  BY <1>1, ApartAssumption
<1> QED
  BY <1>1, <1>2, <1>3 DEF InRoutine, Word

\* The branch at the resource check comes to the hook, for every place the
\* module may be loaded at.
THEOREM HookLanding == Spec => HookLands
<1>1. Init => game \in Games
  BY DEF Init
<1>2. game \in Games /\ [Next]_vars => (game \in Games)'
  BY DEF Next, vars, TakeHook, Compare, Branch, Jump, Move, Load, Call, Return
<1>3. game \in Games /\ [Next]_vars => [AtSite => pc' = HookAddress[game]]_vars
  <2> SUFFICES ASSUME game \in Games, Next, AtSite, ~UNCHANGED vars
               PROVE  pc' = HookAddress[game]
    BY DEF vars
  <2>1. ~InRoutine
    BY SiteApart
  <2>2. TakeHook
    BY <2>1 DEF Next, Compare, Branch, Jump, Move, Load, Call, Executes, Return
  <2>3. /\ pc = ResourceCheck[game] /\ pc \in Nat /\ HookAddress[game] \in Nat
        /\ (HookAddress[game] - pc) % 4 = 0
        /\ HookAddress[game] - pc + Reach >= 0 /\ HookAddress[game] - pc < Reach
    BY GamesAssumption, ReachAssumption, SiteWord DEF AtSite
  <2> QED
    BY <2>2, <2>3, BranchLands DEF TakeHook
<1> QED
  BY <1>1, <1>2, <1>3, PTL DEF Spec, HookLands

-------------------------------------------------------------------------------
(* What the hooks have found out, word by word.                            *)

\* S holds the signs the comparison with RESOURCE_TYPE_SCRIPT can come to.
TypeIn(S) == S = IF input.script THEN {0} ELSE {-1, 1}
Fails == game # "LBP1" /\ input.failed

\* What is known at word k of a hook, from the game's check on.
LBP1Knows(k) ==
    /\ k <= 5 \/ k = 8 => calls = <<>>
    /\ k <= 5 => regs.r25 = {1}
    /\ k = 3 => TypeIn(regs.r3)
    /\ k = 4 => \A s \in cr.cr7 : s = 0 <=> input.script
    /\ k \in 5 .. 7 => ~input.script
    /\ k = 6 => regs.r3 = {1} /\ calls = <<>>
    /\ k = 7 => calls = <<<<"AddToCSRQueue", {1}, Signs>>>>
    /\ k = 8 => input.script

LBP2Knows(k) ==
    /\ calls = <<>>
    /\ k = 1 => \A s \in cr.cr7 : s = 0 <=> input.failed
    /\ k \in 2 .. 5 => ~input.failed
    /\ k = 3 => TypeIn(regs.r0)
    /\ k = 4 => \A s \in cr.cr7 : s = 0 <=> input.script
    /\ k = 5 => ~input.script
    /\ k = 6 => input.failed \/ input.script

LBP3Knows(k) ==
    /\ calls = <<>>
    /\ k = 1 => regs.r3 = Sign(input.failed)
    /\ k = 2 => \A s \in cr.cr0 : s # 0 <=> input.failed
    /\ k \in 3 .. 6 => ~input.failed
    /\ k = 4 => TypeIn(regs.r3)
    /\ k = 5 => \A s \in cr.cr7 : s = 0 <=> input.script
    /\ k = 6 => ~input.script
    /\ k = 7 => input.failed \/ input.script

Knows(k) == CASE game = "LBP1" -> LBP1Knows(k)
              [] game = "LBP2" -> LBP2Knows(k)
              [] OTHER -> LBP3Knows(k)

\* The address of the k-th word.
WordAt(k) == HookAddress[game] + 4 * (k - 1)

Words == Len(ScriptHook[game])
Within == \E k \in 1 .. Words : pc = WordAt(k) /\ Knows(k)

Registers ==
    /\ DOMAIN regs = {"r0", "r3", "r6", "r7", "r25", "r26", "local"}
    /\ DOMAIN cr = {"cr0", "cr7"}

\* At the check, at a word of the hook with what is known there, or gone where
\* the resource has to go.
ScriptInv ==
    /\ game \in Games /\ routine \in {"join", "script"}
    /\ routine = "script" =>
          \/ AtSite /\ Knows(1)
          \/ Within
          \/ Left /\ ScriptsBlocked /\ Len(calls) \in {0, 1}

\* How many words the hook of each game has.
LEMMA WordCount ==
    ASSUME game \in KnownGames
    PROVE  /\ game = "LBP1" => Words = 8
           /\ game = "LBP2" => Words = 6
           /\ game \in {"LBP3", "LBP3_JP"} => Words = 7
           /\ Words \in Nat /\ 1 \in 1 .. Words
<1>1. ASSUME game = "LBP1" PROVE Words = 8
  <2>1. ScriptHook[game] = LBP1ScriptHook
    BY <1>1, SMT DEF ScriptHook
  <2> QED
    BY <2>1, LBP1Words, SMT DEF Words
<1>2. ASSUME game = "LBP2" PROVE Words = 6
  <2>1. ScriptHook[game] = LBP2ScriptHook
    BY <1>2, SMT DEF ScriptHook
  <2> QED
    BY <2>1, LBP2Words, SMT DEF Words
<1>3. ASSUME game \in {"LBP3", "LBP3_JP"} PROVE Words = 7
  <2>1. PICK continue, bail : ScriptHook[game] = LBP3ScriptHookTo(continue, bail)
    BY <1>3, SMT DEF ScriptHook
  <2>2. Len(LBP3ScriptHookTo(continue, bail)) = 7
    BY LBP3Words, SMT
  <2> QED
    BY <2>1, <2>2 DEF Words
<1> QED
  BY <1>1, <1>2, <1>3, SMT DEF KnownGames

\* Where a word is fetched, nothing else can happen.
LEMMA Fetch ==
    ASSUME game \in Games, routine = "script", Words \in Nat,
           NEW k \in 1 .. Words, pc = WordAt(k)
    PROVE  /\ InRoutine /\ Word = k /\ Code[Word] = ScriptHook[game][k]
           /\ ~AtSite /\ ~Left /\ pc + 4 = WordAt(k + 1)
<1>1. /\ HookAddress[game] \in Nat /\ Base = HookAddress[game]
      /\ Code = ScriptHook[game] /\ Exits = ScriptExits[game]
  BY ReachAssumption DEF Base, Code, Exits
<1>2. /\ pc = HookAddress[game] + 4 * (k - 1) /\ pc >= Base
      /\ pc < HookAddress[game] + 4 * Words
  BY <1>1, SMT DEF WordAt
<1>3. Word = k
  <2>1. pc - Base = 4 * (k - 1) /\ k - 1 \in Nat
    BY <1>1, <1>2, SMT
  <2>2. ASSUME NEW n \in Nat PROVE (4 * n) \div 4 = n
    BY SMT
  <2> QED
    BY <2>1, <2>2, SMT DEF Word
<1>4. InRoutine
  BY <1>1, <1>2, <1>3 DEF InRoutine, Words
<1>5. ~AtSite
  BY <1>4, SiteApart
<1>6. ~Left
  <2>1. DOMAIN Exits = {"continue", "bail"}
    BY <1>1, GamesAssumption, SMT DEF KnownGames, ScriptExits
  <2>2. ASSUME NEW exit \in {ScriptExits[game].continue, ScriptExits[game].bail}
        PROVE  pc # exit
    <3>1. exit < HookAddress[game] \/ exit >= HookAddress[game] + 4 * Words
      BY ExitsAssumption DEF Words
    <3> QED
      BY <3>1, <1>1, <1>2, SMT
  <2> QED
    BY <2>1, <2>2, <1>1 DEF Left, At
<1>7. pc + 4 = WordAt(k + 1)
  BY <1>1, <1>2, SMT DEF WordAt
<1> QED
  BY <1>1, <1>3, <1>4, <1>5, <1>6, <1>7

\* The word fetched says which action is taken.
LEMMA Dispatch ==
    ASSUME InRoutine, ~AtSite, ~Left, Next
    PROVE  /\ Instr.op = "cmp" => Compare
           /\ Instr.op = "branch" => Branch
           /\ Instr.op = "ba" => Jump
           /\ Instr.op \in {"mr", "args"} => Move
           /\ Instr.op = "type" => Load
           /\ Instr.op = "call" => Call
<1>1. \/ Compare \/ Branch \/ Jump \/ Move \/ Load \/ Call
  BY DEF Next, TakeHook, Return
<1>2. /\ Compare => Instr.op = "cmp"
      /\ Branch => Instr.op = "branch"
      /\ Jump => Instr.op \in {"b", "ba"}
      /\ Move => Instr.op \in {"li", "mr", "args"}
      /\ Load => Instr.op \in {"invited", "type"}
      /\ Call => Instr.op = "call"
  BY DEF Compare, Branch, Jump, Move, Load, Call, Executes, Instr
<1> QED
  BY <1>1, <1>2

\* Arriving at a word with what is known there.
LEMMA Arrive ==
    ASSUME ScriptInv, UNCHANGED <<game, routine>>, Words \in Nat,
           NEW k \in 1 .. Words, pc' = WordAt(k), Knows(k)'
    PROVE  ScriptInv'
BY DEF ScriptInv, Within, WordAt, Words

\* Leaving by its path back to the game, with the calls it takes.
LEMMA Leave ==
    ASSUME ScriptInv, routine = "script", UNCHANGED <<game, routine, input, calls>>,
           NEW exit \in {"continue", "bail"}, pc' = ScriptExits[game][exit],
           exit = "continue" <=> ~input.script /\ ~Fails,
           IF game = "LBP1" /\ exit = "continue"
           THEN calls = <<<<"AddToCSRQueue", {1}, Signs>>>> ELSE calls = <<>>
    PROVE  ScriptInv'
<1>1. game \in KnownGames
  BY GamesAssumption DEF ScriptInv
<1>2. /\ DOMAIN ScriptExits[game] = {"continue", "bail"}
      /\ ScriptExits[game].continue # ScriptExits[game].bail
  BY <1>1, SMT DEF KnownGames, ScriptExits
<1>3. Exits' = ScriptExits[game]
  BY DEF Exits
<1>4. Left' /\ (At("continue")' <=> exit = "continue")
  BY <1>2, <1>3 DEF Left, At
<1>5. Called("AddToCSRQueue")' <=> game = "LBP1" /\ exit = "continue"
  BY SMT DEF Called
<1>6. \A i \in DOMAIN calls : calls[i][2] = {1}
  BY SMT
<1>7. ScriptsBlocked'
  BY <1>4, <1>5, <1>6 DEF ScriptsBlocked, Fails
<1>8. Len(calls') \in {0, 1}
  <2>1. calls' = <<>> \/ calls' = <<<<"AddToCSRQueue", {1}, Signs>>>>
    OBVIOUS
  <2>2. \A call : Len(<<call>>) = 1
    BY SMT
  <2>3. Len(<<>>) = 0
    BY SMT
  <2> QED
    BY <2>1, <2>2, <2>3
<1> QED
  BY <1>4, <1>7, <1>8 DEF ScriptInv

\* What each instruction comes to in the routine.
LEMMA TakeBranch ==
    ASSUME HookAddress[game] \in Nat, NEW k \in Nat, pc = WordAt(k), Branch,
           NEW field, NEW cond, NEW n \in Nat, Instr = Br(field, cond, 4 * n)
    PROVE  /\ UNCHANGED <<game, routine, input, regs, cr, calls>>
           /\ \E sign \in cr[field] :
                 pc' = IF Holds(cond, sign) THEN WordAt(k + n) ELSE WordAt(k + 1)
<1>1. Instr.field = field /\ Instr.cond = cond /\ Instr.offset = 4 * n
  BY DEF Br
<1>2. PICK sign \in cr[field] :
         pc' = IF Holds(cond, sign) THEN pc + ((4 * n) \div 4) * 4 ELSE pc + 4
  BY <1>1 DEF Branch
<1>3. ((4 * n) \div 4) * 4 = 4 * n
  BY SMT
<1>4. pc + 4 * n = WordAt(k + n) /\ pc + 4 = WordAt(k + 1)
  BY SMT DEF WordAt
<1> QED
  BY <1>2, <1>3, <1>4 DEF Branch

LEMMA TakeCompare ==
    ASSUME Registers, Compare, NEW field \in {"cr0", "cr7"}, NEW reg,
           Instr = Cmp(field, reg)
    PROVE  /\ UNCHANGED <<game, routine, input, regs, calls>> /\ Advance
           /\ \E sign \in regs[reg] : cr'[field] = {sign}
<1>1. Instr.field = field /\ Instr.reg = reg
  BY DEF Cmp
<1>2. \E sign \in regs[reg] : cr' = [cr EXCEPT ![field] = {sign}]
  BY <1>1 DEF Compare
<1> QED
  BY <1>2 DEF Compare, Registers

LEMMA TakeType ==
    ASSUME Registers, Load, NEW reg \in {"r0", "r3"}, Instr = Type(reg)
    PROVE  /\ UNCHANGED <<game, routine, input, cr, calls>> /\ Advance
           /\ regs'[reg] = IF input.script THEN {0} ELSE {-1, 1}
           /\ regs'.r25 = regs.r25
<1>1. Instr.reg = reg /\ Instr.op = "type"
  BY DEF Type
<1>2. regs' = [regs EXCEPT ![reg] = IF input.script THEN {0} ELSE {-1, 1}]
  BY <1>1, SMT DEF Load, Executes, Instr
<1> QED
  BY <1>2, SMT DEF Load, Registers

LEMMA TakeJump ==
    ASSUME Jump, NEW address, Instr = Ba(address)
    PROVE  UNCHANGED <<game, routine, input, regs, cr, calls>> /\ pc' = address
<1>1. Instr.op = "ba" /\ Instr.address = address
  BY DEF Ba
<1> QED
  BY <1>1 DEF Jump, Executes, Instr

\* One word of each hook at a time: what is known there is known at the next.
LEMMA LBP2Step ==
    ASSUME ScriptInv, Registers, routine = "script", game = "LBP2",
           NEW k \in 1 .. 6, pc = WordAt(k), LBP2Knows(k), Next
    PROVE  ScriptInv'
<1>1. Words = 6 /\ ScriptHook[game] = LBP2ScriptHook /\ game \in Games
  BY LBP2Words, SMT DEF Words, ScriptHook, ScriptInv
<1>2. HookAddress[game] \in Nat /\ k \in Nat
  BY <1>1, ReachAssumption
<1>3. /\ InRoutine /\ ~AtSite /\ ~Left /\ Instr = LBP2ScriptHook[k]
      /\ pc + 4 = WordAt(k + 1)
  BY <1>1, Fetch DEF Instr
<1>4. ASSUME UNCHANGED <<game, routine>>, NEW n \in 1 .. 6, pc' = WordAt(n),
             LBP2Knows(n)'
      PROVE  ScriptInv'
  BY <1>1, <1>4, Arrive DEF Knows
<1>5. CASE k = 1
  <2>1. Branch /\ Instr = Br("cr7", "eq", 4 * 5)
    <3>1. Instr = Br("cr7", "eq", 20)
      BY <1>1, <1>3, <1>5, LBP2Words, SMT
    <3> QED
      BY <1>3, <3>1, Dispatch, SMT DEF Br
  <2>2. /\ UNCHANGED <<game, routine, input, regs, cr, calls>>
        /\ \E sign \in cr.cr7 :
              pc' = IF Holds("eq", sign) THEN WordAt(k + 5) ELSE WordAt(k + 1)
    <3>1. 5 \in Nat
      BY SMT
    <3> QED
      BY <1>2, <1>3, <2>1, <3>1, TakeBranch, Zenon
  <2>3. PICK sign \in cr.cr7 :
           pc' = IF Holds("eq", sign) THEN WordAt(6) ELSE WordAt(2)
    BY <1>5, <2>2, SMT
  <2>4. Holds("eq", sign) <=> input.failed
    BY <1>5, SMT DEF LBP2Knows, Holds
  <2>5. CASE Holds("eq", sign)
    <3>1. LBP2Knows(6)'
      BY <1>5, <2>2, <2>4, <2>5, SMT DEF LBP2Knows
    <3> QED
      BY <1>4, <2>2, <2>3, <2>5, <3>1
  <2>6. CASE ~Holds("eq", sign)
    <3>1. LBP2Knows(2)'
      BY <1>5, <2>2, <2>4, <2>6, SMT DEF LBP2Knows
    <3> QED
      BY <1>4, <2>2, <2>3, <2>6, <3>1
  <2> QED
    BY <2>5, <2>6
<1>6. CASE k = 2
  <2>1. Instr = Type("r0")
    BY <1>1, <1>3, <1>6, LBP2Words, SMT
  <2>2. Load
    BY <1>3, <2>1, Dispatch DEF Type
  <2>3. /\ UNCHANGED <<game, routine, input, cr, calls>> /\ Advance
        /\ regs'.r0 = (IF input.script THEN {0} ELSE {-1, 1})
        /\ regs'.r25 = regs.r25
    BY <2>1, <2>2, TakeType
  <2>4. pc' = WordAt(3)
    BY <1>3, <1>6, <2>3, SMT DEF Advance
  <2>5. LBP2Knows(3)'
    BY <1>6, <2>3, SMT DEF LBP2Knows, TypeIn
  <2> QED
    BY <1>4, <2>3, <2>4, <2>5
<1>7. CASE k = 3
  <2>1. Instr = Cmp("cr7", "r0")
    BY <1>1, <1>3, <1>7, LBP2Words, SMT
  <2>2. Compare
    BY <1>3, <2>1, Dispatch DEF Cmp
  <2>3. /\ UNCHANGED <<game, routine, input, regs, calls>> /\ Advance
        /\ \E sign \in regs.r0 : cr'.cr7 = {sign}
    BY <2>1, <2>2, TakeCompare
  <2>4. pc' = WordAt(4)
    BY <1>3, <1>7, <2>3, SMT DEF Advance
  <2>5. \A s \in cr'.cr7 : s = 0 <=> input.script
    BY <1>7, <2>3, SMT DEF LBP2Knows, TypeIn, Sign
  <2>6. LBP2Knows(4)'
    BY <1>7, <2>3, <2>5, SMT DEF LBP2Knows
  <2> QED
    BY <1>4, <2>3, <2>4, <2>6
<1>8. CASE k = 4
  <2>1. Branch /\ Instr = Br("cr7", "eq", 4 * 2)
    <3>1. Instr = Br("cr7", "eq", 8)
      BY <1>1, <1>3, <1>8, LBP2Words, SMT
    <3> QED
      BY <1>3, <3>1, Dispatch, SMT DEF Br
  <2>2. /\ UNCHANGED <<game, routine, input, regs, cr, calls>>
        /\ \E sign \in cr.cr7 :
              pc' = IF Holds("eq", sign) THEN WordAt(k + 2) ELSE WordAt(k + 1)
    <3>1. 2 \in Nat
      BY SMT
    <3> QED
      BY <1>2, <1>3, <2>1, <3>1, TakeBranch, Zenon
  <2>3. PICK sign \in cr.cr7 :
           pc' = IF Holds("eq", sign) THEN WordAt(6) ELSE WordAt(5)
    BY <1>8, <2>2, SMT
  <2>4. Holds("eq", sign) <=> input.script
    BY <1>8, SMT DEF LBP2Knows, Holds
  <2>5. CASE Holds("eq", sign)
    <3>1. LBP2Knows(6)'
      BY <1>8, <2>2, <2>4, <2>5, SMT DEF LBP2Knows
    <3> QED
      BY <1>4, <2>2, <2>3, <2>5, <3>1
  <2>6. CASE ~Holds("eq", sign)
    <3>1. LBP2Knows(5)'
      BY <1>8, <2>2, <2>4, <2>6, SMT DEF LBP2Knows
    <3> QED
      BY <1>4, <2>2, <2>3, <2>6, <3>1
  <2> QED
    BY <2>5, <2>6
<1>9. CASE k \in {5, 6}
  <2> DEFINE exit == IF k = 5 THEN "continue" ELSE "bail"
  <2>1. Instr = Ba(ScriptExits[game][exit])
    BY <1>1, <1>3, <1>9, LBP2Words, SMT DEF ScriptExits
  <2>2. Jump
    BY <1>3, <2>1, Dispatch DEF Ba
  <2>3. /\ pc' = ScriptExits[game][exit]
        /\ UNCHANGED <<game, routine, input, calls>>
    BY <2>1, <2>2, TakeJump
  <2>4. /\ exit = "continue" <=> ~input.script /\ ~Fails
        /\ IF game = "LBP1" /\ exit = "continue"
           THEN calls = <<<<"AddToCSRQueue", {1}, Signs>>>> ELSE calls = <<>>
    BY <1>9, SMT DEF LBP2Knows, Fails
  <2> QED
    BY <2>3, <2>4, Leave
<1> QED
  BY <1>5, <1>6, <1>7, <1>8, <1>9, SMT

LEMMA LBP3Step ==
    ASSUME ScriptInv, Registers, routine = "script", game \in {"LBP3", "LBP3_JP"},
           NEW k \in 1 .. 7, pc = WordAt(k), LBP3Knows(k), Next
    PROVE  ScriptInv'
<1> DEFINE hook == LBP3ScriptHookTo(ScriptExits[game].continue,
                                    ScriptExits[game].bail)
<1>0. Len(hook) = 7 /\ ScriptHook[game] = hook /\ game \in Games
  BY LBP3Words, SMT DEF ScriptHook, ScriptExits, ScriptInv
<1> HIDE DEF hook
<1>w. /\ hook[1] = Cmp("cr0", "r3") /\ hook[2] = Br("cr0", "ne", 20)
      /\ hook[3] = Type("r3") /\ hook[4] = Cmp("cr7", "r3")
      /\ hook[5] = Br("cr7", "eq", 8)
      /\ hook[6] = Ba(ScriptExits[game].continue)
      /\ hook[7] = Ba(ScriptExits[game].bail)
  BY LBP3Words, SMT DEF hook
<1>1. Words = 7 /\ ScriptHook[game] = hook /\ game \in Games
  BY <1>0 DEF Words
<1>2. HookAddress[game] \in Nat /\ k \in Nat
  BY <1>1, ReachAssumption
<1>3. /\ InRoutine /\ ~AtSite /\ ~Left /\ Instr = hook[k]
      /\ pc + 4 = WordAt(k + 1)
  BY <1>1, Fetch DEF Instr
<1>4. ASSUME UNCHANGED <<game, routine>>, NEW n \in 1 .. 7, pc' = WordAt(n),
             LBP3Knows(n)'
      PROVE  ScriptInv'
  BY <1>1, <1>4, Arrive DEF Knows
<1>5. CASE k = 1
  <2>1. Instr = Cmp("cr0", "r3")
    BY <1>1, <1>3, <1>5, <1>w, SMT
  <2>2. Compare
    BY <1>3, <2>1, Dispatch DEF Cmp
  <2>3. /\ UNCHANGED <<game, routine, input, regs, calls>> /\ Advance
        /\ \E sign \in regs.r3 : cr'.cr0 = {sign}
    BY <2>1, <2>2, TakeCompare
  <2>4. pc' = WordAt(2)
    BY <1>3, <1>5, <2>3, SMT DEF Advance
  <2>5. \A s \in cr'.cr0 : s # 0 <=> input.failed
    BY <1>5, <2>3, SMT DEF LBP3Knows, TypeIn, Sign
  <2>6. LBP3Knows(2)'
    BY <1>5, <2>3, <2>5, SMT DEF LBP3Knows
  <2> QED
    BY <1>4, <2>3, <2>4, <2>6
<1>6. CASE k = 2
  <2>1. Branch /\ Instr = Br("cr0", "ne", 4 * 5)
    <3>1. Instr = Br("cr0", "ne", 20)
      BY <1>1, <1>3, <1>6, <1>w, SMT
    <3> QED
      BY <1>3, <3>1, Dispatch, SMT DEF Br
  <2>2. /\ UNCHANGED <<game, routine, input, regs, cr, calls>>
        /\ \E sign \in cr.cr0 :
              pc' = IF Holds("ne", sign) THEN WordAt(k + 5) ELSE WordAt(k + 1)
    <3>1. 5 \in Nat
      BY SMT
    <3> QED
      BY <1>2, <1>3, <2>1, <3>1, TakeBranch, Zenon
  <2>3. PICK sign \in cr.cr0 :
           pc' = IF Holds("ne", sign) THEN WordAt(7) ELSE WordAt(3)
    BY <1>6, <2>2, SMT
  <2>4. Holds("ne", sign) <=> input.failed
    BY <1>6, SMT DEF LBP3Knows, Holds
  <2>5. CASE Holds("ne", sign)
    <3>1. LBP3Knows(7)'
      BY <1>6, <2>2, <2>4, <2>5, SMT DEF LBP3Knows
    <3> QED
      BY <1>4, <2>2, <2>3, <2>5, <3>1
  <2>6. CASE ~Holds("ne", sign)
    <3>1. LBP3Knows(3)'
      BY <1>6, <2>2, <2>4, <2>6, SMT DEF LBP3Knows
    <3> QED
      BY <1>4, <2>2, <2>3, <2>6, <3>1
  <2> QED
    BY <2>5, <2>6
<1>7. CASE k = 3
  <2>1. Instr = Type("r3")
    BY <1>1, <1>3, <1>7, <1>w, SMT
  <2>2. Load
    BY <1>3, <2>1, Dispatch DEF Type
  <2>3. /\ UNCHANGED <<game, routine, input, cr, calls>> /\ Advance
        /\ regs'.r3 = (IF input.script THEN {0} ELSE {-1, 1})
        /\ regs'.r25 = regs.r25
    BY <2>1, <2>2, TakeType
  <2>4. pc' = WordAt(4)
    BY <1>3, <1>7, <2>3, SMT DEF Advance
  <2>5. LBP3Knows(4)'
    BY <1>7, <2>3, SMT DEF LBP3Knows, TypeIn
  <2> QED
    BY <1>4, <2>3, <2>4, <2>5
<1>8. CASE k = 4
  <2>1. Instr = Cmp("cr7", "r3")
    BY <1>1, <1>3, <1>8, <1>w, SMT
  <2>2. Compare
    BY <1>3, <2>1, Dispatch DEF Cmp
  <2>3. /\ UNCHANGED <<game, routine, input, regs, calls>> /\ Advance
        /\ \E sign \in regs.r3 : cr'.cr7 = {sign}
    BY <2>1, <2>2, TakeCompare
  <2>4. pc' = WordAt(5)
    BY <1>3, <1>8, <2>3, SMT DEF Advance
  <2>5. \A s \in cr'.cr7 : s = 0 <=> input.script
    BY <1>8, <2>3, SMT DEF LBP3Knows, TypeIn, Sign
  <2>6. LBP3Knows(5)'
    BY <1>8, <2>3, <2>5, SMT DEF LBP3Knows
  <2> QED
    BY <1>4, <2>3, <2>4, <2>6
<1>9. CASE k = 5
  <2>1. Branch /\ Instr = Br("cr7", "eq", 4 * 2)
    <3>1. Instr = Br("cr7", "eq", 8)
      BY <1>1, <1>3, <1>9, <1>w, SMT
    <3> QED
      BY <1>3, <3>1, Dispatch, SMT DEF Br
  <2>2. /\ UNCHANGED <<game, routine, input, regs, cr, calls>>
        /\ \E sign \in cr.cr7 :
              pc' = IF Holds("eq", sign) THEN WordAt(k + 2) ELSE WordAt(k + 1)
    <3>1. 2 \in Nat
      BY SMT
    <3> QED
      BY <1>2, <1>3, <2>1, <3>1, TakeBranch, Zenon
  <2>3. PICK sign \in cr.cr7 :
           pc' = IF Holds("eq", sign) THEN WordAt(7) ELSE WordAt(6)
    BY <1>9, <2>2, SMT
  <2>4. Holds("eq", sign) <=> input.script
    BY <1>9, SMT DEF LBP3Knows, Holds
  <2>5. CASE Holds("eq", sign)
    <3>1. LBP3Knows(7)'
      BY <1>9, <2>2, <2>4, <2>5, SMT DEF LBP3Knows
    <3> QED
      BY <1>4, <2>2, <2>3, <2>5, <3>1
  <2>6. CASE ~Holds("eq", sign)
    <3>1. LBP3Knows(6)'
      BY <1>9, <2>2, <2>4, <2>6, SMT DEF LBP3Knows
    <3> QED
      BY <1>4, <2>2, <2>3, <2>6, <3>1
  <2> QED
    BY <2>5, <2>6
<1>10. CASE k \in {6, 7}
  <2> DEFINE exit == IF k = 6 THEN "continue" ELSE "bail"
  <2>1. Instr = Ba(ScriptExits[game][exit])
    BY <1>1, <1>3, <1>10, <1>w, SMT DEF ScriptExits
  <2>2. Jump
    BY <1>3, <2>1, Dispatch DEF Ba
  <2>3. /\ pc' = ScriptExits[game][exit]
        /\ UNCHANGED <<game, routine, input, calls>>
    BY <2>1, <2>2, TakeJump
  <2>4. /\ exit = "continue" <=> ~input.script /\ ~Fails
        /\ IF game = "LBP1" /\ exit = "continue"
           THEN calls = <<<<"AddToCSRQueue", {1}, Signs>>>> ELSE calls = <<>>
    BY <1>10, SMT DEF LBP3Knows, Fails
  <2> QED
    BY <2>3, <2>4, Leave
<1> QED
  BY <1>5, <1>6, <1>7, <1>8, <1>9, <1>10, SMT

LEMMA LBP1Step ==
    ASSUME ScriptInv, Registers, routine = "script", game = "LBP1",
           NEW k \in 1 .. 8, pc = WordAt(k), LBP1Knows(k), Next
    PROVE  ScriptInv'
<1>1. Words = 8 /\ ScriptHook[game] = LBP1ScriptHook /\ game \in Games
  BY LBP1Words, SMT DEF Words, ScriptHook, ScriptInv
<1>2. HookAddress[game] \in Nat /\ k \in Nat
  BY <1>1, ReachAssumption
<1>3. /\ InRoutine /\ ~AtSite /\ ~Left /\ Instr = LBP1ScriptHook[k]
      /\ pc + 4 = WordAt(k + 1)
  BY <1>1, Fetch DEF Instr
<1>4. ASSUME UNCHANGED <<game, routine>>, NEW n \in 1 .. 8, pc' = WordAt(n),
             LBP1Knows(n)'
      PROVE  ScriptInv'
  BY <1>1, <1>4, Arrive DEF Knows
<1>5. CASE k = 1
  <2>1. Instr.op = "args"
    BY <1>1, <1>3, <1>5, LBP1Words, SMT DEF Arg
  <2>2. Move
    BY <1>3, <2>1, Dispatch
  <2>3. UNCHANGED <<game, routine, input, regs, cr, calls>> /\ Advance
    BY <2>1, <2>2, SMT DEF Move, Executes, Instr
  <2>4. pc' = WordAt(2)
    BY <1>3, <1>5, <2>3, SMT DEF Advance
  <2>5. LBP1Knows(2)'
    BY <1>5, <2>3, SMT DEF LBP1Knows
  <2> QED
    BY <1>4, <2>3, <2>4, <2>5
<1>6. CASE k = 2
  <2>1. Instr = Type("r3")
    BY <1>1, <1>3, <1>6, LBP1Words, SMT
  <2>2. Load
    BY <1>3, <2>1, Dispatch DEF Type
  <2>3. /\ UNCHANGED <<game, routine, input, cr, calls>> /\ Advance
        /\ regs'.r3 = (IF input.script THEN {0} ELSE {-1, 1})
        /\ regs'.r25 = regs.r25
    BY <2>1, <2>2, TakeType
  <2>4. pc' = WordAt(3)
    BY <1>3, <1>6, <2>3, SMT DEF Advance
  <2>5. LBP1Knows(3)'
    BY <1>6, <2>3, SMT DEF LBP1Knows, TypeIn
  <2> QED
    BY <1>4, <2>3, <2>4, <2>5
<1>7. CASE k = 3
  <2>1. Instr = Cmp("cr7", "r3")
    BY <1>1, <1>3, <1>7, LBP1Words, SMT
  <2>2. Compare
    BY <1>3, <2>1, Dispatch DEF Cmp
  <2>3. /\ UNCHANGED <<game, routine, input, regs, calls>> /\ Advance
        /\ \E sign \in regs.r3 : cr'.cr7 = {sign}
    BY <2>1, <2>2, TakeCompare
  <2>4. pc' = WordAt(4)
    BY <1>3, <1>7, <2>3, SMT DEF Advance
  <2>5. \A s \in cr'.cr7 : s = 0 <=> input.script
    BY <1>7, <2>3, SMT DEF LBP1Knows, TypeIn, Sign
  <2>6. LBP1Knows(4)'
    BY <1>7, <2>3, <2>5, SMT DEF LBP1Knows
  <2> QED
    BY <1>4, <2>3, <2>4, <2>6
<1>8. CASE k = 4
  <2>1. Branch /\ Instr = Br("cr7", "eq", 4 * 4)
    <3>1. Instr = Br("cr7", "eq", 16)
      BY <1>1, <1>3, <1>8, LBP1Words, SMT
    <3> QED
      BY <1>3, <3>1, Dispatch, SMT DEF Br
  <2>2. /\ UNCHANGED <<game, routine, input, regs, cr, calls>>
        /\ \E sign \in cr.cr7 :
              pc' = IF Holds("eq", sign) THEN WordAt(k + 4) ELSE WordAt(k + 1)
    <3>1. 4 \in Nat
      BY SMT
    <3> QED
      BY <1>2, <1>3, <2>1, <3>1, TakeBranch, Zenon
  <2>3. PICK sign \in cr.cr7 :
           pc' = IF Holds("eq", sign) THEN WordAt(8) ELSE WordAt(5)
    BY <1>8, <2>2, SMT
  <2>4. Holds("eq", sign) <=> input.script
    BY <1>8, SMT DEF LBP1Knows, Holds
  <2>5. CASE Holds("eq", sign)
    <3>1. LBP1Knows(8)'
      BY <1>8, <2>2, <2>4, <2>5, SMT DEF LBP1Knows
    <3> QED
      BY <1>4, <2>2, <2>3, <2>5, <3>1
  <2>6. CASE ~Holds("eq", sign)
    <3>1. LBP1Knows(5)'
      BY <1>8, <2>2, <2>4, <2>6, SMT DEF LBP1Knows
    <3> QED
      BY <1>4, <2>2, <2>3, <2>6, <3>1
  <2> QED
    BY <2>5, <2>6
<1>9. CASE k = 5
  <2>1. Instr = Mr("r3", "r25")
    BY <1>1, <1>3, <1>9, LBP1Words, SMT
  <2>2. Instr.op = "mr" /\ Instr.reg = "r3" /\ Instr.from = "r25"
    BY <2>1 DEF Mr
  <2>3. Move
    BY <1>3, <2>2, Dispatch
  <2>4. /\ UNCHANGED <<game, routine, input, cr, calls>> /\ Advance
        /\ regs' = [regs EXCEPT !["r3"] = regs["r25"]]
    BY <2>2, <2>3, SMT DEF Move, Executes, Instr
  <2>5. regs'.r3 = regs.r25
    BY <2>4 DEF Registers
  <2>6. pc' = WordAt(6)
    BY <1>3, <1>9, <2>4, SMT DEF Advance
  <2>7. LBP1Knows(6)'
    BY <1>9, <2>4, <2>5, SMT DEF LBP1Knows
  <2> QED
    BY <1>4, <2>4, <2>6, <2>7
<1>10. CASE k = 6
  <2>1. Instr = Bla("AddToCSRQueue")
    BY <1>1, <1>3, <1>10, LBP1Words, SMT
  <2>2. Instr.op = "call" /\ Instr.function = "AddToCSRQueue"
    BY <2>1 DEF Bla
  <2>3. Call
    BY <1>3, <2>2, Dispatch
  <2>4. /\ UNCHANGED <<game, routine, input>> /\ Advance
        /\ \E result \in Results("AddToCSRQueue") :
              calls' = Append(calls, <<"AddToCSRQueue", Argument("AddToCSRQueue"),
                                       result>>)
    BY <2>2, <2>3 DEF Call
  <2>5. Results("AddToCSRQueue") = {Signs} /\ Argument("AddToCSRQueue") = regs.r3
    BY DEF Results, Argument
  <2>6. calls' = Append(calls, <<"AddToCSRQueue", regs.r3, Signs>>)
    BY <2>4, <2>5
  <2>7. calls' = <<<<"AddToCSRQueue", {1}, Signs>>>>
    BY <1>10, <2>6, SMT DEF LBP1Knows
  <2>8. pc' = WordAt(7)
    BY <1>3, <1>10, <2>4, SMT DEF Advance
  <2>9. LBP1Knows(7)'
    BY <1>10, <2>4, <2>7, SMT DEF LBP1Knows
  <2> QED
    BY <1>4, <2>4, <2>8, <2>9
<1>11. CASE k \in {7, 8}
  <2> DEFINE exit == IF k = 7 THEN "continue" ELSE "bail"
  <2>1. Instr = Ba(ScriptExits[game][exit])
    BY <1>1, <1>3, <1>11, LBP1Words, SMT DEF ScriptExits
  <2>2. Jump
    BY <1>3, <2>1, Dispatch DEF Ba
  <2>3. /\ pc' = ScriptExits[game][exit]
        /\ UNCHANGED <<game, routine, input, calls>>
    BY <2>1, <2>2, TakeJump
  <2>4. /\ exit = "continue" <=> ~input.script /\ ~Fails
        /\ IF game = "LBP1" /\ exit = "continue"
           THEN calls = <<<<"AddToCSRQueue", {1}, Signs>>>> ELSE calls = <<>>
    BY <1>11, SMT DEF LBP1Knows, Fails
  <2> QED
    BY <2>3, <2>4, Leave
<1> QED
  BY <1>5, <1>6, <1>7, <1>8, <1>9, <1>10, <1>11, SMT


\* No instruction adds or drops a register.
LEMMA RegistersKept == Registers /\ [Next]_vars => Registers'
<1> SUFFICES ASSUME Registers, [Next]_vars PROVE Registers'
  OBVIOUS
<1>1. CASE regs' = regs /\ cr' = cr
  BY <1>1 DEF Registers
<1>2. CASE Compare
  BY <1>2 DEF Compare, Registers
<1>3. CASE Move
  BY <1>3 DEF Move, Registers
<1>4. CASE Load
  BY <1>4 DEF Load, Registers
<1>5. CASE Call
  <2>1. PICK result :
           regs' = [regs EXCEPT !.r0 = Signs, !.r3 = result,
                                !.r6 = Signs, !.r7 = Signs]
    BY <1>5 DEF Call
  <2>2. DOMAIN regs' = DOMAIN regs
    BY <2>1
  <2>3. DOMAIN cr' = {"cr0", "cr7"}
    BY <1>5, SMT DEF Call
  <2> QED
    BY <2>2, <2>3 DEF Registers
<1> QED
  BY <1>1, <1>2, <1>3, <1>4, <1>5 DEF Next, vars, TakeHook, Branch, Jump, Return

\* Where the hooks leave for, none of their words is fetched.
LEMMA HookEnds == ASSUME game \in Games, routine = "script", Left
                  PROVE  ~InRoutine /\ ~AtSite
<1>1. game \in KnownGames
  BY GamesAssumption
<1>2. /\ HookAddress[game] \in Nat /\ Base = HookAddress[game]
      /\ Code = ScriptHook[game] /\ Exits = ScriptExits[game]
  BY ReachAssumption DEF Base, Code, Exits
<1>3. PICK exit \in {"continue", "bail"} : pc = ScriptExits[game][exit]
  BY <1>1, <1>2, SMT DEF Left, At, KnownGames, ScriptExits
<1>4. pc \in Nat /\ pc # ResourceCheck[game]
  BY <1>1, <1>3, SMT DEF KnownGames, ScriptExits, ResourceCheck
<1>5. Words \in Nat
  BY <1>1, WordCount
<1>6. pc < Base \/ pc >= Base + 4 * Words
  <2>1. pc \in {ScriptExits[game].continue, ScriptExits[game].bail}
    BY <1>3
  <2> QED
    BY <1>2, <2>1, ExitsAssumption DEF Words
<1>7. ~InRoutine
  <2>1. Len(Code) = Words
    BY <1>2 DEF Words
  <2>2. CASE pc < Base
    BY <1>2, <1>4, <2>2, SMT DEF InRoutine
  <2>3. CASE pc >= Base + 4 * Words
    <3>1. Word > Words
      BY <1>2, <1>4, <1>5, <2>3, SMT DEF Word
    <3>2. Word \in Int
      BY <1>2, <1>4, SMT DEF Word
    <3> QED
      BY <1>5, <2>1, <3>1, <3>2, SMT DEF InRoutine
  <2> QED
    BY <1>6, <2>2, <2>3
<1> QED
  BY <1>4, <1>7 DEF AtSite

LEMMA ScriptInvInit == Init => ScriptInv /\ Registers
<1> SUFFICES ASSUME Init PROVE ScriptInv /\ Registers
  OBVIOUS
<1>1. Registers
  BY DEF Init, Registers
<1>2. ASSUME routine = "script" PROVE AtSite /\ Knows(1)
  <2>1. AtSite
    BY <1>2, SMT DEF Init, AtSite
  <2>2. /\ calls = <<>> /\ regs.r3 = Sign(input.failed) /\ regs.r25 = {1}
        /\ cr.cr7 = IF input.failed THEN {0} ELSE {-1, 1}
    BY DEF Init
  <2>3. \A s \in cr.cr7 : s = 0 <=> input.failed
    BY <2>2, SMT
  <2>4. LBP1Knows(1) /\ LBP2Knows(1) /\ LBP3Knows(1)
    BY <2>2, <2>3, SMT DEF LBP1Knows, LBP2Knows, LBP3Knows
  <2> QED
    BY <2>1, <2>4 DEF Knows
<1> QED
  BY <1>1, <1>2 DEF Init, ScriptInv

LEMMA ScriptInvStep == ScriptInv /\ Registers /\ [Next]_vars => ScriptInv'
<1> SUFFICES ASSUME ScriptInv, Registers, [Next]_vars PROVE ScriptInv'
  OBVIOUS
<1>1. UNCHANGED <<game, routine>> /\ game \in Games /\ game \in KnownGames
  BY GamesAssumption
     DEF ScriptInv, Next, vars, TakeHook, Compare, Branch, Jump, Move, Load, Call,
         Return
<1>2. CASE UNCHANGED vars
  BY <1>2 DEF vars, ScriptInv, AtSite, Knows, LBP1Knows, LBP2Knows, LBP3Knows,
     TypeIn, Within, Words, WordAt, Left, At, Exits, ScriptsBlocked, Called
<1>3. CASE routine = "join"
  BY <1>1, <1>3 DEF ScriptInv
<1>4. CASE routine = "script" /\ Next /\ AtSite /\ Knows(1)
  <2>1. ~InRoutine
    BY <1>1, <1>4, SiteApart
  <2>2. CASE Return
    BY <1>2, <2>2 DEF Return
  <2>3. CASE TakeHook
    <3>1. /\ pc = ResourceCheck[game] /\ pc \in Nat /\ HookAddress[game] \in Nat
          /\ (HookAddress[game] - pc) % 4 = 0
          /\ HookAddress[game] - pc + Reach >= 0 /\ HookAddress[game] - pc < Reach
      BY <1>1, ReachAssumption, SiteWord, <2>3 DEF TakeHook, AtSite
    <3>2. pc' = HookAddress[game]
      BY <2>3, <3>1, BranchLands DEF TakeHook
    <3>3. pc' = WordAt(1)
      BY <3>1, <3>2, SMT DEF WordAt
    <3>4. Knows(1)'
      BY <1>4, <2>3 DEF TakeHook, Knows, LBP1Knows, LBP2Knows, LBP3Knows, TypeIn
    <3>5. Words \in Nat /\ 1 \in 1 .. Words
      BY <1>1, WordCount
    <3> QED
      BY <1>1, <3>3, <3>4, <3>5, Arrive
  <2> QED
    BY <1>4, <2>1, <2>2, <2>3
       DEF Next, Compare, Branch, Jump, Move, Load, Call, Executes
<1>5. CASE routine = "script" /\ Next /\ Within
  <2>1. PICK k \in 1 .. Words : pc = WordAt(k) /\ Knows(k)
    BY <1>5 DEF Within, Words
  <2>2. CASE game = "LBP1"
    <3>1. k \in 1 .. 8 /\ LBP1Knows(k)
      BY <1>1, <2>1, <2>2, WordCount DEF Knows
    <3> QED
      BY <1>5, <2>1, <2>2, <3>1, LBP1Step
  <2>3. CASE game = "LBP2"
    <3>1. k \in 1 .. 6 /\ LBP2Knows(k)
      BY <1>1, <2>1, <2>3, WordCount DEF Knows
    <3> QED
      BY <1>5, <2>1, <2>3, <3>1, LBP2Step
  <2>4. CASE game \in {"LBP3", "LBP3_JP"}
    <3>1. k \in 1 .. 7
      BY <1>1, <2>1, <2>4, WordCount
    <3>2. LBP3Knows(k)
      BY <2>1, <2>4 DEF Knows
    <3> QED
      BY <1>5, <2>1, <2>4, <3>1, <3>2, LBP3Step
  <2> QED
    BY <1>1, <2>2, <2>3, <2>4 DEF KnownGames
<1>6. CASE routine = "script" /\ Next /\ Left
  <2>1. ~InRoutine /\ ~AtSite
    BY <1>1, <1>6, HookEnds
  <2>2. Return
    BY <1>6, <2>1
       DEF Next, TakeHook, Compare, Branch, Jump, Move, Load, Call, Executes
  <2> QED
    BY <1>2, <2>2 DEF Return
<1> QED
  BY <1>2, <1>3, <1>4, <1>5, <1>6 DEF ScriptInv

\* Wherever the module is loaded, its hooks let no script through, and anything
\* else exactly if the game's own check found nothing wrong (script-block.s).
THEOREM ScriptSafety == Spec => []ScriptsBlocked
<1>1. ScriptInv => ScriptsBlocked
  <2> SUFFICES ASSUME ScriptInv, routine = "script", Left PROVE ScriptsBlocked
    BY DEF ScriptsBlocked
  <2>1. game \in Games /\ ~InRoutine /\ ~AtSite
    BY HookEnds DEF ScriptInv
  <2>2. ~Within
    <3> SUFFICES ASSUME NEW k \in 1 .. Words, pc = WordAt(k) PROVE FALSE
      BY DEF Within, Words
    <3>1. Words \in Nat
      BY <2>1, GamesAssumption, WordCount
    <3> QED
      BY <2>1, <3>1, Fetch
  <2> QED
    BY <2>1, <2>2 DEF ScriptInv
<1> QED
  BY <1>1, ScriptInvInit, ScriptInvStep, RegistersKept, PTL DEF Spec

-------------------------------------------------------------------------------
(* The words of the join routines.                                         *)

\* The address of the k-th word, also of those before and behind the routine.
JoinWord(k) == ForceJoinAddress[game] + 4 * (k - 1)

JoinWords == CASE game = "LBP1" -> 16
               [] game = "LBP2" -> 30
               [] OTHER -> 28

\* Where the game's own code goes on, as words of the routine.
JoinEnds == CASE game = "LBP1" -> {17, 64}
              [] game = "LBP2" -> {-35, 31}
              [] OTHER -> {29, 38}

-------------------------------------------------------------------------------
(* What the join routines have found out, word by word.                    *)

Asked(s) == s = <<>> \/ (\E who, entry : s = <<<<"FindFriend", who, entry>>>>)

\* Not dealt with, dealt with once, and forwarded because that failed.
Undealt == Asked(calls)
Dealt(skip, result) ==
    \E s : Asked(s) /\ calls = Append(s, <<"DealWithRequest", skip, result>>)
Forwarded ==
    \E s, what, back :
        /\ Asked(s)
        /\ calls = Append(Append(s, <<"DealWithRequest", {0}, {0}>>),
                          <<"ForwardRequest", what, back>>)

\* The words LBP1's and LBP2's have in common, up to the third branch.
StartKnows(k) ==
    /\ Undealt /\ (k <= 10 => calls = <<>>)
    /\ k = 1 => regs.local = Sign(input.local)
    /\ k = 2 => regs.r0 = Sign(input.local)
    /\ k = 3 => \A s \in cr.cr7 : s # 0 <=> input.local
    /\ k >= 4 => ~input.local
    /\ k \in 11 .. 13 => regs.r3 = Sign(input.friend)
    /\ k = 12 => \A s \in cr.cr7 : s # 0 <=> input.friend
    /\ k >= 13 => input.friend
    /\ k = 14 => regs.r6 = {input.invited}
    /\ k = 15 => cr.cr7 = {input.invited}

LBP1JoinKnows(k) ==
    /\ k \in 1 .. 15 => StartKnows(k)
    /\ k \in {16, 17, 64} => Undealt /\ (Wanted <=> k # 64)

LBP2JoinKnows(k) ==
    /\ k \in 1 .. 15 => StartKnows(k)
    /\ k \in 16 .. 22 \union {31} => Undealt
    /\ k > 15 \/ k = -35 => (Wanted <=> k = 31)
    /\ k \in 21 .. 22 => regs.r7 = {0}
    /\ k \in 23 .. 25 =>
          \E z \in {0, 1} : /\ Dealt({0}, {z})
                            /\ k \in 23 .. 24 => regs.r3 = {z}
                            /\ k = 25 => cr.cr7 = {z}
    /\ k \in 26 .. 29 => Dealt({0}, {0})
    /\ k = 30 => Forwarded
    /\ k = -35 => Forwarded \/ Dealt({0}, {1})

\* What DealWithRequest has come to is known from its return on.
LBP3Answered(k, z) ==
    /\ Dealt(Sign(Wanted), {z})
    /\ k \in 25 .. 27 => regs.r3 = {z}
    /\ k = 26 => \A s \in cr.cr0 : s # 0 <=> Wanted
    /\ k \in 27 .. 29 => ~Wanted
    /\ k = 28 => cr.cr0 = {z}
    /\ k = 29 => z = 0
    /\ k = 38 => Wanted \/ z = 1

LBP3JoinKnows(k) ==
    /\ k <= 24 => Undealt /\ (k <= 8 => calls = <<>>)
    /\ k = 1 => regs.local = Sign(input.local)
    /\ k = 2 => \A s \in cr.cr0 : s # 0 <=> input.local
    /\ k \in 3 .. 13 => ~input.local
    /\ k \in 9 .. 11 => regs.r3 = Sign(input.friend)
    /\ k = 10 => \A s \in cr.cr0 : s # 0 <=> input.friend
    /\ k \in 11 .. 13 => input.friend
    /\ k = 12 => regs.r3 = {input.invited}
    /\ k = 13 => cr.cr0 = {input.invited}
    /\ k \in 14 .. 15 => Wanted
    /\ k = 15 => regs.r26 = {1}
    /\ k = 16 => ~Wanted
    /\ k \in 17 .. 25 => regs.r26 = Sign(Wanted)
    /\ k \in 22 .. 24 => regs.r7 = Sign(Wanted)
    /\ k > 24 => \E z \in {0, 1} : LBP3Answered(k, z)

JoinKnows(k) == CASE game = "LBP1" -> LBP1JoinKnows(k)
                  [] game = "LBP2" -> LBP2JoinKnows(k)
                  [] OTHER -> LBP3JoinKnows(k)

\* At a word of the routine, or where the game's own code goes on, with what is
\* known there.
JoinInv ==
    routine = "join" =>
        \E k \in 1 .. JoinWords \union JoinEnds : pc = JoinWord(k) /\ JoinKnows(k)

-------------------------------------------------------------------------------
(* The tables of what is known at each word.                               *)

\* What is copied over the game's code is the whole of each routine.
LEMMA JoinCode ==
    ASSUME game \in KnownGames, routine = "join"
    PROVE  /\ Len(Code) = JoinWords /\ JoinWords \in Nat
           /\ \A k \in 1 .. JoinWords : Code[k] = ForceJoin[game][k]
<1>1. Code = SubSeq(ForceJoin[game], 1, ForceJoinLength[game] \div 4)
  BY DEF Code
<1>2. CASE game = "LBP1"
  <2>1. ForceJoin[game] = LBP1ForceJoin /\ ForceJoinLength[game] \div 4 = 16
    BY <1>2, SMT DEF ForceJoin, ForceJoinLength
  <2>2. Len(LBP1ForceJoin) = 16 /\ \E S : LBP1ForceJoin \in Seq(S)
    BY LBP1Join
  <2>3. /\ Len(SubSeq(LBP1ForceJoin, 1, 16)) = 16
        /\ \A k \in 1 .. 16 :
              SubSeq(LBP1ForceJoin, 1, 16)[k] = LBP1ForceJoin[k]
    BY <2>2, Whole
  <2>4. Code = SubSeq(LBP1ForceJoin, 1, 16)
    BY <1>1, <2>1
  <2>5. JoinWords = 16
    BY <1>2, SMT DEF JoinWords
  <2> QED
    BY <2>1, <2>3, <2>4, <2>5
<1>3. CASE game = "LBP2"
  <2>1. ForceJoin[game] = LBP2ForceJoin /\ ForceJoinLength[game] \div 4 = 30
    BY <1>3, SMT DEF ForceJoin, ForceJoinLength
  <2>2. Len(LBP2ForceJoin) = 30 /\ \E S : LBP2ForceJoin \in Seq(S)
    BY LBP2Join
  <2>3. /\ Len(SubSeq(LBP2ForceJoin, 1, 30)) = 30
        /\ \A k \in 1 .. 30 :
              SubSeq(LBP2ForceJoin, 1, 30)[k] = LBP2ForceJoin[k]
    BY <2>2, Whole
  <2>4. Code = SubSeq(LBP2ForceJoin, 1, 30)
    BY <1>1, <2>1
  <2>5. JoinWords = 30
    BY <1>3, SMT DEF JoinWords
  <2> QED
    BY <2>1, <2>3, <2>4, <2>5
<1>4. CASE game \in {"LBP3", "LBP3_JP"}
  <2>1. ForceJoin[game] = LBP3ForceJoin /\ ForceJoinLength[game] \div 4 = 28
    BY <1>4, SMT DEF ForceJoin, ForceJoinLength
  <2>2. Len(LBP3ForceJoin) = 28 /\ \E S : LBP3ForceJoin \in Seq(S)
    BY LBP3Join
  <2>3. /\ Len(SubSeq(LBP3ForceJoin, 1, 28)) = 28
        /\ \A k \in 1 .. 28 :
              SubSeq(LBP3ForceJoin, 1, 28)[k] = LBP3ForceJoin[k]
    BY <2>2, Whole
  <2>4. Code = SubSeq(LBP3ForceJoin, 1, 28)
    BY <1>1, <2>1
  <2>5. JoinWords = 28
    BY <1>4, SMT DEF JoinWords
  <2> QED
    BY <2>1, <2>3, <2>4, <2>5
<1> QED
  BY <1>2, <1>3, <1>4 DEF KnownGames

\* The paths back to the game, as words.
LEMMA JoinPaths ==
    ASSUME game \in KnownGames, routine = "join"
    PROVE  /\ game = "LBP1" => /\ DOMAIN Exits = {"accept", "refuse"}
                               /\ Exits["accept"] = JoinWord(17)
                               /\ Exits["refuse"] = JoinWord(64)
           /\ game = "LBP2" => /\ DOMAIN Exits = {"accept", "done"}
                               /\ Exits["accept"] = JoinWord(31)
                               /\ Exits["done"] = JoinWord(-35)
           /\ game \in {"LBP3", "LBP3_JP"} =>
                               /\ DOMAIN Exits = {"ask", "done"}
                               /\ Exits["ask"] = JoinWord(29)
                               /\ Exits["done"] = JoinWord(38)
           /\ ForceJoinAddress[game] \in Nat /\ ForceJoinAddress[game] > 200
  BY SMT DEF Exits, JoinExits, ForceJoinAddress, JoinWord, KnownGames

\* Where a word is fetched, nothing else can happen.
LEMMA JoinFetch ==
    ASSUME game \in KnownGames, routine = "join",
           NEW k \in 1 .. JoinWords, pc = JoinWord(k)
    PROVE  /\ InRoutine /\ Instr = ForceJoin[game][k] /\ ~AtSite /\ ~Left
<1>1. Base = ForceJoinAddress[game] /\ Base \in Nat
  BY JoinPaths DEF Base
<1>2. JoinWords \in Nat /\ k \in Nat /\ k - 1 \in Nat
  BY JoinCode
<1>3. Word = k /\ pc >= Base
  <2>1. pc - Base = 4 * (k - 1) /\ pc >= Base
    BY <1>1, <1>2, SMT DEF JoinWord
  <2>2. ASSUME NEW n \in Nat PROVE (4 * n) \div 4 = n
    BY SMT
  <2> QED
    BY <1>2, <2>1, <2>2, SMT DEF Word
<1>4. InRoutine /\ Instr = ForceJoin[game][k]
  BY <1>3, JoinCode DEF InRoutine, Instr
<1>5. ~Left
  <2>1. \A n \in JoinEnds : JoinWord(n) # JoinWord(k)
    BY <1>1, <1>2, JoinPaths, SMT DEF JoinWord, JoinEnds, JoinWords, KnownGames
  <2> QED
    BY <2>1, JoinPaths, SMT DEF Left, At, JoinEnds, KnownGames
<1> QED
  BY <1>4, <1>5 DEF AtSite

-------------------------------------------------------------------------------
(* What each instruction comes to.                                         *)

\* The next step runs this instruction.
Runs(instr) == InRoutine /\ ~AtSite /\ ~Left /\ Instr = instr /\ Next

LEMMA RunCompare ==
    ASSUME Registers, NEW field \in {"cr0", "cr7"}, NEW reg, Runs(Cmp(field, reg))
    PROVE  /\ UNCHANGED <<game, routine, input, regs, calls>> /\ pc' = pc + 4
           /\ \E sign \in regs[reg] : cr'[field] = {sign}
<1>1. Compare
  BY Dispatch DEF Runs, Cmp
<1> QED
  BY <1>1, TakeCompare DEF Runs, Advance

LEMMA RunBranch ==
    ASSUME NEW field, NEW cond, NEW offset \in Int, Runs(Br(field, cond, offset))
    PROVE  /\ UNCHANGED <<game, routine, input, regs, cr, calls>>
           /\ \E sign \in cr[field] :
                 pc' = IF Holds(cond, sign) THEN pc + (offset \div 4) * 4 ELSE pc + 4
<1>1. Branch
  BY Dispatch DEF Runs, Br
<1>2. Instr.field = field /\ Instr.cond = cond /\ Instr.offset = offset
  BY DEF Runs, Br
<1> QED
  BY <1>1, <1>2 DEF Branch

LEMMA RunB ==
    ASSUME NEW offset, Runs(B(offset))
    PROVE  UNCHANGED <<game, routine, input, regs, cr, calls>> /\ pc' = pc + offset
<1>1. Instr.op = "b" /\ Instr.offset = offset
  BY DEF Runs, B
<1>2. Jump
  BY <1>1 DEF Runs, Next, TakeHook, Compare, Branch, Move, Load, Call, Return,
     Executes, Instr
<1> QED
  BY <1>1, <1>2 DEF Jump, Executes, Instr

LEMMA RunArg ==
    ASSUME Runs(Arg)
    PROVE  UNCHANGED <<game, routine, input, regs, cr, calls>> /\ pc' = pc + 4
<1>1. Instr.op = "args"
  BY DEF Runs, Arg
<1>2. Move
  BY <1>1, Dispatch DEF Runs
<1> QED
  BY <1>1, <1>2, SMT DEF Move, Executes, Instr, Advance

LEMMA RunLi ==
    ASSUME Registers, NEW reg \in {"r6", "r7", "r26"}, NEW value, Runs(Li(reg, value))
    PROVE  /\ UNCHANGED <<game, routine, input, cr, calls>> /\ pc' = pc + 4
           /\ regs'[reg] = {value}
           /\ \A other \in DOMAIN regs \ {reg} : regs'[other] = regs[other]
<1>1. Instr.op = "li" /\ Instr.reg = reg /\ Instr.value = value
  BY DEF Runs, Li
<1>2. Move
  BY <1>1 DEF Runs, Next, TakeHook, Compare, Branch, Jump, Load, Call, Return,
     Executes, Instr
<1>3. regs' = [regs EXCEPT ![reg] = {value}]
  BY <1>1, <1>2, SMT DEF Move, Executes, Instr
<1> QED
  BY <1>2, <1>3 DEF Move, Advance, Registers

LEMMA RunMr ==
    ASSUME Registers, NEW reg \in {"r0", "r3", "r6", "r7"}, NEW from,
           Runs(Mr(reg, from))
    PROVE  /\ UNCHANGED <<game, routine, input, cr, calls>> /\ pc' = pc + 4
           /\ regs'[reg] = regs[from]
           /\ \A other \in DOMAIN regs \ {reg} : regs'[other] = regs[other]
<1>1. Instr.op = "mr" /\ Instr.reg = reg /\ Instr.from = from
  BY DEF Runs, Mr
<1>2. Move
  BY <1>1, Dispatch DEF Runs
<1>3. regs' = [regs EXCEPT ![reg] = regs[from]]
  BY <1>1, <1>2, SMT DEF Move, Executes, Instr
<1> QED
  BY <1>2, <1>3 DEF Move, Advance, Registers

LEMMA RunInvited ==
    ASSUME Registers, NEW reg \in {"r3", "r6"}, Runs(Invited(reg))
    PROVE  /\ UNCHANGED <<game, routine, input, cr, calls>> /\ pc' = pc + 4
           /\ regs'[reg] = {input.invited}
<1>1. Instr.op = "invited" /\ Instr.reg = reg
  BY DEF Runs, Invited
<1>2. Load
  BY <1>1 DEF Runs, Next, TakeHook, Compare, Branch, Jump, Move, Call, Return,
     Executes, Instr
<1>3. regs' = [regs EXCEPT ![reg] = {input.invited}]
  BY <1>1, <1>2, SMT DEF Load, Executes, Instr
<1> QED
  BY <1>2, <1>3 DEF Load, Advance, Registers

LEMMA RunCall ==
    ASSUME Registers, NEW function, Runs(Bla(function))
    PROVE  /\ UNCHANGED <<game, routine, input>> /\ pc' = pc + 4
           /\ \E result \in Results(function) :
                 /\ calls' = Append(calls, <<function, Argument(function), result>>)
                 /\ regs'.r3 = result
           /\ regs'.r26 = regs.r26
<1>1. Instr.op = "call" /\ Instr.function = function
  BY DEF Runs, Bla
<1>2. Call
  BY <1>1, Dispatch DEF Runs
<1>3. PICK result \in Results(function) :
         /\ calls' = Append(calls, <<function, Argument(function), result>>)
         /\ regs' = [regs EXCEPT !.r0 = Signs, !.r3 = result, !.r6 = Signs,
                                 !.r7 = Signs]
  BY <1>1, <1>2 DEF Call
<1>4. regs'.r3 = result /\ regs'.r26 = regs.r26
  BY <1>3, SMT DEF Registers
<1> QED
  BY <1>2, <1>3, <1>4 DEF Call, Advance

-------------------------------------------------------------------------------
(* One word at a time: what is known there is known where it leads.        *)

LEMMA JoinRuns ==
    ASSUME game \in KnownGames, routine = "join",
           NEW k \in 1 .. JoinWords, pc = JoinWord(k), Next
    PROVE  Runs(ForceJoin[game][k])
  BY JoinFetch DEF Runs

LEMMA JoinOffset ==
    ASSUME game \in KnownGames, NEW k \in Int, NEW n \in Int, pc = JoinWord(k)
    PROVE  pc + 4 = JoinWord(k + 1) /\ pc + n * 4 = JoinWord(k + n)
<1>1. ForceJoinAddress[game] \in Nat
  BY SMT DEF ForceJoinAddress, KnownGames
<1> QED
  BY <1>1, SMT DEF JoinWord

\* Where a branch of a routine goes, counted in words.
LEMMA JoinBranch ==
    ASSUME game \in KnownGames, NEW k \in Int, pc = JoinWord(k),
           NEW field, NEW cond, NEW offset \in Int, NEW n \in Int,
           offset \div 4 = n, Runs(Br(field, cond, offset))
    PROVE  /\ UNCHANGED <<input, regs, cr, calls>>
           /\ \E sign \in cr[field] :
                 pc' = JoinWord(IF Holds(cond, sign) THEN k + n ELSE k + 1)
<1>1. PICK sign \in cr[field] :
         pc' = IF Holds(cond, sign) THEN pc + (offset \div 4) * 4 ELSE pc + 4
  BY RunBranch
<1>2. pc' = JoinWord(IF Holds(cond, sign) THEN k + n ELSE k + 1)
  BY <1>1, JoinOffset
<1> QED
  BY <1>2, RunBranch

LEMMA AskedOnce ==
    ASSUME calls = <<>>, NEW who, NEW entry,
           calls' = Append(calls, <<"FindFriend", who, entry>>)
    PROVE  Undealt'
<1>1. calls' = <<<<"FindFriend", who, entry>>>>
  BY SMT
<1> QED
  BY <1>1 DEF Undealt, Asked

LEMMA StartWords ==
    ASSUME game \in {"LBP1", "LBP2"}
    PROVE  LET routineOf == ForceJoin[game]
           IN  /\ routineOf[1] = Mr("r0", "local") /\ routineOf[2] = Cmp("cr7", "r0")
               /\ \A k \in 4 .. 9 : routineOf[k] = Arg
               /\ routineOf[10] = Bla("FindFriend")
               /\ routineOf[11] = Cmp("cr7", "r3")
               /\ routineOf[13] = Invited("r6") /\ routineOf[14] = Cmp("cr7", "r6")
<1>1. CASE game = "LBP1"
  <2>1. ForceJoin[game] = LBP1ForceJoin
    BY <1>1, SMT DEF ForceJoin
  <2> QED
    BY <2>1, LBP1Join
<1>2. CASE game = "LBP2"
  <2>1. ForceJoin[game] = LBP2ForceJoin
    BY <1>2, SMT DEF ForceJoin
  <2> QED
    BY <2>1, LBP2Join
<1> QED
  BY <1>1, <1>2

\* The words between the branches of LBP1's and LBP2's.
LEMMA StartStep ==
    ASSUME Registers, game \in {"LBP1", "LBP2"}, routine = "join",
           NEW k \in {1, 2, 10, 11, 13, 14} \union 4 .. 9,
           pc = JoinWord(k), StartKnows(k), Next
    PROVE  pc' = JoinWord(k + 1) /\ StartKnows(k + 1)'
<1>1. game \in KnownGames /\ k \in Int /\ k \in 1 .. JoinWords
  BY SMT DEF KnownGames, JoinWords
<1>2. Runs(ForceJoin[game][k])
  BY <1>1, JoinRuns
<1>3. pc + 4 = JoinWord(k + 1) /\ (pc' = pc + 4 => pc' = JoinWord(k + 1))
  BY <1>1, JoinOffset
<1>4. CASE k = 1
  <2>1. Runs(Mr("r0", "local"))
    BY <1>2, <1>4, StartWords
  <2>2. UNCHANGED <<input, cr, calls>> /\ pc' = pc + 4 /\ regs'.r0 = regs.local
    BY <2>1, RunMr
  <2>3. StartKnows(2)'
    BY <1>4, <2>2, SMT DEF StartKnows, Undealt
  <2> QED
    BY <1>3, <1>4, <2>2, <2>3
<1>5. CASE k = 2
  <2>1. Runs(Cmp("cr7", "r0"))
    BY <1>2, <1>5, StartWords
  <2>2. /\ UNCHANGED <<input, regs, calls>> /\ pc' = pc + 4
        /\ \E sign \in regs.r0 : cr'.cr7 = {sign}
    BY <2>1, RunCompare
  <2>3. StartKnows(3)'
    BY <1>5, <2>2, SMT DEF StartKnows, Undealt, Sign
  <2> QED
    BY <1>3, <1>5, <2>2, <2>3
<1>6. CASE k \in 4 .. 9
  <2>1. Runs(Arg)
    BY <1>2, <1>6, StartWords
  <2>2. UNCHANGED <<input, regs, cr, calls>> /\ pc' = pc + 4
    BY <2>1, RunArg
  <2>3. StartKnows(k + 1)'
    BY <1>6, <2>2, SMT DEF StartKnows, Undealt
  <2> QED
    BY <1>3, <1>6, <2>2, <2>3
<1>7. CASE k = 10
  <2>1. Runs(Bla("FindFriend"))
    BY <1>2, <1>7, StartWords
  <2>2. PICK result \in Results("FindFriend") :
           /\ calls' = Append(calls, <<"FindFriend", Argument("FindFriend"), result>>)
           /\ regs'.r3 = result
    BY <2>1, RunCall
  <2>3. UNCHANGED input /\ pc' = pc + 4
    BY <2>1, RunCall
  <2>4. result = Sign(input.friend)
    BY SMT DEF Results
  <2>5. Undealt'
    BY <1>7, <2>2, AskedOnce DEF StartKnows
  <2>6. StartKnows(11)'
    BY <1>7, <2>2, <2>3, <2>4, <2>5, SMT DEF StartKnows
  <2> QED
    BY <1>3, <1>7, <2>3, <2>6
<1>8. CASE k = 11
  <2>1. Runs(Cmp("cr7", "r3"))
    BY <1>2, <1>8, StartWords
  <2>2. /\ UNCHANGED <<input, regs, calls>> /\ pc' = pc + 4
        /\ \E sign \in regs.r3 : cr'.cr7 = {sign}
    BY <2>1, RunCompare
  <2>3. StartKnows(12)'
    BY <1>8, <2>2, SMT DEF StartKnows, Undealt, Sign
  <2> QED
    BY <1>3, <1>8, <2>2, <2>3
<1>9. CASE k = 13
  <2>1. Runs(Invited("r6"))
    BY <1>2, <1>9, StartWords
  <2>2. /\ UNCHANGED <<input, cr, calls>> /\ pc' = pc + 4
        /\ regs'.r6 = {input.invited}
    BY <2>1, RunInvited
  <2>3. StartKnows(14)'
    BY <1>9, <2>2, SMT DEF StartKnows, Undealt
  <2> QED
    BY <1>3, <1>9, <2>2, <2>3
<1>10. CASE k = 14
  <2>1. Runs(Cmp("cr7", "r6"))
    BY <1>2, <1>10, StartWords
  <2>2. /\ UNCHANGED <<input, regs, calls>> /\ pc' = pc + 4
        /\ \E sign \in regs.r6 : cr'.cr7 = {sign}
    BY <2>1, RunCompare
  <2>3. StartKnows(15)'
    BY <1>10, <2>2, SMT DEF StartKnows, Undealt
  <2> QED
    BY <1>3, <1>10, <2>2, <2>3
<1> QED
  BY <1>4, <1>5, <1>6, <1>7, <1>8, <1>9, <1>10

\* Where the third word leads: a local player's request is let in.
LEMMA StartLocal ==
    ASSUME game \in KnownGames, routine = "join", pc = JoinWord(3), StartKnows(3),
           NEW offset \in Int, NEW n \in Int, offset \div 4 = n,
           Runs(Br("cr7", "ne", offset))
    PROVE  IF input.local THEN pc' = JoinWord(3 + n) /\ Undealt'
                          ELSE pc' = JoinWord(4) /\ StartKnows(4)'
<1>1. 3 \in Int
  BY SMT
<1>2. /\ UNCHANGED <<input, regs, cr, calls>>
      /\ \E sign \in cr.cr7 :
            pc' = JoinWord(IF Holds("ne", sign) THEN 3 + n ELSE 3 + 1)
  BY <1>1, JoinBranch, Zenon
<1>3. PICK sign \in cr.cr7 :
         pc' = JoinWord(IF Holds("ne", sign) THEN 3 + n ELSE 3 + 1)
  BY <1>2
<1>4. Holds("ne", sign) <=> input.local
  BY SMT DEF StartKnows, Holds
<1>5. ~input.local => StartKnows(4)'
  BY <1>2, SMT DEF StartKnows, Undealt
<1>6. Undealt'
  BY <1>2 DEF StartKnows, Undealt
<1> QED
  BY <1>3, <1>4, <1>5, <1>6, SMT

\* Where the twelfth leads: a stranger's request is not.
LEMMA StartFriend ==
    ASSUME game \in KnownGames, routine = "join", pc = JoinWord(12), StartKnows(12),
           NEW offset \in Int, NEW n \in Int, offset \div 4 = n,
           Runs(Br("cr7", "eq", offset))
    PROVE  IF input.friend THEN pc' = JoinWord(13) /\ StartKnows(13)'
                           ELSE pc' = JoinWord(12 + n) /\ Undealt'
<1>1. 12 \in Int
  BY SMT
<1>2. /\ UNCHANGED <<input, regs, cr, calls>>
      /\ \E sign \in cr.cr7 :
            pc' = JoinWord(IF Holds("eq", sign) THEN 12 + n ELSE 12 + 1)
  BY <1>1, JoinBranch, Zenon
<1>3. PICK sign \in cr.cr7 :
         pc' = JoinWord(IF Holds("eq", sign) THEN 12 + n ELSE 12 + 1)
  BY <1>2
<1>4. Holds("eq", sign) <=> ~input.friend
  BY SMT DEF StartKnows, Holds
<1>5. input.friend => StartKnows(13)'
  <2>1. ~input.local /\ regs.r3 = Sign(input.friend) /\ Undealt
    BY SMT DEF StartKnows
  <2>2. ~input'.local /\ regs'.r3 = Sign(input'.friend) /\ Undealt'
    BY <1>2, <2>1 DEF Undealt
  <2> QED
    BY <1>2, <2>2, SMT DEF StartKnows
<1>6. Undealt'
  BY <1>2 DEF StartKnows, Undealt
<1> QED
  BY <1>3, <1>4, <1>5, <1>6, SMT

\* A step comes to a place of the routine with what is known there.
Arrives == \E n \in 1 .. JoinWords \union JoinEnds :
               pc' = JoinWord(n) /\ JoinKnows(n)'

LEMMA LBP1JoinStep ==
    ASSUME Registers, game = "LBP1", routine = "join", UNCHANGED <<game, input>>,
           NEW k \in 1 .. 16, pc = JoinWord(k), LBP1JoinKnows(k), Next
    PROVE  Arrives
<1>1. /\ game \in KnownGames /\ k \in 1 .. JoinWords
      /\ ForceJoin[game] = LBP1ForceJoin /\ (Wanted' <=> Wanted)
  BY SMT DEF KnownGames, JoinWords, ForceJoin, Wanted
<1>2. Runs(LBP1ForceJoin[k])
  BY <1>1, JoinRuns
<1>3. ASSUME NEW n \in 1 .. 16 \union {17, 64}, pc' = JoinWord(n), LBP1JoinKnows(n)'
      PROVE  Arrives
  <2>1. n \in 1 .. JoinWords \union JoinEnds
    BY SMT DEF JoinWords, JoinEnds
  <2> QED
    BY <1>3, <2>1, SMT DEF Arrives, JoinKnows
<1>4. CASE k \in {1, 2, 10, 11, 13, 14} \union 4 .. 9
  <2>1. StartKnows(k)
    BY <1>4, SMT DEF LBP1JoinKnows
  <2>2. pc' = JoinWord(k + 1) /\ StartKnows(k + 1)'
    BY <1>4, <2>1, StartStep
  <2>3. LBP1JoinKnows(k + 1)' /\ k + 1 \in 1 .. 16
    BY <1>4, <2>2, SMT DEF LBP1JoinKnows
  <2> QED
    BY <1>3, <2>2, <2>3
<1>5. CASE k = 3
  <2>1. Runs(Br("cr7", "ne", \h3b)) /\ StartKnows(3)
    BY <1>2, <1>5, LBP1Join, SMT DEF LBP1JoinKnows
  <2>2. \h3b \in Int /\ 14 \in Int /\ \h3b \div 4 = 14 /\ 3 + 14 = 17
    BY SMT
  <2>3. IF input.local THEN pc' = JoinWord(17) /\ Undealt'
                       ELSE pc' = JoinWord(4) /\ StartKnows(4)'
    BY <1>1, <1>5, <2>1, <2>2, StartLocal
  <2>4. IF input.local THEN LBP1JoinKnows(17)' ELSE LBP1JoinKnows(4)'
    BY <1>1, <2>3, SMT DEF LBP1JoinKnows, Wanted
  <2> QED
    BY <1>3, <2>3, <2>4, SMT
<1>6. CASE k = 12
  <2>1. Runs(Br("cr7", "eq", \hd3)) /\ StartKnows(12)
    BY <1>2, <1>6, LBP1Join, SMT DEF LBP1JoinKnows
  <2>2. \hd3 \in Int /\ 52 \in Int /\ \hd3 \div 4 = 52 /\ 12 + 52 = 64
    BY SMT
  <2>3. IF input.friend THEN pc' = JoinWord(13) /\ StartKnows(13)'
                        ELSE pc' = JoinWord(64) /\ Undealt'
    BY <1>1, <1>6, <2>1, <2>2, StartFriend
  <2>4. IF input.friend THEN LBP1JoinKnows(13)' ELSE LBP1JoinKnows(64)'
    BY <1>1, <2>1, <2>3, SMT DEF LBP1JoinKnows, Wanted, StartKnows
  <2> QED
    BY <1>3, <2>3, <2>4, SMT
<1>7. CASE k = 15
  <2>1. Runs(Br("cr7", "eq", \hc7)) /\ StartKnows(15)
    BY <1>2, <1>7, LBP1Join, SMT DEF LBP1JoinKnows
  <2>2. \hc7 \in Int /\ 49 \in Int /\ \hc7 \div 4 = 49
    BY SMT
  <2>3. /\ UNCHANGED <<input, regs, cr, calls>>
        /\ \E sign \in cr.cr7 :
              pc' = JoinWord(IF Holds("eq", sign) THEN k + 49 ELSE k + 1)
    BY <1>1, <2>1, <2>2, JoinBranch
  <2>4. IF input.invited = 0 THEN pc' = JoinWord(64) ELSE pc' = JoinWord(16)
    BY <1>7, <2>1, <2>3, SMT DEF StartKnows, Holds
  <2>5. IF input.invited = 0 THEN LBP1JoinKnows(64)' ELSE LBP1JoinKnows(16)'
    BY <1>1, <2>1, <2>3, SMT DEF LBP1JoinKnows, Wanted, StartKnows, Undealt
  <2> QED
    BY <1>3, <2>4, <2>5, SMT
<1>8. CASE k = 16
  <2>1. Runs(Arg)
    BY <1>2, <1>8, LBP1Join
  <2>2. UNCHANGED <<input, calls>> /\ pc' = JoinWord(17)
    BY <1>1, <1>8, <2>1, RunArg, JoinOffset
  <2>3. LBP1JoinKnows(17)'
    BY <1>1, <1>8, <2>2, SMT DEF LBP1JoinKnows, Undealt
  <2> QED
    BY <1>3, <2>2, <2>3, SMT
<1> QED
  BY <1>4, <1>5, <1>6, <1>7, <1>8

\* The end of LBP2's, word by word.
LEMMA LBP2Tail ==
    /\ \A k \in (16 .. 18) \union {21} \union (26 .. 28) : LBP2ForceJoin[k] = Arg
    /\ LBP2ForceJoin[19] = Li("r6", 0) /\ LBP2ForceJoin[20] = Li("r7", 0)
    /\ LBP2ForceJoin[22] = Bla("DealWithRequest")
    /\ LBP2ForceJoin[23] = Mr("r3", "r3") /\ LBP2ForceJoin[24] = Cmp("cr7", "r3")
    /\ LBP2ForceJoin[25] = Br("cr7", "ne", -\hf0)
    /\ LBP2ForceJoin[29] = Bla("ForwardRequest") /\ LBP2ForceJoin[30] = B(-\h104)
<1>1. \A k \in 16 .. 30 : LBP2ForceJoin[k] = LBP2Deal[k - 15]
  <2> SUFFICES ASSUME NEW k \in 16 .. 30
               PROVE  LBP2ForceJoin[k] = LBP2Deal[k - 15]
    OBVIOUS
  <2>1. k - 15 \in 1 .. 15 /\ 15 + (k - 15) = k
    BY SMT
  <2> QED
    BY <2>1, LBP2Join
<1>2. ASSUME NEW k \in (16 .. 18) \union {21} \union (26 .. 28)
      PROVE  LBP2ForceJoin[k] = Arg
  <2>1. k \in 16 .. 30 /\ k - 15 \in (1 .. 3) \union {6} \union (11 .. 13)
    BY SMT
  <2> QED
    BY <1>1, <2>1, LBP2End
<1>3. /\ LBP2ForceJoin[19] = LBP2Deal[4] /\ LBP2ForceJoin[20] = LBP2Deal[5]
      /\ LBP2ForceJoin[22] = LBP2Deal[7] /\ LBP2ForceJoin[23] = LBP2Deal[8]
      /\ LBP2ForceJoin[24] = LBP2Deal[9] /\ LBP2ForceJoin[25] = LBP2Deal[10]
      /\ LBP2ForceJoin[29] = LBP2Deal[14] /\ LBP2ForceJoin[30] = LBP2Deal[15]
  BY <1>1, SMT
<1> QED
  BY <1>2, <1>3, LBP2End, SMT

LEMMA DealtOnce ==
    ASSUME Undealt, NEW skip, NEW result,
           calls' = Append(calls, <<"DealWithRequest", skip, result>>)
    PROVE  Dealt(skip, result)'
  BY DEF Undealt, Dealt

LEMMA ForwardedOnce ==
    ASSUME Dealt({0}, {0}), NEW what, NEW back,
           calls' = Append(calls, <<"ForwardRequest", what, back>>)
    PROVE  Forwarded'
  BY DEF Dealt, Forwarded

LEMMA LBP2JoinStep ==
    ASSUME Registers, game = "LBP2", routine = "join", UNCHANGED <<game, input>>,
           NEW k \in 1 .. 30, pc = JoinWord(k), LBP2JoinKnows(k), Next
    PROVE  Arrives
<1>1. /\ game \in KnownGames /\ k \in 1 .. JoinWords /\ k \in Int
      /\ ForceJoin[game] = LBP2ForceJoin /\ (Wanted' <=> Wanted)
  BY SMT DEF KnownGames, JoinWords, ForceJoin, Wanted
<1>2. Runs(LBP2ForceJoin[k])
  BY <1>1, JoinRuns
<1>3. ASSUME NEW n \in 1 .. 30 \union {-35, 31}, pc' = JoinWord(n), LBP2JoinKnows(n)'
      PROVE  Arrives
  <2>1. n \in 1 .. JoinWords \union JoinEnds
    BY SMT DEF JoinWords, JoinEnds
  <2> QED
    BY <1>3, <2>1, SMT DEF Arrives, JoinKnows
<1>n. pc + 4 = JoinWord(k + 1)
  BY <1>1, JoinOffset
<1>4. CASE k \in {1, 2, 10, 11, 13, 14} \union 4 .. 9
  <2>1. StartKnows(k)
    BY <1>4, SMT DEF LBP2JoinKnows
  <2>2. pc' = JoinWord(k + 1) /\ StartKnows(k + 1)'
    BY <1>4, <2>1, StartStep
  <2>3. LBP2JoinKnows(k + 1)' /\ k + 1 \in 1 .. 30
    BY <1>4, <2>2, SMT DEF LBP2JoinKnows
  <2> QED
    BY <1>3, <2>2, <2>3
<1>5. CASE k = 3
  <2>1. Runs(Br("cr7", "ne", \h73)) /\ StartKnows(3)
    BY <1>2, <1>5, LBP2Join, SMT DEF LBP2JoinKnows
  <2>2. \h73 \in Int /\ 28 \in Int /\ \h73 \div 4 = 28 /\ 3 + 28 = 31
    BY SMT
  <2>3. IF input.local THEN pc' = JoinWord(31) /\ Undealt'
                       ELSE pc' = JoinWord(4) /\ StartKnows(4)'
    BY <1>1, <1>5, <2>1, <2>2, StartLocal
  <2>4. IF input.local THEN LBP2JoinKnows(31)' ELSE LBP2JoinKnows(4)'
    BY <1>1, <2>3, SMT DEF LBP2JoinKnows, Wanted
  <2> QED
    BY <1>3, <2>3, <2>4, SMT
<1>6. CASE k = 12
  <2>1. Runs(Br("cr7", "eq", \h10)) /\ StartKnows(12)
    BY <1>2, <1>6, LBP2Join, SMT DEF LBP2JoinKnows
  <2>2. \h10 \in Int /\ 4 \in Int /\ \h10 \div 4 = 4 /\ 12 + 4 = 16
    BY SMT
  <2>3. IF input.friend THEN pc' = JoinWord(13) /\ StartKnows(13)'
                        ELSE pc' = JoinWord(16) /\ Undealt'
    BY <1>1, <1>6, <2>1, <2>2, StartFriend
  <2>4. IF input.friend THEN LBP2JoinKnows(13)' ELSE LBP2JoinKnows(16)'
    BY <1>1, <2>1, <2>3, SMT DEF LBP2JoinKnows, Wanted, StartKnows
  <2> QED
    BY <1>3, <2>3, <2>4, SMT
<1>7. CASE k = 15
  <2>1. Runs(Br("cr7", "gt", \h43)) /\ StartKnows(15)
    BY <1>2, <1>7, LBP2Join, SMT DEF LBP2JoinKnows
  <2>2. \h43 \in Int /\ 16 \in Int /\ \h43 \div 4 = 16
    BY SMT
  <2>3. /\ UNCHANGED <<input, regs, cr, calls>>
        /\ \E sign \in cr.cr7 :
              pc' = JoinWord(IF Holds("gt", sign) THEN k + 16 ELSE k + 1)
    BY <1>1, <2>1, <2>2, JoinBranch
  <2>4. IF input.invited = 1 THEN pc' = JoinWord(31) ELSE pc' = JoinWord(16)
    BY <1>7, <2>1, <2>3, SMT DEF StartKnows, Holds
  <2>5. Undealt' /\ (Wanted' <=> input.invited = 1)
    <3>1. Undealt /\ ~input.local /\ input.friend
      BY <2>1, SMT DEF StartKnows
    <3> QED
      BY <1>1, <2>3, <3>1 DEF Undealt, Wanted
  <2>6. IF input.invited = 1 THEN LBP2JoinKnows(31)' ELSE LBP2JoinKnows(16)'
    BY <2>5, SMT DEF LBP2JoinKnows
  <2> QED
    BY <1>3, <2>4, <2>6, SMT
<1>8. CASE k \in (16 .. 18) \union {21} \union (26 .. 28)
  <2>1. Runs(Arg)
    BY <1>2, <1>8, LBP2Tail
  <2>2. UNCHANGED <<input, regs, cr, calls>> /\ pc' = JoinWord(k + 1)
    BY <1>n, <2>1, RunArg
  <2>3. /\ k \in 16 .. 21 => Undealt' /\ (k = 21 => regs'.r7 = {0})
        /\ k \in 26 .. 28 => Dealt({0}, {0})'
        /\ ~Wanted' /\ k \in 16 .. 28
    <3>1. /\ k \in 16 .. 21 => Undealt /\ (k = 21 => regs.r7 = {0})
          /\ k \in 26 .. 28 => Dealt({0}, {0})
          /\ ~Wanted /\ k \in 16 .. 28
      BY <1>8, SMT DEF LBP2JoinKnows
    <3> QED
      BY <1>1, <2>2, <3>1 DEF Undealt, Dealt
  <2>4. LBP2JoinKnows(k + 1)' /\ k + 1 \in 1 .. 30
    BY <1>8, <2>3, SMT DEF LBP2JoinKnows
  <2> QED
    BY <1>3, <2>2, <2>4
<1>9. CASE k \in {19, 20}
  <2>1. PICK reg \in {"r6", "r7"} : Runs(Li(reg, 0)) /\ (k = 20 => reg = "r7")
    BY <1>2, <1>9, LBP2Tail, SMT
  <2>2. /\ UNCHANGED <<input, cr, calls>> /\ pc' = JoinWord(k + 1)
        /\ regs'[reg] = {0}
    BY <1>n, <2>1, RunLi
  <2>3. Undealt' /\ ~Wanted' /\ (k = 20 => regs'.r7 = {0})
    BY <1>1, <1>9, <2>1, <2>2, SMT DEF LBP2JoinKnows, Undealt
  <2>4. LBP2JoinKnows(k + 1)' /\ k + 1 \in 1 .. 30
    BY <1>9, <2>3, SMT DEF LBP2JoinKnows
  <2> QED
    BY <1>3, <2>2, <2>4
<1>10. CASE k = 22
  <2>1. Runs(Bla("DealWithRequest"))
    BY <1>2, <1>10, LBP2Tail
  <2>2. PICK result \in Results("DealWithRequest") :
           /\ calls' = Append(calls, <<"DealWithRequest",
                                       Argument("DealWithRequest"), result>>)
           /\ regs'.r3 = result
    BY <2>1, RunCall
  <2>3. PICK z \in {0, 1} : result = {z}
    BY SMT DEF Results
  <2>4. Argument("DealWithRequest") = {0} /\ Undealt /\ ~Wanted'
    BY <1>1, <1>10, SMT DEF LBP2JoinKnows, Argument
  <2>5. Dealt({0}, {z})'
    BY <2>2, <2>3, <2>4, DealtOnce
  <2>6. pc' = JoinWord(23)
    BY <1>n, <1>10, <2>1, RunCall
  <2>7. LBP2JoinKnows(23)'
    <3>1. \E y \in {0, 1} : Dealt({0}, {y})' /\ regs'.r3 = {y}
      BY <2>2, <2>3, <2>5
    <3> QED
      BY <2>4, <3>1, SMT DEF LBP2JoinKnows
  <2> QED
    BY <1>3, <2>6, <2>7, SMT
<1>11. CASE k \in {23, 24, 25}
  <2>1. PICK z \in {0, 1} : /\ Dealt({0}, {z})
                            /\ k \in 23 .. 24 => regs.r3 = {z}
                            /\ k = 25 => cr.cr7 = {z}
    BY <1>11, SMT DEF LBP2JoinKnows
  <2>2. ~Wanted'
    BY <1>1, <1>11, SMT DEF LBP2JoinKnows
  <2>3. CASE k = 23
    <3>1. Runs(Mr("r3", "r3"))
      BY <1>2, <2>3, LBP2Tail
    <3>2. UNCHANGED calls /\ pc' = JoinWord(24) /\ regs'.r3 = {z}
      BY <1>n, <2>1, <2>3, <3>1, RunMr
    <3>3. LBP2JoinKnows(24)'
      <4>1. \E y \in {0, 1} : Dealt({0}, {y})' /\ regs'.r3 = {y}
        BY <2>1, <3>2 DEF Dealt
      <4> QED
        BY <2>2, <4>1, SMT DEF LBP2JoinKnows
    <3> QED
      BY <1>3, <3>2, <3>3, SMT
  <2>4. CASE k = 24
    <3>1. Runs(Cmp("cr7", "r3"))
      BY <1>2, <2>4, LBP2Tail
    <3>2. UNCHANGED calls /\ pc' = JoinWord(25) /\ cr'.cr7 = {z}
      BY <1>n, <2>1, <2>4, <3>1, RunCompare
    <3>3. LBP2JoinKnows(25)'
      <4>1. \E y \in {0, 1} : Dealt({0}, {y})' /\ cr'.cr7 = {y}
        BY <2>1, <3>2 DEF Dealt
      <4> QED
        BY <2>2, <4>1, SMT DEF LBP2JoinKnows
    <3> QED
      BY <1>3, <3>2, <3>3, SMT
  <2>5. CASE k = 25
    <3>1. Runs(Br("cr7", "ne", -\hf0))
      BY <1>2, <2>5, LBP2Tail
    <3>2. -\hf0 \in Int /\ -60 \in Int /\ (-\hf0) \div 4 = -60
      BY SMT
    <3>3. /\ UNCHANGED calls
          /\ \E sign \in cr.cr7 :
                pc' = JoinWord(IF Holds("ne", sign) THEN k + (-60) ELSE k + 1)
      BY <1>1, <3>1, <3>2, JoinBranch
    <3>4. IF z = 1 THEN pc' = JoinWord(-35) ELSE pc' = JoinWord(26)
      BY <2>1, <2>5, <3>3, SMT DEF Holds
    <3>5. Dealt({0}, {z})'
      BY <2>1, <3>3 DEF Dealt
    <3>6. IF z = 1 THEN LBP2JoinKnows(-35)' ELSE LBP2JoinKnows(26)'
      BY <2>2, <3>5, SMT DEF LBP2JoinKnows
    <3> QED
      BY <1>3, <3>4, <3>6, SMT
  <2> QED
    BY <1>11, <2>3, <2>4, <2>5
<1>12. CASE k = 29
  <2>1. Runs(Bla("ForwardRequest"))
    BY <1>2, <1>12, LBP2Tail
  <2>2. \E what, back :
           calls' = Append(calls, <<"ForwardRequest", what, back>>)
    BY <2>1, RunCall
  <2>3. Dealt({0}, {0}) /\ ~Wanted'
    BY <1>1, <1>12, SMT DEF LBP2JoinKnows
  <2>4. Forwarded'
    BY <2>2, <2>3, ForwardedOnce
  <2>5. pc' = JoinWord(30)
    BY <1>n, <1>12, <2>1, RunCall
  <2>6. LBP2JoinKnows(30)'
    BY <2>3, <2>4, SMT DEF LBP2JoinKnows
  <2> QED
    BY <1>3, <2>5, <2>6, SMT
<1>13. CASE k = 30
  <2>1. Runs(B(-\h104))
    BY <1>2, <1>13, LBP2Tail
  <2>2. UNCHANGED calls /\ pc' = pc + (-\h104)
    BY <2>1, RunB
  <2>3. pc' = JoinWord(-35)
    <3>1. -65 \in Int /\ (-65) * 4 = -\h104 /\ 30 + (-65) = -35
      BY SMT
    <3>2. pc + (-65) * 4 = JoinWord(k + (-65))
      BY <1>1, <3>1, JoinOffset
    <3> QED
      BY <1>13, <2>2, <3>1, <3>2
  <2>4. Forwarded' /\ ~Wanted'
    BY <1>1, <1>13, <2>2, SMT DEF LBP2JoinKnows, Forwarded
  <2>5. LBP2JoinKnows(-35)'
    BY <2>4, SMT DEF LBP2JoinKnows
  <2> QED
    BY <1>3, <2>3, <2>5, SMT
<1> QED
  BY <1>4, <1>5, <1>6, <1>7, <1>8, <1>9, <1>10, <1>11, <1>12, <1>13, SMT

LEMMA LBP3Tail ==
    /\ \A k \in (17 .. 19) \union {22, 23} : LBP3ForceJoin[k] = Arg
    /\ LBP3ForceJoin[20] = Mr("r6", "local") /\ LBP3ForceJoin[21] = Mr("r7", "r26")
    /\ LBP3ForceJoin[24] = Bla("DealWithRequest")
    /\ LBP3ForceJoin[25] = Cmp("cr0", "r26")
    /\ LBP3ForceJoin[26] = Br("cr0", "ne", \h33)
    /\ LBP3ForceJoin[27] = Cmp("cr0", "r3")
    /\ LBP3ForceJoin[28] = Br("cr0", "ne", \h2b)
<1>1. \A k \in 17 .. 28 : LBP3ForceJoin[k] = LBP3Deal[k - 16]
  <2> SUFFICES ASSUME NEW k \in 17 .. 28
               PROVE  LBP3ForceJoin[k] = LBP3Deal[k - 16]
    OBVIOUS
  <2>1. k - 16 \in 1 .. 12 /\ 16 + (k - 16) = k
    BY SMT
  <2> QED
    BY <2>1, LBP3Join
<1>2. ASSUME NEW k \in (17 .. 19) \union {22, 23}
      PROVE  LBP3ForceJoin[k] = Arg
  <2>1. k \in 17 .. 28 /\ k - 16 \in (1 .. 3) \union (6 .. 7)
    BY SMT
  <2> QED
    BY <1>1, <2>1, LBP3End
<1>3. /\ LBP3ForceJoin[20] = LBP3Deal[4] /\ LBP3ForceJoin[21] = LBP3Deal[5]
      /\ LBP3ForceJoin[24] = LBP3Deal[8] /\ LBP3ForceJoin[25] = LBP3Deal[9]
      /\ LBP3ForceJoin[26] = LBP3Deal[10] /\ LBP3ForceJoin[27] = LBP3Deal[11]
      /\ LBP3ForceJoin[28] = LBP3Deal[12]
  BY <1>1, SMT
<1> QED
  BY <1>2, <1>3, LBP3End, SMT

\* LBP3's up to where skip_checks is set: who the request is from.
LEMMA LBP3Start ==
    ASSUME Registers, game \in {"LBP3", "LBP3_JP"}, routine = "join",
           UNCHANGED <<game, input>>,
           NEW k \in 1 .. 12, pc = JoinWord(k), LBP3JoinKnows(k), Next
    PROVE  \E n \in {k + 1, 14, 16} : pc' = JoinWord(n) /\ LBP3JoinKnows(n)'
<1>1. /\ game \in KnownGames /\ k \in 1 .. JoinWords /\ k \in Int
      /\ ForceJoin[game] = LBP3ForceJoin /\ (Wanted' <=> Wanted)
  BY SMT DEF KnownGames, JoinWords, ForceJoin, Wanted
<1>2. Runs(LBP3ForceJoin[k])
  BY <1>1, JoinRuns
<1>3. pc + 4 = JoinWord(k + 1) /\ Undealt /\ (k <= 8 => calls = <<>>)
  BY <1>1, JoinOffset, SMT DEF LBP3JoinKnows
<1>4. ASSUME UNCHANGED calls PROVE Undealt' /\ (k <= 8 => calls' = <<>>)
  BY <1>3, <1>4 DEF Undealt
<1>5. CASE k = 1
  <2>1. Runs(Cmp("cr0", "local"))
    BY <1>2, <1>5, LBP3Join
  <2>2. /\ UNCHANGED <<regs, calls>> /\ pc' = JoinWord(2)
        /\ \E sign \in regs.local : cr'.cr0 = {sign}
    BY <1>3, <1>5, <2>1, RunCompare
  <2>3. LBP3JoinKnows(2)'
    BY <1>4, <1>5, <2>2, SMT DEF LBP3JoinKnows, Sign
  <2> QED
    BY <1>5, <2>2, <2>3
<1>6. CASE k = 2
  <2>1. Runs(Br("cr0", "ne", \h33))
    BY <1>2, <1>6, LBP3Join
  <2>2. \h33 \in Int /\ 12 \in Int /\ \h33 \div 4 = 12
    BY SMT
  <2>3. /\ UNCHANGED calls
        /\ \E sign \in cr.cr0 :
              pc' = JoinWord(IF Holds("ne", sign) THEN k + 12 ELSE k + 1)
    BY <1>1, <2>1, <2>2, JoinBranch
  <2>4. IF input.local THEN pc' = JoinWord(14) ELSE pc' = JoinWord(3)
    BY <1>6, <2>3, SMT DEF Holds, LBP3JoinKnows
  <2>5. IF input.local THEN LBP3JoinKnows(14)' ELSE LBP3JoinKnows(3)'
    BY <1>1, <1>4, <1>6, <2>3, SMT DEF LBP3JoinKnows, Wanted
  <2> QED
    BY <1>6, <2>4, <2>5
<1>7. CASE k \in 3 .. 7
  <2>1. Runs(Arg)
    BY <1>2, <1>7, LBP3Join
  <2>2. UNCHANGED calls /\ pc' = JoinWord(k + 1)
    BY <1>3, <2>1, RunArg
  <2>3. ~input.local /\ ~input'.local /\ k + 1 \in 4 .. 8 /\ k <= 8
    BY <1>7, SMT DEF LBP3JoinKnows
  <2>4. Undealt' /\ calls' = <<>>
    BY <1>4, <2>2, <2>3
  <2>5. LBP3JoinKnows(k + 1)'
    <3>1. ASSUME NEW j \in 4 .. 8 PROVE LBP3JoinKnows(j)'
      BY <2>3, <2>4, <3>1, SMTT(20) DEF LBP3JoinKnows
    <3> QED
      BY <2>3, <3>1
  <2> QED
    BY <2>2, <2>5
<1>8. CASE k = 8
  <2>1. Runs(Bla("FindFriend"))
    BY <1>2, <1>8, LBP3Join
  <2>2. PICK result \in Results("FindFriend") :
           /\ calls' = Append(calls, <<"FindFriend", Argument("FindFriend"), result>>)
           /\ regs'.r3 = result
    BY <2>1, RunCall
  <2>3. pc' = JoinWord(9)
    BY <1>3, <1>8, <2>1, RunCall
  <2>4. result = Sign(input.friend) /\ ~input.local
    BY <1>8, SMT DEF Results, LBP3JoinKnows
  <2>5. Undealt'
    BY <1>3, <1>8, <2>2, AskedOnce
  <2>6. LBP3JoinKnows(9)'
    BY <2>2, <2>4, <2>5, SMT DEF LBP3JoinKnows
  <2> QED
    BY <1>8, <2>3, <2>6
<1>9. CASE k = 9
  <2>1. Runs(Cmp("cr0", "r3"))
    BY <1>2, <1>9, LBP3Join
  <2>2. /\ UNCHANGED <<regs, calls>> /\ pc' = JoinWord(10)
        /\ \E sign \in regs.r3 : cr'.cr0 = {sign}
    BY <1>3, <1>9, <2>1, RunCompare
  <2>3. LBP3JoinKnows(10)'
    BY <1>4, <1>9, <2>2, SMT DEF LBP3JoinKnows, Sign
  <2> QED
    BY <1>9, <2>2, <2>3
<1>10. CASE k = 10
  <2>1. Runs(Br("cr0", "eq", \h1b))
    BY <1>2, <1>10, LBP3Join
  <2>2. \h1b \in Int /\ 6 \in Int /\ \h1b \div 4 = 6
    BY SMT
  <2>3. /\ UNCHANGED <<regs, calls>>
        /\ \E sign \in cr.cr0 :
              pc' = JoinWord(IF Holds("eq", sign) THEN k + 6 ELSE k + 1)
    BY <1>1, <2>1, <2>2, JoinBranch
  <2>4. IF input.friend THEN pc' = JoinWord(11) ELSE pc' = JoinWord(16)
    BY <1>10, <2>3, SMT DEF Holds, LBP3JoinKnows
  <2>5. ~input.local /\ regs'.r3 = Sign(input.friend) /\ Undealt'
    BY <1>4, <1>10, <2>3, SMT DEF LBP3JoinKnows
  <2>6. IF input.friend THEN LBP3JoinKnows(11)' ELSE LBP3JoinKnows(16)'
    BY <1>1, <2>5, SMT DEF LBP3JoinKnows, Wanted
  <2> QED
    BY <1>10, <2>4, <2>6
<1>11. CASE k = 11
  <2>1. Runs(Invited("r3"))
    BY <1>2, <1>11, LBP3Join
  <2>2. UNCHANGED calls /\ pc' = JoinWord(12) /\ regs'.r3 = {input.invited}
    BY <1>3, <1>11, <2>1, RunInvited
  <2>3. LBP3JoinKnows(12)'
    BY <1>4, <1>11, <2>2, SMT DEF LBP3JoinKnows
  <2> QED
    BY <1>11, <2>2, <2>3
<1>12. CASE k = 12
  <2>1. Runs(Cmp("cr0", "r3"))
    BY <1>2, <1>12, LBP3Join
  <2>2. /\ UNCHANGED calls /\ pc' = JoinWord(13)
        /\ \E sign \in regs.r3 : cr'.cr0 = {sign}
    BY <1>3, <1>12, <2>1, RunCompare
  <2>3. LBP3JoinKnows(13)'
    BY <1>4, <1>12, <2>2, SMT DEF LBP3JoinKnows
  <2> QED
    BY <1>12, <2>2, <2>3
<1> QED
  BY <1>5, <1>6, <1>7, <1>8, <1>9, <1>10, <1>11, <1>12, SMT

\* skip_checks is set and handed on.
LEMMA LBP3Middle ==
    ASSUME Registers, game \in {"LBP3", "LBP3_JP"}, routine = "join",
           UNCHANGED <<game, input>>,
           NEW k \in 13 .. 23, pc = JoinWord(k), LBP3JoinKnows(k), Next
    PROVE  \E n \in {k + 1, 16, 17} : pc' = JoinWord(n) /\ LBP3JoinKnows(n)'
<1>1. /\ game \in KnownGames /\ k \in 1 .. JoinWords /\ k \in Int
      /\ ForceJoin[game] = LBP3ForceJoin /\ (Wanted' <=> Wanted)
  BY SMT DEF KnownGames, JoinWords, ForceJoin, Wanted
<1>2. Runs(LBP3ForceJoin[k])
  BY <1>1, JoinRuns
<1>3. pc + 4 = JoinWord(k + 1) /\ Undealt
  BY <1>1, JoinOffset, SMT DEF LBP3JoinKnows
<1>4. ASSUME UNCHANGED calls PROVE Undealt'
  BY <1>3, <1>4 DEF Undealt
<1>5. CASE k = 13
  <2>1. Runs(Br("cr0", "eq", \hf))
    BY <1>2, <1>5, LBP3Join
  <2>2. \hf \in Int /\ 3 \in Int /\ \hf \div 4 = 3
    BY SMT
  <2>3. /\ UNCHANGED calls
        /\ \E sign \in cr.cr0 :
              pc' = JoinWord(IF Holds("eq", sign) THEN k + 3 ELSE k + 1)
    BY <1>1, <2>1, <2>2, JoinBranch
  <2>4. /\ ~input.local /\ input.friend
        /\ IF input.invited = 0 THEN pc' = JoinWord(16) ELSE pc' = JoinWord(14)
    BY <1>5, <2>3, SMT DEF Holds, LBP3JoinKnows
  <2>5. Undealt' /\ (Wanted' <=> input.invited # 0)
    BY <1>1, <1>4, <2>3, <2>4, SMT DEF Wanted
  <2>6. IF input.invited = 0 THEN LBP3JoinKnows(16)' ELSE LBP3JoinKnows(14)'
    BY <2>5, SMT DEF LBP3JoinKnows
  <2> QED
    BY <1>5, <2>4, <2>6
<1>6. CASE k = 14
  <2>1. Runs(Li("r26", 1))
    BY <1>2, <1>6, LBP3Join
  <2>2. UNCHANGED calls /\ pc' = JoinWord(15) /\ regs'.r26 = {1}
    BY <1>3, <1>6, <2>1, RunLi
  <2>3. Wanted'
    BY <1>1, <1>6, SMT DEF LBP3JoinKnows
  <2>4. LBP3JoinKnows(15)'
    BY <1>4, <2>2, <2>3, SMT DEF LBP3JoinKnows
  <2> QED
    BY <1>6, <2>2, <2>4
<1>7. CASE k = 15
  <2>1. Runs(B(8))
    BY <1>2, <1>7, LBP3Join
  <2>2. UNCHANGED <<regs, calls>> /\ pc' = pc + 8
    BY <2>1, RunB
  <2>3. pc' = JoinWord(17)
    <3>1. 2 \in Int /\ 2 * 4 = 8 /\ 15 + 2 = 17
      BY SMT
    <3>2. pc + 2 * 4 = JoinWord(k + 2)
      BY <1>1, <3>1, JoinOffset
    <3> QED
      BY <1>7, <2>2, <3>1, <3>2
  <2>4. Wanted' /\ regs'.r26 = {1}
    BY <1>1, <1>7, <2>2, SMT DEF LBP3JoinKnows
  <2>5. LBP3JoinKnows(17)'
    BY <1>4, <2>2, <2>4, SMT DEF LBP3JoinKnows, Sign
  <2> QED
    BY <2>3, <2>5
<1>8. CASE k = 16
  <2>1. Runs(Li("r26", 0))
    BY <1>2, <1>8, LBP3Join
  <2>2. UNCHANGED calls /\ pc' = JoinWord(17) /\ regs'.r26 = {0}
    BY <1>3, <1>8, <2>1, RunLi
  <2>3. ~Wanted'
    BY <1>1, <1>8, SMT DEF LBP3JoinKnows
  <2>4. LBP3JoinKnows(17)'
    BY <1>4, <2>2, <2>3, SMT DEF LBP3JoinKnows, Sign
  <2> QED
    BY <1>8, <2>2, <2>4
<1>9. CASE k \in (17 .. 19) \union {22, 23}
  <2>1. Runs(Arg)
    BY <1>2, <1>9, LBP3Tail
  <2>2. UNCHANGED <<regs, calls>> /\ pc' = JoinWord(k + 1)
    BY <1>3, <2>1, RunArg
  <2>3. /\ regs'.r26 = Sign(Wanted') /\ (k \in {22, 23} => regs'.r7 = Sign(Wanted'))
        /\ k + 1 \in (18 .. 20) \union {23, 24}
    <3>1. regs.r26 = Sign(Wanted) /\ (k \in {22, 23} => regs.r7 = Sign(Wanted))
      BY <1>9, SMT DEF LBP3JoinKnows
    <3>2. k + 1 \in (18 .. 20) \union {23, 24}
      BY <1>9, SMT
    <3> QED
      BY <1>1, <2>2, <3>1, <3>2 DEF Sign
  <2>4. Undealt'
    BY <1>4, <2>2
  <2>5. LBP3JoinKnows(k + 1)'
    BY <1>9, <2>3, <2>4, SMT DEF LBP3JoinKnows
  <2> QED
    BY <2>2, <2>5
<1>10. CASE k = 20
  <2>1. Runs(Mr("r6", "local"))
    BY <1>2, <1>10, LBP3Tail
  <2>2. UNCHANGED calls /\ pc' = JoinWord(21) /\ regs'.r26 = regs.r26
    BY <1>3, <1>10, <2>1, RunMr DEF Registers
  <2>3. regs'.r26 = Sign(Wanted')
    BY <1>1, <1>10, <2>2, SMT DEF LBP3JoinKnows, Sign
  <2>4. LBP3JoinKnows(21)'
    BY <1>4, <2>2, <2>3, SMT DEF LBP3JoinKnows
  <2> QED
    BY <1>10, <2>2, <2>4
<1>11. CASE k = 21
  <2>1. Runs(Mr("r7", "r26"))
    BY <1>2, <1>11, LBP3Tail
  <2>2. /\ UNCHANGED calls /\ pc' = JoinWord(22) /\ regs'.r26 = regs.r26
        /\ regs'.r7 = regs.r26
    BY <1>3, <1>11, <2>1, RunMr DEF Registers
  <2>3. regs'.r26 = Sign(Wanted') /\ regs'.r7 = Sign(Wanted')
    BY <1>1, <1>11, <2>2, SMT DEF LBP3JoinKnows, Sign
  <2>4. LBP3JoinKnows(22)'
    BY <1>4, <2>2, <2>3, SMT DEF LBP3JoinKnows
  <2> QED
    BY <1>11, <2>2, <2>4
<1> QED
  BY <1>5, <1>6, <1>7, <1>8, <1>9, <1>10, <1>11, SMT

\* The request is dealt with, once.
LEMMA LBP3Deals ==
    ASSUME Registers, game \in {"LBP3", "LBP3_JP"}, routine = "join",
           UNCHANGED <<game, input>>, pc = JoinWord(24), LBP3JoinKnows(24), Next
    PROVE  pc' = JoinWord(25) /\ LBP3JoinKnows(25)'
<1>1. /\ game \in KnownGames /\ 24 \in 1 .. JoinWords /\ 24 \in Int
      /\ ForceJoin[game] = LBP3ForceJoin /\ (Wanted' <=> Wanted) /\ 24 + 1 = 25
  BY SMT DEF KnownGames, JoinWords, ForceJoin, Wanted
<1>2. Runs(Bla("DealWithRequest"))
  <2>1. Runs(ForceJoin[game][24])
    BY <1>1, JoinRuns, Zenon
  <2> QED
    BY <1>1, <2>1, LBP3Tail
<1>3. PICK result \in Results("DealWithRequest") :
         /\ calls' = Append(calls, <<"DealWithRequest",
                                     Argument("DealWithRequest"), result>>)
         /\ regs'.r3 = result
  BY <1>2, RunCall
<1>4. PICK z \in {0, 1} : result = {z}
  BY SMT DEF Results
<1>5. /\ Argument("DealWithRequest") = Sign(Wanted) /\ Undealt
      /\ regs.r26 = Sign(Wanted)
  BY SMT DEF LBP3JoinKnows, Argument
<1>6. Dealt(Sign(Wanted), {z})'
  <2>1. Dealt(Sign(Wanted), {z})' <=>
           \E s : Asked(s) /\ calls' = Append(s, <<"DealWithRequest",
                                                   Sign(Wanted), {z}>>)
    BY <1>1 DEF Dealt, Sign
  <2> QED
    BY <2>1, <1>3, <1>4, <1>5 DEF Undealt
<1>7. pc' = JoinWord(25) /\ regs'.r26 = regs.r26
  <2>1. pc + 4 = JoinWord(24 + 1)
    BY <1>1, JoinOffset, Zenon
  <2> QED
    BY <1>1, <1>2, <2>1, RunCall
<1>8. regs'.r26 = Sign(Wanted')
  BY <1>1, <1>5, <1>7 DEF Sign
<1>9. LBP3Answered(25, z)'
  BY <1>3, <1>4, <1>6, SMT DEF LBP3Answered
<1>10. LBP3JoinKnows(25)'
  BY <1>8, <1>9, SMT DEF LBP3JoinKnows
<1> QED
  BY <1>7, <1>10

\* Where the answer leads: asked about, or done with.
LEMMA LBP3Finish ==
    ASSUME Registers, game \in {"LBP3", "LBP3_JP"}, routine = "join",
           UNCHANGED <<game, input>>,
           NEW k \in 25 .. 28, pc = JoinWord(k), LBP3JoinKnows(k), Next
    PROVE  \E n \in {k + 1, 38} : pc' = JoinWord(n) /\ LBP3JoinKnows(n)'
<1>1. /\ game \in KnownGames /\ k \in 1 .. JoinWords /\ k \in Int
      /\ ForceJoin[game] = LBP3ForceJoin /\ (Wanted' <=> Wanted)
  BY SMT DEF KnownGames, JoinWords, ForceJoin, Wanted
<1>2. Runs(LBP3ForceJoin[k])
  BY <1>1, JoinRuns
<1>3. pc + 4 = JoinWord(k + 1)
  BY <1>1, JoinOffset
<1>4. PICK z \in {0, 1} : LBP3Answered(k, z)
  <2>1. k > 24
    BY SMT
  <2> QED
    BY <2>1, Zenon DEF LBP3JoinKnows
<1>5. ASSUME UNCHANGED calls PROVE Dealt(Sign(Wanted), {z})'
  BY <1>1, <1>4, <1>5 DEF LBP3Answered, Dealt, Sign
<1>6. ASSUME NEW n \in 26 .. 38, LBP3Answered(n, z)' PROVE LBP3JoinKnows(n)'
  BY <1>6, SMT DEF LBP3JoinKnows
<1>7. CASE k = 25
  <2>1. Runs(Cmp("cr0", "r26"))
    BY <1>2, <1>7, LBP3Tail
  <2>2. /\ UNCHANGED <<regs, calls>> /\ pc' = JoinWord(26)
        /\ \E sign \in regs.r26 : cr'.cr0 = {sign}
    BY <1>3, <1>7, <2>1, RunCompare
  <2>3. regs.r26 = Sign(Wanted) /\ regs.r3 = {z}
    BY <1>4, <1>7, SMT DEF LBP3JoinKnows, LBP3Answered
  <2>4. \A s \in cr'.cr0 : s # 0 <=> Wanted'
    BY <1>1, <2>2, <2>3, SMT DEF Sign
  <2>5. LBP3Answered(26, z)'
    BY <1>5, <2>2, <2>3, <2>4, SMT DEF LBP3Answered
  <2>6. LBP3JoinKnows(26)'
    BY <1>6, <2>5, SMT
  <2> QED
    BY <1>7, <2>2, <2>6
<1>8. CASE k = 26
  <2>1. Runs(Br("cr0", "ne", \h33))
    BY <1>2, <1>8, LBP3Tail
  <2>2. \h33 \in Int /\ 12 \in Int /\ \h33 \div 4 = 12
    BY SMT
  <2>3. /\ UNCHANGED <<regs, calls>>
        /\ \E sign \in cr.cr0 :
              pc' = JoinWord(IF Holds("ne", sign) THEN k + 12 ELSE k + 1)
    BY <1>1, <2>1, <2>2, JoinBranch
  <2>4. /\ regs.r3 = {z}
        /\ IF Wanted THEN pc' = JoinWord(38) ELSE pc' = JoinWord(27)
    BY <1>4, <1>8, <2>3, SMT DEF Holds, LBP3Answered
  <2>5. IF Wanted THEN LBP3Answered(38, z)' ELSE LBP3Answered(27, z)'
    BY <1>1, <1>5, <2>3, <2>4, SMT DEF LBP3Answered
  <2>6. IF Wanted THEN LBP3JoinKnows(38)' ELSE LBP3JoinKnows(27)'
    BY <1>6, <2>5, SMT
  <2> QED
    BY <1>8, <2>4, <2>6
<1>9. CASE k = 27
  <2>1. Runs(Cmp("cr0", "r3"))
    BY <1>2, <1>9, LBP3Tail
  <2>2. /\ UNCHANGED calls /\ pc' = JoinWord(28)
        /\ \E sign \in regs.r3 : cr'.cr0 = {sign}
    BY <1>3, <1>9, <2>1, RunCompare
  <2>3. regs.r3 = {z} /\ ~Wanted
    BY <1>4, <1>9, SMT DEF LBP3Answered
  <2>4. cr'.cr0 = {z} /\ ~Wanted'
    BY <1>1, <2>2, <2>3
  <2>5. LBP3Answered(28, z)'
    BY <1>5, <2>2, <2>4, SMT DEF LBP3Answered
  <2>6. LBP3JoinKnows(28)'
    BY <1>6, <2>5, SMT
  <2> QED
    BY <1>9, <2>2, <2>6
<1>10. CASE k = 28
  <2>1. Runs(Br("cr0", "ne", \h2b))
    BY <1>2, <1>10, LBP3Tail
  <2>2. \h2b \in Int /\ 10 \in Int /\ \h2b \div 4 = 10
    BY SMT
  <2>3. /\ UNCHANGED calls
        /\ \E sign \in cr.cr0 :
              pc' = JoinWord(IF Holds("ne", sign) THEN k + 10 ELSE k + 1)
    BY <1>1, <2>1, <2>2, JoinBranch
  <2>4. /\ ~Wanted'
        /\ IF z = 1 THEN pc' = JoinWord(38) ELSE pc' = JoinWord(29)
    BY <1>1, <1>4, <1>10, <2>3, SMT DEF Holds, LBP3Answered
  <2>5. IF z = 1 THEN LBP3Answered(38, z)' ELSE LBP3Answered(29, z)'
    BY <1>5, <2>3, <2>4, SMT DEF LBP3Answered
  <2>6. IF z = 1 THEN LBP3JoinKnows(38)' ELSE LBP3JoinKnows(29)'
    BY <1>6, <2>5, SMT
  <2> QED
    BY <1>10, <2>4, <2>6
<1> QED
  BY <1>7, <1>8, <1>9, <1>10, SMT

-------------------------------------------------------------------------------
(* What the calls come to where the routine is left.                       *)

\* Once, with this skip_checks and this answer.
DealtWith(skip, result) ==
    \E i \in DOMAIN calls : /\ Dealings = {i}
                            /\ calls[i][2] = skip /\ calls[i][3] = result

LEMMA UndealtCalls ==
    Undealt => /\ Dealings = {} /\ ~Called("ForwardRequest") /\ Len(calls) \in 0 .. 3
<1>1. CASE calls = <<>>
  BY <1>1, SMT DEF Dealings, Called
<1>2. ASSUME NEW who, NEW entry, calls = <<<<"FindFriend", who, entry>>>>
      PROVE  Dealings = {} /\ ~Called("ForwardRequest") /\ Len(calls) \in 0 .. 3
  <2>1. Len(calls) = 1 /\ DOMAIN calls = {1} /\ calls[1][1] = "FindFriend"
    BY <1>2, SMT
  <2> QED
    BY <2>1 DEF Dealings, Called
<1> QED
  BY <1>1, <1>2 DEF Undealt, Asked

LEMMA DealtCalls ==
    ASSUME NEW skip, NEW result, Dealt(skip, result)
    PROVE  /\ DealtWith(skip, result) /\ ~Called("ForwardRequest")
           /\ Len(calls) \in 0 .. 3
<1>1. PICK s : Asked(s) /\ calls = Append(s, <<"DealWithRequest", skip, result>>)
  BY DEF Dealt
<1>2. CASE s = <<>>
  <2>1. /\ Len(calls) = 1 /\ DOMAIN calls = {1}
        /\ calls[1] = <<"DealWithRequest", skip, result>>
    BY <1>1, <1>2, SMT
  <2> QED
    BY <2>1, SMT DEF DealtWith, Dealings, Called
<1>3. ASSUME NEW who, NEW entry, s = <<<<"FindFriend", who, entry>>>>
      PROVE  /\ DealtWith(skip, result) /\ ~Called("ForwardRequest")
             /\ Len(calls) \in 0 .. 3
  <2>1. /\ Len(calls) = 2 /\ DOMAIN calls = {1, 2}
        /\ calls[1] = <<"FindFriend", who, entry>>
        /\ calls[2] = <<"DealWithRequest", skip, result>>
    BY <1>1, <1>3, SMT
  <2> QED
    BY <2>1, SMT DEF DealtWith, Dealings, Called
<1> QED
  BY <1>1, <1>2, <1>3 DEF Asked

LEMMA ForwardedCalls ==
    Forwarded => /\ DealtWith({0}, {0}) /\ Called("ForwardRequest")
                 /\ Len(calls) \in 0 .. 3
<1> SUFFICES ASSUME Forwarded
             PROVE  /\ DealtWith({0}, {0}) /\ Called("ForwardRequest")
                    /\ Len(calls) \in 0 .. 3
  OBVIOUS
<1>1. PICK s, what, back :
         /\ Asked(s)
         /\ calls = Append(Append(s, <<"DealWithRequest", {0}, {0}>>),
                           <<"ForwardRequest", what, back>>)
  BY DEF Forwarded
<1>2. CASE s = <<>>
  <2>1. /\ Len(calls) = 2 /\ DOMAIN calls = {1, 2}
        /\ calls[1] = <<"DealWithRequest", {0}, {0}>>
        /\ calls[2] = <<"ForwardRequest", what, back>>
    BY <1>1, <1>2, SMT
  <2> QED
    BY <2>1, SMT DEF DealtWith, Dealings, Called
<1>3. ASSUME NEW who, NEW entry, s = <<<<"FindFriend", who, entry>>>>
      PROVE  /\ DealtWith({0}, {0}) /\ Called("ForwardRequest")
             /\ Len(calls) \in 0 .. 3
  <2>1. /\ Len(calls) = 3 /\ DOMAIN calls = {1, 2, 3}
        /\ calls[1] = <<"FindFriend", who, entry>>
        /\ calls[2] = <<"DealWithRequest", {0}, {0}>>
        /\ calls[3] = <<"ForwardRequest", what, back>>
    BY <1>1, <1>3, SMT
  <2> QED
    BY <2>1, SMT DEF DealtWith, Dealings, Called
<1> QED
  BY <1>1, <1>2, <1>3 DEF Asked

-------------------------------------------------------------------------------
(* The invariant.                                                          *)

\* Which path of the game's a word behind or before the routine is.
LEMMA JoinLeft ==
    ASSUME game \in KnownGames, routine = "join",
           NEW k \in 1 .. JoinWords \union JoinEnds, pc = JoinWord(k)
    PROVE  /\ Left <=> k \in JoinEnds
           /\ At("accept") <=> \/ game = "LBP1" /\ k = 17
                               \/ game = "LBP2" /\ k = 31
           /\ At("done") <=> \/ game = "LBP2" /\ k = -35
                             \/ game \in {"LBP3", "LBP3_JP"} /\ k = 38
           /\ At("ask") <=> game \in {"LBP3", "LBP3_JP"} /\ k = 29
<1>1. k \in Int /\ JoinEnds \subseteq Int
  BY SMT DEF JoinWords, JoinEnds
<1>2. \A n \in Int : JoinWord(n) = pc <=> n = k
  <2>1. ForceJoinAddress[game] \in Int
    BY JoinPaths, SMT
  <2> QED
    BY <1>1, <2>1, SMT DEF JoinWord
<1>3. CASE game = "LBP1"
  <2>1. JoinEnds = {17, 64} /\ 17 \in Int /\ 64 \in Int
    BY <1>3, SMT DEF JoinEnds
  <2>2. /\ At("accept") <=> k = 17
        /\ At("refuse") <=> k = 64
        /\ ~At("done") /\ ~At("ask")
    BY <1>2, <1>3, <2>1, JoinPaths, SMT DEF At
  <2>3. Left <=> At("accept") \/ At("refuse")
    BY <1>3, JoinPaths, SMT DEF Left
  <2>4. Left <=> k \in JoinEnds
    BY <2>1, <2>2, <2>3
  <2>5. game # "LBP2" /\ game \notin {"LBP3", "LBP3_JP"}
    BY <1>3, SMT
  <2> QED
    BY <1>3, <2>2, <2>4, <2>5, SMT
<1>4. CASE game = "LBP2"
  <2>1. JoinEnds = {-35, 31} /\ -35 \in Int /\ 31 \in Int
    BY <1>4, SMT DEF JoinEnds
  <2>2. /\ At("accept") <=> k = 31
        /\ At("done") <=> k = -35
        /\ ~At("ask")
    BY <1>2, <1>4, <2>1, JoinPaths, SMT DEF At
  <2>3. Left <=> At("accept") \/ At("done")
    BY <1>4, JoinPaths, SMT DEF Left
  <2> QED
    BY <1>4, <2>1, <2>2, <2>3, SMT
<1>5. CASE game \in {"LBP3", "LBP3_JP"}
  <2>1. JoinEnds = {29, 38} /\ 29 \in Int /\ 38 \in Int
    BY <1>5, SMT DEF JoinEnds
  <2>2. /\ At("ask") <=> k = 29
        /\ At("done") <=> k = 38
        /\ ~At("accept")
    BY <1>2, <1>5, <2>1, JoinPaths, SMT DEF At
  <2>3. Left <=> At("ask") \/ At("done")
    BY <1>5, JoinPaths, SMT DEF Left
  <2> QED
    BY <1>5, <2>1, <2>2, <2>3, SMT
<1> QED
  BY <1>3, <1>4, <1>5 DEF KnownGames

\* There, none of the routine's words is fetched.
LEMMA JoinGone ==
    ASSUME game \in KnownGames, routine = "join",
           NEW k \in JoinEnds, pc = JoinWord(k)
    PROVE  ~InRoutine /\ ~AtSite /\ Left
<1>1. /\ k \in Int /\ k \in 1 .. JoinWords \union JoinEnds
      /\ k < 1 \/ k > JoinWords
  BY SMT DEF JoinEnds, JoinWords, KnownGames
<1>2. Base = ForceJoinAddress[game] /\ Base \in Nat
  BY JoinPaths DEF Base
<1>3. Len(Code) = JoinWords /\ JoinWords \in Nat
  BY JoinCode
<1>4. pc - Base = 4 * (k - 1)
  BY <1>1, <1>2, SMT DEF JoinWord
<1>5. Word = k
  <2>1. ASSUME NEW n \in Int PROVE (4 * n) \div 4 = n
    BY SMT
  <2>2. k - 1 \in Int /\ k - 1 + 1 = k
    BY <1>1, SMT
  <2> QED
    BY <1>4, <2>1, <2>2 DEF Word
<1>6. ~InRoutine
  BY <1>1, <1>3, <1>5, SMT DEF InRoutine
<1> QED
  BY <1>1, <1>6, JoinLeft DEF AtSite

LEMMA JoinInvInit == Init => JoinInv
<1> SUFFICES ASSUME Init, routine = "join" PROVE JoinInv
  BY DEF JoinInv
<1>1. game \in KnownGames
  BY GamesAssumption DEF Init
<1>2. /\ pc = ForceJoinAddress[game] /\ calls = <<>>
      /\ regs.local = Sign(input.local)
  BY DEF Init
<1>3. ForceJoinAddress[game] \in Nat
  BY <1>1, JoinPaths
<1>4. pc = JoinWord(1)
  BY <1>2, <1>3, SMT DEF JoinWord
<1>5. Undealt
  BY <1>2 DEF Undealt, Asked
<1>6. StartKnows(1) /\ LBP3JoinKnows(1)
  BY <1>2, <1>5, SMT DEF StartKnows, LBP3JoinKnows
<1>7. LBP1JoinKnows(1) /\ LBP2JoinKnows(1)
  BY <1>6, SMT DEF LBP1JoinKnows, LBP2JoinKnows
<1>8. JoinKnows(1) /\ 1 \in 1 .. JoinWords
  BY <1>6, <1>7, SMT DEF JoinKnows, JoinWords
<1> QED
  BY <1>4, <1>8 DEF JoinInv

\* No step changes what the routine is run for.
LEMMA Kept == [Next]_vars => UNCHANGED <<game, routine, input>>
  BY DEF Next, vars, TakeHook, Compare, Branch, Jump, Move, Load, Call, Return

LEMMA JoinInvStutter == JoinInv /\ UNCHANGED vars => JoinInv'
<1> SUFFICES ASSUME JoinInv, UNCHANGED vars PROVE JoinInv'
  OBVIOUS
<1>1. UNCHANGED <<game, routine, input, pc, regs, cr, calls>>
  BY DEF vars
<1>2. /\ Undealt' <=> Undealt
      /\ Forwarded' <=> Forwarded
      /\ Wanted' <=> Wanted
  BY <1>1 DEF Undealt, Forwarded, Wanted
<1>3. ASSUME NEW z \in {0, 1}
      PROVE  /\ Dealt({0}, {z})' <=> Dealt({0}, {z})
             /\ Dealt({0}, {1})' <=> Dealt({0}, {1})
             /\ Dealt({0}, {0})' <=> Dealt({0}, {0})
             /\ Dealt(Sign(Wanted), {z})' <=> Dealt(Sign(Wanted), {z})
  BY <1>1, <1>2 DEF Dealt, Sign
<1>4. ASSUME NEW k
      PROVE  /\ StartKnows(k)' <=> StartKnows(k)
             /\ \A z \in {0, 1} : LBP3Answered(k, z)' <=> LBP3Answered(k, z)
  BY <1>1, <1>2, <1>3 DEF StartKnows, LBP3Answered
<1>5. ASSUME NEW k
      PROVE  /\ LBP1JoinKnows(k)' <=> LBP1JoinKnows(k)
             /\ LBP2JoinKnows(k)' <=> LBP2JoinKnows(k)
             /\ LBP3JoinKnows(k)' <=> LBP3JoinKnows(k)
  <2>1. LBP1JoinKnows(k)' <=> LBP1JoinKnows(k)
    BY <1>1, <1>2, <1>4 DEF LBP1JoinKnows
  <2>2. LBP2JoinKnows(k)' <=> LBP2JoinKnows(k)
    BY <1>1, <1>2, <1>3, <1>4 DEF LBP2JoinKnows
  <2>3. LBP3JoinKnows(k)' <=> LBP3JoinKnows(k)
    <3>1. Sign(Wanted)' = Sign(Wanted)
      BY <1>2 DEF Sign
    <3>2. (\E z \in {0, 1} : LBP3Answered(k, z))'
             <=> \E z \in {0, 1} : LBP3Answered(k, z)
      BY <1>4
    <3>3. input' = input /\ regs' = regs /\ cr' = cr /\ calls' = calls
      BY <1>1
    <3>4. Undealt' <=> Undealt
      BY <3>3 DEF Undealt
    <3> QED
      BY ONLY <1>2, <3>1, <3>2, <3>3, <3>4, SMTT(30) DEF LBP3JoinKnows
  <2> QED
    BY <2>1, <2>2, <2>3
<1>6. ASSUME NEW k PROVE JoinKnows(k)' <=> JoinKnows(k)
  BY <1>1, <1>5 DEF JoinKnows
<1>7. \A k : JoinWord(k)' = JoinWord(k)
  BY <1>1 DEF JoinWord
<1>8. JoinWords' = JoinWords /\ JoinEnds' = JoinEnds
  BY <1>1 DEF JoinWords, JoinEnds
<1> QED
  BY <1>1, <1>6, <1>7, <1>8 DEF JoinInv

LEMMA JoinInvStep ==
    game \in Games /\ Registers /\ JoinInv /\ [Next]_vars => JoinInv'
<1> SUFFICES ASSUME game \in Games, Registers, JoinInv, Next, routine = "join"
             PROVE  JoinInv'
  BY JoinInvStutter, Kept DEF JoinInv
<1>1. game \in KnownGames /\ UNCHANGED <<game, routine, input>>
  BY GamesAssumption, Kept
<1>2. PICK k \in 1 .. JoinWords \union JoinEnds : pc = JoinWord(k) /\ JoinKnows(k)
  BY DEF JoinInv
<1>3. ASSUME Arrives PROVE JoinInv'
  BY <1>1, <1>3 DEF Arrives, JoinInv, JoinWord, JoinWords, JoinEnds
<1>4. CASE k \in JoinEnds
  <2>1. ~InRoutine /\ ~AtSite
    BY <1>1, <1>2, <1>4, JoinGone
  <2>2. Return
    BY <2>1 DEF Next, TakeHook, Compare, Branch, Jump, Move, Load, Call, Executes
  <2> QED
    BY <2>2, JoinInvStutter DEF Return
<1>5. CASE game = "LBP1" /\ k \in 1 .. JoinWords
  <2>1. k \in 1 .. 16 /\ LBP1JoinKnows(k)
    BY <1>2, <1>5, SMT DEF JoinWords, JoinKnows
  <2> QED
    BY <1>1, <1>2, <1>3, <1>5, <2>1, LBP1JoinStep
<1>6. CASE game = "LBP2" /\ k \in 1 .. JoinWords
  <2>1. k \in 1 .. 30 /\ LBP2JoinKnows(k)
    BY <1>2, <1>6, SMT DEF JoinWords, JoinKnows
  <2> QED
    BY <1>1, <1>2, <1>3, <1>6, <2>1, LBP2JoinStep
<1>7. CASE game \in {"LBP3", "LBP3_JP"} /\ k \in 1 .. JoinWords
  <2>1. k \in 1 .. 28 /\ LBP3JoinKnows(k)
    BY <1>2, <1>7, SMT DEF JoinWords, JoinKnows
  <2>2. ASSUME NEW n \in 1 .. 29 \union {38}, pc' = JoinWord(n), LBP3JoinKnows(n)'
        PROVE  Arrives
    <3>1. n \in 1 .. JoinWords \union JoinEnds
      BY <1>7, SMT DEF JoinWords, JoinEnds
    <3>2. JoinKnows(n)'
      BY <1>1, <1>7, <2>2, SMT DEF JoinKnows
    <3> QED
      BY <2>2, <3>1, <3>2 DEF Arrives
  <2>3. CASE k \in 1 .. 12
    <3>1. PICK n \in {k + 1, 14, 16} : pc' = JoinWord(n) /\ LBP3JoinKnows(n)'
      BY <1>1, <1>2, <1>7, <2>1, <2>3, LBP3Start
    <3>2. n \in 1 .. 29
      BY <2>3, SMT
    <3> QED
      BY <1>3, <2>2, <3>1, <3>2
  <2>4. CASE k \in 13 .. 23
    <3>1. PICK n \in {k + 1, 16, 17} : pc' = JoinWord(n) /\ LBP3JoinKnows(n)'
      BY <1>1, <1>2, <1>7, <2>1, <2>4, LBP3Middle
    <3>2. n \in 1 .. 29
      BY <2>4, SMT
    <3> QED
      BY <1>3, <2>2, <3>1, <3>2
  <2>5. CASE k = 24
    <3>1. pc' = JoinWord(25) /\ LBP3JoinKnows(25)'
      BY <1>1, <1>2, <1>7, <2>1, <2>5, LBP3Deals
    <3>2. 25 \in 1 .. 29
      BY SMT
    <3> QED
      BY <1>3, <2>2, <3>1, <3>2
  <2>6. CASE k \in 25 .. 28
    <3>1. PICK n \in {k + 1, 38} : pc' = JoinWord(n) /\ LBP3JoinKnows(n)'
      BY <1>1, <1>2, <1>7, <2>1, <2>6, LBP3Finish
    <3>2. n \in 1 .. 29 \union {38}
      BY <2>6, SMT
    <3> QED
      BY <1>3, <2>2, <3>1, <3>2
  <2>7. k \in 1 .. 12 \/ k \in 13 .. 23 \/ k = 24 \/ k \in 25 .. 28
    BY <2>1, SMT
  <2> QED
    BY <2>3, <2>4, <2>5, <2>6, <2>7
<1> QED
  BY <1>1, <1>2, <1>4, <1>5, <1>6, <1>7 DEF KnownGames

\* What holds of both routines.
HookInv == ScriptInv /\ JoinInv /\ Registers /\ input \in Inputs

LEMMA HookInvInit == Init => HookInv
  BY ScriptInvInit, JoinInvInit DEF Init, HookInv

LEMMA HookInvStep == HookInv /\ [Next]_vars => HookInv'
<1>1. HookInv => game \in Games
  BY DEF HookInv, ScriptInv
<1> QED
  BY <1>1, ScriptInvStep, JoinInvStep, RegistersKept, Kept DEF HookInv

\* A join routine's word, or the word of the game's it has left for.
LEMMA JoinPlace ==
    ASSUME HookInv, routine = "join"
    PROVE  /\ game \in KnownGames
           /\ \E k \in 1 .. JoinWords \union JoinEnds :
                 pc = JoinWord(k) /\ JoinKnows(k)
  BY GamesAssumption DEF HookInv, ScriptInv, JoinInv

\* A script hook's word, the check, or the game's own code.
LEMMA ScriptPlace ==
    ASSUME HookInv, routine = "script"
    PROVE  /\ game \in Games /\ Words \in Nat
           /\ \/ AtSite /\ ~InRoutine
              \/ \E k \in 1 .. Words :
                    /\ pc = WordAt(k) /\ InRoutine /\ Instr = ScriptHook[game][k]
              \/ Left /\ ~InRoutine
<1>1. game \in Games /\ game \in KnownGames /\ Words \in Nat
  BY GamesAssumption, WordCount DEF HookInv, ScriptInv
<1>2. CASE AtSite
  BY <1>1, <1>2, SiteApart
<1>3. CASE Within
  <2>1. PICK k \in 1 .. Words : pc = WordAt(k)
    BY <1>3 DEF Within, Words
  <2> QED
    BY <1>1, <2>1, Fetch DEF Instr
<1>4. CASE Left
  BY <1>1, <1>4, HookEnds
<1> QED
  BY <1>1, <1>2, <1>3, <1>4 DEF HookInv, ScriptInv

\* No branch of any routine, in any game, goes anywhere but to a word of the
\* routine or to one of the paths of the game's in JoinExits and ScriptExits
\* (forcejoin-patch.s, script-block.s).
THEOREM NeverAstray == Spec => []StaysInCode
<1>1. HookInv => StaysInCode
  <2> SUFFICES ASSUME HookInv PROVE StaysInCode
    OBVIOUS
  <2>1. CASE routine = "join"
    <3>1. PICK k \in 1 .. JoinWords \union JoinEnds : pc = JoinWord(k)
      BY <2>1, JoinPlace
    <3> QED
      BY <2>1, <3>1, JoinPlace, JoinFetch, JoinGone DEF StaysInCode
  <2>2. CASE routine = "script"
    BY <2>2, ScriptPlace DEF StaysInCode
  <2> QED
    BY <2>1, <2>2 DEF HookInv, ScriptInv
<1> QED
  BY <1>1, HookInvInit, HookInvStep, PTL DEF Spec

\* The word of LBP1's and LBP2's, or LBP3's, that reads the invitation.
LEMMA JoinReads ==
    ASSUME game \in KnownGames, NEW k \in 1 .. JoinWords,
           ForceJoin[game][k].op = "invited"
    PROVE  k = IF game \in {"LBP1", "LBP2"} THEN 13 ELSE 11
<1>1. CASE game \in {"LBP1", "LBP2"} /\ k \in 1 .. 15
  <2>1. /\ k \in {1, 2, 3, 10, 11, 12, 13, 14, 15} \union 4 .. 9
        /\ ForceJoin[game][3].op = "branch" /\ ForceJoin[game][12].op = "branch"
        /\ ForceJoin[game][15].op = "branch"
    <3>1. CASE game = "LBP1"
      <4>1. ForceJoin[game] = LBP1ForceJoin
        BY <3>1, SMT DEF ForceJoin
      <4> QED
        BY <1>1, <4>1, LBP1Join, SMT DEF Br
    <3>2. CASE game = "LBP2"
      <4>1. ForceJoin[game] = LBP2ForceJoin
        BY <3>2, SMT DEF ForceJoin
      <4> QED
        BY <1>1, <4>1, LBP2Join, SMT DEF Br
    <3> QED
      BY <1>1, <3>1, <3>2
  <2> QED
    BY <1>1, <2>1, StartWords, SMT DEF Mr, Cmp, Arg, Bla
<1>2. CASE game = "LBP1" /\ k = 16
  <2>1. ForceJoin[game] = LBP1ForceJoin
    BY <1>2, SMT DEF ForceJoin
  <2> QED
    BY <1>2, <2>1, LBP1Join, SMT DEF Arg
<1>3. CASE game = "LBP2" /\ k \in 16 .. 30
  <2>1. ForceJoin[game] = LBP2ForceJoin
    BY <1>3, SMT DEF ForceJoin
  <2>2. k \in ((16 .. 18) \union {21} \union (26 .. 28))
              \union {19, 20, 22, 23, 24, 25, 29, 30}
    BY <1>3, SMT
  <2> QED
    BY <2>1, <2>2, LBP2Tail, SMT DEF Arg, Li, Bla, Mr, Cmp, Br, B
<1>4. CASE game \in {"LBP3", "LBP3_JP"}
  <2>1. ForceJoin[game] = LBP3ForceJoin /\ game \notin {"LBP1", "LBP2"}
    BY <1>4, SMT DEF ForceJoin
  <2>2. \/ k \in (3 .. 7) \union {1, 2, 8, 9, 10, 12, 13, 14, 15, 16}
        \/ k = 11
        \/ k \in (17 .. 19) \union {22, 23}
        \/ k \in {20, 21, 24, 25, 26, 27, 28}
    BY <1>4, SMT DEF JoinWords
  <2>3. k \notin (3 .. 7) \union {1, 2, 8, 9, 10, 12, 13, 14, 15, 16}
    <3>1. k \in 3 .. 7 => LBP3ForceJoin[k] = Arg
      BY LBP3Join
    <3>2. \A n \in {1, 2, 8, 9, 10, 12, 13, 14, 15, 16} :
             LBP3ForceJoin[n].op # "invited"
      <4>1. /\ Cmp("cr0", "local").op = "cmp" /\ Cmp("cr0", "r3").op = "cmp"
            /\ Bla("FindFriend").op = "call" /\ B(8).op = "b"
            /\ Li("r26", 1).op = "li" /\ Li("r26", 0).op = "li"
        BY SMT DEF Cmp, Bla, B, Li
      <4>2. /\ Br("cr0", "ne", \h33).op = "branch"
            /\ Br("cr0", "eq", \h1b).op = "branch"
            /\ Br("cr0", "eq", \hf).op = "branch"
        BY SMT DEF Br
      <4>3. /\ LBP3ForceJoin[2].op = "branch" /\ LBP3ForceJoin[10].op = "branch"
            /\ LBP3ForceJoin[13].op = "branch"
        BY <4>2, LBP3Join, SMT
      <4>4. /\ LBP3ForceJoin[1].op = "cmp" /\ LBP3ForceJoin[8].op = "call"
            /\ LBP3ForceJoin[9].op = "cmp" /\ LBP3ForceJoin[12].op = "cmp"
            /\ LBP3ForceJoin[14].op = "li" /\ LBP3ForceJoin[15].op = "b"
            /\ LBP3ForceJoin[16].op = "li"
        BY <4>1, LBP3Join
      <4> QED
        BY <4>3, <4>4
    <3>3. Arg.op # "invited"
      BY SMT DEF Arg
    <3> QED
      BY <2>1, <3>1, <3>2, <3>3
  <2>4. k \notin (17 .. 19) \union {22, 23}
    BY <2>1, LBP3Tail, SMT DEF Arg
  <2>5. k \notin {20, 21, 24, 25, 26, 27, 28}
    BY <2>1, LBP3Tail, SMT DEF Bla, Mr, Cmp, Br
  <2> QED
    BY <2>1, <2>2, <2>3, <2>4, <2>5
<1> QED
  BY <1>1, <1>2, <1>3, <1>4, SMT DEF KnownGames, JoinWords

\* No script hook reads one.
LEMMA ScriptReads ==
    ASSUME game \in KnownGames, NEW k \in 1 .. Words
    PROVE  ScriptHook[game][k].op # "invited"
<1>1. CASE game = "LBP1"
  <2>1. ScriptHook[game] = LBP1ScriptHook /\ k \in 1 .. 8
    BY <1>1, WordCount, SMT DEF ScriptHook
  <2> QED
    BY <2>1, LBP1Words, SMT DEF Arg, Type, Cmp, Br, Mr, Bla, Ba
<1>2. CASE game = "LBP2"
  <2>1. ScriptHook[game] = LBP2ScriptHook /\ k \in 1 .. 6
    BY <1>2, WordCount, SMT DEF ScriptHook
  <2> QED
    BY <2>1, LBP2Words, SMT DEF Type, Cmp, Br, Ba
<1>3. CASE game \in {"LBP3", "LBP3_JP"}
  <2>1. PICK continue, bail : ScriptHook[game] = LBP3ScriptHookTo(continue, bail)
    BY <1>3, SMT DEF ScriptHook
  <2>2. k \in 1 .. 7
    BY <1>3, WordCount
  <2> DEFINE hook == LBP3ScriptHookTo(continue, bail)
  <2>3. /\ hook[1] = Cmp("cr0", "r3") /\ hook[2] = Br("cr0", "ne", 20)
        /\ hook[3] = Type("r3") /\ hook[4] = Cmp("cr7", "r3")
        /\ hook[5] = Br("cr7", "eq", 8)
        /\ hook[6] = Ba(continue) /\ hook[7] = Ba(bail)
    BY LBP3Words, SMT
  <2> HIDE DEF hook
  <2>4. \A n \in 1 .. 7 : hook[n].op # "invited"
    BY <2>3, SMT DEF Type, Cmp, Br, Ba
  <2> QED
    BY <2>1, <2>2, <2>4 DEF hook
<1> QED
  BY <1>1, <1>2, <1>3 DEF KnownGames

\* The invitation is never read from a friend entry that was not found.
THEOREM EntryRead == Spec => []NoNullRead
<1>1. HookInv => NoNullRead
  <2> SUFFICES ASSUME HookInv, Executes("invited") PROVE 0 \notin regs.r3
    BY DEF NoNullRead
  <2>1. InRoutine /\ Instr.op = "invited"
    BY DEF Executes, Instr
  <2>2. routine # "script"
    BY <2>1, ScriptPlace, ScriptReads, SiteApart, GamesAssumption
  <2>3. routine = "join" /\ game \in KnownGames
    BY <2>2, JoinPlace DEF HookInv, ScriptInv
  <2>4. PICK k \in 1 .. JoinWords \union JoinEnds : pc = JoinWord(k) /\ JoinKnows(k)
    BY <2>3, JoinPlace
  <2>5. k \in 1 .. JoinWords
    BY <2>1, <2>3, <2>4, JoinGone
  <2>6. ForceJoin[game][k].op = "invited"
    BY <2>1, <2>3, <2>4, <2>5, JoinFetch
  <2>7. k = IF game \in {"LBP1", "LBP2"} THEN 13 ELSE 11
    BY <2>3, <2>5, <2>6, JoinReads
  <2>8. regs.r3 = Sign(input.friend) /\ input.friend
    BY <2>3, <2>4, <2>7, SMT
       DEF JoinKnows, LBP1JoinKnows, LBP2JoinKnows, LBP3JoinKnows, StartKnows,
           KnownGames
  <2> QED
    BY <2>8, SMT DEF Sign
<1> QED
  BY <1>1, HookInvInit, HookInvStep, PTL DEF Spec

\* What has become of the request where the routine is left: it is let in as
\* it is wanted, and dealt with as HandledOnce says.
LEMMA JoinOutcome ==
    ASSUME HookInv, routine = "join", Left
    PROVE  (Accepted <=> Wanted) /\ HandledOnce
<1>1. /\ game \in KnownGames
      /\ \E k \in 1 .. JoinWords \union JoinEnds : pc = JoinWord(k) /\ JoinKnows(k)
  BY JoinPlace
<1>2. PICK k \in 1 .. JoinWords \union JoinEnds : pc = JoinWord(k) /\ JoinKnows(k)
  BY <1>1
<1>3. k \in JoinEnds
  BY <1>1, <1>2, JoinLeft
<1>4. CASE Undealt
  <2>1. Dealings = {} /\ ~Called("ForwardRequest")
    BY <1>4, UndealtCalls
  <2>2. ~At("done") /\ ~At("ask") /\ (At("accept") <=> Wanted)
    <3>1. CASE game = "LBP1"
      <4>1. k \in {17, 64} /\ LBP1JoinKnows(k)
        BY <1>2, <1>3, <3>1, SMT DEF JoinEnds, JoinKnows
      <4> QED
        BY <1>1, <1>2, <3>1, <4>1, JoinLeft, SMT DEF LBP1JoinKnows
    <3>2. CASE game = "LBP2"
      <4>1. k \in {-35, 31} /\ LBP2JoinKnows(k)
        BY <1>2, <1>3, <3>2, SMT DEF JoinEnds, JoinKnows
      <4>2. k # -35
        <5>1. ASSUME NEW z, Dealt({0}, z) PROVE FALSE
          BY <2>1, <5>1, DealtCalls DEF DealtWith
        <5>2. ~Forwarded
          BY <2>1, ForwardedCalls
        <5> QED
          BY <4>1, <5>1, <5>2, SMT DEF LBP2JoinKnows
      <4>3. k = 31 /\ Wanted
        BY <4>1, <4>2, SMT DEF LBP2JoinKnows
      <4> QED
        BY <1>1, <1>2, <3>2, <4>3, JoinLeft, SMT
    <3>3. CASE game \in {"LBP3", "LBP3_JP"}
      <4>1. k \in {29, 38} /\ LBP3JoinKnows(k)
        BY <1>2, <1>3, <3>3, SMT DEF JoinEnds, JoinKnows
      <4>2. PICK z \in {0, 1} : LBP3Answered(k, z)
        <5>1. k > 24
          BY <4>1, SMT
        <5> QED
          BY <4>1, <5>1, Zenon DEF LBP3JoinKnows
      <4> QED
        BY <2>1, <4>2, DealtCalls DEF LBP3Answered, DealtWith
    <3> QED
      BY <1>1, <3>1, <3>2, <3>3 DEF KnownGames
  <2>3. Accepted <=> At("accept")
    BY <2>1 DEF Accepted, Dealings
  <2>4. HandledOnce
    BY <2>1, <2>2 DEF HandledOnce
  <2> QED
    BY <2>2, <2>3, <2>4
<1>5. CASE game = "LBP2" /\ ~Undealt
  <2>1. k \in {-35, 31} /\ LBP2JoinKnows(k)
    BY <1>2, <1>3, <1>5, SMT DEF JoinEnds, JoinKnows
  <2>2. k = -35 /\ ~Wanted /\ (Forwarded \/ Dealt({0}, {1}))
    BY <1>5, <2>1, SMT DEF LBP2JoinKnows
  <2>3. At("done") /\ ~At("accept") /\ ~At("ask")
    BY <1>1, <1>2, <1>5, <2>2, JoinLeft, SMT
  <2>4. PICK i \in DOMAIN calls :
           /\ Dealings = {i} /\ calls[i][2] = {0}
           /\ calls[i][3] = IF Forwarded THEN {0} ELSE {1}
           /\ Called("ForwardRequest") <=> Forwarded
    <3>1. CASE Forwarded
      BY <3>1, ForwardedCalls DEF DealtWith
    <3>2. CASE ~Forwarded
      BY <2>2, <3>2, DealtCalls DEF DealtWith
    <3> QED
      BY <3>1, <3>2
  <2>5. ~Accepted
    BY <2>3, <2>4 DEF Accepted, Dealings
  <2>6. {0} # {1}
    BY SMT
  <2>7. Called("ForwardRequest") <=> \A j \in Dealings : calls[j][3] = {0}
    BY <2>4, <2>6
  <2>8. HandledOnce
    BY <1>5, <2>3, <2>4, <2>7 DEF HandledOnce
  <2> QED
    BY <2>2, <2>5, <2>8
<1>6. CASE game \in {"LBP3", "LBP3_JP"}
  <2>1. k \in {29, 38} /\ LBP3JoinKnows(k) /\ game # "LBP2"
    BY <1>2, <1>3, <1>6, SMT DEF JoinEnds, JoinKnows
  <2>2. PICK z \in {0, 1} : LBP3Answered(k, z)
    BY <2>1, SMT DEF LBP3JoinKnows
  <2>3. /\ ~At("accept")
        /\ At("done") <=> k = 38
        /\ At("ask") <=> k = 29
    BY <1>1, <1>2, <1>6, <2>1, JoinLeft, SMT
  <2>4. PICK i \in DOMAIN calls :
           /\ Dealings = {i} /\ calls[i][2] = Sign(Wanted) /\ calls[i][3] = {z}
           /\ ~Called("ForwardRequest")
    BY <2>2, DealtCalls DEF LBP3Answered, DealtWith
  <2>5. Sign(Wanted) # {0} <=> Wanted
    BY SMT DEF Sign
  <2>6. Accepted <=> Wanted
    BY <2>3, <2>4, <2>5 DEF Accepted, Dealings
  <2>7. k = 29 => z = 0
    BY <2>2, SMT DEF LBP3Answered
  <2>8. At("done") \/ At("ask")
    BY <2>1, <2>3
  <2>9. HandledOnce
    BY <2>1, <2>3, <2>4, <2>7, <2>8 DEF HandledOnce
  <2> QED
    BY <2>6, <2>9
<1>7. game = "LBP1" => Undealt
  <2>1. ASSUME game = "LBP1" PROVE k \in {17, 64} /\ LBP1JoinKnows(k)
    BY <1>2, <1>3, <2>1, SMT DEF JoinEnds, JoinKnows
  <2> QED
    BY <2>1, SMT DEF LBP1JoinKnows
<1> QED
  BY <1>1, <1>4, <1>5, <1>6, <1>7 DEF KnownGames

\* Nobody is let in without the game's checks but a local player, or a friend
\* whose invitation is positive in LBP2 and not zero in the others, and they are
\* (forcejoin-patch.s).
THEOREM JoinSafety == Spec => []JoinsGuarded
<1>1. HookInv => JoinsGuarded
  BY JoinOutcome DEF JoinsGuarded
<1> QED
  BY <1>1, HookInvInit, HookInvStep, PTL DEF Spec

\* A request is dealt with once, or not at all, and LBP2's is forwarded exactly
\* if that came to nothing (forcejoin-patch.s:57-69).
THEOREM DealtWithOnce == Spec => []HandledOnce
<1>1. HookInv => HandledOnce
  <2>1. ~(routine = "join" /\ Left) => HandledOnce
    BY DEF HandledOnce
  <2> QED
    BY <2>1, JoinOutcome
<1> QED
  BY <1>1, HookInvInit, HookInvStep, PTL DEF Spec

-------------------------------------------------------------------------------
(* Types.                                                                  *)

RegNames == {"r0", "r3", "r6", "r7", "r25", "r26", "local"}

\* What is compared or copied is a register, what is loaded a sign.
Sound(instr) ==
    /\ instr.op = "cmp" => instr.reg \in RegNames
    /\ instr.op = "mr" => instr.from \in RegNames
    /\ instr.op = "li" => instr.value \in Signs

LEMMA SoundWords ==
    /\ \A field : \A reg \in RegNames : Sound(Cmp(field, reg))
    /\ \A reg : \A from \in RegNames : Sound(Mr(reg, from))
    /\ \A reg : \A value \in Signs : Sound(Li(reg, value))
    /\ \A field, cond, offset : Sound(Br(field, cond, offset))
    /\ \A function : Sound(Bla(function))
    /\ \A to : Sound(B(to)) /\ Sound(Ba(to))
    /\ \A reg : Sound(Invited(reg)) /\ Sound(Type(reg))
    /\ Sound(Arg)
<1>1. \A field : \A reg \in RegNames : Sound(Cmp(field, reg))
  BY SMT DEF Sound, Cmp
<1>2. \A reg : \A from \in RegNames : Sound(Mr(reg, from))
  BY SMT DEF Sound, Mr
<1>3. \A reg : \A value \in Signs : Sound(Li(reg, value))
  BY SMT DEF Sound, Li
<1>4. \A field, cond, offset : Sound(Br(field, cond, offset))
  BY SMT DEF Sound, Br
<1>5. \A function : Sound(Bla(function))
  BY SMT DEF Sound, Bla
<1>6. \A to : Sound(B(to)) /\ Sound(Ba(to))
  BY SMT DEF Sound, B, Ba
<1>7. \A reg : Sound(Invited(reg)) /\ Sound(Type(reg))
  BY SMT DEF Sound, Invited, Type
<1>8. Sound(Arg)
  BY SMT DEF Sound, Arg
<1> QED
  BY <1>1, <1>2, <1>3, <1>4, <1>5, <1>6, <1>7, <1>8

LEMMA SoundNames ==
    /\ "r0" \in RegNames /\ "r3" \in RegNames /\ "r6" \in RegNames
    /\ "r25" \in RegNames /\ "r26" \in RegNames /\ "local" \in RegNames
    /\ 0 \in Signs /\ 1 \in Signs
  BY SMT DEF RegNames, Signs

LEMMA LBP1JoinSound == \A k \in 1 .. 16 : Sound(LBP1ForceJoin[k])
<1>1. /\ Sound(Br("cr7", "ne", \h3b)) /\ Sound(Br("cr7", "eq", \hd3))
      /\ Sound(Br("cr7", "eq", \hc7))
  BY SMT DEF Sound, Br
<1>2. /\ Sound(LBP1ForceJoin[3]) /\ Sound(LBP1ForceJoin[12])
      /\ Sound(LBP1ForceJoin[15])
  BY <1>1, LBP1Join, SMT
<1>3. /\ Sound(LBP1ForceJoin[1]) /\ Sound(LBP1ForceJoin[2])
      /\ Sound(LBP1ForceJoin[10]) /\ Sound(LBP1ForceJoin[11])
      /\ Sound(LBP1ForceJoin[13]) /\ Sound(LBP1ForceJoin[14])
  BY LBP1Join, SoundWords, SoundNames
<1>4. \A k \in (4 .. 9) \union {16} : Sound(LBP1ForceJoin[k])
  BY LBP1Join, SoundWords
<1>5. \A k \in 1 .. 16 : k \in (4 .. 9) \union {16}
                           \/ k \in {1, 2, 3, 10, 11, 12, 13, 14, 15}
  BY SMT
<1> QED
  BY <1>2, <1>3, <1>4, <1>5

LEMMA LBP2JoinSound == \A k \in 1 .. 30 : Sound(LBP2ForceJoin[k])
<1>1. /\ Sound(Br("cr7", "ne", \h73)) /\ Sound(Br("cr7", "eq", \h10))
      /\ Sound(Br("cr7", "gt", \h43)) /\ Sound(Br("cr7", "ne", -\hf0))
      /\ Sound(B(-\h104))
  BY SMT DEF Sound, Br, B
<1>2. /\ Sound(LBP2ForceJoin[3]) /\ Sound(LBP2ForceJoin[12])
      /\ Sound(LBP2ForceJoin[15])
  BY <1>1, LBP2Join, SMT
<1>3. Sound(LBP2ForceJoin[25]) /\ Sound(LBP2ForceJoin[30])
  BY <1>1, LBP2Tail, SMT
<1>4. /\ Sound(LBP2ForceJoin[1]) /\ Sound(LBP2ForceJoin[2])
      /\ Sound(LBP2ForceJoin[10]) /\ Sound(LBP2ForceJoin[11])
      /\ Sound(LBP2ForceJoin[13]) /\ Sound(LBP2ForceJoin[14])
  BY LBP2Join, SoundWords, SoundNames
<1>5. /\ Sound(LBP2ForceJoin[19]) /\ Sound(LBP2ForceJoin[20])
      /\ Sound(LBP2ForceJoin[22]) /\ Sound(LBP2ForceJoin[23])
      /\ Sound(LBP2ForceJoin[24]) /\ Sound(LBP2ForceJoin[29])
  BY LBP2Tail, SoundWords, SoundNames
<1>6. \A k \in 4 .. 9 : Sound(LBP2ForceJoin[k])
  BY LBP2Join, SoundWords
<1>7. \A k \in (16 .. 18) \union {21} \union (26 .. 28) : Sound(LBP2ForceJoin[k])
  BY LBP2Tail, SoundWords
<1>8. \A k \in 1 .. 30 : \/ k \in 4 .. 9
                         \/ k \in (16 .. 18) \union {21} \union (26 .. 28)
                         \/ k \in {1, 2, 3, 10, 11, 12, 13, 14, 15}
                         \/ k \in {19, 20, 22, 23, 24, 25, 29, 30}
  BY SMT
<1> QED
  BY <1>2, <1>3, <1>4, <1>5, <1>6, <1>7, <1>8

LEMMA LBP3JoinSound == \A k \in 1 .. 28 : Sound(LBP3ForceJoin[k])
<1>1. /\ Sound(Br("cr0", "ne", \h33)) /\ Sound(Br("cr0", "eq", \h1b))
      /\ Sound(Br("cr0", "eq", \hf)) /\ Sound(Br("cr0", "ne", \h2b))
  BY SMT DEF Sound, Br
<1>2. /\ Sound(LBP3ForceJoin[2]) /\ Sound(LBP3ForceJoin[10])
      /\ Sound(LBP3ForceJoin[13])
  BY <1>1, LBP3Join, SMT
<1>3. Sound(LBP3ForceJoin[26]) /\ Sound(LBP3ForceJoin[28])
  BY <1>1, LBP3Tail, SMT
<1>4. /\ Sound(LBP3ForceJoin[1]) /\ Sound(LBP3ForceJoin[8])
      /\ Sound(LBP3ForceJoin[9]) /\ Sound(LBP3ForceJoin[11])
      /\ Sound(LBP3ForceJoin[12])
  BY LBP3Join, SoundWords, SoundNames
<1>5. /\ Sound(LBP3ForceJoin[14]) /\ Sound(LBP3ForceJoin[15])
      /\ Sound(LBP3ForceJoin[16])
  BY LBP3Join, SoundWords, SoundNames
<1>6. /\ Sound(LBP3ForceJoin[20]) /\ Sound(LBP3ForceJoin[21])
      /\ Sound(LBP3ForceJoin[24]) /\ Sound(LBP3ForceJoin[25])
      /\ Sound(LBP3ForceJoin[27])
  BY LBP3Tail, SoundWords, SoundNames
<1>7. \A k \in 3 .. 7 : Sound(LBP3ForceJoin[k])
  BY LBP3Join, SoundWords
<1>8. \A k \in (17 .. 19) \union {22, 23} : Sound(LBP3ForceJoin[k])
  BY LBP3Tail, SoundWords
<1>9. \A k \in 1 .. 28 : \/ k \in 3 .. 7
                         \/ k \in (17 .. 19) \union {22, 23}
                         \/ k \in {1, 2, 8, 9, 10, 11, 12, 13, 14, 15, 16}
                         \/ k \in {20, 21, 24, 25, 26, 27, 28}
  BY SMT
<1> QED
  BY <1>2, <1>3, <1>4, <1>5, <1>6, <1>7, <1>8, <1>9

LEMMA JoinSound ==
    ASSUME game \in KnownGames, NEW k \in 1 .. JoinWords
    PROVE  Sound(ForceJoin[game][k])
<1>1. CASE game = "LBP1"
  <2>1. ForceJoin[game] = LBP1ForceJoin /\ k \in 1 .. 16
    BY <1>1, SMT DEF ForceJoin, JoinWords
  <2> QED
    BY <2>1, LBP1JoinSound
<1>2. CASE game = "LBP2"
  <2>1. ForceJoin[game] = LBP2ForceJoin /\ k \in 1 .. 30
    BY <1>2, SMT DEF ForceJoin, JoinWords
  <2> QED
    BY <2>1, LBP2JoinSound
<1>3. CASE game \in {"LBP3", "LBP3_JP"}
  <2>1. ForceJoin[game] = LBP3ForceJoin /\ k \in 1 .. 28
    BY <1>3, SMT DEF ForceJoin, JoinWords
  <2> QED
    BY <2>1, LBP3JoinSound
<1> QED
  BY <1>1, <1>2, <1>3 DEF KnownGames

LEMMA ScriptSound ==
    ASSUME game \in KnownGames, NEW k \in 1 .. Words
    PROVE  Sound(ScriptHook[game][k])
<1>1. CASE game = "LBP1"
  <2>1. ScriptHook[game] = LBP1ScriptHook /\ k \in 1 .. 8
    BY <1>1, WordCount, SMT DEF ScriptHook
  <2>2. Sound(Ba(\h81BCC)) /\ Sound(Ba(\h81B40))
    BY SMT DEF Sound, Ba
  <2>3. Sound(LBP1ScriptHook[7]) /\ Sound(LBP1ScriptHook[8])
    BY <2>2, LBP1Words, SMT
  <2>4. \A n \in 1 .. 6 : Sound(LBP1ScriptHook[n])
    <3>1. /\ Sound(Arg) /\ Sound(Type("r3")) /\ Sound(Cmp("cr7", "r3"))
          /\ Sound(Br("cr7", "eq", 16)) /\ Sound(Mr("r3", "r25"))
          /\ Sound(Bla("AddToCSRQueue"))
      BY SoundWords, SoundNames
    <3> QED
      BY <3>1, LBP1Words, SMT
  <2> QED
    BY <2>1, <2>3, <2>4, SMT
<1>2. CASE game = "LBP2"
  <2>1. ScriptHook[game] = LBP2ScriptHook /\ k \in 1 .. 6
    BY <1>2, WordCount, SMT DEF ScriptHook
  <2>2. Sound(Ba(\h153D78)) /\ Sound(Ba(\h153D3C))
    BY SMT DEF Sound, Ba
  <2>3. /\ Sound(Br("cr7", "eq", 20)) /\ Sound(Type("r0"))
        /\ Sound(Cmp("cr7", "r0")) /\ Sound(Br("cr7", "eq", 8))
    BY SoundWords, SoundNames
  <2> QED
    BY <2>1, <2>2, <2>3, LBP2Words, SMT
<1>3. CASE game \in {"LBP3", "LBP3_JP"}
  <2>1. PICK continue, bail : ScriptHook[game] = LBP3ScriptHookTo(continue, bail)
    BY <1>3, SMT DEF ScriptHook
  <2>2. k \in 1 .. 7
    BY <1>3, WordCount
  <2> DEFINE hook == LBP3ScriptHookTo(continue, bail)
  <2>3. /\ hook[1] = Cmp("cr0", "r3") /\ hook[2] = Br("cr0", "ne", 20)
        /\ hook[3] = Type("r3") /\ hook[4] = Cmp("cr7", "r3")
        /\ hook[5] = Br("cr7", "eq", 8)
        /\ hook[6] = Ba(continue) /\ hook[7] = Ba(bail)
    BY LBP3Words, SMT
  <2> HIDE DEF hook
  <2>4. /\ Sound(Cmp("cr0", "r3")) /\ Sound(Br("cr0", "ne", 20))
        /\ Sound(Type("r3")) /\ Sound(Cmp("cr7", "r3"))
        /\ Sound(Br("cr7", "eq", 8)) /\ Sound(Ba(continue)) /\ Sound(Ba(bail))
    BY SoundWords, SoundNames
  <2>5. \A n \in 1 .. 7 : Sound(hook[n])
    BY <2>3, <2>4, SMT
  <2> QED
    BY <2>1, <2>2, <2>5 DEF hook
<1> QED
  BY <1>1, <1>2, <1>3 DEF KnownGames

\* Whatever is executed is.
LEMMA ExecutedSound == HookInv /\ InRoutine => Sound(Instr)
<1> SUFFICES ASSUME HookInv, InRoutine PROVE Sound(Instr)
  OBVIOUS
<1>1. CASE routine = "join"
  <2>1. game \in KnownGames
    BY <1>1, JoinPlace
  <2>2. PICK k \in 1 .. JoinWords \union JoinEnds : pc = JoinWord(k)
    BY <1>1, JoinPlace
  <2>3. k \in 1 .. JoinWords
    BY <1>1, <2>1, <2>2, JoinGone
  <2> QED
    BY <1>1, <2>1, <2>2, <2>3, JoinFetch, JoinSound
<1>2. CASE routine = "script"
  <2>1. game \in Games /\ game \in KnownGames
    BY <1>2, ScriptPlace, GamesAssumption
  <2>2. ~AtSite
    BY <2>1, SiteApart
  <2> QED
    BY <1>2, <2>1, <2>2, ScriptPlace, ScriptSound
<1> QED
  BY <1>1, <1>2 DEF HookInv, ScriptInv

Typed == /\ regs \in [RegNames -> SUBSET Signs]
         /\ cr \in [{"cr0", "cr7"} -> SUBSET Signs]

LEMMA TypedInit == Init => Typed
<1> SUFFICES ASSUME Init PROVE Typed
  OBVIOUS
<1>1. \A b : Sign(b) \subseteq Signs
  BY SMT DEF Sign, Signs
<1>2. {1} \subseteq Signs /\ {0} \subseteq Signs /\ {-1, 1} \subseteq Signs
  BY SMT DEF Signs
<1>3. regs \in [RegNames -> SUBSET Signs]
  BY <1>1, <1>2, SMT DEF Init, RegNames
<1>4. cr \in [{"cr0", "cr7"} -> SUBSET Signs]
  <2>1. (IF input.failed THEN {0} ELSE {-1, 1}) \in SUBSET Signs
    BY <1>2
  <2>2. cr = [cr0 |-> Signs, cr7 |-> IF input.failed THEN {0} ELSE {-1, 1}]
    BY DEF Init
  <2> QED
    BY <2>1, <2>2, SMT
<1> QED
  BY <1>3, <1>4 DEF Typed

LEMMA TypedStep == HookInv /\ Typed /\ [Next]_vars => Typed'
<1> SUFFICES ASSUME HookInv, Typed, [Next]_vars PROVE Typed'
  OBVIOUS
<1>1. CASE UNCHANGED <<regs, cr>>
  BY <1>1 DEF Typed
<1>2. ASSUME NEW op, Executes(op) PROVE InRoutine /\ Instr.op = op /\ Sound(Instr)
  BY <1>2, ExecutedSound DEF Executes, Instr
<1>3. ASSUME NEW reg, NEW signs \in SUBSET Signs,
             regs' = [regs EXCEPT ![reg] = signs]
      PROVE  regs' \in [RegNames -> SUBSET Signs]
  BY <1>3 DEF Typed
<1>4. CASE Compare
  <2>1. Instr.reg \in RegNames
    BY <1>2, <1>4 DEF Compare, Sound
  <2>2. PICK sign \in regs[Instr.reg] : cr' = [cr EXCEPT ![Instr.field] = {sign}]
    BY <1>4 DEF Compare
  <2>3. {sign} \in SUBSET Signs
    BY <2>1, <2>2 DEF Typed
  <2>4. cr' \in [{"cr0", "cr7"} -> SUBSET Signs]
    BY <2>2, <2>3 DEF Typed
  <2> QED
    BY <1>4, <2>4 DEF Compare, Typed
<1>5. CASE Move
  <2>1. cr' = cr
    BY <1>5 DEF Move
  <2>2. CASE Executes("li") /\ regs' = [regs EXCEPT ![Instr.reg] = {Instr.value}]
    <3>1. {Instr.value} \in SUBSET Signs
      BY <1>2, <2>2 DEF Sound
    <3> QED
      BY <1>3, <2>1, <2>2, <3>1 DEF Typed
  <2>3. CASE Executes("mr") /\ regs' = [regs EXCEPT ![Instr.reg] = regs[Instr.from]]
    <3>1. regs[Instr.from] \in SUBSET Signs
      BY <1>2, <2>3 DEF Sound, Typed
    <3> QED
      BY <1>3, <2>1, <2>3, <3>1 DEF Typed
  <2> QED
    BY <1>1, <1>5, <2>2, <2>3 DEF Move
<1>6. CASE Load
  <2>1. cr' = cr
    BY <1>6 DEF Load
  <2>2. {input.invited} \in SUBSET Signs
    BY InvitationsAssumption DEF HookInv, Inputs
  <2>3. (IF input.script THEN {0} ELSE {-1, 1}) \in SUBSET Signs
    BY SMT DEF Signs
  <2>4. \/ regs' = [regs EXCEPT ![Instr.reg] = {input.invited}]
        \/ regs' = [regs EXCEPT ![Instr.reg] =
                      IF input.script THEN {0} ELSE {-1, 1}]
    BY <1>6 DEF Load
  <2>5. regs' \in [RegNames -> SUBSET Signs]
    BY <1>3, <2>2, <2>3, <2>4
  <2> QED
    BY <2>1, <2>5 DEF Typed
<1>7. CASE Call
  <2>1. PICK result \in Results(Instr.function) :
           regs' = [regs EXCEPT !.r0 = Signs, !.r3 = result,
                                !.r6 = Signs, !.r7 = Signs]
    BY <1>7 DEF Call
  <2>2. result \in SUBSET Signs
    BY SMT DEF Results, Sign, Signs
  <2>3. regs' \in [RegNames -> SUBSET Signs]
    BY <2>1, <2>2 DEF Typed
  <2>4. cr' \in [{"cr0", "cr7"} -> SUBSET Signs]
    BY <1>7, SMT DEF Call
  <2> QED
    BY <2>3, <2>4 DEF Typed
<1> QED
  BY <1>1, <1>4, <1>5, <1>6, <1>7 DEF Next, vars, TakeHook, Branch, Jump, Return

\* Everything stays in its range: the next instruction is at an address, a
\* register holds some of the three signs, and no routine calls the game more
\* than three times.
THEOREM TypeCorrect == Spec => []TypeOK
<1>1. HookInv /\ Typed => TypeOK
  <2> SUFFICES ASSUME HookInv, Typed PROVE TypeOK
    OBVIOUS
  <2>1. game \in Games /\ routine \in {"join", "script"} /\ input \in Inputs
    BY DEF HookInv, ScriptInv
  <2>2. game \in KnownGames
    BY <2>1, GamesAssumption
  <2>3. pc \in Nat /\ Len(calls) \in 0 .. 3
    <3>1. CASE routine = "join"
      <4>1. PICK k \in 1 .. JoinWords \union JoinEnds :
               pc = JoinWord(k) /\ JoinKnows(k)
        BY <3>1, JoinPlace
      <4>2. k \in Int /\ k > -36
        BY SMT DEF JoinWords, JoinEnds
      <4>3. pc \in Nat
        <5>1. ForceJoinAddress[game] \in Nat /\ ForceJoinAddress[game] > 200
          BY <2>2, <3>1, JoinPaths
        <5> QED
          BY <4>1, <4>2, <5>1, SMT DEF JoinWord
      <4>4. \/ Undealt \/ Forwarded
            \/ \E skip, result : Dealt(skip, result)
        <5>1. CASE game = "LBP1"
          BY <4>1, <5>1, SMT
             DEF JoinKnows, LBP1JoinKnows, JoinWords, JoinEnds, StartKnows
        <5>2. CASE game = "LBP2"
          <6>1. LBP2JoinKnows(k) /\ k \in 1 .. 30 \union {-35, 31}
            BY <4>1, <5>2, SMT DEF JoinKnows, JoinWords, JoinEnds
          <6>2. CASE k \in 1 .. 15
            BY <6>1, <6>2 DEF LBP2JoinKnows, StartKnows
          <6>3. CASE k \in 16 .. 22 \union {31}
            BY <6>1, <6>3 DEF LBP2JoinKnows
          <6>4. CASE k \in 23 .. 25
            BY <6>1, <6>4 DEF LBP2JoinKnows
          <6>5. CASE k \in 26 .. 29
            BY <6>1, <6>5 DEF LBP2JoinKnows
          <6>6. CASE k \in {30, -35}
            BY <6>1, <6>6, SMT DEF LBP2JoinKnows
          <6> QED
            BY <6>1, <6>2, <6>3, <6>4, <6>5, <6>6, SMT
        <5>3. CASE game \in {"LBP3", "LBP3_JP"}
          <6>1. LBP3JoinKnows(k) /\ (k <= 24 \/ k > 24)
            BY <4>1, <4>2, <5>3, SMT DEF JoinKnows
          <6>2. CASE k <= 24
            BY <6>1, <6>2 DEF LBP3JoinKnows
          <6>3. CASE k > 24
            <7>1. \E z : LBP3Answered(k, z)
              BY <6>1, <6>3 DEF LBP3JoinKnows
            <7> QED
              BY <7>1 DEF LBP3Answered
          <6> QED
            BY <6>1, <6>2, <6>3
        <5> QED
          BY <2>2, <5>1, <5>2, <5>3 DEF KnownGames
      <4>5. Len(calls) \in 0 .. 3
        BY <4>4, UndealtCalls, ForwardedCalls, DealtCalls
      <4> QED
        BY <4>3, <4>5, SMT
    <3>2. CASE routine = "script"
      <4>1. Len(<<>>) = 0 /\ \A call : Len(<<call>>) = 1
        BY SMT
      <4>2. ASSUME NEW k \in 1 .. 8, Knows(k) PROVE Len(calls) \in {0, 1}
        <5>1. calls = <<>> \/ calls = <<<<"AddToCSRQueue", {1}, Signs>>>>
          BY <2>2, <4>2, SMT
             DEF Knows, LBP1Knows, LBP2Knows, LBP3Knows, KnownGames
        <5> QED
          BY <4>1, <5>1
      <4>3. CASE AtSite /\ Knows(1)
        <5>1. 1 \in 1 .. 8
          BY SMT
        <5> QED
          BY <2>2, <4>2, <4>3, <5>1, SiteWord, SMT DEF AtSite
      <4>4. CASE Within
        <5>1. PICK k \in 1 .. Words : pc = WordAt(k) /\ Knows(k)
          BY <4>4 DEF Within, Words
        <5>2. k \in 1 .. 8
          BY <2>2, WordCount, SMT DEF KnownGames
        <5>3. HookAddress[game] \in Nat
          BY <2>1, ReachAssumption
        <5>4. pc \in Nat
          BY <5>1, <5>2, <5>3, SMT DEF WordAt
        <5> QED
          BY <4>2, <5>1, <5>2, <5>4, SMT
      <4>5. CASE Left /\ Len(calls) \in {0, 1}
        <5>1. pc \in Nat
          BY <2>2, <3>2, <4>5, SMT DEF Left, At, Exits, ScriptExits, KnownGames
        <5> QED
          BY <4>5, <5>1, SMT
      <4> QED
        BY <3>2, <4>3, <4>4, <4>5 DEF HookInv, ScriptInv
    <3> QED
      BY <2>1, <3>1, <3>2
  <2> QED
    BY <2>1, <2>3 DEF TypeOK, Typed, RegNames
<1> QED
  BY <1>1, HookInvInit, HookInvStep, TypedInit, TypedStep, PTL DEF Spec

===============================================================================
