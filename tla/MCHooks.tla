-------------------------------- MODULE MCHooks -------------------------------
(***************************************************************************)
(* Hooks in every game, with the script hooks at the end of the reach of a *)
(* branch, between, and behind the check.                                  *)
(***************************************************************************)
EXTENDS Hooks

MCGames == KnownGames

\* The last word in reach ahead for LBP1 and LBP3_JP, one between for LBP3, and
\* one behind the check for LBP2.
MCHookAddress ==
    [LBP1 |-> \h81BC8 + 2^25 - 4, LBP2 |-> \h10000,
     LBP3 |-> \h1CFC6C + 2^24, LBP3_JP |-> \h1CFB08 + 2^25 - 4]

\* Invitations that have run out, that have not, and negative ones.
MCInvitations == {-1, 0, 1}
===============================================================================
