------------------------------- MODULE MCStartup ------------------------------
(***************************************************************************)
(* Startup in every game and in a program that is none of them, under      *)
(* every configuration, with one level of nesting more than the restart    *)
(* may reach.                                                              *)
(***************************************************************************)
EXTENDS Startup

MCGames == KnownGames \union {"unknown"}

\* One game with the shorter and one with the longer table.
MCTwoGames == {"LBP1", "LBP3"}

MCLaunches == {"none", "fresh"}
===============================================================================
