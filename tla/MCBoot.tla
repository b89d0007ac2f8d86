--------------------------------- MODULE MCBoot --------------------------------
(***************************************************************************)
(* Boot in a game and in a program that is none, with an update on offer:  *)
(* images of two bytes, received and copied one or two at a time.          *)
(***************************************************************************)
EXTENDS Boot

CONSTANTS old, new, none

MCGames == {"LBP1", "unknown"}
MCLaunches == {"none", "fresh"}
MCImages == {old, new}
MCPublished == {new}
AnyCompare == {TRUE, FALSE}

\* A server, a random join key, and updates.
MCConfigurations ==
    {[server |-> TRUE, digest |-> FALSE, joinKey |-> FALSE, enableKey |-> TRUE,
      enableUpdates |-> TRUE, updateServer |-> TRUE]}
===============================================================================
