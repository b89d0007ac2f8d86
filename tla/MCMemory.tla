-------------------------------- MODULE MCMemory -------------------------------
(***************************************************************************)
(* GameMemory for every game, with strings as long as their fields and one *)
(* character longer, and with whitespace at their ends.                    *)
(***************************************************************************)
EXTENDS GameMemory

MCGames == KnownGames
MCHookAddress ==
    [LBP1 |-> \h1000000, LBP2 |-> \h10000, LBP3 |-> \h1000000, LBP3_JP |-> \h1000000]

\* A URL of n characters.
Url(n) == [i \in 1..n |-> IF i % 7 = 0 THEN "/" ELSE "u"]
MCUrls == {Url(69), Url(70), Url(9) \o <<" ", " ">>, <<" ", " ">>, <<"u", " ">>}

\* "CustomServerDigest" (servers.yaml:10) has as many characters as the field.
Characters(n) == [i \in 1..n |-> IF i % 5 = 0 THEN "D" ELSE "d"]
MCDigests == {Characters(18), Characters(4) \o <<" ">>}

MCJoinKeys == {<<"k">>, <<"k", " ">>, <<>>}

MCVersions == {[major |-> <<"2">>, minor |-> <<"0">>],
               [major |-> <<"2">>, minor |-> <<"1", "0">>]}
===============================================================================
