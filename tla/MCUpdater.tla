------------------------------- MODULE MCUpdater ------------------------------
(***************************************************************************)
(* Updater on three images of three bytes: the one in use, the one the     *)
(* server announces, and one it sends in its place.  Two bytes fit in the  *)
(* buffer, so that an image takes several receives, a receive may be cut   *)
(* short, and a write may take one byte of two.                            *)
(***************************************************************************)
EXTENDS Updater

CONSTANTS old, new, other, none

MCImages == {old, new, other}
MCPublished == {new}

\* The comparison of memory that was never written comes out either way.
AnyCompare == {TRUE, FALSE}

\* It never finds 32 equal bytes.
NeverEqual == {FALSE}
===============================================================================
