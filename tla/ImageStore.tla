------------------------------ MODULE ImageStore ------------------------------
(***************************************************************************)
(* What the updater promises about the module image the game loads, the    *)
(* file at INSTALL_PATH: its bytes are those of one image at a time, each  *)
(* next image is accepted first, only a published image is accepted, only  *)
(* a complete image is replaced, and it is replaced front to back.  The    *)
(* abstract specification says nothing of networks, digests or buffers.    *)
(***************************************************************************)
EXTENDS Integers

CONSTANTS
    Images,     \* module images a file can hold bytes of
    Published,  \* the images the update server announces
    Factory,    \* the image installed by hand
    Size,       \* bytes of a complete image
    None        \* no image

VARIABLES
    installed,  \* the installed file: the first len bytes of img
    accepted    \* the image being installed, or None

vars == <<installed, accepted>>

\* A file holds a prefix of one image.
Contents == [img : Images, len : 0..Size]

\* The whole of image i.
Complete(i) == [img |-> i, len |-> Size]

Init ==
    /\ installed = Complete(Factory)
    /\ accepted = None

\* An image is found to be one the server announced.
Accept ==
    /\ accepted = None
    /\ installed.len = Size
    /\ accepted' \in Published
    /\ UNCHANGED installed

\* The old image is truncated to make room for the accepted one.
Truncate ==
    /\ accepted # None
    /\ installed.len = Size
    /\ installed' = [img |-> accepted, len |-> 0]
    /\ UNCHANGED accepted

\* The next bytes of the accepted image are written.
Grow ==
    /\ accepted # None
    /\ installed.img = accepted
    /\ \E n \in installed.len..Size : installed' = [installed EXCEPT !.len = n]
    /\ UNCHANGED accepted

\* The installation ends, finished or not.
Finish ==
    /\ accepted' = None
    /\ UNCHANGED installed

Next == Accept \/ Truncate \/ Grow \/ Finish

Spec == Init /\ [][Next]_vars
===============================================================================
