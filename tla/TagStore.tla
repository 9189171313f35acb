------------------------------ MODULE TagStore -------------------------------
(***************************************************************************)
(* What the local store promises to one user at a time: a set of images    *)
(* and a map from names to images, changed by one operation at a time.     *)
(*                                                                         *)
(* The file that holds both can be destroyed, and then stays so: there is  *)
(* no operation that repairs or recreates it.                              *)
(***************************************************************************)
CONSTANTS
    Label,      \* references that can be tagged
    Image,     \* images, by digest
    Requires,  \* [Image -> SUBSET Image]: the images an index lists
    None       \* the meaning of a name that is not tagged

VARIABLES
    images, \* images that can be resolved by digest
    tags,   \* [Label -> Image \cup {None}]
    usable  \* FALSE once the file is destroyed

vars == <<images, tags, usable>>

Untagged == [n \in Label |-> None]

Init == images = {} /\ tags = Untagged /\ usable = TRUE

Put(d) ==
    /\ usable
    /\ Requires[d] \subseteq images
    /\ images' = images \cup {d}
    /\ UNCHANGED <<tags, usable>>

Tag(n, d) ==
    /\ usable
    /\ d \in images
    /\ tags' = [tags EXCEPT ![n] = d]
    /\ UNCHANGED <<images, usable>>

\* Deleting a name leaves the image and its other names.
DeleteName(n) ==
    /\ usable
    /\ tags' = [tags EXCEPT ![n] = None]
    /\ UNCHANGED <<images, usable>>

\* Deleting an image takes all its names with it.
DeleteImage(d) ==
    /\ usable
    /\ images' = images \ {d}
    /\ tags' = [n \in Label |-> IF tags[n] = d THEN None ELSE tags[n]]
    /\ UNCHANGED usable

\* The process that was writing the file died.
Lose ==
    /\ usable
    /\ usable' = FALSE
    /\ images' = {}
    /\ tags' = Untagged

Next ==
    \/ \E d \in Image : Put(d)
    \/ \E n \in Label, d \in Image : Tag(n, d)
    \/ \E n \in Label : DeleteName(n)
    \/ \E d \in Image : DeleteImage(d)
    \/ Lose

Spec == Init /\ [][Next]_vars
=============================================================================
