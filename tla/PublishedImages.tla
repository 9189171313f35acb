--------------------------- MODULE PublishedImages ---------------------------
(***************************************************************************)
(* What a registry promises to those who read it: every image it shows is  *)
(* there with all it refers to, no image goes away, and a tag moves from   *)
(* one such image to another in one step.                                  *)
(***************************************************************************)
CONSTANTS
    Label,     \* tags
    Image,     \* manifests of images and of indexes, by digest
    Requires,  \* [Image -> SUBSET Image]: the images an index lists
    None       \* the meaning of a tag that was never pushed

VARIABLES
    published, \* images that can be read whole
    meaning    \* [Label -> Image \cup {None}]

Init ==
    /\ published = {}
    /\ meaning = [n \in Label |-> None]

\* A manifest arrives under a tag; all it refers to is there already.
Publish(n, d) ==
    /\ Requires[d] \subseteq published
    /\ published' = published \cup {d}
    /\ meaning' = [meaning EXCEPT ![n] = d]

Next == \E n \in Label, d \in Image : Publish(n, d)

Spec == Init /\ [][Next]_<<published, meaning>>
=============================================================================
