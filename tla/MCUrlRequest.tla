---------------------------- MODULE MCUrlRequest -----------------------------
(***************************************************************************)
(* An instance of UrlRequest for TLC: an image of the legacy format, its   *)
(* successor in the current one, and an index over the latter.             *)
(***************************************************************************)
EXTENDS UrlRequest, TLC

CONSTANTS old, new, index, kernelA, kernelB, root

MCLayers ==
    old :> << [kind |-> "rootfs", legacy |-> TRUE, digest |-> root],
              [kind |-> "kernel", legacy |-> TRUE, digest |-> kernelA] >>
        @@ new :> << [kind |-> "kernel", legacy |-> TRUE, digest |-> kernelA],
                     [kind |-> "kernel", legacy |-> FALSE, digest |-> kernelB] >>
        @@ index :> <<>>

MCRequires == old :> {} @@ new :> {} @@ index :> {new}

Refer(named, tag, pin) == [named |-> named, tag |-> tag, pin |-> pin]

MCReferences ==
    { Refer(FALSE, "v1", Nothing), Refer(TRUE, "v1", Nothing), Refer(TRUE, Nothing, Nothing),
      Refer(TRUE, Nothing, old) }
=============================================================================
