---------------------------- MODULE MCImageLayers ----------------------------
(***************************************************************************)
(* Instances of ImageLayers for TLC: all manifests of up to three layers,  *)
(* all that build writes, the example of OCI-SPEC.md.                      *)
(***************************************************************************)
EXTENDS ImageLayers, SequencesExt

MaxLayers == 3

BuiltManifests == {BuildLayers(files) : files \in SUBSET Kind}

\* OCI-SPEC.md, "Artifact Manifest: Virtualization Boot".  Its first layer is a
\* disk.img, a type no code knows.
VirtualizationBoot ==
    << Foreign, Current("kernel"), Current("initramfs"), Current("squashfs"),
       Current("uki"), Current("iso") >>

MCManifests ==
    BoundedSeq(MediaType, MaxLayers) \cup BuiltManifests \cup {VirtualizationBoot}

MCFlags == Kind \cup {"initrd"}
=============================================================================
