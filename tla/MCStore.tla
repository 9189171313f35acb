------------------------------- MODULE MCStore -------------------------------
(***************************************************************************)
(* Instances of Store for TLC.                                              *)
(*                                                                         *)
(* Two architectures share the config blob; app is the multi-arch image of *)
(* the README, base an image pulled from a registry.                       *)
(***************************************************************************)
EXTENDS StoreRefinement, TLC

CONSTANTS cfg, amd, arm, base, rootA, rootB, app, solo

MCDigest == {cfg, amd, arm, base, rootA, rootB, app, solo}

MCParts ==
    amd :> <<cfg, rootA>> @@ arm :> <<cfg, rootB>> @@ base :> <<cfg, rootA>>

MCSubManifests == app :> {amd, arm} @@ solo :> {base}

NoPin == <<>>

BuildApp(spell(_)) ==
    [do |-> "build", index |-> app, ref |-> spell("app"),
     archs |-> << [img |-> amd, ref |-> spell("app-amd64")],
                  [img |-> arm, ref |-> spell("app-arm64")] >>]

BuildSolo(n, arch) ==
    [do |-> "build", index |-> solo, ref |-> Canonical(n),
     archs |-> << [img |-> base, ref |-> Canonical(arch)] >>]

TagCmd(src, dst) == [do |-> "tag", src |-> src, ref |-> dst]

DeleteCmd(r) == [do |-> "delete", ref |-> r]

InspectCmd(r) == [do |-> "inspect", ref |-> r]

Pull(d, r) == [do |-> "pull", img |-> d, ref |-> r]

(* One user after another: every kind of command and of reference. *)
SerialNames == {"app", "app-amd64", "app-arm64", "web", "web@base"}

\* A reference pinned to a digest, repository@digest.
MCPin == "web@base" :> base

SerialCommands ==
    { BuildApp(Canonical), BuildApp(Familiar),
      Pull(base, Canonical("web")), Pull(base, Canonical("app")),
      TagCmd(Familiar("app"), Canonical("web")),
      TagCmd(EmptyRef, Canonical("app")),
      TagCmd(Malformed, Canonical("app")),
      Pull(base, Canonical("web@base")),
      TagCmd(Familiar("web@base"), Canonical("app")),
      DeleteCmd(Familiar("app")),
      DeleteCmd(DigestRef(base)), DeleteCmd(DigestRef(app)),
      InspectCmd(Canonical("app")) }

(* Two users at once. *)
TwoProcs == Permutations(Proc)

ConcurrentNames == {"app", "app-amd64", "web"}

ConcurrentCommands ==
    { BuildSolo("app", "app-amd64"),
      Pull(amd, Canonical("app")),
      TagCmd(Familiar("app"), Canonical("web")),
      DeleteCmd(DigestRef(base)) }

(* A store with one image in it, as a pull of amd under the name app left it. *)
StockedInit ==
    /\ blobs = WrittenBlobs(amd)
    /\ LET ms == << ImageDescriptor(amd), TaggedDescriptor(ImageDescriptor(amd), "app") >>
       IN  index = [exists |-> TRUE, manifests |-> ms, size |-> Bytes(ms)]
    /\ pc = [p \in Proc |-> "idle"]
    /\ todo = [p \in Proc |-> <<>>]
    /\ pending = [p \in Proc |-> <<>>]
    /\ source = [p \in Proc |-> NoDescriptor]
    /\ mem = [p \in Proc |-> <<>>]
    /\ started = 0
    /\ told = [k \in Key |-> IF k \in {"app", amd} THEN amd ELSE Unknown]

StockedCalmSpec == StockedInit /\ [][CalmNext]_vars /\ \A p \in Proc : WF_vars(Step(p))

RenameCommands ==
    { TagCmd(Familiar("app"), Canonical("web")), DeleteCmd(DigestRef(base)) }

RemovalCommands ==
    { TagCmd(Familiar("app"), Canonical("web")), DeleteCmd(DigestRef(amd)) }
=============================================================================
