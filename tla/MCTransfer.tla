----------------------------- MODULE MCTransfer ------------------------------
(***************************************************************************)
(* Instances of Transfer for TLC: app is a multi-arch image, solo the next  *)
(* version of it with one architecture only.                               *)
(***************************************************************************)
EXTENDS Transfer, TLC

CONSTANTS cfg, rootA, rootB, amd, arm, app, solo

MCImage == {amd, arm, app, solo}

MCIndex == {app, solo}

MCParts == amd :> <<cfg, rootA>> @@ arm :> <<cfg, rootB>>

MCManifests ==
    app :> << [img |-> amd, arch |-> "amd64"], [img |-> arm, arch |-> "arm64"] >>
        @@ solo :> << [img |-> arm, arch |-> "amd64"] >>

MCRequires == app :> {amd, arm} @@ solo :> {arm} @@ amd :> {} @@ arm :> {}

MCLabel == {"app", "app-amd64", "app-arm64"}

\* A reference with a suffix is never pushed as an index.
MCSubRef ==
    [x \in MCLabel \X {"amd64", "arm64"} |->
        IF x[2] = "amd64" THEN "app-amd64" ELSE "app-arm64"]

MCLocalTags == "app" :> app @@ "app-amd64" :> amd @@ "app-arm64" :> arm

MCCommands ==
    { Push("app", TRUE), Push("app", FALSE),
      Pull("app", NoPlatform), Pull("app", "arm64"), Pull("app-arm64", NoPlatform) }

MCRetags == {<<"app", app>>, <<"app", solo>>}

MCDoomed == {arm}

TwoClients == Permutations(Client)
=============================================================================
