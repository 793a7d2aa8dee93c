----------------------------- MODULE MCNodeApi -----------------------------
(* Instances of NodeApi for TLC: one Docker image with a manifest and a blob, *)
(* one Maven package with a file, an image the pipeline cannot build.         *)
EXTENDS NodeApi, TLC

Alpine == <<"alpine", ":", "3">>
Codec == <<"org", ".", "codec", ":", "codec", ":", "1">>

OneImage ==
  (<<"library", "/">> \o Alpine) :> {[kind |-> "manifest", name |-> "hash"], [kind |-> "file", name |-> "layer"]}
AllPackages == OneImage @@ (Codec :> {[kind |-> "file", name |-> "codec.jar"]})

Command(name, arg) == [name |-> name, arg |-> arg]
PullByTag == Command("pull manifest", <<"alpine", "3">>)

ImagePulls ==
  Alpine :> {PullByTag, Command("head manifest", <<"alpine", "3">>),
             Command("pull manifest", <<"alpine", "hash">>), Command("pull blob", <<"alpine", "layer">>)}
AllPulls == ImagePulls @@ (Codec :> {Command("pull maven", <<"org", "codec", "codec", "1", "codec.jar">>)})
TagPull == Alpine :> {PullByTag}

Pulls == UNION {AllPulls[p] : p \in DOMAIN AllPulls}
           \cup {Command("pull maven", <<"org", "codec", "codec.jar">>)}
Builds == {Command("build docker", Alpine), Command("build docker", <<"nobody", "/", "image", ":", "1">>),
           Command("post maven build", Codec)}
BadBuild == {Command("build maven", Codec)}
Others == {Command("authorize", "self"), Command("authorize", "garbled"), Command("build status", 1),
           Command("inspect docker", Alpine), Command("inspect maven", Codec),
           Command("ping", 0), Command("list", 0), Command("status", 0)}

ImageCommands == {PullByTag, Command("pull blob", <<"alpine", "layer">>)}
AllCommands == Pulls \cup Builds \cup BadBuild \cup Others
=============================================================================
