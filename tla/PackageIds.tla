----------------------------- MODULE PackageIds -----------------------------
(***************************************************************************)
(* The identifiers of packages and artifacts.  They are text, taken apart   *)
(* and put together in four places that have to agree: the node API names   *)
(* what is built, the build service names the artifacts of a build, and the *)
(* Docker and Maven registries name what a client pulls.                    *)
(*                                                                         *)
(* A text is a sequence of tokens: the separators "/", ":", "@" and "." and *)
(* the names, tags, digests and versions between them.  A digest, with its  *)
(* prefix sha256:, is one token.                                            *)
(***************************************************************************)
EXTENDS Naturals, Sequences, FiniteSetsExt

CONSTANT Digests   \* the tokens that start with sha256:

\* The text before the last occurrence of the token, rfind.
BeforeLast(text, token) == SubSeq(text, 1, Max({i \in DOMAIN text : text[i] = token}) - 1)

Join(pieces, separator) ==
  [i \in 1 .. 2 * Len(pieces) - 1 |-> IF i % 2 = 1 THEN pieces[(i + 1) \div 2] ELSE separator]

\* Both the node API and the registry complete the name of an official image.
WithLibrary(text) == IF "/" \in Range(text) THEN text ELSE <<"library", "/">> \o text

-----------------------------------------------------------------------------
(* The node API: swarm.rs                                                  *)

\* get_package_specific_id of the node API; a GAV is taken as it is.
docker_package_id(image) == WithLibrary(image)

-----------------------------------------------------------------------------
(* The build service: what an artifact of a build is called                *)

get_docker_image_name(id) ==
  IF "@" \in Range(id) THEN BeforeLast(id, "@")
  ELSE IF ":" \in Range(id) THEN BeforeLast(id, ":")
  ELSE id

\* A manifest, known by the tag and by its hash.
manifest_ids(id, hash) ==
  IF "@" \in Range(id) THEN <<id>>
  ELSE <<id, get_docker_image_name(id) \o <<"@", hash>>>>

\* Mutant: the blob belongs to the tag and not to the image.
blob_ids_of_tag(id, digest) == <<id \o <<"@", digest>>>>

\* Any other file is a blob, called by its digest and an extension.
blob_ids(id, digest) == <<get_docker_image_name(id) \o <<"@", digest>>>>

maven_ids(id, file) ==
  <<[i \in DOMAIN id |-> IF id[i] = ":" THEN "/" ELSE id[i]] \o <<"/", file>>>>

\* process_artifact_urls, for one url.
artifact_specific_ids(type, id, url) ==
  CASE type = "Docker" /\ url.kind = "manifest" -> manifest_ids(id, url.name)
    [] type = "Docker" /\ url.kind = "file" -> blob_ids(id, url.name)
    [] type = "Maven2" -> maven_ids(id, url.name)

-----------------------------------------------------------------------------
(* The registries: what a client asks for                                  *)

\* manifests.rs, for /v2/library/{name}/manifests/{tag}
manifest_artifact_id(name, tag) ==
  WithLibrary(IF tag \in Digests THEN <<name, "@", tag>> ELSE <<name, ":", tag>>)

\* blobs.rs, for /v2/library/{name}/blobs/{digest}
blob_artifact_id(name, digest) == WithLibrary(<<name, "@", digest>>)

\* maven_artifacts.rs, for the pieces of the path below /maven2
ValidMavenPath(pieces) == Len(pieces) >= 4
MavenCoordinates(pieces) ==
  LET n == Len(pieces)
  IN  [group |-> Join(SubSeq(pieces, 1, n - 3), "."), artifact |-> pieces[n - 2],
       version |-> pieces[n - 1], file |-> pieces[n]]

maven_package_id(pieces) ==
  LET m == MavenCoordinates(pieces) IN m.group \o <<":", m.artifact, ":", m.version>>
maven_artifact_id(pieces) ==
  LET m == MavenCoordinates(pieces)
  IN  m.group \o <<"/", m.artifact, "/", m.version, "/", m.file>>
=============================================================================
