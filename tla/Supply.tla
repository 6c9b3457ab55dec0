-------------------------------- MODULE Supply --------------------------------
(***************************************************************************)
(* From a release repository into releases/<version>: lkit update finds    *)
(* the target version, asks, resolves the release again, downloads and     *)
(* checks its files into .install-<version>.tmp, lays the pages of the     *)
(* chosen frontend over it and renames the directory into place.  The      *)
(* repository is the bucket of Publisher, written while it is read, or a   *)
(* GitHub release whose files its maintainers may upload again.            *)
(*                                                                         *)
(* The switch to the new release is module Switch; here a release that is  *)
(* in place is simply taken into use.                                      *)
(***************************************************************************)
EXTENDS Publisher

CONSTANTS
  Providers,       \* the kinds of repository in use: "http", "github", or
                   \* "none" for publishers without a client
  Writers,         \* for each of these, the publishers at work
  GithubReleases,  \* what may be found on GitHub
  Frontends,       \* custom frontend sources
  SourceOf(_),     \* what is found at each of them
  MaxAttempts,     \* attempts of one request; 3 in the code
  MaxReuploads,
  MaxCrashes

ASSUME ProvidersAssumption ==
  Providers \subseteq {"http", "github", "none"} /\ Writers \in [Providers -> SUBSET Publishers]
ASSUME ClientBounds == MaxAttempts \in Nat \ {0} /\ MaxReuploads \in Nat /\ MaxCrashes \in Nat

(* The bucket holds a backend for this architecture and the pages; no      *)
(* build is called like what stands for a missing directory.               *)
ASSUME AssetsAssumption == {"x86_64", "static"} \subseteq Assets /\ "absent" \notin Builds
ASSUME FrontendsAssumption == None \notin Frontends /\ "official" \notin Frontends

(* A static.zip is a finite list of entries. *)
ASSUME ArchivesAssumption ==
  \A b \in Builds : Len(ArchiveOf(b)) \in Nat /\ DOMAIN ArchiveOf(b) = 1..Len(ArchiveOf(b))

VARIABLES
  provider,        \* the repository lkit is set up with
  github,          \* the release on GitHub
  client,          \* lkit update
  tmp,             \* releases/.install-<version>.tmp
  releases,        \* releases/<version>
  active,          \* the version in use
  reuploads, crashes

vars == <<pubVars, provider, github, client, tmp, releases, active, reuploads, crashes>>

Official == "official"
Names == {"server", "static"}
Dir(server, zip, pages, old) == [server |-> server, zip |-> zip, pages |-> pages, old |-> old]
Empty == Dir(None, None, None, None)
NoDir == Dir("absent", None, None, None)

(* A release on GitHub as its API describes it.  The checksum file of a    *)
(* release is about one build, though it may leave files out.              *)
Githubs == [version : Versions, canonical : BOOLEAN, tags : SUBSET {"v", "bare"}, draft : BOOLEAN,
            prerelease : BOOLEAN, twice : SUBSET Names, files : [Names -> Builds \cup {None}],
            sums : [Names -> Builds \cup {None}]]
OneBuild(sums) == \E b \in Builds : \A n \in Names : sums[n] \in {b, None}
ASSUME GithubAssumption == \A r \in GithubReleases : r \in Githubs /\ OneBuild(r.sums)

-----------------------------------------------------------------------------
(* Unpacking static.zip *)

ExtractStaticArchive(archive, declared) ==
  /\ \A i \in DOMAIN archive :
       LET e == archive[i]
       IN  /\ e.kind \in {"file", "dir"}
           /\ e.under
           /\ \A k \in DOMAIN e.parts : e.parts[k] \notin Unsafe
           /\ e.parts # <<>> \/ e.kind = "dir"
           /\ \A j \in 1..(i - 1) : e.parts # <<>> => archive[j].parts # e.parts
           /\ \A j \in DOMAIN archive :       \* a file is no directory
                archive[j].kind = "file" /\ j # i => ~IsStrictPrefix(archive[j].parts, e.parts)
  /\ Unpacked(archive) <= Limit(declared)
  /\ \E i \in DOMAIN archive : archive[i].kind = "file" /\ archive[i].parts = <<"index.html">>

Clashes(archive) ==
  \E i, j \in DOMAIN archive :
    i # j /\ archive[j].kind = "file" /\ IsStrictPrefix(archive[j].parts, archive[i].parts)

-----------------------------------------------------------------------------
(* The command *)

Resting == [pc |-> "idle", version |-> 0, latest |-> FALSE, want |-> [n \in Names |-> None],
            attempt |-> 0, confirmed |-> FALSE, place |-> "tmp", pages |-> None]
On(pc) == client.pc = pc
Forward(pc) == client' = [client EXCEPT !.pc = pc, !.attempt = 0]
First == IF provider = "http" THEN "descriptor" ELSE "release"

Outside == <<pubVars, provider, github, reuploads, crashes>>

(* A build that fails takes its directory with it. *)
Discard == tmp' = IF client.pc \in {"server", "static", "front", "park", "place", "rename"} /\ client.place = "tmp"
                  THEN [tmp EXCEPT ![client.version] = NoDir] ELSE tmp
Gives == client' = Resting /\ Discard /\ UNCHANGED <<releases, active>>

SupplyInit ==
  /\ PublisherInit
  /\ provider \in Providers
  /\ github \in IF provider = "github" THEN GithubReleases ELSE {CHOOSE r \in GithubReleases : TRUE}
  /\ client = Resting
  /\ tmp = [v \in Versions |-> NoDir]
  /\ releases = [v \in Versions |-> NoDir]
  /\ active = 0
  /\ reuploads = 0 /\ crashes = 0

Update(v) ==
  /\ On("idle") /\ provider # "none"
  /\ client' = [Resting EXCEPT !.pc = First, !.version = v, !.latest = (v = 0)]
  /\ UNCHANGED <<tmp, releases, active, Outside>>

-----------------------------------------------------------------------------
(* The HTTP repository *)

ValidateRepository ==
  /\ On("descriptor")
  /\ IF ~repository THEN Gives
     ELSE Forward(IF client.latest THEN "pointer" ELSE "manifest") /\ UNCHANGED <<tmp, releases, active>>
  /\ UNCHANGED Outside

Latest ==
  /\ On("pointer")
  /\ IF stable = 0 THEN Gives
     ELSE /\ client' = [client EXCEPT !.pc = "manifest", !.attempt = 0, !.version = stable]
          /\ UNCHANGED <<tmp, releases, active>>
  /\ UNCHANGED Outside

(* Once the target is known it is compared, confirmed, and resolved again *)
(* by its number.                                                          *)
Resolved(v, want) ==
  IF client.confirmed
  THEN /\ client' = [client EXCEPT !.pc = "reuse", !.attempt = 0, !.want = want]
       /\ UNCHANGED <<tmp, releases, active>>
  ELSE IF v <= active THEN Gives
  ELSE /\ client' = [client EXCEPT !.pc = "confirm", !.attempt = 0, !.version = v]
       /\ UNCHANGED <<tmp, releases, active>>

ReleaseManifest ==
  /\ On("manifest")
  /\ LET m == manifest[client.version]
     IN  IF m = NoManifest THEN Gives
         ELSE Resolved(client.version, [server |-> m["x86_64"], static |-> m["static"]])
  /\ UNCHANGED Outside

-----------------------------------------------------------------------------
(* GitHub *)

LatestReleaseVersion == ~github.draft /\ ~github.prerelease /\ github.canonical
ReleaseByTag(v) == github.version = v /\ Cardinality(github.tags) = 1 /\ ~github.draft /\ ~github.prerelease
BuildRelease == /\ \A n \in Names : github.files[n] # None /\ github.sums[n] # None
                /\ github.twice = {}

(* The metadata, then SHASUM256sum.txt, which decides what is accepted. *)
GithubRelease ==
  /\ On("release")
  /\ IF (IF client.latest THEN LatestReleaseVersion ELSE ReleaseByTag(client.version)) /\ BuildRelease
     THEN /\ client' = [client EXCEPT !.pc = "sums", !.attempt = 0, !.version = github.version]
          /\ UNCHANGED <<tmp, releases, active>>
     ELSE Gives
  /\ UNCHANGED Outside

ParseChecksums ==
  /\ On("sums")
  /\ Resolved(client.version, github.sums)
  /\ UNCHANGED Outside

(* The maintainers upload a file again, one at a time. *)
Reupload(n, b) ==
  /\ provider = "github" /\ reuploads < MaxReuploads
  /\ reuploads' = reuploads + 1
  /\ \/ github' = [github EXCEPT !.files[n] = b]
     \/ github' = [github EXCEPT !.sums = [k \in Names |-> b]]
  /\ UNCHANGED <<pubVars, provider, client, tmp, releases, active, crashes>>

-----------------------------------------------------------------------------
(* Requests that go wrong *)

Requests == {"descriptor", "pointer", "manifest", "release", "sums", "server", "static", "front"}

(* Mutant: the count starts over. *)
TryAgainForever ==
  /\ client.pc \in Requests
  /\ client' = [client EXCEPT !.attempt = (@ + 1) % MaxAttempts]
  /\ UNCHANGED <<tmp, releases, active, Outside>>

TryAgain ==
  /\ client.pc \in Requests /\ client.attempt < MaxAttempts - 1
  /\ client' = [client EXCEPT !.attempt = @ + 1]
  /\ UNCHANGED <<tmp, releases, active, Outside>>

RequestFails ==
  /\ client.pc \in Requests
  /\ Gives
  /\ UNCHANGED Outside

Confirm ==
  /\ On("confirm")
  /\ \/ client' = [client EXCEPT !.pc = First, !.latest = FALSE, !.confirmed = TRUE]
        /\ UNCHANGED <<tmp, releases, active>>
     \/ Gives
  /\ UNCHANGED Outside

-----------------------------------------------------------------------------
(* The directory of the release *)

(* A backend that travelled compressed cannot be compared any more. *)
Trusted(dir) ==
  /\ dir.server # None /\ dir.pages # None
  /\ dir.zip = client.want["static"]
  /\ provider = "github" => dir.server = client.want["server"]

ReuseExistingRelease ==
  /\ On("reuse")
  /\ LET dir == releases[client.version]
     IN  IF dir = NoDir
         THEN /\ tmp' = [tmp EXCEPT ![client.version] = Empty]
              /\ Forward("server")
              /\ UNCHANGED <<releases, active>>
         ELSE IF Trusted(dir)
              THEN /\ client' = [client EXCEPT !.pc = "front", !.place = "release"]
                   /\ UNCHANGED <<tmp, releases, active>>
              ELSE Gives
  /\ UNCHANGED Outside

Served(n) == IF provider = "github" THEN github.files[n]
             ELSE object[<<client.version, IF n = "server" THEN "x86_64" ELSE "static">>]
Damaged == "damaged"

WriteAssetResponse(n, content) == content = client.want[n]

FetchWebserverAsset(content) ==
  /\ On("server")
  /\ content \in {Served("server"), Damaged}
  /\ IF WriteAssetResponse("server", content)
     THEN /\ tmp' = [tmp EXCEPT ![client.version].server = content]
          /\ Forward("static")
          /\ UNCHANGED <<releases, active>>
     ELSE Gives
  /\ UNCHANGED Outside

FetchStaticAsset(content) ==
  /\ On("static")
  /\ content \in {Served("static"), Damaged}
  /\ IF WriteAssetResponse("static", content) /\ ExtractStaticArchive(ArchiveOf(content), Size(ArchiveOf(content)))
     THEN /\ tmp' = [tmp EXCEPT ![client.version].zip = content, ![client.version].pages = content]
          /\ Forward("front")
          /\ UNCHANGED <<releases, active>>
     ELSE Gives
  /\ UNCHANGED Outside

(* A frontend source is a repository of which only static.zip is needed. *)
HttpStaticArchive(s) == s.descriptor /\ s.stable # 0 /\ s.manifest = s.stable
GithubStaticArchive(s) == ~s.draft /\ ~s.prerelease /\ s.static = 1 /\ s.sums
LatestStaticArchive(f) ==
  IF SourceOf(f).kind = "http" THEN HttpStaticArchive(SourceOf(f)) ELSE GithubStaticArchive(SourceOf(f))

(* The pages of the source that is active now are fetched beside the      *)
(* target; nothing is done for the official ones.                          *)
ApplyFrontend(f) ==
  /\ On("front")
  /\ IF f # Official /\ ~LatestStaticArchive(f) THEN Gives
     ELSE /\ client' = [client EXCEPT !.pc = IF f # Official THEN "park"
                                             ELSE IF client.place = "tmp" THEN "rename" ELSE "done",
                                      !.attempt = 0, !.pages = f]
          /\ UNCHANGED <<tmp, releases, active>>
  /\ UNCHANGED Outside

Target == IF client.place = "tmp" THEN tmp[client.version] ELSE releases[client.version]
Put(dir) == IF client.place = "tmp"
            THEN tmp' = [tmp EXCEPT ![client.version] = dir] /\ UNCHANGED releases
            ELSE releases' = [releases EXCEPT ![client.version] = dir] /\ UNCHANGED tmp

(* Mutant: the old pages are removed before the new ones are in place. *)
ParkStaticDirRemoves ==
  /\ On("park")
  /\ Put([Target EXCEPT !.old = None, !.pages = None])
  /\ Forward("place")
  /\ UNCHANGED <<active, Outside>>

ParkStaticDir ==
  /\ On("park")
  /\ Put([Target EXCEPT !.old = Target.pages, !.pages = None])
  /\ Forward("place")
  /\ UNCHANGED <<active, Outside>>

PlaceStaticDir ==
  /\ On("place")
  /\ Put([Target EXCEPT !.pages = client.pages, !.old = None])
  /\ Forward(IF client.place = "tmp" THEN "rename" ELSE "done")
  /\ UNCHANGED <<active, Outside>>

(* The rename fails: the old pages come back and the command ends. *)
PlaceFails ==
  /\ On("place")
  /\ client' = Resting
  /\ IF client.place = "tmp" THEN tmp' = [tmp EXCEPT ![client.version] = NoDir] /\ UNCHANGED releases
     ELSE Put([Target EXCEPT !.pages = Target.old, !.old = None])
  /\ UNCHANGED <<active, Outside>>

RenameIntoPlace ==
  /\ On("rename")
  /\ releases' = [releases EXCEPT ![client.version] = tmp[client.version]]
  /\ tmp' = [tmp EXCEPT ![client.version] = NoDir]
  /\ Forward("done")
  /\ UNCHANGED <<active, Outside>>

TakeIntoUse ==
  /\ On("done")
  /\ active' = client.version
  /\ client' = Resting
  /\ UNCHANGED <<tmp, releases, Outside>>

Crash ==
  /\ ~On("idle") /\ crashes < MaxCrashes
  /\ client' = Resting
  /\ crashes' = crashes + 1
  /\ UNCHANGED <<tmp, releases, active, pubVars, provider, github, reuploads>>

-----------------------------------------------------------------------------
HttpStep == ValidateRepository \/ Latest \/ ReleaseManifest
GithubStep == GithubRelease \/ ParseChecksums
BuildStep ==
  \/ ReuseExistingRelease
  \/ \E c \in Builds \cup {Damaged} : FetchWebserverAsset(c) \/ FetchStaticAsset(c)
  \/ \E f \in Frontends \cup {Official} : ApplyFrontend(f)
  \/ ParkStaticDir \/ PlaceStaticDir \/ PlaceFails
  \/ RenameIntoPlace \/ TakeIntoUse
ClientStep == HttpStep \/ GithubStep \/ TryAgain \/ RequestFails \/ BuildStep

SupplyNext ==
  \/ /\ \E p \in Writers[provider] : PublisherStep(p)
     /\ UNCHANGED <<provider, github, client, tmp, releases, active, reuploads, crashes>>
  \/ \E v \in Versions \cup {0} : Update(v)
  \/ ClientStep
  \/ Confirm
  \/ \E n \in Names, b \in Builds : Reupload(n, b)
  \/ Crash

SupplySpec == SupplyInit /\ [][SupplyNext]_vars /\ WF_vars(ClientStep)

-----------------------------------------------------------------------------
(* Properties *)

Dirs == [server : Builds \cup {None}, zip : Builds \cup {None},
         pages : Builds \cup Frontends \cup {None}, old : Builds \cup Frontends \cup {None}]

(* Types; a request is tried MaxAttempts times at most. *)
TypeOK ==
  /\ PublisherTypeOK
  /\ client.version \in Versions \cup {0}
  /\ client.attempt \in 0..(MaxAttempts - 1)
  /\ tmp \in [Versions -> Dirs \cup {NoDir}]
  /\ releases \in [Versions -> Dirs \cup {NoDir}]
  /\ active \in Versions \cup {0}

(* The files of an installed release belong together, whatever was         *)
(* uploaded, damaged or uploaded again while they were fetched, and with   *)
(* an HTTP repository they are those of the manifest (write_asset_response,*)
(* reuse_existing_release).                                                *)
InstalledAsDeclared ==
  \A v \in Versions :
    releases[v] # NoDir =>
      /\ releases[v].server # None
      /\ releases[v].server = releases[v].zip
      /\ provider = "http" => manifest[v] # NoManifest /\ releases[v].server = manifest[v]["x86_64"]

(* No failure and no crash takes the pages of an installed release: they   *)
(* are in static/, or next to it in .frontend-old-static.                  *)
PagesKept ==
  \A v \in Versions : releases[v] # NoDir => releases[v].pages # None \/ releases[v].old # None

(* What the publisher lets through, the client can unpack, unless an entry *)
(* lies below a file (validate_static_archive, extract_static_archive).    *)
PublishedUnpacks ==
  \A v \in Versions :
    manifest[v] # NoManifest =>
      LET archive == ArchiveOf(manifest[v]["static"])
      IN  Clashes(archive) \/ ExtractStaticArchive(archive, Size(archive))

(* A release that can be seen is whole, a success report means it is       *)
(* offered, and what the publisher lets through the client can unpack.     *)
PublisherInvariant == TypeOK /\ ManifestsAreWhole /\ PublishedIsOffered /\ PublishedUnpacks

(* The files of an installed release belong together, and no failure takes *)
(* its pages (build_release, replace_static_dir).                          *)
ReleaseInvariant == InstalledAsDeclared /\ PagesKept

(* A confirmed update comes to an end, whatever the network does.          *)
UpdateEnds == client.confirmed ~> ~client.confirmed
==============================================================================
