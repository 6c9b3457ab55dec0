------------------------------ MODULE Publisher ------------------------------
(***************************************************************************)
(* lkit-publish: a release is put into an S3 bucket that lkit reads over   *)
(* HTTP.  The bucket is shared: several publishers may run at once, a      *)
(* request may take effect although its answer is lost, and a publisher    *)
(* may die anywhere.  Assets and manifests are written only where there is *)
(* nothing yet; the stable pointer is replaced only if it is still what    *)
(* was read, at most MaxTries times.                                       *)
(*                                                                         *)
(* An asset is known by the build it comes from: equal builds have equal   *)
(* sizes and digests, different builds differ in both.                     *)
(***************************************************************************)
EXTENDS Naturals, Sequences, FiniteSets, FiniteSetsExt, SequencesExt

CONSTANTS
  Publishers,
  Versions,       \* a set of positive numbers, in the order of the versions
  Builds,
  Order,          \* the assets of a release as they are uploaded: the
                  \* backends of two architectures and static.zip
  ArchiveOf(_),   \* the entries of static.zip of a build
  MaxTries,       \* attempts on the stable pointer; 3 in the code
  MaxPublishes,   \* how often each publisher is started
  MaxBytes        \* the limit on what may be unpacked; 1 GiB in the code

ASSUME VersionsAssumption == Versions \subseteq Nat \ {0}
ASSUME OrderAssumption == Len(Order) \in Nat \ {0} /\ DOMAIN Order = 1..Len(Order)
ASSUME BuildsAssumption == "none" \notin Builds
ASSUME BoundsAssumption == MaxTries \in Nat /\ MaxPublishes \in [Publishers -> Nat]

VARIABLES
  repository,     \* repository.json is there
  object,         \* releases/<version>/<asset>: the build it comes from
  manifest,       \* releases/<version>/manifest.json: the build of each asset
  stable,         \* channels/stable.json: a version, or 0 when it is missing
  pub,            \* the publishers
  published,      \* versions some publisher reported as published
  publishes

bucket == <<repository, object, manifest, stable>>
pubVars == <<repository, object, manifest, stable, pub, published, publishes>>

None == "none"
Assets == {Order[i] : i \in DOMAIN Order}
NoManifest == [a \in Assets |-> None]

-----------------------------------------------------------------------------
(* What may be published *)

Entry(kind, under, parts, size) == [kind |-> kind, under |-> under, parts |-> parts, size |-> size]
Unsafe == {".", "..", "c:", "a\\b"}

Limit(size) == Min({20 * size, MaxBytes})
Size(archive) == Len(archive)
Unpacked(archive) ==
  FoldSeq(LAMBDA e, n : IF e.kind = "file" THEN n + e.size ELSE n, 0, archive)

ValidateStaticArchive(archive) ==
  /\ \A i \in DOMAIN archive :
       LET e == archive[i]
       IN  /\ e.kind \in {"file", "dir"} /\ e.under
           /\ \A k \in DOMAIN e.parts : e.parts[k] \notin Unsafe
           /\ e.parts = <<>> => e.kind = "dir"
  /\ \A i, j \in DOMAIN archive : i # j /\ archive[i].parts # <<>> => archive[i].parts # archive[j].parts
  /\ Unpacked(archive) <= Limit(Size(archive))
  /\ \E i \in DOMAIN archive : archive[i].kind = "file" /\ archive[i].parts = <<"index.html">>

CollectAssets(b) == ValidateStaticArchive(ArchiveOf(b))

-----------------------------------------------------------------------------
(* One publisher.  Every action is one request to the bucket. *)

Idle == [pc |-> "idle", version |-> 0, build |-> None, i |-> 1, seen |-> 0, tries |-> 0]
At(p, pc) == pub[p].pc = pc
Go(p, pc) == pub' = [pub EXCEPT ![p].pc = pc]
Stops(p) == pub' = [pub EXCEPT ![p] = Idle]
Key(p) == <<pub[p].version, Order[pub[p].i]>>

PublisherInit ==
  /\ repository = FALSE
  /\ object = [k \in Versions \X Assets |-> None]
  /\ manifest = [v \in Versions |-> NoManifest]
  /\ stable = 0
  /\ pub = [p \in Publishers |-> Idle]
  /\ published = {}
  /\ publishes = [p \in Publishers |-> 0]

Publish(p, v, b) ==
  /\ At(p, "idle") /\ publishes[p] < MaxPublishes[p]
  /\ CollectAssets(b)
  /\ pub' = [pub EXCEPT ![p] = [Idle EXCEPT !.pc = "repository", !.version = v, !.build = b]]
  /\ publishes' = [publishes EXCEPT ![p] = @ + 1]
  /\ UNCHANGED <<bucket, published>>

EnsureRepository(p) ==
  /\ At(p, "repository")
  /\ repository' = TRUE
  /\ Go(p, "exists")
  /\ UNCHANGED <<object, manifest, stable, published, publishes>>

ManifestExists(p) ==
  /\ At(p, "exists")
  /\ IF manifest[pub[p].version] # NoManifest THEN Stops(p) ELSE Go(p, "head")
  /\ UNCHANGED <<bucket, published, publishes>>

NextAsset(p) ==
  pub' = [pub EXCEPT ![p].pc = IF pub[p].i = Len(Order) THEN "manifest" ELSE "head",
                     ![p].i = IF pub[p].i = Len(Order) THEN 1 ELSE @ + 1]

(* Mutant: an asset that is already there is taken for the same. *)
HeadAssetAny(p) ==
  /\ At(p, "head")
  /\ IF object[Key(p)] = None THEN Go(p, "put") ELSE NextAsset(p)
  /\ UNCHANGED <<bucket, published, publishes>>

(* An asset that is already there is taken over if it is the same. *)
HeadAsset(p) ==
  /\ At(p, "head")
  /\ IF object[Key(p)] = None THEN Go(p, "put")
     ELSE IF object[Key(p)] = pub[p].build THEN NextAsset(p)
     ELSE Stops(p)
  /\ UNCHANGED <<bucket, published, publishes>>

(* Mutant: an asset is put without If-None-Match. *)
PutAssetReplaces(p) ==
  /\ At(p, "put")
  /\ object' = [object EXCEPT ![Key(p)] = pub[p].build]
  /\ NextAsset(p)
  /\ UNCHANGED <<repository, manifest, stable, published, publishes>>

PutAsset(p) ==
  /\ At(p, "put")
  /\ IF object[Key(p)] = None
     THEN /\ object' = [object EXCEPT ![Key(p)] = pub[p].build]
          /\ NextAsset(p)
     ELSE /\ Stops(p)
          /\ UNCHANGED object
  /\ UNCHANGED <<repository, manifest, stable, published, publishes>>

RepositoryAssets(p) == [a \in Assets |-> pub[p].build]

PutManifest(p) ==
  /\ At(p, "manifest")
  /\ IF manifest[pub[p].version] = NoManifest
     THEN /\ manifest' = [manifest EXCEPT ![pub[p].version] = RepositoryAssets(p)]
          /\ Go(p, "read")
     ELSE /\ Stops(p)
          /\ UNCHANGED manifest
  /\ UNCHANGED <<repository, object, stable, published, publishes>>

(* A release older than stable is published without moving the pointer. *)
ReadStable(p) ==
  /\ At(p, "read")
  /\ IF pub[p].tries = MaxTries THEN Stops(p) /\ UNCHANGED published
     ELSE IF stable >= pub[p].version
          THEN Stops(p) /\ published' = published \cup {pub[p].version}
          ELSE /\ pub' = [pub EXCEPT ![p].pc = "advance", ![p].seen = stable]
               /\ UNCHANGED published
  /\ UNCHANGED <<bucket, publishes>>

UpdateStable(p) ==
  /\ At(p, "advance")
  /\ IF stable = pub[p].seen
     THEN /\ stable' = pub[p].version
          /\ published' = published \cup {pub[p].version}
          /\ Stops(p)
     ELSE /\ pub' = [pub EXCEPT ![p].pc = "read", ![p].tries = @ + 1]
          /\ UNCHANGED <<stable, published>>
  /\ UNCHANGED <<repository, object, manifest, publishes>>

(* The request fails, or the publisher dies; a write may have been done. *)
PublisherFails(p) ==
  /\ pub[p].pc # "idle"
  /\ Stops(p)
  /\ \/ UNCHANGED bucket
     \/ At(p, "put") /\ object[Key(p)] = None
        /\ object' = [object EXCEPT ![Key(p)] = pub[p].build]
        /\ UNCHANGED <<repository, manifest, stable>>
     \/ At(p, "manifest") /\ manifest[pub[p].version] = NoManifest
        /\ manifest' = [manifest EXCEPT ![pub[p].version] = RepositoryAssets(p)]
        /\ UNCHANGED <<repository, object, stable>>
     \/ At(p, "advance") /\ stable = pub[p].seen
        /\ stable' = pub[p].version
        /\ UNCHANGED <<repository, object, manifest>>
  /\ UNCHANGED <<published, publishes>>

PublisherStep(p) ==
  \/ \E v \in Versions, b \in Builds : Publish(p, v, b)
  \/ EnsureRepository(p) \/ ManifestExists(p)
  \/ HeadAsset(p) \/ PutAsset(p)
  \/ PutManifest(p)
  \/ ReadStable(p) \/ UpdateStable(p)
  \/ PublisherFails(p)

PublisherNext == \E p \in Publishers : PublisherStep(p)
PublisherSpec == PublisherInit /\ [][PublisherNext]_pubVars

-----------------------------------------------------------------------------
(* Properties *)

Manifests == [Assets -> Builds]
PCs == {"idle", "repository", "exists", "head", "put", "manifest", "read", "advance"}

(* Types; the pointer is tried MaxTries times at most. *)
PublisherTypeOK ==
  /\ repository \in BOOLEAN
  /\ object \in [Versions \X Assets -> Builds \cup {None}]
  /\ manifest \in [Versions -> Manifests \cup {NoManifest}]
  /\ stable \in Versions \cup {0}
  /\ pub \in [Publishers -> [pc : PCs, version : Versions \cup {0}, build : Builds \cup {None},
                             i : DOMAIN Order, seen : Versions \cup {0}, tries : 0..MaxTries]]
  /\ \A p \in Publishers : pub[p].pc # "idle" => pub[p].version \in Versions /\ pub[p].build \in Builds
  /\ published \subseteq Versions
  /\ publishes \in [Publishers -> Nat] /\ \A p \in Publishers : publishes[p] <= MaxPublishes[p]

(* A release that can be seen is whole: with its manifest in the bucket,   *)
(* every asset is there and is the one the manifest describes, whoever     *)
(* else was uploading the same version (put_asset, put_json_if_absent).    *)
ManifestsAreWhole ==
  \A v \in Versions, a \in Assets : manifest[v] # NoManifest => object[<<v, a>>] = manifest[v][a]

(* What installers were offered never changes: no asset, no manifest is    *)
(* replaced, and the stable pointer moves only to a higher version that is *)
(* complete (update_stable).                                               *)
OfferOnlyGrows ==
  [][/\ \A k \in Versions \X Assets : object[k] # None => object'[k] = object[k]
     /\ \A v \in Versions : manifest[v] # NoManifest => manifest'[v] = manifest[v]
     /\ stable' # stable => stable' > stable /\ manifest[stable'] # NoManifest]_pubVars

(* A publisher that reports success has left the stable pointer at its     *)
(* version or at a higher one.                                             *)
PublishedIsOffered ==
  \A v \in published : manifest[v] # NoManifest /\ stable >= v
==============================================================================
