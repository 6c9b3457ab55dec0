---------------------------- MODULE SupplyProofs ----------------------------
(***************************************************************************)
(* Proofs about Publisher and Supply, for any publishers, versions, builds *)
(* and frontends, any number of attempts, failures, crashes and uploads:   *)
(* what is published stays and can be unpacked, and what is installed      *)
(* belongs together.                                                       *)
(***************************************************************************)
EXTENDS Supply, TLAPS

-----------------------------------------------------------------------------
(* The publishers alone *)

(* What a publisher has read of the pointer is older than its release, and *)
(* it has tries left.                                                      *)
TriesInv ==
  \A p \in Publishers : At(p, "advance") => pub[p].seen < pub[p].version /\ pub[p].tries < MaxTries

(* The assets of a publisher's build that are in the bucket: those before  *)
(* the one it is at, and all of them once it writes the manifest.          *)
UploadedInv ==
  \A p \in Publishers : \A j \in DOMAIN Order :
    At(p, "manifest") \/ (pub[p].pc \in {"head", "put"} /\ j < pub[p].i)
      => object[<<pub[p].version, Order[j]>>] = pub[p].build

(* It begins with the first asset. *)
StartInv ==
  \A p \in Publishers : pub[p].pc \in {"repository", "exists"} => pub[p].i = 1

(* A publisher that turns to the pointer has its manifest in the bucket. *)
ListedInv ==
  \A p \in Publishers : pub[p].pc \in {"read", "advance"} => manifest[pub[p].version] # NoManifest

PubTypes ==
  [pc : PCs, version : Versions \cup {0}, build : Builds \cup {None},
   i : DOMAIN Order, seen : Versions \cup {0}, tries : 0..MaxTries]

PublisherInv == PublisherTypeOK /\ TriesInv /\ UploadedInv /\ StartInv /\ ListedInv /\ ManifestsAreWhole

USE DEF None

-----------------------------------------------------------------------------
LEMMA VersionOrder == \A v \in Versions : v \in Nat /\ v > 0
  BY VersionsAssumption

LEMMA FirstAsset == 1 \in DOMAIN Order /\ Order[1] \in Assets /\ Assets # {}
  BY OrderAssumption DEF Assets

(* RepositoryAssets: the manifest of a build is a manifest and not the     *)
(* missing one.                                                            *)
LEMMA ManifestOfBuild ==
  ASSUME NEW b \in Builds
  PROVE  [a \in Assets |-> b] \in Manifests /\ [a \in Assets |-> b] # NoManifest
<1>1. PICK a \in Assets : TRUE  BY FirstAsset
<1>2. [x \in Assets |-> b][a] # NoManifest[a]  BY BuildsAssumption DEF NoManifest
<1> QED  BY <1>2 DEF Manifests

LEMMA IdleType == Idle \in PubTypes /\ Idle.pc = "idle"
  BY OrderAssumption, BoundsAssumption, FirstAsset DEF Idle, PubTypes, PCs

LEMMA InitInv == PublisherInit => PublisherInv
<1> SUFFICES ASSUME PublisherInit PROVE PublisherInv  OBVIOUS
<1>1. pub \in [Publishers -> PubTypes] /\ \A p \in Publishers : pub[p].pc = "idle"
  BY IdleType DEF PublisherInit
<1>2. object \in [Versions \X Assets -> Builds \cup {None}]
  BY DEF PublisherInit
<1>3. manifest \in [Versions -> Manifests \cup {NoManifest}] /\ \A v \in Versions : manifest[v] = NoManifest
  BY DEF PublisherInit
<1>4. publishes \in [Publishers -> Nat] /\ \A p \in Publishers : publishes[p] <= MaxPublishes[p]
  BY BoundsAssumption DEF PublisherInit
<1>5. repository \in BOOLEAN /\ stable \in Versions \cup {0} /\ published \subseteq Versions
  BY DEF PublisherInit
<1>6. PublisherTypeOK
  BY <1>1, <1>2, <1>3, <1>4, <1>5 DEF PublisherTypeOK, PubTypes
<1>7. ManifestsAreWhole
  BY <1>3 DEF ManifestsAreWhole
<1>8. TriesInv /\ UploadedInv /\ StartInv /\ ListedInv
  BY <1>1 DEF TriesInv, UploadedInv, StartInv, ListedInv, At
<1> QED  BY <1>6, <1>7, <1>8 DEF PublisherInv

-----------------------------------------------------------------------------
(* What a step does to the bucket and to its own publisher, and that this  *)
(* is enough for the invariant.                                            *)

Kept ==
  /\ \A k \in Versions \X Assets : object[k] # None => object'[k] = object[k]
  /\ \A v \in Versions : manifest[v] # NoManifest => manifest'[v] = manifest[v]

NewManifestsWhole ==
  \A v \in Versions : manifest'[v] # manifest[v] =>
    \A a \in Assets : object'[<<v, a>>] = manifest'[v][a]

BucketTypes ==
  /\ repository' \in BOOLEAN
  /\ object' \in [Versions \X Assets -> Builds \cup {None}]
  /\ manifest' \in [Versions -> Manifests \cup {NoManifest}]
  /\ stable' \in Versions \cup {0}
  /\ published' \subseteq Versions
  /\ publishes' \in [Publishers -> Nat] /\ \A q \in Publishers : publishes'[q] <= MaxPublishes[q]

(* The publisher becomes r, and the invariant holds of r. *)
Becomes(p, r) ==
  /\ r \in PubTypes
  /\ pub' = [pub EXCEPT ![p] = r]
  /\ r.pc # "idle" => r.version \in Versions /\ r.build \in Builds
  /\ r.pc = "advance" => r.seen < r.version /\ r.tries < MaxTries
  /\ \A j \in DOMAIN Order :
       r.pc = "manifest" \/ (r.pc \in {"head", "put"} /\ j < r.i)
         => object'[<<r.version, Order[j]>>] = r.build
  /\ r.pc \in {"repository", "exists"} => r.i = 1
  /\ r.pc \in {"read", "advance"} => manifest'[r.version] # NoManifest

LEMMA StepKeepsInv ==
  ASSUME PublisherInv, NEW p \in Publishers, NEW r, Becomes(p, r), Kept, NewManifestsWhole, BucketTypes
  PROVE  PublisherInv'
<1>1. pub \in [Publishers -> PubTypes]
  BY DEF PublisherInv, PublisherTypeOK, PubTypes
<1>2. pub' \in [Publishers -> PubTypes] /\ pub'[p] = r /\ \A q \in Publishers : q # p => pub'[q] = pub[q]
  BY <1>1 DEF Becomes
<1>3. \A q \in Publishers : pub'[q].pc # "idle" => pub'[q].version \in Versions /\ pub'[q].build \in Builds
  BY <1>2 DEF Becomes, PublisherInv, PublisherTypeOK
<1>4. PublisherTypeOK'
  BY <1>2, <1>3 DEF PublisherTypeOK, BucketTypes, PubTypes
<1>5. TriesInv'
  BY <1>2 DEF PublisherInv, TriesInv, Becomes, At
<1>6. UploadedInv'
  <2> SUFFICES ASSUME NEW q \in Publishers, NEW j \in DOMAIN Order,
                      pub'[q].pc = "manifest" \/ (pub'[q].pc \in {"head", "put"} /\ j < pub'[q].i)
               PROVE  object'[<<pub'[q].version, Order[j]>>] = pub'[q].build
    BY DEF UploadedInv, At
  <2>1. CASE q = p  BY <2>1, <1>2 DEF Becomes
  <2>2. CASE q # p
    <3>1. pub'[q] = pub[q] /\ pub[q].version \in Versions /\ pub[q].build \in Builds
      BY <2>2, <1>2, <1>3
    <3>2. object[<<pub[q].version, Order[j]>>] = pub[q].build
      BY <3>1 DEF PublisherInv, UploadedInv, At
    <3>3. <<pub[q].version, Order[j]>> \in Versions \X Assets
      BY <3>1 DEF Assets
    <3> QED  BY <3>1, <3>2, <3>3, BuildsAssumption DEF Kept
  <2> QED  BY <2>1, <2>2
<1>7. ListedInv'
  <2> SUFFICES ASSUME NEW q \in Publishers, pub'[q].pc \in {"read", "advance"}
               PROVE  manifest'[pub'[q].version] # NoManifest
    BY DEF ListedInv, NoManifest, Assets
  <2>1. CASE q = p  BY <2>1, <1>2 DEF Becomes
  <2>2. CASE q # p  BY <2>2, <1>2, <1>3 DEF PublisherInv, ListedInv, Kept
  <2> QED  BY <2>1, <2>2
<1>8. ManifestsAreWhole'
  <2> SUFFICES ASSUME NEW v \in Versions, NEW a \in Assets, manifest'[v] # NoManifest
               PROVE  object'[<<v, a>>] = manifest'[v][a]
    BY DEF ManifestsAreWhole, NoManifest, Assets
  <2>1. CASE manifest'[v] # manifest[v]  BY <2>1 DEF NewManifestsWhole
  <2>2. CASE manifest'[v] = manifest[v]
    <3>1. object[<<v, a>>] = manifest[v][a]
      BY <2>2 DEF PublisherInv, ManifestsAreWhole
    <3>2. manifest[v][a] \in Builds
      BY <2>2 DEF PublisherInv, PublisherTypeOK, Manifests
    <3> QED  BY <2>2, <3>1, <3>2, BuildsAssumption DEF Kept
  <2> QED  BY <2>1, <2>2
<1>9. StartInv'
  BY <1>2 DEF PublisherInv, StartInv, Becomes
<1> QED  BY <1>4, <1>5, <1>6, <1>7, <1>8, <1>9 DEF PublisherInv

-----------------------------------------------------------------------------
(* Every step of a publisher is of that kind. *)

Raises ==
  stable' # stable => /\ stable' \in Versions /\ stable' > stable
                      /\ manifest[stable'] # NoManifest

Good(p) == (\E r : Becomes(p, r)) /\ Kept /\ NewManifestsWhole /\ BucketTypes /\ Raises

LEMMA Stopped ==
  ASSUME NEW p \in Publishers, Stops(p)  PROVE  Becomes(p, Idle)
  BY IdleType DEF Becomes, Stops

LEMMA BucketSame ==
  ASSUME PublisherInv, UNCHANGED bucket
  PROVE  /\ Kept /\ NewManifestsWhole /\ Raises
         /\ repository' = repository /\ object' = object /\ manifest' = manifest /\ stable' = stable
  BY DEF bucket, Kept, NewManifestsWhole, Raises

(* PutAsset, also when its answer is lost: the asset that was missing is   *)
(* there, and no other asset changed.                                      *)
LEMMA AssetWritten ==
  ASSUME PublisherInv, NEW p \in Publishers, pub[p].pc = "put", object[Key(p)] = None,
         object' = [object EXCEPT ![Key(p)] = pub[p].build]
  PROVE  /\ object' \in [Versions \X Assets -> Builds \cup {None}]
         /\ \A k \in Versions \X Assets : object[k] # None => object'[k] = object[k]
         /\ object'[Key(p)] = pub[p].build
<1>1. Key(p) \in Versions \X Assets /\ pub[p].build \in Builds
  BY DEF PublisherInv, PublisherTypeOK, Key, Assets
<1>2. object \in [Versions \X Assets -> Builds \cup {None}]
  BY DEF PublisherInv, PublisherTypeOK
<1> QED  BY <1>1, <1>2

(* PutManifest, also when its answer is lost: the manifest names what the  *)
(* publisher has found or put in the bucket.                               *)
LEMMA ManifestWritten ==
  ASSUME PublisherInv, NEW p \in Publishers, pub[p].pc = "manifest",
         manifest[pub[p].version] = NoManifest,
         manifest' = [manifest EXCEPT ![pub[p].version] = RepositoryAssets(p)],
         object' = object
  PROVE  /\ manifest' \in [Versions -> Manifests \cup {NoManifest}]
         /\ manifest'[pub[p].version] # NoManifest
         /\ Kept /\ NewManifestsWhole
<1>1. pub[p].version \in Versions /\ pub[p].build \in Builds
  BY DEF PublisherInv, PublisherTypeOK
<1>2. manifest \in [Versions -> Manifests \cup {NoManifest}]
  BY DEF PublisherInv, PublisherTypeOK
<1>3. RepositoryAssets(p) \in Manifests /\ RepositoryAssets(p) # NoManifest
  BY <1>1, ManifestOfBuild DEF RepositoryAssets
<1>4. \A a \in Assets : object[<<pub[p].version, a>>] = pub[p].build
  BY DEF Assets, PublisherInv, UploadedInv, At
<1>5. Kept
  BY <1>1, <1>2 DEF Kept
<1>6. NewManifestsWhole
  BY <1>1, <1>2, <1>4 DEF NewManifestsWhole, RepositoryAssets
<1> QED  BY <1>1, <1>2, <1>3, <1>5, <1>6

(* UpdateStable, also when its answer is lost. *)
LEMMA PointerRaised ==
  ASSUME PublisherInv, NEW p \in Publishers, pub[p].pc = "advance", stable = pub[p].seen,
         stable' = pub[p].version
  PROVE  Raises /\ stable' \in Versions
<1>1. pub[p].version \in Versions /\ pub[p].seen < pub[p].version
      /\ manifest[pub[p].version] # NoManifest
  BY DEF PublisherInv, PublisherTypeOK, TriesInv, ListedInv, At
<1> QED  BY <1>1, VersionOrder DEF Raises

(* NextAsset: the publisher goes on once the asset it is at is in place. *)
LEMMA Advanced ==
  ASSUME PublisherInv, NEW p \in Publishers, pub[p].pc \in {"head", "put"}, NextAsset(p), Kept,
         object'[Key(p)] = pub[p].build
  PROVE  \E r : Becomes(p, r)
<1> DEFINE r == [pub[p] EXCEPT !.pc = IF pub[p].i = Len(Order) THEN "manifest" ELSE "head",
                               !.i = IF pub[p].i = Len(Order) THEN 1 ELSE pub[p].i + 1]
<1>1. pub \in [Publishers -> PubTypes] /\ pub[p] \in PubTypes
  BY DEF PublisherInv, PublisherTypeOK, PubTypes
<1>2. pub[p].i \in 1..Len(Order) /\ Len(Order) \in Nat \ {0} /\ DOMAIN Order = 1..Len(Order)
  BY <1>1, OrderAssumption DEF PubTypes
<1>3. pub[p].version \in Versions /\ pub[p].build \in Builds
  BY DEF PublisherInv, PublisherTypeOK
<1>4. r \in PubTypes /\ r.version = pub[p].version /\ r.build = pub[p].build
      /\ r.pc \in {"manifest", "head"}
  <2>1. (IF pub[p].i = Len(Order) THEN 1 ELSE pub[p].i + 1) \in DOMAIN Order
    BY <1>2
  <2>2. (IF pub[p].i = Len(Order) THEN "manifest" ELSE "head") \in {"manifest", "head"}
    OBVIOUS
  <2> QED  BY <1>1, <2>1, <2>2 DEF PubTypes, PCs
<1>5. pub' = [pub EXCEPT ![p] = r]
  BY <1>1 DEF NextAsset
<1>6. \A j \in DOMAIN Order : j < pub[p].i => object'[<<pub[p].version, Order[j]>>] = pub[p].build
  <2> SUFFICES ASSUME NEW j \in DOMAIN Order, j < pub[p].i
               PROVE  object'[<<pub[p].version, Order[j]>>] = pub[p].build
    OBVIOUS
  <2>1. object[<<pub[p].version, Order[j]>>] = pub[p].build
    BY DEF PublisherInv, UploadedInv
  <2>2. <<pub[p].version, Order[j]>> \in Versions \X Assets
    BY <1>3 DEF Assets
  <2> QED  BY <1>3, <2>1, <2>2, BuildsAssumption DEF Kept
<1>7. \A j \in DOMAIN Order : j <= pub[p].i => object'[<<pub[p].version, Order[j]>>] = pub[p].build
  BY <1>2, <1>6 DEF Key
<1>8. \A j \in DOMAIN Order : r.pc = "manifest" \/ j < r.i => j <= pub[p].i
  BY <1>1, <1>2 DEF PubTypes
<1>9. \A j \in DOMAIN Order :
        r.pc = "manifest" \/ (r.pc \in {"head", "put"} /\ j < r.i)
          => object'[<<r.version, Order[j]>>] = r.build
  BY <1>4, <1>7, <1>8
<1>10. r.pc # "advance" /\ r.pc # "read"
  BY <1>4
<1> HIDE DEF r
<1>11. Becomes(p, r)
  BY <1>3, <1>4, <1>5, <1>9, <1>10 DEF Becomes
<1> QED  BY <1>11

(* Go: a publisher that changes nothing but its place. *)
LEMMA Moved ==
  ASSUME PublisherInv, NEW p \in Publishers, NEW pc \in PCs \ {"advance", "manifest"}, Go(p, pc),
         pub[p].pc # "idle", object' = object,
         pc \in {"head", "put"} => pub[p].pc \in {"exists", "head", "put"},
         pc = "exists" => pub[p].pc = "repository",
         pc # "repository",
         pc = "read" => manifest'[pub[p].version] # NoManifest
  PROVE  \E r : Becomes(p, r)
<1> DEFINE r == [pub[p] EXCEPT !.pc = pc]
<1>1. pub \in [Publishers -> PubTypes] /\ pub[p] \in PubTypes
  BY DEF PublisherInv, PublisherTypeOK, PubTypes
<1>2. pub[p].version \in Versions /\ pub[p].build \in Builds
  BY DEF PublisherInv, PublisherTypeOK
<1>3. r \in PubTypes /\ r.pc = pc /\ r.version = pub[p].version /\ r.build = pub[p].build /\ r.i = pub[p].i
  BY <1>1 DEF PubTypes
<1>4. pub' = [pub EXCEPT ![p] = r]
  BY <1>1 DEF Go
<1>5. ASSUME NEW j \in DOMAIN Order, pc \in {"head", "put"}, j < pub[p].i
      PROVE  object'[<<pub[p].version, Order[j]>>] = pub[p].build
  <2>1. j \in Nat /\ j >= 1  BY OrderAssumption
  <2>2. pub[p].pc \in {"head", "put"}  BY <1>5, <2>1 DEF PublisherInv, StartInv
  <2> QED  BY <1>5, <2>2 DEF PublisherInv, UploadedInv
<1>6. pc = "exists" => pub[p].i = 1
  BY DEF PublisherInv, StartInv
<1> HIDE DEF r
<1>7. Becomes(p, r)
  BY <1>2, <1>3, <1>4, <1>5, <1>6 DEF Becomes, PCs
<1> QED  BY <1>7

(* One step per action. *)
LEMMA StepIsGood ==
  ASSUME PublisherInv, NEW p \in Publishers, PublisherStep(p)
  PROVE  Good(p)
<1>1. ASSUME NEW v \in Versions, NEW b \in Builds, Publish(p, v, b)
      PROVE  Good(p)
  <2> DEFINE r == [Idle EXCEPT !.pc = "repository", !.version = v, !.build = b]
  <2>1. r \in PubTypes /\ r.pc = "repository" /\ r.version = v /\ r.build = b /\ r.i = 1
    <3>1. Idle \in PubTypes /\ Idle.i = 1
      BY IdleType DEF Idle
    <3> QED  BY <3>1 DEF PubTypes, PCs
  <2>2. pub' = [pub EXCEPT ![p] = r]
    BY <1>1 DEF Publish
  <2>3. publishes' \in [Publishers -> Nat] /\ \A q \in Publishers : publishes'[q] <= MaxPublishes[q]
    <3>1. /\ publishes \in [Publishers -> Nat] /\ MaxPublishes \in [Publishers -> Nat]
          /\ \A q \in Publishers : publishes[q] <= MaxPublishes[q]
      BY BoundsAssumption DEF PublisherInv, PublisherTypeOK
    <3>2. publishes[p] < MaxPublishes[p] /\ publishes' = [publishes EXCEPT ![p] = publishes[p] + 1]
      BY <1>1 DEF Publish
    <3>3. publishes'[p] = publishes[p] + 1 /\ \A q \in Publishers : q # p => publishes'[q] = publishes[q]
      BY <3>1, <3>2
    <3> QED  BY <3>1, <3>2, <3>3
  <2> HIDE DEF r
  <2>4. Becomes(p, r)
    BY <2>1, <2>2 DEF Becomes
  <2>5. Kept /\ NewManifestsWhole /\ Raises /\ BucketTypes
    BY <1>1, <2>3, BucketSame DEF Publish, BucketTypes, PublisherInv, PublisherTypeOK
  <2> QED  BY <2>4, <2>5 DEF Good
<1>2. ASSUME EnsureRepository(p)
      PROVE  Good(p)
  <2>1. \E r : Becomes(p, r)
    BY <1>2, Moved DEF EnsureRepository, At, PCs
  <2> QED  BY <1>2, <2>1 DEF EnsureRepository, Good, Kept, NewManifestsWhole, Raises, BucketTypes,
                              PublisherInv, PublisherTypeOK
<1>3. ASSUME ManifestExists(p)
      PROVE  Good(p)
  <2>1. object' = object /\ manifest' = manifest
    BY <1>3 DEF ManifestExists, bucket
  <2>2. \E r : Becomes(p, r)
    BY <1>3, <2>1, Moved, Stopped DEF ManifestExists, At, PCs
  <2> QED  BY <1>3, <2>2, BucketSame DEF ManifestExists, Good, BucketTypes, PublisherInv, PublisherTypeOK
<1>4. ASSUME HeadAsset(p)
      PROVE  Good(p)
  <2>1. object' = object /\ manifest' = manifest /\ Kept
    BY <1>4, BucketSame DEF HeadAsset, bucket
  <2>2. \E r : Becomes(p, r)
    BY <1>4, <2>1, Moved, Stopped, Advanced DEF HeadAsset, At, PCs
  <2> QED  BY <1>4, <2>2, BucketSame DEF HeadAsset, Good, BucketTypes, PublisherInv, PublisherTypeOK
<1>5. ASSUME PutAsset(p)
      PROVE  Good(p)
  <2>1. pub[p].pc = "put" /\ UNCHANGED <<repository, manifest, stable, published, publishes>>
    BY <1>5 DEF PutAsset, At
  <2>2. CASE object[Key(p)] = None
    <3>1. object' = [object EXCEPT ![Key(p)] = pub[p].build] /\ NextAsset(p)
      BY <1>5, <2>2 DEF PutAsset
    <3>2. Kept /\ object'[Key(p)] = pub[p].build
          /\ object' \in [Versions \X Assets -> Builds \cup {None}]
      BY <2>1, <2>2, <3>1, AssetWritten DEF Kept
    <3>3. \E r : Becomes(p, r)
      BY <2>1, <3>1, <3>2, Advanced
    <3> QED  BY <2>1, <3>2, <3>3 DEF Good, NewManifestsWhole, Raises, BucketTypes, PublisherInv, PublisherTypeOK
  <2>3. CASE object[Key(p)] # None
    <3>1. object' = object /\ Stops(p)
      BY <1>5, <2>3 DEF PutAsset
    <3> QED  BY <2>1, <3>1, Stopped DEF Good, Kept, NewManifestsWhole, Raises, BucketTypes,
                                         PublisherInv, PublisherTypeOK
  <2> QED  BY <2>2, <2>3
<1>6. ASSUME PutManifest(p)
      PROVE  Good(p)
  <2>1. pub[p].pc = "manifest" /\ UNCHANGED <<repository, object, stable, published, publishes>>
    BY <1>6 DEF PutManifest, At
  <2>2. CASE manifest[pub[p].version] = NoManifest
    <3>1. manifest' = [manifest EXCEPT ![pub[p].version] = RepositoryAssets(p)] /\ Go(p, "read")
      BY <1>6, <2>2 DEF PutManifest
    <3>2. Kept /\ NewManifestsWhole /\ manifest'[pub[p].version] # NoManifest
          /\ manifest' \in [Versions -> Manifests \cup {NoManifest}]
      BY <2>1, <2>2, <3>1, ManifestWritten
    <3>3. \E r : Becomes(p, r)
      BY <2>1, <3>1, <3>2, Moved DEF PCs
    <3> QED  BY <2>1, <3>2, <3>3 DEF Good, Raises, BucketTypes, PublisherInv, PublisherTypeOK
  <2>3. CASE manifest[pub[p].version] # NoManifest
    <3>1. manifest' = manifest /\ Stops(p)
      BY <1>6, <2>3 DEF PutManifest
    <3> QED  BY <2>1, <3>1, Stopped DEF Good, Kept, NewManifestsWhole, Raises, BucketTypes,
                                         PublisherInv, PublisherTypeOK
  <2> QED  BY <2>2, <2>3
<1>7. ASSUME ReadStable(p)
      PROVE  Good(p)
  <2>1. pub[p].pc = "read" /\ UNCHANGED <<bucket, publishes>>
    BY <1>7 DEF ReadStable, At
  <2>2. pub[p] \in PubTypes /\ pub \in [Publishers -> PubTypes] /\ pub[p].version \in Versions
        /\ pub[p].build \in Builds /\ stable \in Versions \cup {0} /\ manifest[pub[p].version] # NoManifest
    BY <2>1 DEF PublisherInv, PublisherTypeOK, PubTypes, ListedInv
  <2>3. published' \subseteq Versions
    BY <1>7, <2>2 DEF ReadStable, PublisherInv, PublisherTypeOK
  <2>4. \E r : Becomes(p, r)
    <3>1. CASE Stops(p)  BY <3>1, Stopped
    <3>2. CASE /\ pub[p].tries # MaxTries /\ ~(stable >= pub[p].version)
               /\ pub' = [pub EXCEPT ![p].pc = "advance", ![p].seen = stable]
      <4> DEFINE r == [pub[p] EXCEPT !.pc = "advance", !.seen = stable]
      <4>1. r \in PubTypes /\ r.pc = "advance" /\ r.seen = stable /\ r.tries = pub[p].tries
            /\ r.version = pub[p].version /\ r.build = pub[p].build
        BY <2>2 DEF PubTypes, PCs
      <4>2. pub' = [pub EXCEPT ![p] = r]
        BY <3>2, <2>2
      <4>3. stable < pub[p].version /\ pub[p].tries < MaxTries
        BY <3>2, <2>2, VersionOrder, BoundsAssumption DEF PubTypes
      <4>4. manifest' = manifest
        BY <2>1 DEF bucket
      <4> HIDE DEF r
      <4>5. Becomes(p, r)
        BY <4>1, <4>2, <4>3, <4>4, <2>2 DEF Becomes
      <4> QED  BY <4>5
    <3> QED  BY <1>7, <3>1, <3>2 DEF ReadStable
  <2> QED  BY <2>1, <2>3, <2>4, BucketSame DEF Good, BucketTypes, PublisherInv, PublisherTypeOK
<1>8. ASSUME UpdateStable(p)
      PROVE  Good(p)
  <2>1. pub[p].pc = "advance" /\ UNCHANGED <<repository, object, manifest, publishes>>
    BY <1>8 DEF UpdateStable, At
  <2>2. pub[p] \in PubTypes /\ pub \in [Publishers -> PubTypes] /\ pub[p].version \in Versions
        /\ pub[p].build \in Builds /\ manifest[pub[p].version] # NoManifest /\ pub[p].tries < MaxTries
    BY <2>1 DEF PublisherInv, PublisherTypeOK, PubTypes, ListedInv, TriesInv, At
  <2>3. Kept /\ NewManifestsWhole
    BY <2>1 DEF Kept, NewManifestsWhole
  <2>4. CASE stable = pub[p].seen
    <3>1. stable' = pub[p].version /\ published' = published \cup {pub[p].version} /\ Stops(p)
      BY <1>8, <2>4 DEF UpdateStable
    <3>2. Raises /\ stable' \in Versions
      BY <2>1, <2>4, <3>1, PointerRaised
    <3> QED  BY <2>1, <2>2, <2>3, <3>1, <3>2, Stopped DEF Good, BucketTypes, PublisherInv, PublisherTypeOK
  <2>5. CASE stable # pub[p].seen
    <3> DEFINE r == [pub[p] EXCEPT !.pc = "read", !.tries = pub[p].tries + 1]
    <3>1. pub' = [pub EXCEPT ![p] = r] /\ stable' = stable /\ published' = published
      BY <1>8, <2>5, <2>2 DEF UpdateStable
    <3>2. pub[p].tries + 1 \in 0..MaxTries
      BY <2>2, BoundsAssumption DEF PubTypes
    <3>3. r \in PubTypes /\ r.pc = "read" /\ r.version = pub[p].version /\ r.build = pub[p].build
      BY <2>2, <3>2 DEF PubTypes, PCs
    <3> HIDE DEF r
    <3>4. Becomes(p, r)
      BY <2>1, <2>2, <3>1, <3>3 DEF Becomes
    <3> QED  BY <2>1, <2>3, <3>1, <3>4 DEF Good, Raises, BucketTypes, PublisherInv, PublisherTypeOK
  <2> QED  BY <2>4, <2>5
<1>9. ASSUME PublisherFails(p)
      PROVE  Good(p)
  <2>1. Becomes(p, Idle) /\ UNCHANGED <<published, publishes>>
    BY <1>9, Stopped DEF PublisherFails
  <2>2. CASE UNCHANGED bucket
    BY <2>1, <2>2, BucketSame DEF Good, BucketTypes, PublisherInv, PublisherTypeOK
  <2>3. CASE /\ pub[p].pc = "put" /\ object[Key(p)] = None
             /\ object' = [object EXCEPT ![Key(p)] = pub[p].build]
             /\ UNCHANGED <<repository, manifest, stable>>
    BY <2>1, <2>3, AssetWritten DEF Good, Kept, NewManifestsWhole, Raises, BucketTypes,
                                    PublisherInv, PublisherTypeOK
  <2>4. CASE /\ pub[p].pc = "manifest" /\ manifest[pub[p].version] = NoManifest
             /\ manifest' = [manifest EXCEPT ![pub[p].version] = RepositoryAssets(p)]
             /\ UNCHANGED <<repository, object, stable>>
    BY <2>1, <2>4, ManifestWritten DEF Good, Raises, BucketTypes, PublisherInv, PublisherTypeOK
  <2>5. CASE /\ pub[p].pc = "advance" /\ stable = pub[p].seen
             /\ stable' = pub[p].version
             /\ UNCHANGED <<repository, object, manifest>>
    BY <2>1, <2>5, PointerRaised DEF Good, Kept, NewManifestsWhole, BucketTypes, PublisherInv, PublisherTypeOK
  <2> QED  BY <1>9, <2>2, <2>3, <2>4, <2>5 DEF PublisherFails, At
<1> QED  BY <1>1, <1>2, <1>3, <1>4, <1>5, <1>6, <1>7, <1>8, <1>9 DEF PublisherStep

LEMMA NextKeepsInv == PublisherInv /\ [PublisherNext]_pubVars => PublisherInv'
<1>1. ASSUME PublisherInv, NEW p \in Publishers, PublisherStep(p)
      PROVE  PublisherInv'
  <2>1. Good(p)  BY <1>1, StepIsGood
  <2>2. PICK r : Becomes(p, r)  BY <2>1 DEF Good
  <2> QED  BY <1>1, <2>1, <2>2, StepKeepsInv DEF Good
<1>2. ASSUME PublisherInv, UNCHANGED pubVars
      PROVE  PublisherInv'
  BY <1>2 DEF pubVars, PublisherInv, PublisherTypeOK, TriesInv, UploadedInv, StartInv, ListedInv,
              ManifestsAreWhole, NoManifest, Assets, Manifests, PCs, At
<1> QED  BY <1>1, <1>2 DEF PublisherNext

LEMMA AlwaysInv == PublisherSpec => []PublisherInv
  BY InitInv, NextKeepsInv, PTL DEF PublisherSpec

-----------------------------------------------------------------------------
(* Every variable keeps its type, and no publisher tries the pointer more  *)
(* than MaxTries times (update_stable).                                    *)
THEOREM PublisherTypes == PublisherSpec => []PublisherTypeOK
<1>1. PublisherInv => PublisherTypeOK  BY DEF PublisherInv
<1> QED  BY <1>1, AlwaysInv, PTL

(* A release whose manifest is in the bucket is whole, for any number of   *)
(* publishers that race, fail and die (put_asset, put_json_if_absent).     *)
THEOREM PublishedWhole == PublisherSpec => []ManifestsAreWhole
<1>1. PublisherInv => ManifestsAreWhole  BY DEF PublisherInv
<1> QED  BY <1>1, AlwaysInv, PTL

(* No asset and no manifest is ever replaced, and the stable pointer only  *)
(* moves up, to a release that is listed (update_stable).                  *)
THEOREM OffersOnlyGrow == PublisherSpec => OfferOnlyGrows
<1> DEFINE A == /\ \A k \in Versions \X Assets : object[k] # None => object'[k] = object[k]
                /\ \A v \in Versions : manifest[v] # NoManifest => manifest'[v] = manifest[v]
                /\ stable' # stable => stable' > stable /\ manifest[stable'] # NoManifest
<1>1. ASSUME PublisherInv, NEW p \in Publishers, PublisherStep(p)
      PROVE  A
  BY <1>1, StepIsGood DEF Good, Kept, Raises
<1>2. PublisherInv /\ [PublisherNext]_pubVars => [A]_pubVars
  BY <1>1 DEF PublisherNext
<1> QED  BY <1>2, AlwaysInv, PTL DEF PublisherSpec, OfferOnlyGrows

(* A report of success stays true. *)
LEMMA OfferedKept == PublisherInv /\ PublishedIsOffered /\ [PublisherNext]_pubVars => PublishedIsOffered'
<1>1. ASSUME PublisherInv, PublishedIsOffered, NEW p \in Publishers, PublisherStep(p)
      PROVE  PublishedIsOffered'
  <2>1. Kept /\ Raises
    BY <1>1, StepIsGood DEF Good
  <2>2. stable \in Nat /\ stable' \in Nat /\ stable' >= stable /\ published \subseteq Versions
    BY <1>1, <2>1, VersionOrder DEF Raises, PublisherInv, PublisherTypeOK
  <2>3. \A v \in published : v \in Nat /\ manifest'[v] # NoManifest /\ stable' >= v
    BY <1>1, <2>1, <2>2, VersionOrder DEF PublishedIsOffered, Kept
  <2>4. ASSUME NEW v \in published', v \notin published
        PROVE  manifest'[v] # NoManifest /\ stable' >= v
    <3>1. \/ ReadStable(p) /\ v = pub[p].version /\ stable >= v
          \/ UpdateStable(p) /\ v = pub[p].version /\ stable' = v
      BY <1>1, <2>4 DEF PublisherStep, Publish, EnsureRepository, ManifestExists, HeadAsset, PutAsset,
                        PutManifest, ReadStable, UpdateStable, PublisherFails
    <3>2. pub[p].pc \in {"read", "advance"}
      BY <3>1 DEF ReadStable, UpdateStable, At
    <3>3. v \in Versions /\ manifest[v] # NoManifest
      BY <1>1, <3>1, <3>2 DEF PublisherInv, PublisherTypeOK, ListedInv
    <3> QED  BY <2>1, <2>2, <3>1, <3>3, VersionOrder DEF Kept
  <2> QED  BY <2>3, <2>4 DEF PublishedIsOffered, NoManifest, Assets
<1>2. ASSUME PublishedIsOffered, UNCHANGED pubVars
      PROVE  PublishedIsOffered'
  BY <1>2 DEF pubVars, PublishedIsOffered, NoManifest, Assets
<1> QED  BY <1>1, <1>2 DEF PublisherNext

(* A publisher that reported success has left its release offered, at the  *)
(* stable pointer or below it (update_stable).                             *)
THEOREM PublishedOffered == PublisherSpec => []PublishedIsOffered
<1>1. PublisherInit => PublishedIsOffered
  BY DEF PublisherInit, PublishedIsOffered
<1> QED  BY <1>1, OfferedKept, AlwaysInv, PTL DEF PublisherSpec

-----------------------------------------------------------------------------
(* The client *)

(* What is being published has passed collect_assets, and a manifest       *)
(* describes one such build.                                               *)
Sound(b) == b \in Builds /\ CollectAssets(b)
BuildsInv ==
  /\ \A p \in Publishers : pub[p].pc # "idle" => Sound(pub[p].build)
  /\ \A v \in Versions : manifest[v] # NoManifest =>
       \E b \in Builds : Sound(b) /\ manifest[v] = [a \in Assets |-> b]

ClientPCs == Requests \cup {"idle", "confirm", "reuse", "park", "place", "rename", "done"}
Pages == Builds \cup Frontends \cup {None}
Clients ==
  [pc : ClientPCs, version : Versions \cup {0}, latest : BOOLEAN, want : [Names -> Builds \cup {None}],
   attempt : 0..(MaxAttempts - 1), confirmed : BOOLEAN, place : {"tmp", "release"},
   pages : Pages \cup {Official}]

TypesInv ==
  /\ client \in Clients
  /\ tmp \in [Versions -> Dirs \cup {NoDir}] /\ releases \in [Versions -> Dirs \cup {NoDir}]
  /\ active \in Versions \cup {0}
  /\ provider \in Providers
  /\ provider = "github" => github \in Githubs /\ OneBuild(github.sums)

(* Which repository a request goes to, and that the target is known.       *)
Building == {"reuse", "server", "static", "front", "park", "place", "rename", "done"}
AskInv ==
  /\ client.pc # "idle" => provider \in {"http", "github"}
  /\ client.pc \in {"descriptor", "pointer", "manifest"} => provider = "http"
  /\ client.pc \in {"release", "sums"} => provider = "github"
  /\ client.pc \in {"descriptor", "release"} => client.latest \/ client.version \in Versions
  /\ client.pc \in Building \cup {"manifest", "sums", "confirm"} => client.version \in Versions
  /\ client.pc = "sums" => \A n \in Names : github.sums[n] # None

(* What the build wants is one build, with an HTTP repository that of the  *)
(* manifest.                                                               *)
WantInv ==
  client.pc \in Building =>
    /\ client.want["server"] \in Builds /\ client.want["static"] = client.want["server"]
    /\ provider = "http" => /\ manifest[client.version] # NoManifest
                            /\ manifest[client.version]["x86_64"] = client.want["server"]

(* The pages are in their directory, or parked for a moment. *)
Laid(d, pc) == IF pc = "place" THEN d.old # None ELSE d.pages # None
InTmp == client.pc \in {"server", "static", "front", "park", "place", "rename"} /\ client.place = "tmp"
DirInv ==
  /\ client.place = "release" => client.pc \in {"front", "park", "place", "done"}
  /\ InTmp => tmp[client.version] \in Dirs
  /\ InTmp /\ client.pc # "server" => tmp[client.version].server = client.want["server"]
  /\ InTmp /\ client.pc \notin {"server", "static"} =>
       tmp[client.version].zip = client.want["static"] /\ Laid(tmp[client.version], client.pc)
  /\ client.place = "release" /\ client.pc \in {"front", "park", "place"} =>
       releases[client.version] \in Dirs /\ Laid(releases[client.version], client.pc)
  /\ client.pc \in {"park", "place"} => client.pages \in Frontends

SupplyInv ==
  /\ PublisherInv /\ PublishedIsOffered /\ BuildsInv
  /\ TypesInv /\ AskInv /\ WantInv /\ DirInv
  /\ InstalledAsDeclared /\ PagesKept

-----------------------------------------------------------------------------
(* Archives: what validate_static_archive accepts, extract_static_archive  *)
(* unpacks, unless an entry lies below a file.                             *)
LEMMA AcceptedUnpacks ==
  ASSUME NEW b, Sound(b)
  PROVE  Clashes(ArchiveOf(b)) \/ ExtractStaticArchive(ArchiveOf(b), Size(ArchiveOf(b)))
<1> DEFINE ar == ArchiveOf(b)
<1>1. Len(ar) \in Nat /\ DOMAIN ar = 1..Len(ar)
  BY ArchivesAssumption DEF Sound
<1>2. ValidateStaticArchive(ar)
  BY DEF Sound, CollectAssets
<1> HIDE DEF ar
<1> SUFFICES ASSUME ~Clashes(ar) PROVE ExtractStaticArchive(ar, Size(ar))
  BY DEF ar
<1>3. Unpacked(ar) <= Limit(Size(ar)) /\ \E i \in DOMAIN ar : ar[i].kind = "file" /\ ar[i].parts = <<"index.html">>
  BY <1>2 DEF ValidateStaticArchive
<1>4. ASSUME NEW i \in DOMAIN ar
      PROVE  /\ ar[i].kind \in {"file", "dir"} /\ ar[i].under
             /\ \A k \in DOMAIN ar[i].parts : ar[i].parts[k] \notin Unsafe
             /\ ar[i].parts # <<>> \/ ar[i].kind = "dir"
  BY <1>2, <1>4 DEF ValidateStaticArchive
<1>5. ASSUME NEW i \in DOMAIN ar, NEW j \in 1..(i - 1), ar[i].parts # <<>>
      PROVE  ar[j].parts # ar[i].parts
  <2>1. j \in DOMAIN ar /\ i # j
    BY <1>1, <1>5
  <2> QED  BY <1>2, <1>5, <2>1 DEF ValidateStaticArchive
<1>6. ASSUME NEW i \in DOMAIN ar, NEW j \in DOMAIN ar, ar[j].kind = "file", j # i
      PROVE  ~IsStrictPrefix(ar[j].parts, ar[i].parts)
  BY <1>6 DEF Clashes
<1> QED  BY <1>3, <1>4, <1>5, <1>6 DEF ExtractStaticArchive

LEMMA BuildsInvUnpacks == BuildsInv => PublishedUnpacks
<1> SUFFICES ASSUME BuildsInv, NEW v \in Versions, manifest[v] # NoManifest
             PROVE  Clashes(ArchiveOf(manifest[v]["static"]))
                      \/ ExtractStaticArchive(ArchiveOf(manifest[v]["static"]), Size(ArchiveOf(manifest[v]["static"])))
  BY DEF PublishedUnpacks
<1>1. PICK b \in Builds : Sound(b) /\ manifest[v] = [a \in Assets |-> b]
  BY DEF BuildsInv
<1>2. manifest[v]["static"] = b
  BY <1>1, AssetsAssumption
<1> QED  BY <1>1, <1>2, AcceptedUnpacks

-----------------------------------------------------------------------------
(* Publishers *)

LEMMA BuildsInvInit == PublisherInit => BuildsInv
  BY DEF PublisherInit, BuildsInv, Idle

LEMMA BuildsInvStep ==
  ASSUME PublisherInv, BuildsInv, NEW p \in Publishers, PublisherStep(p)
  PROVE  BuildsInv'
<1>0. pub \in [Publishers -> PubTypes] /\ manifest \in [Versions -> Manifests \cup {NoManifest}]
  BY DEF PublisherInv, PublisherTypeOK, PubTypes
<1>1. PICK r : Becomes(p, r)
  BY StepIsGood DEF Good
<1>2. pub' = [pub EXCEPT ![p] = r] /\ pub'[p] = r /\ \A q \in Publishers : q # p => pub'[q] = pub[q]
  BY <1>0, <1>1 DEF Becomes
<1>3. r.pc = "idle" \/ (pub[p].pc # "idle" /\ r.build = pub[p].build) \/ Sound(r.build)
  <2>1. ASSUME NEW v \in Versions, NEW b \in Builds, Publish(p, v, b)
        PROVE  Sound(r.build)
    <3>1. pub'[p] = [Idle EXCEPT !.pc = "repository", !.version = v, !.build = b]
      BY <1>0, <2>1 DEF Publish
    <3> QED  BY <1>2, <2>1, <3>1 DEF Sound, Publish, Idle
  <2>2. ASSUME Stops(p) PROVE r.pc = "idle"
    BY <1>0, <1>2, <2>2 DEF Stops, Idle
  <2>3. ASSUME NEW pc, Go(p, pc) PROVE r.build = pub[p].build
    BY <1>0, <1>2, <2>3 DEF Go, PubTypes
  <2>4. ASSUME NextAsset(p) PROVE r.build = pub[p].build
    BY <1>0, <1>2, <2>4 DEF NextAsset, PubTypes
  <2>5. ASSUME ReadStable(p) PROVE r.pc = "idle" \/ r.build = pub[p].build
    BY <1>0, <1>2, <2>2, <2>5 DEF ReadStable, PubTypes
  <2>6. ASSUME UpdateStable(p) PROVE r.pc = "idle" \/ r.build = pub[p].build
    BY <1>0, <1>2, <2>2, <2>6 DEF UpdateStable, PubTypes
  <2>7. CASE EnsureRepository(p)  BY <2>7, <2>3 DEF EnsureRepository, At
  <2>8. CASE ManifestExists(p)  BY <2>8, <2>2, <2>3 DEF ManifestExists, At
  <2>9. CASE HeadAsset(p)  BY <2>9, <2>2, <2>3, <2>4 DEF HeadAsset, At
  <2>10. CASE PutAsset(p)  BY <2>10, <2>2, <2>4 DEF PutAsset, At
  <2>11. CASE PutManifest(p)  BY <2>11, <2>2, <2>3 DEF PutManifest, At
  <2>12. CASE PublisherFails(p)  BY <2>12, <2>2 DEF PublisherFails
  <2>13. CASE ReadStable(p)  BY <2>13, <2>5 DEF ReadStable, At
  <2>14. CASE UpdateStable(p)  BY <2>14, <2>6 DEF UpdateStable, At
  <2> QED  BY <2>1, <2>7, <2>8, <2>9, <2>10, <2>11, <2>12, <2>13, <2>14 DEF PublisherStep
<1>4. \A q \in Publishers : pub'[q].pc # "idle" => Sound(pub'[q].build)
  BY <1>2, <1>3 DEF BuildsInv
<1>5. \/ UNCHANGED manifest
      \/ pub[p].pc = "manifest" /\ manifest' = [manifest EXCEPT ![pub[p].version] = RepositoryAssets(p)]
  BY DEF PublisherStep, Publish, EnsureRepository, ManifestExists, HeadAsset, PutAsset,
         PutManifest, ReadStable, UpdateStable, PublisherFails, bucket, At
<1>6. ASSUME NEW v \in Versions, manifest'[v] # NoManifest
      PROVE  \E b \in Builds : Sound(b) /\ manifest'[v] = [a \in Assets |-> b]
  <2>1. CASE manifest'[v] = manifest[v]  BY <1>6, <2>1 DEF BuildsInv
  <2>2. CASE manifest'[v] # manifest[v]
    <3>1. pub[p].pc = "manifest" /\ manifest'[v] = RepositoryAssets(p)
      BY <1>0, <1>5, <2>2
    <3>2. Sound(pub[p].build)
      BY <3>1 DEF BuildsInv
    <3> QED  BY <3>1, <3>2 DEF Sound, RepositoryAssets
  <2> QED  BY <2>1, <2>2
<1> QED  BY <1>4, <1>6 DEF BuildsInv, NoManifest, Assets, Sound, CollectAssets

-----------------------------------------------------------------------------
(* The client *)

ClientInv == TypesInv /\ AskInv /\ WantInv /\ DirInv /\ InstalledAsDeclared /\ PagesKept

LEMMA RestingType == Resting \in Clients /\ Resting.pc = "idle" /\ Resting.place = "tmp"
  BY ClientBounds DEF Resting, Clients, ClientPCs, Requests, Pages

LEMMA DirTypes == Empty \in Dirs /\ NoDir \notin Dirs
<1>1. Empty \in Dirs
  BY DEF Empty, Dir, Dirs
<1>2. NoDir.server = "absent" /\ \A d \in Dirs : d.server \in Builds \cup {None}
  BY DEF NoDir, Dir, Dirs
<1>3. "absent" \notin Builds \cup {None}
  BY AssetsAssumption
<1> QED  BY <1>1, <1>2, <1>3

(* The records the client turns into. *)
LEMMA Forwarded ==
  ASSUME client \in Clients, NEW pc \in ClientPCs, client' = [client EXCEPT !.pc = pc, !.attempt = 0]
  PROVE  /\ client' \in Clients /\ client'.pc = pc
         /\ client'.version = client.version /\ client'.latest = client.latest
         /\ client'.want = client.want /\ client'.place = client.place
         /\ client'.pages = client.pages
<1>1. 0 \in 0..(MaxAttempts - 1)
  BY ClientBounds
<1> QED  BY <1>1 DEF Clients

LEMMA Targeted ==
  ASSUME client \in Clients, NEW pc \in ClientPCs, NEW v \in Versions,
         client' = [client EXCEPT !.pc = pc, !.attempt = 0, !.version = v]
  PROVE  client' \in Clients /\ client'.pc = pc /\ client'.version = v /\ client'.place = client.place
<1>1. 0 \in 0..(MaxAttempts - 1)
  BY ClientBounds
<1> QED  BY <1>1 DEF Clients

LEMMA ClientInvInit == SupplyInit => ClientInv
<1> SUFFICES ASSUME SupplyInit PROVE ClientInv  OBVIOUS
<1>1. client \in Clients /\ client.pc = "idle" /\ client.place = "tmp"
  BY RestingType DEF SupplyInit
<1>2. TypesInv
  BY <1>1, GithubAssumption DEF SupplyInit, TypesInv
<1>3. AskInv /\ WantInv /\ DirInv
  BY <1>1 DEF AskInv, WantInv, DirInv, Building, InTmp
<1>4. InstalledAsDeclared /\ PagesKept
  BY DEF SupplyInit, InstalledAsDeclared, PagesKept
<1> QED  BY <1>2, <1>3, <1>4 DEF ClientInv

(* The publishers leave the client alone, and what it has read of them     *)
(* stays true.                                                             *)
LEMMA PublishersApart ==
  ASSUME PublisherInv, ClientInv, NEW p \in Publishers, PublisherStep(p),
         UNCHANGED <<provider, github, client, tmp, releases, active>>
  PROVE  ClientInv'
<1>1. \A v \in Versions : manifest[v] # NoManifest => manifest'[v] = manifest[v]
  BY StepIsGood DEF Good, Kept
<1>2. NoManifest' = NoManifest
  BY DEF NoManifest, Assets
<1>3. TypesInv' /\ AskInv' /\ DirInv' /\ PagesKept'
  BY DEF ClientInv, TypesInv, AskInv, DirInv, PagesKept, Clients, ClientPCs, Pages, Building, InTmp, Laid
<1>4. WantInv'
  <2>1. client.pc \in Building => client.version \in Versions
    BY DEF ClientInv, AskInv
  <2> QED  BY <1>1, <1>2, <2>1 DEF ClientInv, WantInv, Building
<1>5. InstalledAsDeclared'
  BY <1>1, <1>2 DEF ClientInv, InstalledAsDeclared
<1> QED  BY <1>3, <1>4, <1>5 DEF ClientInv

Beside == <<provider, github, manifest>>

(* The command has ended. *)
LEMMA AtRest ==
  ASSUME ClientInv, client' = Resting, UNCHANGED Beside,
         tmp' \in [Versions -> Dirs \cup {NoDir}], releases' \in [Versions -> Dirs \cup {NoDir}],
         active' \in Versions \cup {0}, InstalledAsDeclared', PagesKept'
  PROVE  ClientInv'
<1>1. client' \in Clients /\ client'.pc = "idle" /\ client'.place = "tmp"
  BY RestingType
<1>2. TypesInv'
  BY <1>1 DEF ClientInv, TypesInv, Beside
<1>3. AskInv' /\ WantInv' /\ DirInv'
  BY <1>1 DEF AskInv, WantInv, DirInv, Building, InTmp
<1> QED  BY <1>2, <1>3 DEF ClientInv

LEMMA Declared ==
  ASSUME ClientInv, UNCHANGED <<provider, manifest, releases>>
  PROVE  InstalledAsDeclared' /\ PagesKept'
  BY DEF ClientInv, InstalledAsDeclared, PagesKept, NoManifest, Assets

LEMMA GivesUp ==
  ASSUME ClientInv, Gives, UNCHANGED Beside
  PROVE  ClientInv'
<1>1. tmp' \in [Versions -> Dirs \cup {NoDir}] /\ UNCHANGED <<releases, active>> /\ client' = Resting
  BY DEF Gives, Discard, ClientInv, TypesInv
<1>2. InstalledAsDeclared' /\ PagesKept'
  BY <1>1, Declared DEF Beside
<1> QED  BY <1>1, <1>2, AtRest DEF ClientInv, TypesInv

(* It asks on, and builds nothing yet. *)
LEMMA AsksOn ==
  ASSUME ClientInv, UNCHANGED Beside, UNCHANGED <<tmp, releases, active>>,
         client' \in Clients, client'.pc \notin Building, client'.place = "tmp", AskInv'
  PROVE  ClientInv'
<1>1. TypesInv' /\ WantInv'
  BY DEF ClientInv, TypesInv, WantInv, Beside
<1>2. DirInv'
  BY DEF DirInv, Building, InTmp
<1>3. InstalledAsDeclared' /\ PagesKept'
  BY Declared DEF Beside
<1> QED  BY <1>1, <1>2, <1>3 DEF ClientInv

(* It goes on with its build. *)
LEMMA BuildsOn ==
  ASSUME ClientInv, UNCHANGED Beside, UNCHANGED active,
         tmp' \in [Versions -> Dirs \cup {NoDir}], releases' \in [Versions -> Dirs \cup {NoDir}],
         client' \in Clients, client.pc \in Building, client'.pc \in Building,
         client'.version = client.version, client'.want = client.want,
         DirInv', InstalledAsDeclared', PagesKept'
  PROVE  ClientInv'
<1>1. TypesInv'
  BY DEF ClientInv, TypesInv, Beside
<1>2. AskInv'
  BY DEF ClientInv, AskInv, Building, Beside
<1>3. WantInv'
  BY DEF ClientInv, WantInv, Beside, NoManifest, Assets
<1> QED  BY <1>1, <1>2, <1>3 DEF ClientInv

-----------------------------------------------------------------------------
(* Steps of the client *)

LEMMA Asking ==
  ASSUME PublisherInv, ClientInv, UNCHANGED Outside,
         \/ \E v \in Versions \cup {0} : Update(v)
         \/ ValidateRepository \/ Latest \/ GithubRelease \/ Confirm
  PROVE  ClientInv'
<1> USE DEF Outside, Beside, pubVars
<1>a. client \in Clients /\ UNCHANGED Beside
  BY DEF ClientInv, TypesInv
<1>c. client.pc \in {"descriptor", "pointer", "release", "confirm"} => client.place = "tmp"
  BY <1>a DEF ClientInv, DirInv, Clients
<1>b. First \in {"descriptor", "release"} /\ (First = "descriptor" <=> provider = "http")
  BY DEF First
<1>1. ASSUME NEW v \in Versions \cup {0}, Update(v) PROVE ClientInv'
  <2>1. /\ client' \in Clients /\ client'.pc = First
        /\ client'.version = v /\ (client'.latest <=> v = 0) /\ client'.place = "tmp"
    <3> DEFINE c == [Resting EXCEPT !.pc = First, !.version = v, !.latest = (v = 0)]
    <3>1. client' = c
      BY <1>1 DEF Update
    <3>2. First \in ClientPCs
      BY <1>b DEF ClientPCs, Requests
    <3>3. c \in Clients /\ c.pc = First /\ c.version = v /\ (c.latest <=> v = 0) /\ c.place = "tmp"
      <4> HIDE DEF First
      <4> QED  BY <3>2, RestingType DEF Clients
    <3> QED  BY <3>1, <3>3
  <2>2. provider \in {"http", "github"}
    BY <1>1, ProvidersAssumption DEF Update, ClientInv, TypesInv
  <2>3. AskInv'
    BY <2>1, <2>2, <1>b DEF AskInv, Building
  <2> QED  BY <1>1, <1>a, <1>b, <2>1, <2>3, <1>c, AsksOn DEF Update, Building, On
<1>2. CASE ValidateRepository
  <2>1. CASE ~repository  BY <1>2, <1>a, <2>1, GivesUp DEF ValidateRepository
  <2>2. CASE repository
    <3>1. /\ client' \in Clients /\ client'.pc = IF client.latest THEN "pointer" ELSE "manifest"
          /\ client'.version = client.version /\ client'.latest = client.latest
          /\ client'.place = client.place
      <4>1. client' = [client EXCEPT !.pc = IF client.latest THEN "pointer" ELSE "manifest", !.attempt = 0]
        BY <1>2, <2>2 DEF ValidateRepository, Forward
      <4>2. (IF client.latest THEN "pointer" ELSE "manifest") \in ClientPCs
        BY DEF ClientPCs, Requests
      <4> QED  BY <1>a, <4>1, <4>2, Forwarded
    <3>2. AskInv'
      BY <1>2, <3>1 DEF ValidateRepository, On, ClientInv, AskInv, Building
    <3> QED  BY <1>2, <1>a, <2>2, <3>1, <3>2, <1>c, AsksOn DEF ValidateRepository, Building, On
  <2> QED  BY <2>1, <2>2
<1>3. CASE Latest
  <2>1. CASE stable = 0  BY <1>3, <1>a, <2>1, GivesUp DEF Latest
  <2>2. CASE stable # 0
    <3>0. stable \in Versions
      BY <2>2 DEF PublisherInv, PublisherTypeOK
    <3>1. client' \in Clients /\ client'.pc = "manifest" /\ client'.version = stable /\ client'.place = client.place
      <4>1. client' = [client EXCEPT !.pc = "manifest", !.attempt = 0, !.version = stable]
        BY <1>3, <2>2 DEF Latest
      <4>2. "manifest" \in ClientPCs
        BY DEF ClientPCs, Requests
      <4> QED  BY <1>a, <3>0, <4>1, <4>2, Targeted
    <3>2. AskInv'
      BY <1>3, <3>0, <3>1 DEF Latest, On, ClientInv, AskInv, Building
    <3> QED  BY <1>3, <1>a, <2>2, <3>1, <3>2, <1>c, AsksOn DEF Latest, Building, On
  <2> QED  BY <2>1, <2>2
<1>4. CASE GithubRelease
  <2>1. CASE client' = Resting /\ Gives  BY <1>4, <1>a, <2>1, GivesUp DEF GithubRelease
  <2>2. CASE ~Gives
    <3>0. /\ provider = "github" /\ github \in Githubs /\ BuildRelease
          /\ client' = [client EXCEPT !.pc = "sums", !.attempt = 0, !.version = github.version]
          /\ UNCHANGED <<tmp, releases, active>>
      BY <1>4, <2>2 DEF GithubRelease, On, ClientInv, AskInv, TypesInv
    <3>1. client' \in Clients /\ client'.pc = "sums" /\ client'.version \in Versions /\ client'.place = client.place
      <4>1. "sums" \in ClientPCs /\ github.version \in Versions
        BY <3>0 DEF ClientPCs, Requests, Githubs
      <4> QED  BY <1>a, <3>0, <4>1, Targeted
    <3>2. AskInv'
      BY <3>0, <3>1 DEF AskInv, Building, BuildRelease, Names
    <3> QED  BY <1>4, <1>a, <3>0, <3>1, <3>2, <1>c, AsksOn DEF Building, GithubRelease, On
  <2> QED  BY <2>1, <2>2 DEF Gives
<1>5. CASE Confirm
  <2>1. CASE Gives  BY <1>5, <1>a, <2>1, GivesUp
  <2>2. CASE ~Gives
    <3>0. /\ client.pc = "confirm" /\ UNCHANGED <<tmp, releases, active>>
          /\ client' = [client EXCEPT !.pc = First, !.latest = FALSE, !.confirmed = TRUE]
      BY <1>5, <2>2 DEF Confirm, On
    <3>1. /\ client' \in Clients /\ client'.pc = First
          /\ client'.version = client.version /\ ~client'.latest
          /\ client'.place = client.place
      BY <1>a, <1>b, <3>0 DEF Clients, ClientPCs, Requests
    <3>2. client.version \in Versions
      BY <3>0 DEF ClientInv, AskInv
    <3>3. AskInv'
      BY <1>b, <3>0, <3>1, <3>2 DEF ClientInv, AskInv, Building
    <3> QED  BY <1>a, <1>b, <3>0, <3>1, <3>3, <1>c, AsksOn DEF Building, On
  <2> QED  BY <2>1, <2>2
<1> QED  BY <1>1, <1>2, <1>3, <1>4, <1>5

(* A release that is resolved is the one to build, or to ask about. *)
LEMMA ResolvedKeeps ==
  ASSUME ClientInv, UNCHANGED Beside, client.pc \in {"manifest", "sums"},
         NEW want \in [Names -> Builds], want["static"] = want["server"],
         provider = "http" => /\ manifest[client.version] # NoManifest
                              /\ manifest[client.version]["x86_64"] = want["server"],
         Resolved(client.version, want)
  PROVE  ClientInv'
<1>a. client \in Clients /\ client.version \in Versions /\ provider \in {"http", "github"}
      /\ client.place = "tmp"
  BY DEF ClientInv, TypesInv, AskInv, DirInv, Clients
<1>b. 0 \in 0..(MaxAttempts - 1)
  BY ClientBounds
<1>1. CASE Gives
  BY <1>1, GivesUp
<1>2. CASE client' = [client EXCEPT !.pc = "confirm", !.attempt = 0, !.version = client.version]
           /\ UNCHANGED <<tmp, releases, active>>
  <2>1. "confirm" \in ClientPCs
    BY DEF ClientPCs
  <2>2. client' \in Clients /\ client'.pc = "confirm" /\ client'.version = client.version /\ client'.place = "tmp"
    BY <1>a, <1>2, <2>1, Targeted
  <2>3. AskInv'
    BY <1>a, <2>2 DEF AskInv, Building, Beside
  <2> QED  BY <1>2, <2>2, <2>3, AsksOn DEF Building
<1>3. CASE client' = [client EXCEPT !.pc = "reuse", !.attempt = 0, !.want = want]
           /\ UNCHANGED <<tmp, releases, active>>
  <2>1. "reuse" \in ClientPCs
    BY DEF ClientPCs
  <2>2. /\ client' \in Clients /\ client'.pc = "reuse" /\ client'.version = client.version
        /\ client'.want = want /\ client'.place = client.place
    BY <1>a, <1>b, <1>3, <2>1 DEF Clients
  <2>3. TypesInv' /\ AskInv'
    BY <1>a, <1>3, <2>2 DEF ClientInv, TypesInv, AskInv, Building, Beside
  <2>4. WantInv'
    BY <1>a, <2>2 DEF WantInv, Beside, Names, NoManifest, Assets
  <2>5. DirInv'
    BY <2>2 DEF ClientInv, DirInv, InTmp
  <2>6. InstalledAsDeclared' /\ PagesKept'
    BY <1>3, Declared DEF Beside
  <2> QED  BY <2>3, <2>4, <2>5, <2>6 DEF ClientInv
<1> QED  BY <1>1, <1>2, <1>3 DEF Resolved

LEMMA Resolving ==
  ASSUME PublisherInv, BuildsInv, ClientInv, UNCHANGED Outside, ReleaseManifest \/ ParseChecksums
  PROVE  ClientInv'
<1>a. UNCHANGED Beside
  BY DEF Outside, Beside, pubVars
<1>1. CASE ReleaseManifest
  <2> DEFINE m == manifest[client.version]
             w == [server |-> m["x86_64"], static |-> m["static"]]
  <2>1. client.pc = "manifest" /\ client.version \in Versions
    BY <1>1 DEF ReleaseManifest, On, ClientInv, AskInv
  <2>2. CASE m = NoManifest  BY <1>1, <1>a, <2>2, GivesUp DEF ReleaseManifest
  <2>3. CASE m # NoManifest
    <3>1. PICK b \in Builds : m = [a \in Assets |-> b]
      BY <2>1, <2>3 DEF BuildsInv
    <3>2. m["x86_64"] = b /\ m["static"] = b
      BY <3>1, AssetsAssumption
    <3>3. w \in [Names -> Builds] /\ w["static"] = b /\ w["server"] = b
      BY <3>2 DEF Names
    <3>4. Resolved(client.version, w)
      BY <1>1, <2>3 DEF ReleaseManifest
    <3> HIDE DEF w
    <3> QED  BY <1>a, <2>1, <2>3, <3>2, <3>3, <3>4, ResolvedKeeps
  <2> QED  BY <2>2, <2>3
<1>2. CASE ParseChecksums
  <2>1. /\ client.pc = "sums" /\ provider = "github" /\ github \in Githubs /\ OneBuild(github.sums)
        /\ \A n \in Names : github.sums[n] # None
    BY <1>2 DEF ParseChecksums, On, ClientInv, AskInv, TypesInv
  <2>2. PICK b \in Builds : \A n \in Names : github.sums[n] \in {b, None}
    BY <2>1 DEF OneBuild
  <2>3. github.sums \in [Names -> Builds \cup {None}] /\ \A n \in Names : github.sums[n] = b
    BY <2>1, <2>2 DEF Githubs
  <2>4. github.sums \in [Names -> Builds] /\ github.sums["static"] = github.sums["server"]
    BY <2>3 DEF Names
  <2>5. Resolved(client.version, github.sums)
    BY <1>2 DEF ParseChecksums
  <2> QED  BY <1>a, <2>1, <2>4, <2>5, ResolvedKeeps
<1> QED  BY <1>1, <1>2

(* A request is repeated, or given up; the command dies; files of a       *)
(* release on GitHub are uploaded again.                                   *)
LEMMA Troubles ==
  ASSUME ClientInv,
         \/ TryAgain \/ RequestFails \/ Crash
         \/ \E n \in Names, b \in Builds : Reupload(n, b)
  PROVE  ClientInv'
<1>a. client \in Clients
  BY DEF ClientInv, TypesInv
<1>1. CASE TryAgain
  <2>1. UNCHANGED Beside /\ UNCHANGED <<tmp, releases, active>>
    BY <1>1 DEF TryAgain, Outside, Beside, pubVars
  <2>2. client.attempt + 1 \in 0..(MaxAttempts - 1)
    BY <1>1, <1>a, ClientBounds DEF TryAgain, Clients
  <2>3. /\ client' \in Clients /\ client'.pc = client.pc /\ client'.version = client.version
        /\ client'.latest = client.latest /\ client'.want = client.want
        /\ client'.place = client.place /\ client'.pages = client.pages
    BY <1>1, <1>a, <2>2 DEF TryAgain, Clients
  <2>4. TypesInv' /\ AskInv' /\ WantInv'
    BY <2>1, <2>3 DEF ClientInv, TypesInv, AskInv, WantInv, Beside, NoManifest, Assets
  <2>5. DirInv'
    BY <2>1, <2>3 DEF ClientInv, DirInv, InTmp
  <2> QED  BY <2>1, <2>4, <2>5, Declared DEF ClientInv, Beside
<1>2. CASE RequestFails
  BY <1>2, GivesUp DEF RequestFails, Outside, Beside, pubVars
<1>3. CASE Crash
  <2>1. UNCHANGED Beside /\ UNCHANGED <<tmp, releases, active>> /\ client' = Resting
    BY <1>3 DEF Crash, Beside, pubVars
  <2> QED  BY <2>1, AtRest, Declared DEF ClientInv, TypesInv, Beside
<1>4. ASSUME NEW n \in Names, NEW b \in Builds, Reupload(n, b) PROVE ClientInv'
  <2>1. UNCHANGED <<provider, manifest, client, tmp, releases, active>> /\ provider = "github"
    BY <1>4 DEF Reupload, pubVars
  <2>2. github \in Githubs /\ OneBuild(github.sums)
    BY <2>1 DEF ClientInv, TypesInv
  <2>3. CASE github' = [github EXCEPT !.files[n] = b]
    <3>1. github' \in Githubs /\ github'.sums = github.sums
      BY <2>2, <2>3 DEF Githubs
    <3>2. TypesInv' /\ AskInv'
      BY <2>1, <2>2, <3>1 DEF ClientInv, TypesInv, AskInv
    <3> QED  BY <2>1, <3>2, Declared DEF ClientInv, WantInv, DirInv, InTmp, NoManifest, Assets
  <2>4. CASE github' = [github EXCEPT !.sums = [k \in Names |-> b]]
    <3>1. github' \in Githubs /\ github'.sums = [k \in Names |-> b]
      BY <2>2, <2>4 DEF Githubs
    <3>2. OneBuild(github'.sums) /\ \A k \in Names : github'.sums[k] # None
      BY <3>1, BuildsAssumption DEF OneBuild
    <3>3. TypesInv' /\ AskInv'
      BY <2>1, <3>1, <3>2 DEF ClientInv, TypesInv, AskInv
    <3> QED  BY <2>1, <3>3, Declared DEF ClientInv, WantInv, DirInv, InTmp, NoManifest, Assets
  <2> QED  BY <1>4, <2>3, <2>4 DEF Reupload
<1> QED  BY <1>1, <1>2, <1>3, <1>4

-----------------------------------------------------------------------------
(* Building the directory *)

(* Pages are exchanged: the backend and its archive stay. *)
SamePart(d, e) == e.server = d.server /\ e.zip = d.zip

LEMMA PagesOf ==
  ASSUME NEW d \in Dirs, NEW x \in Pages
  PROVE  /\ [d EXCEPT !.old = d.pages, !.pages = None] \in Dirs
         /\ SamePart(d, [d EXCEPT !.old = d.pages, !.pages = None])
         /\ [d EXCEPT !.old = d.pages, !.pages = None].old = d.pages
         /\ [d EXCEPT !.pages = x, !.old = None] \in Dirs
         /\ SamePart(d, [d EXCEPT !.pages = x, !.old = None])
         /\ [d EXCEPT !.pages = x, !.old = None].pages = x
  BY DEF Dirs, Pages, SamePart

(* releases/<version> of the command changes to d and stays as declared. *)
LEMMA ReleaseChanged ==
  ASSUME ClientInv, UNCHANGED <<provider, manifest>>, client.version \in Versions,
         NEW d \in Dirs, releases' = [releases EXCEPT ![client.version] = d],
         d.server # None, d.server = d.zip, d.pages # None \/ d.old # None,
         provider = "http" => /\ manifest[client.version] # NoManifest
                              /\ d.server = manifest[client.version]["x86_64"]
  PROVE  /\ releases' \in [Versions -> Dirs \cup {NoDir}] /\ releases'[client.version] = d
         /\ InstalledAsDeclared' /\ PagesKept'
<1>1. releases \in [Versions -> Dirs \cup {NoDir}]
  BY DEF ClientInv, TypesInv
<1>2. /\ releases' \in [Versions -> Dirs \cup {NoDir}] /\ releases'[client.version] = d
      /\ \A v \in Versions : v # client.version => releases'[v] = releases[v]
  BY <1>1
<1>3. InstalledAsDeclared'
  <2> SUFFICES ASSUME NEW v \in Versions, releases'[v] # NoDir
               PROVE  /\ releases'[v].server # None /\ releases'[v].server = releases'[v].zip
                      /\ provider = "http" => manifest[v] # NoManifest /\ releases'[v].server = manifest[v]["x86_64"]
    BY DEF InstalledAsDeclared, NoManifest, Assets
  <2>1. CASE v = client.version  BY <2>1, <1>2
  <2>2. CASE v # client.version  BY <2>2, <1>2 DEF ClientInv, InstalledAsDeclared
  <2> QED  BY <2>1, <2>2
<1>4. PagesKept'
  BY <1>2 DEF ClientInv, PagesKept
<1> QED  BY <1>2, <1>3, <1>4

LEMMA Fetching ==
  ASSUME ClientInv, UNCHANGED Beside,
         \/ ReuseExistingRelease
         \/ \E c \in Builds \cup {Damaged} : FetchWebserverAsset(c) \/ FetchStaticAsset(c)
         \/ \E f \in Frontends \cup {Official} : ApplyFrontend(f)
  PROVE  ClientInv'
<1>a. client \in Clients /\ tmp \in [Versions -> Dirs \cup {NoDir}] /\ releases \in [Versions -> Dirs \cup {NoDir}]
  BY DEF ClientInv, TypesInv
<1>b. ASSUME client.pc \in Building PROVE client.version \in Versions /\ client.want["server"] \in Builds
                                         /\ client.want["static"] = client.want["server"]
  BY <1>b DEF ClientInv, AskInv, WantInv
<1>c. {"server", "static", "front", "park", "rename", "done"} \subseteq ClientPCs
  BY DEF ClientPCs, Requests
<1>1. CASE ReuseExistingRelease
  <2>0. client.pc = "reuse" /\ client.version \in Versions /\ client.place = "tmp"
    BY <1>1, <1>b, <1>a DEF ReuseExistingRelease, On, Building, ClientInv, DirInv, Clients
  <2>1. CASE Gives  BY <2>1, GivesUp
  <2>2. CASE tmp' = [tmp EXCEPT ![client.version] = Empty] /\ Forward("server") /\ UNCHANGED <<releases, active>>
    <3>1. /\ client' \in Clients /\ client'.pc = "server" /\ client'.version = client.version
          /\ client'.want = client.want /\ client'.place = "tmp"
      BY <1>a, <1>c, <2>0, <2>2, Forwarded DEF Forward
    <3>2. tmp' \in [Versions -> Dirs \cup {NoDir}] /\ tmp'[client.version] \in Dirs
      BY <1>a, <2>0, <2>2, DirTypes
    <3>3. DirInv'
      BY <3>1, <3>2 DEF DirInv, InTmp
    <3>4. InstalledAsDeclared' /\ PagesKept'
      BY <2>2, Declared DEF Beside
    <3> QED  BY <1>a, <2>0, <2>2, <3>1, <3>2, <3>3, <3>4, BuildsOn DEF Building
  <2>3. CASE /\ client' = [client EXCEPT !.pc = "front", !.place = "release"]
             /\ releases[client.version] # NoDir /\ Trusted(releases[client.version])
             /\ UNCHANGED <<tmp, releases, active>>
    <3>1. /\ client' \in Clients /\ client'.pc = "front" /\ client'.version = client.version
          /\ client'.want = client.want /\ client'.place = "release"
      BY <1>a, <1>c, <2>3 DEF Clients
    <3>2. releases[client.version] \in Dirs /\ releases[client.version].pages # None
      BY <1>a, <2>0, <2>3 DEF Trusted
    <3>3. DirInv'
      BY <2>3, <3>1, <3>2 DEF DirInv, InTmp, Laid
    <3>4. InstalledAsDeclared' /\ PagesKept'
      BY <2>3, Declared DEF Beside
    <3> QED  BY <1>a, <2>0, <2>3, <3>1, <3>3, <3>4, BuildsOn DEF Building
  <2> QED  BY <1>1, <2>1, <2>2, <2>3 DEF ReuseExistingRelease
<1>2. ASSUME NEW c, FetchWebserverAsset(c) PROVE ClientInv'
  <2>0. /\ client.pc = "server" /\ client.version \in Versions /\ client.place = "tmp"
        /\ tmp[client.version] \in Dirs /\ client.want["server"] \in Builds
    BY <1>2, <1>b, <1>a DEF FetchWebserverAsset, On, Building, ClientInv, DirInv, InTmp, Clients
  <2>1. CASE Gives  BY <2>1, GivesUp
  <2>2. CASE ~Gives
    <3>0. /\ c = client.want["server"] /\ Forward("static") /\ UNCHANGED <<releases, active>>
          /\ tmp' = [tmp EXCEPT ![client.version].server = c]
      BY <1>2, <2>2 DEF FetchWebserverAsset, WriteAssetResponse
    <3>1. /\ client' \in Clients /\ client'.pc = "static" /\ client'.version = client.version
          /\ client'.want = client.want /\ client'.place = "tmp"
      BY <1>a, <1>c, <2>0, <3>0, Forwarded DEF Forward
    <3>2. tmp' = [tmp EXCEPT ![client.version] = [tmp[client.version] EXCEPT !.server = c]]
      BY <3>0
    <3>3. [tmp[client.version] EXCEPT !.server = c] \in Dirs /\ [tmp[client.version] EXCEPT !.server = c].server = c
      BY <2>0, <3>0 DEF Dirs
    <3>4. /\ tmp' \in [Versions -> Dirs \cup {NoDir}]
          /\ tmp'[client.version] \in Dirs /\ tmp'[client.version].server = c
      BY <1>a, <2>0, <3>2, <3>3
    <3>5. DirInv'
      BY <3>0, <3>1, <3>4 DEF DirInv, InTmp
    <3>6. InstalledAsDeclared' /\ PagesKept'
      BY <3>0, Declared DEF Beside
    <3> QED  BY <1>a, <2>0, <3>0, <3>1, <3>4, <3>5, <3>6, BuildsOn DEF Building
  <2> QED  BY <2>1, <2>2
<1>3. ASSUME NEW c, FetchStaticAsset(c) PROVE ClientInv'
  <2>0. /\ client.pc = "static" /\ client.version \in Versions /\ client.place = "tmp"
        /\ tmp[client.version] \in Dirs /\ client.want["server"] \in Builds
        /\ tmp[client.version].server = client.want["server"]
        /\ client.want["static"] = client.want["server"]
    BY <1>3, <1>b, <1>a DEF FetchStaticAsset, On, Building, ClientInv, DirInv, InTmp, Clients
  <2>1. CASE Gives  BY <2>1, GivesUp
  <2>2. CASE ~Gives
    <3>0. /\ c = client.want["static"] /\ Forward("front") /\ UNCHANGED <<releases, active>>
          /\ tmp' = [tmp EXCEPT ![client.version].zip = c, ![client.version].pages = c]
      BY <1>3, <2>2 DEF FetchStaticAsset, WriteAssetResponse
    <3>1. /\ client' \in Clients /\ client'.pc = "front" /\ client'.version = client.version
          /\ client'.want = client.want /\ client'.place = "tmp"
      BY <1>a, <1>c, <2>0, <3>0, Forwarded DEF Forward
    <3> DEFINE d == [tmp[client.version] EXCEPT !.zip = c, !.pages = c]
    <3>2. tmp' = [tmp EXCEPT ![client.version] = d]
      BY <1>a, <2>0, <3>0
    <3>3. d \in Dirs /\ d.server = c /\ d.zip = c /\ d.pages = c /\ c # None
      BY <2>0, <3>0, BuildsAssumption DEF Dirs
    <3> HIDE DEF d
    <3>4. tmp' \in [Versions -> Dirs \cup {NoDir}] /\ tmp'[client.version] = d
      BY <1>a, <2>0, <3>2, <3>3
    <3>5. DirInv'
      BY <2>0, <3>0, <3>1, <3>3, <3>4 DEF DirInv, InTmp, Laid
    <3>6. InstalledAsDeclared' /\ PagesKept'
      BY <3>0, Declared DEF Beside
    <3> QED  BY <1>a, <2>0, <3>0, <3>1, <3>4, <3>5, <3>6, BuildsOn DEF Building
  <2> QED  BY <2>1, <2>2
<1>4. ASSUME NEW f \in Frontends \cup {Official}, ApplyFrontend(f) PROVE ClientInv'
  <2>0. client.pc = "front" /\ client.version \in Versions
    BY <1>4, <1>b DEF ApplyFrontend, On, Building
  <2>1. CASE Gives  BY <2>1, GivesUp
  <2>2. CASE ~Gives
    <3> DEFINE pc == IF f # Official THEN "park" ELSE IF client.place = "tmp" THEN "rename" ELSE "done"
    <3>0. /\ client' = [client EXCEPT !.pc = pc, !.attempt = 0, !.pages = f]
          /\ UNCHANGED <<tmp, releases, active>>
      BY <1>4, <2>2 DEF ApplyFrontend
    <3>b. pc \in {"park", "rename", "done"} /\ pc \in ClientPCs /\ 0 \in 0..(MaxAttempts - 1)
          /\ (pc = "park" => f \in Frontends) /\ (pc = "rename" => client.place = "tmp")
      BY <1>4, <1>c, ClientBounds
    <3> HIDE DEF pc
    <3>1. /\ client' \in Clients /\ client'.pc = pc /\ client'.version = client.version
          /\ client'.want = client.want /\ client'.place = client.place /\ client'.pages = f
      BY <1>4, <1>a, <3>0, <3>b DEF Clients, Pages
    <3>3. DirInv'
      BY <2>0, <3>0, <3>b, <3>1 DEF ClientInv, DirInv, InTmp, Laid
    <3>4. InstalledAsDeclared' /\ PagesKept'
      BY <3>0, Declared DEF Beside
    <3> QED  BY <1>a, <2>0, <3>0, <3>b, <3>1, <3>3, <3>4, BuildsOn DEF Building
  <2> QED  BY <2>1, <2>2
<1> QED  BY <1>1, <1>2, <1>3, <1>4

(* Exchanging the pages, in the new directory or in the release. *)
LEMMA PutKeeps ==
  ASSUME ClientInv, UNCHANGED Beside, UNCHANGED active, client.pc \in {"park", "place"},
         NEW d \in Dirs, SamePart(Target, d), d.pages # None \/ d.old # None, Put(d)
  PROVE  /\ tmp' \in [Versions -> Dirs \cup {NoDir}] /\ releases' \in [Versions -> Dirs \cup {NoDir}]
         /\ client.place = "tmp" => tmp'[client.version] = d
         /\ client.place = "release" => releases'[client.version] = d
         /\ InstalledAsDeclared' /\ PagesKept'
<1>a. /\ client \in Clients /\ tmp \in [Versions -> Dirs \cup {NoDir}]
      /\ releases \in [Versions -> Dirs \cup {NoDir}] /\ client.version \in Versions
  BY DEF ClientInv, TypesInv, AskInv, Building
<1>1. CASE client.place = "tmp"
  <2>1. tmp' = [tmp EXCEPT ![client.version] = d] /\ UNCHANGED releases
    BY <1>1 DEF Put
  <2>2. InstalledAsDeclared' /\ PagesKept'
    BY <2>1, Declared DEF Beside
  <2> QED  BY <1>a, <1>1, <2>1, <2>2
<1>2. CASE client.place = "release"
  <2>1. releases' = [releases EXCEPT ![client.version] = d] /\ UNCHANGED tmp
    BY <1>2 DEF Put
  <2>2. Target = releases[client.version] /\ Target \in Dirs
    BY <1>2 DEF Target, ClientInv, DirInv
  <2>3. /\ Target.server # None /\ Target.server = Target.zip
        /\ provider = "http" => /\ manifest[client.version] # NoManifest
                                /\ Target.server = manifest[client.version]["x86_64"]
    BY <1>a, <2>2, DirTypes DEF ClientInv, InstalledAsDeclared
  <2>4. /\ d.server # None /\ d.server = d.zip
        /\ provider = "http" => /\ manifest[client.version] # NoManifest
                                /\ d.server = manifest[client.version]["x86_64"]
    BY <2>3 DEF SamePart
  <2>5. /\ releases' \in [Versions -> Dirs \cup {NoDir}] /\ releases'[client.version] = d
        /\ InstalledAsDeclared' /\ PagesKept'
    BY <1>a, <2>1, <2>4, ReleaseChanged DEF Beside
  <2> QED  BY <1>a, <1>2, <2>1, <2>5
<1> QED  BY <1>a, <1>1, <1>2 DEF Clients

LEMMA Placing ==
  ASSUME ClientInv, UNCHANGED Beside,
         ParkStaticDir \/ PlaceStaticDir \/ PlaceFails \/ RenameIntoPlace \/ TakeIntoUse
  PROVE  ClientInv'
<1>a. client \in Clients /\ tmp \in [Versions -> Dirs \cup {NoDir}] /\ releases \in [Versions -> Dirs \cup {NoDir}]
  BY DEF ClientInv, TypesInv
<1>b. ASSUME client.pc \in Building PROVE client.version \in Versions
  BY <1>b DEF ClientInv, AskInv
<1>c. {"place", "rename", "done"} \subseteq ClientPCs
  BY DEF ClientPCs
<1>d. ASSUME client.pc \in {"park", "place"} PROVE Target \in Dirs /\ Laid(Target, client.pc)
  BY <1>d, <1>a DEF Target, ClientInv, DirInv, InTmp, Clients
<1>e. ASSUME client.pc \in {"park", "place"}, client.place = "tmp"
      PROVE  Target.server = client.want["server"] /\ Target.zip = client.want["static"]
  BY <1>e DEF Target, ClientInv, DirInv, InTmp
<1>1. CASE ParkStaticDir
  <2> DEFINE d == [Target EXCEPT !.old = Target.pages, !.pages = None]
  <2>0. client.pc = "park" /\ Put(d) /\ Forward("place") /\ UNCHANGED active /\ client.version \in Versions
    BY <1>1, <1>b DEF ParkStaticDir, On, Building
  <2>1. Target \in Dirs /\ Target.pages # None /\ client.pages \in Frontends
    BY <2>0, <1>d DEF Laid, ClientInv, DirInv
  <2>2. d \in Dirs /\ SamePart(Target, d) /\ d.old # None
    BY <2>1, PagesOf DEF Dirs, Pages, SamePart
  <2> HIDE DEF d
  <2>3. /\ client' \in Clients /\ client'.pc = "place" /\ client'.version = client.version
        /\ client'.want = client.want /\ client'.place = client.place /\ client'.pages = client.pages
    BY <1>a, <1>c, <2>0, Forwarded DEF Forward
  <2>4. /\ tmp' \in [Versions -> Dirs \cup {NoDir}] /\ releases' \in [Versions -> Dirs \cup {NoDir}]
        /\ client.place = "tmp" => tmp'[client.version] = d
        /\ client.place = "release" => releases'[client.version] = d
        /\ InstalledAsDeclared' /\ PagesKept'
    BY <2>0, <2>2, PutKeeps
  <2>5. DirInv'
    BY <1>e, <2>0, <2>1, <2>2, <2>3, <2>4 DEF DirInv, InTmp, Laid, SamePart
  <2> QED  BY <1>a, <2>0, <2>3, <2>4, <2>5, BuildsOn DEF Building
<1>2. CASE PlaceStaticDir
  <2> DEFINE d == [Target EXCEPT !.pages = client.pages, !.old = None]
             pc == IF client.place = "tmp" THEN "rename" ELSE "done"
  <2>0. client.pc = "place" /\ Put(d) /\ Forward(pc) /\ UNCHANGED active /\ client.version \in Versions
    BY <1>2, <1>b DEF PlaceStaticDir, On, Building
  <2>1. Target \in Dirs /\ client.pages \in Frontends /\ client.pages # None
    BY <2>0, <1>d, FrontendsAssumption DEF ClientInv, DirInv
  <2>2. d \in Dirs /\ SamePart(Target, d) /\ d.pages # None
    BY <2>1 DEF Dirs, SamePart
  <2>b. pc \in ClientPCs /\ (pc = "rename" <=> client.place = "tmp") /\ pc \in {"rename", "done"}
    BY <1>c
  <2> HIDE DEF d, pc
  <2>3. /\ client' \in Clients /\ client'.pc = pc /\ client'.version = client.version
        /\ client'.want = client.want /\ client'.place = client.place
    BY <1>a, <2>b, <2>0, Forwarded DEF Forward
  <2>4. /\ tmp' \in [Versions -> Dirs \cup {NoDir}] /\ releases' \in [Versions -> Dirs \cup {NoDir}]
        /\ client.place = "tmp" => tmp'[client.version] = d
        /\ InstalledAsDeclared' /\ PagesKept'
    BY <2>0, <2>2, PutKeeps
  <2>5. DirInv'
    BY <1>e, <2>0, <2>2, <2>b, <2>3, <2>4 DEF DirInv, InTmp, Laid, SamePart
  <2> QED  BY <1>a, <2>0, <2>b, <2>3, <2>4, <2>5, BuildsOn DEF Building
<1>3. CASE PlaceFails
  <2> DEFINE d == [Target EXCEPT !.pages = Target.old, !.old = None]
  <2>0. client.pc = "place" /\ UNCHANGED active /\ client.version \in Versions /\ client' = Resting
    BY <1>3, <1>b DEF PlaceFails, On, Building
  <2>1. CASE client.place = "tmp"
    <3>1. tmp' \in [Versions -> Dirs \cup {NoDir}] /\ UNCHANGED releases
      BY <1>3, <1>a, <2>1 DEF PlaceFails
    <3> QED  BY <1>a, <2>0, <3>1, Declared, AtRest DEF Beside, ClientInv, TypesInv
  <2>2. CASE client.place # "tmp"
    <3>1. Target \in Dirs /\ Target.old # None /\ Target.old \in Pages
      BY <2>0, <1>d DEF Laid, Dirs, Pages
    <3>2. d \in Dirs /\ SamePart(Target, d) /\ d.pages # None
      BY <3>1, PagesOf
    <3>3. Put(d)
      BY <1>3, <2>2 DEF PlaceFails
    <3> HIDE DEF d
    <3>4. /\ tmp' \in [Versions -> Dirs \cup {NoDir}] /\ releases' \in [Versions -> Dirs \cup {NoDir}]
          /\ InstalledAsDeclared' /\ PagesKept'
      BY <2>0, <3>2, <3>3, PutKeeps
    <3> QED  BY <2>0, <3>4, AtRest DEF ClientInv, TypesInv
  <2> QED  BY <2>1, <2>2
<1>4. CASE RenameIntoPlace
  <2> DEFINE d == tmp[client.version]
  <2>0. /\ client.pc = "rename" /\ Forward("done") /\ UNCHANGED active /\ client.version \in Versions
        /\ releases' = [releases EXCEPT ![client.version] = d]
        /\ tmp' = [tmp EXCEPT ![client.version] = NoDir]
    BY <1>4, <1>b DEF RenameIntoPlace, On, Building
  <2>1. client.place = "tmp"
    BY <1>a, <2>0 DEF ClientInv, DirInv, Clients
  <2>2. /\ d \in Dirs /\ d.server = client.want["server"] /\ d.zip = client.want["static"] /\ d.pages # None
    BY <2>0, <2>1 DEF ClientInv, DirInv, InTmp, Laid
  <2>3. /\ d.server # None /\ d.server = d.zip
        /\ provider = "http" => /\ manifest[client.version] # NoManifest
                                /\ d.server = manifest[client.version]["x86_64"]
    BY <2>0, <2>2, BuildsAssumption DEF ClientInv, WantInv, Building
  <2> HIDE DEF d
  <2>4. /\ releases' \in [Versions -> Dirs \cup {NoDir}]
        /\ InstalledAsDeclared' /\ PagesKept'
    BY <2>0, <2>2, <2>3, ReleaseChanged DEF Beside
  <2>5. tmp' \in [Versions -> Dirs \cup {NoDir}]
    BY <1>a, <2>0
  <2>6. /\ client' \in Clients /\ client'.pc = "done" /\ client'.version = client.version
        /\ client'.want = client.want /\ client'.place = client.place
    BY <1>a, <1>c, <2>0, Forwarded DEF Forward
  <2>7. DirInv'
    BY <2>6 DEF DirInv, InTmp
  <2> QED  BY <1>a, <2>0, <2>4, <2>5, <2>6, <2>7, BuildsOn DEF Building
<1>5. CASE TakeIntoUse
  <2>1. /\ client.version \in Versions /\ active' = client.version /\ client' = Resting
        /\ UNCHANGED <<tmp, releases>>
    BY <1>5, <1>b DEF TakeIntoUse, On, Building
  <2> QED  BY <1>a, <2>1, Declared, AtRest DEF Beside
<1> QED  BY <1>1, <1>2, <1>3, <1>4, <1>5

-----------------------------------------------------------------------------
LEMMA SupplyInvInit == SupplyInit => SupplyInv
<1>1. PublisherInit => PublishedIsOffered
  BY DEF PublisherInit, PublishedIsOffered
<1> QED  BY <1>1, InitInv, BuildsInvInit, ClientInvInit DEF SupplyInit, SupplyInv, ClientInv

LEMMA SupplyInvStep == SupplyInv /\ [SupplyNext]_vars => SupplyInv'
<1> SUFFICES ASSUME SupplyInv, [SupplyNext]_vars PROVE SupplyInv'
  OBVIOUS
<1>a. ClientInv /\ PublisherInv /\ BuildsInv /\ PublishedIsOffered
  BY DEF SupplyInv, ClientInv
<1>b. ASSUME UNCHANGED pubVars PROVE PublisherInv' /\ PublishedIsOffered' /\ BuildsInv'
  <2>1. PublisherInv' /\ PublishedIsOffered'
    BY <1>a, <1>b, NextKeepsInv, OfferedKept
  <2>2. BuildsInv'
    BY <1>a, <1>b DEF BuildsInv, pubVars, NoManifest, Assets, Sound, CollectAssets
  <2> QED  BY <2>1, <2>2
<1>c. ASSUME UNCHANGED Outside PROVE UNCHANGED Beside /\ UNCHANGED pubVars
  BY <1>c DEF Outside, Beside, pubVars
<1>1. ASSUME NEW p \in Writers[provider], PublisherStep(p),
             UNCHANGED <<provider, github, client, tmp, releases, active, reuploads, crashes>>
      PROVE  SupplyInv'
  <2>1. p \in Publishers
    BY <1>a, ProvidersAssumption DEF ClientInv, TypesInv
  <2>2. PublisherInv' /\ PublishedIsOffered'
    BY <1>1, <1>a, <2>1, NextKeepsInv, OfferedKept DEF PublisherNext
  <2>3. BuildsInv'
    BY <1>1, <1>a, <2>1, BuildsInvStep
  <2>4. ClientInv'
    BY <1>1, <1>a, <2>1, PublishersApart
  <2> QED  BY <2>2, <2>3, <2>4 DEF SupplyInv, ClientInv
<1>2. ASSUME \/ \E v \in Versions \cup {0} : Update(v)
             \/ ClientStep \/ Confirm \/ Crash
             \/ \E n \in Names, b \in Builds : Reupload(n, b)
      PROVE  SupplyInv'
  <2>1. UNCHANGED pubVars
    BY <1>2 DEF Update, Confirm, Crash, Reupload, ClientStep, HttpStep, GithubStep, BuildStep, ValidateRepository,
                Latest, ReleaseManifest, GithubRelease, ParseChecksums, TryAgain, RequestFails,
                ReuseExistingRelease, FetchWebserverAsset, FetchStaticAsset, ApplyFrontend, ParkStaticDir,
                PlaceStaticDir, PlaceFails, RenameIntoPlace, TakeIntoUse, Outside
  <2>2. CASE (\E v \in Versions \cup {0} : Update(v)) \/ ValidateRepository \/ Latest \/ GithubRelease \/ Confirm
    <3>1. UNCHANGED Outside
      BY <2>2 DEF Update, ValidateRepository, Latest, GithubRelease, Confirm
    <3> QED  BY <1>a, <1>b, <2>1, <2>2, <3>1, Asking DEF SupplyInv, ClientInv
  <2>3. CASE ReleaseManifest \/ ParseChecksums
    <3>1. UNCHANGED Outside
      BY <2>3 DEF ReleaseManifest, ParseChecksums
    <3> QED  BY <1>a, <1>b, <2>1, <2>3, <3>1, Resolving DEF SupplyInv, ClientInv
  <2>4. CASE TryAgain \/ RequestFails \/ Crash \/ \E n \in Names, b \in Builds : Reupload(n, b)
    BY <1>a, <1>b, <2>1, <2>4, Troubles DEF SupplyInv, ClientInv
  <2>5. CASE \/ ReuseExistingRelease
             \/ \E c \in Builds \cup {Damaged} : FetchWebserverAsset(c) \/ FetchStaticAsset(c)
             \/ \E f \in Frontends \cup {Official} : ApplyFrontend(f)
    <3>1. UNCHANGED Outside
      BY <2>5 DEF ReuseExistingRelease, FetchWebserverAsset, FetchStaticAsset, ApplyFrontend
    <3> QED  BY <1>a, <1>b, <1>c, <2>1, <2>5, <3>1, Fetching DEF SupplyInv, ClientInv
  <2>6. CASE ParkStaticDir \/ PlaceStaticDir \/ PlaceFails \/ RenameIntoPlace \/ TakeIntoUse
    <3>1. UNCHANGED Outside
      BY <2>6 DEF ParkStaticDir, PlaceStaticDir, PlaceFails, RenameIntoPlace, TakeIntoUse
    <3> QED  BY <1>a, <1>b, <1>c, <2>1, <2>6, <3>1, Placing DEF SupplyInv, ClientInv
  <2> QED  BY <1>2, <2>2, <2>3, <2>4, <2>5, <2>6, SMTT(30) DEF ClientStep, HttpStep, GithubStep, BuildStep
<1>3. CASE UNCHANGED vars
  <2>1. ClientInv'
    BY <1>a, <1>3, Declared DEF vars, pubVars, ClientInv, TypesInv, AskInv, WantInv, DirInv, InTmp, NoManifest, Assets
  <2> QED  BY <1>b, <1>3, <2>1 DEF vars, SupplyInv, ClientInv
<1> QED  BY <1>1, <1>2, <1>3 DEF SupplyNext

LEMMA SupplyInvAlways == SupplySpec => []SupplyInv
  BY SupplyInvInit, SupplyInvStep, PTL DEF SupplySpec

(* While clients resolve, download and install, the bucket stays what      *)
(* PublishedWhole and PublishedOffered say, and every archive that was     *)
(* published passes the client's own checks (validate_static_archive,      *)
(* extract_static_archive).                                                *)
THEOREM PublishedCanBeInstalled == SupplySpec => []PublisherInvariant
<1>1. SupplyInv => PublisherInvariant
  BY BuildsInvUnpacks DEF SupplyInv, PublisherInvariant, PublisherInv, TypeOK, TypesInv, Clients
<1> QED  BY <1>1, SupplyInvAlways, PTL

(* Whatever is uploaded, damaged, uploaded again or interrupted: the files *)
(* of an installed release come from one build, with an HTTP repository    *)
(* the one of its manifest, and its pages are never lost (build_release,   *)
(* write_asset_response, replace_static_dir).                              *)
THEOREM InstalledBelongsTogether == SupplySpec => []ReleaseInvariant
<1>1. SupplyInv => ReleaseInvariant
  BY DEF SupplyInv, ReleaseInvariant
<1> QED  BY <1>1, SupplyInvAlways, PTL
=============================================================================
