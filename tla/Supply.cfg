SPECIFICATION SupplySpec
CONSTANTS
  Publishers = {"p1", "p2"}
  Versions = {1, 2, 3}
  Builds = {"b1", "b2", "dots", "large"}
  Order <- MCOrder
  ArchiveOf <- MCArchiveOf
  MaxTries = 2
  MaxPublishes <- MCMaxPublishes
  MaxBytes = 50
  Providers = {"http", "github", "none"}
  Writers <- MCWriters
  GithubReleases <- MCGithubReleases
  Frontends = {"custom", "draft", "moved"}
  SourceOf <- MCSourceOf
  MaxAttempts = 2
  MaxReuploads = 1
  MaxCrashes = 1
INVARIANTS PublisherInvariant ReleaseInvariant
PROPERTIES OfferOnlyGrows UpdateEnds
CHECK_DEADLOCK FALSE
