CONSTANTS
  Subscriptions = {s1, s2}
  NoSubscription = NoSubscription
  MaxManifest = 2
  MaxEntries = 3
  MaxEvents = 2
SPECIFICATION FairSpec
INVARIANTS
  FetchedIsMember
  NeverWrongManifest
  NoManifestLost
PROPERTIES
  ManifestsInOrder
  ManifestReachesMembers
