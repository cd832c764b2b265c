\* Nine submissions under five bundles, over five times the life of an observation.
SPECIFICATION Spec
CONSTANTS
  Issuer = "issuer"
  Wildcard = "github-repository:*"
  NamespaceScopes = {"repository"}
  Bundles <- SomeBundles
  Submissions <- SomeSubmissions
  Payments <- SomePayments
  EvidenceLife = 1
  QuoteLife = 3
  MaxValidity = 3
  PaymentWindow = 3
  MaxTime = 5
INVARIANTS TypeOK IssuedVerifies MarkIsBacked ResolutionUsable
CHECK_DEADLOCK FALSE
