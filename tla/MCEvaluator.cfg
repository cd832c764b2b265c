\* Every graph of up to three sources, references to missing ones included.
SPECIFICATION Spec
CONSTANTS
  root = h1
  requested = "INFORM"
  Hashes = {h1, h2, h3}
  Operations = {"INFORM", "EXECUTE"}
  Qualifiers = {"q"}
  Unknowns = {"u"}
  Sources <- FourSources
  Grants <- OneGrant
INVARIANTS
  DecisionIsExact
  RootCarriesAll
PROPERTIES
  Terminates
