CONSTANTS
  ann = ann  bob = bob  l1 = l1  l2 = l2  c1 = c1  c2 = c2
  Users = {ann, bob}
  Links = {l1, l2}
  Consents = {c1, c2}
  NoUser = NoUser  NoLink = NoLink  NoConsent = NoConsent
  Services = {"spotify", "github"}
SPECIFICATION Spec
INVARIANTS KnownOnceShown LateRefused SuccessStored
PROPERTIES ImplementsLogin
SYMMETRY Symmetry
CHECK_DEADLOCK FALSE
