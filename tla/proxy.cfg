SPECIFICATION FairProxySpec
CONSTANTS
  Providers = {"none", "self", "staging", "production", "import"}
  Pairs = {p1, p2, p3, p4, p5, p6, p7}
  Imported = {p7}
  NoPair = NoPair
  MaxTroubles = 2
INVARIANTS ServesTheDisk DoneHoldsIssued
PROPERTIES NoDowngrade ProxyConverges
