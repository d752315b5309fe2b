\* Every kind of card and of partner; ndd toggles two of the six parameters,
\* one mode and the negotiation itself.
CONSTANTS
  Cards <- MCCards
  Partners <- MCPartners
  Properties <- MCProperties
  Tunables = {"aneg", "100fdx"}
SPECIFICATION LinkSpec
INVARIANTS
  LinkTypeOK
  Programmed
  LinkTracked
  StoppedDown
  LinkAnnounced
PROPERTY LinkTruth
