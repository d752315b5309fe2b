\* A 98713A whose transceiver answers at address 1: mxfe_phyinitmii talks to
\* another address and the modes that were selected are never programmed.
CONSTANTS
  Cards <- MCOtherAddr
  Partners <- MCPartners
  Properties <- MCProperties
  Tunables = {}
SPECIFICATION LinkSpec
INVARIANT Programmed
