\* The messages of a relay whose maxMessageBytes is negative.
SPECIFICATION Spec
CONSTANTS
  MaxEncryptedSequence = 7
  Configured <- NegativeQuota
  Rests <- MCRests
INVARIANT
  QuotaIsMinimum
