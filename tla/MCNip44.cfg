\* A seal is 343 bytes beside its content, with a ten-digit created_at.
CONSTANTS
  Null = Null
  NIP44_MAX_PLAINTEXT_SIZE = 1073741823
  SealBytes = 343
  Texts <- TheTexts
  Ceilings <- TheCeilings
SPECIFICATION CodecSpec
INVARIANTS PayloadsAreFaithful GiftWrapsHoldWhatFits
CHECK_DEADLOCK FALSE
