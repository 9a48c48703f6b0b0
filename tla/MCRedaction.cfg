\* Messages and answers of up to three pieces, or five numbers and streets.
SPECIFICATION Spec
CONSTANTS
  None = None
  Texts <- AllTexts
  ProfileRedacts = TRUE
INVARIANTS TypeOK CardHidden PhoneHidden AddressHidden OthersUntouched
\* a text is stored or shown once
CHECK_DEADLOCK FALSE
