CONSTANTS
  PprfChoices <- MCValid
SPECIFICATION PprfSpec
INVARIANTS
  Punctured
  PathHidden
