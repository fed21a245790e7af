\* The x86 build: char is signed.
CONSTANTS
  Inputs <- MCInputs
  Seeds <- MCSeeds
  CharIsSigned = TRUE
SPECIFICATION Spec
INVARIANT MatchesSpecOnAsciiTail
