\* The x86 build: char is signed.  Strings up to one word and a tail.
CONSTANTS
  Inputs <- MCInputs
  Seeds <- MCSeeds
  CharIsSigned = TRUE
SPECIFICATION Spec
INVARIANT PortableHash
