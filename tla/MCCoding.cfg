\* Up to three items; values at the 1/2-byte and 4/5-byte varint borders,
\* strings with empty, one-byte and two-byte-length prefixes.  The decoder
\* may be handed any prefix of the buffer.
CONSTANTS
  Values = {0, 128, 268435456}
  Strings <- MCStrings
  MaxItems = 3
  ProbeValues = {0, 1, 127, 128, 300, 16383, 16384, 2097151, 2097152, 268435455, 268435456, 2147483647}
SPECIFICATION Spec
CHECK_DEADLOCK FALSE
INVARIANT StreamRoundTrip
INVARIANT FailsOnlyWhenTruncated
INVARIANT CodecAgree
