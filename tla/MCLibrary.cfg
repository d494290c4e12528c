\* Two operations on any version of a map of up to nine keys or a vector of up to nine
\* elements; texts of up to five characters, and documents of up to three lines;
\* up to three arguments.
SPECIFICATION MCSpec
CONSTANTS
  Keys <- MCKeys
  HashOf <- MCHash
  MapBits = 3
  VectorBits = 1
  MaxLen = 9
  MaxOps = 2
INVARIANT VersionsPersist
PROPERTIES TextRoundTrips PartialIsExact ExactArithmetic ValuesAreCoherent MarkdownKeepsMeaning GlobIsExact
CHECK_DEADLOCK FALSE
