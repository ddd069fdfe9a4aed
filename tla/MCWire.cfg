\* The wire reader on every short buffer, and on what the demo exporter writes.
SPECIFICATION Spec
CONSTANTS
  GroupBits = 2
  LongBytes = 3
  ShortBytes = 2
  Buffers <- ShortOrLong
  Messages <- OneOrTwo
INVARIANTS TypeOK RoundTrip CutIsTruncated
PROPERTY FollowsGrammar
