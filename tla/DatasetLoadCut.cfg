SPECIFICATION LoadSpec
CONSTANTS
  Lower <- LowerOf
  Upper <- UpperOf
  FirstWord <- FirstWordOf
  Masked <- MaskedText
  Segments <- SegmentsOf
  Times <- TimesData
  Numbers <- NumbersData
  Mapped <- MappedData
  Untranslated <- RefusedData
  Exports <- CutExports
  Posts <- PostsData
  Alarming <- AlarmingData
  Trust <- TrustData
  Linked <- LinkedData
  MaxLoads = 2
  MaxPosts = 2
  MaxMishaps = 1
  MaxKills = 1
CHECK_DEADLOCK FALSE
INVARIANT BadRecordsArePassed
