SPECIFICATION Spec
CONSTANTS
  Names <- MCNames
  Replies <- MCReplies
  Csvs <- MCCsvs
  Sizes = {1, 2, 3}
INVARIANTS
  DistanceIsLevenshtein
  TypoIsOneEdit
  ReplyFollowsTable
  CountersByFile
  FiledIsCounted
  BatchesAreTheFile
