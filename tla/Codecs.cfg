CONSTANTS
  Samples <- MCSamples
  Qualifiers <- MCQualifiers
  Numbers = {1, 254}
  Beyond = {0, 4, 13, 255}
  Replies <- MCReplies
  Envelopes <- MCEnvelopes
  Alphabet = {13, 65, 127}
  MaxText = 9
  Words <- MCWords
  MaxWords = 4
SPECIFICATION AllSpec
INVARIANTS Understood CutIsNoticed ResponseFits RefusalAnswered SeptetsSurvive TokensSurvive
