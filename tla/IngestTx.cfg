SPECIFICATION FairSpec
CONSTANTS
  Txs = {t1, t2}
  Deleter = Deleter
  Labels = {l1, l2}
  w1 = w1
  w2 = w2
  Words = {w1, w2}
  Contents <- MCContents
  TermsCap = 1
  None = None
INVARIANTS TypeOK VocabularyExact
PROPERTIES TermsFit IngestEnds
