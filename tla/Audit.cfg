\* Three movements at three times while a wallet is reconciled and listed, in
\* pages of at most three entries; amounts of nine bits.
CONSTANTS
  MaxInt = 255
  Movement = {2, 3, 4}
  Debit = {2}
  text <- MCText
  Time = {0, 1, 2}
  Opening = 101
  Limit <- MCLimit
  MaxPage = 3
  DefaultPage = 2
  Tampering <- MCTampering
SPECIFICATION Spec
INVARIANTS
  ReportIsExact
  NoEntryTwice
  NoEntryLost
