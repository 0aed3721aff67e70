\* Two books, two members in turn, one backup path: restores at any moment.
CONSTANTS
  i0 = i0
  i1 = i1
  NO_ISBN = i0
  Isbn <- TwoIsbns
  Email = {e1}
  Phone = {p1}
  MaxBookId = 2
  MaxMemberId = 2
  MaxLoanId = 3
  MAX_BOOKS_PER_MEMBER = 2
  MAX_RENEWAL_COUNT = 2
  DEFAULT_LOAN_DAYS = 1
  Copies = {1, 2}
  LoanDays = {0}
  FirstDay <- Opening
  MaxDay = 20000
  LastDay = 20002
  BackupPaths = {f1}
SPECIFICATION Spec
INVARIANTS CopiesConserved NoDuplicateLoan BackupsSound
PROPERTIES KeepsPromise
