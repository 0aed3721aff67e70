\* Two books and two members up to the end of the calendar: every call but the
\* copies of the file.
CONSTANTS
  i0 = i0
  i1 = i1
  NO_ISBN = i0
  Isbn <- TwoIsbns
  Email = {e1, e2}
  Phone = {p1}
  MaxBookId = 2
  MaxMemberId = 2
  MaxLoanId = 3
  MAX_BOOKS_PER_MEMBER = 1
  MAX_RENEWAL_COUNT = 2
  DEFAULT_LOAN_DAYS = 1
  Copies = {1, 2}
  LoanDays = {0, 1}
  FirstDay <- Opening
  MaxDay = 20002
  LastDay = 20002
  BackupPaths = {}
SPECIFICATION Spec
INVARIANTS TypeOK NoOrphanLoan MemberLimit
PROPERTIES LedgerOnlyGrows KeepsPromise
