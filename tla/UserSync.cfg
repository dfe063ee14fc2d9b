SPECIFICATION FairSpec
CONSTANTS
  r1 = r1  r2 = r2  r3 = r3
  ann1 = ann1  ann2 = ann2  bob1 = bob1
  annMail = annMail  annPhone = annPhone  annPhone91 = annPhone91
  annAbroad = annAbroad  bobPhone = bobPhone  number = number  bobNumber = bobNumber
  Ann = Ann  Bob = Bob
  Nobody = Nobody
  Requests <- MCRequests
  Closers = {r3}
  MaxRows = 5
  Accounts <- MCAccounts
  Emails <- MCEmails
  Phones <- MCPhones
  Numbers = {number, bobNumber}
  People = {Ann, Bob}
  Norm <- MCNorm
  PersonOf <- MCPersonOf
  Presented <- MCPresented
  Legacy <- MCLegacy
INVARIANTS RowsBelongToOnePerson ServedRowIsTheAccounts
PROPERTIES NoNewRowForAClaimedAccount ActiveRowsKeepAnAccount RequestsEnd
CHECK_DEADLOCK FALSE
