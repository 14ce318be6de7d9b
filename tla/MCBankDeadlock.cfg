SPECIFICATION Spec
CONSTANTS
  a = a
  b = b
  teller1 = teller1
  teller2 = teller2
  x1 = x1
  x2 = x2
  x3 = x3
  Account <- MCAccount
  BankDB = BankDB
  Teller <- MCTeller
  Transfer <- MCTransfer
  TellerOf <- MCTellerOf
  From <- MCFrom
  To <- MCTo
  Amt <- MCAmt
  Setup <- MCSetup
  Rounds <- MCRounds
INVARIANTS
  LocksSafe
PROPERTIES
  ImplementsBank
  HoldersComplete
CHECK_DEADLOCK FALSE
