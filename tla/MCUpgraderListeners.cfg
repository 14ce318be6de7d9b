CONSTANTS
  c1 = c1  c2 = c2  c3 = c3
  n1 = n1  n2 = n2
  Version <- MCVersion
  Creation <- MCCreation
  Name <- MCName
  NameOf <- MCNameOf
  MaxProcess = 2
SPECIFICATION UpgraderSpec
INVARIANT OldListenersDestroyed
CHECK_DEADLOCK FALSE
