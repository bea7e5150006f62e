SPECIFICATION AccountSpec
CONSTANTS
  User = {u1}
  NoUser = NoUser
  Wallet = {w1}
  Nonce = {n1, n2}
  NoNonce = NoNonce
  Session = {s1, s2}
PROPERTIES DeletionIsPermanent
CHECK_DEADLOCK FALSE
