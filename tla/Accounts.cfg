\* Any three calls about two e-mail addresses.
SPECIFICATION Spec
CONSTANTS
  NoRequest = NoRequest
  NoAccount = NoAccount
  Null = Null
  Old = Old
  ada = ada
  plain = plain
  suffixed = suffixed
  Emails = {ada, bob}
  Names = {plain, suffixed}
  Phones = {p1}
  AccountCall = {c1, c2, c3}
  Calls = {c1, c2, c3}
  Prefix <- PrefixOf
  Starts <- AnyStart
  MaxTurns = 1
  MaxCalls = 3
  MaxInFlight = 2
  MaxFaults = 1
SYMMETRY Symmetry
CHECK_DEADLOCK FALSE
INVARIANTS
  TypeOK
  AccountsAreDistinct
  VerificationsWereMailed
  MailedCodesWorkOnce
PROPERTIES
  RetiredTokensStayRetired
