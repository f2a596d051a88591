CONSTANTS
  typed = typed  plain = plain  other = other  pw1 = pw1  pw2 = pw2  ann = ann  bob = bob
  phone = phone  laptop = laptop  writer = writer  key1 = key1  w1 = w1  w2 = w2
  MaxUsers = 2  Addresses = {typed, plain, other}  Normal <- Spelled  Passwords = {pw1, pw2}
  SocialIds = {ann, bob}  Devices = {phone, laptop}  NoRow = NoRow  None = None
  Keys = {NoKey, key1}  NoKey = NoKey  Blank = Blank  Texts = {Blank, writer}
  Workers = {w1, w2}  Scenes <- Mixes  Identities <- People
  emailCodeTTL = 1  maxResetAttempts = 2
  MaxRequests = 4  MaxCodes = 3  MaxRows = 4  MaxTime = 2  MaxAborts = 1
SPECIFICATION Spec
SYMMETRY WorkerSymmetry
INVARIANTS TypeOK VerifiedIsProven ResetCodeHolds AccountHasPlan LinkIsVouched
           OneAccountPerIdentity MintedTokenWorks
PROPERTY DeletionAllOrNothing
CHECK_DEADLOCK FALSE
