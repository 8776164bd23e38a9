CONSTANTS
  Var = {"TV_SEC_DELTA", "TV_NSEC_DELTA"}
  Value = {0, 1}
  Arch = "amd64"
  Caller = {c1, c2}
  Nobody = Nobody
SPECIFICATION FairSpec
INVARIANTS
  TypeOK
  InjectMeansAll
  RecoverTriesBoth
PROPERTY
  CallReturns
