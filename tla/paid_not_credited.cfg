SPECIFICATION FairBackendSpec
CONSTANTS
  a1 = a1
  a2 = a2
  a3 = a3
  ann = ann
  bob = bob
  k = k
  g = g
  NoKey = NoKey
  NoRef = NoRef
  Account = {a1, a2, a3}
  User = {ann, bob}
  Key = {k}
  Reference = {g}
  Request = {r1, r2}
  Charge = {c1}
  ChargeRef <- MCChargeRef
  ByHand = {}
  Job <- BackendJobs
  Fee = {1}
  Owner <- MCOwner
  CurrencyOf <- MCCurrencyOf
  Opening <- TwoOpen
  PoolMax = 3
  Fault = {}
  Discipline = "none"
PROPERTIES PaidIsCredited
