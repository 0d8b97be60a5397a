SPECIFICATION Spec
SYMMETRY Interchangeable
CONSTANTS
  t1 = t1
  t2 = t2
  s1 = s1
  s2 = s2
  r1 = r1
  e1 = e1
  e2 = e2
  Nobody = Nobody
  Tenants = {t1, t2}
  Sagas = {s1, s2}
  Requests = {r1}
  Emails = {e1, e2}
  Tiers = {"starter", "business"}
  MaxSlugs = 2
  MaxCalls = 2
  MaxFaults = 0
INVARIANTS AddressInOneFirm
CHECK_DEADLOCK FALSE
