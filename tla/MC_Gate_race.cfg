CONSTANTS
  p1 = p1
  p2 = p2
  k1 = k1
  r1 = r1
  r2 = r2
  NULL = NULL
  Pass = {p1, p2}
  Ticket = {k1}
  MaxScans = 1
  MaxSends = 3
  Request = {r1, r2}
SPECIFICATION Spec
SYMMETRY Symmetry
INVARIANTS TypeOK TrailMatchesTicket ScanAdmitsOnce AdmittedAreLive ClearedPassStandsNowhere UndoneScanNeverAdmits OneAnswerPerScan
PROPERTIES RevokedPassAdmitsNobody
