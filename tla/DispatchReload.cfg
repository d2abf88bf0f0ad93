SPECIFICATION Spec
CONSTANTS
  p1 = p1
  p2 = p2
  p3 = p3
  k1 = k1
  k2 = k2
  Requests = {r1}
  Providers = {p1, p2, p3}
  Keys = {k1, k2}
  Absent = Absent
  Boot <- MCBoot
  Reloads <- MCReloads

INVARIANTS AnsweredOnce ReportedAsAnswered FallbackOnlyUnanswered DirectCredentialsLive
