\* Two requests for two containers of one pod.
CONSTANTS
  Requests = {r1, r2}
  r1 = r1
  Pods = {p1}
  Containers = {c1, c2}
  c1 = c1
  NoOne = NoOne
  MaxRestarts = 0
SPECIFICATION MCSpec
INVARIANT SessionServesItsContainer
CHECK_DEADLOCK FALSE
