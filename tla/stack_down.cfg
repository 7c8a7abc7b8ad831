SPECIFICATION Spec
CONSTANTS
  p1 = p1  p2 = p2  p3 = p3  x = x
  Pods = {p1, p2}
  Others = {}
  Graphs <- Chain
  Commands = {"up", "down"}
  MayFail = FALSE
  MayDrift = TRUE
PROPERTIES
  TearsDown
