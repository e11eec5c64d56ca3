SPECIFICATION Spec
CONSTANTS
  child = child
  parent = parent
  Zems = {child, parent}
  Children = {t1, t2}
  Main = main
INVARIANT MainPrintsFirst
