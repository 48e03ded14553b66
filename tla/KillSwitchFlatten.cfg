\* An entry and an exit of one lot, one lot held, and a flatten request.
CONSTANTS
  e1 = e1
  x1 = x1
  r1 = r1
  Orders = {e1, x1}
  Live = {}
  Exits = {x1}
  Runs = {r1}
  Lots0 = 1
  Requests <- MCFlatten
SPECIFICATION Spec
PROPERTIES FlattenReducesOnly
