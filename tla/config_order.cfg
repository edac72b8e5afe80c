\* Two engines report one model.
CONSTANTS
  e1 = e1
  e2 = e2
  a1 = a1
  s = s
  m = m
  c = c
  x = x
  d = d
  u = u
  Order <- ThreeEngines
  ApiEngines = {a1}
  Discovering = {e2}
  Static <- OneStatic
  Served <- NoServed
  StartCmd <- OneStartCmd
  Aliases <- TwoAliases
  NoOwner = NoOwner
  MayList <- Listable
  MayTag <- Taggable
SPECIFICATION CatalogSpec
INVARIANT ConfigOrder
