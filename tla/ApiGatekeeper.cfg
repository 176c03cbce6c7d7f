SPECIFICATION Spec
CONSTANTS
  m1 = m1
  m2 = m2
  m3 = m3
  m4 = m4
  d1 = d1
  d2 = d2
  model = model
  search = search
  NoCall = NoCall
  Calls <- Asked
  Services = {model, search}
  ServiceOf <- AskedServices
  Drainers = {d1, d2}
  Limits <- LimitsFile
  Default = "default"
  Minute = 1
  Hour = 3
  MaxTime = 3
SYMMETRY Symmetry
INVARIANTS WindowsRespected SlotsConserved OverflowConserved CapRespected
PROPERTY ImplementsCallGate
