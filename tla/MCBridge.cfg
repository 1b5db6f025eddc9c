SPECIFICATION Spec
CONSTANTS
  w1 = w1  w2 = w2  m1 = m1  group = group  peer1 = peer1  peer2 = peer2
  Worker = {w1, w2}
  Config <- Usual
  VlanId = {100, 200}
  Mac = {m1, group}
  Group = {group}
  Stacks <- TagStacks
  Age = 2
  Late = 1
  MaxFrames = 2
  None = None
SYMMETRY WorkerSymmetry
INVARIANTS TypeOK NoReflection SoleStaysInVlan Forgotten
