\* Two threads append to one chain while adapters are registered.
CONSTANTS
  c1 = c1
  c2 = c2
  s1 = s1
  k1 = k1
  k2 = k2
  Callers = {c1, c2}
  Catalog <- TwoKinds
  Sessions = {s1}
  Kernels = {k1, k2}
  Strict = TRUE
  Requests <- FewRequests
  MaxChain = 2
SYMMETRY Interchangeable
SPECIFICATION Spec
INVARIANTS
  ChainsStand
  AllowedIsBound
