\* One handler and a proposal that passes every gate.
CONSTANTS
  h1 = h1
  h2 = h2
  Handlers = {h1}
  Proposals <- CleanOnly
  MaxAsked = 1
SPECIFICATION Spec
INVARIANTS
  IssuedReceiptVerifies
