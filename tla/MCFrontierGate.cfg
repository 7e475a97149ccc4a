\* Two handlers, one of them possibly given up, and a proposal that fails each gate.
CONSTANTS
  h1 = h1
  h2 = h2
  Handlers = {h1, h2}
  Proposals <- OneDefect
  MaxAsked = 1
SYMMETRY Interchangeable
SPECIFICATION Spec
INVARIANTS
  SentIsGated
  ReadyIsSettled
