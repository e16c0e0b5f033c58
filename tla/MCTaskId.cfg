SPECIFICATION IdSpec
CONSTANTS
  MaxId = 5
  PAGE_SIZE = 1
  KERNEL_STACK_SIZE = 2
  USER_STACK_SIZE = 2
  TRAMPOLINE = 100
INVARIANTS
  StacksDisjoint
