CONSTANTS
  c1 = c1
  c2 = c2
  s1 = s1
  s2 = s2
  s3 = s3
  t1 = t1
  t2 = t2
  Allocators = {t1, t2}
  PAGE_SIZE = 12
  sizes <- MCsizes
  NPAGEREFS_PER_PAGE = 2
  NUM_PAGEREFPAGES = 2
  lastpage = 6
  Requests = {4, 5, 13}
  MaxBlocks = 3
  Cpus = {c1, c2}
  SplThreads = {s1, s2, s3}
  Spinlocks = {l}
  BootThread <- MCBoot
  ConThreads = {t1, t2}
  CONSOLE_INPUT_BUFFER_SIZE = 3
  VmCpus = {c1, c2}
  Progs = {t1, t2}
  Menu = menu
  Strays = 1
  VM_PAGE = 2
  USERSTACK = 6
  DUMBVM_STACKPAGES = 1
  NUM_TLB = 2
  lastframe = 9
  WORDFRAMES = 16
  Images <- MCImages
  HALF_BITS = 3
  Sample = {0, 1, 7}
SPECIFICATION KernelSpec
SYMMETRY Perms
INVARIANTS
  HeapSound
  InterruptStateExact
  OutputExact
  InputExact
  ProgramsIsolated
  QuotientExact
  WideExact
CHECK_DEADLOCK FALSE
