SPECIFICATION Spec
CONSTANTS
  Programs <- MCPrograms
  Targets = {"macho64", "elf64-host", "elf64-host-abi", "elf64"}
  W = 6
  MaxWords = 16
  MaxTrace = 12
INVARIANTS
  
  StackBalanced
  GuardAlive
PROPERTY Halts
