\* Three callers and two hard links; a file is replaced twice, by databases of
\* the same or another salt, passphrase and version.
CONSTANTS
  file = file
  Callers = {caller1, caller2, caller3}
  Paths = {path, hardlink}
  Files = {file}
  FileAt <- OneFile
  Configs = {config}
  Passphrases = {own, other}
  Salts = {salt1, salt2}
  Versions = {old, new}
  NoPath = no_path
  None = none
  MaxReplacements = 2
SPECIFICATION Spec
SYMMETRY Interchangeable
INVARIANTS
  TypeOK
  OnlyKeyHoldersAreServed
  
  ServedFromTheirOwnWal
PROPERTIES
  RefusedOnlyOnConflict
