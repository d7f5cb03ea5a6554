CONSTANTS
  src = src
  srcA = srcA
  srcD = srcD
  srcDA = srcDA
  tgt = tgt
  tgtA = tgtA
  tgtB = tgtB
  NoNode = NoNode
  Path <- MCPath
  Node <- MCNode
  Name <- MCName
  Canon <- MCCanon
  Kind <- MCKind
  NameOf <- MCNameOf
  Children <- MCChildren
  MaxInode <- MCMaxInode
SPECIFICATION Spec
VIEW StateView
INVARIANTS
  TypeOK
  InodesBelowNext
  ReadOnlyEntriesAreOldest
  NamespaceVectorsInUse
PROPERTIES
  InodesNeverReused
  ClearingCallMirrorsSource
  BeforePutsSourceFirst
  AfterNeverShadows
  FailureDamage
  OnlyUnmountLosesExplanation
  UnmountKeepsOtherWinner
