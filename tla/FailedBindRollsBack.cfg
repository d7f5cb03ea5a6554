CONSTANTS
  src = src
  srcA = srcA
  srcD = srcD
  srcDA = srcDA
  tgt = tgt
  tgtA = tgtA
  tgtB = tgtB
  NoNode = NoNode
  Path <- MCPath
  Node <- MCNode
  Name <- MCName
  Canon <- MCCanon
  Kind <- MCKind
  NameOf <- MCNameOf
  Children <- MCChildren
  MaxInode <- MCMaxInodeFlat
SPECIFICATION Spec
VIEW StateView
PROPERTIES
  FailedBindRollsBack
