SPECIFICATION Spec
CONSTANTS
  MainPath = MainPath
  ModPath = ModPath
  StdPath = StdPath
  AliasA = AliasA
  AliasMain = AliasMain
  TypeX = TypeX
  FunF = FunF
  StringName = StringName
  NoName = NoName
  Paths = {MainPath, ModPath, StdPath}
  Main = MainPath
  Std = StdPath
  Names = {AliasA, AliasMain, TypeX, FunF}
  Contents <- StdContents
  MayMiss = {StdPath}
INVARIANTS
  StringUsable
  AllEmitted
PROPERTY LoadsOnce
