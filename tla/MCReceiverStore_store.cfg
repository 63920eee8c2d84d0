CONSTANTS
  s1 = s1
  s2 = s2
  f1 = f1
  f2 = f2
  f3 = f3
  f4 = f4
  one = one
  two = two
  other = other
  NoFile = NoFile
  Savers <- TwoSavers
  Files <- FourFiles
  Lists <- AllLists
  Size <- Sizes
SPECIFICATION Spec
SYMMETRY Symmetries
PROPERTY SavesAreAtomic
