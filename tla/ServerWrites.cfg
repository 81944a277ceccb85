SPECIFICATION Spec
CONSTANTS
  ann = ann
  bob = bob
  cat = cat
  g1 = g1
  g2 = g2
  Requests = {r1, r2}
  Emails = {ann, bob, cat}
  Seeded <- AtFirst
  SignedIn = {ann}
  None = none
  MaxFaults = 1
  Names = {n1, n2}
  Passwords = {p1, p2}
  StartName = n1
  StartPassword = p1
  Tags = {g1, g2}
  Tickers = {t1}
  Settings = {s1}
  TagLists <- SomeLists
  Founder = ann
  Take = 1
  SearchTake = 2
  Files = {f1, f2}
  LastTime = 1
CHECK_DEADLOCK FALSE
SYMMETRY Symmetry
INVARIANTS
  TypeOK
  RowIsAsAnswered
  RegisteredOnce
  ForkCopiesItsSource
  AnsweredIsWhole
  TagsDoubleByOverlap
  RowIsTheObject
  ReadersMissNothing
