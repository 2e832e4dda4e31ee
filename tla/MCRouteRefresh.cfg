SPECIFICATION Spec
CONSTANTS
  Mutations = {m1, m2}
  Updates = {u1}
  NoFiber = NoFiber
  MaxEntries = 2
SYMMETRY Symmetry
INVARIANTS
  RefreshYields
  ScreenMatchesPage
  LatestMutationShown
CHECK_DEADLOCK FALSE
