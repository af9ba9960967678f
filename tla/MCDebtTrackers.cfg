SPECIFICATION Spec
CONSTANTS
  SF = 2
  usd = usd
  sol = sol
  lst = lst
  g1 = g1
  g2 = g2
  Obligations = {o1, o2}
  Reserves <- MCReserves
  Groups = {g1, g2}
  NoGroup = NoGroup
  DebtReserve <- MCDebtReserve
  Members <- MCMembers
  MaxCollaterals <- MCMaxCollaterals
  EmodeOnly = {lst}
  GroupLimit <- MCGroupLimit
  OutsideLimit <- MCOutsideLimit
  Dust = 1
  Borrows = {1, 2, 3}
  Repays = {1}
  Interests = {1}
  MaxDebt = 5
SYMMETRY Symmetry
INVARIANTS
  TypeOK
  TrackersAreSums
  FreshTrackersExact
PROPERTIES
  ExposureWithinLimit
  EmodeCollateralBacksNoOutsideDebt
