\* Quotes of up to three lines, planned from three rows.
SPECIFICATION Spec
CONSTANTS
  coral = coral
  pump = pump
  Rows = {1, 2, 3}
  ProductOf <- TwoOfCoral
  WarehouseOf <- TwoWarehouses
  Products = {coral, pump}
  Items <- Wishes
  MaxLines = 3
  FreeLevels <- Levels
INVARIANTS TypeOK TakesOnlyFree ShortOnlyWhenEmpty PlanIsShares
CHECK_DEADLOCK FALSE
