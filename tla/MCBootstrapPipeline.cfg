SPECIFICATION PipelineSpec
CONSTANTS
  Ct = {c1, c2}
  Pt = {p1}
  L = 10
  OrdinaryLevel = 5
  P = 97
  Contexts <- MCContexts
  Points <- MCPoints
  Coefficients <- MCCoefficients
  Intervals <- MCIntervals
  Zeta = 33
  Plans <- MCPlans
  Messages <- MCMessages
  Overflow <- MCOverflow
  LogCorFactor = 3
  Post = 16
  Sigma = 11
  BootK = 7
  ScaleEnc = 3
  ScaleDec = 5
  Precision = 4
SYMMETRY MCSymmetry
INVARIANTS TypeOK CallsComplete ScaleHonest OperandsMeet DepthExact SeriesExact
           BootstrapExact

CHECK_DEADLOCK FALSE
