CONSTANTS
  c1 = c1
  c2 = c2
  s1 = s1
  s2 = s2
  None = None
  Charges <- MCCharges
  Sessions <- MCSessions
  Rent <- MCRent
  LateFee <- MCLateFee
  Above <- MCAbove
  Asked <- MCAsked
SPECIFICATION Spec
INVARIANTS TypeOK PaidMeansCovered ChargesAgree
SYMMETRY MCAlike
