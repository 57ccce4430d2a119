SPECIFICATION Spec
CONSTANTS
    MaxPow = 9
    MaxAcc = 2147483647
    F32Exact = 999
    F64Exact = 99999
    RustDecimal = 999999
    Cells <- McCells
    Values <- McValues
    Shapes <- Geometries
    Texts <- McTexts
    MaxTrips = 2
INVARIANTS ErrorMeansExact OwnReaderReads DamageIsNoticed SecondTripStable
