\* Texts of up to four pieces: two sections and an error after them.
CONSTANTS
    Nil = Nil
    Bad = Bad
    MaxPieces = 4
    Texts <- MCTexts
    Lower <- MCLower
    cf_options <- MCOptions
    cf_image <- MCImage
SPECIFICATION ConfigSpec
INVARIANTS MeansTheText NamelessOnlyIfBare
PROPERTIES ParseReturns
