SPECIFICATION Spec
CONSTANTS
    here = here
    there = there
    Files = {here, there}
    Texts <- SmallTexts
    Missing = Missing
    class_name = "C"
    method_name = "m"
    padding = 1
    Modulus = 16
    Questions <- EveryQuestion
    MaxCalls = 2
    MaxEdits = 2
SYMMETRY Symmetry
INVARIANTS SameMethod SnippetsShow AnchorInClass
