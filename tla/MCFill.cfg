SPECIFICATION Spec
CONSTANTS
    Bytes = {a, b}
    Zero = zero
    Unset = unset
    MaxSize = 5
    WordMod = 16
INVARIANTS
    TypeOK
    SizesAgree
    PayloadAsAsked
