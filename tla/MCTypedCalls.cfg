SPECIFICATION Spec
INVARIANTS
    TypeOK
    WrapperFits
    ObjectBehindWrapper
    NeverRefused
    Narrowable
