\* Calls nested three deep, with siblings; amounts below and above every cap, and one
\* whose half lies between the floor and the cap of a rider.
SPECIFICATION Spec
CONSTANTS
    Characters <- MCCharacters
    Amounts = {0, 2, 8000, 100000, 600000}
    MaxDepth = 3
INVARIANTS
    TypeOK
    AmountIsEnclosing
    RiderGetsHalf
    WithinCaps
