SPECIFICATION Spec
CONSTANTS
    RamSize <- MCRamSize
    Reserved <- MCReserved
    Align <- MCAlign
    Endpoint <- MCEndpoint
    Layouts <- MCLayouts
INVARIANTS
    TypeOK
    BuffersInRam
    BuffersApart
    AllEnabled
