SPECIFICATION SessionSpec
CONSTANTS
    Sessions <- SessionsDef
    Rows <- RowsDef
    maxSchemas = 5
    Fresh <- FreshDef
    CrudOpts <- CrudOptsDef
    Values <- ValuesDef
    Bodies <- BodiesDef
    GoValues <- GoValuesDef
CHECK_DEADLOCK FALSE
INVARIANTS
    HandshakeSound
    PacketsParse
    SentAsAsked
    PanicsExplained
