SPECIFICATION FairSpec
CONSTANTS
    Descriptor <- MCDescriptor
    Requests <- MCRequests
    ReportLength <- MCReportLength
    MaxPacket <- MCMaxPacket
    Byte <- MCByte
    MaxAborts <- MCMaxAborts
INVARIANTS
    TypeOK
    DataStageExact
    SupportedNotStalled
PROPERTIES
    TransferEnds
