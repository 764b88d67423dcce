SPECIFICATION Spec
CONSTANTS
    root = root
    inbox = inbox
    mail = mail
    inner = inner
    note = note
    copy = copy
    wrap = wrap
    deep = deep
    Orders = {"Source", "EmbeddedFirst", "Direct"}
    Folders <- MCFolders
    RootFolder = root
    Kids <- MCKids
    Normal <- MCNormal
    Associated <- MCAssociated
    Recoverable <- MCRecoverable
    Orphans <- MCOrphans
    Messages <- MCMessages
    NodeId <- MCNodeId
    Attachments <- MCAttachments
    LongBody <- MCLongBody
    Supported <- MCSupported
    Isolated <- MCIsolated
    MaxDepth = 1
    MaxFaults = 2
    MaxBuffered = 19
INVARIANTS
    TreesAssemble
    RefusalExplained
    NoSilentLoss
    StreamsDelivered
