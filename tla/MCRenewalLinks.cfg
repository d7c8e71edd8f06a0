CONSTANTS
    A = A  B = B  C = C
    c1 = c1  c2 = c2  c3 = c3  c4 = c4  c5 = c5
    s1 = s1  s2 = s2  r1 = r1  r2 = r2  r3 = r3  r4 = r4
    Hosts = {A, B, C}
    FCIDs = {c1, c2, c3, c4, c5}
    InitContracts = {c1, c2, c3}
    HostOf <- MCHostOf
    ObjKeys = {k1}
    Slabs = {s1, s2}
    ShardsOf <- MCShardsOf
    NoContract = NoContract
    NoSlab = NoSlab
    NoHost = NoHost
    SetChoices <- MCSetChoices
    Removable = {c2, c4}
    MaxUploads = 1
    MaxSetUpdates = 1
    MaxRecords = 0
SPECIFICATION StoreSpec
PROPERTY RenewalKeepsSectorHosts
CHECK_DEADLOCK FALSE
