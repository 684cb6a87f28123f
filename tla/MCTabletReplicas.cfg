CONSTANTS
    s1 = s1
    s2 = s2
    r1 = r1
    r2 = r2
    d1 = d1
    d2 = d2
    p1 = p1
    p2 = p2
    p3 = p3
    p4 = p4
    Absent = Absent
    None = None
    Unalloc = Unalloc
    Servers <- MCServers
    Readers <- MCReaders
    Drives <- MCDrives
    Slots <- MCSlots
    Roles <- MCRoles

SYMMETRY MCSymmetry

SPECIFICATION Spec

PROPERTY ImplementsSnapshots
