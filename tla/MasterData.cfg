SPECIFICATION MasterDataSpec
CONSTANTS
    None = None  Null = Null
    r1 = r1  r2 = r2  r3 = r3
    Refs = {r1, r2, r3}
    KindChoices <- MCKindChoices
    Names = {n1, n2}
    Clients = {c1, c2}
    MaxExpenses = 1
    Staff = {e1, e2}
    Logins = {u1, u2}
    HrRequests = {h1, h2}
    Salaried = {e1}
    Days = {1, 2, 3}
    SalaryRequests = {q1, q2}
    MaxVersion = 3
    MaxSlips = 1
    amount = amount  vendor = vendor  colour = colour
    amountColumn = amountColumn  otherColumn = otherColumn
    NoMapping = NoMapping  Unusable = Unusable
    Required = {amount}
    Optional = {vendor}
    MappingNames = {m1, m2}
    Mappings <- MCMappings
    CsvFiles <- MCCsvFiles
    Imports = {i1}
    MaxMappings = 2
    MaxReads = 2
    Absent = Absent
    User = "user"
    Assignments <- MCAssignments
    RolePermissions <- MCRolePermissions
    Resources <- MCResources
    Callers = {l1, l2}
    AccessTtl = 2
    RefreshTtl = 1
    StepUpWindow = 0
    MaxCalls = 3
    LastTick = 3
    MaxRoleChanges = 1

CHECK_DEADLOCK FALSE
INVARIANTS
    IdentitiesUnique DeactivationSticks VersionsChain ReadAsMapped
    TokensAccountedFor RightsFade
