SPECIFICATION ReadSideSpec
CONSTANTS
    None = None  expense = expense  reversal = reversal  second = second  other = other
    sales = sales  travel = travel  vendor = vendor  rival = rival
    Expenses = {expense, reversal}
    Attributes <- MCAttributes
    ReportGrants <- MCReportGrants
    Queries <- MCQueries
    Handlers = {h1, h2}
    Renamed = {vendor}
    RowIds = {1, 2, 3, 4}
    Limit = 2
    MaxTime = 2
    MaxFaults = 1

CHECK_DEADLOCK FALSE
INVARIANTS
    LagsForAReason ReportsAgree WalksShowEachRow
PROPERTIES
    CatchesUp
