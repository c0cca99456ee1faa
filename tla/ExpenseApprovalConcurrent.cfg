SPECIFICATION Spec
CONSTANTS
    requester = requester  head1 = head1  head2 = head2  head3 = head3
    director = director  sales = sales ops = ops
    SoleThreshold = 1
    DirectorThreshold = 10
    Users <- PanelUsers
    Roles <- MCRoles
    Departments <- MCDepartments
    RolesOf <- PanelRolesOf
    Item <- MCItem
    Requests = {q1, q2}
    Chains <- OnePanelChain

CONSTRAINT FewEvents
SYMMETRY Symmetry
INVARIANTS
    RecordsContiguous SeparationOfDuties ApprovedOnlyByWholeChain
    ApprovalsAuthorised
