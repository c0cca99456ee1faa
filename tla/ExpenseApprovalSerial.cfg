SPECIFICATION Spec
CONSTANTS
    requester = requester  head1 = head1  head2 = head2  head3 = head3
    director = director  sales = sales ops = ops
    SoleThreshold = 1
    DirectorThreshold = 10
    Users <- MCUsers
    Roles <- MCRoles
    Departments <- MCDepartments
    RolesOf <- MCRolesOf
    Item <- MCItem
    Requests = {q1}
    Chains <- AnyChains

INVARIANTS
    StatusMatchesRecords
PROPERTIES
    ImplementsLifecycle
