SPECIFICATION Spec
CONSTANTS
    creator = creator
    director = director
    head = head
    sales = sales
    SoleThreshold = 1
    DirectorThreshold = 10
    Users <- MCUsers
    Roles <- MCRoles
    Departments <- MCDepartments
    RolesOf <- MCRolesOf
    Creator = creator
    Employees = {e1, e2}
    Requests = {q1}
INVARIANT DraftCanBeSubmitted
