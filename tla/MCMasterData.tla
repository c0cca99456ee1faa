----------------------------- MODULE MCMasterData -----------------------------
(***************************************************************************)
(* The master data for TLC: the reference data, the employees, their       *)
(* salary structures, and the column mappings with the imports that use    *)
(* them; and the sessions of a user with role assignments.  They share no  *)
(* state, so a behaviour is about one of them.                             *)
(***************************************************************************)
EXTENDS ReferenceData, Employees, SalaryStructures, ColumnMappings, Sessions, TLC

VARIABLE side    \* which of the five the behaviour is about

MasterDataInit ==
    /\ RefInit
    /\ HrInit
    /\ SalaryInit
    /\ MappingInit
    /\ SessionInit
    /\ side \in {"references", "employees", "salaries", "mappings", "sessions"}
    /\ side # "references" => kind = CHOOSE k \in KindChoices : TRUE
    /\ side # "sessions" => assigned = Assignments

MasterDataNext ==
    /\ UNCHANGED side
    /\ \/ side = "references" /\ RefNext /\ UNCHANGED <<hrVars, salaryVars, mappingVars, sessionVars>>
       \/ side = "employees" /\ HrNext /\ UNCHANGED <<refVars, salaryVars, mappingVars, sessionVars>>
       \/ side = "salaries" /\ SalaryNext /\ UNCHANGED <<refVars, hrVars, mappingVars, sessionVars>>
       \/ side = "mappings" /\ MappingNext /\ UNCHANGED <<refVars, hrVars, salaryVars, sessionVars>>
       \/ side = "sessions" /\ SessionNext /\ UNCHANGED <<refVars, hrVars, salaryVars, mappingVars>>

MasterDataSpec ==
    MasterDataInit /\ [][MasterDataNext]_<<refVars, hrVars, salaryVars, mappingVars, sessionVars, side>>

\* What is looked up by it belongs to one row: the name of a reference, within
\* its kind, and the user of an employee.
IdentitiesUnique == NamesUnique /\ UserLinkedOnce

-----------------------------------------------------------------------------

CONSTANTS r1, r2, r3

\* Two of one kind compete for a name, and one of another is used with them.
MCKindChoices ==
    {[r \in Refs |-> IF r = r1 THEN pair[1] ELSE pair[2]] :
        pair \in {<<"department", "vendor">>, <<"category", "department">>,
                  <<"vendor", "category">>, <<"vendor", "project">>}}

CONSTANTS amount, vendor, colour, amountColumn, otherColumn

\* Mappings that may be saved and some that may not; two swap the columns.
MCMappings ==
    {amount :> amountColumn, amount :> otherColumn,
     amount :> otherColumn @@ vendor :> amountColumn,
     amount :> amountColumn @@ vendor :> Unusable,
     amount :> amountColumn @@ colour :> otherColumn, vendor :> amountColumn}

CsvFile(columns, usable) ==
    [declared |-> TRUE, content |-> "text", ragged |-> FALSE, columns |-> columns, usable |-> usable]

MCCsvFiles ==
    LET both == CsvFile({amountColumn, otherColumn}, {amountColumn, otherColumn})
    IN  {both, CsvFile({amountColumn, otherColumn}, {otherColumn}), CsvFile({otherColumn}, {otherColumn}),
         CsvFile({amount, vendor}, {amount}), [both EXCEPT !.ragged = TRUE],
         [both EXCEPT !.content = "binary"], [both EXCEPT !.declared = FALSE]}

-----------------------------------------------------------------------------

\* A user who heads a department, is finance director, or both, with grants as
\* the seed has them.
MCAssignments == {[role |-> "department_head", department |-> "sales"],
                  [role |-> "finance_director", department |-> Absent]}

Grant(role, scope, permissions) ==
    {[role |-> role, permission |-> p, scope |-> scope] : p \in permissions}

MCRolePermissions ==
    Grant("employee", "own", {"expense:create", "expense:view"}) \cup
    Grant("department_head", "department", {"expense:view", "report:view"}) \cup
    Grant("department_head", "organization", {"expense:approve"}) \cup
    Grant("finance_director", "organization",
          {"expense:create", "expense:approve", "expense:adjust", "expense:view",
           "period:close", "period:open", "payroll:approve", "report:view"}) \cup
    Grant("payroll_admin", "organization", {"payroll:create", "payroll:view_sensitive"})

MCResources ==
    {[departmentId |-> "sales", requesterId |-> "actor"], [departmentId |-> "travel", requesterId |-> "actor"]}
=============================================================================
