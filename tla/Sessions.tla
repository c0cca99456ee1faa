------------------------------- MODULE Sessions -------------------------------
(***************************************************************************)
(* The sessions of one user, and what they may do: AuthService and         *)
(* RefreshTokenService, with the PermissionGuard of the routes.            *)
(*                                                                         *)
(* A login opens a session.  Its refresh token is exchanged for the next   *)
(* one in three writes without a transaction: the row is read, revoked,    *)
(* and its successor is inserted.  An access token carries the roles that  *)
(* were read when it was made, and the time of a step-up; the guard trusts *)
(* it until it expires.  Roles are assigned and taken away by              *)
(* administrators, with no regard for sessions.                            *)
(***************************************************************************)
EXTENDS Integers, Sequences, FiniteSets

CONSTANTS
    Assignments,        \* role assignments the user may have: [role, department]
    RolePermissions,    \* the grants of the database: [role, permission, scope]
    Resources,          \* what a route may be about: [departmentId, requesterId]
    User, Absent,
    Callers,            \* requests to /auth that may run at the same time
    AccessTtl, RefreshTtl, StepUpWindow,
    MaxCalls, LastTick, MaxRoleChanges    \* bounds

ASSUME SessionAssumption ==
    /\ IsFiniteSet(Callers)
    /\ AccessTtl \in Nat /\ RefreshTtl \in Nat /\ StepUpWindow \in Nat
    /\ Absent \notin Nat

VARIABLES
    time,
    assigned,        \* the role assignments of the user
    refreshTokens,   \* the rows: [session, revoked, expiresAt]
    returned,        \* the rows whose token a client was given
    accessTokens,    \* [roles, stepUpAt, issuedAt], with the history began
    call,            \* of each caller
    calls, roleChanges,    \* how many there were
    heldUntil,       \* history: when an assignment was last held, Absent if never
    typedAt,         \* history: when the password was last entered
    allowance        \* history: the refresh tokens a session may have

history == <<heldUntil, typedAt, allowance>>
sessionVars ==
    <<time, assigned, refreshTokens, returned, accessTokens, call, calls, roleChanges, history>>

Idle == [at |-> "idle"]

SessionInit ==
    /\ time = 1
    /\ assigned \in (SUBSET Assignments) \ {{}}
    /\ refreshTokens = <<>>
    /\ returned = {}
    /\ accessTokens = {}
    /\ call = [q \in Callers |-> Idle]
    /\ calls = 0
    /\ roleChanges = 0
    /\ heldUntil = [r \in Assignments |-> Absent]
    /\ typedAt = Absent
    /\ allowance = <<>>

-----------------------------------------------------------------------------
(* Tokens. *)

\* Mutation: that the row was revoked is not looked at.
ExchangeableAgain(t) == time <= refreshTokens[t].expiresAt

\* A row that validateAndRotate accepts.
Exchangeable(t) == ~refreshTokens[t].revoked /\ time <= refreshTokens[t].expiresAt

\* JwtStrategy does not ignore the expiration of a token, and asks nothing else
\* of its bearer.
Usable(k) == time < k.issuedAt + AccessTtl

NewRow(session) == [session |-> session, revoked |-> FALSE, expiresAt |-> time + RefreshTtl]

Revoked(t) == [refreshTokens EXCEPT ![t].revoked = TRUE]

\* The calls that have read row t and have not revoked it yet.
Exchanging(t) == {q \in Callers : call[q].at = "revoke" /\ call[q].token = t}

BeginCall(q, stage, op, token) ==
    /\ call[q] = Idle
    /\ calls < MaxCalls
    /\ calls' = calls + 1
    /\ call' = [call EXCEPT ![q] = [at |-> stage, op |-> op, token |-> token, roles |-> {}, began |-> time]]

-----------------------------------------------------------------------------
(* AuthService.  A password that is not right is answered 401, and changes
   nothing.  A call that its process leaves takes no further step. *)

Login(q) ==
    /\ BeginCall(q, "roles", "login", 0)
    /\ typedAt' = time
    /\ UNCHANGED <<time, assigned, refreshTokens, returned, accessTokens, roleChanges, heldUntil, allowance>>

\* Behind the JwtAuthGuard, and with the current password.
StepUp(q) ==
    /\ \E k \in accessTokens : Usable(k)
    /\ BeginCall(q, "roles", "stepUp", 0)
    /\ typedAt' = time
    /\ UNCHANGED <<time, assigned, refreshTokens, returned, accessTokens, roleChanges, heldUntil, allowance>>

\* validateAndRotate reads the row of a token.  If another exchange has read the
\* same row, one session will have two tokens.
Refresh(q, t) ==
    /\ t \in returned
    /\ Exchangeable(t)
    /\ BeginCall(q, "revoke", "refresh", t)
    /\ allowance' = IF Exchanging(t) = {} THEN allowance
                    ELSE [allowance EXCEPT ![refreshTokens[t].session] = @ + 1]
    /\ UNCHANGED <<time, assigned, refreshTokens, returned, accessTokens, roleChanges, heldUntil, typedAt>>

\* The row is revoked by its id, whatever became of it since.
RevokeExchanged(q) ==
    /\ call[q].at = "revoke"
    /\ refreshTokens' = Revoked(call[q].token)
    /\ call' = [call EXCEPT ![q].at = "issue"]
    /\ UNCHANGED <<time, assigned, returned, accessTokens, calls, roleChanges, history>>

IssueNext(q) ==
    /\ call[q].at = "issue"
    /\ refreshTokens' = Append(refreshTokens, NewRow(refreshTokens[call[q].token].session))
    /\ call' = [call EXCEPT ![q].at = "roles", ![q].token = Len(refreshTokens) + 1]
    /\ UNCHANGED <<time, assigned, returned, accessTokens, calls, roleChanges, history>>

\* getRolesForUser; a user without roles is refused, after the rotation.
ReadRoles(q) ==
    /\ call[q].at = "roles"
    /\ call' = [call EXCEPT ![q] = IF assigned = {} THEN Idle
                                   ELSE [@ EXCEPT !.at = "sign", !.roles = assigned]]
    /\ UNCHANGED <<time, assigned, refreshTokens, returned, accessTokens, calls, roleChanges, history>>

\* Mutation: an exchange counts as a step-up.
AccessTokenRenewed(c) ==
    [roles |-> c.roles, stepUpAt |-> IF c.op # "login" THEN time ELSE Absent,
     issuedAt |-> time, began |-> c.began]

\* buildPrincipal, signed.  Only a step-up leaves its time.
AccessToken(c) ==
    [roles |-> c.roles, stepUpAt |-> IF c.op = "stepUp" THEN time ELSE Absent,
     issuedAt |-> time, began |-> c.began]

\* The answer: an access token, with a refresh token unless it is a step-up.
Sign(q) ==
    /\ call[q].at = "sign"
    /\ accessTokens' = accessTokens \cup {AccessToken(call[q])}
    /\ CASE call[q].op = "login" ->
              /\ refreshTokens' = Append(refreshTokens, NewRow(Len(allowance) + 1))
              /\ returned' = returned \cup {Len(refreshTokens) + 1}
              /\ allowance' = Append(allowance, 1)
         [] call[q].op = "refresh" ->
              /\ returned' = returned \cup {call[q].token}
              /\ UNCHANGED <<refreshTokens, allowance>>
         [] call[q].op = "stepUp" -> UNCHANGED <<refreshTokens, returned, allowance>>
    /\ call' = [call EXCEPT ![q] = Idle]
    /\ UNCHANGED <<time, assigned, calls, roleChanges, heldUntil, typedAt>>

\* Any token is taken, in a single update of the rows that are not revoked.  It
\* takes a token from the session unless an exchange has read the row.
Logout(t) ==
    /\ t \in returned
    /\ refreshTokens' = Revoked(t)
    /\ allowance' = IF refreshTokens[t].revoked \/ Exchanging(t) # {} THEN allowance
                    ELSE [allowance EXCEPT ![refreshTokens[t].session] = @ - 1]
    /\ UNCHANGED <<time, assigned, returned, accessTokens, call, calls, roleChanges, heldUntil, typedAt>>

-----------------------------------------------------------------------------
(* Around them. *)

ChangeRole(r) ==
    /\ roleChanges < MaxRoleChanges
    /\ roleChanges' = roleChanges + 1
    /\ assigned' = IF r \in assigned THEN assigned \ {r} ELSE assigned \cup {r}
    /\ heldUntil' = [heldUntil EXCEPT ![r] = time]
    /\ UNCHANGED <<time, refreshTokens, returned, accessTokens, call, calls, typedAt, allowance>>

PassTime ==
    /\ time < LastTick
    /\ time' = time + 1
    /\ UNCHANGED <<assigned, refreshTokens, returned, accessTokens, call, calls, roleChanges, history>>

SessionNext ==
    \/ \E q \in Callers :
         \/ Login(q) \/ StepUp(q) \/ \E t \in returned : Refresh(q, t)
         \/ RevokeExchanged(q) \/ IssueNext(q) \/ ReadRoles(q) \/ Sign(q)
    \/ \E t \in returned : Logout(t)
    \/ \E r \in Assignments : ChangeRole(r)
    \/ PassTime

SessionSpec == SessionInit /\ [][SessionNext]_sessionVars

-----------------------------------------------------------------------------
(* What the routes require: a permission, a resource it is about if the grants
   of it may be narrower than the organisation, and a step-up or not. *)

Requires(permission) == [permission |-> permission, resourceType |-> Absent, requiresStepUp |-> FALSE]

StepUpFor(permission) == [Requires(permission) EXCEPT !.requiresStepUp = TRUE]

About(resourceType, permission) == [Requires(permission) EXCEPT !.resourceType = resourceType]

\* An expense that does not exist yet, and the list, are of no resource.
ExpenseRoutes ==
    {Requires(p) : p \in {"expense:create", "expense:view"}} \cup
    {About("expense", p) :
        p \in {"expense:view", "expense:create", "expense:approve", "expense:adjust"}}

PeriodRoutes == {Requires("period:open"), StepUpFor("period:close")}

PayrollRoutes ==
    {Requires("payroll:create"), Requires("payroll:approve"), StepUpFor("payroll:view_sensitive")}

ReportRoutes == {Requires("report:view"), StepUpFor("payroll:view_sensitive")}

Requirements == ExpenseRoutes \cup PeriodRoutes \cup PayrollRoutes \cup ReportRoutes

-----------------------------------------------------------------------------
(* PermissionGuard. *)

Grants(roles, permission) ==
    {g \in RolePermissions : g.permission = permission /\ \E r \in roles : r.role = g.role}

IsStepUpFresh(stepUpAt) == stepUpAt # Absent /\ time - stepUpAt <= StepUpWindow

\* The scope of a resource is asked of its owner, by the id in the route; a
\* department is compared with those of all the roles.
Covers(grants, roles, requirement, resource) ==
    \/ \E g \in grants : g.scope = "organization"
    \/ requirement.resourceType = Absent \/ resource = Absent
    \/ \E g \in grants :
         \/ g.scope = "own" /\ resource.requesterId = User
         \/ /\ g.scope = "department"
            /\ resource.departmentId # Absent
            /\ \E r \in roles : r.department = resource.departmentId

Permitted(roles, requirement, resource) ==
    LET grants == Grants(roles, requirement.permission)
    IN  grants # {} /\ Covers(grants, roles, requirement, resource)

\* The step-up is asked for last, of those who have the permission.
CanActivate(k, requirement, resource) ==
    /\ Permitted(k.roles, requirement, resource)
    /\ requirement.requiresStepUp => IsStepUpFresh(k.stepUpAt)

-----------------------------------------------------------------------------
(* Properties *)

\* A login gives a session one refresh token, an exchange that overlaps another
\* of the same token one more, and a logout takes one: a session has no tokens
\* but these, whatever exchanges and logouts overlap or stop half-way.  So a
\* session that is exchanged by one client at a time has one token, and a logout
\* that no exchange overlaps ends it.
TokensAccountedFor ==
    \A s \in DOMAIN allowance :
        Cardinality({t \in DOMAIN refreshTokens :
                        refreshTokens[t].session = s /\ ~refreshTokens[t].revoked})
          + Cardinality({q \in Callers : call[q].at = "issue"
                                           /\ refreshTokens[call[q].token].session = s})
        <= allowance[s]

\* The assignments held within the given time.
HeldWithin(ticks) ==
    assigned \cup {r \in Assignments : heldUntil[r] # Absent /\ time - heldUntil[r] < ticks}

\* What a token is good for, its user had the roles for within its lifetime and the
\* time the request took that made it; what needs a step-up follows a password
\* entered within the window: neither outlives its time by exchanges.
RightsFade ==
    \A k \in {token \in accessTokens : Usable(token)}, n \in Requirements :
        \A x \in IF n.resourceType = Absent THEN {Absent} ELSE Resources :
            CanActivate(k, n, x) =>
                LET slow == k.issuedAt - k.began
                IN  /\ Permitted(HeldWithin(AccessTtl + slow), n, x)
                    /\ n.requiresStepUp => time - typedAt <= StepUpWindow + slow
=============================================================================
