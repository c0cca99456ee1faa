------------------------------ MODULE Idempotency ------------------------------
(***************************************************************************)
(* Requests that carry the same Idempotency-Key: one caller, one endpoint, *)
(* one Redis key.  A request claims the key, runs its handler and caches   *)
(* the response; another finds the claim or the response instead.  Redis   *)
(* executes one command at a time, but complete and release are sent       *)
(* without waiting, and the claim expires by itself.                       *)
(***************************************************************************)
EXTENDS Naturals, FiniteSets

CONSTANTS
    Requests,      \* the requests with this key, each one sent once
    SlowHandlers,  \* may a handler outlast its claim (IDEMPOTENCY_LOCK_TTL_MS)?
    Faults         \* may a process crash, or a write to Redis get lost?

ASSUME FlagTypes == SlowHandlers \in BOOLEAN /\ Faults \in BOOLEAN

VARIABLES
    entry,     \* what the key holds: nothing, a claim, or a request's response
    request,   \* request[r]: where r is
    reply,     \* reply[r]: what its caller got
    pending,   \* Redis commands sent and not yet executed: <<command, request>>
    effects,   \* the requests whose handler committed
    lost       \* history: those of them whose response was never cached

vars == <<entry, request, reply, pending, effects, lost>>

Absent     == [is |-> "absent"]
InProgress == [is |-> "in-progress"]
Response(r) == [is |-> "response", of |-> r]

\* What a caller gets: its own response, a cached one, an error, or nothing.
NoReply     == [is |-> "none"]
Conflict    == [is |-> "conflict"]
Failure     == [is |-> "failure"]
Success(r)  == [is |-> "success", of |-> r]

\* The requests whose handler runs, or has run and is about to answer.
Executing == {r \in Requests : request[r] \in {"running", "committed"}}

Init ==
    /\ entry = Absent
    /\ request = [r \in Requests |-> "new"]
    /\ reply = [r \in Requests |-> NoReply]
    /\ pending = {}
    /\ effects = {}
    /\ lost = {}

-----------------------------------------------------------------------------

\* Mutation: read, then write: the claim succeeds unless a response is there.
ClaimUnlessAnswered == entry.is # "response"

\* SET key IN_PROGRESS PX ttl NX succeeds.
Claimable == entry = Absent

Claim(r) ==
    /\ request[r] = "new"
    /\ IF Claimable
       THEN /\ entry' = InProgress
            /\ request' = [request EXCEPT ![r] = "running"]
       ELSE /\ request' = [request EXCEPT ![r] = "read"]
            /\ UNCHANGED entry
    /\ UNCHANGED <<reply, pending, effects, lost>>

\* replayOrConflict: GET key, a command of its own.
ReplayOrConflict(r) ==
    /\ request[r] = "read"
    /\ request' = [request EXCEPT ![r] = "done"]
    /\ reply' = [reply EXCEPT ![r] =
                    IF entry.is = "response" THEN Success(entry.of) ELSE Conflict]
    /\ UNCHANGED <<entry, pending, effects, lost>>

\* The handler's transaction commits.
HandlerCommits(r) ==
    /\ request[r] = "running"
    /\ request' = [request EXCEPT ![r] = "committed"]
    /\ effects' = effects \cup {r}
    /\ UNCHANGED <<entry, reply, pending, lost>>

\* Mutation: the claim is released however the request ends.
ReleaseAlways(r) == <<"release", r>>

\* What is sent for a request that succeeded.
AfterSuccess(r) == <<"complete", r>>

\* tap: complete is sent, and the caller answered without waiting for it.
Answer(r) ==
    /\ request[r] = "committed"
    /\ request' = [request EXCEPT ![r] = "done"]
    /\ reply' = [reply EXCEPT ![r] = Success(r)]
    /\ pending' = pending \cup {AfterSuccess(r)}
    /\ UNCHANGED <<entry, effects, lost>>

\* Mutation: an error is cached like an answer.
CacheFailure(r) == <<"complete", r>>

\* What is sent for a request that failed.
AfterFailure(r) == <<"release", r>>

\* catchError: the handler threw, and its transaction rolled back.
HandlerFails(r) ==
    /\ request[r] = "running"
    /\ request' = [request EXCEPT ![r] = "done"]
    /\ reply' = [reply EXCEPT ![r] = Failure]
    /\ pending' = pending \cup {AfterFailure(r)}
    /\ UNCHANGED <<entry, effects, lost>>

\* Redis executes a command that was sent: SET with the response, or DEL.
Execute(r) ==
    \E command \in {"complete", "release"} :
        /\ <<command, r>> \in pending
        /\ pending' = pending \ {<<command, r>>}
        /\ entry' = IF command = "complete" THEN Response(r) ELSE Absent
        /\ UNCHANGED <<request, reply, effects, lost>>

\* Mutation: a claim without a time to live.
NeverExpires == FALSE

\* May the claim have outlived its TTL?  At any time, if handlers are slow; else
\* once nobody works under it any more.
MayExpire == SlowHandlers \/ (Executing = {} /\ pending = {})

ExpireClaim ==
    /\ entry = InProgress
    /\ MayExpire
    /\ entry' = Absent
    /\ UNCHANGED <<request, reply, pending, effects, lost>>

\* The process dies with the request, before its commit or after.
Crash(r) ==
    /\ Faults
    /\ r \in Executing
    /\ request' = [request EXCEPT ![r] = "done"]
    /\ lost' = IF request[r] = "committed" THEN lost \cup {r} ELSE lost
    /\ UNCHANGED <<entry, reply, pending, effects>>

\* A command is lost with the connection, which the store only logs.
LoseCommand(r) ==
    /\ Faults
    /\ \E command \in {"complete", "release"} :
          /\ <<command, r>> \in pending
          /\ pending' = pending \ {<<command, r>>}
          /\ lost' = IF command = "complete" THEN lost \cup {r} ELSE lost
    /\ UNCHANGED <<entry, request, reply, effects>>

Step(r) ==
    \/ Claim(r)
    \/ ReplayOrConflict(r)
    \/ HandlerCommits(r)
    \/ Answer(r)
    \/ HandlerFails(r)
    \/ Execute(r)

Next ==
    \/ \E r \in Requests : Step(r) \/ Crash(r) \/ LoseCommand(r)
    \/ ExpireClaim

\* Time passes, a handler that runs ends (its transaction times out at the
\* latest), and Redis executes what it was sent, unless that is lost.
Fairness ==
    /\ WF_vars(ExpireClaim)
    /\ \A r \in Requests : /\ WF_vars(HandlerCommits(r) \/ HandlerFails(r) \/ Answer(r))
                          /\ WF_vars(Execute(r))

Spec == Init /\ [][Next]_vars /\ Fairness

-----------------------------------------------------------------------------
(* Properties *)

\* Every variable keeps its type.
TypeOK ==
    /\ entry \in {Absent, InProgress} \cup {Response(r) : r \in Requests}
    /\ request \in [Requests -> {"new", "read", "running", "committed", "done"}]
    /\ reply \in [Requests -> {NoReply, Conflict, Failure} \cup {Success(r) : r \in Requests}]
    /\ pending \subseteq {"complete", "release"} \X Requests
    /\ effects \subseteq Requests
    /\ lost \subseteq effects

\* While a request executes, no other with the same key does: it gets a conflict.
OneExecutionAtATime == Cardinality(Executing) <= 1

\* The handler commits once, however often the request is sent, except when the
\* response of a commit was lost before it could be cached.
OneEffectUnlessLost == Cardinality(effects \ lost) <= 1

\* What is cached, and what a caller is told succeeded, did happen: an error is
\* never replayed, and a success never stands for a transaction that rolled back.
RepliesAreReal ==
    /\ entry.is = "response" => entry.of \in effects
    /\ \A r \in Requests : reply[r].is = "success" => reply[r].of \in effects

\* No request wedges the key: a claim ends, even if its process crashed.
ClaimEnds == (entry = InProgress) ~> (entry # InProgress)
=============================================================================
