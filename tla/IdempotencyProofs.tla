-------------------------- MODULE IdempotencyProofs --------------------------
(***************************************************************************)
(* The invariants of Idempotency, for every set of requests: its types,    *)
(* that replies are real, and, while no handler outlasts its claim, that   *)
(* one request executes at a time and one effect remains.                  *)
(***************************************************************************)
EXTENDS Idempotency, TLAPS, FiniteSetTheorems

\* A set whose elements are all the same has at most one.
LEMMA AtMostOne ==
    ASSUME NEW S, \A a, b \in S : a = b
    PROVE  Cardinality(S) <= 1
<1>1. CASE S = {}
  BY <1>1, FS_EmptySet
<1>2. CASE S # {}
  <2>1. PICK a \in S : TRUE
    BY <1>2
  <2>2. S = {a}
    BY <2>1
  <2>3. QED
    BY <2>2, FS_Singleton
<1>3. QED
  BY <1>1, <1>2

-----------------------------------------------------------------------------
(* Types, and what really happened *)

\* A request about to answer, a complete that was sent and a response that was
\* cached all stand for a commit.
CommitsAreReal ==
    /\ \A r \in Requests : request[r] = "committed" => r \in effects
    /\ \A r \in Requests : <<"complete", r>> \in pending => r \in effects

RealInv == TypeOK /\ CommitsAreReal /\ RepliesAreReal

LEMMA RealInvHolds == Spec => []RealInv
<1> USE DEF Absent, InProgress, Response, NoReply, Conflict, Failure, Success
<1>1. Init => RealInv
  BY DEF Init, RealInv, TypeOK, CommitsAreReal, RepliesAreReal
<1>2. RealInv /\ [Next]_vars => RealInv'
  <2> SUFFICES ASSUME RealInv, [Next]_vars PROVE RealInv'
    OBVIOUS
  <2> USE DEF RealInv, TypeOK, CommitsAreReal, RepliesAreReal
  <2>1. CASE UNCHANGED vars
    BY <2>1 DEF vars
  <2>2. ASSUME NEW r \in Requests, Claim(r) PROVE RealInv'
    BY <2>2 DEF Claim
  <2>3. ASSUME NEW r \in Requests, ReplayOrConflict(r) PROVE RealInv'
    BY <2>3 DEF ReplayOrConflict
  <2>4. ASSUME NEW r \in Requests, HandlerCommits(r) PROVE RealInv'
    BY <2>4 DEF HandlerCommits
  <2>5. ASSUME NEW r \in Requests, Answer(r) PROVE RealInv'
    BY <2>5 DEF Answer, AfterSuccess
  <2>6. ASSUME NEW r \in Requests, HandlerFails(r) PROVE RealInv'
    BY <2>6 DEF HandlerFails, AfterFailure
  <2>7. ASSUME NEW r \in Requests, Execute(r) PROVE RealInv'
    BY <2>7 DEF Execute
  <2>8. ASSUME NEW r \in Requests, Crash(r) PROVE RealInv'
    BY <2>8 DEF Crash, Executing
  <2>9. ASSUME NEW r \in Requests, LoseCommand(r) PROVE RealInv'
    BY <2>9 DEF LoseCommand
  <2>10. CASE ExpireClaim
    BY <2>10 DEF ExpireClaim
  <2>11. QED
    BY <2>1, <2>2, <2>3, <2>4, <2>5, <2>6, <2>7, <2>8, <2>9, <2>10 DEF Next, Step
<1>3. QED
  BY <1>1, <1>2, PTL DEF Spec

\* Every variable keeps its type (TypeOK of Idempotency).
THEOREM TypeCorrect == Spec => []TypeOK
BY RealInvHolds, PTL DEF RealInv

\* An error is never replayed, and a success never stands for a transaction that
\* rolled back, whatever crashes, is lost or expires.
THEOREM RepliesReal == Spec => []RepliesAreReal
BY RealInvHolds, PTL DEF RealInv

-----------------------------------------------------------------------------
(* One at a time *)

\* The requests that work under the claim, or whose answer to it is on its way.
Active == Executing \cup {r \in Requests : \E c \in {"complete", "release"} : <<c, r>> \in pending}

\* At most one request works under the claim, and while one does the claim stands;
\* it sends one command, when it is done.  An effect whose response is not lost is
\* still on its way to the cache, or in it.
ClaimInv ==
    /\ \A a, b \in Active : a = b
    /\ Active # {} => entry = InProgress
    /\ \A x, y \in pending : x = y
    /\ \A r \in Executing : \A c \in {"complete", "release"} : <<c, r>> \notin pending
    /\ \A r \in effects \ lost :
          request[r] = "committed" \/ <<"complete", r>> \in pending \/ entry = Response(r)

\* A request moves from running to committed, or ends without a command.
LEMMA ActiveShrinks ==
    ASSUME TypeOK, ClaimInv, entry' = entry, effects' = effects, pending' = pending,
           Executing' \subseteq Executing,
           \A r \in effects' \ lost' :
               request'[r] = "committed" \/ <<"complete", r>> \in pending \/ entry = Response(r)
    PROVE  ClaimInv'
<1>1. Active' \subseteq Active
  BY DEF Active
<1>2. QED
  BY <1>1 DEF ClaimInv

\* The claim is won only when nobody works under one, and it outlives the work:
\* then a request that executes does so alone, and of the effects at most one has a
\* response that is not lost.
LEMMA ClaimInvHolds ==
    ASSUME SlowHandlers = FALSE
    PROVE  Spec => []ClaimInv
<1>1. Init => ClaimInv
  BY DEF Init, ClaimInv, Active, Executing
<1>2. TypeOK /\ ClaimInv /\ [Next]_vars => ClaimInv'
  <2> SUFFICES ASSUME TypeOK, ClaimInv, [Next]_vars PROVE ClaimInv'
    OBVIOUS
  <2>a. \A x \in pending :
            \E c \in {"complete", "release"}, s \in Requests : x = <<c, s>> /\ s \in Active
    <3>1. \A x \in pending : \E c \in {"complete", "release"}, s \in Requests : x = <<c, s>>
      BY DEF TypeOK
    <3>2. \A c \in {"complete", "release"}, s \in Requests : <<c, s>> \in pending => s \in Active
      BY DEF Active
    <3>3. QED
      BY <3>1, <3>2
  <2>1. CASE UNCHANGED vars
    BY <2>1 DEF vars, ClaimInv, Active, Executing
  <2>2. ASSUME NEW r \in Requests, Claim(r) PROVE ClaimInv'
    <3>1. CASE entry = Absent
      <4>1. Active = {}
        BY <3>1 DEF ClaimInv, Absent, InProgress
      <4>2. /\ entry' = InProgress /\ request' = [request EXCEPT ![r] = "running"]
            /\ UNCHANGED <<pending, effects, lost>>
        BY <2>2, <3>1 DEF Claim, Claimable
      <4>3. pending = {}
        BY <2>a, <4>1
      <4>4. Executing' = {r}
        BY <4>1, <4>2 DEF Active, Executing, TypeOK
      <4>5. effects \ lost = {}
        BY <3>1, <4>1, <4>3 DEF ClaimInv, Active, Executing, TypeOK, Absent, Response
      <4>6. Active' = {r}
        BY <4>2, <4>3, <4>4 DEF Active
      <4>7. QED
        BY <4>2, <4>3, <4>4, <4>5, <4>6 DEF ClaimInv
    <3>2. CASE entry # Absent
      <4>1. /\ entry' = entry /\ request' = [request EXCEPT ![r] = "read"]
            /\ request[r] = "new" /\ UNCHANGED <<pending, effects, lost>>
        BY <2>2, <3>2 DEF Claim, Claimable
      <4>2. Executing' \subseteq Executing
        BY <4>1 DEF Executing, TypeOK
      <4>3. \A s \in effects' \ lost' :
                request'[s] = "committed" \/ <<"complete", s>> \in pending
                    \/ entry = Response(s)
        BY <4>1 DEF ClaimInv, TypeOK
      <4>4. QED
        BY <4>1, <4>2, <4>3, ActiveShrinks
    <3>3. QED
      BY <3>1, <3>2
  <2>3. ASSUME NEW r \in Requests, ReplayOrConflict(r) PROVE ClaimInv'
    <3>1. /\ request[r] = "read" /\ request' = [request EXCEPT ![r] = "done"]
          /\ UNCHANGED <<entry, pending, effects, lost>>
      BY <2>3 DEF ReplayOrConflict
    <3>2. Executing' \subseteq Executing
      BY <3>1 DEF Executing, TypeOK
    <3>3. \A s \in effects' \ lost' :
              request'[s] = "committed" \/ <<"complete", s>> \in pending \/ entry = Response(s)
      BY <3>1 DEF ClaimInv, TypeOK
    <3>4. QED
      BY <3>1, <3>2, <3>3, ActiveShrinks
  <2>4. ASSUME NEW r \in Requests, HandlerCommits(r) PROVE ClaimInv'
    <3>1. /\ request[r] = "running" /\ request' = [request EXCEPT ![r] = "committed"]
          /\ effects' = effects \cup {r} /\ UNCHANGED <<entry, pending, lost>>
      BY <2>4 DEF HandlerCommits
    <3>2. Executing' = Executing /\ Active' = Active
      BY <3>1 DEF Executing, Active, TypeOK
    <3>3. \A s \in effects' \ lost' :
              request'[s] = "committed" \/ <<"complete", s>> \in pending \/ entry = Response(s)
      BY <3>1 DEF ClaimInv, TypeOK
    <3>4. QED
      BY <3>1, <3>2, <3>3 DEF ClaimInv
  <2>5. ASSUME NEW r \in Requests, Answer(r) \/ HandlerFails(r) PROVE ClaimInv'
    <3>1. PICK c \in {"complete", "release"} :
              /\ request[r] \in {"running", "committed"}
              /\ request[r] = "committed" => c = "complete"
              /\ request' = [request EXCEPT ![r] = "done"]
              /\ pending' = pending \cup {<<c, r>>}
              /\ UNCHANGED <<entry, effects, lost>>
      BY <2>5 DEF Answer, HandlerFails, AfterSuccess, AfterFailure
    <3>2. r \in Executing /\ Active = {r} /\ entry = InProgress
      BY <3>1 DEF ClaimInv, Active, Executing
    <3>3. pending = {}
      BY <2>a, <3>2 DEF ClaimInv
    <3>4. Executing' = {} /\ Active' = {r}
      BY <3>1, <3>2, <3>3 DEF Active, Executing, TypeOK
    <3>5. \A s \in effects' \ lost' :
              request'[s] = "committed" \/ <<"complete", s>> \in pending' \/ entry = Response(s)
      BY <3>1, <3>2, <3>3 DEF ClaimInv, TypeOK
    <3>6. QED
      BY <3>1, <3>2, <3>3, <3>4, <3>5 DEF ClaimInv
  <2>6. ASSUME NEW r \in Requests, Execute(r) PROVE ClaimInv'
    <3>1. PICK c \in {"complete", "release"} :
              /\ <<c, r>> \in pending /\ pending' = pending \ {<<c, r>>}
              /\ entry' = IF c = "complete" THEN Response(r) ELSE Absent
              /\ UNCHANGED <<request, effects, lost>>
      BY <2>6 DEF Execute
    <3>1a. r \in Active
      BY <3>1 DEF Active
    <3>1b. Active = {r} /\ pending = {<<c, r>>} /\ entry = InProgress /\ r \notin Executing
      BY <3>1, <3>1a DEF ClaimInv
    <3>2. Active = {r} /\ Executing = {} /\ pending' = {} /\ entry = InProgress
      BY <3>1, <3>1b DEF Active
    <3>3. Executing' = {} /\ Active' = {}
      BY <3>1, <3>2 DEF Active, Executing
    <3>4. \A s \in effects' \ lost' : entry' = Response(s)
      <4>1. \A s \in effects \ lost :
                request[s] = "committed" \/ <<"complete", s>> \in pending \/ entry = Response(s)
        BY DEF ClaimInv
      <4>2. \A s \in effects \ lost : <<"complete", s>> = <<c, r>>
        BY <3>1, <3>2, <4>1 DEF ClaimInv, Executing, TypeOK, InProgress, Response
      <4>3. QED
        BY <3>1, <4>2
    <3>5. QED
      BY <3>2, <3>3, <3>4 DEF ClaimInv
  <2>7. ASSUME NEW r \in Requests, Crash(r) PROVE ClaimInv'
    <3>1. /\ request' = [request EXCEPT ![r] = "done"]
          /\ lost' = IF request[r] = "committed" THEN lost \cup {r} ELSE lost
          /\ UNCHANGED <<entry, pending, effects>>
      BY <2>7 DEF Crash
    <3>2. Executing' \subseteq Executing
      BY <3>1 DEF Executing, TypeOK
    <3>3. \A s \in effects' \ lost' :
              request'[s] = "committed" \/ <<"complete", s>> \in pending \/ entry = Response(s)
      BY <3>1 DEF ClaimInv, TypeOK
    <3>4. QED
      BY <3>1, <3>2, <3>3, ActiveShrinks
  <2>8. ASSUME NEW r \in Requests, LoseCommand(r) PROVE ClaimInv'
    <3>1. PICK c \in {"complete", "release"} :
              /\ <<c, r>> \in pending /\ pending' = pending \ {<<c, r>>}
              /\ lost' = IF c = "complete" THEN lost \cup {r} ELSE lost
              /\ UNCHANGED <<entry, request, effects>>
      BY <2>8 DEF LoseCommand
    <3>1a. r \in Active
      BY <3>1 DEF Active
    <3>1b. Active = {r} /\ pending = {<<c, r>>} /\ entry = InProgress /\ r \notin Executing
      BY <3>1, <3>1a DEF ClaimInv
    <3>2. Active = {r} /\ Executing = {} /\ pending' = {} /\ entry = InProgress
      BY <3>1, <3>1b DEF Active
    <3>3. Executing' = {} /\ Active' = {}
      BY <3>1, <3>2 DEF Active, Executing
    <3>4. effects' \ lost' = {}
      <4>1. \A s \in effects \ lost :
                request[s] = "committed" \/ <<"complete", s>> \in pending \/ entry = Response(s)
        BY DEF ClaimInv
      <4>2. \A s \in effects \ lost : <<"complete", s>> = <<c, r>>
        BY <3>1, <3>2, <4>1 DEF ClaimInv, Executing, TypeOK, InProgress, Response
      <4>3. QED
        BY <3>1, <4>2
    <3>5. QED
      BY <3>2, <3>3, <3>4 DEF ClaimInv
  <2>9. CASE ExpireClaim
    <3>1. /\ Executing = {} /\ pending = {} /\ entry = InProgress
          /\ UNCHANGED <<request, pending, effects, lost>>
      BY <2>9, FlagTypes DEF ExpireClaim, MayExpire
    <3>2. Executing' = {} /\ Active' = {}
      BY <3>1 DEF Active, Executing
    <3>3. effects \ lost = {}
      BY <3>1 DEF ClaimInv, Executing, TypeOK, InProgress, Response
    <3>4. QED
      BY <3>1, <3>2, <3>3 DEF ClaimInv
  <2>10. QED
    BY <2>1, <2>2, <2>3, <2>4, <2>5, <2>6, <2>7, <2>8, <2>9 DEF Next, Step
<1>3. QED
  BY <1>1, <1>2, TypeCorrect, PTL DEF Spec

\* While no handler outlasts its claim, at most one of the requests with a key
\* executes, whatever crashes and whatever Redis loses.
THEOREM OneAtATime == SlowHandlers = FALSE => (Spec => []OneExecutionAtATime)
<1> SUFFICES ASSUME SlowHandlers = FALSE PROVE Spec => []OneExecutionAtATime
  OBVIOUS
<1>1. ClaimInv => OneExecutionAtATime
  BY AtMostOne DEF ClaimInv, Active, OneExecutionAtATime
<1>2. QED
  BY <1>1, ClaimInvHolds, PTL

\* And of the commits at most one did not lose its response, however often the
\* request was sent.
THEOREM OneEffect == SlowHandlers = FALSE => (Spec => []OneEffectUnlessLost)
<1> SUFFICES ASSUME SlowHandlers = FALSE PROVE Spec => []OneEffectUnlessLost
  OBVIOUS
<1>1. TypeOK /\ ClaimInv => OneEffectUnlessLost
  <2> SUFFICES ASSUME TypeOK, ClaimInv PROVE \A a, b \in effects \ lost : a = b
    BY AtMostOne DEF OneEffectUnlessLost
  <2>1. \A r \in effects \ lost : r \in Active \/ entry = Response(r)
    BY DEF ClaimInv, Active, Executing, TypeOK
  <2>2. \A r : entry = Response(r) => Active = {}
    BY DEF ClaimInv, InProgress, Response
  <2>3. \A a, b : Response(a) = Response(b) => a = b
    BY DEF Response
  <2>4. QED
    BY <2>1, <2>2, <2>3 DEF ClaimInv
<1>2. QED
  BY <1>1, ClaimInvHolds, TypeCorrect, PTL

=============================================================================
