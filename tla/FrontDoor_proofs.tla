-------------------------- MODULE FrontDoor_proofs --------------------------
(***************************************************************************)
(* What FrontDoor promises, for any threads, clients, limits and kinds of  *)
(* failures.                                                               *)
(*                                                                         *)
(* One id per request: a thread enters with no id left over, keeps the id  *)
(* of its request in a context of its own until it leaves, and makes ids   *)
(* that no request has had.  The same answer on every path: each row of    *)
(* the two tables gives the code of its condition.  An exact wait: as long *)
(* as an address waits, its list is full and ends with the request that    *)
(* the wait was reckoned from.                                             *)
(***************************************************************************)
EXTENDS FrontDoor, WellFoundedInduction, TLAPS

RequestFields == {"address", "supplied", "scoped", "id", "outer", "seen", "at"}

AnswerFields == {"supplied", "exc", "status", "code", "id", "header", "logged"}

(* An id the middleware can have given to a request with that header.      *)
Given(id, supplied) ==
  /\ supplied \in Safe => id = supplied
  /\ supplied \notin Safe => id \in 1 .. received

(* A thread in a request: the id is in its context and nothing is sent.    *)
Serving(w) ==
  LET r == request[w]  a == answer[w]
  IN  /\ DOMAIN r = RequestFields
      /\ r.outer = NoId /\ current[w] = r.id /\ Given(r.id, r.supplied)
      /\ a.header = None
      /\ pc[w] = "leaving" =>
           a.id = r.id /\ a.supplied = r.supplied /\ a.logged \subseteq {r.id}

(* A thread between requests: no id in its context, and the last answer    *)
(* bears one.                                                              *)
Resting(w) ==
  LET a == answer[w]
  IN  /\ current[w] = NoId
      /\ a.header # None =>
           a.id = a.header /\ a.logged = {a.header} /\ Given(a.header, a.supplied)

Bears(w, id) ==
  IF pc[w] = "idle" THEN answer[w].header # None /\ answer[w].header = id
  ELSE request[w].id = id

(* No two threads have an id that was made.                                *)
MadeOnce ==
  \A v, w \in Workers : \A id \in Nat : Bears(v, id) /\ Bears(w, id) => v = w

DoorInv ==
  /\ received \in Nat
  /\ DOMAIN current = Workers /\ DOMAIN pc = Workers
  /\ DOMAIN request = Workers /\ DOMAIN answer = Workers
  /\ \A w \in Workers :
       /\ DOMAIN answer[w] = AnswerFields
       /\ IF pc[w] = "idle" THEN Resting(w) ELSE Serving(w)
  /\ MadeOnce

-----------------------------------------------------------------------------
LEMMA NoAnswerFields == DOMAIN NoAnswer = AnswerFields /\ NoAnswer.header = None
BY DEF NoAnswer, AnswerFields

LEMMA InitDoorInv == Init => DoorInv
<1> SUFFICES ASSUME Init PROVE DoorInv
  OBVIOUS
<1>1. ASSUME NEW w \in Workers
      PROVE  pc[w] = "idle" /\ answer[w] = NoAnswer /\ current[w] = NoId
  BY DEF Init
<1>2. /\ received \in Nat
      /\ DOMAIN current = Workers /\ DOMAIN pc = Workers
      /\ DOMAIN request = Workers /\ DOMAIN answer = Workers
  BY DEF Init
<1>3. MadeOnce
  BY <1>1, NoAnswerFields DEF MadeOnce, Bears
<1> QED BY <1>1, <1>2, <1>3, NoAnswerFields DEF DoorInv, Resting

(* A step of w alone that makes no id keeps the invariant if w is as it    *)
(* has to be, and bears no id it did not.                                  *)
LEMMA OneThread ==
  ASSUME DoorInv, NEW w \in Workers, received' = received,
         DOMAIN current' = Workers, DOMAIN pc' = Workers,
         DOMAIN request' = Workers, DOMAIN answer' = Workers,
         \A v \in Workers \ {w} :
           /\ pc'[v] = pc[v] /\ current'[v] = current[v]
           /\ request'[v] = request[v] /\ answer'[v] = answer[v],
         DOMAIN answer'[w] = AnswerFields,
         IF pc'[w] = "idle" THEN Resting(w)' ELSE Serving(w)',
         \A id \in Nat : Bears(w, id)' => Bears(w, id)
  PROVE  DoorInv'
<1>1. ASSUME NEW v \in Workers \ {w}
      PROVE  /\ DOMAIN answer'[v] = AnswerFields
             /\ IF pc'[v] = "idle" THEN Resting(v)' ELSE Serving(v)'
  BY <1>1 DEF DoorInv, Resting, Serving, Given
<1>2. ASSUME NEW v \in Workers, NEW id \in Nat PROVE Bears(v, id)' => Bears(v, id)
  <2>1. CASE v = w
    BY <2>1
  <2>2. CASE v # w
    BY <2>2 DEF Bears
  <2> QED BY <2>1, <2>2
<1>3. MadeOnce'
  BY <1>2 DEF DoorInv, MadeOnce
<1> QED BY <1>1, <1>3 DEF DoorInv

(* The id a request gets is one its client sent or one nobody has had.     *)
LEMMA EnterDoorInv ==
  ASSUME DoorInv, NEW w \in Workers, Enter(w)
  PROVE  DoorInv'
<1>1. PICK a \in Addresses, supplied \in Supplied, scoped \in BOOLEAN :
        LET id == ResolveRequestId(supplied)
        IN  /\ request' = [request EXCEPT ![w] =
                 [address |-> a, supplied |-> supplied, scoped |-> scoped, id |-> id,
                  outer |-> GetRequestId(w), seen |-> <<>>, at |-> 0]]
            /\ current' = [current EXCEPT ![Context(w)] = id]
  BY DEF Enter
<1> DEFINE id == ResolveRequestId(supplied)
           r == [address |-> a, supplied |-> supplied, scoped |-> scoped, id |-> id,
                 outer |-> GetRequestId(w), seen |-> <<>>, at |-> 0]
<1>2. /\ DOMAIN r = RequestFields /\ r.supplied = supplied /\ r.id = id
      /\ r.outer = current[w]
  BY DEF RequestFields, GetRequestId, Context
<1>3. request' = [request EXCEPT ![w] = r] /\ current' = [current EXCEPT ![w] = id]
  BY <1>1 DEF Context
<1> HIDE DEF r
<1>4. /\ DOMAIN current' = Workers /\ DOMAIN pc' = Workers
      /\ DOMAIN request' = Workers /\ DOMAIN answer' = Workers
      /\ pc[w] = "idle" /\ pc'[w] = "django" /\ current'[w] = id
      /\ request'[w] = r /\ answer'[w] = NoAnswer
      /\ \A v \in Workers \ {w} :
           /\ pc'[v] = pc[v] /\ current'[v] = current[v]
           /\ request'[v] = request[v] /\ answer'[v] = answer[v]
      /\ received \in Nat /\ received' = received + 1
  BY <1>3 DEF Enter, Goto, DoorInv
<1>5. \A i, s : Given(i, s) => Given(i, s)'
  BY <1>4 DEF Given
<1>6. /\ supplied \in Safe => id = supplied
      /\ supplied \notin Safe => id \in 1 .. received'
  BY <1>4 DEF ResolveRequestId
<1>7. r.outer = NoId
  BY <1>2, <1>4 DEF DoorInv, Resting
<1>8. Serving(w)'
  <2> HIDE DEF id
  <2>1. /\ DOMAIN request'[w] = RequestFields /\ request'[w].outer = NoId
        /\ request'[w].id = id /\ request'[w].supplied = supplied
    BY <1>2, <1>4, <1>7
  <2> QED BY <1>4, <1>6, <2>1, NoAnswerFields DEF Serving, Given
<1>9. ASSUME NEW v \in Workers \ {w}
      PROVE  /\ DOMAIN answer'[v] = AnswerFields
             /\ IF pc'[v] = "idle" THEN Resting(v)' ELSE Serving(v)'
  BY <1>4, <1>5, <1>9 DEF DoorInv, Resting, Serving
<1>10. ASSUME NEW v \in Workers \ {w}, NEW n \in Nat, Bears(v, n)
       PROVE  n <= received
  <2>1. PICK s : Given(n, s)
    BY <1>10 DEF DoorInv, Resting, Serving, Bears
  <2> QED BY <1>4, <2>1, DoorAssumption DEF Given
<1>11. ASSUME NEW n \in Nat, Bears(w, n)' PROVE n = received + 1
  <2>1. n = id
    BY <1>2, <1>4, <1>11 DEF Bears
  <2> QED BY <2>1, DoorAssumption DEF ResolveRequestId
<1>12. ASSUME NEW v \in Workers \ {w}, NEW n \in Nat PROVE Bears(v, n)' <=> Bears(v, n)
  BY <1>4, <1>12 DEF Bears
<1>13. MadeOnce'
  <2> SUFFICES ASSUME NEW u \in Workers, NEW v \in Workers, NEW n \in Nat,
                      Bears(u, n)', Bears(v, n)', u # v
               PROVE  FALSE
    BY DEF MadeOnce
  <2>1. CASE u # w /\ v # w
    BY <1>12, <2>1 DEF DoorInv, MadeOnce
  <2>2. CASE u = w
    <3>1. n <= received /\ n = received + 1
      BY <1>10, <1>11, <1>12, <2>2
    <3> QED BY <1>4, <3>1
  <2>3. CASE v = w
    <3>1. n <= received /\ n = received + 1
      BY <1>10, <1>11, <1>12, <2>3
    <3> QED BY <1>4, <3>1
  <2> QED BY <2>1, <2>2, <2>3
<1> QED BY <1>4, <1>8, <1>9, <1>13, NoAnswerFields DEF DoorInv

(* Every answer reads the id of the request from the thread's own context. *)
LEMMA RespondDoorInv ==
  ASSUME DoorInv, NEW w \in Workers, pc[w] # "idle",
         NEW exc, NEW a, NEW lines, lines \subseteq {GetRequestId(w)},
         Respond(w, exc, a, lines), UNCHANGED <<received, current, request>>
  PROVE  DoorInv'
<1> DEFINE b == [supplied |-> request[w].supplied, exc |-> exc, status |-> a.status,
                 code |-> a.code, id |-> GetRequestId(w), header |-> None,
                 logged |-> lines]
<1>1. /\ DOMAIN b = AnswerFields /\ b.supplied = request[w].supplied
      /\ b.id = current[w] /\ b.header = None /\ b.logged = lines
  BY DEF AnswerFields, GetRequestId, Context
<1>2. answer' = [answer EXCEPT ![w] = b] /\ pc' = [pc EXCEPT ![w] = "leaving"]
  BY DEF Respond, Goto
<1> HIDE DEF b
<1>3. /\ DOMAIN current' = Workers /\ DOMAIN pc' = Workers
      /\ DOMAIN request' = Workers /\ DOMAIN answer' = Workers
      /\ answer'[w] = b /\ pc'[w] = "leaving"
      /\ \A v \in Workers \ {w} :
           /\ pc'[v] = pc[v] /\ current'[v] = current[v]
           /\ request'[v] = request[v] /\ answer'[v] = answer[v]
  BY <1>2 DEF DoorInv
<1>4. Serving(w)
  BY DEF DoorInv
<1>5. Serving(w)'
  BY <1>1, <1>3, <1>4 DEF Serving, Given, GetRequestId, Context
<1>6. \A id \in Nat : Bears(w, id)' => Bears(w, id)
  BY <1>3 DEF Bears
<1> QED BY <1>1, <1>3, <1>5, <1>6, OneThread

(* Between the door and the answer the request keeps its id.               *)
LEMMA MoveDoorInv ==
  ASSUME DoorInv, NEW w \in Workers, pc[w] \notin {"idle", "leaving"},
         NEW to, to \notin {"idle", "leaving"}, Goto(w, to),
         UNCHANGED <<received, current, answer>>,
         DOMAIN request' = Workers, DOMAIN request'[w] = RequestFields,
         \A f \in {"id", "supplied", "outer"} : request'[w][f] = request[w][f],
         \A v \in Workers \ {w} : request'[v] = request[v]
  PROVE  DoorInv'
<1>1. /\ DOMAIN pc' = Workers /\ pc'[w] = to
      /\ \A v \in Workers \ {w} : pc'[v] = pc[v]
  BY DEF Goto, DoorInv
<1>2. /\ request'[w].id = request[w].id /\ request'[w].supplied = request[w].supplied
      /\ request'[w].outer = request[w].outer
  OBVIOUS
<1>3. Serving(w) /\ DOMAIN answer[w] = AnswerFields
      /\ DOMAIN answer = Workers /\ DOMAIN current = Workers
  BY DEF DoorInv
<1>4. Serving(w)'
  BY <1>1, <1>2, <1>3 DEF Serving, Given
<1>5. \A id \in Nat : Bears(w, id)' => Bears(w, id)
  BY <1>1, <1>2 DEF Bears
<1> QED BY <1>1, <1>3, <1>4, <1>5, OneThread

(* The middleware sends the id it kept and leaves none behind.             *)
LEMMA LeaveDoorInv ==
  ASSUME DoorInv, NEW w \in Workers, Leave(w)
  PROVE  DoorInv'
<1>1. /\ DOMAIN answer[w] = AnswerFields /\ Serving(w) /\ pc[w] = "leaving"
  BY DEF DoorInv, Leave
<1>2. /\ DOMAIN current' = Workers /\ DOMAIN pc' = Workers
      /\ DOMAIN request' = Workers /\ DOMAIN answer' = Workers
      /\ pc'[w] = "idle" /\ current'[w] = request[w].outer
      /\ answer'[w] = [answer[w] EXCEPT !.header = request[w].id,
                                        !.logged = @ \cup {request[w].id}]
      /\ \A v \in Workers \ {w} :
           /\ pc'[v] = pc[v] /\ current'[v] = current[v]
           /\ request'[v] = request[v] /\ answer'[v] = answer[v]
      /\ received' = received
  BY DEF Leave, Goto, Context, DoorInv
<1>3. /\ DOMAIN answer'[w] = AnswerFields
      /\ answer'[w].header = request[w].id
      /\ answer'[w].logged = answer[w].logged \cup {request[w].id}
      /\ answer'[w].id = answer[w].id /\ answer'[w].supplied = answer[w].supplied
  BY <1>1, <1>2 DEF AnswerFields
<1>4. answer'[w].logged = {request[w].id}
  BY <1>1, <1>3 DEF Serving
<1>5. Resting(w)'
  BY <1>1, <1>2, <1>3, <1>4 DEF Serving, Resting, Given
<1>6. \A id \in Nat : Bears(w, id)' => Bears(w, id)
  BY <1>1, <1>2, <1>3 DEF Bears
<1> QED BY <1>2, <1>3, <1>5, <1>6, OneThread

-----------------------------------------------------------------------------
LEMMA NextDoorInv == DoorInv /\ [Next]_doorVars => DoorInv'
<1> SUFFICES ASSUME DoorInv, [Next]_doorVars PROVE DoorInv'
  OBVIOUS
<1>1. ASSUME NEW w \in Workers, Enter(w) PROVE DoorInv'
  BY <1>1, EnterDoorInv
<1>2. ASSUME NEW w \in Workers, Leave(w) PROVE DoorInv'
  BY <1>2, LeaveDoorInv
<1>3. ASSUME NEW w \in Workers, AnswerByDjango(w) PROVE DoorInv'
  BY <1>3, RespondDoorInv DEF AnswerByDjango
<1>4. ASSUME NEW w \in Workers, Throttle(w) PROVE DoorInv'
  <2>1. Respond(w, "Throttled", ApiExceptionHandler("Throttled", Debug), {})
    BY <1>4 DEF Throttle
  <2>2. pc[w] # "idle" /\ UNCHANGED <<received, current, request>>
    BY <1>4 DEF Throttle
  <2> QED BY <2>1, <2>2, RespondDoorInv
<1>5. ASSUME NEW w \in Workers, Succeed(w) \/ Degraded(w) \/ Raise(w) PROVE DoorInv'
  <2>1. CASE Succeed(w) \/ Degraded(w)
    <3>1. PICK status \in {200, 503} : Respond(w, None, Answer(status, ""), {})
      BY <2>1 DEF Succeed, Degraded
    <3>2. pc[w] # "idle" /\ UNCHANGED <<received, current, request>>
      BY <2>1 DEF Succeed, Degraded
    <3> DEFINE a == Answer(status, "")
    <3> HIDE DEF a
    <3>3. Respond(w, None, a, {}) /\ {} \subseteq {GetRequestId(w)}
      BY <3>1 DEF a
    <3> QED BY <3>2, <3>3, RespondDoorInv
  <2>2. CASE Raise(w)
    <3>1. PICK exc \in Exceptions \ {"Throttled"} :
            Respond(w, exc, ApiExceptionHandler(exc, Debug),
                    IF exc \in Recognised \cup {"RequestDataTooBig"} THEN {}
                    ELSE {GetRequestId(w)})
      BY <2>2 DEF Raise
    <3>2. pc[w] # "idle" /\ UNCHANGED <<received, current, request>>
      BY <2>2 DEF Raise
    <3> QED BY <3>1, <3>2, RespondDoorInv
  <2> QED BY <1>5, <2>1, <2>2
<1>6. ASSUME NEW w \in Workers, pc[w] \notin {"idle", "leaving"}
      PROVE  DOMAIN request = Workers /\ DOMAIN request[w] = RequestFields
  BY <1>6 DEF DoorInv, Serving
<1>7. ASSUME NEW w \in Workers, Dispatch(w) \/ Count(w) PROVE DoorInv'
  <2>1. CASE Dispatch(w)
    <3>1. Goto(w, IF request[w].scoped THEN "throttle" ELSE "view") /\ pc[w] = "django"
          /\ UNCHANGED <<received, current, request, answer>>
      BY <2>1 DEF Dispatch
    <3> QED BY <1>6, <3>1, MoveDoorInv
  <2>2. CASE Count(w)
    <3>1. Goto(w, "view") /\ pc[w] = "count"
          /\ UNCHANGED <<received, current, request, answer>>
      BY <2>2 DEF Count
    <3> QED BY <1>6, <3>1, MoveDoorInv
  <2> QED BY <1>7, <2>1, <2>2
<1>8. ASSUME NEW w \in Workers, LetIn(w) PROVE DoorInv'
  <2> DEFINE times == Pruned(history[request[w].address])
  <2>1. /\ Goto(w, "count") /\ pc[w] = "throttle"
        /\ request' = [request EXCEPT ![w].seen = times, ![w].at = clock]
        /\ UNCHANGED <<received, current, answer>>
    BY <1>8 DEF LetIn
  <2> HIDE DEF times
  <2>2. /\ DOMAIN request' = Workers
        /\ request'[w] = [request[w] EXCEPT !.seen = times, !.at = clock]
        /\ \A v \in Workers \ {w} : request'[v] = request[v]
    BY <1>6, <2>1
  <2>3. /\ DOMAIN request'[w] = RequestFields
        /\ \A f \in {"id", "supplied", "outer"} : request'[w][f] = request[w][f]
    BY <1>6, <2>1, <2>2 DEF RequestFields
  <2> QED BY <2>1, <2>2, <2>3, MoveDoorInv
<1>9. CASE Tick \/ UNCHANGED doorVars
  <2>1. UNCHANGED <<received, current, pc, request, answer>>
    BY <1>9 DEF Tick, doorVars
  <2> QED BY <2>1 DEF DoorInv, Resting, Serving, Given, MadeOnce, Bears
<1> QED BY <1>1, <1>2, <1>3, <1>4, <1>5, <1>7, <1>8, <1>9 DEF Next, Serve

LEMMA DoorInvariance == Spec => []DoorInv
<1> QED BY InitDoorInv, NextDoorInv, PTL DEF Spec

(* Header, body and log lines bear the id of their own request, whatever   *)
(* other threads are in the middle of; and no id is left in a thread.      *)
THEOREM IdsNeverMix == Spec => []OneIdPerRequest
<1>1. DoorInv => OneIdPerRequest
  <2> SUFFICES ASSUME DoorInv PROVE OneIdPerRequest
    OBVIOUS
  <2>1. ASSUME NEW w \in Workers, pc[w] = "idle" PROVE GetRequestId(w) = NoId
    BY <2>1 DEF DoorInv, Resting, GetRequestId, Context
  <2>2. ASSUME NEW w \in Answered
        PROVE  /\ w \in Workers /\ pc[w] = "idle" /\ answer[w].header # None
               /\ answer[w].id = answer[w].header
               /\ answer[w].logged = {answer[w].header}
               /\ Given(answer[w].header, answer[w].supplied)
    BY <2>2 DEF Answered, DoorInv, Resting, Serving
  <2>3. ASSUME NEW w \in Answered, NEW v \in Answered \ {w},
               answer[v].header = answer[w].header
        PROVE  answer[w].header \in Safe
    <3> SUFFICES ASSUME answer[w].header \notin Safe PROVE FALSE
      OBVIOUS
    <3>1. answer[w].header \in Nat
      BY <2>2 DEF Given, DoorInv
    <3>2. Bears(w, answer[w].header) /\ Bears(v, answer[w].header)
      BY <2>2, <2>3 DEF Bears
    <3> QED BY <2>2, <2>3, <3>1, <3>2 DEF DoorInv, MadeOnce
  <2> QED BY <2>1, <2>2, <2>3 DEF OneIdPerRequest, Given
<1> QED BY <1>1, DoorInvariance, PTL

-----------------------------------------------------------------------------
(* The code of a condition, and the status that a code goes with.          *)
CodeOf(condition) ==
  CASE condition \in DOMAIN DomainError -> DomainError[condition].code
    [] condition = "RequestDataTooBig" -> "request_too_large"
    [] condition = "SuspiciousOperation" -> "server_error"
    [] condition = "Exception" -> "server_error"
    [] OTHER -> Translated(RestException[condition].code)

StatusOf ==
  [invalid_transition |-> 400, version_conflict |-> 409, ticket_closed |-> 409,
   invalid_assignment |-> 400, validation_error |-> 400, malformed_request |-> 400,
   not_authenticated |-> 401, token_not_valid |-> 401, permission_denied |-> 403,
   not_found |-> 404, method_not_allowed |-> 405, unsupported_media_type |-> 415,
   throttled |-> 429, request_too_large |-> 413, server_error |-> 500]

(* What a failure may be answered with, out of debugging.                  *)
Failure(exc, status, code) ==
  /\ code \in DOMAIN StatusOf /\ status = StatusOf[code]
  /\ exc # "SuspiciousOperation" => code = CodeOf(Condition(exc))
  /\ exc = "SuspiciousOperation" => code \in {"server_error", "malformed_request"}

LEMMA Tables ==
  /\ DOMAIN DomainError =
       {"InvalidTransition", "VersionConflict", "TicketClosed", "InvalidAssignment"}
  /\ DOMAIN RestException =
       {"ValidationError", "ParseError", "AuthenticationFailed", "NotAuthenticated",
        "InvalidToken", "PermissionDenied", "NotFound", "MethodNotAllowed",
        "UnsupportedMediaType", "Throttled"}
  /\ DOMAIN StatusOf =
       {"invalid_transition", "version_conflict", "ticket_closed", "invalid_assignment",
        "validation_error", "malformed_request", "not_authenticated", "token_not_valid",
        "permission_denied", "not_found", "method_not_allowed", "unsupported_media_type",
        "throttled", "request_too_large", "server_error"}
  BY DEF DomainError, RestException, StatusOf

LEMMA RestAnswers ==
  ASSUME NEW exc \in DOMAIN RestException
  PROVE  LET code == Translated(RestException[exc].code)
         IN  code \in DOMAIN StatusOf /\ RestException[exc].status = StatusOf[code]
<1>1. CASE exc \in {"ValidationError", "ParseError", "AuthenticationFailed",
                    "NotAuthenticated", "PermissionDenied"}
  BY <1>1 DEF RestException, StatusOf, Translated, _DRF_CODE_MAP, Answer
<1>2. CASE exc \in {"InvalidToken", "NotFound", "MethodNotAllowed",
                    "UnsupportedMediaType", "Throttled"}
  BY <1>2 DEF RestException, StatusOf, Translated, _DRF_CODE_MAP, Answer
<1> QED BY <1>1, <1>2, Tables

LEMMA ApiAnswers ==
  ASSUME NEW exc \in Exceptions
  PROVE  LET a == ApiExceptionHandler(exc, FALSE) IN Failure(exc, a.status, a.code)
<1> DEFINE a == ApiExceptionHandler(exc, FALSE)
<1> SUFFICES Failure(exc, a.status, a.code)
  OBVIOUS
<1>1. CASE exc \in DOMAIN DomainError
  <2>1. a = DomainError[exc] /\ Condition(exc) = exc /\ exc # "SuspiciousOperation"
    BY <1>1, Tables DEF ApiExceptionHandler, Classify, Recognised, Exceptions, Condition
  <2>2. CodeOf(exc) = DomainError[exc].code
    BY <1>1, Tables DEF CodeOf
  <2>3. DomainError[exc].code \in DOMAIN StatusOf
        /\ DomainError[exc].status = StatusOf[DomainError[exc].code]
    BY <1>1, Tables DEF DomainError, StatusOf, Answer
  <2> QED BY <2>1, <2>2, <2>3 DEF Failure
<1>2. CASE exc \in DOMAIN RestException
  <2> DEFINE code == Translated(RestException[exc].code)
  <2>1. /\ a = Answer(RestException[exc].status, code)
        /\ Condition(exc) = exc /\ exc # "SuspiciousOperation"
    <3>1. /\ exc \notin DOMAIN DomainError /\ exc \notin DjangoException
          /\ exc \in Exceptions
      BY <1>2, Tables DEF Exceptions, DjangoException
    <3>2. a = Classify(exc)
      BY <3>1 DEF ApiExceptionHandler, Recognised, DjangoException
    <3>3. Classify(exc) = Answer(RestException[exc].status, code)
      BY <1>2, <3>1 DEF Classify, DjangoException
    <3>4. Condition(exc) = exc /\ exc # "SuspiciousOperation"
      BY <3>1 DEF Condition, DjangoException
    <3> QED BY <3>2, <3>3, <3>4
  <2>2. CodeOf(exc) = code
    BY <1>2, Tables DEF CodeOf
  <2>3. code \in DOMAIN StatusOf /\ RestException[exc].status = StatusOf[code]
    BY <1>2, RestAnswers
  <2> HIDE DEF a, code
  <2>4. a.code = code /\ a.status = RestException[exc].status
    BY <2>1 DEF Answer
  <2> QED BY <2>1, <2>2, <2>3, <2>4 DEF Failure
<1>3. CASE exc \in DjangoException
  <2>1. /\ exc = "RequestDataTooBig" => a = Answer(413, "request_too_large")
        /\ exc = "Http404" => a = Answer(404, "not_found")
        /\ exc = "DjangoPermissionDenied" => a = Answer(403, "permission_denied")
        /\ exc \in {"SuspiciousOperation", "Exception"} => a = Answer(500, "server_error")
    BY <1>3, Tables DEF ApiExceptionHandler, Classify, Recognised, Exceptions,
      DjangoException, Crashed
  <2>2. /\ CodeOf("RequestDataTooBig") = "request_too_large"
        /\ CodeOf("Exception") = "server_error"
        /\ CodeOf("NotFound") = "not_found"
        /\ CodeOf("PermissionDenied") = "permission_denied"
    BY Tables DEF CodeOf, RestException, Translated, _DRF_CODE_MAP, Answer
  <2>3. Condition(exc) = CASE exc = "Http404" -> "NotFound"
                           [] exc = "DjangoPermissionDenied" -> "PermissionDenied"
                           [] OTHER -> exc
    BY DEF Condition
  <2> HIDE DEF a
  <2>4. StatusOf["request_too_large"] = 413 /\ StatusOf["not_found"] = 404
        /\ StatusOf["permission_denied"] = 403 /\ StatusOf["server_error"] = 500
    BY DEF StatusOf
  <2>5. CASE exc = "RequestDataTooBig"
    BY <2>1, <2>2, <2>3, <2>4, <2>5, Tables DEF Failure, Answer
  <2>6. CASE exc = "Http404"
    BY <2>1, <2>2, <2>3, <2>4, <2>6, Tables DEF Failure, Answer
  <2>7. CASE exc = "DjangoPermissionDenied"
    BY <2>1, <2>2, <2>3, <2>4, <2>7, Tables DEF Failure, Answer
  <2>8. CASE exc \in {"SuspiciousOperation", "Exception"}
    BY <2>1, <2>2, <2>3, <2>4, <2>8, Tables DEF Failure, Answer
  <2> QED BY <1>3, <2>5, <2>6, <2>7, <2>8 DEF DjangoException
<1> QED BY <1>1, <1>2, <1>3 DEF Exceptions

LEMMA DjangoAnswers ==
  ASSUME NEW exc \in DjangoException
  PROVE  LET a == DjangoHandler(exc, FALSE) IN Failure(exc, a.status, a.code)
  BY DEF DjangoHandler, Failure, StatusOf, CodeOf, Condition, BadRequest,
    DomainError, RestException, DjangoException, Translated, _DRF_CODE_MAP,
    Answer, Crashed

AnswersAlike ==
  ~Debug => \A w \in Workers : answer[w].exc # None =>
              Failure(answer[w].exc, answer[w].status, answer[w].code)

LEMMA RespondAlike ==
  ASSUME DoorInv, AnswersAlike, NEW w \in Workers, NEW exc, NEW a, NEW lines,
         Respond(w, exc, a, lines),
         ~Debug /\ exc # None => Failure(exc, a.status, a.code)
  PROVE  AnswersAlike'
<1>1. /\ DOMAIN answer = Workers /\ Debug \in BOOLEAN
      /\ answer' = [answer EXCEPT ![w] =
           [supplied |-> request[w].supplied, exc |-> exc, status |-> a.status,
            code |-> a.code, id |-> GetRequestId(w), header |-> None, logged |-> lines]]
  BY DoorAssumption DEF DoorInv, Respond
<1>2. /\ answer'[w].exc = exc /\ answer'[w].status = a.status /\ answer'[w].code = a.code
      /\ \A v \in Workers \ {w} : answer'[v] = answer[v]
  BY <1>1
<1> QED BY <1>2 DEF AnswersAlike

LEMMA NextAlike ==
  ASSUME DoorInv, AnswersAlike, [Next]_doorVars
  PROVE  AnswersAlike'
<1>1. ASSUME NEW w \in Workers, Enter(w) PROVE AnswersAlike'
  <2>1. /\ DOMAIN answer = Workers /\ answer' = [answer EXCEPT ![w] = NoAnswer]
        /\ NoAnswer.exc = None
    BY <1>1 DEF Enter, DoorInv, NoAnswer
  <2>2. answer'[w].exc = None /\ \A v \in Workers \ {w} : answer'[v] = answer[v]
    BY <2>1
  <2> QED BY <2>2 DEF AnswersAlike
<1>2. ASSUME NEW w \in Workers, Leave(w) PROVE AnswersAlike'
  <2>1. /\ DOMAIN answer = Workers /\ DOMAIN answer[w] = AnswerFields
        /\ answer' = [answer EXCEPT ![w].header = request[w].id,
                                    ![w].logged = @ \cup {request[w].id}]
    BY <1>2 DEF Leave, DoorInv
  <2>2. /\ answer'[w].exc = answer[w].exc /\ answer'[w].status = answer[w].status
        /\ answer'[w].code = answer[w].code
        /\ \A v \in Workers \ {w} : answer'[v] = answer[v]
    BY <2>1 DEF AnswerFields
  <2> QED BY <2>2 DEF AnswersAlike
<1>3. ASSUME NEW w \in Workers, AnswerByDjango(w) PROVE AnswersAlike'
  <2>1. PICK exc \in DjangoException : Respond(w, exc, DjangoHandler(exc, Debug), {})
    BY <1>3 DEF AnswerByDjango
  <2> DEFINE a == DjangoHandler(exc, Debug)
  <2>2. ~Debug => Failure(exc, a.status, a.code)
    <3>1. ~Debug => Debug = FALSE
      BY DoorAssumption
    <3> QED BY <3>1, DjangoAnswers
  <2> HIDE DEF a
  <2> QED BY <2>1, <2>2, RespondAlike DEF a
<1>4. ASSUME NEW w \in Workers, NEW exc \in Exceptions, NEW lines,
             Respond(w, exc, ApiExceptionHandler(exc, Debug), lines)
      PROVE  AnswersAlike'
  <2> DEFINE a == ApiExceptionHandler(exc, Debug)
  <2>1. ~Debug => Failure(exc, a.status, a.code)
    <3>1. ~Debug => Debug = FALSE
      BY DoorAssumption
    <3> QED BY <3>1, ApiAnswers
  <2>2. Respond(w, exc, a, lines)
    BY <1>4
  <2> HIDE DEF a
  <2> QED BY <2>1, <2>2, RespondAlike
<1>5. ASSUME NEW w \in Workers, Succeed(w) \/ Degraded(w) PROVE AnswersAlike'
  <2>1. PICK status \in {200, 503} : Respond(w, None, Answer(status, ""), {})
    BY <1>5 DEF Succeed, Degraded
  <2> DEFINE a == Answer(status, "")
  <2> HIDE DEF a
  <2>2. Respond(w, None, a, {})
    BY <2>1 DEF a
  <2> QED BY <2>2, RespondAlike
<1>6. ASSUME NEW w \in Workers, Throttle(w) \/ Raise(w) PROVE AnswersAlike'
  <2>1. "Throttled" \in Exceptions
    BY Tables DEF Exceptions
  <2>2. CASE Throttle(w)
    BY <1>4, <2>1, <2>2 DEF Throttle
  <2>3. CASE Raise(w)
    <3>1. PICK exc \in Exceptions \ {"Throttled"} :
            Respond(w, exc, ApiExceptionHandler(exc, Debug),
                    IF exc \in Recognised \cup {"RequestDataTooBig"} THEN {}
                    ELSE {GetRequestId(w)})
      BY <2>3 DEF Raise
    <3> QED BY <1>4, <3>1
  <2> QED BY <1>6, <2>2, <2>3
<1>7. ASSUME UNCHANGED answer PROVE AnswersAlike'
  BY <1>7 DEF AnswersAlike
<1>8. ASSUME NEW w \in Workers, Dispatch(w) \/ LetIn(w) \/ Count(w) PROVE AnswersAlike'
  BY <1>7, <1>8 DEF Dispatch, LetIn, Count
<1>9. CASE Tick \/ UNCHANGED doorVars
  BY <1>7, <1>9 DEF Tick, doorVars
<1> QED BY <1>1, <1>2, <1>3, <1>5, <1>6, <1>8, <1>9 DEF Next, Serve

(* A condition has one answer, wherever on the way it is met.              *)
THEOREM OneAnswerPerCondition == Spec => []SameAnswerOnEveryPath
<1>1. Init => AnswersAlike
  <2> SUFFICES ASSUME Init, NEW w \in Workers PROVE answer[w].exc = None
    BY DEF AnswersAlike
  <2>1. NoAnswer.exc = None
    BY DEF NoAnswer
  <2> QED BY <2>1 DEF Init
<1>2. AnswersAlike => SameAnswerOnEveryPath
  <2> SUFFICES ASSUME AnswersAlike, ~Debug,
                      NEW v \in Workers, answer[v].exc # None,
                      NEW w \in Workers, answer[w].exc # None
               PROVE  /\ answer[w].code \notin {"", "html"}
                      /\ answer[v].code = answer[w].code
                           => answer[v].status = answer[w].status
                      /\ Condition(answer[v].exc) = Condition(answer[w].exc)
                           => \/ answer[v].code = answer[w].code
                              \/ answer[v].exc = "SuspiciousOperation"
    BY DEF SameAnswerOnEveryPath
  <2>1. /\ Failure(answer[v].exc, answer[v].status, answer[v].code)
        /\ Failure(answer[w].exc, answer[w].status, answer[w].code)
    BY DEF AnswersAlike
  <2>2. Condition(answer[v].exc) = Condition(answer[w].exc)
          /\ answer[v].exc # "SuspiciousOperation" => answer[w].exc # "SuspiciousOperation"
    BY DEF Condition
  <2> QED BY <2>1, <2>2, Tables DEF Failure
<1> QED BY <1>1, <1>2, NextAlike, DoorInvariance, PTL DEF Spec

-----------------------------------------------------------------------------
LEMMA Least ==
  ASSUME NEW S \in SUBSET Nat, S # {}
  PROVE  \E x \in S : \A y \in S : x <= y
<1>1. PICK x \in S : \A y \in S : ~(<<y, x>> \in OpToRel(<, Nat))
  BY NatLessThanWellFounded, WFMin
<1>2. \A y \in S : ~(y < x)
  BY <1>1 DEF OpToRel
<1> QED BY <1>2

(* What is left of a list is its beginning up to the last entry that still *)
(* counts.                                                                 *)
LEMMA PrunedList ==
  ASSUME NEW h \in Seq(Nat), clock \in Nat
  PROVE  \E n \in 0 .. Len(h) :
           /\ Pruned(h) = [i \in 1 .. n |-> h[i]]
           /\ Pruned(h) \in Seq(Nat) /\ Len(Pruned(h)) = n
           /\ n > 0 => h[n] + Period > clock
           /\ \A j \in n + 1 .. Len(h) : h[j] + Period <= clock
<1> DEFINE kept == {i \in DOMAIN h : \E j \in i .. Len(h) : h[j] + Period > clock}
           Out == {i \in Nat : \A j \in i + 1 .. Len(h) : h[j] + Period <= clock}
<1>1. /\ DOMAIN h = 1 .. Len(h) /\ Len(h) \in Nat
      /\ \A i \in 1 .. Len(h) : h[i] \in Nat
      /\ Period \in Nat
  BY DoorAssumption
<1>2. PICK n \in Out : \A m \in Out : n <= m
  <2>1. Out \in SUBSET Nat /\ Len(h) \in Out
    BY <1>1
  <2> HIDE DEF Out
  <2> QED BY <2>1, Least
<1>3. n \in 0 .. Len(h)
  <2>1. Len(h) \in Out
    BY <1>1
  <2> QED BY <1>1, <1>2, <2>1
<1>4. \A j \in n + 1 .. Len(h) : h[j] + Period <= clock
  BY <1>2
<1>5. n > 0 => h[n] + Period > clock
  <2> SUFFICES ASSUME n > 0, ~(h[n] + Period > clock) PROVE FALSE
    OBVIOUS
  <2>1. h[n] + Period <= clock
    BY <1>1, <1>3
  <2>2. \A j \in n .. Len(h) : h[j] + Period <= clock
    <3> TAKE j \in n .. Len(h)
    <3>1. CASE j = n
      BY <2>1, <3>1
    <3>2. CASE j # n
      <4>1. j \in n + 1 .. Len(h)
        BY <1>1, <1>3, <3>2
      <4> QED BY <1>4, <4>1
    <3> QED BY <3>1, <3>2
  <2>3. n - 1 \in Out
    BY <1>3, <2>2
  <2> QED BY <1>2, <1>3, <2>3
<1>6. kept = 1 .. n
  <2>1. ASSUME NEW i \in 1 .. n PROVE i \in kept
    <3>1. n \in i .. Len(h) /\ i \in DOMAIN h /\ n > 0
      BY <1>1, <1>3
    <3> QED BY <1>5, <3>1
  <2>2. ASSUME NEW i \in kept PROVE i \in 1 .. n
    <3>1. PICK j \in i .. Len(h) : h[j] + Period > clock
      OBVIOUS
    <3>2. ~(j \in n + 1 .. Len(h))
      <4>1. h[j] \in Nat
        BY <1>1, <3>1
      <4> QED BY <1>1, <1>4, <3>1, <4>1
    <3> QED BY <1>1, <1>3, <3>1, <3>2
  <2> QED BY <2>1, <2>2
<1>7. Pruned(h) = [i \in 1 .. n |-> h[i]]
  BY <1>6 DEF Pruned
<1>8. [i \in 1 .. n |-> h[i]] \in [1 .. n -> Nat]
  BY <1>1, <1>3
<1> HIDE DEF kept, Out
<1>9. Pruned(h) \in Seq(Nat) /\ Len(Pruned(h)) = n
  BY <1>3, <1>7, <1>8
<1> QED BY <1>3, <1>4, <1>5, <1>7, <1>9

(* A positive quotient, rounded down and up.                               *)
LEMMA DivUp ==
  ASSUME NEW a \in Nat, NEW b \in Nat \ {0}
  PROVE  /\ a \div b \in Nat
         /\ (a \div b) * b <= a
         /\ a < (a \div b) * b + b
OBVIOUS

(* The answer that makes a client wait ends at a whole number of seconds,  *)
(* less than one after the room is there.                                  *)
LEMMA RoundedUp ==
  ASSUME NEW wait \in Nat \ {0}
  PROVE  /\ RetryAfter(wait) \in Nat
         /\ RetryAfter(wait) * Second \in Nat
         /\ wait <= RetryAfter(wait) * Second
         /\ RetryAfter(wait) * Second < wait + Second
<1>1. Second \in Nat \ {0}
  BY DoorAssumption
<1>2. wait + Second - 1 \in Nat
  BY <1>1
<1> DEFINE a == wait + Second - 1
           q == a \div Second
<1>3. q \in Nat /\ q * Second <= a /\ a < q * Second + Second
  BY <1>1, <1>2, DivUp
<1>4. q * Second \in Nat
  BY <1>1, <1>3
<1>5. RetryAfter(wait) = q
  BY DEF RetryAfter
<1> HIDE DEF q
<1> QED BY <1>1, <1>2, <1>3, <1>4, <1>5

-----------------------------------------------------------------------------
(* What a client was told, read off the limit's history: the room comes    *)
(* with the end of the oldest of the full period, and the wait was rounded *)
(* up to a second.                                                         *)
ToldWhen(a) ==
  told[a] # None =>
    /\ told[a] \in Nat
    /\ Len(history[a]) = Rate
    /\ history[a][Rate] + Period <= told[a]
    /\ told[a] < history[a][Rate] + Period + Second

Histories == history \in [Addresses -> Seq(Nat)]

Requesting(w) ==
  /\ pc[w] # "idle" => request[w].address \in Addresses
  /\ pc[w] = "count" =>
       /\ request[w].seen \in Seq(Nat) /\ request[w].at \in Nat
       /\ Len(request[w].seen) < Rate

WaitInv ==
  /\ clock \in Nat
  /\ Histories
  /\ \A a \in Addresses : Len(history[a]) <= Rate
  /\ DOMAIN told = Addresses
  /\ DOMAIN pc = Workers /\ DOMAIN request = Workers
  /\ \A a \in Addresses : ToldWhen(a)
  /\ \A w \in Workers : Requesting(w)

(* What a thread of another address, or one that does not count, leaves.   *)
LEMMA StillRequesting ==
  ASSUME WaitInv, NEW w \in Workers,
         DOMAIN request' = Workers, DOMAIN pc' = Workers,
         \A v \in Workers \ {w} : pc'[v] = pc[v] /\ request'[v] = request[v],
         Requesting(w)'
  PROVE  \A v \in Workers : Requesting(v)'
BY DEF WaitInv, Requesting

LEMMA InitWait == Init => WaitInv
<1> SUFFICES ASSUME Init PROVE WaitInv
  OBVIOUS
<1>1. Rate \in Nat /\ Rate > 0
  BY DoorAssumption
<1>2. /\ clock \in Nat /\ DOMAIN told = Addresses
      /\ DOMAIN pc = Workers /\ DOMAIN request = Workers
      /\ \A a \in Addresses : history[a] = <<>> /\ told[a] = None
      /\ \A w \in Workers : pc[w] = "idle"
      /\ history \in [Addresses -> Seq(Nat)]
  BY DEF Init
<1>3. \A a \in Addresses : Len(history[a]) <= Rate
  BY <1>1, <1>2
<1> QED BY <1>2, <1>3 DEF WaitInv, Histories, ToldWhen, Requesting

(* The steps that neither count nor tell.                                  *)
LEMMA PassWait ==
  ASSUME WaitInv, DoorInv, NEW w \in Workers,
         \/ AnswerByDjango(w) \/ Dispatch(w) \/ Succeed(w) \/ Degraded(w)
         \/ Raise(w) \/ Leave(w)
  PROVE  WaitInv'
<1>1. /\ UNCHANGED <<clock, history, told>>
      /\ DOMAIN request' = Workers /\ DOMAIN pc' = Workers
      /\ \A v \in Workers \ {w} : pc'[v] = pc[v] /\ request'[v] = request[v]
      /\ pc[w] # "idle" /\ pc'[w] # "count"
      /\ pc'[w] = "idle" \/ request'[w] = request[w]
  <2>0. DOMAIN request = Workers /\ DOMAIN pc = Workers
    BY DEF WaitInv
  <2>1. CASE AnswerByDjango(w)
    BY <2>0, <2>1 DEF AnswerByDjango, Respond, Goto
  <2>2. CASE Dispatch(w)
    BY <2>0, <2>2 DEF Dispatch, Goto
  <2>3. CASE Succeed(w)
    BY <2>0, <2>3 DEF Succeed, Respond, Goto
  <2>6. CASE Degraded(w)
    BY <2>0, <2>6 DEF Degraded, Respond, Goto
  <2>4. CASE Raise(w)
    BY <2>0, <2>4 DEF Raise, Respond, Goto
  <2>5. CASE Leave(w)
    BY <2>0, <2>5 DEF Leave, Goto
  <2> QED BY <2>1, <2>2, <2>3, <2>4, <2>5, <2>6
<1>2. Requesting(w)'
  BY <1>1 DEF WaitInv, Requesting
<1>3. \A v \in Workers : Requesting(v)'
  BY <1>1, <1>2, StillRequesting
<1> QED BY <1>1, <1>3 DEF WaitInv, Histories, ToldWhen

LEMMA EnterWait ==
  ASSUME WaitInv, NEW w \in Workers, Enter(w)
  PROVE  WaitInv'
<1>1. PICK a \in Addresses, supplied \in Supplied, scoped \in BOOLEAN :
        request' = [request EXCEPT ![w] =
           [address |-> a, supplied |-> supplied, scoped |-> scoped,
            id |-> ResolveRequestId(supplied),
            outer |-> GetRequestId(w), seen |-> <<>>, at |-> 0]]
  BY DEF Enter
<1>2. /\ UNCHANGED <<clock, history, told>>
      /\ DOMAIN request' = Workers /\ DOMAIN pc' = Workers
      /\ \A v \in Workers \ {w} : pc'[v] = pc[v] /\ request'[v] = request[v]
      /\ pc'[w] = "django" /\ request'[w].address = a
  BY <1>1 DEF Enter, Goto, WaitInv
<1>3. Requesting(w)'
  BY <1>2 DEF Requesting
<1>4. \A v \in Workers : Requesting(v)'
  BY <1>2, <1>3, StillRequesting
<1> QED BY <1>2, <1>4 DEF WaitInv, Histories, ToldWhen

LEMMA LetInWait ==
  ASSUME WaitInv, DoorInv, NEW w \in Workers, LetIn(w)
  PROVE  WaitInv'
<1> DEFINE a == request[w].address
           times == Pruned(history[a])
<1>1. /\ a \in Addresses /\ pc[w] = "throttle" /\ Len(times) < Rate /\ clock \in Nat
      /\ request' = [request EXCEPT ![w].seen = times, ![w].at = clock]
      /\ UNCHANGED <<clock, history, told>>
  BY DEF LetIn, WaitInv, Requesting
<1>2. DOMAIN request[w] = RequestFields
  BY <1>1 DEF DoorInv, Serving
<1>3. times \in Seq(Nat)
  <2>1. history[a] \in Seq(Nat)
    BY <1>1 DEF WaitInv, Histories
  <2> QED BY <1>1, <2>1, PrunedList
<1> HIDE DEF times
<1>4. /\ DOMAIN request' = Workers /\ DOMAIN pc' = Workers
      /\ \A v \in Workers \ {w} : pc'[v] = pc[v] /\ request'[v] = request[v]
      /\ pc'[w] = "count"
      /\ request'[w] = [request[w] EXCEPT !.seen = times, !.at = clock]
  BY <1>1 DEF LetIn, Goto, WaitInv
<1>5. /\ request'[w].address = a /\ request'[w].seen = times /\ request'[w].at = clock
  BY <1>2, <1>4 DEF RequestFields
<1> HIDE DEF a
<1>6. Requesting(w)'
  BY <1>1, <1>3, <1>4, <1>5 DEF Requesting
<1>7. \A v \in Workers : Requesting(v)'
  BY <1>4, <1>6, StillRequesting
<1> QED BY <1>1, <1>4, <1>7 DEF WaitInv, Histories, ToldWhen

(* A full list ends with the request whose age ends the wait.              *)
LEMMA FullList ==
  ASSUME WaitInv, NEW a \in Addresses, Len(Pruned(history[a])) >= Rate
  PROVE  /\ Len(Pruned(history[a])) = Rate /\ Len(history[a]) = Rate
         /\ Pruned(history[a])[Rate] = history[a][Rate]
         /\ history[a][Rate] \in Nat
         /\ history[a][Rate] + Period > clock
<1>1. /\ history[a] \in Seq(Nat) /\ Len(history[a]) <= Rate
      /\ clock \in Nat /\ Rate \in Nat /\ Rate > 0
  BY DoorAssumption DEF WaitInv, Histories
<1>2. PICK n \in 0 .. Len(history[a]) :
        /\ Pruned(history[a]) = [i \in 1 .. n |-> history[a][i]]
        /\ Len(Pruned(history[a])) = n
        /\ n > 0 => history[a][n] + Period > clock
  BY <1>1, PrunedList
<1>3. n = Rate /\ Len(history[a]) = Rate
  BY <1>1, <1>2
<1> QED BY <1>1, <1>2, <1>3

(* 429: the client is told to come back when the oldest is a period old.   *)
LEMMA ThrottleWait ==
  ASSUME WaitInv, NEW w \in Workers, Throttle(w)
  PROVE  WaitInv'
<1> DEFINE a == request[w].address
           last == history[a][Rate]
           wait == last + Period - clock
<1>1. /\ a \in Addresses /\ pc[w] = "throttle" /\ clock \in Nat
      /\ Len(Pruned(history[a])) >= Rate
      /\ Period \in Nat /\ Second \in Nat
  BY DoorAssumption DEF Throttle, WaitInv, Requesting
<1>2. /\ Len(Pruned(history[a])) = Rate /\ Len(history[a]) = Rate
      /\ Pruned(history[a])[Rate] = last /\ last \in Nat
      /\ last + Period > clock
  BY <1>1, FullList
<1>3. told' = [told EXCEPT ![a] = clock + RetryAfter(wait) * Second]
  BY <1>2 DEF Throttle
<1>4. wait \in Nat \ {0}
  BY <1>1, <1>2
<1>5. /\ RetryAfter(wait) * Second \in Nat
      /\ wait <= RetryAfter(wait) * Second
      /\ RetryAfter(wait) * Second < wait + Second
  BY <1>4, RoundedUp
<1>6. /\ UNCHANGED <<clock, history, request>>
      /\ DOMAIN pc' = Workers /\ DOMAIN request' = Workers
      /\ \A v \in Workers \ {w} : pc'[v] = pc[v] /\ request'[v] = request[v]
      /\ pc'[w] = "leaving"
  BY DEF Throttle, Respond, Goto, WaitInv
<1> DEFINE waited == RetryAfter(wait) * Second
<1>7. /\ clock + waited \in Nat
      /\ last + Period <= clock + waited
      /\ clock + waited < last + Period + Second
  <2> HIDE DEF waited, last
  <2>1. waited \in Nat /\ last + Period - clock <= waited
        /\ waited < last + Period - clock + Second
    BY <1>5 DEF waited
  <2> QED BY <1>1, <1>2, <2>1
<1>8. DOMAIN told' = Addresses /\ told'[a] = clock + waited
      /\ \A b \in Addresses \ {a} : told'[b] = told[b]
  BY <1>1, <1>3 DEF WaitInv
<1> HIDE DEF waited
<1>9. ASSUME NEW b \in Addresses PROVE ToldWhen(b)'
  <2>1. CASE b = a
    BY <1>2, <1>6, <1>7, <1>8, <2>1 DEF ToldWhen
  <2>2. CASE b # a
    BY <1>6, <1>8, <2>2 DEF ToldWhen, WaitInv
  <2> QED BY <2>1, <2>2
<1>10. Requesting(w)'
  BY <1>1, <1>6 DEF Requesting, WaitInv
<1>11. \A v \in Workers : Requesting(v)'
  BY <1>6, <1>10, StillRequesting
<1> HIDE DEF a
<1> QED BY <1>6, <1>8, <1>9, <1>11 DEF WaitInv, Histories

(* The list that is written back has room for the one it was read for.     *)
LEMMA CountWait ==
  ASSUME WaitInv, NEW w \in Workers, Count(w)
  PROVE  WaitInv'
<1> DEFINE a == request[w].address
           new == <<request[w].at>> \o request[w].seen
<1>1. /\ a \in Addresses /\ request[w].at \in Nat /\ request[w].seen \in Seq(Nat)
      /\ Len(request[w].seen) < Rate /\ Rate \in Nat
  BY DoorAssumption DEF Count, WaitInv, Requesting
<1>2. new \in Seq(Nat) /\ Len(new) <= Rate
  BY <1>1
<1>3. /\ UNCHANGED <<clock, request>>
      /\ history' = [history EXCEPT ![a] = new]
      /\ told' = [told EXCEPT ![a] = None]
      /\ DOMAIN pc' = Workers /\ DOMAIN request' = Workers
      /\ \A v \in Workers \ {w} : pc'[v] = pc[v] /\ request'[v] = request[v]
      /\ pc[w] = "count" /\ pc'[w] = "view"
  BY DEF Count, Goto, WaitInv
<1> HIDE DEF new
<1>4. Requesting(w)'
  BY <1>3 DEF Requesting, WaitInv
<1>5. \A v \in Workers : Requesting(v)'
  BY <1>3, <1>4, StillRequesting
<1> HIDE DEF a
<1>6. /\ DOMAIN told' = Addresses /\ told'[a] = None
      /\ \A b \in Addresses \ {a} : told'[b] = told[b] /\ history'[b] = history[b]
      /\ history'[a] = new
      /\ history' \in [Addresses -> Seq(Nat)]
  BY <1>1, <1>2, <1>3 DEF WaitInv, Histories
<1>7. \A b \in Addresses : ToldWhen(b)' /\ Len(history'[b]) <= Rate
  BY <1>2, <1>6 DEF ToldWhen, WaitInv
<1> QED BY <1>3, <1>5, <1>6, <1>7 DEF WaitInv, Histories

LEMMA NextWait == WaitInv /\ DoorInv /\ [Next]_doorVars => WaitInv'
<1> SUFFICES ASSUME WaitInv, DoorInv, [Next]_doorVars PROVE WaitInv'
  OBVIOUS
<1>1. CASE Tick
  <2>1. clock' \in Nat /\ UNCHANGED <<history, told, pc, request>>
    BY <1>1 DEF Tick, WaitInv
  <2> QED BY <2>1 DEF WaitInv, Histories, ToldWhen, Requesting
<1>2. CASE UNCHANGED doorVars
  BY <1>2 DEF doorVars, WaitInv, Histories, ToldWhen, Requesting
<1>3. ASSUME NEW w \in Workers, Enter(w) \/ Serve(w) PROVE WaitInv'
  BY <1>3, EnterWait, PassWait, LetInWait, ThrottleWait, CountWait DEF Serve
<1> QED BY <1>1, <1>2, <1>3 DEF Next

(* A client that waits as told is let in, and a second earlier it is not.  *)
THEOREM WaitAsTold == Spec => RetryIsExact
<1> DEFINE Exact ==
      \A w \in Workers :
       pc[w] = "throttle" /\ pc'[w] # "throttle" =>
         LET until == told[request[w].address]
         IN  until # None =>
               /\ clock >= until => pc'[w] = "count"
               /\ clock + Second <= until => pc'[w] = "leaving"
<1>1. WaitInv /\ DoorInv /\ [Next]_doorVars => [Exact]_doorVars
  <2> SUFFICES ASSUME WaitInv, DoorInv, Next,
                      NEW w \in Workers, pc[w] = "throttle", pc'[w] # "throttle",
                      told[request[w].address] # None
               PROVE  /\ clock >= told[request[w].address] => pc'[w] = "count"
                      /\ clock + Second <= told[request[w].address]
                           => pc'[w] = "leaving"
    OBVIOUS
  <2> DEFINE a == request[w].address
             last == history[a][Rate]
  <2>1. /\ a \in Addresses /\ clock \in Nat /\ Rate \in Nat /\ Rate > 0
        /\ Period \in Nat /\ Second \in Nat /\ history[a] \in Seq(Nat)
    BY DoorAssumption DEF WaitInv, Requesting, Histories
  <2>2. /\ told[a] \in Nat /\ Len(history[a]) = Rate
        /\ last + Period <= told[a] /\ told[a] < last + Period + Second
    BY <2>1 DEF WaitInv, ToldWhen
  <2>3. last \in Nat
    BY <2>1, <2>2
  <2>4. LetIn(w) \/ Throttle(w)
    <3>1. ASSUME NEW v \in Workers, v # w, Enter(v) \/ Serve(v) PROVE FALSE
      <4>1. pc'[w] = pc[w]
        BY <3>1 DEF Serve, Enter, AnswerByDjango, Dispatch, LetIn, Throttle, Count,
             Succeed, Degraded, Raise, Leave, Respond, Goto, WaitInv
      <4> QED BY <4>1
    <3>2. ~Tick
      BY DEF Tick
    <3>3. Enter(w) \/ Serve(w)
      BY <3>1, <3>2 DEF Next
    <3> QED BY <3>3 DEF Serve, Enter, AnswerByDjango, Dispatch, Count,
               Succeed, Degraded, Raise, Leave
  <2>5. CASE LetIn(w)
    <3>1. pc'[w] = "count" /\ Len(Pruned(history[a])) < Rate
      BY <2>5 DEF LetIn, Goto, WaitInv
    <3>2. ~(clock + Second <= told[a])
      <4> SUFFICES ASSUME clock + Second <= told[a] PROVE FALSE
        OBVIOUS
      <4> HIDE DEF last
      <4>1. last + Period > clock
        BY <2>1, <2>2, <2>3
      <4>2. PICK n \in 0 .. Len(history[a]) :
              /\ Len(Pruned(history[a])) = n
              /\ \A j \in n + 1 .. Len(history[a]) : history[a][j] + Period <= clock
        BY <2>1, PrunedList
      <4>3. Rate \in n + 1 .. Len(history[a])
        BY <2>1, <2>2, <3>1, <4>2
      <4>4. last + Period <= clock
        BY <4>2, <4>3 DEF last
      <4> QED BY <2>1, <2>3, <4>1, <4>4
    <3> QED BY <3>1, <3>2
  <2>6. CASE Throttle(w)
    <3>1. pc'[w] = "leaving" /\ Len(Pruned(history[a])) >= Rate
      BY <2>6 DEF Throttle, Respond, Goto, WaitInv
    <3>2. last + Period > clock
      BY <2>1, <3>1, FullList
    <3>3. ~(clock >= told[a])
      <4> HIDE DEF last
      <4> QED BY <2>1, <2>2, <2>3, <3>2
    <3> QED BY <3>1, <3>3
  <2> QED BY <2>4, <2>5, <2>6
<1> QED BY <1>1, InitWait, NextWait, DoorInvariance, PTL DEF Spec, RetryIsExact

=============================================================================
