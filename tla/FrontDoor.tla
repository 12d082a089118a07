------------------------------ MODULE FrontDoor ------------------------------
(***************************************************************************)
(* What every request passes on its way in and out: the request id         *)
(* (core/middleware.py), which the threads keep apart, the limit per       *)
(* address of the public endpoints, the view, and the envelope of whatever *)
(* failed.                                                                 *)
(*                                                                         *)
(* Time is in ticks, Second of them to a second, as clients are told to    *)
(* wait in whole seconds.  The limit is read from the shared cache and     *)
(* written back by two commands.                                           *)
(***************************************************************************)
EXTENDS ErrorEnvelope, Sequences

CONSTANTS
  None,
  NoId,          \* what stands for the id outside a request, "-"
  Workers,       \* the threads that serve requests
  Addresses,     \* REMOTE_ADDR
  Supplied,      \* what clients send in X-Request-ID, "" for no header
  Safe,          \* those that look like an id
  Debug,         \* settings.DEBUG
  Second,        \* ticks to a second
  Period, Rate,  \* the limit: Rate requests in Period ticks
  MaxClock,      \* bound on the clock
  MaxRequests    \* bound on the requests received

ASSUME DoorAssumption ==
  /\ Safe \subseteq Supplied
  /\ (Supplied \cup {NoId}) \cap Nat = {} /\ NoId \notin Supplied
  /\ Debug \in BOOLEAN
  /\ {Second, Period, Rate} \subseteq Nat \ {0} /\ Period % Second = 0
  /\ {MaxClock, MaxRequests} \subseteq Nat

VARIABLES
  clock,
  received,   \* how many requests were received
  current,    \* current[w]: the context variable request_id in thread w
  history,    \* history[a]: when a was let in, newest first, in the cache
  pc,         \* pc[w]: where thread w is
  request,    \* request[w]: what it serves, with the id it was given
  answer,     \* answer[w]: its last answer, or the one it is making
  told        \* told[a]: until when the client at a was told to wait, or None

doorVars == <<clock, received, current, history, pc, request, answer, told>>

NoAnswer == [supplied |-> None, exc |-> None, status |-> 0, code |-> "",
             id |-> None, header |-> None, logged |-> {}]

Init ==
  /\ clock = 0 /\ received = 0
  /\ current = [w \in Workers |-> NoId]
  /\ history = [a \in Addresses |-> <<>>]
  /\ pc = [w \in Workers |-> "idle"]
  /\ request = [w \in Workers |-> None]
  /\ answer = [w \in Workers |-> NoAnswer]
  /\ told = [a \in Addresses |-> None]

Goto(w, to) == pc' = [pc EXCEPT ![w] = to]

(* A variant that TLC must refute: one variable for the whole process.     *)
SharedContext(w) == CHOOSE v \in Workers : TRUE

(* The context a thread keeps its variables in.                            *)
Context(w) == w

GetRequestId(w) == current[Context(w)]

-----------------------------------------------------------------------------
(* A client's id is kept if it looks like one; otherwise a new one is made *)
(* (uuid4: one that nobody had before).                                    *)
ResolveRequestId(supplied) == IF supplied \in Safe THEN supplied ELSE received + 1

Enter(w) ==
  /\ pc[w] = "idle" /\ received < MaxRequests
  /\ \E a \in Addresses, supplied \in Supplied, scoped \in BOOLEAN :
       LET id == ResolveRequestId(supplied)
       IN  /\ request' = [request EXCEPT ![w] =
                [address |-> a, supplied |-> supplied, scoped |-> scoped, id |-> id,
                 outer |-> GetRequestId(w), seen |-> <<>>, at |-> 0]]
           /\ current' = [current EXCEPT ![Context(w)] = id]
  /\ answer' = [answer EXCEPT ![w] = NoAnswer]
  /\ received' = received + 1
  /\ Goto(w, "django")
  /\ UNCHANGED <<clock, history, told>>

(* An answer on its way out, with the ids of the error lines logged.  An   *)
(* envelope reads the id while the request is being served.                *)
Respond(w, exc, a, lines) ==
  /\ answer' = [answer EXCEPT ![w] =
       [supplied |-> request[w].supplied, exc |-> exc, status |-> a.status,
        code |-> a.code, id |-> GetRequestId(w), header |-> None, logged |-> lines]]
  /\ Goto(w, "leaving")

(* A host that is not served, no such URL, a body that cannot be read, or  *)
(* a bug in a middleware: Django answers, REST framework is not reached.   *)
AnswerByDjango(w) ==
  /\ pc[w] = "django"
  /\ \E exc \in DjangoException : Respond(w, exc, DjangoHandler(exc, Debug), {})
  /\ UNCHANGED <<clock, received, current, history, request, told>>

Dispatch(w) ==
  /\ pc[w] = "django"
  /\ Goto(w, IF request[w].scoped THEN "throttle" ELSE "view")
  /\ UNCHANGED <<clock, received, current, history, request, answer, told>>

(* What is a period old is popped from the end, where the oldest is.       *)
Pruned(times) ==
  LET kept == {i \in DOMAIN times : \E j \in i .. Len(times) : times[j] + Period > clock}
  IN  [i \in kept |-> times[i]]

LetIn(w) ==
  LET times == Pruned(history[request[w].address])
  IN  /\ pc[w] = "throttle" /\ Len(times) < Rate
      /\ request' = [request EXCEPT ![w].seen = times, ![w].at = clock]
      /\ Goto(w, "count")
      /\ UNCHANGED <<clock, received, current, history, answer, told>>

(* A variant that TLC must refute: the seconds to wait are rounded down.   *)
RetryRoundedDown(wait) == wait \div Second

(* Throttled rounds the wait up to whole seconds; the envelope repeats it. *)
RetryAfter(wait) == (wait + Second - 1) \div Second

(* 429: there is room again when the oldest one counted is a period old.   *)
Throttle(w) ==
  LET a == request[w].address
      times == Pruned(history[a])
      retry == RetryAfter(times[Len(times)] + Period - clock)
  IN  /\ pc[w] = "throttle" /\ Len(times) >= Rate
      /\ Respond(w, "Throttled", ApiExceptionHandler("Throttled", Debug), {})
      /\ told' = [told EXCEPT ![a] = clock + retry * Second]
      /\ UNCHANGED <<clock, received, current, history, request>>

(* The history is written back; whoever waits for room has been overtaken. *)
Count(w) ==
  LET a == request[w].address
  IN  /\ pc[w] = "count"
      /\ history' = [history EXCEPT ![a] = <<request[w].at>> \o request[w].seen]
      /\ told' = [told EXCEPT ![a] = None]
      /\ Goto(w, "view")
      /\ UNCHANGED <<clock, received, current, request, answer>>

(* The view answers.                                                       *)
Succeed(w) ==
  /\ pc[w] = "view"
  /\ Respond(w, None, Answer(200, ""), {})
  /\ UNCHANGED <<clock, received, current, history, request, told>>

(* The health check answers 503 with a body of its own.                    *)
Degraded(w) ==
  /\ pc[w] = "view" /\ ~request[w].scoped
  /\ Respond(w, None, Answer(503, ""), {})
  /\ UNCHANGED <<clock, received, current, history, request, told>>

(* It raises; what nothing recognises is logged as well.                   *)
Raise(w) ==
  /\ pc[w] = "view"
  /\ \E exc \in Exceptions \ {"Throttled"} :
       Respond(w, exc, ApiExceptionHandler(exc, Debug),
               IF exc \in Recognised \cup {"RequestDataTooBig"} THEN {}
               ELSE {GetRequestId(w)})
  /\ UNCHANGED <<clock, received, current, history, request, told>>

(* The middleware restores the variable, sets the header and logs the      *)
(* access line with the id it kept.                                        *)
Leave(w) ==
  /\ pc[w] = "leaving"
  /\ current' = [current EXCEPT ![Context(w)] = request[w].outer]
  /\ answer' = [answer EXCEPT ![w].header = request[w].id,
                              ![w].logged = @ \cup {request[w].id}]
  /\ Goto(w, "idle")
  /\ request' = [request EXCEPT ![w] = None]
  /\ UNCHANGED <<clock, received, history, told>>

Tick ==
  /\ clock < MaxClock
  /\ clock' = clock + 1
  /\ UNCHANGED <<received, current, history, pc, request, answer, told>>

Serve(w) ==
  \/ AnswerByDjango(w) \/ Dispatch(w) \/ LetIn(w) \/ Throttle(w) \/ Count(w)
  \/ Succeed(w) \/ Degraded(w) \/ Raise(w) \/ Leave(w)

Next == Tick \/ \E w \in Workers : Enter(w) \/ Serve(w)

Spec == Init /\ [][Next]_doorVars

-----------------------------------------------------------------------------
Answered == {w \in Workers : answer[w].header # None}

(* Header, body and the lines the application logs bear one id, the one    *)
(* the client sent if it is safe and otherwise one no other request has,   *)
(* also when other threads are in the middle of theirs; and a thread that  *)
(* is idle has none left over.  [RequestIDMiddleware, build_error_payload] *)
OneIdPerRequest ==
  /\ \A w \in Answered :
       /\ answer[w].id = answer[w].header
       /\ answer[w].logged = {answer[w].header}
       /\ answer[w].supplied \in Safe => answer[w].header = answer[w].supplied
       /\ \A v \in Answered \ {w} :
            answer[v].header = answer[w].header => answer[w].header \in Safe
  /\ \A w \in Workers : pc[w] = "idle" => GetRequestId(w) = NoId

(* Ways for one condition to show.                                         *)
Condition(exc) ==
  CASE exc = "Http404" -> "NotFound"
    [] exc = "DjangoPermissionDenied" -> "PermissionDenied"
    [] OTHER -> exc

(* Out of debugging, a failure is an envelope; one condition has one       *)
(* answer, wherever on the way it was met, and one code one status.  A     *)
(* SuspiciousOperation alone is a bad request before a view and a crash in *)
(* one.  [the comments above REQUEST_TOO_LARGE_MESSAGE and bad_request]    *)
SameAnswerOnEveryPath ==
  LET failed == {w \in Workers : answer[w].exc # None}
  IN  ~Debug =>
        /\ \A w \in failed : answer[w].code \notin {"", "html"}
        /\ \A v, w \in failed :
             /\ answer[v].code = answer[w].code => answer[v].status = answer[w].status
             /\ Condition(answer[v].exc) = Condition(answer[w].exc)
                  => \/ answer[v].code = answer[w].code
                     \/ answer[v].exc = "SuspiciousOperation"

(* A client that waits as long as it was told is let in, unless another    *)
(* request from its address has been since; a second earlier it is not.    *)
(* [SimpleRateThrottle.wait, Throttled, details.retry_after_seconds]       *)
RetryIsExact ==
  [][\A w \in Workers :
       pc[w] = "throttle" /\ pc'[w] # "throttle" =>
         LET until == told[request[w].address]
         IN  until # None =>
               /\ clock >= until => pc'[w] = "count"
               /\ clock + Second <= until => pc'[w] = "leaving"]_doorVars
=============================================================================
