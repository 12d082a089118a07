---------------------------- MODULE ErrorEnvelope ----------------------------
(***************************************************************************)
(* How a failure becomes an answer: the status and the code of the error   *)
(* envelope for every exception a request can end in, on the path through  *)
(* REST framework (core/exceptions.py) and on the one where Django answers *)
(* before it (core/views.py).  The code is what clients branch on.         *)
(***************************************************************************)
EXTENDS Naturals

Answer(status, code) == [status |-> status, code |-> code]

(* The rule violations of the services.                                    *)
DomainError ==
  [InvalidTransition |-> Answer(400, "invalid_transition"),
   VersionConflict   |-> Answer(409, "version_conflict"),
   TicketClosed      |-> Answer(409, "ticket_closed"),
   InvalidAssignment |-> Answer(400, "invalid_assignment")]

(* REST framework's own exceptions, with their default_code.               *)
RestException ==
  [ValidationError      |-> Answer(400, "invalid"),
   ParseError           |-> Answer(400, "parse_error"),
   AuthenticationFailed |-> Answer(401, "authentication_failed"),
   NotAuthenticated     |-> Answer(401, "not_authenticated"),
   InvalidToken         |-> Answer(401, "token_not_valid"),
   PermissionDenied     |-> Answer(403, "permission_denied"),
   NotFound             |-> Answer(404, "not_found"),
   MethodNotAllowed     |-> Answer(405, "method_not_allowed"),
   UnsupportedMediaType |-> Answer(415, "unsupported_media_type"),
   Throttled            |-> Answer(429, "throttled")]

(* Django's, of which REST framework translates the first two, and a bug.  *)
DjangoException ==
  {"Http404", "DjangoPermissionDenied", "RequestDataTooBig",
   "SuspiciousOperation", "Exception"}

Exceptions == DOMAIN DomainError \cup DOMAIN RestException \cup DjangoException

(* REST framework's vocabulary of codes translated; others are kept.       *)
_DRF_CODE_MAP ==
  [invalid                |-> "validation_error",
   parse_error            |-> "malformed_request",
   authentication_failed  |-> "not_authenticated",
   not_authenticated      |-> "not_authenticated",
   permission_denied      |-> "permission_denied",
   not_found              |-> "not_found",
   method_not_allowed     |-> "method_not_allowed",
   unsupported_media_type |-> "unsupported_media_type",
   throttled              |-> "throttled"]

Translated(code) == IF code \in DOMAIN _DRF_CODE_MAP THEN _DRF_CODE_MAP[code] ELSE code

(* What REST framework has an answer for.                                  *)
Recognised == Exceptions \ {"RequestDataTooBig", "SuspiciousOperation", "Exception"}

Classify(exc) ==
  CASE exc \in DOMAIN DomainError -> DomainError[exc]
    [] exc = "Http404" -> Answer(404, "not_found")
    [] exc = "DjangoPermissionDenied" -> Answer(403, "permission_denied")
    [] exc \in DOMAIN RestException ->
         Answer(RestException[exc].status, Translated(RestException[exc].code))

(* Django's debug page: not an envelope.                                   *)
DebugPage(status) == Answer(status, "html")

(* What an unhandled exception is answered with; while debugging it is     *)
(* left to Django.                                                         *)
Crashed(debug) == IF debug THEN DebugPage(500) ELSE Answer(500, "server_error")

(* A variant that TLC must refute: a body that is too large is a crash.    *)
HandlerWithoutTooBig(exc, debug) ==
  IF exc \in Recognised THEN Classify(exc) ELSE Crashed(debug)

ApiExceptionHandler(exc, debug) ==
  CASE exc = "RequestDataTooBig" -> Answer(413, "request_too_large")
    [] exc \in Recognised -> Classify(exc)
    [] OTHER -> Crashed(debug)

BadRequest(exc) ==
  IF exc = "RequestDataTooBig" THEN Answer(413, "request_too_large")
  ELSE Answer(400, "malformed_request")

(* handler400, 403, 404 and 500, which Django ignores while debugging.     *)
DjangoHandler(exc, debug) ==
  CASE exc \in {"RequestDataTooBig", "SuspiciousOperation"} ->
         IF debug THEN DebugPage(400) ELSE BadRequest(exc)
    [] exc = "DjangoPermissionDenied" ->
         IF debug THEN DebugPage(403) ELSE Answer(403, "permission_denied")
    [] exc = "Http404" -> IF debug THEN DebugPage(404) ELSE Answer(404, "not_found")
    [] exc = "Exception" -> Crashed(debug)
=============================================================================
