---------------------------- MODULE TicketDomain ----------------------------
(***************************************************************************)
(* The vocabulary of a support ticket: its statuses and priorities, the    *)
(* kinds of entries its history is made of, and the state machine of its   *)
(* status (apps/tickets/enums.py).                                         *)
(***************************************************************************)

CONSTANT None    \* nobody, or a value that was not sent

Status == {"OPEN", "IN_PROGRESS", "PENDING_CUSTOMER", "RESOLVED", "CLOSED"}

Priority == {"LOW", "MEDIUM", "HIGH", "URGENT"}

EventType == {"CREATED", "STATUS_CHANGED", "ASSIGNED", "UNASSIGNED",
              "PRIORITY_CHANGED", "COMMENT_ADDED", "DETAILS_UPDATED"}

(* The whole state machine: anything not listed here is impossible.        *)
ALLOWED_TRANSITIONS ==
  [OPEN             |-> {"IN_PROGRESS", "RESOLVED", "CLOSED"},
   IN_PROGRESS      |-> {"PENDING_CUSTOMER", "RESOLVED", "OPEN"},
   PENDING_CUSTOMER |-> {"IN_PROGRESS", "RESOLVED", "OPEN"},
   RESOLVED         |-> {"CLOSED", "IN_PROGRESS"},
   CLOSED           |-> {}]

STATUSES_REQUIRING_ASSIGNEE == {"IN_PROGRESS"}

(* A variant that TLC must refute: only work in progress goes back.        *)
ReturnedInProgressOnly == {"IN_PROGRESS"}

(* Releasing a ticket in one of these sends it back to the queue.          *)
STATUSES_RETURNED_TO_QUEUE_ON_RELEASE == {"IN_PROGRESS", "PENDING_CUSTOMER"}

(* A variant that TLC must refute: the table is read backwards.            *)
TransitionAllowedFrom(current, new) == current \in ALLOWED_TRANSITIONS[new]

IsTransitionAllowed(current, new) == new \in ALLOWED_TRANSITIONS[current]

IsTerminal(status) == ALLOWED_TRANSITIONS[status] = {}
=============================================================================
