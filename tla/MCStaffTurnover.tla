--------------------------- MODULE MCStaffTurnover ---------------------------
(* A small staff that shrinks: bob's account can be deleted.               *)
EXTENDS StaffTurnover, MCTicketApi

(* What bob does, and what the others do with tickets of his.              *)
TurnoverCalls ==
  StatusCalls({bob}, {"IN_PROGRESS"}, {FALSE})
  \cup StatusCalls({sam}, {"IN_PROGRESS", "PENDING_CUSTOMER"}, {FALSE})
  \cup AssignCalls({bob}, {None, bob}, {FALSE})
  \cup AssignCalls({sam}, {bob}, {FALSE, TRUE})
  \cup CommentCalls({bob}, {FALSE})
  \cup PriorityCalls({bob}, {"URGENT"}, {TRUE})
  \cup DetailsCalls({sam}, {None, long}, {FALSE})
==============================================================================
