----------------------------- MODULE MCTicketApi -----------------------------
(***************************************************************************)
(* Instances of TicketApi for TLC: the requests each run lets clients send *)
(* (its cfg picks one of the sets below as Calls), and the tickets it      *)
(* starts from.                                                            *)
(***************************************************************************)
EXTENDS TicketApi, TLC

CONSTANTS ana, bob, sam          \* two agents and a supervisor
CONSTANTS short, long            \* two texts
CONSTANTS AnaName, BobName, SamName

MCNames == {AnaName, BobName, SamName}

MCDisplayName == [u \in {ana, bob, sam} |->
  CASE u = ana -> AnaName [] u = bob -> BobName [] u = sam -> SamName]

Symmetry == Permutations(Workers)

(* A ticket from the public form, and one an agent reclassified.           *)
PublicForm ==
  {[reported |-> "LOW", priority |-> "LOW", by |-> None,
    subject |-> short, description |-> short]}

BothIntakes == PublicForm \cup
  {[reported |-> "HIGH", priority |-> "LOW", by |-> ana,
    subject |-> short, description |-> short]}

StatusCalls(actors, statuses, conditional) ==
  [op: {"change_status"}, actor: actors, ticket: Tickets,
   conditional: conditional, status: statuses]

AssignCalls(actors, targets, conditional) ==
  [op: {"assign"}, actor: actors, ticket: Tickets,
   conditional: conditional, assignee: targets]

PriorityCalls(actors, priorities, conditional) ==
  [op: {"change_priority"}, actor: actors, ticket: Tickets,
   conditional: conditional, priority: priorities]

DetailsCalls(actors, texts, conditional) ==
  [op: {"update_details"}, actor: actors, ticket: Tickets,
   conditional: conditional, subject: texts, description: texts]

CommentCalls(actors, conditional) ==
  [op: {"comment"}, actor: actors, ticket: Tickets, conditional: conditional]

(* Who holds the ticket and how far it is: every status, every assignment. *)
WorkflowCalls ==
  StatusCalls({ana, bob}, Status, {FALSE})
  \cup AssignCalls({ana}, {None, ana}, {FALSE})
  \cup AssignCalls({sam}, {None, ana, bob}, {FALSE})

(* Every operation, by clients that send If-Match and clients that do not. *)
MixedCalls ==
  StatusCalls({ana}, {"IN_PROGRESS", "CLOSED"}, BOOLEAN)
  \cup AssignCalls({bob}, {None, bob}, BOOLEAN)
  \cup AssignCalls({sam}, {bob}, {FALSE})
  \cup PriorityCalls({bob}, {"URGENT"}, BOOLEAN)
  \cup DetailsCalls({ana}, {None, short, long}, {TRUE})
  \cup CommentCalls({sam}, BOOLEAN)

(* A busy queue: one request of each kind that ends differently.           *)
QueueCalls ==
  StatusCalls({ana}, {"IN_PROGRESS", "CLOSED"}, {TRUE})
  \cup CommentCalls({bob}, {FALSE})
==============================================================================
