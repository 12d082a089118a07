------------------------- MODULE TicketPermissions -------------------------
(***************************************************************************)
(* The authorisation model (apps/tickets/permissions.py): a matrix from    *)
(* the domain action and the role of the user to a rule, and a rule looks  *)
(* at who asks, who holds the ticket and, for an assignment, at who is to  *)
(* receive it.                                                             *)
(***************************************************************************)

EXTENDS TicketDomain

Role == {"AGENT", "SUPERVISOR"}

Action == {"update_details", "change_status", "change_priority", "assign",
           "comment"}

(* An access context: who asks, in which role, who holds the ticket, and   *)
(* the target of an assignment, None for a release (unread by the others). *)
AccessContext(actor, role, assignee, target) ==
  [actor |-> actor, role |-> role, assignee |-> assignee, target |-> target]

Always(context) == TRUE

(* An agent drives the tickets they own and may pick up free ones.         *)
OwnerOrUnclaimed(context) == context.assignee \in {None, context.actor}

(* An agent can take an unclaimed ticket and can let go of their own.      *)
SelfServiceAssignment(context) ==
  \/ /\ context.target = None
     /\ context.assignee = context.actor
  \/ /\ context.target = context.actor
     /\ context.assignee \in {None, context.actor}

(* The complete authorisation model: the rule of each action for an agent; *)
(* every rule of a supervisor is "always".                                 *)
AgentRule(action, context) ==
  \/ action \in {"comment", "change_priority"} /\ Always(context)
  \/ action \in {"update_details", "change_status"} /\ OwnerOrUnclaimed(context)
  \/ action = "assign" /\ SelfServiceAssignment(context)

SupervisorRule(action, context) == action \in Action /\ Always(context)

IsAllowed(action, context) ==
  \/ context.role = "AGENT" /\ AgentRule(action, context)
  \/ context.role = "SUPERVISOR" /\ SupervisorRule(action, context)
=============================================================================
