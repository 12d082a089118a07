----------------------------- MODULE DemoScript -----------------------------
(***************************************************************************)
(* What seed_demo asks of the services: who works at the demo desk, what   *)
(* was reported, and the calls each ticket is walked through               *)
(* (management/commands/seed_demo.py).                                     *)
(*                                                                         *)
(* The calls are the services' own (TicketServices), made by one process   *)
(* inside one transaction: nobody else sees the ticket, so every call      *)
(* reads what the one before it wrote.  Texts and names are left out.      *)
(***************************************************************************)
EXTENDS TicketServices

CONSTANTS Supervisor, Agents     \* a user, and a sequence of users

(* STAFF, in the order the accounts are created in.                        *)
STAFF == <<Supervisor>> \o Agents

ASSUME DemoAssumption ==
  /\ Agents \in Seq(Users) /\ Agents # <<>>
  /\ Supervisor \in Users
  /\ \A i, j \in 1 .. Len(STAFF) : STAFF[i] = STAFF[j] => i = j

(* The priority each of REQUESTS was reported with.                        *)
REQUESTS == <<"HIGH", "MEDIUM", "HIGH", "LOW", "URGENT", "URGENT",
              "LOW", "MEDIUM", "URGENT", "MEDIUM", "HIGH", "LOW">>

(* CUSTOMERS, by their place in the list.                                  *)
CustomerOf(index) == index % 6

Owner(index) == Agents[(index % Len(Agents)) + 1]

(* create_ticket; the agent who takes a call leaves the priority as it is. *)
Reported(index) ==
  LET any == CHOOSE s \in Texts : TRUE
      priority == REQUESTS[(index % Len(REQUESTS)) + 1]
  IN  NewRow([reported |-> priority, priority |-> priority, by |-> None,
              subject |-> any, description |-> any])

-----------------------------------------------------------------------------
ServiceCall(op, actor, value) == [op |-> op, actor |-> actor, value |-> value]

(* _play_out: how far a ticket is walked depends on its index, and so does *)
(* whether triage reclassifies it, to a priority drawn at random.          *)
Script(index, drawn) ==
  LET owner == Owner(index)
      stage == index % 6
      To(actor, status) == <<ServiceCall("change_status", actor, status)>>
      Comment(actor) == <<ServiceCall("comment", actor, "")>>
      Give(user) == <<ServiceCall("assign", Supervisor, user)>>
      Triage == IF index % 5 = 0
                THEN <<ServiceCall("change_priority", Supervisor, drawn)>> ELSE <<>>
      Taken == Triage \o Give(owner) \o To(owner, "IN_PROGRESS") \o Comment(owner)
      Resolved == Taken \o To(owner, "RESOLVED")
  IN  CASE stage = 0 -> <<>>
        [] stage = 1 -> Taken
        [] stage = 2 -> Taken \o To(owner, "PENDING_CUSTOMER")
        [] stage = 3 -> Taken \o Give(None)
        [] stage = 4 -> Resolved
        [] stage = 5 -> Resolved \o Comment(Supervisor) \o To(Supervisor, "CLOSED")

Drawn == {"LOW", "MEDIUM", "HIGH"}

(* A service raises: the ticket is closed, or cannot move to that status.  *)
Raises(t, call) ==
  \/ IsTerminal(t.status)
  \/ call.op = "change_status" /\ ~IsTransitionAllowed(t.status, call.value)

(* The ticket a call leaves, and it does nothing if nothing would change.  *)
Served(t, call) ==
  LET m == CASE call.op = "change_status" -> StatusMutation(t, call.actor, call.value)
             [] call.op = "change_priority" ->
                  IF call.value = t.priority THEN Untouched(t)
                  ELSE PriorityMutation(t, call.actor, call.value)
             [] call.op = "assign" ->
                  IF call.value = t.assignee THEN Untouched(t)
                  ELSE IF call.value = None THEN ReleaseMutation(t, call.actor)
                  ELSE AssignMutation(t, call.actor, call.value)
             [] call.op = "comment" -> CommentMutation(t, call.actor)
  IN  Written(t, m)
=============================================================================
