--------------------------- MODULE TicketServices ---------------------------
(***************************************************************************)
(* What the services of apps/tickets/services.py do to one ticket once it  *)
(* is locked: the row, the events of its history, and for each operation   *)
(* the mutation it makes of the ticket it read.                            *)
(***************************************************************************)
EXTENDS TicketDomain, Naturals, Sequences

CONSTANTS
  Users,         \* the support staff
  Names,         \* what an event shows of a user
  DisplayName,   \* User.display_name: two users may share one
  Texts          \* stripped values of a subject or a description

ASSUME NamesAssumption ==
  /\ None \notin Users \cup Texts
  /\ DisplayName \in [Users -> Names] /\ "" \notin Names

(* An intake: the priority the customer reported, the one triage gave, and *)
(* the agent who typed the ticket in (None: the public form, where nobody  *)
(* reclassifies).                                                          *)
Intake == {i \in [reported: Priority, priority: Priority, by: Users \cup {None},
                  subject: Texts, description: Texts] :
             i.by = None => i.priority = i.reported}

-----------------------------------------------------------------------------
(* The row of a ticket.  A timestamp is abstracted to "is it set?".        *)
Ticket ==
  [status: Status, assignee: Users \cup {None},
   reported_priority: Priority, priority: Priority,
   subject: Texts, description: Texts, version: Nat,
   first_assigned_at: BOOLEAN, resolved_at: BOOLEAN, closed_at: BOOLEAN]

Columns == {"status", "assignee", "priority", "subject", "description",
            "version", "first_assigned_at", "resolved_at", "closed_at"}

Value == Status \cup Priority \cup Names \cup Texts \cup {""}

(* An entry of the history.  `note' and `created_at' carry no state; an    *)
(* event without an actor comes from the public form.                      *)
Event(type, actor, field, old, new) ==
  [event_type |-> type, actor |-> actor, field |-> field, old |-> old, new |-> new]

Events ==
  [event_type: EventType, actor: Users \cup {None},
   field: Columns \cup {""}, old: Value, new: Value]

Shown(user) == IF user = None THEN "" ELSE DisplayName[user]

(* What create_ticket leaves in the table.                                 *)
NewRow(i) ==
  [status |-> "OPEN", assignee |-> None, reported_priority |-> i.reported,
   priority |-> i.priority, subject |-> i.subject, description |-> i.description,
   version |-> 1, first_assigned_at |-> FALSE, resolved_at |-> FALSE,
   closed_at |-> FALSE]

NewHistory(i) ==
  <<Event("CREATED", i.by, "status", "", "OPEN")>> \o
  (IF i.priority = i.reported THEN <<>>
   ELSE <<Event("PRIORITY_CHANGED", i.by, "priority", i.reported, i.priority)>>)

-----------------------------------------------------------------------------
(* What a transaction did to a ticket: the ticket as the service leaves it *)
(* in memory, the columns it saves, and the events it inserts.             *)
Transaction ==
  [ticket: Ticket, columns: SUBSET Columns, events: Seq(Events)]

(* The services' mutations.  Each returns a transaction.                      *)
Mutation(ticket, columns, events) ==
  [ticket |-> ticket, columns |-> columns, events |-> events]

Untouched(ticket) == Mutation(ticket, {}, <<>>)

(* _save: every mutation moves the optimistic-concurrency token forward.   *)
Save(m) == Mutation([m.ticket EXCEPT !.version = @ + 1],
                    m.columns \cup {"version"}, m.events)

ApplyAssignment(t, actor, assignee) ==
  Mutation([t EXCEPT !.assignee = assignee, !.first_assigned_at = TRUE],
           {"assignee"} \cup {c \in {"first_assigned_at"} : ~t.first_assigned_at},
           <<Event("ASSIGNED", actor, "assignee", Shown(t.assignee), Shown(assignee))>>)

(* Resolving stamps resolved_at, closing stamps closed_at, and any other   *)
(* move clears a stale resolved_at: the ticket is being reopened.          *)
ApplyStatus(m, actor, new) ==
  LET t == m.ticket
      stamped ==
        {c \in {"resolved_at"} : new = "RESOLVED" \/ (new # "CLOSED" /\ t.resolved_at)}
        \cup {c \in {"closed_at"} : new = "CLOSED"}
  IN Mutation([t EXCEPT !.status = new,
                        !.resolved_at = IF new = "CLOSED" THEN @ ELSE new = "RESOLVED",
                        !.closed_at = IF new = "CLOSED" THEN TRUE ELSE @],
              m.columns \cup {"status"} \cup stamped,
              m.events \o <<Event("STATUS_CHANGED", actor, "status", t.status, new)>>)

(* Taking a ticket implies owning it: a status that requires an assignee   *)
(* makes the caller the assignee of a ticket that has none.                *)
PickUp(t, actor, new) ==
  IF new \in STATUSES_REQUIRING_ASSIGNEE /\ t.assignee = None
  THEN ApplyAssignment(t, actor, actor)
  ELSE Untouched(t)

StatusMutation(t, actor, new) == Save(ApplyStatus(PickUp(t, actor, new), actor, new))

AssignMutation(t, actor, assignee) == Save(ApplyAssignment(t, actor, assignee))

(* A variant that TLC must refute: the return to the queue is not recorded. *)
ReleaseSilently(t, actor) ==
  LET queued == t.status \in STATUSES_RETURNED_TO_QUEUE_ON_RELEASE
  IN Save(Mutation(
       [t EXCEPT !.assignee = None, !.status = IF queued THEN "OPEN" ELSE @],
       {"assignee"} \cup {c \in {"status"} : queued},
       <<Event("UNASSIGNED", actor, "assignee", Shown(t.assignee), "")>>))

(* A ticket somebody was on the hook for goes back to the queue.           *)
ReleaseMutation(t, actor) ==
  LET queued == t.status \in STATUSES_RETURNED_TO_QUEUE_ON_RELEASE
  IN Save(Mutation(
       [t EXCEPT !.assignee = None, !.status = IF queued THEN "OPEN" ELSE @],
       {"assignee"} \cup {c \in {"status"} : queued},
       <<Event("UNASSIGNED", actor, "assignee", Shown(t.assignee), "")>> \o
       (IF queued THEN <<Event("STATUS_CHANGED", actor, "status", t.status, "OPEN")>>
        ELSE <<>>)))

(* A variant that TLC must refute: a change of priority leaves the version  *)
(* alone.                                                                   *)
PriorityKeepsVersion(t, actor, new) ==
  Mutation([t EXCEPT !.priority = new], {"priority"},
           <<Event("PRIORITY_CHANGED", actor, "priority", t.priority, new)>>)

PriorityMutation(t, actor, new) ==
  Save(Mutation([t EXCEPT !.priority = new], {"priority"},
                <<Event("PRIORITY_CHANGED", actor, "priority", t.priority, new)>>))

(* A variant that TLC must refute: a field that was not sent is saved as    *)
(* well.                                                                    *)
EditedUnsent(t, call) == {f \in {"subject", "description"} : call[f] # t[f]}

(* The descriptive fields that were sent with a new value.                 *)
Edited(t, call) ==
  {f \in {"subject", "description"} : call[f] # None /\ call[f] # t[f]}

DetailsMutation(t, actor, call) ==
  LET edited == Edited(t, call)
      Edit(f) == IF f \in edited
                 THEN <<Event("DETAILS_UPDATED", actor, f, t[f], call[f])>>
                 ELSE <<>>
      Left(f) == IF f \in edited THEN call[f] ELSE t[f]
  IN Save(Mutation([t EXCEPT !.subject = Left("subject"),
                             !.description = Left("description")],
                   edited, Edit("subject") \o Edit("description")))

(* A comment is an event; it leaves the version where it was.              *)
CommentMutation(t, actor) ==
  Mutation(t, {}, <<Event("COMMENT_ADDED", actor, "", "", "")>>)

(* UPDATE ... SET of the saved columns, over the row as it is.             *)
Written(old, m) ==
  LET Col(c) == IF c \in m.columns THEN m.ticket[c] ELSE old[c]
  IN [status |-> Col("status"), assignee |-> Col("assignee"),
      reported_priority |-> old.reported_priority, priority |-> Col("priority"),
      subject |-> Col("subject"), description |-> Col("description"),
      version |-> Col("version"), first_assigned_at |-> Col("first_assigned_at"),
      resolved_at |-> Col("resolved_at"), closed_at |-> Col("closed_at")]

(* The check constraints of the table, and what the timestamps and the     *)
(* assignee mean: work somebody is on the hook for has an assignee, a      *)
(* ticket that was ever assigned remembers it, a reopened ticket is not    *)
(* resolved, and only a closed one is closed.                              *)
Consistent(r) ==
  /\ r.status \in {"IN_PROGRESS", "PENDING_CUSTOMER"} => r.assignee # None
  /\ r.assignee # None => r.first_assigned_at
  /\ r.status = "RESOLVED" => r.resolved_at
  /\ r.resolved_at => r.status \in {"RESOLVED", "CLOSED"}
  /\ r.closed_at <=> r.status = "CLOSED"

(* A transaction m on a ticket that reads t is sound: it is well-formed, it*)
(* leaves the ticket consistent, the columns it saves are all those it     *)
(* changed, so the row after the UPDATE is the ticket in memory, and it    *)
(* changes nothing without moving the version.                             *)
Sound(t, m) ==
  /\ m \in Transaction
  /\ Consistent(m.ticket)
  /\ Written(t, m) = m.ticket
  /\ m.ticket = t \/ m.ticket.version = t.version + 1
=============================================================================
