-------------------------- MODULE TicketApi_proofs --------------------------
(***************************************************************************)
(* The invariant of TicketApi, for any staff, any tickets, any number of   *)
(* workers and any requests.                                               *)
(*                                                                         *)
(* The argument: a transaction runs on the row it has locked, so what it   *)
(* read is what it overwrites; a mutation of a consistent ticket leaves it *)
(* consistent (the first part, one lemma per service); and since every     *)
(* change moves the version forward, a version names one state of the      *)
(* ticket, which is what a conditional request relies on between its       *)
(* permission check and its write.                                         *)
(***************************************************************************)
EXTENDS TicketApi, TLAPS

-----------------------------------------------------------------------------
(* What each mutation of TicketServices returns: a well-formed record that *)
(* keeps the ticket consistent, for one call of a service on one ticket.   *)

LEMMA Single ==
  ASSUME NEW S, NEW e \in S
  PROVE  <<e>> \in Seq(S)
OBVIOUS

LEMMA Concatenated ==
  ASSUME NEW S, NEW s \in Seq(S), NEW u \in Seq(S)
  PROVE  s \o u \in Seq(S)
OBVIOUS

(* What an event shows of a user is a name, or nothing.                    *)
LEMMA ShownType ==
  ASSUME NEW u \in Users \cup {None}
  PROVE  Shown(u) \in Names \cup {""}
BY NamesAssumption DEF Shown

LEMMA EventTyping ==
  ASSUME NEW type \in EventType, NEW actor \in Users \cup {None},
         NEW field \in Columns \cup {""}, NEW old \in Value, NEW new \in Value
  PROVE  Event(type, actor, field, old, new) \in Events
BY DEF Event, Events

LEMMA SaveType ==
  ASSUME NEW m \in Transaction
  PROVE  Save(m) \in Transaction
BY DEF Save, Mutation, Transaction, Ticket, Columns

LEMMA UntouchedType ==
  ASSUME NEW t \in Ticket
  PROVE  Untouched(t) \in Transaction
BY DEF Untouched, Mutation, Transaction

LEMMA ApplyAssignmentType ==
  ASSUME NEW t \in Ticket, NEW actor \in Users, NEW assignee \in Users \cup {None}
  PROVE  ApplyAssignment(t, actor, assignee) \in Transaction
<1>1. Event("ASSIGNED", actor, "assignee", Shown(t.assignee), Shown(assignee)) \in Events
  BY ShownType DEF Event, Events, EventType, Columns, Value, Ticket
<1>2. [t EXCEPT !.assignee = assignee, !.first_assigned_at = TRUE] \in Ticket
  BY DEF Ticket
<1> QED BY <1>1, <1>2 DEF ApplyAssignment, Mutation, Transaction, Columns

LEMMA ApplyStatusType ==
  ASSUME NEW m \in Transaction, NEW actor \in Users, NEW new \in Status
  PROVE  ApplyStatus(m, actor, new) \in Transaction
<1> DEFINE t == m.ticket
<1>1. Event("STATUS_CHANGED", actor, "status", t.status, new) \in Events
  BY DEF Event, Events, EventType, Columns, Value, Ticket, Transaction
<1>2. [t EXCEPT !.status = new,
                !.resolved_at = IF new = "CLOSED" THEN @ ELSE new = "RESOLVED",
                !.closed_at = IF new = "CLOSED" THEN TRUE ELSE @] \in Ticket
  BY DEF Ticket, Transaction
<1> QED BY <1>1, <1>2 DEF ApplyStatus, Mutation, Transaction, Columns

-----------------------------------------------------------------------------
(* The columns m saves are all those in which its ticket differs from t.   *)
Covers(t, m) ==
  /\ m.ticket.reported_priority = t.reported_priority
  /\ \A c \in Columns \ m.columns : m.ticket[c] = t[c]

(* An UPDATE of every changed column leaves the ticket in memory.          *)
LEMMA CoversWritten ==
  ASSUME NEW t \in Ticket, NEW m \in Transaction, Covers(t, m)
  PROVE  Written(t, m) = m.ticket
BY DEF Covers, Written, Ticket, Transaction, Columns

LEMMA SaveCovers ==
  ASSUME NEW t \in Ticket, NEW m \in Transaction, Covers(t, m)
  PROVE  Covers(t, Save(m))
BY DEF Covers, Save, Mutation, Ticket, Transaction, Columns

LEMMA ApplyStatusCovers ==
  ASSUME NEW t \in Ticket, NEW m \in Transaction, Covers(t, m),
         NEW actor \in Users, NEW new \in Status
  PROVE  Covers(t, ApplyStatus(m, actor, new))
BY DEF Covers, ApplyStatus, Mutation, Ticket, Transaction, Columns

LEMMA PickUpType ==
  ASSUME NEW t \in Ticket, NEW actor \in Users, NEW new \in Status
  PROVE  PickUp(t, actor, new) \in Transaction
BY ApplyAssignmentType, UntouchedType DEF PickUp

(* What a service leaves is a transaction, whose columns are all those it  *)
(* changed; of any ticket, consistent or not.                              *)
WellFormed(t, m) == m \in Transaction /\ Written(t, m) = m.ticket

LEMMA UntouchedWell ==
  ASSUME NEW t \in Ticket
  PROVE  WellFormed(t, Untouched(t))
BY UntouchedType DEF WellFormed, Untouched, Mutation, Written, Ticket

LEMMA UntouchedSound ==
  ASSUME NEW t \in Ticket, Consistent(t)
  PROVE  Sound(t, Untouched(t))
BY UntouchedWell DEF Sound, WellFormed, Untouched, Mutation

LEMMA StatusWell ==
  ASSUME NEW t \in Ticket, NEW actor \in Users, NEW new \in Status
  PROVE  WellFormed(t, StatusMutation(t, actor, new))
<1> DEFINE p == PickUp(t, actor, new)
           s == ApplyStatus(p, actor, new)
<1>1. p \in Transaction
  BY PickUpType
<1>2. Covers(t, p)
  <2>1. CASE new \in STATUSES_REQUIRING_ASSIGNEE /\ t.assignee = None
    BY <2>1 DEF Covers, PickUp, ApplyAssignment, Mutation, Ticket, Columns
  <2>2. CASE ~(new \in STATUSES_REQUIRING_ASSIGNEE /\ t.assignee = None)
    <3>1. p = Untouched(t)
      BY <2>2 DEF PickUp
    <3> QED BY <3>1 DEF Covers, Untouched, Mutation
  <2> QED BY <2>1, <2>2
<1>3. s \in Transaction /\ Covers(t, s)
  BY <1>1, <1>2, ApplyStatusType, ApplyStatusCovers
<1> QED BY <1>3, SaveType, SaveCovers, CoversWritten DEF StatusMutation, WellFormed

LEMMA StatusSound ==
  ASSUME NEW t \in Ticket, Consistent(t), NEW actor \in Users, NEW new \in Status,
         IsTransitionAllowed(t.status, new)
  PROVE  Sound(t, StatusMutation(t, actor, new))
<1> DEFINE p == PickUp(t, actor, new)
           m == StatusMutation(t, actor, new)
<1>1. m \in Transaction /\ Written(t, m) = m.ticket
  BY StatusWell DEF WellFormed
<1>2. /\ p \in Transaction /\ p.ticket \in Ticket
      /\ Covers(t, p)
      /\ p.ticket.resolved_at = t.resolved_at
      /\ p.ticket.closed_at = t.closed_at
      /\ p.ticket.assignee # None => p.ticket.first_assigned_at
      /\ new = "IN_PROGRESS" => p.ticket.assignee # None
      /\ t.assignee # None => p.ticket.assignee # None
  <2>1. p \in Transaction /\ p.ticket \in Ticket
    BY PickUpType DEF Transaction
  <2>2. CASE new = "IN_PROGRESS" /\ t.assignee = None
    <3>1. p.ticket = [t EXCEPT !.assignee = actor, !.first_assigned_at = TRUE]
      BY <2>2 DEF PickUp, ApplyAssignment, Mutation, STATUSES_REQUIRING_ASSIGNEE
    <3>2. /\ p.ticket.assignee = actor
          /\ p.ticket.first_assigned_at
          /\ p.ticket.resolved_at = t.resolved_at
          /\ p.ticket.closed_at = t.closed_at
      BY <3>1 DEF Ticket
    <3>3. Covers(t, p)
      BY <2>2 DEF Covers, PickUp, ApplyAssignment, Mutation, Ticket, Columns,
        STATUSES_REQUIRING_ASSIGNEE
    <3> QED BY <2>1, <2>2, <3>2, <3>3, NamesAssumption
  <2>3. CASE ~(new = "IN_PROGRESS" /\ t.assignee = None)
    <3>1. p = Untouched(t)
      BY <2>3 DEF PickUp, STATUSES_REQUIRING_ASSIGNEE
    <3> QED BY <2>1, <2>3, <3>1 DEF Covers, Untouched, Mutation, Consistent
  <2> QED BY <2>2, <2>3
<1>3. Consistent(m.ticket)
  <2>1. /\ m.ticket.status = new
        /\ m.ticket.assignee = p.ticket.assignee
        /\ m.ticket.first_assigned_at = p.ticket.first_assigned_at
    BY <1>2 DEF StatusMutation, Save, Mutation, ApplyStatus, Ticket
  <2>2. /\ m.ticket.resolved_at <=> IF new = "CLOSED" THEN t.resolved_at
                                    ELSE new = "RESOLVED"
        /\ m.ticket.closed_at <=> new = "CLOSED" \/ t.closed_at
    BY <1>2 DEF StatusMutation, Save, Mutation, ApplyStatus, Ticket
  <2>3. ~t.closed_at
    BY DEF Consistent, IsTransitionAllowed, ALLOWED_TRANSITIONS
  <2>4. new = "PENDING_CUSTOMER" => t.assignee # None
    BY DEF Consistent, IsTransitionAllowed, ALLOWED_TRANSITIONS, Ticket, Status
  <2> QED BY <1>2, <2>1, <2>2, <2>3, <2>4 DEF Consistent
<1>4. m.ticket.version = t.version + 1
  BY <1>2 DEF Covers, StatusMutation, Save, ApplyStatus, PickUp, ApplyAssignment,
    Untouched, Mutation, Ticket
<1> QED BY <1>1, <1>3, <1>4 DEF Sound

LEMMA AssignWell ==
  ASSUME NEW t \in Ticket, NEW actor \in Users, NEW assignee \in Users
  PROVE  WellFormed(t, AssignMutation(t, actor, assignee))
<1> DEFINE m == AssignMutation(t, actor, assignee)
<1>1. m \in Transaction
  BY ApplyAssignmentType, SaveType DEF AssignMutation
<1>2. Written(t, m) = m.ticket
  BY DEF Written, AssignMutation, Save, Mutation, ApplyAssignment, Ticket
<1> QED BY <1>1, <1>2 DEF WellFormed

LEMMA AssignSound ==
  ASSUME NEW t \in Ticket, Consistent(t), NEW actor \in Users, NEW assignee \in Users
  PROVE  Sound(t, AssignMutation(t, actor, assignee))
<1> DEFINE m == AssignMutation(t, actor, assignee)
<1>1. Consistent(m.ticket)
  BY NamesAssumption DEF Consistent, AssignMutation, Save, Mutation,
    ApplyAssignment, Ticket
<1>2. m.ticket.version = t.version + 1
  BY DEF AssignMutation, Save, Mutation, ApplyAssignment, Ticket
<1> QED BY <1>1, <1>2, AssignWell DEF Sound, WellFormed

LEMMA ReleaseWell ==
  ASSUME NEW t \in Ticket, NEW actor \in Users
  PROVE  WellFormed(t, ReleaseMutation(t, actor))
<1> DEFINE m == ReleaseMutation(t, actor)
<1>1. m \in Transaction
  <2> DEFINE e == Event("UNASSIGNED", actor, "assignee", Shown(t.assignee), "")
             f == Event("STATUS_CHANGED", actor, "status", t.status, "OPEN")
             queued == t.status \in STATUSES_RETURNED_TO_QUEUE_ON_RELEASE
             r == [t EXCEPT !.assignee = None, !.status = IF queued THEN "OPEN" ELSE @]
  <2>1. e \in Events /\ f \in Events
    BY ShownType DEF Event, Events, EventType, Columns, Value, Ticket, Status
  <2>2. r \in Ticket
    BY DEF Ticket, Status
  <2> HIDE DEF e, f, queued
  <2>3. <<e>> \in Seq(Events) /\ <<f>> \in Seq(Events)
    BY <2>1, Single
  <2>4. <<e>> \o (IF queued THEN <<f>> ELSE <<>>) \in Seq(Events)
    BY <2>3
  <2> QED BY <2>2, <2>4, SaveType DEF e, f, queued, ReleaseMutation, Mutation, Transaction, Columns
<1>2. Written(t, m) = m.ticket
  BY DEF Written, ReleaseMutation, Save, Mutation, Ticket
<1> QED BY <1>1, <1>2 DEF WellFormed

LEMMA ReleaseSound ==
  ASSUME NEW t \in Ticket, Consistent(t), NEW actor \in Users
  PROVE  Sound(t, ReleaseMutation(t, actor))
<1> DEFINE m == ReleaseMutation(t, actor)
<1>1. Consistent(m.ticket)
  BY DEF Consistent, ReleaseMutation, Save, Mutation, Ticket,
    STATUSES_RETURNED_TO_QUEUE_ON_RELEASE
<1>2. m.ticket.version = t.version + 1
  BY DEF ReleaseMutation, Save, Mutation, Ticket
<1> QED BY <1>1, <1>2, ReleaseWell DEF Sound, WellFormed

LEMMA PriorityWell ==
  ASSUME NEW t \in Ticket, NEW actor \in Users, NEW new \in Priority
  PROVE  WellFormed(t, PriorityMutation(t, actor, new))
<1> DEFINE m == PriorityMutation(t, actor, new)
           e == Event("PRIORITY_CHANGED", actor, "priority", t.priority, new)
<1>1. e \in Events
  BY DEF Event, Events, EventType, Columns, Value, Ticket
<1>2. m \in Transaction
  <2>1. [t EXCEPT !.priority = new] \in Ticket
    BY DEF Ticket
  <2>2. <<e>> \in Seq(Events)
    BY <1>1
  <2> QED BY <2>1, <2>2, SaveType DEF PriorityMutation, Mutation, Transaction, Columns
<1>3. Written(t, m) = m.ticket
  BY DEF Written, PriorityMutation, Save, Mutation, Ticket
<1> QED BY <1>2, <1>3 DEF WellFormed

LEMMA PrioritySound ==
  ASSUME NEW t \in Ticket, Consistent(t), NEW actor \in Users, NEW new \in Priority
  PROVE  Sound(t, PriorityMutation(t, actor, new))
<1> DEFINE m == PriorityMutation(t, actor, new)
<1>1. Consistent(m.ticket)
  BY DEF Consistent, PriorityMutation, Save, Mutation, Ticket
<1>2. m.ticket.version = t.version + 1
  BY DEF PriorityMutation, Save, Mutation, Ticket
<1> QED BY <1>1, <1>2, PriorityWell DEF Sound, WellFormed

LEMMA DetailsWell ==
  ASSUME NEW t \in Ticket, NEW actor \in Users, NEW call,
         call.subject \in Texts \cup {None}, call.description \in Texts \cup {None}
  PROVE  WellFormed(t, DetailsMutation(t, actor, call))
<1> DEFINE m == DetailsMutation(t, actor, call)
           Edit(f) == IF f \in Edited(t, call)
                      THEN <<Event("DETAILS_UPDATED", actor, f, t[f], call[f])>>
                      ELSE <<>>
           Left(f) == IF f \in Edited(t, call) THEN call[f] ELSE t[f]
<1>1. /\ Edited(t, call) \subseteq {"subject", "description"}
      /\ Left("subject") \in Texts /\ Left("description") \in Texts
  BY DEF Edited, Ticket
<1>2. Edit("subject") \in Seq(Events) /\ Edit("description") \in Seq(Events)
  <2>1. /\ "subject" \in Edited(t, call) => call["subject"] \in Texts
        /\ "description" \in Edited(t, call) => call["description"] \in Texts
        /\ t["subject"] \in Texts /\ t["description"] \in Texts
    BY DEF Edited, Ticket
  <2>2. \A f \in {"subject", "description"} : f \in Edited(t, call) =>
          Event("DETAILS_UPDATED", actor, f, t[f], call[f]) \in Events
    BY <2>1 DEF Event, Events, EventType, Columns, Value
  <2> QED BY <2>2
<1>3. m \in Transaction
  <2>1. [t EXCEPT !.subject = Left("subject"), !.description = Left("description")]
          \in Ticket
    BY <1>1 DEF Ticket
  <2>2. Edit("subject") \o Edit("description") \in Seq(Events)
    BY <1>2
  <2>3. Edited(t, call) \in SUBSET Columns
    BY <1>1 DEF Columns
  <2> HIDE DEF Edit, Left
  <2>4. Mutation([t EXCEPT !.subject = Left("subject"),
                           !.description = Left("description")],
                 Edited(t, call), Edit("subject") \o Edit("description"))
          \in Transaction
    BY <2>1, <2>2, <2>3 DEF Mutation, Transaction
  <2> QED BY <2>4, SaveType DEF DetailsMutation, Edit, Left
<1>4. Written(t, m) = m.ticket
  <2>1. /\ "subject" \notin Edited(t, call) => Left("subject") = t.subject
        /\ "description" \notin Edited(t, call) => Left("description") = t.description
    OBVIOUS
  <2>2. m = Save(Mutation([t EXCEPT !.subject = Left("subject"),
                                    !.description = Left("description")],
                          Edited(t, call), Edit("subject") \o Edit("description")))
    BY DEF DetailsMutation
  <2> HIDE DEF m, Left, Edit
  <2> QED BY <1>1, <2>1, <2>2 DEF Written, Save, Mutation, Ticket
<1> QED BY <1>3, <1>4 DEF WellFormed

LEMMA DetailsSound ==
  ASSUME NEW t \in Ticket, Consistent(t), NEW actor \in Users, NEW call,
         call.subject \in Texts \cup {None}, call.description \in Texts \cup {None}
  PROVE  Sound(t, DetailsMutation(t, actor, call))
<1> DEFINE m == DetailsMutation(t, actor, call)
<1>1. Consistent(m.ticket)
  BY DEF Consistent, DetailsMutation, Save, Mutation, Ticket
<1>2. m.ticket.version = t.version + 1
  BY DEF DetailsMutation, Save, Mutation, Ticket
<1> QED BY <1>1, <1>2, DetailsWell DEF Sound, WellFormed

LEMMA CommentWell ==
  ASSUME NEW t \in Ticket, NEW actor \in Users
  PROVE  WellFormed(t, CommentMutation(t, actor))
<1>1. Event("COMMENT_ADDED", actor, "", "", "") \in Events
  BY DEF Event, Events, EventType, Value
<1>2. <<Event("COMMENT_ADDED", actor, "", "", "")>> \in Seq(Events)
  BY <1>1, Single
<1> QED BY <1>2 DEF WellFormed, CommentMutation, Mutation, Transaction, Written, Ticket

LEMMA CommentSound ==
  ASSUME NEW t \in Ticket, Consistent(t), NEW actor \in Users
  PROVE  Sound(t, CommentMutation(t, actor))
BY CommentWell DEF Sound, WellFormed, CommentMutation, Mutation

-----------------------------------------------------------------------------
(* Requests: every interleaving of the calls.                              *)

(* A call's head, and the argument its operation takes.                    *)
LEMMA CallFields ==
  ASSUME NEW call \in Calls
  PROVE  /\ call.actor \in Users /\ call.ticket \in Tickets
         /\ call.op = "change_status" => call.status \in Status
         /\ call.op = "assign" => call.assignee \in Users \cup {None}
         /\ call.op = "change_priority" => call.priority \in Priority
         /\ call.op = "update_details" => /\ call.subject \in Texts \cup {None}
                                          /\ call.description \in Texts \cup {None}
BY ClientAssumption DEF Call

LEMMA NewRowType ==
  ASSUME NEW i \in Intakes
  PROVE  /\ NewRow(i) \in Ticket
         /\ Consistent(NewRow(i))
         /\ NewHistory(i) \in Seq(Events)
<1>1. i \in Intake
  BY ClientAssumption
<1>2. NewRow(i) \in Ticket /\ Consistent(NewRow(i))
  BY <1>1 DEF NewRow, Ticket, Consistent, Intake, Status
<1>3. /\ Event("CREATED", i.by, "status", "", "OPEN") \in Events
      /\ Event("PRIORITY_CHANGED", i.by, "priority", i.reported, i.priority) \in Events
  BY <1>1 DEF Event, Events, EventType, Columns, Value, Intake, Status
<1>4. NewHistory(i) \in Seq(Events)
  <2> DEFINE c == Event("CREATED", i.by, "status", "", "OPEN")
             p == Event("PRIORITY_CHANGED", i.by, "priority", i.reported, i.priority)
  <2>1. NewHistory(i) = <<c>> \o (IF i.priority = i.reported THEN <<>> ELSE <<p>>)
    BY DEF NewHistory
  <2>2. c \in Events /\ p \in Events
    BY <1>3
  <2> HIDE DEF c, p
  <2>3. <<c>> \in Seq(Events) /\ <<p>> \in Seq(Events)
    BY <2>2, Single
  <2> QED BY <2>1, <2>3
<1> QED BY <1>2, <1>4

-----------------------------------------------------------------------------
LEMMA InitIInv == Init => IInv
<1> SUFFICES ASSUME Init PROVE IInv
  OBVIOUS
<1>1. PICK intake \in [Tickets -> Intakes] :
        /\ row = [t \in Tickets |-> NewRow(intake[t])]
        /\ history = [t \in Tickets |-> NewHistory(intake[t])]
  BY DEF Init
<1>2. \A t \in Tickets : /\ row[t] \in Ticket /\ Consistent(row[t])
                         /\ history[t] \in Seq(Events)
  BY <1>1, NewRowType
<1>3. TypeOK
  BY <1>1, <1>2, ClientAssumption DEF Init, TypeOK, NoReply, Reply, Positions
<1>4. LockMatchesTransaction
  BY StaffAssumption DEF Init, LockMatchesTransaction
<1>5. RowsConsistent
  BY <1>2 DEF RowsConsistent
<1>6. RequestsInv /\ TransactionsInv
  BY DEF Init, RequestsInv, TransactionsInv
<1> QED BY <1>3, <1>4, <1>5, <1>6 DEF IInv

-----------------------------------------------------------------------------
LEMMA AdmitIInv ==
  ASSUME IInv, NEW w \in Workers, NEW call \in Calls,
         NEW expected \in ExpectedVersions(call), Admit(w, call, expected)
  PROVE  IInv'
<1> DEFINE now == row[call.ticket]
           r == [call |-> call, expected |-> expected, seen |-> now]
<1>1. call.ticket \in Tickets /\ now \in Ticket
  BY CallFields DEF IInv, TypeOK
<1>2. /\ expected \in Nat \cup {None}
      /\ expected # None => expected <= now.version
  BY <1>1 DEF ExpectedVersions, Ticket
<1>3. r \in Request
  BY <1>1, <1>2 DEF Request
<1>4. /\ pc' = [pc EXCEPT ![w] = "admitted"]
      /\ request' = [request EXCEPT ![w] = r]
      /\ UNCHANGED <<row, history, lock, active, txn>>
      /\ pc[w] = "idle"
  BY DEF Admit
<1>5. TypeOK'
  <2>1. reply' \in [Workers -> Reply]
    BY DEF Admit, IInv, TypeOK, NoReply, Reply
  <2>2. admitted' \in 0..MaxRequests
    BY ClientAssumption DEF Admit, IInv, TypeOK
  <2>3. \A v \in Workers : pc'[v] # "idle" => request'[v] \in Request
                                                /\ reply'[v] = NoReply
    BY <1>3, <1>4 DEF Admit, IInv, TypeOK
  <2>4. \A v \in Workers : pc'[v] \in {"locked", "staged", "committed"}
                            => txn'[v] \in Transaction
    BY <1>4 DEF IInv, TypeOK
  <2> QED BY <1>3, <1>4, <2>1, <2>2, <2>3, <2>4 DEF IInv, TypeOK, Positions
<1>6. LockMatchesTransaction'
  BY <1>4 DEF IInv, TypeOK, LockMatchesTransaction, TicketOf
<1>7. RowsConsistent'
  BY <1>4 DEF IInv, RowsConsistent
<1>8. RequestsInv'
  <2> SUFFICES ASSUME NEW v \in Workers, pc'[v] # "idle"
               PROVE  LET q == request'[v]  cur == row[q.call.ticket]
                      IN /\ Permitted(q.call, q.seen)
                         /\ q.expected # None => q.expected <= q.seen.version
                         /\ q.seen.version <= cur.version
                         /\ q.seen.version = cur.version => q.seen = cur
    BY <1>4 DEF RequestsInv, TicketOf
  <2>1. CASE v = w
    BY <1>1, <1>2, <1>4, <2>1 DEF Admit, IInv, TypeOK, Ticket
  <2>2. CASE v # w
    BY <1>4, <2>2 DEF IInv, TypeOK, RequestsInv, TicketOf
  <2> QED BY <2>1, <2>2
<1>9. TransactionsInv'
  BY <1>4 DEF IInv, TypeOK, TransactionsInv, TicketOf
<1> QED BY <1>5, <1>6, <1>7, <1>8, <1>9 DEF IInv

LEMMA AcquireIInv ==
  ASSUME IInv, NEW w \in Workers, Acquire(w)
  PROVE  IInv'
<1> DEFINE t == TicketOf(w)
<1>1. /\ request[w] \in Request /\ t \in Tickets /\ row[t] \in Ticket
  BY CallFields DEF Acquire, IInv, TypeOK, Request, TicketOf
<1>2. Untouched(row[t]) \in Transaction
  BY <1>1, UntouchedType
<1>3. TypeOK'
  BY <1>1, <1>2 DEF Acquire, IInv, TypeOK, Positions
<1>4. LockMatchesTransaction'
  BY <1>1, StaffAssumption DEF Acquire, IInv, TypeOK, LockMatchesTransaction, TicketOf
<1>5. RowsConsistent' /\ RequestsInv'
  BY DEF Acquire, IInv, TypeOK, RowsConsistent, RequestsInv, TicketOf
<1>6. TransactionsInv'
  BY DEF Acquire, IInv, TypeOK, TransactionsInv, TicketOf
<1> QED BY <1>3, <1>4, <1>5, <1>6 DEF IInv

(* A worker that leaves its request, with its lock released.               *)
LEMMA FinishIInv ==
  ASSUME IInv, NEW w \in Workers, NEW answer \in Reply,
         Finish(w, answer),
         \A t \in Tickets : lock'[t] = IF lock[t] = w THEN None ELSE lock[t],
         lock' \in [Tickets -> Workers \cup {None}],
         UNCHANGED <<row, history, active, admitted>>
  PROVE  IInv'
<1>1. TypeOK'
  BY DEF Finish, IInv, TypeOK, Positions
<1>2. LockMatchesTransaction'
  BY StaffAssumption DEF Finish, IInv, TypeOK, LockMatchesTransaction, TicketOf
<1>3. RowsConsistent' /\ RequestsInv'
  BY DEF Finish, IInv, TypeOK, RowsConsistent, RequestsInv, TicketOf
<1>4. TransactionsInv'
  BY DEF Finish, IInv, TypeOK, TransactionsInv, TicketOf
<1> QED BY <1>1, <1>2, <1>3, <1>4 DEF IInv

LEMMA RollbackIInv ==
  ASSUME IInv, NEW w \in Workers, pc[w] = "locked",
         NEW code \in {"ticket_closed", "version_conflict", "invalid_transition"},
         Rollback(w, code)
  PROVE  IInv'
<1>1. Answered(code, 0) \in Reply
  BY DEF Answered, Reply
<1>2. TicketOf(w) \in Tickets
  BY CallFields DEF IInv, TypeOK, Request, TicketOf
<1>3. \A t \in Tickets : lock[t] = w <=> t = TicketOf(w)
  BY DEF IInv, LockMatchesTransaction
<1>4. /\ \A t \in Tickets : lock'[t] = IF lock[t] = w THEN None ELSE lock[t]
      /\ lock' \in [Tickets -> Workers \cup {None}]
  BY <1>2, <1>3 DEF Rollback, IInv, TypeOK
<1> QED BY <1>1, <1>4, FinishIInv DEF Rollback

(* A service that ran to its end with a sound mutation.                    *)
LEMMA StageIInv ==
  ASSUME IInv, NEW w \in Workers, NEW op, Runs(w, op), NEW m,
         Sound(txn[w].ticket, m), Stage(w, m)
  PROVE  IInv'
<1> DEFINE t == TicketOf(w)
<1>1. /\ pc[w] = "locked" /\ t \in Tickets /\ row[t] \in Ticket
      /\ txn[w].ticket = row[t]
  BY CallFields DEF Runs, IInv, TypeOK, Request, TicketOf, TransactionsInv,
    Untouched, Mutation
<1>2. Sound(row[t], m) /\ m \in Transaction
  BY <1>1 DEF Sound
<1>3. Writable(row[t]) /\ VersionMatches(row[t], request[w].expected)
  BY <1>1 DEF Runs
<1>4. TypeOK'
  BY <1>1, <1>2 DEF Stage, IInv, TypeOK, Positions
<1>5. LockMatchesTransaction'
  BY <1>1 DEF Stage, IInv, TypeOK, LockMatchesTransaction, TicketOf
<1>6. RowsConsistent' /\ RequestsInv'
  BY <1>1 DEF Stage, IInv, TypeOK, RowsConsistent, RequestsInv, TicketOf
<1>7. TransactionsInv'
  BY <1>1, <1>2, <1>3 DEF Stage, IInv, TypeOK, TransactionsInv, TicketOf
<1> QED BY <1>4, <1>5, <1>6, <1>7 DEF IInv

LEMMA ServiceIInv ==
  ASSUME IInv, NEW w \in Workers, Service(w)
  PROVE  IInv'
<1> DEFINE call == request[w].call
           t == txn[w].ticket
<1>1. pc[w] = "locked"
  BY DEF Service, RejectClosed, RejectVersion, RejectTransition, Runs, ChangeStatus,
    AssignNothing, Assign, Release, ChangePriority, UpdateDetails, AddComment
<1>2. /\ t \in Ticket /\ Consistent(t)
      /\ call \in Calls
  BY <1>1, CallFields DEF IInv, TypeOK, Request, TicketOf, TransactionsInv,
    RowsConsistent, Untouched, Mutation
<1>3. call.actor \in Users
  BY <1>2, CallFields
<1>4. CASE RejectClosed(w)
  BY <1>4, RollbackIInv DEF RejectClosed
<1>5. CASE RejectVersion(w)
  BY <1>5, RollbackIInv DEF RejectVersion
<1>6. CASE RejectTransition(w)
  BY <1>1, <1>6, RollbackIInv DEF RejectTransition
<1>7. CASE ChangeStatus(w)
  <2>1. call.op = "change_status"
    BY <1>7 DEF ChangeStatus, Runs
  <2>2. call.status \in Status
    BY <1>2, <2>1, CallFields
  <2>3. Sound(t, StatusMutation(t, call.actor, call.status))
    BY <1>2, <1>3, <1>7, <2>2, StatusSound DEF ChangeStatus
  <2> QED BY <1>7, <2>3, StageIInv DEF ChangeStatus
<1>8. CASE AssignNothing(w)
  BY <1>2, <1>8, UntouchedSound, StageIInv DEF AssignNothing
<1>9. CASE Assign(w)
  <2>1. call.op = "assign" /\ call.assignee # None
    BY <1>9 DEF Assign, Runs
  <2>2. call.assignee \in Users
    BY <1>2, <2>1, CallFields
  <2>3. Sound(t, AssignMutation(t, call.actor, call.assignee))
    BY <1>2, <1>3, <2>2, AssignSound
  <2> QED BY <1>9, <2>3, StageIInv DEF Assign
<1>10. CASE Release(w)
  <2>1. Sound(t, ReleaseMutation(t, call.actor))
    BY <1>2, <1>3, ReleaseSound
  <2> QED BY <1>10, <2>1, StageIInv DEF Release
<1>11. CASE ChangePriority(w)
  <2> DEFINE m == IF call.priority = t.priority THEN Untouched(t)
                  ELSE PriorityMutation(t, call.actor, call.priority)
  <2>1. call.op = "change_priority"
    BY <1>11 DEF ChangePriority, Runs
  <2>2. call.priority \in Priority
    BY <1>2, <2>1, CallFields
  <2>3. Sound(t, m)
    BY <1>2, <1>3, <2>2, UntouchedSound, PrioritySound
  <2>4. Runs(w, "change_priority") /\ Stage(w, m)
    BY <1>11 DEF ChangePriority
  <2> HIDE DEF m
  <2> QED BY <2>3, <2>4, StageIInv
<1>12. CASE UpdateDetails(w)
  <2> DEFINE m == IF Edited(t, call) = {} THEN Untouched(t)
                  ELSE DetailsMutation(t, call.actor, call)
  <2>1. call.op = "update_details"
    BY <1>12 DEF UpdateDetails, Runs
  <2>2. call.subject \in Texts \cup {None} /\ call.description \in Texts \cup {None}
    BY <1>2, <2>1, CallFields
  <2>3. Sound(t, m)
    BY <1>2, <1>3, <2>2, UntouchedSound, DetailsSound
  <2>4. Runs(w, "update_details") /\ Stage(w, m)
    BY <1>12 DEF UpdateDetails
  <2> HIDE DEF m
  <2> QED BY <2>3, <2>4, StageIInv
<1>13. CASE AddComment(w)
  <2>1. Sound(t, CommentMutation(t, call.actor))
    BY <1>2, <1>3, CommentSound
  <2> QED BY <1>13, <2>1, StageIInv DEF AddComment
<1> QED BY <1>4, <1>5, <1>6, <1>7, <1>8, <1>9, <1>10, <1>11, <1>12, <1>13 DEF Service

(* Only the row the worker has locked changes, to what the worker left in  *)
(* memory; nobody else has a transaction on that row.                      *)
LEMMA CommitIInv ==
  ASSUME IInv, NEW w \in Workers, Commit(w)
  PROVE  IInv'
<1> DEFINE t == TicketOf(w)
           m == txn[w]
<1>1. /\ pc[w] = "staged" /\ t \in Tickets /\ row[t] \in Ticket
      /\ m \in Transaction
      /\ Sound(row[t], m)
  BY CallFields DEF Commit, IInv, TypeOK, Request, TicketOf, TransactionsInv
<1>2. /\ row' = [row EXCEPT ![t] = m.ticket]
      /\ m.ticket \in Ticket /\ Consistent(m.ticket)
      /\ m.ticket = row[t] \/ m.ticket.version = row[t].version + 1
      /\ row[t].version <= m.ticket.version
  BY <1>1 DEF Commit, Sound, Transaction, Ticket
<1>3. TypeOK'
  <2>1. history[t] \o m.events \in Seq(Events)
    BY <1>1, Concatenated DEF IInv, TypeOK, Transaction
  <2> QED BY <1>1, <1>2, <2>1 DEF Commit, IInv, TypeOK, Positions
<1>4. LockMatchesTransaction'
  BY <1>1, StaffAssumption DEF Commit, IInv, TypeOK, LockMatchesTransaction, TicketOf
<1>5. RowsConsistent'
  BY <1>2 DEF IInv, TypeOK, RowsConsistent
<1>6. RequestsInv'
  <2> SUFFICES ASSUME NEW v \in Workers, pc[v] # "idle"
               PROVE  LET q == request[v]  cur == row'[q.call.ticket]
                      IN /\ Permitted(q.call, q.seen)
                         /\ q.expected # None => q.expected <= q.seen.version
                         /\ q.seen.version <= cur.version
                         /\ q.seen.version = cur.version => q.seen = cur
    BY <1>1 DEF Commit, IInv, TypeOK, RequestsInv, TicketOf
  <2>1. /\ request[v] \in Request /\ request[v].call.ticket \in Tickets
        /\ request[v].seen \in Ticket
    BY CallFields DEF IInv, TypeOK, Request
  <2>2. CASE request[v].call.ticket = t
    BY <1>1, <1>2, <2>1, <2>2 DEF IInv, TypeOK, RequestsInv, TicketOf, Ticket
  <2>3. CASE request[v].call.ticket # t
    BY <1>2, <2>1, <2>3 DEF IInv, TypeOK, RequestsInv, TicketOf
  <2> QED BY <2>2, <2>3
<1>7. TransactionsInv'
  <2> SUFFICES ASSUME NEW v \in Workers
               PROVE  LET now == row'[TicketOf(v)]
                      IN /\ pc'[v] = "locked" => txn[v] = Untouched(now)
                         /\ pc'[v] = "staged" =>
                              /\ Sound(now, txn[v])
                              /\ Writable(now)
                              /\ VersionMatches(now, request[v].expected)
                         /\ pc'[v] = "committed" => txn[v].ticket.version <= now.version
    BY DEF Commit, TransactionsInv, TicketOf
  <2>1. CASE v = w
    BY <1>1, <1>2, <2>1 DEF Commit, IInv, TypeOK, Ticket
  <2>2. CASE v # w /\ pc[v] \in {"locked", "staged"}
    <3>1. TicketOf(v) # t
      BY <1>1, <2>2 DEF IInv, LockMatchesTransaction
    <3> QED BY <1>2, <2>2, <3>1 DEF Commit, IInv, TypeOK, TransactionsInv
  <2>3. CASE v # w /\ pc[v] = "committed"
    <3>1. /\ request[v] \in Request /\ TicketOf(v) \in Tickets
          /\ txn[v] \in Transaction
      BY <2>3, CallFields DEF IInv, TypeOK, Request, TicketOf
    <3>2. /\ row[TicketOf(v)].version <= row'[TicketOf(v)].version
          /\ txn[v].ticket.version <= row[TicketOf(v)].version
          /\ row[TicketOf(v)].version \in Nat /\ row'[TicketOf(v)].version \in Nat
          /\ txn[v].ticket.version \in Nat
      BY <1>1, <1>2, <2>3, <3>1 DEF IInv, TypeOK, TransactionsInv, Transaction, Ticket
    <3> QED BY <2>3, <3>2 DEF Commit, IInv, TypeOK
  <2>4. CASE v # w /\ pc[v] \notin {"locked", "staged", "committed"}
    BY <2>4 DEF Commit, IInv, TypeOK
  <2> QED BY <2>1, <2>2, <2>3, <2>4
<1> QED BY <1>3, <1>4, <1>5, <1>6, <1>7 DEF IInv

LEMMA AnswerIInv ==
  ASSUME IInv, NEW w \in Workers, Answer(w)
  PROVE  IInv'
<1>1. TicketOf(w) \in Tickets /\ row[TicketOf(w)] \in Ticket
  BY CallFields DEF Answer, IInv, TypeOK, Request, TicketOf
<1>2. PICK answer \in Reply : Finish(w, answer)
  BY <1>1 DEF Answer, Answered, Reply, Ticket
<1>3. /\ \A t \in Tickets : lock'[t] = IF lock[t] = w THEN None ELSE lock[t]
      /\ lock' \in [Tickets -> Workers \cup {None}]
  BY DEF Answer, IInv, TypeOK, LockMatchesTransaction
<1> QED BY <1>2, <1>3, FinishIInv DEF Answer

LEMMA CrashIInv ==
  ASSUME IInv, NEW w \in Workers, Crash(w)
  PROVE  IInv'
<1>1. Answered("lost", 0) \in Reply
  BY DEF Answered, Reply
<1>2. /\ \A t \in Tickets : lock'[t] = IF lock[t] = w THEN None ELSE lock[t]
      /\ lock' \in [Tickets -> Workers \cup {None}]
  BY DEF Crash, IInv, TypeOK
<1> QED BY <1>1, <1>2, FinishIInv DEF Crash

LEMMA NextIInv == IInv /\ [Next]_vars => IInv'
<1> SUFFICES ASSUME IInv, [Next]_vars PROVE IInv'
  OBVIOUS
<1>1. ASSUME NEW w \in Workers, NEW call \in Calls,
             NEW expected \in ExpectedVersions(call), Admit(w, call, expected)
      PROVE  IInv'
  BY <1>1, AdmitIInv
<1>2. ASSUME NEW w \in Workers, NEW call \in Calls, Refuse(w, call)
      PROVE  IInv'
  <2>1. reply' \in [Workers -> Reply]
    BY <1>2 DEF Refuse, Answered, Reply, IInv, TypeOK
  <2> QED BY <1>2, <2>1 DEF Refuse, IInv, TypeOK, LockMatchesTransaction,
    RowsConsistent, RequestsInv, TransactionsInv, TicketOf
<1>3. ASSUME NEW w \in Workers,
             Acquire(w) \/ Service(w) \/ Commit(w) \/ Answer(w) \/ Crash(w)
      PROVE  IInv'
  BY <1>3, AcquireIInv, ServiceIInv, CommitIInv, AnswerIInv, CrashIInv
<1>4. ASSUME NEW u \in Users, Deactivate(u)
      PROVE  IInv'
  BY <1>4 DEF Deactivate, IInv, TypeOK, LockMatchesTransaction,
    RowsConsistent, RequestsInv, TransactionsInv, TicketOf
<1>5. CASE UNCHANGED vars
  BY <1>5 DEF vars, IInv, TypeOK, LockMatchesTransaction,
    RowsConsistent, RequestsInv, TransactionsInv, TicketOf
<1> QED BY <1>1, <1>2, <1>3, <1>4, <1>5 DEF Next

-----------------------------------------------------------------------------
(* The invariant holds in every state the API reaches, however its         *)
(* requests interleave and wherever its workers crash.                     *)
THEOREM Invariance == Spec => []IInv
<1>1. Init => IInv
  BY InitIInv
<1>2. IInv /\ [Next]_vars => IInv'
  BY NextIInv
<1> QED BY <1>1, <1>2, PTL DEF Spec

(* Every variable keeps to its type.                                       *)
THEOREM TypeCorrect == Spec => []TypeOK
<1>1. IInv => TypeOK
  BY DEF IInv
<1> QED BY <1>1, Invariance, PTL

(* At most one worker at a time runs a service on a ticket (ADR-06).       *)
THEOREM OneWriterPerTicket == Spec => []LockMatchesTransaction
<1>1. IInv => LockMatchesTransaction
  BY DEF IInv
<1> QED BY <1>1, Invariance, PTL

(* No sequence of requests puts a ticket in a state its check constraints  *)
(* refuse, nor leaves work on a customer's answer with nobody to take it.  *)
THEOREM Consistency == Spec => []RowsConsistent
<1>1. IInv => RowsConsistent
  BY DEF IInv
<1> QED BY <1>1, Invariance, PTL

(* A service never overwrites a column with a value it read too early.     *)
THEOREM NoStaleCopy == Spec => []LockedCopyIsCurrent
<1>1. IInv => LockedCopyIsCurrent
  BY DEF IInv, TransactionsInv, LockedCopyIsCurrent, Sound
<1> QED BY <1>1, Invariance, PTL

(* A version names one state of its ticket.                                *)
THEOREM VersionsIdentify == Spec => []SameVersionSameTicket
<1>1. IInv => SameVersionSameTicket
  BY DEF IInv, RequestsInv, SameVersionSameTicket
<1> QED BY <1>1, Invariance, PTL

(* If-Match closes the gap between the permission check, which runs on an  *)
(* unlocked read, and the write: what a careful client was permitted to do *)
(* is still permitted when it is done.                                     *)
THEOREM CarefulClientsAuthorised == Spec => []CarefulWritesAuthorised
<1>1. IInv => CarefulWritesAuthorised
  <2> SUFFICES ASSUME IInv, NEW w \in Workers, pc[w] = "staged",
                      request[w].expected # None
               PROVE  Permitted(request[w].call, row[TicketOf(w)])
    BY DEF CarefulWritesAuthorised
  <2> DEFINE r == request[w]
             now == row[TicketOf(w)]
  <2>1. r \in Request /\ now \in Ticket /\ r.seen \in Ticket
    BY CallFields DEF IInv, TypeOK, Request, TicketOf
  <2>2. /\ now.version = r.expected
        /\ r.expected <= r.seen.version
        /\ r.seen.version <= now.version
        /\ r.seen.version = now.version => r.seen = now
        /\ Permitted(r.call, r.seen)
    BY DEF IInv, RequestsInv, TransactionsInv, VersionMatches
  <2>3. r.seen = now
    BY <2>1, <2>2 DEF Ticket
  <2> QED BY <2>2, <2>3
<1> QED BY <1>1, Invariance, PTL

-----------------------------------------------------------------------------
(* Who changes a row or a history: a commit of the transaction that has    *)
(* the row locked, and nobody else.                                        *)
LEMMA OnlyCommitsWrite ==
  ASSUME IInv, [Next]_vars, NEW t \in Tickets,
         row'[t] # row[t] \/ history'[t] # history[t]
  PROVE  \E w \in Workers : Commit(w) /\ TicketOf(w) = t
<1>1. row' # row \/ history' # history
  OBVIOUS
<1>2. PICK w \in Workers : Commit(w)
  BY <1>1 DEF Next, vars, Admit, Refuse, Acquire, Service, RejectClosed,
    RejectVersion, RejectTransition, Rollback, ChangeStatus, AssignNothing, Assign,
    Release, ChangePriority, UpdateDetails, AddComment, Stage, Answer, Crash,
    Deactivate
<1>3. TicketOf(w) = t
  BY <1>2 DEF Commit, IInv, TypeOK
<1> QED BY <1>2, <1>3

(* Once a ticket is closed, neither its row nor its history changes.       *)
THEOREM ClosedTicketsFrozen == Spec => ClosedIsFrozen
<1>1. IInv /\ [Next]_vars =>
        [\A t \in Tickets : row[t].status = "CLOSED"
                            => row'[t] = row[t] /\ history'[t] = history[t]]_vars
  <2> SUFFICES ASSUME IInv, [Next]_vars, NEW t \in Tickets, row[t].status = "CLOSED",
                      row'[t] # row[t] \/ history'[t] # history[t]
               PROVE  FALSE
    OBVIOUS
  <2>1. PICK w \in Workers : Commit(w) /\ TicketOf(w) = t
    BY OnlyCommitsWrite
  <2>2. Writable(row[t])
    BY <2>1 DEF Commit, IInv, TransactionsInv
  <2> QED BY <2>2 DEF Writable, IsTerminal, ALLOWED_TRANSITIONS
<1> QED BY <1>1, Invariance, PTL DEF Spec, ClosedIsFrozen

(* A conditional write is applied to the version it names or not at all.   *)
THEOREM ConditionalWritesExact == Spec => ConditionalWritesLand
<1>1. IInv =>
        [\A w \in Workers :
           Commits(w) /\ request[w].expected # None
           => row[TicketOf(w)].version = request[w].expected]_vars
  BY DEF IInv, TransactionsInv, VersionMatches, Commits
<1> QED BY <1>1, Invariance, PTL DEF Spec, ConditionalWritesLand

(* No answer to a change shows the ticket as it was before that change.    *)
THEOREM AnswersUpToDate == Spec => AnswersShowOwnWrite
<1>1. IInv /\ [Next]_vars =>
        [\A w \in Workers :
           /\ pc[w] = "committed"
           /\ reply'[w].code = "ok"
           /\ request[w].call.op # "comment"
           => reply'[w].version >= txn[w].ticket.version]_vars
  <2> SUFFICES ASSUME IInv, [Next]_vars, NEW w \in Workers, pc[w] = "committed",
                      reply'[w].code = "ok", request[w].call.op # "comment"
               PROVE  reply'[w].version >= txn[w].ticket.version
    OBVIOUS
  <2>1. reply[w].code # "ok"
    BY DEF IInv, TypeOK, NoReply
  <2>2. reply' # reply
    BY <2>1
  <2>3. Answer(w)
    <3>1. ~ \E v \in Workers : Crash(v) /\ v = w
      BY DEF Crash, Finish, Answered, IInv, TypeOK
    <3>2. ~ \E v \in Workers : v # w /\ (Service(v) \/ Answer(v) \/ Crash(v))
      BY <2>1 DEF Service, RejectClosed, RejectVersion, RejectTransition, Rollback,
        ChangeStatus, AssignNothing, Assign, Release, ChangePriority, UpdateDetails,
        AddComment, Stage, Answer, Crash, Finish, IInv, TypeOK
    <3>3. ~ \E v \in Workers, call \in Calls :
             \/ Refuse(v, call)
             \/ \E expected \in ExpectedVersions(call) : Admit(v, call, expected)
      BY <2>1 DEF Refuse, Admit, IInv, TypeOK
    <3>4. ~ Service(w)
      BY DEF Service, RejectClosed, RejectVersion, RejectTransition, Runs,
        ChangeStatus, AssignNothing, Assign, Release, ChangePriority, UpdateDetails,
        AddComment
    <3> QED BY <2>2, <3>1, <3>2, <3>3, <3>4 DEF Next, vars, Acquire, Commit, Deactivate
  <2>4. reply'[w].version = row[TicketOf(w)].version
    BY <2>3 DEF Answer, Finish, Answered, IInv, TypeOK
  <2>5. /\ TicketOf(w) \in Tickets /\ row[TicketOf(w)].version \in Nat
        /\ txn[w].ticket.version \in Nat
    BY CallFields DEF IInv, TypeOK, Request, TicketOf, Transaction, Ticket
  <2> QED BY <2>4, <2>5 DEF IInv, TransactionsInv
<1> QED BY <1>1, Invariance, PTL DEF Spec, AnswersShowOwnWrite
=============================================================================
