------------------------------ MODULE TicketApi ------------------------------
(***************************************************************************)
(* The life of tickets behind the agent API: requests served by concurrent *)
(* workers over rows of a PostgreSQL table.                                *)
(*                                                                         *)
(* A worker first reads the ticket without a lock, and decides on that     *)
(* copy whether the caller may do what is asked (apps/tickets/views.py,    *)
(* permissions.py).  It then opens a transaction, takes the row lock, and  *)
(* reads the ticket again (services._lock); the body of the service runs   *)
(* on that second copy, writes only the columns it changed together with   *)
(* the events that describe the change, and commits.  The answer is built  *)
(* from a third read, after the commit.  A worker can die at any point;    *)
(* PostgreSQL then rolls its open transaction back.                        *)
(***************************************************************************)
EXTENDS TicketServices, TicketPermissions

CONSTANTS
  Supervisors,   \* the users whose role is SUPERVISOR
  Tickets,       \* the tickets, created before the run starts
  Intakes,       \* how they may have been created
  Workers,       \* the gunicorn workers: requests served at the same time
  Calls,         \* what clients may ask for
  MayLeave,      \* the users an administrator may deactivate
  MaxRequests    \* bound on the requests that pass the permission check

ASSUME StaffAssumption ==
  /\ Supervisors \subseteq Users /\ MayLeave \subseteq Users
  /\ None \notin Workers

(* A call: the operation, its validated payload, and whether the client    *)
(* sends If-Match.  In update_details, None stands for a field not sent.   *)
Call ==
  [op: {"change_status"}, actor: Users, ticket: Tickets,
   conditional: BOOLEAN, status: Status]
  \cup
  [op: {"assign"}, actor: Users, ticket: Tickets,
   conditional: BOOLEAN, assignee: Users \cup {None}]
  \cup
  [op: {"change_priority"}, actor: Users, ticket: Tickets,
   conditional: BOOLEAN, priority: Priority]
  \cup
  [op: {"update_details"}, actor: Users, ticket: Tickets,
   conditional: BOOLEAN, subject: Texts \cup {None}, description: Texts \cup {None}]
  \cup
  [op: {"comment"}, actor: Users, ticket: Tickets, conditional: BOOLEAN]

ASSUME ClientAssumption ==
  Calls \subseteq Call /\ Intakes \subseteq Intake /\ MaxRequests \in Nat

VARIABLES
  row,       \* row[t]: the committed row of ticket t
  history,   \* history[t]: its committed events, oldest first
  lock,      \* lock[t]: the worker holding the row lock of t, or None
  active,    \* the users whose account is active
  pc,        \* pc[w]: where worker w is
  request,   \* request[w]: the call, the expected version, the unlocked copy
  txn,       \* txn[w]: the copy read under the lock, and what w wrote so far
  reply,     \* reply[w]: the last answer of w
  admitted   \* how many requests passed the permission check

vars == <<row, history, lock, active, pc, request, txn, reply, admitted>>

-----------------------------------------------------------------------------
RoleOf(user) == IF user \in Supervisors THEN "SUPERVISOR" ELSE "AGENT"

(* The permission check of the view, on a copy of the ticket.              *)
TargetOf(call) == IF call.op = "assign" THEN call.assignee ELSE None

Permitted(call, ticket) ==
  IsAllowed(call.op, AccessContext(call.actor, RoleOf(call.actor),
                                   ticket.assignee, TargetOf(call)))

(* AssignSerializer: only an active user can be named as the assignee.     *)
Valid(call) == call.op = "assign" => call.assignee \in active \cup {None}

(* A client that sends If-Match echoes a version some answer gave it, so   *)
(* one the ticket has had.                                                 *)
ExpectedVersions(call) ==
  IF call.conditional THEN 1..row[call.ticket].version ELSE {None}

NoReply == [code |-> "none", version |-> 0]

Answered(code, version) == [code |-> code, version |-> version]

Idle == {w \in Workers : pc[w] = "idle"}

TicketOf(w) == request[w].call.ticket

Init ==
  /\ \E intake \in [Tickets -> Intakes] :
       /\ row = [t \in Tickets |-> NewRow(intake[t])]
       /\ history = [t \in Tickets |-> NewHistory(intake[t])]
  /\ lock = [t \in Tickets |-> None]
  /\ active = Users
  /\ pc = [w \in Workers |-> "idle"]
  /\ request = [w \in Workers |-> None]
  /\ txn = [w \in Workers |-> None]
  /\ reply = [w \in Workers |-> NoReply]
  /\ admitted = 0

(* The worker is done with its request, which it answers or leaves without *)
(* an answer.                                                              *)
Finish(w, answer) ==
  /\ pc' = [pc EXCEPT ![w] = "idle"]
  /\ request' = [request EXCEPT ![w] = None]
  /\ txn' = [txn EXCEPT ![w] = None]
  /\ reply' = [reply EXCEPT ![w] = answer]

(* The request is authenticated, the ticket read without a lock, the       *)
(* permission checked on that copy and the payload validated.              *)
Admit(w, call, expected) ==
  /\ pc[w] = "idle"
  /\ admitted < MaxRequests
  /\ call.actor \in active
  /\ expected \in ExpectedVersions(call)
  /\ Permitted(call, row[call.ticket])
  /\ Valid(call)
  /\ admitted' = admitted + 1
  /\ pc' = [pc EXCEPT ![w] = "admitted"]
  /\ request' = [request EXCEPT ![w] =
       [call |-> call, expected |-> expected, seen |-> row[call.ticket]]]
  /\ reply' = [reply EXCEPT ![w] = NoReply]
  /\ UNCHANGED <<row, history, lock, active, txn>>

(* 403 from the permission check, or 400 from the serializer.              *)
Refuse(w, call) ==
  /\ pc[w] = "idle"
  /\ admitted < MaxRequests
  /\ call.actor \in active
  /\ ~(Permitted(call, row[call.ticket]) /\ Valid(call))
  /\ reply' = [reply EXCEPT ![w] = Answered("refused", 0)]
  /\ UNCHANGED <<row, history, lock, active, pc, request, txn, admitted>>

(* A variant that TLC must refute: the row is read without FOR UPDATE.      *)
AcquireUnlocked(w) ==
  /\ pc[w] = "admitted"
  /\ lock' = [lock EXCEPT ![TicketOf(w)] = w]
  /\ pc' = [pc EXCEPT ![w] = "locked"]
  /\ txn' = [txn EXCEPT ![w] = Untouched(row[TicketOf(w)])]
  /\ UNCHANGED <<row, history, active, request, reply, admitted>>

(* A variant that TLC must refute: the service works on the copy the view   *)
(* read.                                                                    *)
AcquireStale(w) ==
  /\ pc[w] = "admitted"
  /\ lock[TicketOf(w)] = None
  /\ lock' = [lock EXCEPT ![TicketOf(w)] = w]
  /\ pc' = [pc EXCEPT ![w] = "locked"]
  /\ txn' = [txn EXCEPT ![w] = Untouched(request[w].seen)]
  /\ UNCHANGED <<row, history, active, request, reply, admitted>>

(* SELECT ... FOR UPDATE: waits for the row lock, then reads the row as    *)
(* the last transaction left it.                                           *)
Acquire(w) ==
  /\ pc[w] = "admitted"
  /\ lock[TicketOf(w)] = None
  /\ lock' = [lock EXCEPT ![TicketOf(w)] = w]
  /\ pc' = [pc EXCEPT ![w] = "locked"]
  /\ txn' = [txn EXCEPT ![w] = Untouched(row[TicketOf(w)])]
  /\ UNCHANGED <<row, history, active, request, reply, admitted>>

-----------------------------------------------------------------------------
(* The body of a service, on the copy read under the lock.                 *)
(* A variant that TLC must refute: no service asks whether the ticket is    *)
(* closed.                                                                  *)
AlwaysWritable(ticket) == TRUE

Writable(ticket) == ~IsTerminal(ticket.status)

(* A variant that TLC must refute: a version the ticket has passed is       *)
(* accepted.                                                                *)
VersionReached(ticket, expected) == expected \in {None} \cup 1..ticket.version

VersionMatches(ticket, expected) == expected = None \/ ticket.version = expected

(* A variant that TLC must refute: the exception leaves the transaction     *)
(* open.                                                                    *)
RollbackKeepsLock(w, code) ==
  /\ Finish(w, Answered(code, 0))
  /\ UNCHANGED <<row, history, lock, active, admitted>>

(* An exception leaves the service: the transaction is rolled back.        *)
Rollback(w, code) ==
  /\ lock' = [lock EXCEPT ![TicketOf(w)] = None]
  /\ Finish(w, Answered(code, 0))
  /\ UNCHANGED <<row, history, active, admitted>>

RejectClosed(w) ==
  /\ pc[w] = "locked"
  /\ ~Writable(txn[w].ticket)
  /\ Rollback(w, "ticket_closed")

RejectVersion(w) ==
  /\ pc[w] = "locked"
  /\ Writable(txn[w].ticket)
  /\ ~VersionMatches(txn[w].ticket, request[w].expected)
  /\ Rollback(w, "version_conflict")

(* The service runs its operation, past _assert_writable, _assert_version. *)
Runs(w, op) ==
  /\ pc[w] = "locked"
  /\ request[w].call.op = op
  /\ Writable(txn[w].ticket)
  /\ VersionMatches(txn[w].ticket, request[w].expected)

RejectTransition(w) ==
  /\ Runs(w, "change_status")
  /\ ~IsTransitionAllowed(txn[w].ticket.status, request[w].call.status)
  /\ Rollback(w, "invalid_transition")

(* The statements of the transaction are sent, and not yet committed.      *)
Stage(w, mutation) ==
  /\ txn' = [txn EXCEPT ![w] = mutation]
  /\ pc' = [pc EXCEPT ![w] = "staged"]
  /\ UNCHANGED <<row, history, lock, active, request, reply, admitted>>

ChangeStatus(w) ==
  LET call == request[w].call  t == txn[w].ticket
  IN /\ Runs(w, "change_status")
     /\ IsTransitionAllowed(t.status, call.status)
     /\ Stage(w, StatusMutation(t, call.actor, call.status))

(* Assigning a ticket to who already holds it, or releasing a free one,    *)
(* changes nothing; the same goes for the other no-ops below.              *)
AssignNothing(w) ==
  /\ Runs(w, "assign")
  /\ request[w].call.assignee = txn[w].ticket.assignee
  /\ Stage(w, Untouched(txn[w].ticket))

Assign(w) ==
  LET call == request[w].call  t == txn[w].ticket
  IN /\ Runs(w, "assign")
     /\ call.assignee \notin {None, t.assignee}
     /\ Stage(w, AssignMutation(t, call.actor, call.assignee))

Release(w) ==
  LET call == request[w].call  t == txn[w].ticket
  IN /\ Runs(w, "assign")
     /\ call.assignee = None /\ t.assignee # None
     /\ Stage(w, ReleaseMutation(t, call.actor))

ChangePriority(w) ==
  LET call == request[w].call  t == txn[w].ticket
  IN /\ Runs(w, "change_priority")
     /\ Stage(w, IF call.priority = t.priority THEN Untouched(t)
                 ELSE PriorityMutation(t, call.actor, call.priority))

UpdateDetails(w) ==
  LET call == request[w].call  t == txn[w].ticket
  IN /\ Runs(w, "update_details")
     /\ Stage(w, IF Edited(t, call) = {} THEN Untouched(t)
                 ELSE DetailsMutation(t, call.actor, call))

AddComment(w) ==
  /\ Runs(w, "comment")
  /\ Stage(w, CommentMutation(txn[w].ticket, request[w].call.actor))

Service(w) ==
  \/ RejectClosed(w) \/ RejectVersion(w) \/ RejectTransition(w)
  \/ ChangeStatus(w) \/ AssignNothing(w) \/ Assign(w) \/ Release(w)
  \/ ChangePriority(w) \/ UpdateDetails(w) \/ AddComment(w)

-----------------------------------------------------------------------------
(* COMMIT: the row, its events and the release of the lock in one step.    *)
Commit(w) ==
  LET t == TicketOf(w)
  IN /\ pc[w] = "staged"
     /\ row' = [row EXCEPT ![t] = Written(@, txn[w])]
     /\ history' = [history EXCEPT ![t] = @ \o txn[w].events]
     /\ lock' = [lock EXCEPT ![t] = None]
     /\ pc' = [pc EXCEPT ![w] = "committed"]
     /\ UNCHANGED <<active, request, txn, reply, admitted>>

(* A variant that TLC must refute: the answer is built from the copy the    *)
(* view read.                                                               *)
AnswerFromView(w) ==
  /\ pc[w] = "committed"
  /\ Finish(w, Answered("ok", IF request[w].call.op = "comment" THEN 0
                              ELSE request[w].seen.version))
  /\ UNCHANGED <<row, history, lock, active, admitted>>

(* The answer carries the ticket as a fresh, unlocked read finds it; that  *)
(* of a comment carries the comment alone.                                 *)
Answer(w) ==
  /\ pc[w] = "committed"
  /\ Finish(w, Answered("ok", IF request[w].call.op = "comment" THEN 0
                              ELSE row[TicketOf(w)].version))
  /\ UNCHANGED <<row, history, lock, active, admitted>>

(* The worker dies, or loses its connection: what it had not committed is  *)
(* rolled back, and the client gets no answer.                             *)
Crash(w) ==
  /\ pc[w] # "idle"
  /\ lock' = [t \in Tickets |-> IF lock[t] = w THEN None ELSE lock[t]]
  /\ Finish(w, Answered("lost", 0))
  /\ UNCHANGED <<row, history, active, admitted>>

(* An administrator deactivates an account.                                *)
Deactivate(u) ==
  /\ u \in active \cap MayLeave
  /\ active' = active \ {u}
  /\ UNCHANGED <<row, history, lock, pc, request, txn, reply, admitted>>

Next ==
  \/ \E w \in Workers, call \in Calls :
       \/ \E expected \in ExpectedVersions(call) : Admit(w, call, expected)
       \/ Refuse(w, call)
  \/ \E w \in Workers :
       Acquire(w) \/ Service(w) \/ Commit(w) \/ Answer(w) \/ Crash(w)
  \/ \E u \in Users : Deactivate(u)

Spec == Init /\ [][Next]_vars

(* gunicorn keeps running what it accepted, and PostgreSQL queues those    *)
(* who wait for a row lock, so nobody is overtaken for ever.               *)
Fairness ==
  \A w \in Workers :
    /\ WF_vars(Service(w) \/ Commit(w) \/ Answer(w))
    /\ SF_vars(Acquire(w))

FairSpec == Spec /\ Fairness

-----------------------------------------------------------------------------
(* Types, and what each position of a worker says of its other variables.  *)
Request ==
  [call: Calls, expected: Nat \cup {None}, seen: Ticket]

Reply ==
  [code: {"none", "ok", "refused", "ticket_closed", "version_conflict",
          "invalid_transition", "lost"}, version: Nat]

Positions == {"idle", "admitted", "locked", "staged", "committed"}

(* Every variable holds what it is declared to hold, at every position of  *)
(* the request cycle; in particular no service stores a value its column   *)
(* cannot take, such as the None of a field that was not sent.             *)
TypeOK ==
  /\ row \in [Tickets -> Ticket]
  /\ history \in [Tickets -> Seq(Events)]
  /\ lock \in [Tickets -> Workers \cup {None}]
  /\ active \subseteq Users
  /\ pc \in [Workers -> Positions]
  /\ request \in [Workers -> Request \cup {None}]
  /\ txn \in [Workers -> Transaction \cup {None}]
  /\ reply \in [Workers -> Reply]
  /\ admitted \in 0..MaxRequests
  /\ \A w \in Workers :
       /\ pc[w] # "idle" => request[w] \in Request /\ reply[w] = NoReply
       /\ pc[w] \in {"locked", "staged", "committed"} => txn[w] \in Transaction

(* Who holds a row lock is in a transaction on that row, and the other way *)
(* round: at most one worker runs a service on a ticket (ADR-06).          *)
LockMatchesTransaction ==
  \A t \in Tickets, w \in Workers :
    lock[t] = w <=> pc[w] \in {"locked", "staged"} /\ TicketOf(w) = t

(* The ticket read under the lock is still the row when the writes of the  *)
(* transaction reach it, so UPDATE of some columns loses no other write.   *)
LockedCopyIsCurrent ==
  \A w \in Workers :
    /\ pc[w] = "locked" => txn[w] = Untouched(row[TicketOf(w)])
    /\ pc[w] = "staged" => Written(row[TicketOf(w)], txn[w]) = txn[w].ticket

-----------------------------------------------------------------------------
(* Every committed row passes the check constraints of its table, and its  *)
(* timestamps and its assignee mean what they say; PENDING_CUSTOMER, which *)
(* no constraint covers, always has somebody the answer will land on.      *)
RowsConsistent == \A t \in Tickets : Consistent(row[t])

(* The fields whose changes the history tells, as the history shows them.  *)
Audited == {"status", "assignee", "priority", "subject", "description"}

ShownOf(r, field) == IF field = "assignee" THEN Shown(r.assignee) ELSE r[field]

(* Event i is the last to tell of a field.                                 *)
LastOf(h, field, i) ==
  /\ h[i].field = field
  /\ \A j \in DOMAIN h : j > i => h[j].field # field

Untold(h, field) == \A i \in DOMAIN h : h[i].field # field

(* Reading the history to its end gives the ticket: the last entry about a *)
(* field says what the row says, and a field the history is silent about   *)
(* has the value it was created with.                                      *)
HistoryTellsTicket ==
  \A t \in Tickets :
    /\ \A f \in Audited, i \in DOMAIN history[t] :
         LastOf(history[t], f, i) => history[t][i].new = ShownOf(row[t], f)
    /\ Untold(history[t], "assignee") => row[t].assignee = None
    /\ Untold(history[t], "priority") => row[t].priority = row[t].reported_priority
    /\ ~Untold(history[t], "status")

(* An entry starts where the one before it about the same field ended: two *)
(* writers never tell contradicting stories (models.py, TicketEvent).      *)
HistoryIsChained ==
  \A t \in Tickets : LET h == history[t] IN
    \A i, j \in DOMAIN h :
      /\ i < j /\ h[i].field = h[j].field /\ h[i].field # ""
      /\ \A k \in i+1..j-1 : h[k].field # h[i].field
      => h[j].old = h[i].new

(* The ETag identifies the ticket: whoever reads a version twice reads the *)
(* same ticket twice (ADR-07), which is what makes If-Match mean anything. *)
SameVersionSameTicket ==
  \A w \in Workers : pc[w] # "idle" =>
    LET seen == request[w].seen  now == row[TicketOf(w)]
    IN /\ seen.version <= now.version
       /\ seen.version = now.version => seen = now

(* A careful client, one that sends If-Match, is protected: when its       *)
(* change is about to be written the permission its request was admitted   *)
(* on still holds, whoever took the ticket meanwhile.                      *)
CarefulWritesAuthorised ==
  \A w \in Workers :
    /\ pc[w] = "staged"
    /\ request[w].expected # None
    => Permitted(request[w].call, row[TicketOf(w)])

(* README: "An agent cannot change the status of a colleague's ticket".    *)
NoAgentMovesColleaguesTicket ==
  \A w \in Workers :
    /\ pc[w] = "staged"
    /\ request[w].call.op = "change_status"
    /\ request[w].call.actor \notin Supervisors
    => row[TicketOf(w)].assignee \in {None, request[w].call.actor}

Commits(w) == pc[w] = "staged" /\ pc'[w] = "committed"

(* A conditional write lands on the very version it names: of two requests *)
(* that carry the same If-Match, one changes the ticket at most, and a     *)
(* client that retries a change whose answer was lost never applies it     *)
(* twice.                                                                  *)
ConditionalWritesLand ==
  [][\A w \in Workers :
       Commits(w) /\ request[w].expected # None
       => row[TicketOf(w)].version = request[w].expected]_vars

(* Closed is terminal: no write of a request that was under way when the   *)
(* ticket was closed reaches its row or its history (ADR-13).              *)
ClosedIsFrozen ==
  [][\A t \in Tickets :
       row[t].status = "CLOSED" => row'[t] = row[t] /\ history'[t] = history[t]]_vars

(* The answer to a change shows that change, or a later one: a client is   *)
(* never sent back to a version older than the one it has just produced.   *)
AnswersShowOwnWrite ==
  [][\A w \in Workers :
       /\ pc[w] = "committed"
       /\ reply'[w].code = "ok"
       /\ request[w].call.op # "comment"
       => reply'[w].version >= txn[w].ticket.version]_vars

(* Every request that was let in is answered, or its worker is lost; in    *)
(* particular nobody waits for ever for a row lock.                        *)
EveryRequestEnds ==
  \A w \in Workers : pc[w] # "idle" ~> pc[w] = "idle"

-----------------------------------------------------------------------------
(* What a request that was let in knows of the ticket: it was permitted on *)
(* the copy it saw, which is the ticket unless the version moved since.    *)
RequestsInv ==
  \A w \in Workers : pc[w] # "idle" =>
    LET r == request[w]  now == row[TicketOf(w)]
    IN /\ Permitted(r.call, r.seen)
       /\ r.expected # None => r.expected <= r.seen.version
       /\ r.seen.version <= now.version
       /\ r.seen.version = now.version => r.seen = now

(* What an open transaction is about to do to the row it has locked.       *)
TransactionsInv ==
  \A w \in Workers :
    LET now == row[TicketOf(w)]
    IN /\ pc[w] = "locked" => txn[w] = Untouched(now)
       /\ pc[w] = "staged" =>
            /\ Sound(now, txn[w])
            /\ Writable(now)
            /\ VersionMatches(now, request[w].expected)
       /\ pc[w] = "committed" => txn[w].ticket.version <= now.version

(* The inductive invariant of the API: the invariants above follow from it.*)
IInv ==
  /\ TypeOK
  /\ LockMatchesTransaction
  /\ RowsConsistent
  /\ RequestsInv
  /\ TransactionsInv

-----------------------------------------------------------------------------
(* The table and the events implement the ledger.                          *)
Visible(r) ==
  [status |-> r.status, assignee |-> Shown(r.assignee), priority |-> r.priority,
   subject |-> r.subject, description |-> r.description, version |-> r.version]

Ledger == INSTANCE TicketLedger WITH
            ticket <- [t \in Tickets |-> Visible(row[t])],
            trail <- history

(* Nothing changes without leaving a trace (README): every step the API    *)
(* takes is one entry of the ledger, whole or not at all, and crashes,     *)
(* waits and refusals are none.                                            *)
ImplementsLedger == Ledger!LedgerSpec
=============================================================================
