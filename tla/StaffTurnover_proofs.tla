------------------------ MODULE StaffTurnover_proofs ------------------------
(***************************************************************************)
(* Deleting accounts leaves no reference to nobody and no work in progress *)
(* without an owner, for any staff, tickets, workers and requests.         *)
(*                                                                         *)
(* The invariant of TicketApi does not survive a deletion, which changes a *)
(* row and leaves its version.  What does is weaker: a transaction still   *)
(* runs on the row it locked, for a deletion waits for the row locks of    *)
(* the tickets it changes, and leaves work with an owner; whether the      *)
(* owner still has an account is checked by the commit.                    *)
(*                                                                         *)
(* What a history says of the assignee stays true of the row, but for what *)
(* a deletion took (OrphanInv): each service moves the two alike, and lets *)
(* a ticket wait for its customer only in somebody's hands.                *)
(***************************************************************************)
EXTENDS StaffTurnover, TicketApi_proofs

(* Work in progress has an owner, with an account or without.              *)
Owned(r) == r.status = "IN_PROGRESS" => r.assignee # None

RowsOK ==
  /\ row \in [Tickets -> Ticket] /\ history \in [Tickets -> Seq(Events)]
  /\ accounts \subseteq Users
  /\ \A t \in Tickets : Owned(row[t])

(* What a worker is about to do to the row it has locked.                  *)
Keeps(w) ==
  LET now == row[TicketOf(w)]
  IN  /\ pc[w] \in Positions
      /\ pc[w] # "idle" => request[w].call \in Calls
      /\ pc[w] = "locked" => txn[w] = Untouched(now)
      /\ pc[w] = "staged" => WellFormed(now, txn[w]) /\ Owned(txn[w].ticket)

WorkersOK ==
  /\ DOMAIN pc = Workers /\ DOMAIN request = Workers /\ DOMAIN txn = Workers
  /\ lock \in [Tickets -> Workers \cup {None}]
  /\ \A w \in Workers : Keeps(w)

TurnoverInv ==
  RowsOK /\ WorkersOK /\ LockMatchesTransaction /\ ReferencesResolve

-----------------------------------------------------------------------------
(* Every service leaves work in progress with an owner.                    *)
LEMMA StatusOwned ==
  ASSUME NEW t \in Ticket, NEW actor \in Users, NEW new \in Status
  PROVE  Owned(StatusMutation(t, actor, new).ticket)
<1> DEFINE p == PickUp(t, actor, new)
           m == StatusMutation(t, actor, new)
<1>1. p.ticket \in Ticket
  BY PickUpType DEF Transaction
<1>2. m.ticket.status = new /\ m.ticket.assignee = p.ticket.assignee
  BY <1>1 DEF StatusMutation, Save, Mutation, ApplyStatus, Ticket
<1>3. CASE new = "IN_PROGRESS" /\ t.assignee = None
  <2>1. p.ticket.assignee = actor
    BY <1>3 DEF PickUp, ApplyAssignment, Mutation, STATUSES_REQUIRING_ASSIGNEE, Ticket
  <2> QED BY <1>2, <2>1, NamesAssumption DEF Owned
<1>4. CASE new = "IN_PROGRESS" /\ t.assignee # None
  <2>1. p = Untouched(t)
    BY <1>4 DEF PickUp
  <2> QED BY <1>2, <1>4, <2>1 DEF Owned, Untouched, Mutation
<1> QED BY <1>2, <1>3, <1>4 DEF Owned

LEMMA OthersOwned ==
  ASSUME NEW t \in Ticket, Owned(t), NEW actor \in Users
  PROVE  /\ Owned(Untouched(t).ticket)
         /\ \A u \in Users : Owned(AssignMutation(t, actor, u).ticket)
         /\ Owned(ReleaseMutation(t, actor).ticket)
         /\ \A p : Owned(PriorityMutation(t, actor, p).ticket)
         /\ \A call : Owned(DetailsMutation(t, actor, call).ticket)
         /\ Owned(CommentMutation(t, actor).ticket)
<1>1. Owned(Untouched(t).ticket) /\ Owned(CommentMutation(t, actor).ticket)
  BY DEF Untouched, CommentMutation, Mutation
<1>2. ASSUME NEW u \in Users PROVE Owned(AssignMutation(t, actor, u).ticket)
  BY NamesAssumption DEF Owned, AssignMutation, Save, Mutation, ApplyAssignment, Ticket
<1>3. Owned(ReleaseMutation(t, actor).ticket)
  BY DEF Owned, ReleaseMutation, Save, Mutation, Ticket, STATUSES_RETURNED_TO_QUEUE_ON_RELEASE
<1>4. ASSUME NEW p PROVE Owned(PriorityMutation(t, actor, p).ticket)
  BY DEF Owned, PriorityMutation, Save, Mutation, Ticket
<1>5. ASSUME NEW call PROVE Owned(DetailsMutation(t, actor, call).ticket)
  BY DEF Owned, DetailsMutation, Save, Mutation, Ticket
<1> QED BY <1>1, <1>2, <1>3, <1>4, <1>5

-----------------------------------------------------------------------------
(* At the start everybody has an account, and only intakes were recorded.  *)
LEMMA InitTurnoverInv == TurnoverInit => TurnoverInv
<1> SUFFICES ASSUME TurnoverInit PROVE TurnoverInv
  OBVIOUS
<1>1. PICK intake \in [Tickets -> Intakes] :
        /\ row = [t \in Tickets |-> NewRow(intake[t])]
        /\ history = [t \in Tickets |-> NewHistory(intake[t])]
  BY DEF TurnoverInit, Init
<1>2. ASSUME NEW t \in Tickets
      PROVE  /\ intake[t] \in Intakes /\ intake[t] \in Intake
             /\ row[t] = NewRow(intake[t]) /\ history[t] = NewHistory(intake[t])
  BY <1>1, ClientAssumption
<1>3. RowsOK
  <2>1. ASSUME NEW t \in Tickets
        PROVE row[t] \in Ticket /\ history[t] \in Seq(Events) /\ Owned(row[t])
    <3>1. row[t] \in Ticket /\ history[t] \in Seq(Events)
      BY <1>2, NewRowType
    <3>2. NewRow(intake[t]).status = "OPEN"
      BY DEF NewRow
    <3>3. row[t].status = "OPEN"
      BY <1>2, <3>2
    <3>4. Owned(row[t])
      BY <3>3 DEF Owned
    <3> QED BY <3>1, <3>4
  <2> QED BY <1>1, <2>1 DEF RowsOK, TurnoverInit
<1>4. WorkersOK
  BY DEF TurnoverInit, Init, WorkersOK, Keeps, Positions
<1>5. LockMatchesTransaction
  BY StaffAssumption DEF TurnoverInit, Init, LockMatchesTransaction
<1>6. ReferencesResolve
  <2>1. ASSUME NEW t \in Tickets, NEW i \in DOMAIN history[t]
        PROVE  /\ history[t][i].actor \in Users \cup {None}
               /\ history[t][i].event_type # "COMMENT_ADDED"
    <3> DEFINE k == intake[t]
               c == Event("CREATED", k.by, "status", "", "OPEN")
               p == Event("PRIORITY_CHANGED", k.by, "priority", k.reported, k.priority)
    <3>1. /\ c.actor \in Users \cup {None} /\ c.event_type # "COMMENT_ADDED"
          /\ p.actor \in Users \cup {None} /\ p.event_type # "COMMENT_ADDED"
      BY <1>2 DEF Event, Intake
    <3>2. history[t] = <<c>> \o (IF k.priority = k.reported THEN <<>> ELSE <<p>>)
      BY <1>2 DEF NewHistory
    <3> HIDE DEF c, p, k
    <3>3. <<c>> \in Seq({c, p}) /\ <<p>> \in Seq({c, p}) /\ <<>> \in Seq({c, p})
      OBVIOUS
    <3>4. history[t] \in Seq({c, p})
      BY <3>2, <3>3, Concatenated
    <3>5. history[t][i] \in {c, p}
      BY <3>4
    <3> QED BY <3>1, <3>5
  <2>2. \A t \in Tickets : row[t].assignee = None
    <3> SUFFICES ASSUME NEW t \in Tickets PROVE row[t].assignee = None
      OBVIOUS
    <3>1. NewRow(intake[t]).assignee = None
      BY DEF NewRow
    <3> QED BY <1>2, <3>1
  <2> QED BY <2>1, <2>2 DEF ReferencesResolve, TurnoverInit
<1> QED BY <1>3, <1>4, <1>5, <1>6 DEF TurnoverInv

(* A step of one worker that commits nothing.                              *)
LEMMA OneWorkerTurns ==
  ASSUME TurnoverInv, NEW w \in Workers,
         UNCHANGED <<row, history, accounts>>,
         DOMAIN pc' = Workers, DOMAIN request' = Workers, DOMAIN txn' = Workers,
         \A v \in Workers \ {w} :
           pc'[v] = pc[v] /\ request'[v] = request[v] /\ txn'[v] = txn[v],
         Keeps(w)',
         lock' \in [Tickets -> Workers \cup {None}],
         LockMatchesTransaction'
  PROVE  TurnoverInv'
<1>1. RowsOK' /\ ReferencesResolve'
  BY DEF TurnoverInv, RowsOK, ReferencesResolve
<1>2. ASSUME NEW v \in Workers \ {w} PROVE Keeps(v)'
  BY <1>2 DEF TurnoverInv, WorkersOK, Keeps, TicketOf
<1>3. WorkersOK'
  BY <1>2 DEF WorkersOK
<1> QED BY <1>1, <1>3 DEF TurnoverInv

LEMMA FinishTurns ==
  ASSUME TurnoverInv, NEW w \in Workers, NEW answer, Finish(w, answer),
         \A t \in Tickets : lock'[t] = IF lock[t] = w THEN None ELSE lock[t],
         lock' \in [Tickets -> Workers \cup {None}],
         UNCHANGED <<row, history, accounts>>
  PROVE  TurnoverInv'
<1>1. /\ DOMAIN pc' = Workers /\ DOMAIN request' = Workers /\ DOMAIN txn' = Workers
      /\ pc'[w] = "idle"
      /\ \A v \in Workers \ {w} :
           pc'[v] = pc[v] /\ request'[v] = request[v] /\ txn'[v] = txn[v]
  BY DEF Finish, TurnoverInv, WorkersOK
<1>2. Keeps(w)'
  BY <1>1 DEF Keeps, Positions
<1>3. LockMatchesTransaction'
  BY <1>1, StaffAssumption DEF TurnoverInv, LockMatchesTransaction, TicketOf
<1> QED BY <1>1, <1>2, <1>3, OneWorkerTurns

LEMMA TicketLocked ==
  ASSUME TurnoverInv, NEW w \in Workers, pc[w] \in {"locked", "staged"}
  PROVE  /\ request[w].call \in Calls
         /\ TicketOf(w) \in Tickets /\ row[TicketOf(w)] \in Ticket
         /\ Owned(row[TicketOf(w)])
         /\ \A t \in Tickets : lock[t] = w <=> t = TicketOf(w)
<1>1. request[w].call \in Calls
  BY DEF TurnoverInv, WorkersOK, Keeps
<1>2. TicketOf(w) \in Tickets
  BY <1>1, CallFields DEF TicketOf
<1>3. \A t \in Tickets : lock[t] = w <=> t = TicketOf(w)
  BY DEF TurnoverInv, LockMatchesTransaction
<1> QED BY <1>1, <1>2, <1>3 DEF TurnoverInv, RowsOK

LEMMA RollbackTurns ==
  ASSUME TurnoverInv, NEW w \in Workers, pc[w] \in {"locked", "staged"},
         NEW code, Rollback(w, code), UNCHANGED accounts
  PROVE  TurnoverInv'
<1>1. \A t \in Tickets : lock[t] = w <=> t = TicketOf(w)
  BY TicketLocked
<1>2. /\ \A t \in Tickets : lock'[t] = IF lock[t] = w THEN None ELSE lock[t]
      /\ lock' \in [Tickets -> Workers \cup {None}]
  BY <1>1 DEF Rollback, TurnoverInv, WorkersOK
<1> DEFINE answer == Answered(code, 0)
<1>3. Finish(w, answer) /\ UNCHANGED <<row, history>>
  BY DEF Rollback
<1> HIDE DEF answer
<1> QED BY <1>2, <1>3, FinishTurns

LEMMA AdmitTurns ==
  ASSUME TurnoverInv, NEW w \in Workers, NEW call \in Calls, NEW expected,
         Admit(w, call, expected), UNCHANGED accounts
  PROVE  TurnoverInv'
<1> DEFINE r == [call |-> call, expected |-> expected, seen |-> row[call.ticket]]
<1>1. /\ DOMAIN pc' = Workers /\ DOMAIN request' = Workers
      /\ pc[w] = "idle" /\ pc'[w] = "admitted" /\ request'[w].call = call
      /\ \A v \in Workers \ {w} : pc'[v] = pc[v] /\ request'[v] = request[v]
      /\ UNCHANGED <<row, history, lock, txn>>
  BY DEF Admit, TurnoverInv, WorkersOK
<1>2. Keeps(w)'
  BY <1>1 DEF Keeps, Positions
<1>3. LockMatchesTransaction'
  BY <1>1 DEF TurnoverInv, LockMatchesTransaction, TicketOf
<1> QED BY <1>1, <1>2, <1>3, OneWorkerTurns DEF TurnoverInv, WorkersOK

LEMMA AcquireTurns ==
  ASSUME TurnoverInv, NEW w \in Workers, Acquire(w), UNCHANGED accounts
  PROVE  TurnoverInv'
<1> DEFINE t == TicketOf(w)
<1>1. request[w].call \in Calls /\ t \in Tickets
  BY CallFields DEF Acquire, TurnoverInv, WorkersOK, Keeps, TicketOf
<1>2. /\ DOMAIN pc' = Workers /\ DOMAIN txn' = Workers
      /\ pc[w] = "admitted" /\ pc'[w] = "locked" /\ txn'[w] = Untouched(row[t])
      /\ \A v \in Workers \ {w} : pc'[v] = pc[v] /\ txn'[v] = txn[v]
      /\ lock' = [lock EXCEPT ![t] = w] /\ lock[t] = None
      /\ UNCHANGED <<row, history, request>>
  BY DEF Acquire, TurnoverInv, WorkersOK
<1>3. Keeps(w)'
  BY <1>1, <1>2 DEF Keeps, Positions, TicketOf
<1>4. lock' \in [Tickets -> Workers \cup {None}]
  BY <1>1, <1>2 DEF TurnoverInv, WorkersOK
<1>5. LockMatchesTransaction'
  BY <1>1, <1>2, StaffAssumption DEF TurnoverInv, WorkersOK, LockMatchesTransaction, TicketOf
<1> QED BY <1>2, <1>3, <1>4, <1>5, OneWorkerTurns DEF TurnoverInv, WorkersOK

LEMMA StageTurns ==
  ASSUME TurnoverInv, NEW w \in Workers, pc[w] = "locked", NEW m,
         WellFormed(row[TicketOf(w)], m), Owned(m.ticket), Stage(w, m),
         UNCHANGED accounts
  PROVE  TurnoverInv'
<1>1. /\ DOMAIN pc' = Workers /\ DOMAIN txn' = Workers
      /\ pc'[w] = "staged" /\ txn'[w] = m
      /\ \A v \in Workers \ {w} : pc'[v] = pc[v] /\ txn'[v] = txn[v]
      /\ UNCHANGED <<row, history, lock, request>>
  BY DEF Stage, TurnoverInv, WorkersOK
<1>2. Keeps(w)'
  BY <1>1, TicketLocked DEF Keeps, Positions, TicketOf, WellFormed
<1>3. LockMatchesTransaction'
  BY <1>1 DEF TurnoverInv, LockMatchesTransaction, TicketOf
<1> QED BY <1>1, <1>2, <1>3, OneWorkerTurns DEF TurnoverInv, WorkersOK

LEMMA ServiceTurns ==
  ASSUME TurnoverInv, NEW w \in Workers, Service(w), UNCHANGED accounts
  PROVE  TurnoverInv'
<1> DEFINE call == request[w].call
           t == txn[w].ticket
<1>1. pc[w] = "locked"
  BY DEF Service, RejectClosed, RejectVersion, RejectTransition, Runs, ChangeStatus,
    AssignNothing, Assign, Release, ChangePriority, UpdateDetails, AddComment
<1>2. /\ call \in Calls /\ t = row[TicketOf(w)] /\ t \in Ticket /\ Owned(t)
  BY <1>1, TicketLocked DEF TurnoverInv, WorkersOK, Keeps, Untouched, Mutation
<1>3. call.actor \in Users
  BY <1>2, CallFields
<1>4. CASE RejectClosed(w) \/ RejectVersion(w) \/ RejectTransition(w)
  <2>1. PICK code \in {"ticket_closed", "version_conflict", "invalid_transition"} :
          Rollback(w, code)
    BY <1>4 DEF RejectClosed, RejectVersion, RejectTransition
  <2> QED BY <1>1, <2>1, RollbackTurns
<1>5. ASSUME NEW m, WellFormed(t, m), Owned(m.ticket), Stage(w, m) PROVE TurnoverInv'
  BY <1>1, <1>2, <1>5, StageTurns
<1>6. CASE ChangeStatus(w)
  <2> DEFINE m == StatusMutation(t, call.actor, call.status)
  <2>1. call.status \in Status /\ Stage(w, m)
    BY <1>2, <1>6, CallFields DEF ChangeStatus, Runs
  <2>2. WellFormed(t, m) /\ Owned(m.ticket)
    BY <1>2, <1>3, <2>1, StatusWell, StatusOwned
  <2> HIDE DEF m
  <2> QED BY <1>5, <2>1, <2>2
<1>7. CASE AssignNothing(w)
  <2> DEFINE m == Untouched(t)
  <2>1. Stage(w, m)
    BY <1>7 DEF AssignNothing
  <2>2. WellFormed(t, m) /\ Owned(m.ticket)
    BY <1>2, <1>3, UntouchedWell, OthersOwned
  <2> HIDE DEF m
  <2> QED BY <1>5, <2>1, <2>2
<1>8. CASE Assign(w)
  <2> DEFINE m == AssignMutation(t, call.actor, call.assignee)
  <2>1. call.assignee \in Users /\ Stage(w, m)
    BY <1>2, <1>8, CallFields DEF Assign, Runs
  <2>2. WellFormed(t, m) /\ Owned(m.ticket)
    BY <1>2, <1>3, <2>1, AssignWell, OthersOwned
  <2> HIDE DEF m
  <2> QED BY <1>5, <2>1, <2>2
<1>9. CASE Release(w)
  <2> DEFINE m == ReleaseMutation(t, call.actor)
  <2>1. Stage(w, m)
    BY <1>9 DEF Release
  <2>2. WellFormed(t, m) /\ Owned(m.ticket)
    BY <1>2, <1>3, ReleaseWell, OthersOwned
  <2> HIDE DEF m
  <2> QED BY <1>5, <2>1, <2>2
<1>10. CASE ChangePriority(w)
  <2> DEFINE m == IF call.priority = t.priority THEN Untouched(t)
                  ELSE PriorityMutation(t, call.actor, call.priority)
  <2>1. call.priority \in Priority /\ Stage(w, m)
    BY <1>2, <1>10, CallFields DEF ChangePriority, Runs
  <2>2. WellFormed(t, m) /\ Owned(m.ticket)
    BY <1>2, <1>3, <2>1, UntouchedWell, PriorityWell, OthersOwned
  <2> HIDE DEF m
  <2> QED BY <1>5, <2>1, <2>2
<1>11. CASE UpdateDetails(w)
  <2> DEFINE m == IF Edited(t, call) = {} THEN Untouched(t)
                  ELSE DetailsMutation(t, call.actor, call)
  <2>1. /\ call.subject \in Texts \cup {None} /\ call.description \in Texts \cup {None}
        /\ Stage(w, m)
    BY <1>2, <1>11, CallFields DEF UpdateDetails, Runs
  <2>2. WellFormed(t, m) /\ Owned(m.ticket)
    BY <1>2, <1>3, <2>1, UntouchedWell, DetailsWell, OthersOwned
  <2> HIDE DEF m
  <2> QED BY <1>5, <2>1, <2>2
<1>12. CASE AddComment(w)
  <2> DEFINE m == CommentMutation(t, call.actor)
  <2>1. Stage(w, m)
    BY <1>12 DEF AddComment
  <2>2. WellFormed(t, m) /\ Owned(m.ticket)
    BY <1>2, <1>3, CommentWell, OthersOwned
  <2> HIDE DEF m
  <2> QED BY <1>5, <2>1, <2>2
<1> QED BY <1>4, <1>6, <1>7, <1>8, <1>9, <1>10, <1>11, <1>12 DEF Service

(* A commit refers to accounts that exist, and to them only.               *)
LEMMA CommitTurns ==
  ASSUME TurnoverInv, NEW w \in Workers, CommitChecked(w), UNCHANGED accounts
  PROVE  TurnoverInv'
<1> DEFINE t == TicketOf(w)
           m == txn[w]
<1>1. /\ pc[w] = "staged" /\ t \in Tickets /\ row[t] \in Ticket
      /\ \A u \in Tickets : lock[u] = w <=> u = t
  BY TicketLocked DEF CommitChecked
<1>2. m \in Transaction /\ Written(row[t], m) = m.ticket /\ Owned(m.ticket)
  BY <1>1 DEF TurnoverInv, WorkersOK, Keeps, WellFormed
<1>3. m.ticket \in Ticket /\ m.events \in Seq(Events)
  BY <1>2 DEF Transaction
<1>4. /\ row' = [row EXCEPT ![t] = m.ticket]
      /\ history' = [history EXCEPT ![t] = @ \o m.events]
      /\ lock' = [lock EXCEPT ![t] = None]
      /\ DOMAIN pc' = Workers /\ pc'[w] = "committed"
      /\ \A v \in Workers \ {w} : pc'[v] = pc[v]
      /\ UNCHANGED <<request, txn>>
  BY <1>2 DEF CommitChecked, Commit, TurnoverInv, WorkersOK
<1>5. /\ \A i \in DOMAIN m.events : m.events[i].actor \in accounts
      /\ m.ticket.assignee \in accounts \cup {None}
  <2>1. \A i \in DOMAIN m.events : m.events[i].actor \in accounts
    BY DEF CommitChecked, Resolves
  <2>2. CASE "assignee" \in m.columns
    BY <2>1, <2>2 DEF CommitChecked, Resolves
  <2>3. CASE "assignee" \notin m.columns
    <3>1. m.ticket.assignee = row[t].assignee
      BY <1>2, <2>3 DEF Written
    <3> QED BY <1>1, <2>1, <3>1 DEF TurnoverInv, ReferencesResolve
  <2> QED BY <2>2, <2>3
<1> HIDE DEF t, m
<1>6. row \in [Tickets -> Ticket] /\ history \in [Tickets -> Seq(Events)]
  BY DEF TurnoverInv, RowsOK
<1>7. history[t] \o m.events \in Seq(Events)
  BY <1>1, <1>3, <1>6, Concatenated
<1>8. RowsOK'
  BY <1>1, <1>2, <1>3, <1>4, <1>6, <1>7 DEF TurnoverInv, RowsOK
<1>9. ReferencesResolve'
  <2> SUFFICES ASSUME NEW u \in Tickets
               PROVE  /\ row'[u].assignee \in accounts \cup {None}
                      /\ \A i \in DOMAIN history'[u] :
                           LET e == history'[u][i]
                           IN  e.actor \in accounts
                                 \cup (IF e.event_type = "COMMENT_ADDED" THEN {} ELSE {None})
    BY DEF ReferencesResolve
  <2>1. /\ row[u].assignee \in accounts \cup {None}
        /\ \A i \in DOMAIN history[u] :
             LET e == history[u][i]
             IN  e.actor \in accounts
                   \cup (IF e.event_type = "COMMENT_ADDED" THEN {} ELSE {None})
    BY DEF TurnoverInv, ReferencesResolve
  <2>2. CASE u # t
    BY <1>4, <1>6, <2>1, <2>2
  <2>3. CASE u = t
    <3> DEFINE h == history[u]
               d == m.events
               g == h \o d
    <3>1. row'[u] = m.ticket /\ history'[u] = g
      BY <1>4, <1>6, <2>3
    <3>2. /\ h \in Seq(Events) /\ d \in Seq(Events)
          /\ DOMAIN h = 1 .. Len(h) /\ DOMAIN d = 1 .. Len(d)
          /\ DOMAIN g = 1 .. Len(h) + Len(d)
          /\ Len(h) \in Nat /\ Len(d) \in Nat
          /\ \A i \in 1 .. Len(h) + Len(d) :
               g[i] = IF i <= Len(h) THEN h[i] ELSE d[i - Len(h)]
      BY <1>3, <1>6
    <3>3. ASSUME NEW i \in DOMAIN g
          PROVE  (\E j \in DOMAIN h : g[i] = h[j]) \/ (\E j \in DOMAIN d : g[i] = d[j])
      <4>1. CASE i <= Len(h)
        <5>1. i \in DOMAIN h /\ g[i] = h[i]
          BY <3>2, <4>1
        <5> QED BY <5>1
      <4>2. CASE ~(i <= Len(h))
        <5> HIDE DEF h, d, g
        <5>1. i \in 1 .. Len(h) + Len(d)
          BY <3>2, <3>3
        <5>2. i - Len(h) \in DOMAIN d
          BY <3>2, <4>2, <5>1
        <5>3. g[i] = d[i - Len(h)]
          BY <3>2, <4>2, <5>1
        <5> QED BY <5>2, <5>3
      <4> QED BY <4>1, <4>2
    <3> HIDE DEF g
    <3> QED BY <1>5, <2>1, <3>1, <3>3
  <2> QED BY <2>2, <2>3
<1>10. ASSUME NEW v \in Workers PROVE Keeps(v)'
  <2>1. Keeps(v)
    BY DEF TurnoverInv, WorkersOK
  <2>2. CASE v = w
    BY <1>4, <2>1, <2>2, <1>1 DEF Keeps, Positions
  <2>3. CASE v # w /\ pc[v] \in {"locked", "staged"}
    <3>1. TicketOf(v) # t
      BY <1>1, <2>3 DEF TurnoverInv, LockMatchesTransaction
    <3>2. row'[TicketOf(v)] = row[TicketOf(v)] /\ TicketOf(v)' = TicketOf(v)
      BY <1>4, <1>6, <2>3, <3>1, TicketLocked DEF TicketOf
    <3> QED BY <1>4, <2>1, <2>3, <3>2 DEF Keeps, WellFormed
  <2>4. CASE v # w /\ pc[v] \notin {"locked", "staged"}
    BY <1>4, <2>1, <2>4 DEF Keeps
  <2> QED BY <2>2, <2>3, <2>4
<1>11. WorkersOK'
  BY <1>1, <1>4, <1>10 DEF TurnoverInv, WorkersOK
<1>12. LockMatchesTransaction'
  BY <1>1, <1>4, StaffAssumption DEF TurnoverInv, WorkersOK, LockMatchesTransaction, TicketOf
<1> QED BY <1>8, <1>9, <1>11, <1>12 DEF TurnoverInv

(* A deletion takes the account out of the tickets and the events that     *)
(* name it; those it may not change, it would have changed, and it waits.  *)
LEMMA DeleteTurns ==
  ASSUME TurnoverInv, NEW u \in Users, DeleteUser(u)
  PROVE  TurnoverInv'
<1>1. /\ accounts' = accounts \ {u}
      /\ row' = [t \in Tickets |->
           IF t \in Assigned(u) THEN [row[t] EXCEPT !.assignee = None] ELSE row[t]]
      /\ history' = [t \in Tickets |-> Anonymised(u, history[t])]
      /\ UNCHANGED <<lock, pc, request, txn>>
  BY DEF DeleteUser
<1>2. row \in [Tickets -> Ticket] /\ history \in [Tickets -> Seq(Events)]
  BY DEF TurnoverInv, RowsOK
<1>3. ASSUME NEW t \in Tickets
      PROVE  /\ row'[t] \in Ticket /\ Owned(row'[t])
             /\ row'[t].assignee \in (accounts \ {u}) \cup {None}
             /\ lock[t] # None => row'[t] = row[t]
  <2>1. row[t] \in Ticket /\ Owned(row[t]) /\ row[t].assignee \in accounts \cup {None}
    BY DEF TurnoverInv, RowsOK, ReferencesResolve
  <2>2. CASE t \in Assigned(u)
    <3>1. row'[t] = [row[t] EXCEPT !.assignee = None]
      BY <1>1, <2>2
    <3>2. row[t].status # "IN_PROGRESS" /\ lock[t] = None
      BY <2>2 DEF DeleteUser, Releasable
    <3>3. /\ row'[t] \in Ticket /\ row'[t].status = row[t].status
          /\ row'[t].assignee = None
      BY <2>1, <3>1 DEF Ticket
    <3> QED BY <3>2, <3>3 DEF Owned
  <2>3. CASE t \notin Assigned(u)
    BY <1>1, <2>1, <2>3 DEF Assigned
  <2> QED BY <2>2, <2>3
<1>4. ASSUME NEW t \in Tickets
      PROVE  /\ history'[t] \in Seq(Events)
             /\ \A i \in DOMAIN history'[t] :
                  LET e == history'[t][i]
                  IN  e.actor \in (accounts \ {u})
                        \cup (IF e.event_type = "COMMENT_ADDED" THEN {} ELSE {None})
  <2> DEFINE h == history[t]
             g == history'[t]
  <2>1. /\ h \in Seq(Events) /\ Len(h) \in Nat /\ DOMAIN h = 1 .. Len(h)
        /\ g = [i \in 1 .. Len(h) |->
                  IF h[i].actor = u THEN [h[i] EXCEPT !.actor = None] ELSE h[i]]
    BY <1>1, <1>2 DEF Anonymised
  <2>2. ~Commented(u)
    BY DEF DeleteUser
  <2>3. ASSUME NEW i \in 1 .. Len(h)
        PROVE  /\ g[i] \in Events
               /\ g[i].actor \in (accounts \ {u})
                    \cup (IF g[i].event_type = "COMMENT_ADDED" THEN {} ELSE {None})
    <3>1. /\ h[i] \in Events
          /\ h[i].actor \in accounts
                \cup (IF h[i].event_type = "COMMENT_ADDED" THEN {} ELSE {None})
      BY <2>1 DEF TurnoverInv, ReferencesResolve
    <3>2. CASE h[i].actor = u
      <4>1. h[i].event_type # "COMMENT_ADDED"
        BY <2>1, <2>2, <3>2 DEF Commented, EventsBy
      <4>2. g[i] = [h[i] EXCEPT !.actor = None]
        BY <2>1, <3>2
      <4>3. /\ g[i] \in Events /\ g[i].actor = None
            /\ g[i].event_type = h[i].event_type
        BY <3>1, <4>2 DEF Events
      <4> QED BY <4>1, <4>3
    <3>3. CASE h[i].actor # u
      <4>1. g[i] = h[i]
        BY <2>1, <3>3
      <4> QED BY <3>1, <3>3, <4>1
    <3> QED BY <3>2, <3>3
  <2>4. g \in Seq(Events) /\ DOMAIN g = 1 .. Len(h)
    <3>1. DOMAIN g = 1 .. Len(h)
      BY <2>1
    <3>2. g \in [1 .. Len(h) -> Events]
      BY <2>1, <2>3
    <3> QED BY <2>1, <3>1, <3>2
  <2> HIDE DEF g, h
  <2>5. g \in Seq(Events)
        /\ \A i \in DOMAIN g :
             g[i].actor \in (accounts \ {u})
               \cup (IF g[i].event_type = "COMMENT_ADDED" THEN {} ELSE {None})
    BY <2>3, <2>4
  <2> QED BY <2>5 DEF g
<1>5. RowsOK'
  <2>1. row' \in [Tickets -> Ticket]
    BY <1>1, <1>3
  <2>2. history' \in [Tickets -> Seq(Events)]
    BY <1>1, <1>4
  <2> QED BY <1>1, <1>3, <2>1, <2>2 DEF TurnoverInv, RowsOK
<1>6. ReferencesResolve'
  BY <1>1, <1>3, <1>4 DEF ReferencesResolve
<1>7. ASSUME NEW v \in Workers PROVE Keeps(v)'
  <2>1. Keeps(v)
    BY DEF TurnoverInv, WorkersOK
  <2>2. CASE pc[v] \in {"locked", "staged"}
    <3>1. TicketOf(v) \in Tickets /\ lock[TicketOf(v)] = v
      BY <2>2, TicketLocked
    <3>2. row'[TicketOf(v)] = row[TicketOf(v)] /\ TicketOf(v)' = TicketOf(v)
      BY <1>1, <1>3, <3>1, StaffAssumption DEF TicketOf
    <3> QED BY <1>1, <2>1, <3>2 DEF Keeps, WellFormed
  <2>3. CASE pc[v] \notin {"locked", "staged"}
    BY <1>1, <2>1, <2>3 DEF Keeps
  <2> QED BY <2>2, <2>3
<1>8. WorkersOK' /\ LockMatchesTransaction'
  BY <1>1, <1>7 DEF TurnoverInv, WorkersOK, LockMatchesTransaction, TicketOf
<1> QED BY <1>5, <1>6, <1>8 DEF TurnoverInv

-----------------------------------------------------------------------------
LEMMA NextTurnoverInv == TurnoverInv /\ [TurnoverNext]_turnoverVars => TurnoverInv'
<1> SUFFICES ASSUME TurnoverInv, [TurnoverNext]_turnoverVars PROVE TurnoverInv'
  OBVIOUS
<1>1. ASSUME NEW u \in Users, DeleteUser(u) PROVE TurnoverInv'
  BY <1>1, DeleteTurns
<1>2. CASE Requests /\ UNCHANGED accounts
  <2>1. ASSUME NEW w \in Workers, NEW call \in Calls,
               NEW expected \in ExpectedVersions(call), Admit(w, call, expected)
        PROVE  TurnoverInv'
    BY <1>2, <2>1, AdmitTurns
  <2>2. ASSUME NEW w \in Workers, Acquire(w) \/ Service(w) \/ CommitChecked(w)
        PROVE  TurnoverInv'
    BY <1>2, <2>2, AcquireTurns, ServiceTurns, CommitTurns
  <2>3. ASSUME NEW w \in Workers, CommitFails(w) PROVE TurnoverInv'
    BY <1>2, <2>3, RollbackTurns DEF CommitFails
  <2>4. ASSUME NEW w \in Workers, Answer(w) \/ Crash(w) PROVE TurnoverInv'
    <3>1. PICK answer : Finish(w, answer)
      BY <2>4 DEF Answer, Crash
    <3>2. /\ UNCHANGED <<row, history>>
          /\ \A t \in Tickets : lock'[t] = IF lock[t] = w THEN None ELSE lock[t]
          /\ lock' \in [Tickets -> Workers \cup {None}]
      <4>1. CASE Crash(w)
        BY <4>1 DEF Crash, TurnoverInv, WorkersOK
      <4>2. CASE Answer(w)
        BY <4>2 DEF Answer, TurnoverInv, WorkersOK, LockMatchesTransaction
      <4> QED BY <2>4, <4>1, <4>2
    <3> QED BY <1>2, <3>1, <3>2, FinishTurns
  <2>5. ASSUME UNCHANGED <<row, history, lock, pc, request, txn>> PROVE TurnoverInv'
    BY <1>2, <2>5 DEF TurnoverInv, RowsOK, WorkersOK, Keeps, LockMatchesTransaction,
      ReferencesResolve, TicketOf, WellFormed
  <2>6. ASSUME NEW w \in Workers, NEW call \in Calls, Refuse(w, call) PROVE TurnoverInv'
    BY <2>5, <2>6 DEF Refuse
  <2>7. ASSUME NEW u \in Users, Deactivate(u) PROVE TurnoverInv'
    BY <2>5, <2>7 DEF Deactivate
  <2> QED BY <1>2, <2>1, <2>2, <2>3, <2>4, <2>6, <2>7 DEF Requests
<1>3. CASE UNCHANGED turnoverVars
  BY <1>3 DEF turnoverVars, TurnoverInv, RowsOK, WorkersOK, Keeps,
    LockMatchesTransaction, ReferencesResolve, TicketOf, WellFormed
<1> QED BY <1>1, <1>2, <1>3 DEF TurnoverNext

LEMMA TurnoverInvariance == TurnoverSpec => []TurnoverInv
<1> QED BY InitTurnoverInv, NextTurnoverInv, PTL DEF TurnoverSpec

(* Whoever a ticket or its history names has an account, whatever requests *)
(* that name an account are under way when it is deleted.                  *)
THEOREM NobodyIsMissing == TurnoverSpec => []ReferencesResolve
<1>1. TurnoverInv => ReferencesResolve
  BY DEF TurnoverInv
<1> QED BY <1>1, TurnoverInvariance, PTL

(* No deletion takes the owner of work in progress.                        *)
THEOREM WorkIsNeverOrphaned == TurnoverSpec => []WorkKeepsItsOwner
<1>1. TurnoverInv => WorkKeepsItsOwner
  BY DEF TurnoverInv, RowsOK, Owned, ReferencesResolve, WorkKeepsItsOwner
<1> QED BY <1>1, TurnoverInvariance, PTL
-----------------------------------------------------------------------------
(* What a history tells of its entries, with or without their actors.      *)
Told == {<<e.event_type, e.field, e.old, e.new>> : e \in Events}

LEMMA StoryOfHistory ==
  ASSUME NEW h \in Seq(Events)
  PROVE  /\ Story(h) \in Seq(Told) /\ Len(Story(h)) = Len(h)
         /\ \A i \in 1 .. Len(h) :
              Story(h)[i] = <<h[i].event_type, h[i].field, h[i].old, h[i].new>>
<1>1. DOMAIN h = 1 .. Len(h) /\ Len(h) \in Nat /\ \A i \in 1 .. Len(h) : h[i] \in Events
  OBVIOUS
<1>2. Story(h) = [i \in 1 .. Len(h) |-> <<h[i].event_type, h[i].field, h[i].old, h[i].new>>]
  BY <1>1 DEF Story
<1>3. Story(h) \in [1 .. Len(h) -> Told]
  BY <1>1, <1>2 DEF Told
<1>4. Story(h) \in Seq(Told) /\ Len(Story(h)) = Len(h)
  BY <1>1, <1>3
<1> QED BY <1>2, <1>4

(* A history that begins with entries that tell the same goes on with the  *)
(* same story.                                                             *)
LEMMA StoryGoesOn ==
  ASSUME NEW h \in Seq(Events), NEW g \in Seq(Events), Len(h) <= Len(g),
         \A i \in 1 .. Len(h) :
           /\ g[i].event_type = h[i].event_type /\ g[i].field = h[i].field
           /\ g[i].old = h[i].old /\ g[i].new = h[i].new
  PROVE  Len(Story(h)) <= Len(Story(g)) /\ SubSeq(Story(g), 1, Len(Story(h))) = Story(h)
<1> DEFINE old == Story(h)
           new == Story(g)
<1>1. /\ old \in Seq(Told) /\ Len(old) = Len(h) /\ new \in Seq(Told) /\ Len(new) = Len(g)
      /\ Len(h) \in Nat /\ Len(g) \in Nat
  BY StoryOfHistory
<1>2. ASSUME NEW i \in 1 .. Len(h) PROVE new[i] = old[i]
  <2>1. i \in 1 .. Len(g)
    BY <1>1
  <2> QED BY <2>1, StoryOfHistory
<1> HIDE DEF old, new
<1>3. SubSeq(new, 1, Len(old)) = old
  BY <1>1, <1>2
<1> QED BY <1>1, <1>3 DEF old, new

(* No deletion and no request rewrites what the history says was done.     *)
THEOREM StoriesOnlyGrow == TurnoverSpec => StoryOnlyGrows
<1> DEFINE Grows == \A t \in Tickets :
             LET old == Story(history[t])  new == Story(history'[t])
             IN  Len(old) <= Len(new) /\ SubSeq(new, 1, Len(old)) = old
<1>1. TurnoverInv /\ TurnoverInv' /\ [TurnoverNext]_turnoverVars => [Grows]_turnoverVars
  <2> SUFFICES ASSUME TurnoverInv, TurnoverInv', TurnoverNext, NEW t \in Tickets
               PROVE  LET old == Story(history[t])  new == Story(history'[t])
                      IN  Len(old) <= Len(new) /\ SubSeq(new, 1, Len(old)) = old
    OBVIOUS
  <2> DEFINE h == history[t]
             g == history'[t]
  <2>1. h \in Seq(Events) /\ g \in Seq(Events)
    BY DEF TurnoverInv, RowsOK
  <2>2. CASE history' = history
    BY <2>1, <2>2, StoryGoesOn
  <2>3. ASSUME NEW w \in Workers, CommitChecked(w)
        PROVE  /\ Len(h) <= Len(g)
               /\ \A i \in 1 .. Len(h) : g[i] = h[i]
    <3>1. /\ TicketOf(w) \in Tickets /\ txn[w].events \in Seq(Events)
          /\ history' = [history EXCEPT ![TicketOf(w)] = @ \o txn[w].events]
      <4>1. pc[w] = "staged" /\ TicketOf(w) \in Tickets
        BY <2>3, TicketLocked DEF CommitChecked
      <4>2. txn[w].events \in Seq(Events)
        BY <4>1 DEF TurnoverInv, WorkersOK, Keeps, WellFormed, Transaction
      <4> QED BY <2>3, <4>1, <4>2 DEF CommitChecked, Commit
    <3>2. history \in [Tickets -> Seq(Events)]
      BY DEF TurnoverInv, RowsOK
    <3>3. CASE t = TicketOf(w)
      <4> DEFINE d == txn[w].events
      <4>1. g = h \o d
        BY <3>1, <3>2, <3>3
      <4>2. h \in Seq(Events) /\ d \in Seq(Events)
        BY <2>1, <3>1
      <4> HIDE DEF h, g, d
      <4> QED BY <4>1, <4>2
    <3>4. CASE t # TicketOf(w)
      <4>1. g = h
        BY <3>1, <3>2, <3>4
      <4> QED BY <2>1, <4>1
    <3> QED BY <3>3, <3>4
  <2>4. ASSUME NEW u \in Users, DeleteUser(u)
        PROVE  /\ Len(h) <= Len(g)
               /\ \A i \in 1 .. Len(h) :
                    /\ g[i].event_type = h[i].event_type /\ g[i].field = h[i].field
                    /\ g[i].old = h[i].old /\ g[i].new = h[i].new
    <3>1. DOMAIN h = 1 .. Len(h) /\ Len(h) \in Nat /\ DOMAIN g = 1 .. Len(g) /\ Len(g) \in Nat
      BY <2>1
    <3>2. g = [i \in 1 .. Len(h) |->
                 IF h[i].actor = u THEN [h[i] EXCEPT !.actor = None] ELSE h[i]]
      BY <2>4, <3>1 DEF DeleteUser, Anonymised
    <3>3. Len(g) = Len(h)
      BY <3>1, <3>2
    <3>4. ASSUME NEW i \in 1 .. Len(h)
          PROVE  /\ g[i].event_type = h[i].event_type /\ g[i].field = h[i].field
                 /\ g[i].old = h[i].old /\ g[i].new = h[i].new
      <4>1. h[i] \in Events
        BY <2>1
      <4>2. g[i] = IF h[i].actor = u THEN [h[i] EXCEPT !.actor = None] ELSE h[i]
        BY <3>2
      <4> QED BY <4>1, <4>2 DEF Events
    <3> QED BY <3>1, <3>3, <3>4
  <2>5. CASE \E w \in Workers : CommitChecked(w)
    <3>1. PICK w \in Workers : CommitChecked(w)
      BY <2>5
    <3> HIDE DEF h, g
    <3>2. Len(h) <= Len(g) /\ \A i \in 1 .. Len(h) : g[i] = h[i]
      BY <2>3, <3>1
    <3>3. Len(Story(h)) <= Len(Story(g)) /\ SubSeq(Story(g), 1, Len(Story(h))) = Story(h)
      BY <2>1, <3>2, StoryGoesOn
    <3> QED BY <3>3 DEF h, g
  <2>6. CASE \E u \in Users : DeleteUser(u)
    <3>1. PICK u \in Users : DeleteUser(u)
      BY <2>6
    <3> HIDE DEF h, g
    <3>2. Len(Story(h)) <= Len(Story(g)) /\ SubSeq(Story(g), 1, Len(Story(h))) = Story(h)
      BY <2>1, <2>4, <3>1, StoryGoesOn
    <3> QED BY <3>2 DEF h, g
  <2>7. \/ history' = history
        \/ \E w \in Workers : CommitChecked(w)
        \/ \E u \in Users : DeleteUser(u)
    <3>1. ASSUME NEW w \in Workers, NEW call \in Calls, Refuse(w, call)
          PROVE  history' = history
      BY <3>1 DEF Refuse
    <3>2. ASSUME NEW w \in Workers, NEW call \in Calls, NEW expected, Admit(w, call, expected)
          PROVE  history' = history
      BY <3>2 DEF Admit
    <3>3. ASSUME NEW w \in Workers, Acquire(w) PROVE history' = history
      BY <3>3 DEF Acquire
    <3>4. ASSUME NEW w \in Workers, Service(w) PROVE history' = history
      BY <3>4 DEF Service, RejectClosed, RejectVersion, RejectTransition, Rollback, Finish,
        ChangeStatus, AssignNothing, Assign, Release, ChangePriority, UpdateDetails,
        AddComment, Stage
    <3>5. ASSUME NEW w \in Workers, Answer(w) \/ Crash(w) \/ CommitFails(w)
          PROVE  history' = history
      BY <3>5 DEF Answer, Crash, CommitFails, Rollback, Finish
    <3>6. ASSUME NEW u \in Users, Deactivate(u) PROVE history' = history
      BY <3>6 DEF Deactivate
    <3> QED BY <3>1, <3>2, <3>3, <3>4, <3>5, <3>6 DEF TurnoverNext, Requests
  <2> QED BY <2>2, <2>5, <2>6, <2>7
<1> QED BY <1>1, TurnoverInvariance, PTL DEF TurnoverSpec, StoryOnlyGrows

-----------------------------------------------------------------------------
(* Who a history last said to hold its ticket, as a relation.              *)
Says(h, name) ==
  \/ Untold(h, "assignee") /\ name = ""
  \/ \E i \in DOMAIN h : LastOf(h, "assignee", i) /\ h[i].new = name

LEMMA SaysIsSaid ==
  ASSUME NEW t \in Tickets, history[t] \in Seq(Events), NEW name, Says(history[t], name)
  PROVE  SaidToHold(t) = name
<1> DEFINE h == history[t]
<1>1. DOMAIN h = 1 .. Len(h) /\ Len(h) \in Nat
  OBVIOUS
<1> HIDE DEF h
<1>2. CASE Untold(h, "assignee")
  <2>1. ASSUME NEW i \in DOMAIN h, LastOf(h, "assignee", i) PROVE FALSE
    BY <1>2, <2>1 DEF Untold, LastOf
  <2>2. name = ""
    BY <2>1 DEF Says, h
  <2> QED BY <1>2, <2>2 DEF SaidToHold, h
<1>3. CASE ~Untold(h, "assignee")
  <2>1. PICK i \in DOMAIN h : LastOf(h, "assignee", i) /\ h[i].new = name
    BY <1>3 DEF Says, h
  <2>2. ASSUME NEW j \in DOMAIN h, LastOf(h, "assignee", j) PROVE j = i
    BY <1>1, <2>1, <2>2 DEF LastOf
  <2>3. (CHOOSE j \in DOMAIN h : LastOf(h, "assignee", j)) = i
    BY <2>1, <2>2
  <2>4. SaidToHold(t) = h[i].new
    BY <1>3, <2>3 DEF SaidToHold, h
  <2> QED BY <2>1, <2>4
<1> QED BY <1>2, <1>3

LEMMA JoinedFields ==
  ASSUME NEW h \in Seq(Events), NEW d \in Seq(Events)
  PROVE  /\ h \o d \in Seq(Events) /\ DOMAIN (h \o d) = 1 .. Len(h) + Len(d)
         /\ DOMAIN h = 1 .. Len(h) /\ DOMAIN d = 1 .. Len(d)
         /\ Len(h) \in Nat /\ Len(d) \in Nat
         /\ \A i \in 1 .. Len(h) : (h \o d)[i] = h[i]
         /\ \A i \in 1 .. Len(d) : (h \o d)[Len(h) + i] = d[i]
         /\ \A i \in 1 .. Len(h) + Len(d) :
              i \in 1 .. Len(h) \/ (i - Len(h) \in 1 .. Len(d) /\ (h \o d)[i] = d[i - Len(h)])
OBVIOUS

(* Entries that are silent about the assignee leave what was said; one     *)
(* that tells of it has the last word.                                     *)
LEMMA SaysAppended ==
  ASSUME NEW h \in Seq(Events), NEW d \in Seq(Events)
  PROVE  /\ \A n : Untold(d, "assignee") /\ Says(h, n) => Says(h \o d, n)
         /\ \A n : \A j \in DOMAIN d :
              LastOf(d, "assignee", j) /\ d[j].new = n => Says(h \o d, n)
<1> DEFINE g == h \o d
<1>1. /\ DOMAIN g = 1 .. Len(h) + Len(d)
      /\ DOMAIN h = 1 .. Len(h) /\ DOMAIN d = 1 .. Len(d)
      /\ Len(h) \in Nat /\ Len(d) \in Nat
      /\ \A i \in 1 .. Len(h) : g[i] = h[i]
      /\ \A i \in 1 .. Len(d) : g[Len(h) + i] = d[i]
      /\ \A i \in 1 .. Len(h) + Len(d) :
           i \in 1 .. Len(h) \/ (i - Len(h) \in 1 .. Len(d) /\ g[i] = d[i - Len(h)])
  BY JoinedFields
<1> HIDE DEF g
<1>2. ASSUME NEW n, Untold(d, "assignee"), Says(h, n) PROVE Says(g, n)
  <2>1. CASE Untold(h, "assignee") /\ n = ""
    <3>1. Untold(g, "assignee")
      BY <1>1, <1>2, <2>1 DEF Untold
    <3> QED BY <2>1, <3>1 DEF Says
  <2>2. CASE \E i \in DOMAIN h : LastOf(h, "assignee", i) /\ h[i].new = n
    <3>1. PICK i \in DOMAIN h : LastOf(h, "assignee", i) /\ h[i].new = n
      BY <2>2
    <3>2. i \in DOMAIN g /\ g[i] = h[i]
      BY <1>1
    <3>3. ASSUME NEW j \in DOMAIN g, j > i PROVE g[j].field # "assignee"
      BY <1>1, <1>2, <3>1, <3>3 DEF Untold, LastOf
    <3>4. LastOf(g, "assignee", i)
      BY <3>1, <3>2, <3>3 DEF LastOf
    <3> QED BY <3>1, <3>2, <3>4 DEF Says
  <2> QED BY <1>2, <2>1, <2>2 DEF Says
<1>3. ASSUME NEW n, NEW j \in DOMAIN d, LastOf(d, "assignee", j), d[j].new = n
      PROVE  Says(g, n)
  <2> DEFINE i == Len(h) + j
  <2>1. i \in DOMAIN g /\ g[i] = d[j] /\ i - Len(h) = j
    BY <1>1
  <2>2. ASSUME NEW k \in DOMAIN g, k > i PROVE g[k].field # "assignee"
    <3>1. k - Len(h) \in DOMAIN d /\ g[k] = d[k - Len(h)] /\ k - Len(h) > j
      BY <1>1, <2>2
    <3> QED BY <1>3, <3>1 DEF LastOf
  <2>3. LastOf(g, "assignee", i)
    BY <1>3, <2>1, <2>2 DEF LastOf
  <2> QED BY <1>3, <2>1, <2>3 DEF Says
<1> QED BY <1>2, <1>3 DEF g

(* What the entries of one transaction say of who holds the ticket r: they *)
(* are silent, and it stays where it was, or the last of them tells where  *)
(* it went.  A ticket that is to wait for its customer has an owner.       *)
Moves(r, m) ==
  LET d == m.events  waits == m.ticket.status = "PENDING_CUSTOMER"
  IN  \/ /\ Untold(d, "assignee") /\ m.ticket.assignee = r.assignee
         /\ waits => r.status \in {"PENDING_CUSTOMER", "IN_PROGRESS"}
      \/ /\ \E j \in DOMAIN d :
              LastOf(d, "assignee", j) /\ d[j].new = Shown(m.ticket.assignee)
         /\ waits => m.ticket.assignee # None

(* The shapes the lists of entries have.                                   *)
LEMMA OneEntry ==
  ASSUME NEW e
  PROVE  /\ e.field # "assignee" => Untold(<<e>>, "assignee")
         /\ e.field = "assignee" => 1 \in DOMAIN <<e>> /\ LastOf(<<e>>, "assignee", 1)
         /\ <<e>>[1] = e
<1> DEFINE s == <<e>>
<1>1. DOMAIN s = {1} /\ s[1] = e
  OBVIOUS
<1> HIDE DEF s
<1>2. e.field # "assignee" => Untold(s, "assignee")
  BY <1>1 DEF Untold
<1>3. e.field = "assignee" => 1 \in DOMAIN s /\ LastOf(s, "assignee", 1)
  BY <1>1 DEF LastOf
<1> QED BY <1>1, <1>2, <1>3 DEF s

LEMMA TwoEntries ==
  ASSUME NEW e, NEW f, f.field # "assignee"
  PROVE  LET s == <<e>> \o <<f>>
         IN  /\ e.field # "assignee" => Untold(s, "assignee")
             /\ e.field = "assignee" => 1 \in DOMAIN s /\ LastOf(s, "assignee", 1)
             /\ s[1] = e
<1> DEFINE s == <<e>> \o <<f>>
<1>1. <<e>> \in Seq({e, f}) /\ <<f>> \in Seq({e, f}) /\ Len(<<e>>) = 1 /\ Len(<<f>>) = 1
  OBVIOUS
<1>2. DOMAIN s = {1, 2} /\ s[1] = e /\ s[2] = f
  BY <1>1
<1> HIDE DEF s
<1>3. e.field # "assignee" => Untold(s, "assignee")
  BY <1>2 DEF Untold
<1>4. e.field = "assignee" => 1 \in DOMAIN s /\ LastOf(s, "assignee", 1)
  BY <1>2 DEF LastOf
<1> QED BY <1>2, <1>3, <1>4 DEF s

LEMMA NoEntry == Untold(<<>>, "assignee")
BY DEF Untold

LEMMA StatusMoves ==
  ASSUME NEW t \in Ticket, NEW actor \in Users, NEW new \in Status,
         IsTransitionAllowed(t.status, new)
  PROVE  Moves(t, StatusMutation(t, actor, new))
<1> DEFINE p == PickUp(t, actor, new)
           m == StatusMutation(t, actor, new)
           f == Event("STATUS_CHANGED", actor, "status", p.ticket.status, new)
<1>1. p.ticket \in Ticket
  BY PickUpType DEF Transaction
<1>2. /\ m.ticket.status = new /\ m.ticket.assignee = p.ticket.assignee
      /\ m.events = p.events \o <<f>>
  BY <1>1 DEF StatusMutation, Save, Mutation, ApplyStatus, Ticket
<1>3. f.field # "assignee"
  BY DEF Event
<1>4. CASE new = "IN_PROGRESS" /\ t.assignee = None
  <2> DEFINE e == Event("ASSIGNED", actor, "assignee", Shown(t.assignee), Shown(actor))
  <2>1. p.ticket.assignee = actor /\ p.events = <<e>>
    BY <1>4 DEF PickUp, ApplyAssignment, Mutation, STATUSES_REQUIRING_ASSIGNEE, Ticket
  <2>2. e.field = "assignee" /\ e.new = Shown(actor)
    BY DEF Event
  <2> DEFINE s == <<e>> \o <<f>>
  <2> HIDE DEF e, f, m
  <2>3. 1 \in DOMAIN s /\ LastOf(s, "assignee", 1) /\ s[1] = e
    BY <1>3, <2>2, TwoEntries
  <2> HIDE DEF s
  <2>4. m.events = s
    BY <1>2, <2>1 DEF s
  <2> QED BY <1>2, <1>4, <2>1, <2>2, <2>3, <2>4 DEF Moves, m
<1>5. CASE ~(new = "IN_PROGRESS" /\ t.assignee = None)
  <2>1. p = Untouched(t)
    BY <1>5 DEF PickUp, STATUSES_REQUIRING_ASSIGNEE
  <2>2. p.events = <<>> /\ m.ticket.assignee = t.assignee
    BY <1>2, <2>1 DEF Untouched, Mutation
  <2>3. new = "PENDING_CUSTOMER" => t.status \in {"PENDING_CUSTOMER", "IN_PROGRESS"}
    BY DEF IsTransitionAllowed, ALLOWED_TRANSITIONS, Ticket, Status
  <2> HIDE DEF f, m
  <2>4. <<>> \o <<f>> = <<f>>
    <3>1. <<f>> \in Seq({f})
      OBVIOUS
    <3> QED BY <3>1
  <2>5. m.events = <<f>>
    BY <1>2, <2>2, <2>4
  <2>6. Untold(m.events, "assignee")
    BY <1>3, <2>5, OneEntry
  <2> QED BY <1>2, <2>2, <2>3, <2>6 DEF Moves, m
<1> QED BY <1>4, <1>5

LEMMA AssignMoves ==
  ASSUME NEW t \in Ticket, NEW actor \in Users, NEW u \in Users
  PROVE  Moves(t, AssignMutation(t, actor, u))
<1> DEFINE m == AssignMutation(t, actor, u)
           e == Event("ASSIGNED", actor, "assignee", Shown(t.assignee), Shown(u))
<1>1. m.ticket.assignee = u /\ m.events = <<e>>
  BY DEF AssignMutation, Save, Mutation, ApplyAssignment, Ticket
<1>2. e.field = "assignee" /\ e.new = Shown(u)
  BY DEF Event
<1> HIDE DEF e, m
<1>3. 1 \in DOMAIN <<e>> /\ LastOf(<<e>>, "assignee", 1) /\ <<e>>[1] = e
  BY <1>2, OneEntry
<1> QED BY <1>1, <1>2, <1>3, NamesAssumption DEF Moves, m

LEMMA ReleaseMoves ==
  ASSUME NEW t \in Ticket, NEW actor \in Users
  PROVE  Moves(t, ReleaseMutation(t, actor))
<1> DEFINE m == ReleaseMutation(t, actor)
           queued == t.status \in STATUSES_RETURNED_TO_QUEUE_ON_RELEASE
           e == Event("UNASSIGNED", actor, "assignee", Shown(t.assignee), "")
           f == Event("STATUS_CHANGED", actor, "status", t.status, "OPEN")
<1>1. /\ m.ticket.assignee = None
      /\ m.ticket.status = IF queued THEN "OPEN" ELSE t.status
      /\ m.events = <<e>> \o (IF queued THEN <<f>> ELSE <<>>)
  BY DEF ReleaseMutation, Save, Mutation, Ticket
<1>2. m.ticket.status # "PENDING_CUSTOMER"
  BY <1>1 DEF STATUSES_RETURNED_TO_QUEUE_ON_RELEASE
<1>3. e.field = "assignee" /\ e.new = Shown(None) /\ f.field # "assignee"
  BY DEF Event, Shown
<1> HIDE DEF m, e, f, queued
<1>4. CASE queued
  <2> DEFINE s == <<e>> \o <<f>>
  <2>1. m.events = s
    BY <1>1, <1>4
  <2>2. 1 \in DOMAIN s /\ LastOf(s, "assignee", 1) /\ s[1] = e
    BY <1>3, TwoEntries
  <2> HIDE DEF s
  <2> QED BY <1>1, <1>2, <1>3, <2>1, <2>2 DEF Moves, m
<1>5. CASE ~queued
  <2>1. <<e>> \o <<>> = <<e>>
    <3>1. <<e>> \in Seq({e})
      OBVIOUS
    <3> QED BY <3>1
  <2>2. m.events = <<e>>
    BY <1>1, <1>5, <2>1
  <2>3. 1 \in DOMAIN <<e>> /\ LastOf(<<e>>, "assignee", 1) /\ <<e>>[1] = e
    BY <1>3, OneEntry
  <2> QED BY <1>1, <1>2, <1>3, <2>2, <2>3 DEF Moves, m
<1> QED BY <1>4, <1>5

(* The other services leave the assignee and its history alone.            *)
LEMMA OthersMove ==
  ASSUME NEW t \in Ticket, NEW actor \in Users
  PROVE  /\ Moves(t, Untouched(t))
         /\ \A p : Moves(t, PriorityMutation(t, actor, p))
         /\ \A call : Moves(t, DetailsMutation(t, actor, call))
         /\ Moves(t, CommentMutation(t, actor))
<1>1. Moves(t, Untouched(t))
  BY NoEntry DEF Moves, Untouched, Mutation
<1>2. ASSUME NEW p PROVE Moves(t, PriorityMutation(t, actor, p))
  <2> DEFINE m == PriorityMutation(t, actor, p)
             e == Event("PRIORITY_CHANGED", actor, "priority", t.priority, p)
  <2>1. /\ m.ticket.assignee = t.assignee /\ m.ticket.status = t.status
        /\ m.events = <<e>>
    BY DEF PriorityMutation, Save, Mutation, Ticket
  <2>2. e.field # "assignee"
    BY DEF Event
  <2> HIDE DEF m, e
  <2>3. Untold(m.events, "assignee")
    BY <2>1, <2>2, OneEntry
  <2> QED BY <2>1, <2>3 DEF Moves, m
<1>3. ASSUME NEW call PROVE Moves(t, DetailsMutation(t, actor, call))
  <2> DEFINE m == DetailsMutation(t, actor, call)
             edited == Edited(t, call)
             e == Event("DETAILS_UPDATED", actor, "subject", t["subject"], call["subject"])
             f == Event("DETAILS_UPDATED", actor, "description", t["description"], call["description"])
             d == (IF "subject" \in edited THEN <<e>> ELSE <<>>)
                  \o (IF "description" \in edited THEN <<f>> ELSE <<>>)
  <2>1. m.ticket.assignee = t.assignee /\ m.ticket.status = t.status /\ m.events = d
    BY DEF DetailsMutation, Save, Mutation, Ticket
  <2>2. e.field # "assignee" /\ f.field # "assignee"
    BY DEF Event
  <2> HIDE DEF m, e, f, edited
  <2>3. Untold(d, "assignee")
    <3>1. <<e>> \in Seq({e, f}) /\ <<f>> \in Seq({e, f}) /\ <<>> \in Seq({e, f})
      OBVIOUS
    <3>2. d \in Seq({e, f})
      BY <3>1, Concatenated
    <3> HIDE DEF d
    <3>3. \A i \in DOMAIN d : d[i] \in {e, f}
      BY <3>2
    <3> QED BY <2>2, <3>3 DEF Untold
  <2> HIDE DEF d
  <2> QED BY <2>1, <2>3 DEF Moves, m
<1>4. Moves(t, CommentMutation(t, actor))
  <2> DEFINE m == CommentMutation(t, actor)
             e == Event("COMMENT_ADDED", actor, "", "", "")
  <2>1. m.ticket = t /\ m.events = <<e>>
    BY DEF CommentMutation, Mutation
  <2>2. e.field # "assignee"
    BY DEF Event
  <2> HIDE DEF m, e
  <2>3. Untold(m.events, "assignee")
    BY <2>1, <2>2, OneEntry
  <2> QED BY <2>1, <2>3 DEF Moves, m
<1> QED BY <1>1, <1>2, <1>3, <1>4

-----------------------------------------------------------------------------
(* What the history of t last said is who holds it, or who held it and has *)
(* no account any more; and somebody is named while it waits.              *)
Heard(t) ==
  \E name :
    /\ Says(history[t], name)
    /\ \/ name = Shown(row[t].assignee)
       \/ row[t].assignee = None /\ \E u \in Users \ accounts : name = DisplayName[u]
    /\ row[t].status = "PENDING_CUSTOMER" => name # ""

OrphanInv ==
  /\ \A t \in Tickets : Heard(t)
  /\ \A w \in Workers : pc[w] = "staged" => Moves(row[TicketOf(w)], txn[w])

LEMMA Named == \A u \in Users : Shown(u) = DisplayName[u] /\ Shown(u) # ""
BY NamesAssumption DEF Shown

LEMMA InitOrphanInv == TurnoverInit => OrphanInv
<1> SUFFICES ASSUME TurnoverInit PROVE OrphanInv
  OBVIOUS
<1>1. PICK intake \in [Tickets -> Intakes] :
        /\ row = [t \in Tickets |-> NewRow(intake[t])]
        /\ history = [t \in Tickets |-> NewHistory(intake[t])]
  BY DEF TurnoverInit, Init
<1>2. ASSUME NEW t \in Tickets PROVE Heard(t)
  <2> DEFINE k == intake[t]
             c == Event("CREATED", k.by, "status", "", "OPEN")
             p == Event("PRIORITY_CHANGED", k.by, "priority", k.reported, k.priority)
             h == history[t]
  <2>1. row[t] = NewRow(k) /\ h = NewHistory(k)
    BY <1>1
  <2>2. row[t].assignee = None /\ row[t].status = "OPEN"
    <3>1. NewRow(k).assignee = None /\ NewRow(k).status = "OPEN"
      BY DEF NewRow
    <3> HIDE DEF k
    <3> QED BY <2>1, <3>1
  <2>3. c.field # "assignee" /\ p.field # "assignee"
    BY DEF Event
  <2>4. h = <<c>> \o (IF k.priority = k.reported THEN <<>> ELSE <<p>>)
    BY <2>1 DEF NewHistory
  <2> HIDE DEF c, p, k, h
  <2>5. h \in Seq({c, p})
    <3>1. <<c>> \in Seq({c, p}) /\ <<p>> \in Seq({c, p}) /\ <<>> \in Seq({c, p})
      OBVIOUS
    <3> QED BY <2>4, <3>1, Concatenated
  <2>6. \A i \in DOMAIN h : h[i] \in {c, p}
    BY <2>5
  <2>7. Untold(h, "assignee")
    BY <2>3, <2>6 DEF Untold
  <2>8. Says(h, "") /\ "" = Shown(None)
    BY <2>7 DEF Says, Shown
  <2> QED BY <2>2, <2>8 DEF Heard, h
<1>3. \A w \in Workers : pc[w] # "staged"
  BY DEF TurnoverInit, Init
<1> QED BY <1>2, <1>3 DEF OrphanInv

(* A step that stages nothing and commits nothing.                         *)
LEMMA NothingMoves ==
  ASSUME OrphanInv, UNCHANGED <<row, history, accounts>>,
         \A v \in Workers : pc'[v] = "staged" =>
           pc[v] = "staged" /\ request'[v] = request[v] /\ txn'[v] = txn[v]
  PROVE  OrphanInv'
<1>1. ASSUME NEW t \in Tickets PROVE Heard(t)'
  <2>1. Heard(t)
    BY DEF OrphanInv
  <2> QED BY <2>1 DEF Heard
<1>2. ASSUME NEW v \in Workers, pc'[v] = "staged"
      PROVE  Moves(row'[TicketOf(v)'], txn'[v])
  BY <1>2 DEF OrphanInv, TicketOf
<1> QED BY <1>1, <1>2 DEF OrphanInv

LEMMA FinishMoves ==
  ASSUME TurnoverInv, OrphanInv, NEW w \in Workers, NEW answer, Finish(w, answer),
         UNCHANGED <<row, history, accounts>>
  PROVE  OrphanInv'
<1>1. \A v \in Workers : pc'[v] = "staged" =>
        pc[v] = "staged" /\ request'[v] = request[v] /\ txn'[v] = txn[v]
  BY DEF Finish, TurnoverInv, WorkersOK
<1> QED BY <1>1, NothingMoves

LEMMA ServiceMoves ==
  ASSUME TurnoverInv, OrphanInv, NEW w \in Workers, Service(w), UNCHANGED accounts
  PROVE  OrphanInv'
<1> DEFINE call == request[w].call
           t == txn[w].ticket
<1>1. pc[w] = "locked"
  BY DEF Service, RejectClosed, RejectVersion, RejectTransition, Runs, ChangeStatus,
    AssignNothing, Assign, Release, ChangePriority, UpdateDetails, AddComment
<1>2. /\ call \in Calls /\ t = row[TicketOf(w)] /\ t \in Ticket
  BY <1>1, TicketLocked DEF TurnoverInv, WorkersOK, Keeps, Untouched, Mutation
<1>3. call.actor \in Users
  BY <1>2, CallFields
<1>4. CASE RejectClosed(w) \/ RejectVersion(w) \/ RejectTransition(w)
  <2>1. PICK code \in {"ticket_closed", "version_conflict", "invalid_transition"} :
          Rollback(w, code)
    BY <1>4 DEF RejectClosed, RejectVersion, RejectTransition
  <2>2. Finish(w, Answered(code, 0)) /\ UNCHANGED <<row, history>>
    BY <2>1 DEF Rollback
  <2> QED BY <2>2, FinishMoves
<1>5. ASSUME NEW m, Moves(t, m), Stage(w, m) PROVE OrphanInv'
  <2>1. /\ UNCHANGED <<row, history, request>> /\ txn'[w] = m
        /\ \A v \in Workers \ {w} : pc'[v] = pc[v] /\ txn'[v] = txn[v]
    BY <1>5 DEF Stage, TurnoverInv, WorkersOK
  <2>2. ASSUME NEW u \in Tickets PROVE Heard(u)'
    <3>1. Heard(u)
      BY DEF OrphanInv
    <3> QED BY <2>1, <3>1 DEF Heard
  <2>3. ASSUME NEW v \in Workers, pc'[v] = "staged"
        PROVE  Moves(row'[TicketOf(v)'], txn'[v])
    <3>1. CASE v = w
      BY <1>2, <1>5, <2>1, <3>1 DEF TicketOf
    <3>2. CASE v # w
      BY <2>1, <2>3, <3>2 DEF TicketOf, OrphanInv
    <3> QED BY <3>1, <3>2
  <2> QED BY <2>2, <2>3 DEF OrphanInv
<1>6. CASE ChangeStatus(w)
  <2> DEFINE m == StatusMutation(t, call.actor, call.status)
  <2>1. call.status \in Status /\ Stage(w, m) /\ IsTransitionAllowed(t.status, call.status)
    BY <1>2, <1>6, CallFields DEF ChangeStatus, Runs
  <2>2. Moves(t, m)
    BY <1>2, <1>3, <2>1, StatusMoves
  <2> HIDE DEF m
  <2> QED BY <1>5, <2>1, <2>2
<1>7. CASE AssignNothing(w)
  <2> DEFINE m == Untouched(t)
  <2>1. Stage(w, m)
    BY <1>7 DEF AssignNothing
  <2>2. Moves(t, m)
    BY <1>2, <1>3, OthersMove
  <2> HIDE DEF m
  <2> QED BY <1>5, <2>1, <2>2
<1>8. CASE Assign(w)
  <2> DEFINE m == AssignMutation(t, call.actor, call.assignee)
  <2>1. call.assignee \in Users /\ Stage(w, m)
    BY <1>2, <1>8, CallFields DEF Assign, Runs
  <2>2. Moves(t, m)
    BY <1>2, <1>3, <2>1, AssignMoves
  <2> HIDE DEF m
  <2> QED BY <1>5, <2>1, <2>2
<1>9. CASE Release(w)
  <2> DEFINE m == ReleaseMutation(t, call.actor)
  <2>1. Stage(w, m)
    BY <1>9 DEF Release
  <2>2. Moves(t, m)
    BY <1>2, <1>3, ReleaseMoves
  <2> HIDE DEF m
  <2> QED BY <1>5, <2>1, <2>2
<1>10. CASE ChangePriority(w)
  <2> DEFINE m == IF call.priority = t.priority THEN Untouched(t)
                  ELSE PriorityMutation(t, call.actor, call.priority)
  <2>1. Stage(w, m)
    BY <1>10 DEF ChangePriority
  <2>2. Moves(t, m)
    BY <1>2, <1>3, OthersMove
  <2> HIDE DEF m
  <2> QED BY <1>5, <2>1, <2>2
<1>11. CASE UpdateDetails(w)
  <2> DEFINE m == IF Edited(t, call) = {} THEN Untouched(t)
                  ELSE DetailsMutation(t, call.actor, call)
  <2>1. Stage(w, m)
    BY <1>11 DEF UpdateDetails
  <2>2. Moves(t, m)
    BY <1>2, <1>3, OthersMove
  <2> HIDE DEF m
  <2> QED BY <1>5, <2>1, <2>2
<1>12. CASE AddComment(w)
  <2> DEFINE m == CommentMutation(t, call.actor)
  <2>1. Stage(w, m)
    BY <1>12 DEF AddComment
  <2>2. Moves(t, m)
    BY <1>2, <1>3, OthersMove
  <2> HIDE DEF m
  <2> QED BY <1>5, <2>1, <2>2
<1> QED BY <1>4, <1>6, <1>7, <1>8, <1>9, <1>10, <1>11, <1>12 DEF Service

(* A commit appends what the transaction says to what the history said.    *)
LEMMA CommitMoves ==
  ASSUME TurnoverInv, OrphanInv, NEW w \in Workers, CommitChecked(w), UNCHANGED accounts
  PROVE  OrphanInv'
<1> DEFINE t == TicketOf(w)
           m == txn[w]
           h == history[t]
           d == m.events
<1>1. /\ pc[w] = "staged" /\ t \in Tickets /\ row[t] \in Ticket /\ Owned(row[t])
  BY TicketLocked DEF CommitChecked
<1>2. m \in Transaction /\ Written(row[t], m) = m.ticket /\ Moves(row[t], m)
  BY <1>1 DEF TurnoverInv, WorkersOK, Keeps, WellFormed, OrphanInv
<1>3. h \in Seq(Events) /\ d \in Seq(Events) /\ m.ticket \in Ticket
  BY <1>1, <1>2 DEF Transaction, TurnoverInv, RowsOK
<1>4. /\ row' = [row EXCEPT ![t] = m.ticket]
      /\ history' = [history EXCEPT ![t] = @ \o m.events]
      /\ pc'[w] = "committed" /\ \A v \in Workers \ {w} : pc'[v] = pc[v]
      /\ UNCHANGED <<request, txn>>
  BY <1>2 DEF CommitChecked, Commit, TurnoverInv, WorkersOK
<1>5. /\ row'[t] = m.ticket /\ history'[t] = h \o d
      /\ \A s \in Tickets \ {t} : row'[s] = row[s] /\ history'[s] = history[s]
  BY <1>1, <1>4 DEF TurnoverInv, RowsOK
<1>6. Heard(t)'
  <2>1. PICK name :
          /\ Says(h, name)
          /\ \/ name = Shown(row[t].assignee)
             \/ row[t].assignee = None /\ \E u \in Users \ accounts : name = DisplayName[u]
          /\ row[t].status = "PENDING_CUSTOMER" => name # ""
    BY <1>1 DEF OrphanInv, Heard
  <2>2. CASE /\ Untold(d, "assignee") /\ m.ticket.assignee = row[t].assignee
             /\ m.ticket.status = "PENDING_CUSTOMER"
                  => row[t].status \in {"PENDING_CUSTOMER", "IN_PROGRESS"}
    <3>1. Says(h \o d, name)
      BY <1>3, <2>1, <2>2, SaysAppended
    <3>2. row[t].status = "IN_PROGRESS" => name # ""
      <4>1. row[t].assignee \in Users \cup {None}
        BY <1>1 DEF Ticket
      <4> QED BY <1>1, <2>1, <4>1, Named DEF Owned
    <3> HIDE DEF t, m, h, d
    <3>3. row'[t].assignee = row[t].assignee
      BY <1>5, <2>2
    <3>4. row'[t].status = "PENDING_CUSTOMER" => name # ""
      BY <1>5, <2>1, <2>2, <3>2
    <3>5. \/ name = Shown(row'[t].assignee)
          \/ row'[t].assignee = None /\ \E u \in Users \ accounts' : name = DisplayName[u]
      BY <2>1, <3>3
    <3>6. Says(history'[t], name)
      BY <1>5, <3>1
    <3>7. TicketOf(w)' = TicketOf(w)
      BY <1>4 DEF TicketOf
    <3> QED BY <3>4, <3>5, <3>6, <3>7 DEF Heard, t
  <2>3. CASE /\ \E j \in DOMAIN d :
                  LastOf(d, "assignee", j) /\ d[j].new = Shown(m.ticket.assignee)
             /\ m.ticket.status = "PENDING_CUSTOMER" => m.ticket.assignee # None
    <3> DEFINE to == Shown(m.ticket.assignee)
    <3>1. Says(h \o d, to)
      <4>1. PICK j \in DOMAIN d : LastOf(d, "assignee", j) /\ d[j].new = to
        BY <2>3
      <4> HIDE DEF h, d, to
      <4> QED BY <1>3, <4>1, SaysAppended
    <3>2. m.ticket.assignee # None => to # ""
      <4>1. m.ticket.assignee \in Users \cup {None}
        BY <1>3 DEF Ticket
      <4> QED BY <4>1, Named
    <3>3. TicketOf(w)' = TicketOf(w)
      BY <1>4 DEF TicketOf
    <3> HIDE DEF m, h, d
    <3>4. Says(history'[t], Shown(row'[t].assignee))
      BY <1>5, <3>1
    <3>5. row'[t].status = "PENDING_CUSTOMER" => Shown(row'[t].assignee) # ""
      BY <1>5, <2>3, <3>2
    <3> QED BY <3>3, <3>4, <3>5 DEF Heard
  <2> QED BY <1>2, <2>2, <2>3 DEF Moves
<1>7. ASSUME NEW s \in Tickets PROVE Heard(s)'
  <2>1. CASE s = t
    <3>1. TicketOf(w)' = TicketOf(w)
      BY <1>4 DEF TicketOf
    <3> QED BY <1>6, <2>1, <3>1
  <2>2. CASE s # t
    <3>1. Heard(s)
      BY DEF OrphanInv
    <3>2. row'[s] = row[s] /\ history'[s] = history[s]
      BY <1>5, <2>2
    <3> HIDE DEF t
    <3> QED BY <3>1, <3>2 DEF Heard
  <2> QED BY <2>1, <2>2
<1>8. ASSUME NEW v \in Workers, pc'[v] = "staged"
      PROVE  Moves(row'[TicketOf(v)'], txn'[v])
  <2>1. v # w /\ pc[v] = "staged"
    BY <1>4, <1>8
  <2>2. TicketOf(v) # t /\ TicketOf(v) \in Tickets
    BY <1>1, <2>1, TicketLocked DEF TurnoverInv, LockMatchesTransaction
  <2>3. TicketOf(v)' = TicketOf(v) /\ row'[TicketOf(v)] = row[TicketOf(v)]
    BY <1>4, <1>5, <2>2 DEF TicketOf
  <2>4. Moves(row[TicketOf(v)], txn[v])
    BY <2>1 DEF OrphanInv
  <2> QED BY <1>4, <2>3, <2>4
<1> QED BY <1>7, <1>8 DEF OrphanInv

(* A deletion does not touch what the history says.                        *)
LEMMA DeleteMoves ==
  ASSUME TurnoverInv, OrphanInv, NEW u \in Users, DeleteUser(u)
  PROVE  OrphanInv'
<1>1. /\ accounts' = accounts \ {u} /\ u \in accounts
      /\ row' = [t \in Tickets |->
           IF t \in Assigned(u) THEN [row[t] EXCEPT !.assignee = None] ELSE row[t]]
      /\ history' = [t \in Tickets |-> Anonymised(u, history[t])]
      /\ UNCHANGED <<lock, pc, request, txn>>
  BY DEF DeleteUser
<1>2. ASSUME NEW t \in Tickets, NEW name, Says(history[t], name)
      PROVE  Says(history'[t], name)
  <2> DEFINE h == history[t]
             g == history'[t]
  <2>1. h \in Seq(Events)
    BY DEF TurnoverInv, RowsOK
  <2>2. DOMAIN h = 1 .. Len(h) /\ \A i \in DOMAIN h : h[i] \in Events
    BY <2>1
  <2>3. g = [i \in DOMAIN h |->
                IF h[i].actor = u THEN [h[i] EXCEPT !.actor = None] ELSE h[i]]
    BY <1>1 DEF Anonymised
  <2> HIDE DEF g, h
  <2>4. DOMAIN g = DOMAIN h
    BY <2>3
  <2>5. ASSUME NEW i \in DOMAIN h PROVE g[i].field = h[i].field /\ g[i].new = h[i].new
    <3>1. g[i] = IF h[i].actor = u THEN [h[i] EXCEPT !.actor = None] ELSE h[i]
      BY <2>3
    <3> QED BY <2>2, <3>1 DEF Events
  <2>6. Says(h, name)
    BY <1>2 DEF h
  <2>7. Says(g, name)
    BY <2>4, <2>5, <2>6 DEF Says, Untold, LastOf
  <2> QED BY <2>7 DEF g
<1>3. ASSUME NEW t \in Tickets PROVE Heard(t)'
  <2>1. PICK name :
          /\ Says(history[t], name)
          /\ \/ name = Shown(row[t].assignee)
             \/ row[t].assignee = None /\ \E v \in Users \ accounts : name = DisplayName[v]
          /\ row[t].status = "PENDING_CUSTOMER" => name # ""
    BY DEF OrphanInv, Heard
  <2>2. Says(history'[t], name)
    BY <1>2, <2>1
  <2>3. row[t] \in Ticket
    BY DEF TurnoverInv, RowsOK
  <2>4. CASE t \in Assigned(u)
    <3>1. row'[t] = [row[t] EXCEPT !.assignee = None]
      BY <1>1, <2>4
    <3>2. row'[t].status = row[t].status /\ row'[t].assignee = None
      BY <2>3, <3>1 DEF Ticket
    <3>3. row[t].assignee = u /\ u # None
      BY <2>4, NamesAssumption DEF Assigned
    <3>4. name = DisplayName[u]
      BY <2>1, <3>3, Named
    <3>5. u \in Users \ accounts'
      BY <1>1
    <3> QED BY <2>1, <2>2, <3>2, <3>4, <3>5 DEF Heard
  <2>5. CASE t \notin Assigned(u)
    <3>1. row'[t] = row[t]
      BY <1>1, <2>5
    <3>2. \A v \in Users \ accounts : v \in Users \ accounts'
      BY <1>1
    <3> QED BY <2>1, <2>2, <3>1, <3>2 DEF Heard
  <2> QED BY <2>4, <2>5
<1>4. ASSUME NEW v \in Workers, pc'[v] = "staged"
      PROVE  Moves(row'[TicketOf(v)'], txn'[v])
  <2>1. pc[v] = "staged" /\ TicketOf(v)' = TicketOf(v) /\ txn'[v] = txn[v]
    BY <1>1, <1>4 DEF TicketOf
  <2>2. TicketOf(v) \in Tickets /\ lock[TicketOf(v)] = v
    BY <2>1, TicketLocked
  <2>3. TicketOf(v) \notin Assigned(u)
    BY <2>2, StaffAssumption DEF DeleteUser, Releasable
  <2>4. row'[TicketOf(v)] = row[TicketOf(v)]
    BY <1>1, <2>2, <2>3
  <2>5. Moves(row[TicketOf(v)], txn[v])
    BY <2>1 DEF OrphanInv
  <2> QED BY <2>1, <2>4, <2>5
<1> QED BY <1>3, <1>4 DEF OrphanInv

LEMMA NextOrphanInv ==
  TurnoverInv /\ OrphanInv /\ [TurnoverNext]_turnoverVars => OrphanInv'
<1> SUFFICES ASSUME TurnoverInv, OrphanInv, [TurnoverNext]_turnoverVars PROVE OrphanInv'
  OBVIOUS
<1>1. ASSUME NEW u \in Users, DeleteUser(u) PROVE OrphanInv'
  BY <1>1, DeleteMoves
<1>2. CASE Requests /\ UNCHANGED accounts
  <2>1. ASSUME NEW w \in Workers, NEW call \in Calls,
               NEW expected \in ExpectedVersions(call), Admit(w, call, expected)
        PROVE  OrphanInv'
    <3>1. /\ UNCHANGED <<row, history, txn>>
          /\ \A v \in Workers : pc'[v] = "staged" =>
               pc[v] = "staged" /\ request'[v] = request[v]
      BY <2>1 DEF Admit, TurnoverInv, WorkersOK
    <3> QED BY <1>2, <3>1, NothingMoves
  <2>2. ASSUME NEW w \in Workers, Acquire(w) PROVE OrphanInv'
    <3>1. /\ UNCHANGED <<row, history, request>>
          /\ \A v \in Workers : pc'[v] = "staged" =>
               pc[v] = "staged" /\ txn'[v] = txn[v]
      BY <2>2 DEF Acquire, TurnoverInv, WorkersOK
    <3> QED BY <1>2, <3>1, NothingMoves
  <2>3. ASSUME NEW w \in Workers, Service(w) \/ CommitChecked(w) PROVE OrphanInv'
    BY <1>2, <2>3, ServiceMoves, CommitMoves
  <2>4. ASSUME NEW w \in Workers, Answer(w) \/ Crash(w) \/ CommitFails(w) PROVE OrphanInv'
    <3>1. PICK answer : Finish(w, answer)
      BY <2>4 DEF Answer, Crash, CommitFails, Rollback
    <3>2. UNCHANGED <<row, history>>
      BY <2>4 DEF Answer, Crash, CommitFails, Rollback
    <3> QED BY <1>2, <3>1, <3>2, FinishMoves
  <2>5. ASSUME UNCHANGED <<row, history, pc, request, txn>> PROVE OrphanInv'
    BY <1>2, <2>5, NothingMoves
  <2>6. ASSUME NEW w \in Workers, NEW call \in Calls, Refuse(w, call) PROVE OrphanInv'
    BY <2>5, <2>6 DEF Refuse
  <2>7. ASSUME NEW u \in Users, Deactivate(u) PROVE OrphanInv'
    BY <2>5, <2>7 DEF Deactivate
  <2> QED BY <1>2, <2>1, <2>2, <2>3, <2>4, <2>6, <2>7 DEF Requests
<1>3. CASE UNCHANGED turnoverVars
  BY <1>3, NothingMoves DEF turnoverVars
<1> QED BY <1>1, <1>2, <1>3 DEF TurnoverNext

LEMMA HeardIsTold ==
  TurnoverInv /\ OrphanInv => OnlyDeletionOrphans
<1> SUFFICES ASSUME TurnoverInv, OrphanInv, NEW t \in Tickets
             PROVE  /\ \/ SaidToHold(t) = Shown(row[t].assignee)
                       \/ /\ row[t].assignee = None
                          /\ \E u \in Users \ accounts : SaidToHold(t) = DisplayName[u]
                    /\ row[t].status = "PENDING_CUSTOMER" => SaidToHold(t) # ""
  BY DEF OnlyDeletionOrphans
<1>1. PICK name :
        /\ Says(history[t], name)
        /\ \/ name = Shown(row[t].assignee)
           \/ row[t].assignee = None /\ \E u \in Users \ accounts : name = DisplayName[u]
        /\ row[t].status = "PENDING_CUSTOMER" => name # ""
  BY DEF OrphanInv, Heard
<1>2. SaidToHold(t) = name
  BY <1>1, SaysIsSaid DEF TurnoverInv, RowsOK
<1> QED BY <1>1, <1>2

(* A ticket nobody holds, and whose history says otherwise, was taken from *)
(* an account that was deleted; and the history of a ticket that waits for *)
(* its customer names somebody.                                            *)
THEOREM OnlyDeletionsOrphan == TurnoverSpec => []OnlyDeletionOrphans
<1>1. TurnoverSpec => []OrphanInv
  BY InitOrphanInv, NextOrphanInv, TurnoverInvariance, PTL DEF TurnoverSpec
<1> QED BY <1>1, HeardIsTold, TurnoverInvariance, PTL
=============================================================================
