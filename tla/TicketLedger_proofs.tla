------------------------- MODULE TicketLedger_proofs -------------------------
(***************************************************************************)
(* The history tells the ticket, for any staff, any tickets, any number of *)
(* workers and any requests; and the API implements TicketLedger.          *)
(*                                                                         *)
(* The argument: what a service did to the ticket it read is a step of the *)
(* ledger (one lemma per service); it still is when it is committed, for   *)
(* the row has not changed since it was locked; and a step of the ledger   *)
(* appends entries that start where the ticket was and end where it is.    *)
(***************************************************************************)
EXTENDS TicketApi_proofs, SequenceTheorems

(* What m did to t, as the ledger sees it: nothing, a remark, or a move.   *)
Quiet(t, m) == m.ticket = t /\ m.events = <<>>

Remarked(t, m) ==
  /\ m.ticket = t
  /\ \E by \in Users : m.events = <<Event("COMMENT_ADDED", by, "", "", "")>>

MovedBy(t, m, by, move) ==
  LET s == Visible(t)
      next == Visible(m.ticket)
      moved == {move[i] : i \in DOMAIN move}
  IN  /\ Ledger!Distinct(move)
      /\ \A f \in moved : Ledger!CanMove(s, f, next[f])
      /\ \A f \in Ledger!Field \ moved : next[f] = s[f]
      /\ m.events = [i \in DOMAIN move |-> Ledger!Entry(s, by, move[i], next[move[i]])]

Moved(t, m) ==
  /\ m.ticket.version = t.version + 1
  /\ \E by \in Users, move \in Ledger!Moves : MovedBy(t, m, by, move)

Ledgered(t, m) == Quiet(t, m) \/ Remarked(t, m) \/ Moved(t, m)

LEMMA OneMove ==
  ASSUME NEW t, NEW m, NEW by \in Users, NEW f \in Ledger!Field,
         m.ticket.version = t.version + 1,
         Ledger!CanMove(Visible(t), f, Visible(m.ticket)[f]),
         \A g \in Ledger!Field \ {f} : Visible(m.ticket)[g] = Visible(t)[g],
         m.events = <<Ledger!Entry(Visible(t), by, f, Visible(m.ticket)[f])>>
  PROVE  Moved(t, m)
<1> DEFINE move == <<f>>
           s == Visible(t)
           next == Visible(m.ticket)
           E(g) == Ledger!Entry(s, by, g, next[g])
<1>1. move \in Ledger!Moves
  BY DEF Ledger!Moves
<1>2. DOMAIN move = {1} /\ move[1] = f /\ {move[i] : i \in DOMAIN move} = {f}
  OBVIOUS
<1>3. Ledger!Distinct(move)
  BY <1>2 DEF Ledger!Distinct
<1>4. m.events = [i \in DOMAIN move |-> E(move[i])]
  <2> HIDE DEF E
  <2>1. <<E(f)>> = [i \in DOMAIN move |-> E(move[i])]
    BY <1>2
  <2> QED BY <2>1 DEF E
<1>5. MovedBy(t, m, by, move)
  <2> HIDE DEF move
  <2> QED BY <1>2, <1>3, <1>4 DEF MovedBy
<1> QED BY <1>1, <1>5 DEF Moved

LEMMA TwoMoves ==
  ASSUME NEW t, NEW m, NEW by \in Users,
         NEW f \in Ledger!Field, NEW g \in Ledger!Field, f # g,
         m.ticket.version = t.version + 1,
         Ledger!CanMove(Visible(t), f, Visible(m.ticket)[f]),
         Ledger!CanMove(Visible(t), g, Visible(m.ticket)[g]),
         \A h \in Ledger!Field \ {f, g} : Visible(m.ticket)[h] = Visible(t)[h],
         m.events = <<Ledger!Entry(Visible(t), by, f, Visible(m.ticket)[f]),
                      Ledger!Entry(Visible(t), by, g, Visible(m.ticket)[g])>>
  PROVE  Moved(t, m)
<1> DEFINE move == <<f, g>>
           s == Visible(t)
           next == Visible(m.ticket)
           E(h) == Ledger!Entry(s, by, h, next[h])
<1>1. move \in Ledger!Moves
  BY DEF Ledger!Moves
<1>2. /\ DOMAIN move = {1, 2} /\ move[1] = f /\ move[2] = g
      /\ {move[i] : i \in DOMAIN move} = {f, g}
  OBVIOUS
<1>3. Ledger!Distinct(move)
  BY <1>2 DEF Ledger!Distinct
<1>4. m.events = [i \in DOMAIN move |-> E(move[i])]
  <2> HIDE DEF E
  <2>1. <<E(f), E(g)>> = [i \in DOMAIN move |-> E(move[i])]
    BY <1>2
  <2> QED BY <2>1 DEF E
<1>5. MovedBy(t, m, by, move)
  <2> HIDE DEF move
  <2> QED BY <1>2, <1>3, <1>4 DEF MovedBy
<1> QED BY <1>1, <1>5 DEF Moved

(* The name of a user is not the name of nobody.                           *)
LEMMA ShownNobody ==
  ASSUME NEW u \in Users \cup {None}
  PROVE  (Shown(u) = "") <=> (u = None)
BY NamesAssumption DEF Shown

(* The ledger speaks of the same statuses, priorities and transitions.     *)
LEMMA SameDomain ==
  /\ Ledger!Status = Status /\ Ledger!Priority = Priority
  /\ \A a, b : Ledger!IsTransitionAllowed(a, b) <=> IsTransitionAllowed(a, b)
  /\ \A a : Ledger!IsTerminal(a) <=> IsTerminal(a)
BY DEF Ledger!Status, Status, Ledger!Priority, Priority, Ledger!IsTransitionAllowed,
  IsTransitionAllowed, Ledger!IsTerminal, IsTerminal, Ledger!ALLOWED_TRANSITIONS,
  ALLOWED_TRANSITIONS

LEMMA Joined ==
  ASSUME NEW a, NEW b
  PROVE  <<>> \o <<a>> = <<a>> /\ <<a>> \o <<b>> = <<a, b>>
<1> DEFINE S == {a, b}
<1>1. <<a>> \in Seq(S) /\ <<b>> \in Seq(S) /\ <<a, b>> \in Seq(S)
  OBVIOUS
<1>2. <<>> \o <<a>> = <<a>>
  BY <1>1, ConcatEmptySeq
<1>3. /\ <<a>> \o <<b>> \in Seq(S)
      /\ Len(<<a>> \o <<b>>) = 2
      /\ \A i \in 1 .. 2 : (<<a>> \o <<b>>)[i] = <<a, b>>[i]
  <2>1. Len(<<a>>) = 1 /\ Len(<<b>>) = 1 /\ <<a>>[1] = a /\ <<b>>[1] = b
    OBVIOUS
  <2>2. <<a, b>>[1] = a /\ <<a, b>>[2] = b
    OBVIOUS
  <2> HIDE DEF S
  <2>3. /\ <<a>> \o <<b>> \in Seq(S)
        /\ Len(<<a>> \o <<b>>) = Len(<<a>>) + Len(<<b>>)
        /\ \A i \in 1 .. Len(<<a>>) + Len(<<b>>) : (<<a>> \o <<b>>)[i] =
             IF i <= Len(<<a>>) THEN <<a>>[i] ELSE <<b>>[i - Len(<<a>>)]
    BY <1>1, ConcatProperties
  <2> QED BY <2>1, <2>2, <2>3
<1>4. <<a>> \o <<b>> = <<a, b>>
  <2>1. Len(<<a, b>>) = 2
    OBVIOUS
  <2> HIDE DEF S
  <2> QED BY <1>1, <1>3, <2>1, SeqEqual
<1> QED BY <1>2, <1>4

(* No status can be moved to itself.                                       *)
LEMMA TransitionsMove ==
  ASSUME NEW status \in Status, NEW new, IsTransitionAllowed(status, new)
  PROVE  new \in Status /\ new # status
BY DEF IsTransitionAllowed, ALLOWED_TRANSITIONS, Status

-----------------------------------------------------------------------------
(* One lemma per service: what it does is a step of the ledger.            *)
LEMMA StatusLedgered ==
  ASSUME NEW t \in Ticket, NEW actor \in Users, NEW new \in Status,
         IsTransitionAllowed(t.status, new)
  PROVE  Moved(t, StatusMutation(t, actor, new))
<1> DEFINE m == StatusMutation(t, actor, new)
           s == Visible(t)
           next == Visible(m.ticket)
<1>1. CASE new = "IN_PROGRESS" /\ t.assignee = None
  <2>1. /\ m.ticket.version = t.version + 1
        /\ m.ticket.status = new /\ m.ticket.assignee = actor
        /\ m.ticket.priority = t.priority
        /\ m.ticket.subject = t.subject /\ m.ticket.description = t.description
    BY <1>1 DEF StatusMutation, PickUp, ApplyAssignment, ApplyStatus, Save, Mutation,
      STATUSES_REQUIRING_ASSIGNEE, Ticket
  <2>2. m.events = <<Event("ASSIGNED", actor, "assignee", Shown(t.assignee), Shown(actor))>>
                   \o <<Event("STATUS_CHANGED", actor, "status", t.status, new)>>
    BY <1>1 DEF StatusMutation, PickUp, ApplyAssignment, ApplyStatus, Save, Mutation,
      STATUSES_REQUIRING_ASSIGNEE, Ticket
  <2>3. /\ Ledger!Entry(s, actor, "assignee", next["assignee"])
             = Event("ASSIGNED", actor, "assignee", Shown(t.assignee), Shown(actor))
        /\ Ledger!Entry(s, actor, "status", next["status"])
             = Event("STATUS_CHANGED", actor, "status", t.status, new)
    BY <2>1, ShownNobody, NamesAssumption DEF Ledger!Entry, Ledger!Kind, Event, Visible
  <2>4. /\ Ledger!CanMove(s, "assignee", next["assignee"])
        /\ Ledger!CanMove(s, "status", next["status"])
    BY <2>1, ShownType, TransitionsMove, SameDomain DEF Ticket, Ledger!CanMove, Ledger!ValuesOf, Visible
  <2>5. \A h \in Ledger!Field \ {"assignee", "status"} : next[h] = s[h]
    BY <2>1 DEF Ledger!Field, Visible
  <2>6. "assignee" \in Ledger!Field /\ "status" \in Ledger!Field
    BY DEF Ledger!Field
  <2>7. m.events = <<Ledger!Entry(s, actor, "assignee", next["assignee"]),
                     Ledger!Entry(s, actor, "status", next["status"])>>
    BY <2>2, <2>3, Joined
  <2> HIDE DEF m
  <2>8. Moved(t, m)
    BY <2>1, <2>4, <2>5, <2>6, <2>7, TwoMoves
  <2> QED BY <2>8 DEF m
<1>2. CASE ~(new = "IN_PROGRESS" /\ t.assignee = None)
  <2>1. /\ m.ticket.version = t.version + 1
        /\ m.ticket.status = new /\ m.ticket.assignee = t.assignee
        /\ m.ticket.priority = t.priority
        /\ m.ticket.subject = t.subject /\ m.ticket.description = t.description
    BY <1>2 DEF StatusMutation, PickUp, Untouched, ApplyStatus, Save, Mutation,
      STATUSES_REQUIRING_ASSIGNEE, Ticket
  <2>2. m.events = <<>> \o <<Event("STATUS_CHANGED", actor, "status", t.status, new)>>
    BY <1>2 DEF StatusMutation, PickUp, Untouched, ApplyStatus, Save, Mutation,
      STATUSES_REQUIRING_ASSIGNEE, Ticket
  <2>3. Ledger!Entry(s, actor, "status", next["status"])
          = Event("STATUS_CHANGED", actor, "status", t.status, new)
    BY <2>1 DEF Ledger!Entry, Ledger!Kind, Event, Visible
  <2>4. Ledger!CanMove(s, "status", next["status"])
    BY <2>1, TransitionsMove, SameDomain DEF Ticket, Ledger!CanMove, Ledger!ValuesOf, Visible
  <2>5. \A h \in Ledger!Field \ {"status"} : next[h] = s[h]
    BY <2>1 DEF Ledger!Field, Visible
  <2>6. "status" \in Ledger!Field
    BY DEF Ledger!Field
  <2>7. m.events = <<Ledger!Entry(s, actor, "status", next["status"])>>
    BY <2>2, <2>3, Joined
  <2> HIDE DEF m
  <2>8. Moved(t, m)
    BY <2>1, <2>4, <2>5, <2>6, <2>7, OneMove
  <2> QED BY <2>8 DEF m
<1> QED BY <1>1, <1>2

LEMMA AssignLedgered ==
  ASSUME NEW t \in Ticket, NEW actor \in Users, NEW assignee \in Users
  PROVE  Moved(t, AssignMutation(t, actor, assignee))
<1> DEFINE m == AssignMutation(t, actor, assignee)
           s == Visible(t)
           next == Visible(m.ticket)
<1>1. /\ m.ticket.version = t.version + 1
      /\ m.ticket.status = t.status /\ m.ticket.assignee = assignee
      /\ m.ticket.priority = t.priority
      /\ m.ticket.subject = t.subject /\ m.ticket.description = t.description
  BY DEF AssignMutation, ApplyAssignment, Save, Mutation, Ticket
<1>2. m.events = <<Event("ASSIGNED", actor, "assignee", Shown(t.assignee), Shown(assignee))>>
  BY DEF AssignMutation, ApplyAssignment, Save, Mutation
<1>3. Ledger!Entry(s, actor, "assignee", next["assignee"])
        = Event("ASSIGNED", actor, "assignee", Shown(t.assignee), Shown(assignee))
  BY <1>1, ShownNobody, NamesAssumption DEF Ledger!Entry, Ledger!Kind, Event, Visible
<1>4. Ledger!CanMove(s, "assignee", next["assignee"])
  BY <1>1, ShownType DEF Ledger!CanMove, Ledger!ValuesOf, Visible
<1>5. \A h \in Ledger!Field \ {"assignee"} : next[h] = s[h]
  BY <1>1 DEF Ledger!Field, Visible
<1>6. "assignee" \in Ledger!Field
  BY DEF Ledger!Field
<1> HIDE DEF m
<1>7. m.events = <<Ledger!Entry(s, actor, "assignee", next["assignee"])>>
  BY <1>2, <1>3
<1>8. Moved(t, m)
  BY <1>1, <1>4, <1>5, <1>6, <1>7, OneMove
<1> QED BY <1>8 DEF m

LEMMA ReleaseLedgered ==
  ASSUME NEW t \in Ticket, NEW actor \in Users, t.assignee # None
  PROVE  Moved(t, ReleaseMutation(t, actor))
<1> DEFINE m == ReleaseMutation(t, actor)
           s == Visible(t)
           next == Visible(m.ticket)
           queued == t.status \in STATUSES_RETURNED_TO_QUEUE_ON_RELEASE
<1>1. /\ m.ticket.version = t.version + 1
      /\ m.ticket.assignee = None
      /\ m.ticket.status = IF queued THEN "OPEN" ELSE t.status
      /\ m.ticket.priority = t.priority
      /\ m.ticket.subject = t.subject /\ m.ticket.description = t.description
  BY DEF ReleaseMutation, Save, Mutation, Ticket
<1>2. m.events = <<Event("UNASSIGNED", actor, "assignee", Shown(t.assignee), "")>> \o
                 (IF queued THEN <<Event("STATUS_CHANGED", actor, "status", t.status, "OPEN")>>
                  ELSE <<>>)
  BY DEF ReleaseMutation, Save, Mutation
<1>3. Ledger!Entry(s, actor, "assignee", next["assignee"])
        = Event("UNASSIGNED", actor, "assignee", Shown(t.assignee), "")
  BY <1>1, ShownNobody DEF Ledger!Entry, Ledger!Kind, Event, Visible
<1>4. Ledger!CanMove(s, "assignee", next["assignee"])
  BY <1>1, ShownNobody DEF Ledger!CanMove, Ledger!ValuesOf, Visible
<1>5. \A h \in Ledger!Field \ {"assignee", "status"} : next[h] = s[h]
  BY <1>1 DEF Ledger!Field, Visible
<1>6. "assignee" \in Ledger!Field /\ "status" \in Ledger!Field
  BY DEF Ledger!Field
<1>7. CASE queued
  <2>1. Ledger!Entry(s, actor, "status", next["status"])
          = Event("STATUS_CHANGED", actor, "status", t.status, "OPEN")
    BY <1>1, <1>7 DEF Ledger!Entry, Ledger!Kind, Event, Visible
  <2>2. Ledger!CanMove(s, "status", next["status"])
    BY <1>1, <1>7, SameDomain DEF Ledger!CanMove, Ledger!ValuesOf, Visible, Status,
      IsTransitionAllowed, ALLOWED_TRANSITIONS, STATUSES_RETURNED_TO_QUEUE_ON_RELEASE
  <2>3. m.events = <<Ledger!Entry(s, actor, "assignee", next["assignee"]),
                     Ledger!Entry(s, actor, "status", next["status"])>>
    BY <1>2, <1>3, <1>7, <2>1, Joined
  <2> HIDE DEF m
  <2>4. Moved(t, m)
    BY <1>1, <1>4, <1>5, <1>6, <2>2, <2>3, TwoMoves
  <2> QED BY <2>4 DEF m
<1>8. CASE ~queued
  <2>1. next["status"] = s["status"]
    BY <1>1, <1>8 DEF Visible
  <2>2. m.events = <<Ledger!Entry(s, actor, "assignee", next["assignee"])>>
    <3> DEFINE e == Event("UNASSIGNED", actor, "assignee", Shown(t.assignee), "")
    <3>1. m.events = <<e>> \o <<>>
      BY <1>2, <1>8
    <3> HIDE DEF e, m
    <3>2. <<e>> \o <<>> = <<e>>
      BY Single, ConcatEmptySeq
    <3> QED BY <1>3, <3>1, <3>2 DEF e
  <2> HIDE DEF m
  <2>3. Moved(t, m)
    BY <1>1, <1>4, <1>5, <1>6, <2>1, <2>2, OneMove
  <2> QED BY <2>3 DEF m
<1> QED BY <1>7, <1>8

LEMMA PriorityLedgered ==
  ASSUME NEW t \in Ticket, NEW actor \in Users, NEW new \in Priority, new # t.priority
  PROVE  Moved(t, PriorityMutation(t, actor, new))
<1> DEFINE m == PriorityMutation(t, actor, new)
           s == Visible(t)
           next == Visible(m.ticket)
<1>1. /\ m.ticket.version = t.version + 1
      /\ m.ticket.status = t.status /\ m.ticket.assignee = t.assignee
      /\ m.ticket.priority = new
      /\ m.ticket.subject = t.subject /\ m.ticket.description = t.description
  BY DEF PriorityMutation, Save, Mutation, Ticket
<1>2. m.events = <<Event("PRIORITY_CHANGED", actor, "priority", t.priority, new)>>
  BY DEF PriorityMutation, Save, Mutation
<1>3. Ledger!Entry(s, actor, "priority", next["priority"])
        = Event("PRIORITY_CHANGED", actor, "priority", t.priority, new)
  BY <1>1 DEF Ledger!Entry, Ledger!Kind, Event, Visible
<1>4. Ledger!CanMove(s, "priority", next["priority"])
  BY <1>1, SameDomain DEF Ledger!CanMove, Ledger!ValuesOf, Visible
<1>5. \A h \in Ledger!Field \ {"priority"} : next[h] = s[h]
  BY <1>1 DEF Ledger!Field, Visible
<1>6. "priority" \in Ledger!Field
  BY DEF Ledger!Field
<1> HIDE DEF m
<1>7. m.events = <<Ledger!Entry(s, actor, "priority", next["priority"])>>
  BY <1>2, <1>3
<1>8. Moved(t, m)
  BY <1>1, <1>4, <1>5, <1>6, <1>7, OneMove
<1> QED BY <1>8 DEF m

LEMMA DetailsLedgered ==
  ASSUME NEW t \in Ticket, NEW actor \in Users, NEW call,
         call.subject \in Texts \cup {None}, call.description \in Texts \cup {None},
         Edited(t, call) # {}
  PROVE  Moved(t, DetailsMutation(t, actor, call))
<1> DEFINE m == DetailsMutation(t, actor, call)
           s == Visible(t)
           next == Visible(m.ticket)
           E(f) == Ledger!Entry(s, actor, f, next[f])
           Edit(f) == IF f \in Edited(t, call)
                      THEN <<Event("DETAILS_UPDATED", actor, f, t[f], call[f])>>
                      ELSE <<>>
<1>1. /\ m.ticket.version = t.version + 1
      /\ m.ticket.status = t.status /\ m.ticket.assignee = t.assignee
      /\ m.ticket.priority = t.priority
      /\ m.ticket.subject = IF "subject" \in Edited(t, call) THEN call["subject"]
                            ELSE t["subject"]
      /\ m.ticket.description = IF "description" \in Edited(t, call)
                                THEN call["description"] ELSE t["description"]
  BY DEF DetailsMutation, Save, Mutation, Ticket
<1>2. m.events = Edit("subject") \o Edit("description")
  BY DEF DetailsMutation, Save, Mutation
<1>3. \A f \in {"subject", "description"} : f \in Edited(t, call) =>
        /\ E(f) = Event("DETAILS_UPDATED", actor, f, t[f], call[f])
        /\ Ledger!CanMove(s, f, next[f])
  <2> DEFINE edited == Edited(t, call)
  <2>1. \A f \in {"subject", "description"} : f \in edited =>
          call[f] \in Texts /\ call[f] # t[f]
    BY DEF Edited
  <2>2. \A f \in {"subject", "description"} : f \in edited =>
          next[f] = call[f] /\ s[f] = t[f]
    BY <1>1 DEF Visible
  <2> HIDE DEF edited, s, next
  <2>3. \A f \in {"subject", "description"} : f \in edited =>
          Ledger!CanMove(s, f, next[f])
    BY <2>1, <2>2 DEF Ledger!CanMove, Ledger!ValuesOf
  <2>4. \A f \in {"subject", "description"} : f \in edited =>
          E(f) = Event("DETAILS_UPDATED", actor, f, t[f], call[f])
    BY <2>2 DEF Ledger!Entry, Ledger!Kind, Event
  <2> QED BY <2>3, <2>4 DEF edited
<1>4. /\ \A h \in Ledger!Field \ {"subject", "description"} : next[h] = s[h]
      /\ "subject" \notin Edited(t, call) => next["subject"] = s["subject"]
      /\ "description" \notin Edited(t, call) => next["description"] = s["description"]
  BY <1>1 DEF Ledger!Field, Visible
<1>5. "subject" \in Ledger!Field /\ "description" \in Ledger!Field
  BY DEF Ledger!Field
<1>6. Edited(t, call) \in {{"subject"}, {"description"}, {"subject", "description"}}
  BY DEF Edited
<1> HIDE DEF m, E
<1>7. CASE Edited(t, call) = {"subject"}
  <2>1. m.events = <<E("subject")>> \o <<>>
    BY <1>2, <1>3, <1>7
  <2>2. m.events = <<E("subject")>>
    BY <2>1, Single, ConcatEmptySeq
  <2>3. \A h \in Ledger!Field \ {"subject"} : next[h] = s[h]
    BY <1>4, <1>7
  <2>4. Moved(t, m)
    BY <1>1, <1>3, <1>5, <1>7, <2>2, <2>3, OneMove DEF E
  <2> QED BY <2>4 DEF m
<1>8. CASE Edited(t, call) = {"description"}
  <2>1. m.events = <<>> \o <<E("description")>>
    BY <1>2, <1>3, <1>8
  <2>2. m.events = <<E("description")>>
    BY <2>1, Joined
  <2>3. \A h \in Ledger!Field \ {"description"} : next[h] = s[h]
    BY <1>4, <1>8
  <2>4. Moved(t, m)
    BY <1>1, <1>3, <1>5, <1>8, <2>2, <2>3, OneMove DEF E
  <2> QED BY <2>4 DEF m
<1>9. CASE Edited(t, call) = {"subject", "description"}
  <2>1. m.events = <<E("subject")>> \o <<E("description")>>
    BY <1>2, <1>3, <1>9
  <2>2. m.events = <<E("subject"), E("description")>>
    BY <2>1, Joined
  <2>3. Moved(t, m)
    BY <1>1, <1>3, <1>4, <1>5, <1>9, <2>2, TwoMoves DEF E
  <2> QED BY <2>3 DEF m
<1> QED BY <1>6, <1>7, <1>8, <1>9

-----------------------------------------------------------------------------
(* What is staged is a step of the ledger, from the row as it is.          *)
StepsInv ==
  \A w \in Workers :
    pc[w] = "staged" => Ledgered(row[TicketOf(w)], txn[w])

LEMMA LockedCopy ==
  ASSUME IInv, NEW w \in Workers, pc[w] = "locked"
  PROVE  /\ request[w].call \in Calls /\ TicketOf(w) \in Tickets
         /\ txn[w].ticket = row[TicketOf(w)] /\ txn[w].ticket \in Ticket
<1>1. request[w] \in Request
  BY DEF IInv, TypeOK
<1>2. request[w].call \in Calls /\ TicketOf(w) \in Tickets
  BY <1>1, CallFields DEF Request, TicketOf
<1>3. txn[w] = Untouched(row[TicketOf(w)])
  BY DEF IInv, TransactionsInv
<1>4. txn[w].ticket = row[TicketOf(w)]
  BY <1>3 DEF Untouched, Mutation
<1> QED BY <1>2, <1>4 DEF IInv, TypeOK

LEMMA ServiceLedgered ==
  ASSUME IInv, NEW w \in Workers, Service(w), pc'[w] = "staged"
  PROVE  Ledgered(txn[w].ticket, txn'[w])
<1> DEFINE call == request[w].call
           t == txn[w].ticket
<1>1. pc[w] = "locked"
  BY DEF Service, RejectClosed, RejectVersion, RejectTransition, Runs, ChangeStatus,
    AssignNothing, Assign, Release, ChangePriority, UpdateDetails, AddComment
<1>2. t \in Ticket /\ call \in Calls
  BY <1>1, LockedCopy
<1>3. call.actor \in Users
  BY <1>2, CallFields
<1>4. \A m : Stage(w, m) => txn'[w] = m
  BY DEF Stage, IInv, TypeOK
<1>5. Quiet(t, Untouched(t))
  BY DEF Quiet, Untouched, Mutation
<1>6. CASE RejectClosed(w) \/ RejectVersion(w) \/ RejectTransition(w)
  BY <1>6 DEF RejectClosed, RejectVersion, RejectTransition, Rollback, Finish, IInv, TypeOK
<1>7. CASE ChangeStatus(w)
  <2>1. call.op = "change_status" /\ IsTransitionAllowed(t.status, call.status)
    BY <1>7 DEF ChangeStatus, Runs
  <2>2. call.status \in Status
    BY <1>2, <2>1, CallFields
  <2>3. txn'[w] = StatusMutation(t, call.actor, call.status)
    BY <1>4, <1>7 DEF ChangeStatus
  <2> QED BY <1>2, <1>3, <2>1, <2>2, <2>3, StatusLedgered DEF Ledgered
<1>8. CASE AssignNothing(w)
  BY <1>4, <1>5, <1>8 DEF AssignNothing, Ledgered
<1>9. CASE Assign(w)
  <2>1. call.op = "assign" /\ call.assignee # None
    BY <1>9 DEF Assign, Runs
  <2>2. call.assignee \in Users
    BY <1>2, <2>1, CallFields
  <2>3. txn'[w] = AssignMutation(t, call.actor, call.assignee)
    BY <1>4, <1>9 DEF Assign
  <2> QED BY <1>2, <1>3, <2>2, <2>3, AssignLedgered DEF Ledgered
<1>10. CASE Release(w)
  <2>1. txn'[w] = ReleaseMutation(t, call.actor) /\ t.assignee # None
    BY <1>4, <1>10 DEF Release
  <2> QED BY <1>2, <1>3, <2>1, ReleaseLedgered DEF Ledgered
<1>11. CASE ChangePriority(w)
  <2>1. call.op = "change_priority"
    BY <1>11 DEF ChangePriority, Runs
  <2>2. call.priority \in Priority
    BY <1>2, <2>1, CallFields
  <2>3. txn'[w] = IF call.priority = t.priority THEN Untouched(t)
                  ELSE PriorityMutation(t, call.actor, call.priority)
    BY <1>4, <1>11 DEF ChangePriority
  <2> QED BY <1>2, <1>3, <1>5, <2>2, <2>3, PriorityLedgered DEF Ledgered
<1>12. CASE UpdateDetails(w)
  <2>1. call.op = "update_details"
    BY <1>12 DEF UpdateDetails, Runs
  <2>2. call.subject \in Texts \cup {None} /\ call.description \in Texts \cup {None}
    BY <1>2, <2>1, CallFields
  <2>3. txn'[w] = IF Edited(t, call) = {} THEN Untouched(t)
                  ELSE DetailsMutation(t, call.actor, call)
    BY <1>4, <1>12 DEF UpdateDetails
  <2> QED BY <1>2, <1>3, <1>5, <2>2, <2>3, DetailsLedgered DEF Ledgered
<1>13. CASE AddComment(w)
  <2>1. txn'[w] = CommentMutation(t, call.actor)
    BY <1>4, <1>13 DEF AddComment
  <2> DEFINE e == Event("COMMENT_ADDED", call.actor, "", "", "")
  <2>2. txn'[w].ticket = t /\ txn'[w].events = <<e>>
    <3>1. txn'[w] = [ticket |-> t, columns |-> {}, events |-> <<e>>]
      BY <2>1 DEF CommentMutation, Mutation
    <3> HIDE DEF e
    <3> QED BY <3>1
  <2>3. Remarked(t, txn'[w])
    BY <1>3, <2>2 DEF Remarked
  <2> QED BY <2>3 DEF Ledgered
<1> QED BY <1>6, <1>7, <1>8, <1>9, <1>10, <1>11, <1>12, <1>13 DEF Service

(* Who stages a transaction: a service; and nothing else touches it.       *)
LEMMA OnlyServicesStage ==
  ASSUME IInv, [Next]_vars, NEW w \in Workers, pc'[w] = "staged"
  PROVE  /\ request'[w] = request[w]
         /\ \/ pc[w] = "staged" /\ txn'[w] = txn[w]
            \/ pc[w] = "locked" /\ Service(w)
<1>1. ASSUME NEW v \in Workers, NEW call \in Calls,
             \/ Refuse(v, call)
             \/ \E expected \in ExpectedVersions(call) : Admit(v, call, expected)
      PROVE  request'[w] = request[w] /\ pc[w] = "staged" /\ txn'[w] = txn[w]
  BY <1>1 DEF Refuse, Admit, IInv, TypeOK
<1>2. ASSUME NEW v \in Workers, Acquire(v) \/ Commit(v) \/ Answer(v) \/ Crash(v)
      PROVE  request'[w] = request[w] /\ pc[w] = "staged" /\ txn'[w] = txn[w]
  BY <1>2 DEF Acquire, Commit, Answer, Crash, Finish, IInv, TypeOK
<1>3. ASSUME NEW v \in Workers, v # w, Service(v)
      PROVE  request'[w] = request[w] /\ pc[w] = "staged" /\ txn'[w] = txn[w]
  BY <1>3 DEF Service, RejectClosed, RejectVersion, RejectTransition, Rollback, Finish,
    ChangeStatus, AssignNothing, Assign, Release, ChangePriority, UpdateDetails,
    AddComment, Stage, IInv, TypeOK
<1>4. ASSUME Service(w)
      PROVE  request'[w] = request[w] /\ pc[w] = "locked"
  BY <1>4 DEF Service, RejectClosed, RejectVersion, RejectTransition, Rollback, Finish,
    ChangeStatus, AssignNothing, Assign, Release, ChangePriority, UpdateDetails,
    AddComment, Runs, Stage, IInv, TypeOK
<1>5. ASSUME NEW u \in Users, Deactivate(u)
      PROVE  request'[w] = request[w] /\ pc[w] = "staged" /\ txn'[w] = txn[w]
  BY <1>5 DEF Deactivate
<1>6. CASE UNCHANGED vars
  BY <1>6 DEF vars
<1> QED BY <1>1, <1>2, <1>3, <1>4, <1>5, <1>6 DEF Next

LEMMA NextStepsInv ==
  ASSUME IInv, StepsInv, [Next]_vars
  PROVE  StepsInv'
<1> SUFFICES ASSUME NEW w \in Workers, pc'[w] = "staged"
             PROVE  Ledgered(row'[TicketOf(w)'], txn'[w])
  BY DEF StepsInv
<1>1. TicketOf(w)' = TicketOf(w) /\ pc[w] \in {"locked", "staged"}
  BY OnlyServicesStage DEF TicketOf
<1>2. TicketOf(w) \in Tickets
  BY <1>1, CallFields DEF IInv, TypeOK, Request, TicketOf
<1>3. row'[TicketOf(w)] = row[TicketOf(w)]
  <2> SUFFICES ASSUME row'[TicketOf(w)] # row[TicketOf(w)] PROVE FALSE
    OBVIOUS
  <2>1. PICK v \in Workers : Commit(v) /\ TicketOf(v) = TicketOf(w)
    BY <1>2, OnlyCommitsWrite
  <2>2. v # w /\ pc[v] = "staged"
    BY <2>1 DEF Commit, IInv, TypeOK
  <2> QED BY <1>1, <1>2, <2>1, <2>2 DEF IInv, LockMatchesTransaction
<1>4. CASE pc[w] = "staged" /\ txn'[w] = txn[w]
  BY <1>1, <1>3, <1>4 DEF StepsInv
<1>5. CASE pc[w] = "locked" /\ Service(w)
  <2>1. txn[w].ticket = row[TicketOf(w)]
    BY <1>5, LockedCopy
  <2> QED BY <1>1, <1>3, <1>5, <2>1, ServiceLedgered
<1> QED BY <1>4, <1>5, OnlyServicesStage

LEMMA InitStepsInv == Init => StepsInv
BY DEF Init, StepsInv

(* Every open transaction is about to make one step of the ledger.         *)
LEMMA StepsInvariance == Spec => []StepsInv
<1>1. IInv /\ StepsInv /\ [Next]_vars => StepsInv'
  BY NextStepsInv
<1> QED BY <1>1, InitStepsInv, Invariance, PTL DEF Spec

(* What a commit does to the row and to the history.                       *)
LEMMA CommitWrites ==
  ASSUME IInv, NEW w \in Workers, Commit(w)
  PROVE  LET t == TicketOf(w)
         IN  /\ t \in Tickets /\ row[t] \in Ticket /\ txn[w] \in Transaction
             /\ Sound(row[t], txn[w]) /\ Writable(row[t])
             /\ row' = [row EXCEPT ![t] = txn[w].ticket]
             /\ history' = [history EXCEPT ![t] = @ \o txn[w].events]
             /\ history[t] \in Seq(Events)
<1> DEFINE t == TicketOf(w)
<1>1. pc[w] = "staged" /\ request[w] \in Request /\ txn[w] \in Transaction
  BY DEF Commit, IInv, TypeOK
<1>2. t \in Tickets
  BY <1>1, CallFields DEF Request, TicketOf
<1>3. Sound(row[t], txn[w]) /\ Writable(row[t])
  BY <1>1 DEF IInv, TransactionsInv
<1>4. row[t] \in Ticket /\ history[t] \in Seq(Events)
  BY <1>2 DEF IInv, TypeOK
<1>5. row' = [row EXCEPT ![t] = txn[w].ticket]
  BY <1>3 DEF Commit, Sound
<1> QED BY <1>1, <1>2, <1>3, <1>4, <1>5 DEF Commit

-----------------------------------------------------------------------------
(* The API implements the ledger: it starts as one, ...                    *)
LEMMA LedgerInitially == Init => Ledger!LedgerInit
<1> SUFFICES ASSUME Init PROVE Ledger!LedgerInit
  OBVIOUS
<1>1. PICK intake \in [Tickets -> Intakes] :
        /\ row = [t \in Tickets |-> NewRow(intake[t])]
        /\ history = [t \in Tickets |-> NewHistory(intake[t])]
  BY DEF Init
<1> DEFINE ticket == [t \in Tickets |-> Visible(row[t])]
           by == [t \in Tickets |-> intake[t].by]
           reported == [t \in Tickets |-> intake[t].reported]
<1>2. \A t \in Tickets : intake[t] \in Intake
  BY <1>1, ClientAssumption
<1>3. ticket \in [Tickets -> Ledger!Opening]
  <2> SUFFICES ASSUME NEW t \in Tickets PROVE Visible(row[t]) \in Ledger!Opening
    OBVIOUS
  <2>1. row[t] = NewRow(intake[t])
    BY <1>1
  <2>2. /\ intake[t].priority \in Ledger!Priority
        /\ intake[t].subject \in Texts /\ intake[t].description \in Texts
    BY <1>2, SameDomain DEF Intake
  <2>3. Visible(row[t]) =
          [status |-> "OPEN", assignee |-> "", priority |-> intake[t].priority,
           subject |-> intake[t].subject, description |-> intake[t].description,
           version |-> 1]
    BY <2>1 DEF Visible, NewRow, Shown
  <2>4. \A p \in Ledger!Priority, a, b \in Texts :
          [status |-> "OPEN", assignee |-> "", priority |-> p, subject |-> a,
           description |-> b, version |-> 1] \in Ledger!Opening
    BY DEF Ledger!Opening
  <2> QED BY <2>2, <2>3, <2>4
<1>4. by \in [Tickets -> Users \cup {None}] /\ reported \in [Tickets -> Ledger!Priority]
  BY <1>2, SameDomain DEF Intake
<1>5. \A t \in Tickets : history[t] = Ledger!OpeningTrail(ticket[t], by[t], reported[t])
  <2> SUFFICES ASSUME NEW t \in Tickets
               PROVE  NewHistory(intake[t])
                        = Ledger!OpeningTrail(Visible(row[t]), intake[t].by, intake[t].reported)
    BY <1>1
  <2> DEFINE i == intake[t]
             s == Visible(row[t])
  <2>1. s.priority = i.priority
    BY <1>1 DEF Visible, NewRow
  <2>2. Ledger!Entry([s EXCEPT !.priority = i.reported], i.by, "priority", s.priority)
          = Event("PRIORITY_CHANGED", i.by, "priority", i.reported, i.priority)
    BY <2>1 DEF Ledger!Entry, Ledger!Kind, Event, Visible
  <2>3. [event_type |-> "CREATED", actor |-> i.by, field |-> "status",
         old |-> "", new |-> "OPEN"] = Event("CREATED", i.by, "status", "", "OPEN")
    BY DEF Event
  <2> HIDE DEF i, s
  <2>4. NewHistory(i) = Ledger!OpeningTrail(s, i.by, i.reported)
    BY <2>1, <2>2, <2>3 DEF NewHistory, Ledger!OpeningTrail
  <2> QED BY <2>4 DEF i, s
<1>6. history = [t \in Tickets |-> Ledger!OpeningTrail(ticket[t], by[t], reported[t])]
  BY <1>1, <1>5
<1> HIDE DEF by, reported
<1> QED BY <1>3, <1>4, <1>6 DEF Ledger!LedgerInit

(* ... and every step it takes is one of the ledger's, or none.            *)
LEMMA LedgerStepwise ==
  ASSUME IInv, IInv', StepsInv, [Next]_vars
  PROVE  [Ledger!LedgerNext]_(Ledger!ledgerVars)
<1> DEFINE ticket == [t \in Tickets |-> Visible(row[t])]
<1>1. CASE row' = row /\ history' = history
  BY <1>1 DEF Ledger!ledgerVars
<1>2. CASE ~(row' = row /\ history' = history)
  <2>1. PICK u \in Tickets : row'[u] # row[u] \/ history'[u] # history[u]
    BY <1>2 DEF IInv, TypeOK
  <2>2. PICK w \in Workers : Commit(w)
    BY <2>1, OnlyCommitsWrite
  <2> DEFINE t == TicketOf(w)
             m == txn[w]
  <2>3. /\ t \in Tickets /\ row[t] \in Ticket /\ m \in Transaction
        /\ Sound(row[t], m) /\ Writable(row[t])
        /\ row' = [row EXCEPT ![t] = m.ticket]
        /\ history' = [history EXCEPT ![t] = @ \o m.events]
        /\ history[t] \in Seq(Events)
    BY <2>2, CommitWrites
  <2>4. Ledgered(row[t], m)
    BY <2>2 DEF StepsInv, Commit
  <2>5. row \in [Tickets -> Ticket] /\ history \in [Tickets -> Seq(Events)]
    BY DEF IInv, TypeOK
  <2> HIDE DEF t, m
  <2>6. CASE Quiet(row[t], m)
    <3>1. history[t] \o m.events = history[t]
      BY <2>3, <2>6, ConcatEmptySeq DEF Quiet
    <3>2. row' = row /\ history' = history
      BY <2>3, <2>5, <2>6, <3>1 DEF Quiet
    <3> QED BY <3>2, <1>2
  <2>7. ~Ledger!IsTerminal(ticket[t].status)
    BY <2>3, SameDomain DEF Writable, Visible
  <2>8. CASE Remarked(row[t], m)
    <3>1. row' = row
      BY <2>3, <2>5, <2>8 DEF Remarked
    <3>2. PICK by \in Users : m.events = <<Event("COMMENT_ADDED", by, "", "", "")>>
      BY <2>8 DEF Remarked
    <3>3. history' = [history EXCEPT ![t] = @ \o
             <<[event_type |-> "COMMENT_ADDED", actor |-> by, field |-> "",
                old |-> "", new |-> ""]>>]
      BY <2>3, <3>2 DEF Event
    <3>4. Ledger!Remark(t, by)
      BY <2>7, <3>1, <3>3 DEF Ledger!Remark
    <3> QED BY <2>3, <3>4 DEF Ledger!LedgerNext
  <2>9. CASE Moved(row[t], m)
    <3>1. PICK by \in Users, move \in Ledger!Moves : MovedBy(row[t], m, by, move)
      BY <2>9 DEF Moved
    <3>2. row'[t] = m.ticket /\ m.ticket \in Ticket
      BY <2>3, <2>5 DEF Transaction
    <3>3. /\ ticket[t] = Visible(row[t])
          /\ ticket'[t] = Visible(m.ticket)
          /\ ticket' = [ticket EXCEPT ![t] = Visible(m.ticket)]
      BY <2>3, <2>5, <3>2
    <3>4. history' = [history EXCEPT ![t] = @ \o
             [i \in DOMAIN move |-> Ledger!Entry(Visible(row[t]), by, move[i],
                                                 Visible(m.ticket)[move[i]])]]
      BY <2>3, <3>1 DEF MovedBy
    <3>5. Ledger!Change(t, by, move)
      BY <3>1, <3>3, <3>4 DEF Ledger!Change, MovedBy
    <3>6. ticket'[t].version = ticket[t].version + 1
      BY <2>9, <3>3 DEF Moved, Visible
    <3>7. Ledger!Owned(ticket'[t])
      <4>1. m.ticket.status \in {"IN_PROGRESS", "PENDING_CUSTOMER"}
              => m.ticket.assignee # None
        BY <2>3 DEF Sound, Consistent
      <4>2. m.ticket.assignee \in Users \cup {None}
        BY <3>2 DEF Ticket
      <4>3. /\ ticket'[t].status = m.ticket.status
            /\ ticket'[t].assignee = Shown(m.ticket.assignee)
        BY <3>3 DEF Visible
      <4> QED BY <4>1, <4>2, <4>3, ShownNobody DEF Ledger!Owned
    <3>8. Ledger!Step(t)
      BY <2>7, <3>5, <3>6, <3>7 DEF Ledger!Step
    <3> QED BY <2>3, <3>8 DEF Ledger!LedgerNext
  <2> QED BY <2>4, <2>6, <2>8, <2>9 DEF Ledgered
<1> QED BY <1>1, <1>2

(* Nothing changes without leaving a trace: every change of every ticket   *)
(* is one audited step of the ledger, by somebody, whatever the requests,  *)
(* the workers and the crashes.                                            *)
THEOREM AuditedLedger == Spec => ImplementsLedger
<1>1. IInv /\ IInv' /\ StepsInv /\ [Next]_vars
        => [Ledger!LedgerNext]_(Ledger!ledgerVars)
  BY LedgerStepwise
<1> QED BY <1>1, LedgerInitially, Invariance, StepsInvariance, PTL
      DEF Spec, ImplementsLedger, Ledger!LedgerSpec

-----------------------------------------------------------------------------
(* What the events of a step tell: each moves a field of its own from what *)
(* the ticket said to what it says now, and what they do not name stays.   *)
Tells(t, m) ==
  /\ \A i \in DOMAIN m.events :
       LET e == m.events[i]
       IN  \/ e.field = ""
           \/ /\ e.field \in Audited
              /\ e.old = ShownOf(t, e.field) /\ e.new = ShownOf(m.ticket, e.field)
  /\ \A i, j \in DOMAIN m.events : m.events[i].field = m.events[j].field => i = j
  /\ \A f \in Audited :
       Untold(m.events, f) => ShownOf(m.ticket, f) = ShownOf(t, f)

LEMMA LedgeredTells ==
  ASSUME NEW t, NEW m, Ledgered(t, m)
  PROVE  Tells(t, m)
<1>1. CASE Quiet(t, m)
  BY <1>1 DEF Quiet, Tells
<1>2. CASE Remarked(t, m)
  <2>1. PICK by \in Users : m.events = <<Event("COMMENT_ADDED", by, "", "", "")>>
    BY <1>2 DEF Remarked
  <2> DEFINE e == Event("COMMENT_ADDED", by, "", "", "")
  <2>2. e.field = ""
    BY DEF Event
  <2> HIDE DEF e
  <2>3. m.events = <<e>>
    BY <2>1 DEF e
  <2>4. DOMAIN m.events = {1} /\ m.events[1] = e
    BY <2>3
  <2> QED BY <1>2, <2>2, <2>4 DEF Remarked, Tells
<1>3. CASE Moved(t, m)
  <2>1. PICK by \in Users, move \in Ledger!Moves : MovedBy(t, m, by, move)
    BY <1>3 DEF Moved
  <2>2. /\ Audited = Ledger!Field /\ "" \notin Audited
        /\ \A r : \A f \in Audited : ShownOf(r, f) = Visible(r)[f]
    BY DEF Audited, Ledger!Field, ShownOf, Visible
  <2>3. \A i \in DOMAIN move : move[i] \in Audited
    <3>1. ASSUME NEW f \in Ledger!Field, move = <<f>>
          PROVE  \A i \in DOMAIN move : move[i] \in Audited
      <4>1. DOMAIN move = {1} /\ move[1] = f
        BY <3>1
      <4> QED BY <2>2, <4>1
    <3>2. ASSUME NEW f \in Ledger!Field, NEW g \in Ledger!Field, move = <<f, g>>
          PROVE  \A i \in DOMAIN move : move[i] \in Audited
      <4>1. DOMAIN move = {1, 2} /\ move[1] = f /\ move[2] = g
        BY <3>2
      <4> QED BY <2>2, <4>1
    <3> QED BY <3>1, <3>2 DEF Ledger!Moves
  <2>4. DOMAIN m.events = DOMAIN move
    BY <2>1 DEF MovedBy
  <2>5. \A i \in DOMAIN move :
          /\ m.events[i].field = move[i]
          /\ m.events[i].old = ShownOf(t, move[i])
          /\ m.events[i].new = ShownOf(m.ticket, move[i])
    <3> SUFFICES ASSUME NEW i \in DOMAIN move
                 PROVE  /\ m.events[i].field = move[i]
                        /\ m.events[i].old = ShownOf(t, move[i])
                        /\ m.events[i].new = ShownOf(m.ticket, move[i])
      OBVIOUS
    <3>1. m.events[i] = Ledger!Entry(Visible(t), by, move[i], Visible(m.ticket)[move[i]])
      BY <2>1 DEF MovedBy
    <3>2. /\ m.events[i].field = move[i]
          /\ m.events[i].old = Visible(t)[move[i]]
          /\ m.events[i].new = Visible(m.ticket)[move[i]]
      BY <3>1 DEF Ledger!Entry
    <3> QED BY <2>2, <2>3, <3>2
  <2>6. \A i, j \in DOMAIN move : move[i] = move[j] => i = j
    BY <2>1 DEF MovedBy, Ledger!Distinct
  <2>7. \A f \in Audited :
          Untold(m.events, f) => ShownOf(m.ticket, f) = ShownOf(t, f)
    <3> SUFFICES ASSUME NEW f \in Audited, Untold(m.events, f)
                 PROVE  Visible(m.ticket)[f] = Visible(t)[f]
      BY <2>2
    <3>1. f \notin {move[i] : i \in DOMAIN move}
      BY <2>4, <2>5 DEF Untold
    <3> QED BY <2>1, <2>2, <3>1 DEF MovedBy
  <2> QED BY <2>3, <2>4, <2>5, <2>6, <2>7 DEF Tells
<1> QED BY <1>1, <1>2, <1>3 DEF Ledgered

(* A history h that tells a row r, and never contradicts itself.           *)
Story(h, r) ==
  /\ \A f \in Audited, i \in DOMAIN h : LastOf(h, f, i) => h[i].new = ShownOf(r, f)
  /\ Untold(h, "assignee") => r.assignee = None
  /\ Untold(h, "priority") => r.priority = r.reported_priority
  /\ ~Untold(h, "status")

(* No entry between i and j is about the field of i.                       *)
Silent(h, i, j) == \A k \in i+1..j-1 : h[k].field # h[i].field

Chained(h) ==
  \A i, j \in DOMAIN h :
    /\ i < j /\ h[i].field = h[j].field /\ h[i].field # ""
    /\ Silent(h, i, j)
    => h[j].old = h[i].new

(* Two places of a sequence of n entries that l are appended to.           *)
LEMMA Places ==
  ASSUME NEW n \in Nat, NEW l \in Nat, NEW i \in 1 .. n + l, NEW j \in 1 .. n + l, i < j
  PROVE  /\ i \in 1 .. n \/ i \in n + 1 .. n + l
         /\ j \in 1 .. n \/ j \in n + 1 .. n + l
         /\ j \in 1 .. n => i \in 1 .. n /\ \A k \in i+1..j-1 : k \in 1 .. n
         /\ j \in n + 1 .. n + l => /\ j - n \in 1 .. l
                                   /\ \A k \in 1 .. n : k > i => k \in i+1..j-1
         /\ i \in n + 1 .. n + l => /\ i - n \in 1 .. l /\ i - n # j - n
                                   /\ j \in n + 1 .. n + l
OBVIOUS

LEMMA StoryGrows ==
  ASSUME NEW r \in Ticket, NEW m \in Transaction, NEW h \in Seq(Events),
         Tells(r, m), m.ticket.reported_priority = r.reported_priority,
         Story(h, r), Chained(h)
  PROVE  Story(h \o m.events, m.ticket) /\ Chained(h \o m.events)
<1> DEFINE e == m.events
           g == h \o m.events
           n == Len(h)
<1>1. /\ e \in Seq(Events) /\ m.ticket \in Ticket /\ g \in Seq(Events)
      /\ DOMAIN e = 1 .. Len(e) /\ DOMAIN h = 1 .. n /\ DOMAIN g = 1 .. n + Len(e)
      /\ n \in Nat /\ Len(e) \in Nat
  BY DEF Transaction
<1>2. /\ \A i \in 1 .. n : g[i] = h[i]
      /\ \A i \in n + 1 .. n + Len(e) : g[i] = e[i - n]
      /\ \A i \in 1 .. Len(e) : g[n + i] = e[i]
  BY <1>1
<1>3. \A f : Untold(g, f) <=> Untold(h, f) /\ Untold(e, f)
  <2> SUFFICES ASSUME NEW f PROVE Untold(g, f) <=> Untold(h, f) /\ Untold(e, f)
    OBVIOUS
  <2> HIDE DEF e, g, n
  <2>1. ASSUME Untold(g, f) PROVE Untold(h, f) /\ Untold(e, f)
    <3>1. Untold(h, f)
      <4> SUFFICES ASSUME NEW i \in 1 .. n PROVE h[i].field # f
        BY <1>1 DEF Untold
      <4>1. i \in 1 .. n + Len(e)
        BY <1>1
      <4> QED BY <1>1, <1>2, <2>1, <4>1 DEF Untold
    <3>2. Untold(e, f)
      <4> SUFFICES ASSUME NEW i \in 1 .. Len(e) PROVE e[i].field # f
        BY <1>1 DEF Untold
      <4>1. n + i \in 1 .. n + Len(e)
        BY <1>1
      <4> QED BY <1>1, <1>2, <2>1, <4>1 DEF Untold
    <3> QED BY <3>1, <3>2
  <2>2. ASSUME Untold(h, f), Untold(e, f) PROVE Untold(g, f)
    <3> SUFFICES ASSUME NEW i \in 1 .. n + Len(e) PROVE g[i].field # f
      BY <1>1 DEF Untold
    <3>1. CASE i \in 1 .. n
      BY <1>1, <1>2, <2>2, <3>1 DEF Untold
    <3>2. CASE i \in n + 1 .. n + Len(e)
      <4>1. i - n \in 1 .. Len(e)
        BY <1>1, <3>2
      <4> QED BY <1>1, <1>2, <2>2, <3>2, <4>1 DEF Untold
    <3> QED BY <1>1, <3>1, <3>2
  <2> QED BY <2>1, <2>2
<1>4. \A f \in Audited : Untold(e, f) => ShownOf(m.ticket, f) = ShownOf(r, f)
  BY DEF Tells
<1>5. /\ \A i \in 1 .. Len(e) : e[i].field # "" =>
           /\ e[i].field \in Audited
           /\ e[i].old = ShownOf(r, e[i].field) /\ e[i].new = ShownOf(m.ticket, e[i].field)
      /\ \A i, j \in 1 .. Len(e) : e[i].field = e[j].field => i = j
  BY <1>1 DEF Tells
<1>6. "" \notin Audited /\ "assignee" \in Audited /\ "priority" \in Audited
  BY DEF Audited
<1>7. \A f \in Audited, i \in 1 .. n + Len(e) :
        LastOf(g, f, i) => g[i].new = ShownOf(m.ticket, f)
  <2> HIDE DEF e, g, n
  <2> SUFFICES ASSUME NEW f \in Audited, NEW i \in 1 .. n + Len(e), LastOf(g, f, i)
               PROVE  g[i].new = ShownOf(m.ticket, f)
    OBVIOUS
  <2>1. g[i].field = f /\ \A j \in 1 .. n + Len(e) : j > i => g[j].field # f
    BY <1>1 DEF LastOf
  <2>2. CASE i \in 1 .. n
    <3>1. \A j \in 1 .. Len(e) : e[j].field # f
      <4> SUFFICES ASSUME NEW j \in 1 .. Len(e) PROVE e[j].field # f
        OBVIOUS
      <4>1. n + j \in 1 .. n + Len(e) /\ n + j > i
        BY <1>1, <2>2
      <4> QED BY <1>2, <2>1, <4>1
    <3>2. LastOf(h, f, i)
      BY <1>1, <1>2, <2>1, <2>2 DEF LastOf
    <3>3. h[i].new = ShownOf(r, f)
      BY <1>1, <2>2, <3>2 DEF Story
    <3> QED BY <1>1, <1>2, <1>4, <2>2, <3>1, <3>3 DEF Untold
  <2>3. CASE i \in n + 1 .. n + Len(e)
    <3>1. i - n \in 1 .. Len(e) /\ g[i] = e[i - n]
      BY <1>1, <1>2, <2>3
    <3> QED BY <1>5, <1>6, <2>1, <3>1
  <2> QED BY <1>1, <2>2, <2>3
<1>8. Chained(g)
  <2> HIDE DEF e, g, n
  <2> SUFFICES ASSUME NEW i \in 1 .. n + Len(e), NEW j \in 1 .. n + Len(e),
                      i < j, g[i].field = g[j].field, g[i].field # "",
                      Silent(g, i, j)
               PROVE  g[j].old = g[i].new
    BY <1>1 DEF Chained
  <2> DEFINE l == Len(e)
  <2>0. /\ i \in 1 .. n \/ i \in n + 1 .. n + l
        /\ j \in 1 .. n \/ j \in n + 1 .. n + l
        /\ j \in 1 .. n => i \in 1 .. n /\ \A k \in i+1..j-1 : k \in 1 .. n
        /\ j \in n + 1 .. n + l => /\ j - n \in 1 .. l
                                  /\ \A k \in 1 .. n : k > i => k \in i+1..j-1
        /\ i \in n + 1 .. n + l => /\ i - n \in 1 .. l /\ i - n # j - n
                                  /\ j \in n + 1 .. n + l
    BY <1>1, Places, Zenon
  <2>1. CASE j \in 1 .. n
    <3>1. i \in 1 .. n /\ \A k \in i+1..j-1 : k \in 1 .. n
      BY <2>0, <2>1
    <3>2. h[i].field = h[j].field /\ h[i].field # ""
      BY <1>2, <2>1, <3>1
    <3>3. Silent(h, i, j)
      BY <1>2, <3>1 DEF Silent
    <3>4. h[j].old = h[i].new
      BY <1>1, <2>1, <3>1, <3>2, <3>3 DEF Chained
    <3> QED BY <1>2, <2>1, <3>1, <3>4
  <2>2. CASE i \in 1 .. n /\ j \in n + 1 .. n + Len(e)
    <3>1. j - n \in 1 .. Len(e) /\ g[j] = e[j - n]
      BY <1>2, <2>0, <2>2
    <3>2. g[i].field \in Audited /\ g[j].old = ShownOf(r, g[i].field)
      BY <1>5, <3>1
    <3>3. LastOf(h, g[i].field, i)
      <4>1. \A k \in 1 .. n : k > i => k \in i+1..j-1
        BY <2>0, <2>2
      <4>2. \A k \in 1 .. n : k > i => h[k].field # g[i].field
        BY <1>2, <4>1 DEF Silent
      <4> QED BY <1>1, <1>2, <2>2, <4>2 DEF LastOf
    <3>4. h[i].new = ShownOf(r, g[i].field)
      BY <1>1, <2>2, <3>2, <3>3 DEF Story
    <3> QED BY <1>2, <2>2, <3>2, <3>4
  <2>3. CASE i \in n + 1 .. n + Len(e)
    <3>1. /\ i - n \in 1 .. Len(e) /\ j - n \in 1 .. Len(e)
          /\ j \in n + 1 .. n + Len(e) /\ i - n # j - n
      BY <2>0, <2>3
    <3>2. g[i] = e[i - n] /\ g[j] = e[j - n]
      BY <1>2, <2>3, <3>1
    <3> QED BY <1>5, <3>1, <3>2
  <2> QED BY <2>0, <2>1, <2>2, <2>3
<1>9. Untold(g, "assignee") => m.ticket.assignee = None
  <2> SUFFICES ASSUME Untold(g, "assignee") PROVE m.ticket.assignee = None
    OBVIOUS
  <2> HIDE DEF e, g, n
  <2>1. r.assignee = None /\ ShownOf(m.ticket, "assignee") = ShownOf(r, "assignee")
    BY <1>3, <1>4, <1>6 DEF Story
  <2>2. Shown(m.ticket.assignee) = ""
    BY <2>1 DEF ShownOf, Shown
  <2>3. m.ticket.assignee \in Users \cup {None}
    BY <1>1 DEF Ticket
  <2> QED BY <2>2, <2>3, ShownNobody
<1>10. Untold(g, "priority") => m.ticket.priority = m.ticket.reported_priority
  <2> HIDE DEF e, g, n
  <2> QED BY <1>3, <1>4, <1>6 DEF Story, ShownOf
<1>11. ~Untold(g, "status")
  <2> HIDE DEF e, g, n
  <2> QED BY <1>3 DEF Story
<1>12. Story(g, m.ticket)
  <2> HIDE DEF e, g, n
  <2> QED BY <1>1, <1>7, <1>9, <1>10, <1>11 DEF Story
<1> QED BY <1>8, <1>12

LEMMA NewStory ==
  ASSUME NEW i \in Intakes
  PROVE  Story(NewHistory(i), NewRow(i)) /\ Chained(NewHistory(i))
<1> DEFINE c == Event("CREATED", i.by, "status", "", "OPEN")
           p == Event("PRIORITY_CHANGED", i.by, "priority", i.reported, i.priority)
           r == NewRow(i)
<1>1. /\ c.field = "status" /\ c.new = ShownOf(r, "status")
      /\ p.field = "priority" /\ p.new = ShownOf(r, "priority")
      /\ r.assignee = None /\ r.priority = i.priority /\ r.reported_priority = i.reported
  BY DEF Event, NewRow, ShownOf
<1>2. NewHistory(i) = <<c>> \o (IF i.priority = i.reported THEN <<>> ELSE <<p>>)
  BY DEF NewHistory
<1> HIDE DEF c, p, r
<1>3. CASE i.priority = i.reported
  <2>1. NewHistory(i) = <<c>>
    BY <1>2, <1>3
  <2> DEFINE h == NewHistory(i)
  <2>2. DOMAIN h = {1} /\ h[1] = c
    BY <2>1
  <2> HIDE DEF h
  <2>3. Chained(h)
    <3>1. \A k, l \in DOMAIN h : ~(k < l)
      BY <2>2
    <3> QED BY <3>1 DEF Chained
  <2>4. Story(h, r)
    BY <1>1, <1>3, <2>2 DEF Story, LastOf, Untold
  <2> QED BY <2>3, <2>4 DEF h, r
<1>4. CASE i.priority # i.reported
  <2>1. NewHistory(i) = <<c, p>>
    BY <1>2, <1>4, Joined
  <2> DEFINE h == NewHistory(i)
  <2>2. DOMAIN h = {1, 2} /\ h[1] = c /\ h[2] = p
    BY <2>1
  <2> HIDE DEF h
  <2>3. Chained(h)
    <3>1. \A k, l \in DOMAIN h : k < l => h[k].field # h[l].field
      BY <1>1, <2>2
    <3> QED BY <3>1 DEF Chained
  <2>4. Story(h, r)
    BY <1>1, <2>2 DEF Story, LastOf, Untold
  <2> QED BY <2>3, <2>4 DEF h, r
<1> QED BY <1>3, <1>4

StoryInv == \A t \in Tickets : Story(history[t], row[t]) /\ Chained(history[t])

LEMMA InitStoryInv == Init => StoryInv
<1> SUFFICES ASSUME Init, NEW t \in Tickets
             PROVE  Story(history[t], row[t]) /\ Chained(history[t])
  BY DEF StoryInv
<1>1. PICK intake \in [Tickets -> Intakes] :
        /\ row = [u \in Tickets |-> NewRow(intake[u])]
        /\ history = [u \in Tickets |-> NewHistory(intake[u])]
  BY DEF Init
<1>2. row[t] = NewRow(intake[t]) /\ history[t] = NewHistory(intake[t]) /\ intake[t] \in Intakes
  BY <1>1
<1> QED BY <1>2, NewStory

LEMMA NextStoryInv ==
  ASSUME IInv, StepsInv, StoryInv, [Next]_vars
  PROVE  StoryInv'
<1> SUFFICES ASSUME NEW t \in Tickets
             PROVE  Story(history'[t], row'[t]) /\ Chained(history'[t])
  BY DEF StoryInv
<1>1. Story(history[t], row[t]) /\ Chained(history[t])
  BY DEF StoryInv
<1>2. CASE row'[t] = row[t] /\ history'[t] = history[t]
  BY <1>1, <1>2
<1>3. CASE row'[t] # row[t] \/ history'[t] # history[t]
  <2>1. PICK w \in Workers : Commit(w)
    BY <1>3, OnlyCommitsWrite
  <2> DEFINE u == TicketOf(w)
             m == txn[w]
  <2>2. /\ u \in Tickets /\ row[u] \in Ticket /\ m \in Transaction /\ Sound(row[u], m)
        /\ row' = [row EXCEPT ![u] = m.ticket]
        /\ history' = [history EXCEPT ![u] = @ \o m.events]
        /\ history[u] \in Seq(Events)
    BY <2>1, CommitWrites
  <2>3. Tells(row[u], m)
    BY <2>1, LedgeredTells DEF StepsInv, Commit
  <2>4. m.ticket.reported_priority = row[u].reported_priority
    BY <2>2 DEF Sound, Written
  <2>5. row \in [Tickets -> Ticket] /\ history \in [Tickets -> Seq(Events)]
    BY DEF IInv, TypeOK
  <2> HIDE DEF u, m
  <2>6. t = u
    BY <1>3, <2>2, <2>5
  <2>7. row'[t] = m.ticket /\ history'[t] = history[t] \o m.events
    BY <2>2, <2>5, <2>6
  <2> QED BY <1>1, <2>2, <2>3, <2>4, <2>6, <2>7, StoryGrows
<1> QED BY <1>2, <1>3

LEMMA StoryInvariance == Spec => []StoryInv
<1>1. IInv /\ StepsInv /\ StoryInv /\ [Next]_vars => StoryInv'
  BY NextStoryInv
<1> QED BY <1>1, InitStoryInv, Invariance, StepsInvariance, PTL DEF Spec

(* The ticket and its history never disagree: the last entry about a field *)
(* says what the row says, however many requests raced to write it.        *)
THEOREM HistoryTold == Spec => []HistoryTellsTicket
<1>1. StoryInv => HistoryTellsTicket
  BY DEF StoryInv, Story, HistoryTellsTicket
<1> QED BY <1>1, StoryInvariance, PTL

(* Two entries about a field, none between them, agree on what the field   *)
(* was in between: no writer records a change it did not make.             *)
THEOREM HistoryUnbroken == Spec => []HistoryIsChained
<1>1. StoryInv => HistoryIsChained
  BY DEF StoryInv, Chained, Silent, HistoryIsChained
<1> QED BY <1>1, StoryInvariance, PTL
=============================================================================
