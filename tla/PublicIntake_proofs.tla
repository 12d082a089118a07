------------------------ MODULE PublicIntake_proofs ------------------------
(***************************************************************************)
(* What the intake promises about customers, names, repeats and budgets,   *)
(* for any addresses, workers, submissions and windows.                    *)
(*                                                                         *)
(* The first three properties are about committed tickets and customers.   *)
(* They are kept because of what a worker on its way to a commit knows:    *)
(* whether the customer exists, that nobody else inserts it, and that the  *)
(* tickets it saw before it went on are no repeats of its own.             *)
(*                                                                         *)
(* The budget is kept because the history in the cache remembers whatever  *)
(* was spent in the last hour, by tickets and by submissions that have     *)
(* none yet; it forgets only what is too old to be counted with it.        *)
(***************************************************************************)
EXTENDS PublicIntake, FiniteSetTheorems, SequenceTheorems, TLAPS

(* Every ticket bears the fingerprint of its request, and its request saw  *)
(* tickets that are there.                                                 *)
TicketRecord ==
  [request: Submissions, dedupe_hash: {DedupeHash(s) : s \in Submissions},
   created_at: Nat, seen: Nat, spent_at: Nat]

TicketsOK ==
  /\ clock \in Nat
  /\ tickets \in Seq(TicketRecord)
  /\ \A i \in 1 .. Len(tickets) :
       /\ tickets[i].dedupe_hash = DedupeHash(tickets[i].request)
       /\ tickets[i].seen <= Len(tickets)
  /\ customers \in [Emails -> Names \cup {None}]

(* What a worker knows.  A customer it inserts does not exist yet, one it  *)
(* does not insert exists, and of what it saw it repeats nothing recent.   *)
Fields == {"seen", "spent", "at", "name", "inserts", "renames", "created_at"}

Positions == {"idle", "check", "quota", "spend", "find", "insert", "write", "commit"}

WorkerOK(w) ==
  LET x == scratch[w]  s == request[w]
  IN  /\ pc[w] \in Positions
      /\ DOMAIN x = Fields
      /\ x.seen \in Nat /\ x.at \in Nat /\ x.created_at \in Nat
      /\ x.inserts \in BOOLEAN /\ x.renames \in BOOLEAN
      /\ x.name \in Names \cup {None}
      /\ pc[w] # "idle" => s \in Submissions
      /\ pc[w] \in {"idle", "check"} => x.seen = 0
      /\ pc[w] = "check" => Deduplicates(s)
      /\ x.inserts => pc[w] \in {"write", "commit"} /\ customers[s.email] = None
      /\ x.renames => pc[w] = "commit" /\ ~x.inserts /\ s.agent
      /\ pc[w] \in {"write", "commit"} /\ ~x.inserts => customers[s.email] # None

SawNoRepeat(w) ==
  LET x == scratch[w]  s == request[w]
  IN  /\ x.seen <= Len(tickets)
      /\ \A i \in 1 .. x.seen : Repeats(s, tickets[i].request) =>
           /\ tickets[i].created_at + WindowOf(s) < clock
           /\ pc[w] = "commit" => tickets[i].created_at + WindowOf(s) < x.created_at

WorkersOK ==
  /\ DOMAIN pc = Workers /\ DOMAIN request = Workers /\ DOMAIN scratch = Workers
  /\ \A w \in Workers : WorkerOK(w) /\ SawNoRepeat(w)

(* The unique index lets one transaction at a time insert a customer.      *)
OneInserter ==
  \A v, w \in Workers :
    /\ scratch[v].inserts /\ scratch[w].inserts
    /\ request[v].email = request[w].email
    => v = w

IntakeInv ==
  /\ TicketsOK /\ WorkersOK /\ OneInserter
  /\ RepeatsCollapse /\ NoOrphanCustomer /\ NameIsTrusted

-----------------------------------------------------------------------------
LEMMA SubmissionFields ==
  ASSUME NEW s \in Submissions
  PROVE  /\ s.email \in Emails /\ s.name \in Names /\ s.name # None
         /\ s.agent \in BOOLEAN /\ s.key \in Keys \cup {None}
         /\ WindowOf(s) \in Nat
BY IntakeAssumption DEF Submission, WindowOf

LEMMA Blank ==
  /\ DOMAIN NothingRead = Fields
  /\ NothingRead.seen = 0 /\ NothingRead.at = 0 /\ NothingRead.created_at = 0
  /\ ~NothingRead.inserts /\ NothingRead.inserts \in BOOLEAN
  /\ ~NothingRead.renames /\ NothingRead.renames \in BOOLEAN
  /\ NothingRead.name = None
BY DEF NothingRead, Fields

LEMMA TicketFields ==
  ASSUME TicketsOK, NEW i \in 1 .. Len(tickets)
  PROVE  /\ tickets[i] \in TicketRecord
         /\ tickets[i].request \in Submissions
         /\ tickets[i].created_at \in Nat /\ tickets[i].seen \in Nat
<1>1. tickets[i] \in TicketRecord
  BY DEF TicketsOK
<1> QED BY <1>1 DEF TicketRecord

LEMMA InitIntakeInv == Init => IntakeInv
<1> SUFFICES ASSUME Init PROVE IntakeInv
  OBVIOUS
<1>1. TicketsOK
  BY DEF Init, TicketsOK
<1>2. tickets = <<>> /\ Len(tickets) = 0 /\ DOMAIN tickets = {}
  BY DEF Init
<1>3. RepeatsCollapse /\ NoOrphanCustomer /\ NameIsTrusted
  BY <1>2 DEF Init, RepeatsCollapse, NoOrphanCustomer, NameIsTrusted
<1>4. ASSUME NEW w \in Workers
      PROVE  pc[w] = "idle" /\ scratch[w] = NothingRead
  BY DEF Init
<1>5. DOMAIN pc = Workers /\ DOMAIN request = Workers /\ DOMAIN scratch = Workers
  BY DEF Init
<1>6. ASSUME NEW w \in Workers PROVE WorkerOK(w) /\ SawNoRepeat(w)
  <2>1. WorkerOK(w)
    BY <1>4, Blank DEF WorkerOK, Positions
  <2>2. SawNoRepeat(w)
    BY <1>2, <1>4, Blank DEF SawNoRepeat
  <2> QED BY <2>1, <2>2
<1>7. OneInserter
  BY <1>4, Blank DEF OneInserter
<1> QED BY <1>1, <1>3, <1>5, <1>6, <1>7 DEF IntakeInv, WorkersOK

-----------------------------------------------------------------------------
(* A step of worker w that commits nothing keeps the invariant if w knows  *)
(* what it has to know afterwards, and inserts only what nobody inserts.   *)
LEMMA OneWorker ==
  ASSUME IntakeInv, NEW w \in Workers,
         UNCHANGED <<clock, tickets, customers>>,
         DOMAIN pc' = Workers, DOMAIN request' = Workers, DOMAIN scratch' = Workers,
         \A v \in Workers \ {w} :
           pc'[v] = pc[v] /\ request'[v] = request[v] /\ scratch'[v] = scratch[v],
         WorkerOK(w)', SawNoRepeat(w)',
         scratch'[w].inserts =>
           \/ scratch[w].inserts /\ request'[w] = request[w]
           \/ ~Inserting(request'[w].email)
  PROVE  IntakeInv'
<1>1. TicketsOK' /\ RepeatsCollapse' /\ NoOrphanCustomer' /\ NameIsTrusted'
  <2>1. TicketsOK'
    BY DEF IntakeInv, TicketsOK
  <2>2. RepeatsCollapse'
    BY DEF IntakeInv, RepeatsCollapse
  <2>3. NoOrphanCustomer'
    BY DEF IntakeInv, NoOrphanCustomer
  <2>4. NameIsTrusted'
    BY DEF IntakeInv, NameIsTrusted
  <2> QED BY <2>1, <2>2, <2>3, <2>4
<1>2. ASSUME NEW v \in Workers \ {w} PROVE WorkerOK(v)' /\ SawNoRepeat(v)'
  BY <1>2 DEF IntakeInv, WorkersOK, WorkerOK, SawNoRepeat
<1>3. WorkersOK'
  BY <1>2 DEF WorkersOK
<1>4. OneInserter'
  BY DEF IntakeInv, OneInserter, Inserting
<1> QED BY <1>1, <1>3, <1>4 DEF IntakeInv

(* The worker is done, whatever it was doing.                              *)
LEMMA LeaveIntakeInv ==
  ASSUME IntakeInv, NEW w \in Workers, Leave(w),
         UNCHANGED <<clock, tickets, customers>>
  PROVE  IntakeInv'
<1>1. /\ DOMAIN pc' = Workers /\ DOMAIN request' = Workers /\ DOMAIN scratch' = Workers
      /\ pc'[w] = "idle" /\ scratch'[w] = NothingRead
      /\ \A v \in Workers \ {w} :
           pc'[v] = pc[v] /\ request'[v] = request[v] /\ scratch'[v] = scratch[v]
  BY DEF Leave, IntakeInv, WorkersOK
<1>2. WorkerOK(w)'
  BY <1>1, Blank DEF WorkerOK, Positions
<1>3. SawNoRepeat(w)'
  <2>1. Len(tickets) \in Nat
    BY DEF IntakeInv, TicketsOK
  <2> QED BY <1>1, <2>1, Blank DEF SawNoRepeat
<1> QED BY <1>1, <1>2, <1>3, Blank, OneWorker

LEMMA ReceiveIntakeInv ==
  ASSUME IntakeInv, NEW w \in Workers, Receive(w)
  PROVE  IntakeInv'
<1>1. PICK s \in Submissions :
        /\ Move(w, "idle", IF Deduplicates(s) THEN "check" ELSE "find")
        /\ request' = [request EXCEPT ![w] = s]
        /\ UNCHANGED <<clock, tickets, customers, scratch>>
  BY DEF Receive
<1>2. /\ DOMAIN pc' = Workers /\ DOMAIN request' = Workers /\ DOMAIN scratch' = Workers
      /\ pc[w] = "idle" /\ pc'[w] = (IF Deduplicates(s) THEN "check" ELSE "find")
      /\ request'[w] = s /\ scratch' = scratch
      /\ \A v \in Workers \ {w} : pc'[v] = pc[v] /\ request'[v] = request[v]
  BY <1>1 DEF Move, Goto, IntakeInv, WorkersOK
<1>3. WorkerOK(w) /\ SawNoRepeat(w)
  BY DEF IntakeInv, WorkersOK
<1>4. WorkerOK(w)'
  BY <1>2, <1>3 DEF WorkerOK, Positions
<1>5. SawNoRepeat(w)'
  <2>1. scratch[w].seen = 0 /\ Len(tickets) \in Nat
    BY <1>2, <1>3 DEF WorkerOK, IntakeInv, TicketsOK
  <2> QED BY <1>1, <1>2, <2>1 DEF SawNoRepeat
<1>6. ~scratch'[w].inserts
  BY <1>2, <1>3 DEF WorkerOK
<1> QED BY <1>1, <1>2, <1>4, <1>5, <1>6, OneWorker

(* What was found missing is older than the window, and stays so.          *)
LEMMA FindNoDuplicateIntakeInv ==
  ASSUME IntakeInv, NEW w \in Workers, FindNoDuplicate(w)
  PROVE  IntakeInv'
<1> DEFINE s == request[w]
           to == IF s.agent THEN "find" ELSE "quota"
<1>1. /\ DOMAIN pc' = Workers /\ DOMAIN request' = Workers /\ DOMAIN scratch' = Workers
      /\ pc[w] = "check" /\ pc'[w] = to /\ request' = request
      /\ scratch'[w] = [scratch[w] EXCEPT !.seen = Len(tickets)]
      /\ \A v \in Workers \ {w} : pc'[v] = pc[v] /\ scratch'[v] = scratch[v]
      /\ UNCHANGED <<clock, tickets, customers>>
  BY DEF FindNoDuplicate, Goto, IntakeInv, WorkersOK
<1>2. WorkerOK(w) /\ SawNoRepeat(w)
  BY DEF IntakeInv, WorkersOK
<1>3. scratch[w].inserts = FALSE /\ scratch[w].renames = FALSE /\ s \in Submissions
  BY <1>1, <1>2 DEF WorkerOK
<1>4. /\ Len(tickets) \in Nat /\ DOMAIN tickets = 1 .. Len(tickets)
      /\ clock \in Nat
      /\ \A i \in 1 .. Len(tickets) :
           /\ tickets[i].request \in Submissions /\ tickets[i].created_at \in Nat
           /\ tickets[i].dedupe_hash = DedupeHash(tickets[i].request)
  BY TicketFields DEF IntakeInv, TicketsOK
<1>5. /\ DOMAIN scratch'[w] = Fields
      /\ scratch'[w].seen = Len(tickets)
      /\ \A f \in Fields \ {"seen"} : scratch'[w][f] = scratch[w][f]
  BY <1>1, <1>2 DEF WorkerOK, Fields
<1>6. WorkerOK(w)'
  BY <1>1, <1>2, <1>3, <1>4, <1>5 DEF WorkerOK, Positions, Fields
<1>7. ASSUME NEW i \in 1 .. Len(tickets), Repeats(s, tickets[i].request)
      PROVE  tickets[i].created_at + WindowOf(s) < clock
  <2> DEFINE r == tickets[i].request
  <2>1. r \in Submissions /\ tickets[i].dedupe_hash = DedupeHash(r)
    BY <1>4
  <2>2. Deduplicates(s)
    BY <1>1, <1>2 DEF WorkerOK
  <2>3. Deduplicates(r) /\ Fingerprint(r) = Fingerprint(s)
    BY <1>7, <2>2 DEF Repeats, Deduplicates, Fingerprint
  <2>4. tickets[i].dedupe_hash = Fingerprint(s)
    BY <2>1, <2>3 DEF DedupeHash
  <2>5. ~Recent(tickets[i], s)
    BY <1>4, <2>4 DEF FindNoDuplicate, Duplicated
  <2>6. tickets[i].created_at \in Nat /\ WindowOf(s) \in Nat
    BY <1>3, <1>4, SubmissionFields
  <2> QED BY <1>4, <2>5, <2>6 DEF Recent
<1>8. SawNoRepeat(w)'
  BY <1>1, <1>4, <1>5, <1>7 DEF SawNoRepeat
<1> QED BY <1>1, <1>3, <1>5, <1>6, <1>8, OneWorker DEF Fields

(* Steps that change nothing of what a worker knows but where it is, and   *)
(* what it has read for the budget.                                        *)
LEMMA ReadBudgetIntakeInv ==
  ASSUME IntakeInv, NEW w \in Workers, ReadBudget(w)
  PROVE  IntakeInv'
<1> DEFINE spent == Pruned(cache[request[w].email])
<1>1. /\ DOMAIN pc' = Workers /\ DOMAIN request' = Workers /\ DOMAIN scratch' = Workers
      /\ pc[w] = "quota" /\ pc'[w] = "spend" /\ request' = request
      /\ scratch'[w] = [scratch[w] EXCEPT !.spent = spent, !.at = clock]
      /\ \A v \in Workers \ {w} : pc'[v] = pc[v] /\ scratch'[v] = scratch[v]
      /\ UNCHANGED <<clock, tickets, customers>>
  <2> HIDE DEF spent
  <2> QED BY DEF ReadBudget, Move, Goto, IntakeInv, WorkersOK, spent
<1> HIDE DEF spent
<1>2. WorkerOK(w) /\ SawNoRepeat(w)
  BY DEF IntakeInv, WorkersOK
<1>3. /\ DOMAIN scratch'[w] = Fields
      /\ scratch'[w].at = clock
      /\ \A f \in Fields \ {"spent", "at"} : scratch'[w][f] = scratch[w][f]
  BY <1>1, <1>2 DEF WorkerOK, Fields
<1>4. clock \in Nat
  BY DEF IntakeInv, TicketsOK
<1>5. WorkerOK(w)'
  BY <1>1, <1>2, <1>3, <1>4 DEF WorkerOK, Positions, Fields
<1>6. SawNoRepeat(w)'
  BY <1>1, <1>2, <1>3 DEF SawNoRepeat, Fields
<1> QED BY <1>1, <1>3, <1>5, <1>6, OneWorker DEF Fields

LEMMA SpendBudgetIntakeInv ==
  ASSUME IntakeInv, NEW w \in Workers, SpendBudget(w)
  PROVE  IntakeInv'
<1>1. /\ DOMAIN pc' = Workers /\ pc[w] = "spend" /\ pc'[w] = "find"
      /\ \A v \in Workers \ {w} : pc'[v] = pc[v]
      /\ UNCHANGED <<clock, tickets, customers, request, scratch>>
  BY DEF SpendBudget, Move, Goto, IntakeInv, WorkersOK
<1>2. WorkerOK(w) /\ SawNoRepeat(w) /\ DOMAIN request = Workers /\ DOMAIN scratch = Workers
  BY DEF IntakeInv, WorkersOK
<1>3. WorkerOK(w)' /\ SawNoRepeat(w)'
  BY <1>1, <1>2 DEF WorkerOK, SawNoRepeat, Positions
<1> QED BY <1>1, <1>2, <1>3, OneWorker

(* A customer that is found exists from then on.                           *)
LEMMA FindCustomerIntakeInv ==
  ASSUME IntakeInv, NEW w \in Workers, FindCustomer(w)
  PROVE  IntakeInv'
<1> DEFINE known == customers[request[w].email]
<1>1. /\ DOMAIN pc' = Workers /\ DOMAIN request' = Workers /\ DOMAIN scratch' = Workers
      /\ pc[w] = "find" /\ pc'[w] = (IF known = None THEN "insert" ELSE "write")
      /\ request' = request
      /\ scratch'[w] = [scratch[w] EXCEPT !.name = known]
      /\ \A v \in Workers \ {w} : pc'[v] = pc[v] /\ scratch'[v] = scratch[v]
      /\ UNCHANGED <<clock, tickets, customers>>
  BY DEF FindCustomer, Goto, IntakeInv, WorkersOK
<1>2. WorkerOK(w) /\ SawNoRepeat(w)
  BY DEF IntakeInv, WorkersOK
<1>3. /\ DOMAIN scratch'[w] = Fields
      /\ scratch'[w].name = known
      /\ \A f \in Fields \ {"name"} : scratch'[w][f] = scratch[w][f]
  BY <1>1, <1>2 DEF WorkerOK, Fields
<1>4. known \in Names \cup {None} /\ ~scratch[w].inserts /\ ~scratch[w].renames
  BY <1>1, <1>2, SubmissionFields DEF WorkerOK, IntakeInv, TicketsOK
<1>5. WorkerOK(w)'
  BY <1>1, <1>2, <1>3, <1>4 DEF WorkerOK, Positions, Fields
<1>6. SawNoRepeat(w)'
  BY <1>1, <1>2, <1>3 DEF SawNoRepeat, Fields
<1> QED BY <1>1, <1>3, <1>4, <1>5, <1>6, OneWorker DEF Fields

LEMMA InsertCustomerIntakeInv ==
  ASSUME IntakeInv, NEW w \in Workers, InsertCustomer(w)
  PROVE  IntakeInv'
<1>1. /\ DOMAIN pc' = Workers /\ DOMAIN request' = Workers /\ DOMAIN scratch' = Workers
      /\ pc[w] = "insert" /\ pc'[w] = "write" /\ request' = request
      /\ customers[request[w].email] = None /\ ~Inserting(request[w].email)
      /\ scratch'[w] = [scratch[w] EXCEPT !.inserts = TRUE]
      /\ \A v \in Workers \ {w} : pc'[v] = pc[v] /\ scratch'[v] = scratch[v]
      /\ UNCHANGED <<clock, tickets, customers>>
  BY DEF InsertCustomer, Move, Goto, IntakeInv, WorkersOK
<1>2. WorkerOK(w) /\ SawNoRepeat(w)
  BY DEF IntakeInv, WorkersOK
<1>3. /\ DOMAIN scratch'[w] = Fields
      /\ scratch'[w].inserts = TRUE
      /\ \A f \in Fields \ {"inserts"} : scratch'[w][f] = scratch[w][f]
  BY <1>1, <1>2 DEF WorkerOK, Fields
<1>4. WorkerOK(w)'
  BY <1>1, <1>2, <1>3 DEF WorkerOK, Positions, Fields
<1>5. SawNoRepeat(w)'
  BY <1>1, <1>2, <1>3 DEF SawNoRepeat, Fields
<1> QED BY <1>1, <1>4, <1>5, OneWorker

LEMMA LoseInsertIntakeInv ==
  ASSUME IntakeInv, NEW w \in Workers, LoseInsert(w)
  PROVE  IntakeInv'
<1> DEFINE winner == customers[request[w].email]
<1>1. /\ DOMAIN pc' = Workers /\ DOMAIN request' = Workers /\ DOMAIN scratch' = Workers
      /\ pc[w] = "insert" /\ pc'[w] = "write" /\ request' = request
      /\ winner # None
      /\ scratch'[w] = [scratch[w] EXCEPT !.name = winner]
      /\ \A v \in Workers \ {w} : pc'[v] = pc[v] /\ scratch'[v] = scratch[v]
      /\ UNCHANGED <<clock, tickets, customers>>
  BY DEF LoseInsert, Move, Goto, IntakeInv, WorkersOK
<1>2. WorkerOK(w) /\ SawNoRepeat(w)
  BY DEF IntakeInv, WorkersOK
<1>3. /\ DOMAIN scratch'[w] = Fields
      /\ scratch'[w].name = winner
      /\ \A f \in Fields \ {"name"} : scratch'[w][f] = scratch[w][f]
  BY <1>1, <1>2 DEF WorkerOK, Fields
<1>4. winner \in Names \cup {None} /\ ~scratch[w].inserts
  BY <1>1, <1>2, SubmissionFields DEF WorkerOK, IntakeInv, TicketsOK
<1>5. WorkerOK(w)'
  BY <1>1, <1>2, <1>3, <1>4 DEF WorkerOK, Positions, Fields
<1>6. SawNoRepeat(w)'
  BY <1>1, <1>2, <1>3 DEF SawNoRepeat, Fields
<1> QED BY <1>1, <1>3, <1>4, <1>5, <1>6, OneWorker DEF Fields

(* The ticket is stamped now, and what was past its window is.             *)
LEMMA WriteTicketIntakeInv ==
  ASSUME IntakeInv, NEW w \in Workers, WriteTicket(w)
  PROVE  IntakeInv'
<1>1. /\ DOMAIN pc' = Workers /\ DOMAIN request' = Workers /\ DOMAIN scratch' = Workers
      /\ pc[w] = "write" /\ pc'[w] = "commit" /\ request' = request
      /\ scratch'[w] = [scratch[w] EXCEPT !.renames = Corrects(w), !.created_at = clock]
      /\ \A v \in Workers \ {w} : pc'[v] = pc[v] /\ scratch'[v] = scratch[v]
      /\ UNCHANGED <<clock, tickets, customers>>
  BY DEF WriteTicket, Move, Goto, IntakeInv, WorkersOK
<1>2. WorkerOK(w) /\ SawNoRepeat(w)
  BY DEF IntakeInv, WorkersOK
<1>3. /\ DOMAIN scratch'[w] = Fields
      /\ scratch'[w].renames = Corrects(w) /\ scratch'[w].created_at = clock
      /\ \A f \in Fields \ {"renames", "created_at"} : scratch'[w][f] = scratch[w][f]
  BY <1>1, <1>2 DEF WorkerOK, Fields
<1>4. /\ Corrects(w) \in BOOLEAN
      /\ Corrects(w) => ~scratch[w].inserts /\ request[w].agent
  BY DEF Corrects
<1>5. clock \in Nat
  BY DEF IntakeInv, TicketsOK
<1>6. WorkerOK(w)'
  BY <1>1, <1>2, <1>3, <1>4, <1>5 DEF WorkerOK, Positions, Fields
<1>7. SawNoRepeat(w)'
  BY <1>1, <1>2, <1>3 DEF SawNoRepeat, Fields
<1> QED BY <1>1, <1>3, <1>6, <1>7, OneWorker DEF Fields

-----------------------------------------------------------------------------
(* The commit of a ticket.  What it does to the tickets and the customers: *)
LEMMA Committed ==
  ASSUME IntakeInv, NEW w \in Workers, Commit(w)
  PROVE  LET e == request[w].email
             n == Len(tickets)
         IN  /\ n \in Nat /\ e \in Emails
             /\ NewTicket(w) \in TicketRecord
             /\ NewTicket(w).dedupe_hash = DedupeHash(NewTicket(w).request)
             /\ NewTicket(w).seen <= n
             /\ tickets' \in Seq(TicketRecord) /\ Len(tickets') = n + 1
             /\ DOMAIN tickets = 1 .. n /\ DOMAIN tickets' = 1 .. n + 1
             /\ \A i \in 1 .. n : tickets'[i] = tickets[i]
             /\ tickets'[n + 1] = NewTicket(w)
             /\ customers' \in [Emails -> Names \cup {None}]
             /\ \A d \in Emails \ {e} : customers'[d] = customers[d]
             /\ customers'[e] # None
             /\ customers'[e] = (IF scratch[w].inserts \/ scratch[w].renames
                                 THEN request[w].name ELSE customers[e])
             /\ scratch[w].inserts <=> customers[e] = None
             /\ scratch[w].renames => request[w].agent
<1> DEFINE e == request[w].email
           n == Len(tickets)
           s == request[w]
           x == scratch[w]
           t == NewTicket(w)
<1>1. WorkerOK(w) /\ SawNoRepeat(w) /\ TicketsOK /\ pc[w] = "commit"
  BY DEF IntakeInv, WorkersOK, Commit
<1>2. /\ s \in Submissions /\ x.seen \in Nat /\ x.at \in Nat /\ x.created_at \in Nat
      /\ x.inserts \in BOOLEAN /\ x.renames \in BOOLEAN
      /\ x.inserts <=> customers[e] = None
      /\ x.renames => s.agent /\ ~x.inserts
  BY <1>1 DEF WorkerOK
<1>3. e \in Emails /\ s.name \in Names /\ s.name # None
  BY <1>2, SubmissionFields
<1>4. t.dedupe_hash = DedupeHash(s) /\ t.request = s /\ t.seen = x.seen
  BY DEF NewTicket
<1>5. t \in TicketRecord
  BY <1>2 DEF NewTicket, TicketRecord
<1>6. x.seen <= n
  BY <1>1 DEF SawNoRepeat
<1>7. tickets \in Seq(TicketRecord) /\ tickets' = Append(tickets, t)
  BY <1>1 DEF TicketsOK, Commit
<1> HIDE DEF t
<1>8. /\ tickets' \in Seq(TicketRecord) /\ Len(tickets') = n + 1 /\ n \in Nat
      /\ DOMAIN tickets = 1 .. n /\ DOMAIN tickets' = 1 .. n + 1
      /\ \A i \in 1 .. n : tickets'[i] = tickets[i]
      /\ tickets'[n + 1] = t
  BY <1>5, <1>7, AppendProperties
<1>9. customers' = IF x.inserts \/ x.renames
                   THEN [customers EXCEPT ![e] = s.name] ELSE customers
  BY DEF Commit
<1>10. /\ customers' \in [Emails -> Names \cup {None}]
       /\ \A d \in Emails \ {e} : customers'[d] = customers[d]
       /\ customers'[e] = (IF x.inserts \/ x.renames THEN s.name ELSE customers[e])
  BY <1>1, <1>3, <1>9 DEF TicketsOK
<1>11. customers'[e] # None
  BY <1>2, <1>3, <1>10
<1> QED BY <1>2, <1>3, <1>4, <1>5, <1>6, <1>8, <1>10, <1>11 DEF t

(* ... to the workers: the one that commits is done, and no other inserted *)
(* the customer.                                                           *)
LEMMA CommitWorkersOK ==
  ASSUME IntakeInv, NEW w \in Workers, Commit(w)
  PROVE  WorkersOK' /\ OneInserter'
<1> DEFINE e == request[w].email
           n == Len(tickets)
<1>1. /\ DOMAIN pc' = Workers /\ DOMAIN request' = Workers /\ DOMAIN scratch' = Workers
      /\ pc'[w] = "idle" /\ scratch'[w] = NothingRead
      /\ \A v \in Workers \ {w} :
           pc'[v] = pc[v] /\ request'[v] = request[v] /\ scratch'[v] = scratch[v]
      /\ clock' = clock
  BY DEF Commit, Leave, IntakeInv, WorkersOK
<1>2. /\ n \in Nat /\ Len(tickets') = n + 1 /\ e \in Emails
      /\ \A i \in 1 .. n : tickets'[i] = tickets[i]
      /\ \A d \in Emails \ {e} : customers'[d] = customers[d]
      /\ customers'[e] # None
      /\ scratch[w].inserts <=> customers[e] = None
  BY Committed
<1>3. WorkerOK(w)'
  BY <1>1, Blank DEF WorkerOK, Positions
<1>4. SawNoRepeat(w)'
  BY <1>1, <1>2, Blank DEF SawNoRepeat
<1>5. ASSUME NEW v \in Workers \ {w} PROVE WorkerOK(v)' /\ SawNoRepeat(v)'
  <2>1. WorkerOK(v) /\ SawNoRepeat(v)
    BY <1>5 DEF IntakeInv, WorkersOK
  <2>2. scratch[v].inserts => request[v].email # e
    BY <1>2, <1>5, <2>1 DEF IntakeInv, OneInserter, WorkerOK
  <2>3. pc[v] # "idle" => request[v].email \in Emails
    BY <2>1, SubmissionFields DEF WorkerOK
  <2>4. WorkerOK(v)'
    BY <1>1, <1>2, <1>5, <2>1, <2>2, <2>3 DEF WorkerOK
  <2>5. scratch[v].seen \in Nat
    BY <2>1 DEF WorkerOK
  <2>6. SawNoRepeat(v)'
    BY <1>1, <1>2, <1>5, <2>1, <2>5 DEF SawNoRepeat
  <2> QED BY <2>4, <2>6
<1>6. WorkersOK'
  BY <1>1, <1>3, <1>4, <1>5 DEF WorkersOK
<1>7. OneInserter'
  BY <1>1, Blank DEF IntakeInv, OneInserter
<1> QED BY <1>6, <1>7

(* ... and to the properties.                                              *)
LEMMA CommitIntakeInv ==
  ASSUME IntakeInv, NEW w \in Workers, Commit(w)
  PROVE  IntakeInv'
<1> DEFINE e == request[w].email
           n == Len(tickets)
           t == NewTicket(w)
<1>1. /\ n \in Nat /\ e \in Emails
      /\ t \in TicketRecord
      /\ t.dedupe_hash = DedupeHash(t.request)
      /\ t.seen <= n
      /\ tickets' \in Seq(TicketRecord) /\ Len(tickets') = n + 1
      /\ DOMAIN tickets = 1 .. n /\ DOMAIN tickets' = 1 .. n + 1
      /\ \A i \in 1 .. n : tickets'[i] = tickets[i]
      /\ tickets'[n + 1] = t
      /\ customers' \in [Emails -> Names \cup {None}]
      /\ \A d \in Emails \ {e} : customers'[d] = customers[d]
      /\ customers'[e] # None
      /\ customers'[e] = (IF scratch[w].inserts \/ scratch[w].renames
                          THEN request[w].name ELSE customers[e])
      /\ scratch[w].inserts <=> customers[e] = None
      /\ scratch[w].renames => request[w].agent
  BY Committed
<1>2. /\ t.request = request[w] /\ t.seen = scratch[w].seen
      /\ t.created_at = scratch[w].created_at
  BY DEF NewTicket
<1> HIDE DEF t, n
<1>3. TicketsOK /\ clock' = clock /\ RepeatsCollapse /\ NoOrphanCustomer /\ NameIsTrusted
  BY DEF IntakeInv, Commit
<1>4. \A i \in 1 .. n : tickets[i].dedupe_hash = DedupeHash(tickets[i].request)
                        /\ tickets[i].seen <= n /\ tickets[i].seen \in Nat
  BY <1>3, TicketFields DEF TicketsOK, n
<1>5. \A i \in 1 .. n + 1 : i \in 1 .. n \/ i = n + 1
  BY <1>1
<1>6. TicketsOK'
  <2>1. ASSUME NEW i \in 1 .. n + 1
        PROVE  /\ tickets'[i].dedupe_hash = DedupeHash(tickets'[i].request)
               /\ tickets'[i].seen <= n + 1
    <3>1. CASE i \in 1 .. n
      BY <1>1, <1>4, <3>1
    <3>2. CASE i = n + 1
      <4>1. t.seen \in Nat
        BY <1>1 DEF TicketRecord
      <4> QED BY <1>1, <3>2, <4>1
    <3> QED BY <1>5, <3>1, <3>2
  <2> QED BY <1>1, <1>3, <2>1 DEF TicketsOK
<1>7. RepeatsCollapse'
  <2> SUFFICES ASSUME NEW j \in 1 .. n + 1, NEW i \in 1 .. tickets'[j].seen,
                      Repeats(tickets'[j].request, tickets'[i].request)
               PROVE  tickets'[i].created_at + WindowOf(tickets'[j].request)
                        < tickets'[j].created_at
    BY <1>1 DEF RepeatsCollapse
  <2>1. CASE j \in 1 .. n
    <3>1. tickets'[j] = tickets[j] /\ i \in 1 .. n
      BY <1>1, <1>4, <2>1
    <3> QED BY <1>1, <1>3, <2>1, <3>1 DEF RepeatsCollapse
  <2>2. CASE j = n + 1
    <3>1. tickets'[j] = t /\ i \in 1 .. scratch[w].seen
      BY <1>1, <1>2, <2>2
    <3>2. scratch[w].seen \in Nat /\ scratch[w].seen <= n
      BY <1>1, <1>2 DEF TicketRecord
    <3>3. tickets'[i] = tickets[i]
      BY <1>1, <3>1, <3>2
    <3>4. SawNoRepeat(w) /\ pc[w] = "commit"
      BY DEF IntakeInv, WorkersOK, Commit
    <3> QED BY <1>2, <3>1, <3>3, <3>4 DEF SawNoRepeat
  <2> QED BY <1>5, <2>1, <2>2
<1>8. NoOrphanCustomer'
  <2> SUFFICES ASSUME NEW d \in Emails
               PROVE  customers'[d] # None
                        <=> \E i \in 1 .. n + 1 : tickets'[i].request.email = d
    BY <1>1 DEF NoOrphanCustomer
  <2>1. customers[d] # None <=> \E i \in 1 .. n : tickets[i].request.email = d
    BY <1>1, <1>3 DEF NoOrphanCustomer
  <2>2. (n + 1) \in 1 .. n + 1 /\ \A i \in 1 .. n : i \in 1 .. n + 1
    BY <1>1
  <2>3. CASE d = e
    BY <1>1, <1>2, <2>2, <2>3
  <2>4. CASE d # e
    <3>1. tickets'[n + 1].request.email # d
      BY <1>1, <1>2, <2>4
    <3> QED BY <1>1, <1>5, <2>1, <2>2, <2>4, <3>1
  <2> QED BY <2>3, <2>4
<1>9. NameIsTrusted'
  <2> DEFINE Mine(d) == {j \in DOMAIN tickets : tickets[j].request.email = d}
             MineNow(d) == {j \in DOMAIN tickets' : tickets'[j].request.email = d}
             Trusted(d) == \E j \in Mine(d) :
               /\ tickets[j].request.name = customers[d]
               /\ tickets[j].request.agent \/ \A k \in Mine(d) : j <= k
             TrustedNow(d) == \E j \in MineNow(d) :
               /\ tickets'[j].request.name = customers'[d]
               /\ tickets'[j].request.agent \/ \A k \in MineNow(d) : j <= k
  <2>1. \A i \in 1 .. n : Trusted(tickets[i].request.email)
    <3>1. \A i \in DOMAIN tickets : Trusted(tickets[i].request.email)
      BY <1>3, Zenon DEF NameIsTrusted
    <3> HIDE DEF Trusted
    <3> QED BY <1>1, <3>1
  <2>2. (n + 1) \in 1 .. n + 1 /\ \A i \in 1 .. n : i \in 1 .. n + 1 /\ i <= n + 1
    BY <1>1
  <2>3. \A d \in Emails \ {e} : MineNow(d) = Mine(d)
    BY <1>1, <1>2, <1>5, <2>2
  <2>4. MineNow(e) = Mine(e) \cup {n + 1}
    BY <1>1, <1>2, <1>5, <2>2
  <2>5. TrustedNow(e)
    <3>1. CASE scratch[w].renames
      BY <1>1, <1>2, <2>4, <3>1
    <3>2. CASE scratch[w].inserts
      <4>1. Mine(e) = {}
        BY <1>1, <1>3, <3>2 DEF NoOrphanCustomer
      <4>2. n + 1 <= n + 1
        BY <1>1
      <4> QED BY <1>1, <1>2, <2>4, <3>2, <4>1, <4>2
    <3>3. CASE ~scratch[w].inserts /\ ~scratch[w].renames
      <4>1. PICK i \in 1 .. n : tickets[i].request.email = e
        BY <1>1, <1>3, <3>3 DEF NoOrphanCustomer
      <4>2. Trusted(e) /\ customers'[e] = customers[e]
        <5> HIDE DEF Trusted
        <5> QED BY <1>1, <2>1, <3>3, <4>1
      <4>3. PICK j \in Mine(e) :
              /\ tickets[j].request.name = customers[e]
              /\ tickets[j].request.agent \/ \A k \in Mine(e) : j <= k
        BY <4>2
      <4>4. j \in MineNow(e) /\ tickets'[j] = tickets[j] /\ j <= n + 1
        BY <1>1, <2>2, <2>4, <4>3
      <4> QED BY <2>4, <4>2, <4>3, <4>4
    <3> QED BY <3>1, <3>2, <3>3
  <2>6. \A i \in 1 .. n + 1 : TrustedNow(tickets'[i].request.email)
    <3> SUFFICES ASSUME NEW i \in 1 .. n + 1, tickets'[i].request.email # e
                 PROVE  TrustedNow(tickets'[i].request.email)
      BY <2>5
    <3> DEFINE d == tickets'[i].request.email
    <3>1. i \in 1 .. n /\ tickets'[i] = tickets[i]
      BY <1>1, <1>2, <1>5
    <3>2. d \in Emails
      BY <1>3, <3>1, TicketFields, SubmissionFields DEF n
    <3>3. customers'[d] = customers[d] /\ MineNow(d) = Mine(d)
      BY <1>1, <2>3, <3>2
    <3>4. \A j \in Mine(d) : tickets'[j] = tickets[j]
      BY <1>1
    <3>5. Trusted(d)
      BY <2>1, <3>1
    <3> QED BY <3>3, <3>4, <3>5
  <2>7. \A i \in DOMAIN tickets' : TrustedNow(tickets'[i].request.email)
    <3> HIDE DEF TrustedNow
    <3> QED BY <1>1, <2>6
  <2> QED BY <2>7, Zenon DEF NameIsTrusted
<1>10. WorkersOK' /\ OneInserter'
  BY CommitWorkersOK
<1> QED BY <1>6, <1>7, <1>8, <1>9, <1>10 DEF IntakeInv

(* Time only makes what was past more so.                                  *)
LEMMA TickIntakeInv ==
  ASSUME IntakeInv, Tick
  PROVE  IntakeInv'
<1>1. /\ clock \in Nat /\ clock' = clock + 1
      /\ UNCHANGED <<tickets, customers, pc, request, scratch>>
  BY DEF Tick, IntakeInv, TicketsOK
<1>2. TicketsOK' /\ RepeatsCollapse' /\ NoOrphanCustomer' /\ NameIsTrusted' /\ OneInserter'
  <2>1. TicketsOK'
    BY <1>1 DEF IntakeInv, TicketsOK
  <2>2. RepeatsCollapse'
    BY <1>1 DEF IntakeInv, RepeatsCollapse
  <2>3. NoOrphanCustomer'
    BY <1>1 DEF IntakeInv, NoOrphanCustomer
  <2>4. NameIsTrusted'
    BY <1>1 DEF IntakeInv, NameIsTrusted
  <2>5. OneInserter'
    BY <1>1 DEF IntakeInv, OneInserter
  <2> QED BY <2>1, <2>2, <2>3, <2>4, <2>5
<1>3. ASSUME NEW w \in Workers PROVE WorkerOK(w)' /\ SawNoRepeat(w)'
  <2>1. WorkerOK(w) /\ SawNoRepeat(w)
    BY DEF IntakeInv, WorkersOK
  <2>2. WorkerOK(w)'
    BY <1>1, <2>1 DEF WorkerOK
  <2>3. SawNoRepeat(w)'
    <3> SUFFICES ASSUME NEW i \in 1 .. scratch[w].seen,
                        Repeats(request[w], tickets[i].request)
                 PROVE  tickets[i].created_at + WindowOf(request[w]) < clock + 1
      BY <1>1, <2>1 DEF SawNoRepeat
    <3>1. tickets[i].created_at + WindowOf(request[w]) < clock
      BY <2>1 DEF SawNoRepeat
    <3>2. scratch[w].seen \in Nat /\ scratch[w].seen <= Len(tickets) /\ pc[w] # "idle"
      BY <2>1 DEF WorkerOK, SawNoRepeat
    <3>3. Len(tickets) \in Nat /\ TicketsOK
      BY DEF IntakeInv, TicketsOK
    <3>4. i \in 1 .. Len(tickets)
      BY <3>2, <3>3
    <3>5. tickets[i].created_at \in Nat /\ WindowOf(request[w]) \in Nat
      BY <2>1, <3>2, <3>3, <3>4, TicketFields, SubmissionFields DEF WorkerOK
    <3> QED BY <1>1, <3>1, <3>5
  <2> QED BY <2>2, <2>3
<1>4. WorkersOK'
  BY <1>1, <1>3 DEF IntakeInv, WorkersOK
<1> QED BY <1>2, <1>4 DEF IntakeInv

-----------------------------------------------------------------------------
LEMMA NextIntakeInv == IntakeInv /\ [Next]_intakeVars => IntakeInv'
<1> SUFFICES ASSUME IntakeInv, [Next]_intakeVars PROVE IntakeInv'
  OBVIOUS
<1>1. ASSUME NEW w \in Workers, Serve(w) PROVE IntakeInv'
  <2>1. CASE Replay(w) \/ Throttle(w)
    BY <2>1, LeaveIntakeInv DEF Replay, Throttle
  <2>2. CASE FindNoDuplicate(w)
    BY <2>2, FindNoDuplicateIntakeInv
  <2>3. CASE ReadBudget(w) \/ SpendBudget(w)
    BY <2>3, ReadBudgetIntakeInv, SpendBudgetIntakeInv
  <2>4. CASE FindCustomer(w) \/ InsertCustomer(w) \/ LoseInsert(w)
    BY <2>4, FindCustomerIntakeInv, InsertCustomerIntakeInv, LoseInsertIntakeInv
  <2>5. CASE WriteTicket(w) \/ Commit(w)
    BY <2>5, WriteTicketIntakeInv, CommitIntakeInv
  <2> QED BY <1>1, <2>1, <2>2, <2>3, <2>4, <2>5 DEF Serve
<1>2. ASSUME NEW w \in Workers, Receive(w) PROVE IntakeInv'
  BY <1>2, ReceiveIntakeInv
<1>3. ASSUME NEW w \in Workers, Crash(w) PROVE IntakeInv'
  BY <1>3, LeaveIntakeInv DEF Crash
<1>4. CASE Tick
  BY <1>4, TickIntakeInv
<1>5. CASE UNCHANGED intakeVars
  <2>1. /\ UNCHANGED <<clock, tickets, customers>>
        /\ UNCHANGED <<pc, request, scratch>>
    BY <1>5 DEF intakeVars
  <2>2. TicketsOK' /\ WorkersOK' /\ OneInserter'
    BY <2>1 DEF IntakeInv, TicketsOK, WorkersOK, WorkerOK, SawNoRepeat, OneInserter
  <2>3. RepeatsCollapse' /\ NoOrphanCustomer' /\ NameIsTrusted'
    BY <2>1 DEF IntakeInv, RepeatsCollapse, NoOrphanCustomer, NameIsTrusted
  <2> QED BY <2>2, <2>3 DEF IntakeInv
<1> QED BY <1>1, <1>2, <1>3, <1>4, <1>5 DEF Next

LEMMA IntakeInvariance == Spec => []IntakeInv
<1> QED BY InitIntakeInv, NextIntakeInv, PTL DEF Spec

(* A repeat that is checked after the first ticket was committed opens no  *)
(* second one, for any windows, keys, doors and any number of workers.     *)
THEOREM RepeatsAnsweredOnce == Spec => []RepeatsCollapse
<1>1. IntakeInv => RepeatsCollapse
  BY DEF IntakeInv
<1> QED BY <1>1, IntakeInvariance, PTL

(* No customer without a ticket and no ticket without a customer, wherever *)
(* a worker dies and however many race for the customer's row.             *)
THEOREM CustomersComeWithTickets == Spec => []NoOrphanCustomer
<1>1. IntakeInv => NoOrphanCustomer
  BY DEF IntakeInv
<1> QED BY <1>1, IntakeInvariance, PTL

(* The public form never renames a customer, in any race.                  *)
THEOREM PublicCannotRename == Spec => []NameIsTrusted
<1>1. IntakeInv => NameIsTrusted
  BY DEF IntakeInv
<1> QED BY <1>1, IntakeInvariance, PTL

-----------------------------------------------------------------------------
(* The throttle.                                                           *)
LEMMA Least ==
  ASSUME NEW S \in SUBSET Nat, S # {}
  PROVE  \E x \in S : \A y \in S : x <= y
<1>1. PICK x \in S : \A y \in S : ~(<<y, x>> \in OpToRel(<, Nat))
  BY NatLessThanWellFounded, WFMin
<1>2. \A y \in S : ~(y < x)
  BY <1>1 DEF OpToRel
<1> QED BY <1>2

LEMMA StampsList ==
  ASSUME NEW h \in Stamps
  PROVE  /\ Len(h) \in Nat /\ DOMAIN h = 1 .. Len(h)
         /\ \A i \in 1 .. Len(h) : h[i] \in 0 .. MaxClock /\ h[i] \in Nat
<1>1. Len(h) \in Nat /\ DOMAIN h = 1 .. Len(h) /\ h \in [1 .. Len(h) -> 0 .. MaxClock]
  BY IntakeAssumption DEF Stamps
<1> QED BY <1>1

(* What is left of a list is its beginning, up to the last entry of the    *)
(* last hour: every such entry is in it.                                   *)
LEMMA PrunedList ==
  ASSUME NEW h \in Stamps, clock \in Nat
  PROVE  \E n \in 0 .. Len(h) :
           /\ Pruned(h) \in Stamps /\ Len(Pruned(h)) = n
           /\ \A i \in 1 .. n : Pruned(h)[i] = h[i]
           /\ \A i \in 1 .. Len(h) : h[i] + Hour > clock => i \in 1 .. n
<1> DEFINE kept == {i \in DOMAIN h : \E j \in i .. Len(h) : h[j] + Hour > clock}
           Out == {i \in Nat : \A j \in i + 1 .. Len(h) : ~(h[j] + Hour > clock)}
<1>1. /\ DOMAIN h = 1 .. Len(h) /\ Len(h) \in Nat /\ h \in [1 .. Len(h) -> 0 .. MaxClock]
      /\ Hour \in Nat
  BY IntakeAssumption DEF Stamps
<1>2. PICK n \in Out : \A m \in Out : n <= m
  <2>1. Out \in SUBSET Nat /\ Len(h) \in Out
    BY <1>1
  <2> HIDE DEF Out
  <2> QED BY <2>1, Least
<1>3. n \in 0 .. Len(h)
  <2>1. Len(h) \in Out
    BY <1>1
  <2> QED BY <1>1, <1>2, <2>1
<1>4. \A j \in n + 1 .. Len(h) : ~(h[j] + Hour > clock)
  BY <1>2
<1>5. n > 0 => h[n] + Hour > clock
  <2> SUFFICES ASSUME n > 0, ~(h[n] + Hour > clock) PROVE FALSE
    OBVIOUS
  <2>1. \A j \in n .. Len(h) : ~(h[j] + Hour > clock)
    <3> TAKE j \in n .. Len(h)
    <3>1. CASE j = n
      BY <3>1
    <3>2. CASE j # n
      <4>1. j \in n + 1 .. Len(h)
        BY <1>1, <1>3, <3>2
      <4> QED BY <1>4, <4>1
    <3> QED BY <3>1, <3>2
  <2>2. n - 1 \in Out
    BY <1>3, <2>1
  <2> QED BY <1>2, <1>3, <2>2
<1>6. kept = 1 .. n
  <2>1. ASSUME NEW i \in 1 .. n PROVE i \in kept
    <3>1. n \in i .. Len(h) /\ i \in DOMAIN h /\ n > 0
      BY <1>1, <1>3
    <3> QED BY <1>5, <3>1
  <2>2. ASSUME NEW i \in kept PROVE i \in 1 .. n
    <3>1. PICK j \in i .. Len(h) : h[j] + Hour > clock
      OBVIOUS
    <3>2. ~(j \in n + 1 .. Len(h))
      BY <1>4, <3>1
    <3> QED BY <1>1, <1>3, <3>1, <3>2
  <2> QED BY <2>1, <2>2
<1>7. Pruned(h) = [i \in 1 .. n |-> h[i]]
  BY <1>6 DEF Pruned
<1>8. [i \in 1 .. n |-> h[i]] \in [1 .. n -> 0 .. MaxClock]
  BY <1>1, <1>3
<1>9. \A i \in 1 .. Len(h) : h[i] + Hour > clock => i \in 1 .. n
  <2> TAKE i \in 1 .. Len(h)
  <2>1. ~(i \in n + 1 .. Len(h)) => i \in 1 .. n
    BY <1>1, <1>3
  <2> QED BY <1>4, <2>1
<1> HIDE DEF kept, Out
<1>10. Pruned(h) \in Stamps /\ Len(Pruned(h)) = n
  BY <1>3, <1>7, <1>8 DEF Stamps
<1>11. \A i \in 1 .. n : Pruned(h)[i] = h[i]
  BY <1>7
<1> QED BY <1>3, <1>9, <1>10, <1>11

Scratch ==
  [seen: Nat, spent: Stamps, at: 0 .. MaxClock, name: Names \cup {None},
   inserts: BOOLEAN, renames: BOOLEAN, created_at: 0 .. MaxClock]

CommittedTicket ==
  [request: Submissions, dedupe_hash: {DedupeHash(s) : s \in Submissions},
   created_at: 0 .. MaxClock, seen: Nat, spent_at: 0 .. MaxClock]

(* A worker that is about to spend the budget found room for it.           *)
RoomLeft ==
  \A w \in Workers : pc[w] = "spend" => Len(scratch[w].spent) < Budget

TypeInv == TypeOK /\ RoomLeft

LEMMA MayBeBlank == NothingRead \in Scratch
<1>1. 0 \in 0 .. MaxClock /\ <<>> \in Stamps
  BY IntakeAssumption DEF Stamps
<1> QED BY <1>1 DEF NothingRead, Scratch

LEMMA InitTypeInv == Init => TypeInv
<1> SUFFICES ASSUME Init PROVE TypeInv
  OBVIOUS
<1>1. 0 \in 0 .. MaxClock /\ 0 \in 0 .. MaxRequests /\ Budget \in Nat
  BY IntakeAssumption
<1>2. scratch \in [Workers -> Scratch]
  BY MayBeBlank DEF Init
<1>3. \A e \in Emails : cache[e] = <<>>
  BY DEF Init
<1>4. cache \in [Emails -> Stamps] /\ \A e \in Emails : Len(cache[e]) <= Budget
  <2>1. <<>> \in Stamps /\ Len(<<>>) <= Budget
    BY <1>1 DEF Stamps
  <2> QED BY <1>3, <2>1 DEF Init
<1>5. /\ clock \in 0 .. MaxClock /\ received \in 0 .. MaxRequests
      /\ tickets \in Seq(CommittedTicket)
      /\ customers \in [Emails -> Names \cup {None}]
      /\ pc \in [Workers -> Positions] /\ request \in [Workers -> Submissions \cup {None}]
  BY <1>1 DEF Init, Positions
<1>6. TypeOK
  BY <1>2, <1>4, <1>5 DEF TypeOK, Scratch, CommittedTicket, Positions
<1>7. RoomLeft
  BY DEF Init, RoomLeft
<1> QED BY <1>6, <1>7 DEF TypeInv

(* A step of one worker that changes nothing but what it knows.            *)
LEMMA OneWorkerTyped ==
  ASSUME TypeInv, NEW w \in Workers, UNCHANGED <<clock, tickets, customers, cache>>,
         received' \in 0 .. MaxRequests,
         NEW to \in Positions, pc' = [pc EXCEPT ![w] = to],
         NEW s \in Submissions \cup {None}, request' = [request EXCEPT ![w] = s],
         NEW x \in Scratch, scratch' = [scratch EXCEPT ![w] = x],
         to = "spend" => Len(x.spent) < Budget
  PROVE  TypeInv'
<1>1. /\ pc \in [Workers -> Positions] /\ request \in [Workers -> Submissions \cup {None}]
      /\ scratch \in [Workers -> Scratch]
  BY DEF TypeInv, TypeOK, Positions, Scratch
<1>2. /\ pc' \in [Workers -> Positions] /\ request' \in [Workers -> Submissions \cup {None}]
      /\ scratch' \in [Workers -> Scratch]
  BY <1>1
<1>3. TypeOK'
  BY <1>2 DEF TypeInv, TypeOK, Positions, Scratch
<1>4. RoomLeft'
  BY <1>1 DEF TypeInv, RoomLeft
<1> QED BY <1>3, <1>4 DEF TypeInv

LEMMA ServeTyped ==
  ASSUME TypeInv, IntakeInv, NEW w \in Workers, Serve(w)
  PROVE  TypeInv'
<1> DEFINE s == request[w]
           x == scratch[w]
<1>1. /\ pc \in [Workers -> Positions] /\ request \in [Workers -> Submissions \cup {None}]
      /\ scratch \in [Workers -> Scratch] /\ cache \in [Emails -> Stamps]
      /\ customers \in [Emails -> Names \cup {None}]
      /\ clock \in 0 .. MaxClock /\ received \in 0 .. MaxRequests
      /\ tickets \in Seq(CommittedTicket)
  BY DEF TypeInv, TypeOK, Positions, Scratch, CommittedTicket
<1>2. x \in Scratch /\ request = [request EXCEPT ![w] = s] /\ s \in Submissions \cup {None}
      /\ scratch = [scratch EXCEPT ![w] = x]
  BY <1>1
<1>3. pc[w] # "idle" => s \in Submissions /\ s.email \in Emails
  BY SubmissionFields DEF IntakeInv, WorkersOK, WorkerOK
<1>4. \A f \in Stamps : Len(f) \in Nat
  BY DEF Stamps
<1>5. CASE Replay(w) \/ Throttle(w)
  <2>1. /\ UNCHANGED <<clock, tickets, customers, cache, received>>
        /\ pc' = [pc EXCEPT ![w] = "idle"]
        /\ request' = [request EXCEPT ![w] = None]
        /\ scratch' = [scratch EXCEPT ![w] = NothingRead]
    BY <1>5 DEF Replay, Throttle, Leave
  <2> QED BY <1>1, <2>1, MayBeBlank, OneWorkerTyped DEF Positions
<1>6. CASE FindNoDuplicate(w)
  <2> DEFINE to == IF s.agent THEN "find" ELSE "quota"
             y == [x EXCEPT !.seen = Len(tickets)]
  <2>1. /\ UNCHANGED <<clock, tickets, customers, cache, received, request>>
        /\ pc' = [pc EXCEPT ![w] = to]
        /\ scratch' = [scratch EXCEPT ![w] = y]
    BY <1>6 DEF FindNoDuplicate, Goto
  <2>2. to \in Positions /\ to # "spend"
    BY DEF Positions
  <2>3. Len(tickets) \in Nat
    BY <1>1
  <2>4. y \in Scratch
    BY <1>2, <2>3 DEF Scratch
  <2> HIDE DEF to, y, x, s
  <2> QED BY <1>1, <1>2, <2>1, <2>2, <2>4, OneWorkerTyped
<1>7. CASE ReadBudget(w)
  <2> DEFINE spent == Pruned(cache[s.email])
             y == [x EXCEPT !.spent = spent, !.at = clock]
  <2>1. /\ UNCHANGED <<clock, tickets, customers, cache, received, request>>
        /\ pc' = [pc EXCEPT ![w] = "spend"] /\ Len(spent) < Budget
        /\ scratch' = [scratch EXCEPT ![w] = y] /\ pc[w] = "quota"
    BY <1>7 DEF ReadBudget, Move, Goto
  <2>2. cache[s.email] \in Stamps /\ clock \in Nat
    BY <1>1, <1>3, <2>1
  <2>3. spent \in Stamps
    BY <2>2, PrunedList
  <2> HIDE DEF spent
  <2>4. y \in Scratch /\ y.spent = spent
    BY <1>1, <1>2, <2>3 DEF Scratch
  <2> HIDE DEF y, x, s
  <2> QED BY <1>1, <1>2, <2>1, <2>4, OneWorkerTyped DEF Positions
<1>8. CASE SpendBudget(w)
  <2> DEFINE new == <<x.at>> \o x.spent
  <2>1. /\ UNCHANGED <<clock, tickets, customers, received, request, scratch>>
        /\ pc' = [pc EXCEPT ![w] = "find"] /\ pc[w] = "spend"
        /\ cache' = [cache EXCEPT ![s.email] = new]
    BY <1>8 DEF SpendBudget, Move, Goto
  <2>2. Len(x.spent) < Budget /\ x.spent \in Stamps /\ x.at \in 0 .. MaxClock
    BY <1>2, <2>1 DEF TypeInv, RoomLeft, Scratch
  <2>3. new \in Stamps /\ Len(new) <= Budget
    <3>1. <<x.at>> \in Stamps /\ Len(<<x.at>>) = 1
      BY <2>2 DEF Stamps
    <3> HIDE DEF x
    <3> QED BY <2>2, <3>1, IntakeAssumption DEF Stamps
  <2> HIDE DEF new
  <2>4. /\ cache' \in [Emails -> Stamps]
        /\ \A e \in Emails : Len(cache'[e]) <= Budget
    BY <1>1, <1>3, <2>1, <2>3 DEF TypeInv, TypeOK
  <2>5. pc' \in [Workers -> Positions]
    BY <1>1, <2>1 DEF Positions
  <2>6. TypeOK'
    BY <2>1, <2>4, <2>5 DEF TypeInv, TypeOK, Positions
  <2>7. RoomLeft'
    BY <1>1, <2>1 DEF TypeInv, RoomLeft
  <2> QED BY <2>6, <2>7 DEF TypeInv
<1>9. CASE FindCustomer(w) \/ LoseInsert(w)
  <2> DEFINE known == customers[s.email]
             y == [x EXCEPT !.name = known]
  <2>1. PICK to \in {"insert", "write"} :
          /\ UNCHANGED <<clock, tickets, customers, cache, received, request>>
          /\ pc' = [pc EXCEPT ![w] = to]
          /\ scratch' = [scratch EXCEPT ![w] = y] /\ pc[w] # "idle"
    BY <1>9 DEF FindCustomer, LoseInsert, Move, Goto
  <2>2. known \in Names \cup {None}
    BY <1>1, <1>3, <2>1
  <2> HIDE DEF known
  <2>3. y \in Scratch
    BY <1>2, <2>2 DEF Scratch
  <2> HIDE DEF y, x, s
  <2> QED BY <1>1, <1>2, <2>1, <2>3, OneWorkerTyped DEF Positions
<1>10. CASE InsertCustomer(w)
  <2> DEFINE y == [x EXCEPT !.inserts = TRUE]
  <2>1. /\ UNCHANGED <<clock, tickets, customers, cache, received, request>>
        /\ pc' = [pc EXCEPT ![w] = "write"]
        /\ scratch' = [scratch EXCEPT ![w] = y]
    BY <1>10 DEF InsertCustomer, Move, Goto
  <2>2. y \in Scratch
    BY <1>2 DEF Scratch
  <2> HIDE DEF y, x, s
  <2> QED BY <1>1, <1>2, <2>1, <2>2, OneWorkerTyped DEF Positions
<1>11. CASE WriteTicket(w)
  <2> DEFINE y == [x EXCEPT !.renames = Corrects(w), !.created_at = clock]
  <2>1. /\ UNCHANGED <<clock, tickets, customers, cache, received, request>>
        /\ pc' = [pc EXCEPT ![w] = "commit"]
        /\ scratch' = [scratch EXCEPT ![w] = y]
    BY <1>11 DEF WriteTicket, Move, Goto
  <2>2. Corrects(w) \in BOOLEAN
    BY DEF Corrects
  <2>3. y \in Scratch
    BY <1>1, <1>2, <2>2 DEF Scratch
  <2> HIDE DEF y, x, s
  <2> QED BY <1>1, <1>2, <2>1, <2>3, OneWorkerTyped DEF Positions
<1>12. CASE Commit(w)
  <2>1. /\ UNCHANGED <<clock, cache, received>>
        /\ pc' = [pc EXCEPT ![w] = "idle"]
        /\ request' = [request EXCEPT ![w] = None]
        /\ scratch' = [scratch EXCEPT ![w] = NothingRead]
        /\ tickets' = Append(tickets, NewTicket(w)) /\ pc[w] = "commit"
    BY <1>12 DEF Commit, Leave
  <2>2. customers' \in [Emails -> Names \cup {None}]
    BY <1>12, Committed
  <2>3. NewTicket(w) \in CommittedTicket
    BY <1>2, <1>3, <2>1 DEF NewTicket, CommittedTicket, Scratch
  <2>4. tickets' \in Seq(CommittedTicket)
    BY <1>1, <2>1, <2>3, AppendProperties
  <2>5. /\ pc' \in [Workers -> Positions] /\ request' \in [Workers -> Submissions \cup {None}]
        /\ scratch' \in [Workers -> Scratch]
    BY <1>1, <2>1, MayBeBlank DEF Positions
  <2>6. TypeOK'
    BY <2>1, <2>2, <2>4, <2>5 DEF TypeInv, TypeOK, Positions, Scratch, CommittedTicket
  <2>7. RoomLeft'
    BY <1>1, <2>1 DEF TypeInv, RoomLeft
  <2> QED BY <2>6, <2>7 DEF TypeInv
<1> QED BY <1>5, <1>6, <1>7, <1>8, <1>9, <1>10, <1>11, <1>12 DEF Serve

LEMMA NextTypeInv == TypeInv /\ IntakeInv /\ [Next]_intakeVars => TypeInv'
<1> SUFFICES ASSUME TypeInv, IntakeInv, [Next]_intakeVars PROVE TypeInv'
  OBVIOUS
<1>1. ASSUME NEW w \in Workers, Serve(w) PROVE TypeInv'
  BY <1>1, ServeTyped
<1>2. ASSUME NEW w \in Workers, Receive(w) PROVE TypeInv'
  <2>1. PICK s \in Submissions :
          /\ Move(w, "idle", IF Deduplicates(s) THEN "check" ELSE "find")
          /\ request' = [request EXCEPT ![w] = s]
          /\ received < MaxRequests /\ received' = received + 1
          /\ UNCHANGED <<clock, tickets, customers, cache, scratch>>
    BY <1>2 DEF Receive
  <2>2. PICK to \in {"check", "find"} : pc' = [pc EXCEPT ![w] = to]
    BY <2>1 DEF Move, Goto
  <2>3. scratch \in [Workers -> Scratch]
    BY DEF TypeInv, TypeOK, Scratch
  <2>4. scratch[w] \in Scratch /\ scratch' = [scratch EXCEPT ![w] = scratch[w]]
    BY <2>1, <2>3
  <2>5. received' \in 0 .. MaxRequests
    BY <2>1, IntakeAssumption DEF TypeInv, TypeOK
  <2> QED BY <2>1, <2>2, <2>4, <2>5, OneWorkerTyped DEF Positions
<1>3. ASSUME NEW w \in Workers, Crash(w) PROVE TypeInv'
  <2>1. /\ UNCHANGED <<clock, tickets, customers, cache, received>>
        /\ pc' = [pc EXCEPT ![w] = "idle"]
        /\ request' = [request EXCEPT ![w] = None]
        /\ scratch' = [scratch EXCEPT ![w] = NothingRead]
    BY <1>3 DEF Crash, Leave
  <2> QED BY <2>1, MayBeBlank, OneWorkerTyped DEF Positions, TypeInv, TypeOK
<1>4. CASE Tick
  BY <1>4, IntakeAssumption DEF Tick, TypeInv, TypeOK, RoomLeft
<1>5. CASE UNCHANGED intakeVars
  BY <1>5 DEF intakeVars, TypeInv, TypeOK, RoomLeft
<1> QED BY <1>1, <1>2, <1>3, <1>4, <1>5 DEF Next

LEMMA TypeInvariance == Spec => []TypeInv
<1> QED BY InitTypeInv, NextTypeInv, IntakeInvariance, PTL DEF Spec

(* Every variable holds what it is declared to hold; in particular the     *)
(* history of an address in the cache never outgrows its budget, although  *)
(* workers overwrite it with lists they read before.                       *)
THEOREM IntakeTypes == Spec => []TypeOK
<1>1. TypeInv => TypeOK
  BY DEF TypeInv
<1> QED BY <1>1, TypeInvariance, PTL

-----------------------------------------------------------------------------
(* The hourly budget of one address, while no two of its submissions are   *)
(* between the throttle's read and its write.                              *)
Single(e) == Cardinality({w \in Workers : pc[w] = "spend" /\ request[w].email = e}) <= 1

(* What the budget of e was spent on: its public tickets, and the public   *)
(* submissions that are past the throttle and have none yet.               *)
Paying(e, w) ==
  /\ pc[w] \in {"find", "insert", "write", "commit"}
  /\ request[w].email = e /\ ~request[w].agent

Spends(e) ==
  {<<0, i>> : i \in OpenedInPublic(e)}
  \cup {<<1, w>> : w \in {v \in Workers : Paying(e, v)}}

When(x) == IF x[1] = 0 THEN tickets[x[2]].spent_at ELSE scratch[x[2]].at

Since(e, t) == {x \in Spends(e) : When(x) >= t}

Within(e, t) == {x \in Spends(e) : t <= When(x) /\ When(x) < t + Hour}

Logged(list, t) == {i \in DOMAIN list : list[i] >= t}

(* The list remembers what was spent in the hour before now.               *)
Remembers(e, list, now) ==
  \A t \in Nat : t + Hour > now => Cardinality(Since(e, t)) <= Cardinality(Logged(list, t))

Counted(e) ==
  /\ IsFiniteSet(Spends(e))
  /\ \A x \in Spends(e) : When(x) \in Nat /\ When(x) <= clock
  /\ \A t \in Nat : Cardinality(Within(e, t)) <= Budget
  /\ Remembers(e, cache[e], clock)

(* What a submission knows between the read and the write: nothing was     *)
(* spent since it read.                                                    *)
Reckons(e, w) ==
  /\ scratch[w].at <= clock
  /\ \A x \in Spends(e) : When(x) <= scratch[w].at
  /\ Remembers(e, scratch[w].spent, scratch[w].at)

ReckonersOK(e) ==
  \A w \in Workers :
    /\ pc[w] = "spend" /\ request[w].email = e => Reckons(e, w)
    /\ pc[w] \in {"quota", "spend"} => ~request[w].agent

BudgetInv(e) == Counted(e) /\ ReckonersOK(e)

LEMMA LoggedFinite ==
  ASSUME NEW list \in Stamps, NEW t
  PROVE  /\ IsFiniteSet(Logged(list, t)) /\ Cardinality(Logged(list, t)) \in Nat
         /\ Cardinality(Logged(list, t)) <= Len(list)
<1>1. Len(list) \in Nat /\ DOMAIN list = 1 .. Len(list)
  BY DEF Stamps
<1>2. IsFiniteSet(1 .. Len(list)) /\ Cardinality(1 .. Len(list)) = Len(list)
  <2> DEFINE n == Len(list)
  <2>1. n \in Nat /\ 1 \in Int /\ n \in Int
    BY <1>1
  <2> HIDE DEF n
  <2>2. /\ IsFiniteSet(1 .. n)
        /\ Cardinality(1 .. n) = IF 1 > n THEN 0 ELSE n - 1 + 1
    BY <2>1, FS_Interval
  <2>3. Cardinality(1 .. n) = n
    BY <2>1, <2>2
  <2> QED BY <2>2, <2>3 DEF n
<1>3. Logged(list, t) \in SUBSET (1 .. Len(list))
  BY <1>1 DEF Logged
<1> QED BY <1>2, <1>3, FS_Subset, FS_CardinalityType

LEMMA CountsFinite ==
  ASSUME NEW e, IsFiniteSet(Spends(e)), NEW t
  PROVE  /\ IsFiniteSet(Since(e, t)) /\ Cardinality(Since(e, t)) \in Nat
         /\ IsFiniteSet(Within(e, t)) /\ Cardinality(Within(e, t)) \in Nat
         /\ Cardinality(Within(e, t)) <= Cardinality(Since(e, t))
<1>1. Since(e, t) \in SUBSET Spends(e) /\ Within(e, t) \in SUBSET Since(e, t)
  <2>1. Since(e, t) \in SUBSET Spends(e)
    BY DEF Since
  <2>2. ASSUME NEW x \in Within(e, t) PROVE x \in Since(e, t)
    BY DEF Within, Since
  <2> QED BY <2>1, <2>2
<1>2. IsFiniteSet(Since(e, t))
  BY <1>1, FS_Subset
<1> QED BY <1>1, <1>2, FS_Subset, FS_CardinalityType

(* A list with one more entry at its head.                                 *)
LEMMA LoggedMore ==
  ASSUME NEW list \in Stamps, NEW a \in 0 .. MaxClock, NEW t \in Nat, t <= a,
         <<a>> \o list \in Stamps
  PROVE  Cardinality(Logged(list, t)) + 1 <= Cardinality(Logged(<<a>> \o list, t))
<1> DEFINE new == <<a>> \o list
           old == Logged(list, t)
           more == Logged(new, t)
           f == [i \in old |-> i + 1]
<1>1. /\ Len(list) \in Nat /\ DOMAIN list = 1 .. Len(list)
      /\ DOMAIN new = 1 .. Len(list) + 1 /\ new[1] = a
      /\ \A i \in 1 .. Len(list) : new[i + 1] = list[i]
  <2>1. <<a>> \in Stamps /\ Len(<<a>>) = 1
    BY DEF Stamps
  <2> QED BY <2>1 DEF Stamps
<1> HIDE DEF new
<1>2. f \in Injection(old, more \ {1})
  <2>1. \A i \in old : i \in Nat /\ i + 1 \in more \ {1}
    BY <1>1 DEF Logged
  <2>2. f \in [old -> more \ {1}]
    BY <2>1
  <2>3. \A i, j \in old : f[i] = f[j] => i = j
    BY <2>1
  <2> QED BY <2>2, <2>3 DEF Injection, IsInjective
<1>3. 1 \in more
  BY <1>1 DEF Logged
<1>4. IsFiniteSet(more) /\ Cardinality(more) \in Nat /\ Cardinality(old) \in Nat
  BY LoggedFinite DEF new
<1>5. IsFiniteSet(more \ {1}) /\ Cardinality(more \ {1}) = Cardinality(more) - 1
  BY <1>3, <1>4, FS_RemoveElement
<1>6. Cardinality(old) <= Cardinality(more \ {1})
  BY <1>2, <1>5, FS_Injection
<1> QED BY <1>4, <1>5, <1>6 DEF new

(* If whatever was spent after a step had been spent before it, at the     *)
(* same time, the budget is kept and every list still remembers it.        *)
LEMMA NoMoreSpends ==
  ASSUME NEW e, Counted(e), clock \in Nat, clock' \in Nat, clock <= clock',
         cache'[e] = cache[e], cache[e] \in Stamps,
         NEW f \in Injection(Spends(e)', Spends(e)),
         \A x \in Spends(e)' : When(x)' = When(f[x])
  PROVE  /\ Counted(e)'
         /\ \A list \in Stamps, now \in Nat :
              Remembers(e, list, now) => Remembers(e, list, now)'
         /\ \A a : (\A x \in Spends(e) : When(x) <= a) => \A x \in Spends(e)' : When(x)' <= a
<1> DEFINE S == Spends(e)
           N == Spends(e)'
<1>1. f \in [N -> S] /\ \A x, y \in N : f[x] = f[y] => x = y
  BY DEF Injection, IsInjective
<1>2. IsFiniteSet(S) /\ \A x \in S : When(x) \in Nat /\ When(x) <= clock
  BY DEF Counted
<1>3. IsFiniteSet(N)
  BY <1>2, FS_Injection
<1>4. \A x \in N : f[x] \in S /\ When(x)' = When(f[x])
  BY <1>1
<1>5. \A x \in N : When(x)' \in Nat /\ When(x)' <= clock'
  BY <1>2, <1>4
<1>6. ASSUME NEW t \in Nat
      PROVE  /\ Cardinality(Since(e, t)') <= Cardinality(Since(e, t))
             /\ Cardinality(Since(e, t)') \in Nat /\ Cardinality(Since(e, t)) \in Nat
             /\ Cardinality(Within(e, t)') <= Cardinality(Within(e, t))
             /\ Cardinality(Within(e, t)') \in Nat /\ Cardinality(Within(e, t)) \in Nat
  <2>1. /\ IsFiniteSet(Since(e, t)) /\ Cardinality(Since(e, t)) \in Nat
        /\ IsFiniteSet(Within(e, t)) /\ Cardinality(Within(e, t)) \in Nat
    BY <1>2, CountsFinite
  <2> DEFINE A == Since(e, t)
             B == Since(e, t)'
             C == Within(e, t)
             D == Within(e, t)'
             g == [x \in B |-> f[x]]
             h == [x \in D |-> f[x]]
  <2>2. \A x \in B : x \in N /\ f[x] \in A
    BY <1>4 DEF Since
  <2>3. \A x \in D : x \in N /\ f[x] \in C
    BY <1>4 DEF Within
  <2> HIDE DEF A, B, C, D, N, S
  <2>4. g \in Injection(B, A)
    <3>1. g \in [B -> A] /\ \A x, y \in B : g[x] = g[y] => x = y
      BY <1>1, <2>2
    <3> QED BY <3>1 DEF Injection, IsInjective
  <2>5. h \in Injection(D, C)
    <3>1. h \in [D -> C] /\ \A x, y \in D : h[x] = h[y] => x = y
      BY <1>1, <2>3
    <3> QED BY <3>1 DEF Injection, IsInjective
  <2>6. IsFiniteSet(A) /\ IsFiniteSet(C)
    BY <2>1 DEF A, C
  <2>7. /\ IsFiniteSet(B) /\ Cardinality(B) <= Cardinality(A)
        /\ IsFiniteSet(D) /\ Cardinality(D) <= Cardinality(C)
    BY <2>4, <2>5, <2>6, FS_Injection
  <2>8. Cardinality(B) \in Nat /\ Cardinality(D) \in Nat
    BY <2>7, FS_CardinalityType
  <2> QED BY <2>1, <2>7, <2>8 DEF A, B, C, D
<1>7. ASSUME NEW list \in Stamps, NEW now \in Nat, Remembers(e, list, now)
      PROVE  Remembers(e, list, now)'
  <2> SUFFICES ASSUME NEW t \in Nat, t + Hour > now
               PROVE  Cardinality(Since(e, t)') <= Cardinality(Logged(list, t))
    BY DEF Remembers, Logged
  <2>1. Cardinality(Since(e, t)) <= Cardinality(Logged(list, t))
    BY <1>7 DEF Remembers
  <2>2. Cardinality(Logged(list, t)) \in Nat
    BY LoggedFinite
  <2> QED BY <1>6, <2>1, <2>2
<1>8. Remembers(e, cache[e], clock)'
  <2>1. Remembers(e, cache[e], clock)
    BY DEF Counted
  <2> SUFFICES ASSUME NEW t \in Nat, t + Hour > clock'
               PROVE  Cardinality(Since(e, t)') <= Cardinality(Logged(cache[e], t))
    BY DEF Remembers, Logged
  <2>2. t + Hour > clock
    BY IntakeAssumption
  <2>3. Cardinality(Since(e, t)) <= Cardinality(Logged(cache[e], t))
    BY <2>1, <2>2 DEF Remembers
  <2>4. Cardinality(Logged(cache[e], t)) \in Nat
    BY LoggedFinite
  <2> QED BY <1>6, <2>3, <2>4
<1>9. \A t \in Nat : Cardinality(Within(e, t)') <= Budget
  <2> TAKE t \in Nat
  <2>1. Cardinality(Within(e, t)) <= Budget
    BY DEF Counted
  <2> QED BY <1>6, <2>1, IntakeAssumption
<1>10. Counted(e)'
  BY <1>3, <1>5, <1>8, <1>9 DEF Counted
<1>11. \A a : (\A x \in S : When(x) <= a) => \A x \in N : When(x)' <= a
  BY <1>4
<1> QED BY <1>7, <1>10, <1>11

(* A step after which nothing more is spent on e than before, and which    *)
(* lets nobody past the throttle's read unless it reckons rightly.         *)
LEMMA QuietBudget ==
  ASSUME NEW e \in Emails, BudgetInv(e), TypeInv, TypeInv', clock <= clock',
         cache'[e] = cache[e],
         NEW f \in Injection(Spends(e)', Spends(e)),
         \A x \in Spends(e)' : When(x)' = When(f[x]),
         \A v \in Workers :
           /\ pc'[v] = "spend" /\ request'[v].email = e =>
                \/ pc[v] = "spend" /\ request'[v] = request[v] /\ scratch'[v] = scratch[v]
                \/ Reckons(e, v)'
           /\ pc'[v] \in {"quota", "spend"} => ~request'[v].agent
  PROVE  BudgetInv(e)'
<1>1. clock \in Nat /\ clock' \in Nat /\ cache[e] \in Stamps /\ Counted(e)
  BY DEF TypeInv, TypeOK, BudgetInv
<1>2. /\ Counted(e)'
      /\ \A list \in Stamps, now \in Nat :
           Remembers(e, list, now) => Remembers(e, list, now)'
      /\ \A a : (\A x \in Spends(e) : When(x) <= a) => \A x \in Spends(e)' : When(x)' <= a
  BY <1>1, NoMoreSpends
<1>3. ASSUME NEW v \in Workers, pc'[v] = "spend", request'[v].email = e
      PROVE  Reckons(e, v)'
  <2>1. CASE pc[v] = "spend" /\ request'[v] = request[v] /\ scratch'[v] = scratch[v]
    <3>1. Reckons(e, v)
      BY <1>3, <2>1 DEF BudgetInv, ReckonersOK
    <3>2. scratch[v] \in Scratch
      BY DEF TypeInv, TypeOK, Scratch
    <3>3. scratch[v].spent \in Stamps /\ scratch[v].at \in Nat
      BY <3>2 DEF Scratch
    <3>4. scratch[v].at <= clock'
      BY <1>1, <3>1, <3>3 DEF Reckons
    <3>5. \A x \in Spends(e)' : When(x)' <= scratch[v].at
      BY <1>2, <3>1 DEF Reckons
    <3>6. Remembers(e, scratch[v].spent, scratch[v].at)'
      <4>1. Remembers(e, scratch[v].spent, scratch[v].at)
        BY <3>1 DEF Reckons
      <4> DEFINE list == scratch[v].spent
                 now == scratch[v].at
      <4>2. \A t \in Nat : t + Hour > now =>
              Cardinality(Since(e, t)') <= Cardinality(Logged(list, t))
        BY <1>2, <3>3, <4>1 DEF Remembers, Logged
      <4>3. list' = list /\ now' = now
        BY <2>1
      <4> QED BY <4>2, <4>3 DEF Remembers, Logged
    <3> QED BY <2>1, <3>4, <3>5, <3>6 DEF Reckons
  <2>2. CASE Reckons(e, v)'
    BY <2>2
  <2> QED BY <1>3, <2>1, <2>2
<1>4. ReckonersOK(e)'
  BY <1>3 DEF ReckonersOK
<1> QED BY <1>2, <1>4 DEF BudgetInv

(* The special case of a step that spends nothing: the identity.           *)
LEMMA NothingSpent ==
  ASSUME NEW e \in Emails, BudgetInv(e), TypeInv, TypeInv', clock <= clock',
         cache'[e] = cache[e], UNCHANGED tickets,
         \A v \in Workers :
           /\ Paying(e, v)' => Paying(e, v) /\ scratch'[v].at = scratch[v].at
           /\ pc'[v] = "spend" /\ request'[v].email = e =>
                \/ pc[v] = "spend" /\ request'[v] = request[v] /\ scratch'[v] = scratch[v]
                \/ (\A x \in Spends(e)' : x \in Spends(e) /\ When(x)' = When(x))
                     => Reckons(e, v)'
           /\ pc'[v] \in {"quota", "spend"} => ~request'[v].agent
  PROVE  BudgetInv(e)'
<1> DEFINE N == Spends(e)'
           S == Spends(e)
           f == [x \in N |-> x]
<1>1. \A x \in N : x \in S /\ When(x)' = When(x)
  <2> TAKE x \in N
  <2>1. OpenedInPublic(e)' = OpenedInPublic(e)
    BY DEF OpenedInPublic
  <2>2. CASE \E i \in OpenedInPublic(e) : x = <<0, i>>
    <3>1. PICK i \in OpenedInPublic(e) : x = <<0, i>>
      BY <2>2
    <3>2. x[1] = 0 /\ x[2] = i
      BY <3>1
    <3> QED BY <3>1, <3>2 DEF Spends, When
  <2>3. CASE \E v \in Workers : Paying(e, v)' /\ x = <<1, v>>
    <3>1. PICK v \in Workers : Paying(e, v)' /\ x = <<1, v>>
      BY <2>3
    <3>2. x[1] = 1 /\ x[2] = v
      BY <3>1
    <3>3. Paying(e, v) /\ scratch'[v].at = scratch[v].at
      BY <3>1
    <3>4. x \in Spends(e)
      BY <3>1, <3>3 DEF Spends
    <3> QED BY <3>2, <3>3, <3>4 DEF When
  <2> QED BY <2>1, <2>2, <2>3 DEF Spends
<1> HIDE DEF N, S
<1>2. f \in Injection(N, S)
  <2>1. f \in [N -> S] /\ \A x, y \in N : f[x] = f[y] => x = y
    BY <1>1
  <2> QED BY <2>1 DEF Injection, IsInjective
<1>3. \A x \in N : When(x)' = When(f[x])
  BY <1>1
<1>4. (\A x \in Spends(e)' : x \in Spends(e) /\ When(x)' = When(x))
  BY <1>1 DEF N, S
<1>5. \A v \in Workers :
        /\ pc'[v] = "spend" /\ request'[v].email = e =>
             \/ pc[v] = "spend" /\ request'[v] = request[v] /\ scratch'[v] = scratch[v]
             \/ Reckons(e, v)'
        /\ pc'[v] \in {"quota", "spend"} => ~request'[v].agent
  BY <1>4
<1> HIDE DEF f
<1> QED BY <1>2, <1>3, <1>5, QuietBudget DEF N, S

LEMMA WorkersKnown ==
  ASSUME TypeInv
  PROVE  /\ pc \in [Workers -> Positions] /\ request \in [Workers -> Submissions \cup {None}]
         /\ scratch \in [Workers -> Scratch] /\ cache \in [Emails -> Stamps]
         /\ clock \in Nat /\ clock \in 0 .. MaxClock
BY DEF TypeInv, TypeOK, Positions, Scratch

(* Whoever is done spends nothing.                                         *)
LEMMA LeaveBudget ==
  ASSUME NEW e \in Emails, BudgetInv(e), TypeInv, TypeInv', NEW w \in Workers, Leave(w),
         UNCHANGED <<clock, tickets, cache>>
  PROVE  BudgetInv(e)'
<1>1. /\ pc'[w] = "idle"
      /\ \A v \in Workers \ {w} :
           pc'[v] = pc[v] /\ request'[v] = request[v] /\ scratch'[v] = scratch[v]
  BY WorkersKnown DEF Leave
<1>2. ASSUME NEW v \in Workers
      PROVE  /\ Paying(e, v)' => Paying(e, v) /\ scratch'[v].at = scratch[v].at
             /\ pc'[v] = "spend" =>
                  pc[v] = "spend" /\ request'[v] = request[v] /\ scratch'[v] = scratch[v]
             /\ pc'[v] \in {"quota", "spend"} => ~request'[v].agent
  BY <1>1 DEF Paying, BudgetInv, ReckonersOK
<1> QED BY <1>2, NothingSpent, WorkersKnown

(* Steps of w that leave whether it pays, and what it paid, alone.         *)
LEMMA OwnWayBudget ==
  ASSUME NEW e \in Emails, BudgetInv(e), TypeInv, TypeInv', NEW w \in Workers,
         UNCHANGED <<clock, tickets>>, cache'[e] = cache[e],
         \A v \in Workers \ {w} :
           pc'[v] = pc[v] /\ request'[v] = request[v] /\ scratch'[v] = scratch[v],
         Paying(e, w)' => Paying(e, w) /\ scratch'[w].at = scratch[w].at,
         pc'[w] # "spend",
         pc'[w] = "quota" => ~request'[w].agent
  PROVE  BudgetInv(e)'
<1>1. ASSUME NEW v \in Workers
      PROVE  /\ Paying(e, v)' => Paying(e, v) /\ scratch'[v].at = scratch[v].at
             /\ pc'[v] = "spend" =>
                  pc[v] = "spend" /\ request'[v] = request[v] /\ scratch'[v] = scratch[v]
             /\ pc'[v] \in {"quota", "spend"} => ~request'[v].agent
  BY DEF Paying, BudgetInv, ReckonersOK
<1> QED BY <1>1, NothingSpent, WorkersKnown

LEMMA ServeBudget ==
  ASSUME NEW e \in Emails, BudgetInv(e), TypeInv, TypeInv', IntakeInv, NEW w \in Workers,
         \/ Receive(w) \/ FindNoDuplicate(w) \/ FindCustomer(w) \/ InsertCustomer(w)
         \/ LoseInsert(w) \/ WriteTicket(w) \/ (SpendBudget(w) /\ request[w].email # e)
  PROVE  BudgetInv(e)'
<1>1. scratch[w] \in Scratch /\ pc \in [Workers -> Positions]
      /\ DOMAIN request = Workers /\ scratch \in [Workers -> Scratch]
      /\ cache \in [Emails -> Stamps]
  BY WorkersKnown
<1>2. CASE Receive(w)
  <2>1. PICK s \in Submissions :
          /\ Move(w, "idle", IF Deduplicates(s) THEN "check" ELSE "find")
          /\ request' = [request EXCEPT ![w] = s]
          /\ UNCHANGED <<clock, tickets, customers, cache, scratch>>
    BY <1>2 DEF Receive
  <2>2. /\ pc'[w] = (IF Deduplicates(s) THEN "check" ELSE "find") /\ request'[w] = s
        /\ \A v \in Workers \ {w} :
             pc'[v] = pc[v] /\ request'[v] = request[v] /\ scratch'[v] = scratch[v]
    BY <1>1, <2>1 DEF Move, Goto
  <2>3. ~Paying(e, w)'
    BY <2>2 DEF Paying, Deduplicates
  <2> QED BY <2>1, <2>2, <2>3, OwnWayBudget
<1>3. CASE FindNoDuplicate(w)
  <2>1. /\ pc[w] = "check" /\ pc'[w] = (IF request[w].agent THEN "find" ELSE "quota")
        /\ \A v \in Workers \ {w} :
             pc'[v] = pc[v] /\ request'[v] = request[v] /\ scratch'[v] = scratch[v]
        /\ UNCHANGED <<clock, tickets, cache, request>>
    BY <1>1, <1>3 DEF FindNoDuplicate, Goto
  <2>2. ~Paying(e, w)'
    BY <2>1 DEF Paying
  <2> QED BY <2>1, <2>2, OwnWayBudget
<1>4. CASE FindCustomer(w) \/ InsertCustomer(w) \/ LoseInsert(w) \/ WriteTicket(w)
  <2> DEFINE x == scratch[w]
  <2>1. /\ pc[w] \in {"find", "insert", "write"} /\ pc'[w] \in {"insert", "write", "commit"}
        /\ \A v \in Workers \ {w} :
             pc'[v] = pc[v] /\ request'[v] = request[v] /\ scratch'[v] = scratch[v]
        /\ UNCHANGED <<clock, tickets, cache, request>>
    BY <1>1, <1>4 DEF FindCustomer, InsertCustomer, LoseInsert, WriteTicket, Move, Goto
  <2>2. \/ scratch'[w] = [x EXCEPT !.name = customers[request[w].email]]
        \/ scratch'[w] = [x EXCEPT !.inserts = TRUE]
        \/ scratch'[w] = [x EXCEPT !.renames = Corrects(w), !.created_at = clock]
    BY <1>1, <1>4 DEF FindCustomer, InsertCustomer, LoseInsert, WriteTicket
  <2>3. scratch'[w].at = scratch[w].at
    BY <1>1, <2>2 DEF Scratch
  <2>4. Paying(e, w)' => Paying(e, w) /\ scratch'[w].at = scratch[w].at
    BY <2>1, <2>3 DEF Paying
  <2>5. pc'[w] # "spend" /\ pc'[w] # "quota"
    BY <2>1
  <2> HIDE DEF x
  <2> QED BY <2>1, <2>4, <2>5, OwnWayBudget
<1>5. CASE SpendBudget(w) /\ request[w].email # e
  <2>1. /\ pc'[w] = "find"
        /\ \A v \in Workers \ {w} :
             pc'[v] = pc[v] /\ request'[v] = request[v] /\ scratch'[v] = scratch[v]
        /\ UNCHANGED <<clock, tickets, request, scratch>> /\ cache'[e] = cache[e]
    BY <1>1, <1>5 DEF SpendBudget, Move, Goto
  <2>2. ~Paying(e, w)'
    BY <1>5, <2>1 DEF Paying
  <2> QED BY <2>1, <2>2, OwnWayBudget
<1> QED BY <1>2, <1>3, <1>4, <1>5

(* What the throttle leaves out of the list it reads is of no hour that    *)
(* goes on.                                                                *)
LEMMA ReadBudgetBudget ==
  ASSUME NEW e \in Emails, BudgetInv(e), TypeInv, TypeInv', NEW w \in Workers, ReadBudget(w)
  PROVE  BudgetInv(e)'
<1> DEFINE spent == Pruned(cache[request[w].email])
<1>1. /\ pc[w] = "quota" /\ pc'[w] = "spend" /\ request' = request
      /\ UNCHANGED <<clock, tickets, cache>>
      /\ \A v \in Workers \ {w} : pc'[v] = pc[v] /\ scratch'[v] = scratch[v]
      /\ scratch'[w] = [scratch[w] EXCEPT !.spent = spent, !.at = clock]
  <2> HIDE DEF spent
  <2> QED BY WorkersKnown DEF ReadBudget, Move, Goto, spent
<1>2. scratch[w] \in Scratch /\ clock \in Nat
  BY WorkersKnown
<1> HIDE DEF spent
<1>3. scratch'[w].spent = spent /\ scratch'[w].at = clock
  BY <1>1, <1>2 DEF Scratch
<1>4. ASSUME request[w].email = e, NEW t \in Nat, t + Hour > clock
      PROVE  Logged(spent, t) = Logged(cache[e], t)
  <2>1. cache[e] \in Stamps
    BY WorkersKnown
  <2>2. PICK n \in 0 .. Len(cache[e]) :
          /\ Pruned(cache[e]) \in Stamps /\ Len(Pruned(cache[e])) = n
          /\ \A i \in 1 .. n : Pruned(cache[e])[i] = cache[e][i]
          /\ \A i \in 1 .. Len(cache[e]) : cache[e][i] + Hour > clock => i \in 1 .. n
    BY <1>2, <2>1, PrunedList
  <2>3. spent = Pruned(cache[e])
    BY <1>4 DEF spent
  <2> DEFINE old == cache[e]
  <2>4. /\ Len(old) \in Nat /\ DOMAIN old = 1 .. Len(old) /\ DOMAIN spent = 1 .. n
        /\ \A i \in 1 .. Len(old) : old[i] \in Nat
    <3>1. old \in Stamps /\ spent \in Stamps /\ Len(spent) = n
      BY <2>1, <2>2, <2>3
    <3> HIDE DEF old
    <3> QED BY <3>1, StampsList
  <2> HIDE DEF old
  <2>5. \A i \in 1 .. n : i \in 1 .. Len(old) /\ spent[i] = old[i]
    BY <2>2, <2>3, <2>4 DEF old
  <2>6. \A i \in 1 .. Len(old) : old[i] >= t => i \in 1 .. n
    <3> SUFFICES ASSUME NEW i \in 1 .. Len(old), old[i] >= t PROVE i \in 1 .. n
      OBVIOUS
    <3>1. old[i] + Hour > clock
      BY <1>2, <1>4, <2>4, IntakeAssumption
    <3> QED BY <2>2, <3>1 DEF old
  <2>7. Logged(spent, t) = Logged(old, t)
    BY <2>4, <2>5, <2>6 DEF Logged
  <2> QED BY <2>7 DEF old
<1>5. ASSUME request[w].email = e,
             \A x \in Spends(e)' : x \in Spends(e) /\ When(x)' = When(x)
      PROVE  Reckons(e, w)'
  <2>1. Counted(e)
    BY DEF BudgetInv
  <2>2. \A x \in Spends(e)' : When(x)' <= clock
    BY <1>5, <2>1 DEF Counted
  <2>3. Remembers(e, spent, clock)'
    <3> SUFFICES ASSUME NEW t \in Nat, t + Hour > clock
                 PROVE  Cardinality(Since(e, t)') <= Cardinality(Logged(spent, t)')
      BY <1>1 DEF Remembers
    <3>1. Since(e, t)' \in SUBSET Since(e, t)
      BY <1>5 DEF Since
    <3>2. IsFiniteSet(Since(e, t)) /\ Cardinality(Since(e, t)) \in Nat
      BY <2>1, CountsFinite DEF Counted
    <3>3. /\ Cardinality(Since(e, t)') <= Cardinality(Since(e, t))
          /\ Cardinality(Since(e, t)') \in Nat
      BY <3>1, <3>2, FS_Subset, FS_CardinalityType
    <3>4. Cardinality(Since(e, t)) <= Cardinality(Logged(cache[e], t))
      BY <2>1 DEF Counted, Remembers
    <3>5. Cardinality(Logged(cache[e], t)) \in Nat
      BY WorkersKnown, LoggedFinite
    <3>6. Logged(spent, t)' = Logged(spent, t)
      <4>1. spent' = spent
        BY <1>1 DEF spent, Pruned
      <4> QED BY <4>1 DEF Logged
    <3>7. Logged(spent, t) = Logged(cache[e], t)
      BY <1>4, <1>5
    <3>8. Cardinality(Logged(spent, t)') = Cardinality(Logged(cache[e], t))
      BY <3>6, <3>7
    <3> DEFINE a == Cardinality(Since(e, t)')
               b == Cardinality(Since(e, t))
               c == Cardinality(Logged(cache[e], t))
    <3>9. a <= b /\ b <= c /\ a \in Nat /\ b \in Nat /\ c \in Nat
      BY <3>2, <3>3, <3>4, <3>5
    <3> HIDE DEF a, b, c
    <3>10. a <= c
      BY <3>9
    <3> QED BY <3>8, <3>10 DEF a, c
  <2>4. Remembers(e, scratch[w].spent, scratch[w].at)'
    <3>1. spent' = spent
      BY <1>1 DEF spent, Pruned
    <3> QED BY <1>1, <1>3, <2>3, <3>1 DEF Remembers
  <2> QED BY <1>1, <1>2, <1>3, <2>2, <2>4 DEF Reckons
<1>6. ASSUME NEW v \in Workers
      PROVE  /\ Paying(e, v)' => Paying(e, v) /\ scratch'[v].at = scratch[v].at
             /\ pc'[v] = "spend" /\ request'[v].email = e =>
                  \/ pc[v] = "spend" /\ request'[v] = request[v] /\ scratch'[v] = scratch[v]
                  \/ (\A x \in Spends(e)' : x \in Spends(e) /\ When(x)' = When(x))
                       => Reckons(e, v)'
             /\ pc'[v] \in {"quota", "spend"} => ~request'[v].agent
  <2>1. CASE v = w
    <3>1. ~Paying(e, w)'
      BY <1>1 DEF Paying
    <3>2. ~request'[w].agent
      BY <1>1 DEF BudgetInv, ReckonersOK
    <3> QED BY <1>1, <1>5, <2>1, <3>1, <3>2
  <2>2. CASE v # w
    <3>1. pc'[v] = pc[v] /\ scratch'[v] = scratch[v] /\ request'[v] = request[v]
      BY <1>1, <2>2
    <3>2. pc[v] \in {"quota", "spend"} => ~request[v].agent
      BY DEF BudgetInv, ReckonersOK
    <3> QED BY <3>1, <3>2 DEF Paying
  <2> QED BY <2>1, <2>2
<1> QED BY <1>1, <1>2, <1>6, NothingSpent

(* The commit of a public ticket turns one that pays into one that paid.   *)
LEMMA CommitBudget ==
  ASSUME NEW e \in Emails, BudgetInv(e), TypeInv, TypeInv', IntakeInv,
         NEW w \in Workers, Commit(w)
  PROVE  BudgetInv(e)'
<1> DEFINE n == Len(tickets)
           s == request[w]
           ticket == <<0, n + 1>>
           mine == <<1, w>>
           N == Spends(e)'
           S == Spends(e)
           f == [x \in N |-> IF x = ticket THEN mine ELSE x]
<1>1. /\ n \in Nat /\ DOMAIN tickets = 1 .. n /\ DOMAIN tickets' = 1 .. n + 1
      /\ \A i \in 1 .. n : tickets'[i] = tickets[i]
      /\ tickets'[n + 1] = NewTicket(w)
  BY Committed
<1>2. /\ NewTicket(w).request = s /\ NewTicket(w).spent_at = scratch[w].at
      /\ pc[w] = "commit"
  BY DEF NewTicket, Commit
<1>3. /\ pc'[w] = "idle" /\ UNCHANGED <<clock, cache>>
      /\ \A v \in Workers \ {w} :
           pc'[v] = pc[v] /\ request'[v] = request[v] /\ scratch'[v] = scratch[v]
  BY WorkersKnown DEF Commit, Leave
<1>4. \A i \in OpenedInPublic(e)' :
        \/ i \in 1 .. n /\ i \in OpenedInPublic(e)
        \/ i = n + 1 /\ s.email = e /\ ~s.agent
  <2>1. \A i \in 1 .. n + 1 : i \in 1 .. n \/ i = n + 1
    BY <1>1
  <2> HIDE DEF n, s
  <2> QED BY <1>1, <1>2, <2>1 DEF OpenedInPublic
<1> HIDE DEF n
<1>5. ASSUME NEW x \in N
      PROVE  /\ x = ticket => mine \in S /\ When(x)' = When(mine)
             /\ x # ticket => x \in S /\ When(x)' = When(x)
             /\ x # mine
  <2>1. CASE \E i \in OpenedInPublic(e)' : x = <<0, i>>
    <3>1. PICK i \in OpenedInPublic(e)' : x = <<0, i>>
      BY <2>1
    <3>2. x[1] = 0 /\ x[2] = i /\ x # mine
      BY <3>1
    <3>3. CASE i = n + 1
      <4>1. s.email = e /\ ~s.agent
        BY <1>1, <1>4, <3>1, <3>3
      <4>2. mine \in S
        BY <1>2, <4>1 DEF Spends, Paying
      <4>3. When(x)' = tickets'[n + 1].spent_at
        BY <3>2, <3>3 DEF When
      <4>4. mine[1] # 0 /\ mine[2] = w
        OBVIOUS
      <4>5. When(mine) = scratch[w].at
        BY <4>4 DEF When
      <4> QED BY <1>1, <1>2, <3>1, <3>2, <3>3, <4>2, <4>3, <4>5
    <3>4. CASE i # n + 1
      <4>1. i \in 1 .. n /\ i \in OpenedInPublic(e)
        BY <1>4, <3>1, <3>4
      <4>2. x \in S
        BY <3>1, <4>1 DEF Spends
      <4>3. When(x)' = tickets'[i].spent_at /\ When(x) = tickets[i].spent_at
        BY <3>2 DEF When
      <4>4. x # ticket
        BY <3>2, <3>4
      <4> QED BY <1>1, <3>2, <4>1, <4>2, <4>3, <4>4
    <3> QED BY <3>3, <3>4
  <2>2. CASE \E v \in Workers : Paying(e, v)' /\ x = <<1, v>>
    <3>1. PICK v \in Workers : Paying(e, v)' /\ x = <<1, v>>
      BY <2>2
    <3>2. x[1] # 0 /\ x[2] = v /\ x # ticket
      BY <3>1
    <3>3. v # w
      BY <1>3, <3>1 DEF Paying
    <3>4. Paying(e, v) /\ scratch'[v] = scratch[v]
      BY <1>3, <3>1, <3>3 DEF Paying
    <3>5. x \in S
      BY <3>1, <3>4 DEF Spends
    <3>6. When(x)' = scratch'[v].at /\ When(x) = scratch[v].at
      BY <3>2 DEF When
    <3>7. x # mine
      BY <3>2, <3>3
    <3> QED BY <3>2, <3>4, <3>5, <3>6, <3>7
  <2> QED BY <1>5, <2>1, <2>2 DEF Spends
<1> HIDE DEF N, S, ticket, mine
<1>6. f \in Injection(N, S)
  <2>1. f \in [N -> S]
    BY <1>5
  <2>2. \A x, y \in N : f[x] = f[y] => x = y
    BY <1>5
  <2> QED BY <2>1, <2>2 DEF Injection, IsInjective
<1>7. \A x \in N : When(x)' = When(f[x])
  BY <1>5
<1> HIDE DEF f
<1>8. ASSUME NEW v \in Workers
      PROVE  /\ pc'[v] = "spend" /\ request'[v].email = e =>
                  pc[v] = "spend" /\ request'[v] = request[v] /\ scratch'[v] = scratch[v]
             /\ pc'[v] \in {"quota", "spend"} => ~request'[v].agent
  BY <1>3 DEF BudgetInv, ReckonersOK
<1> QED BY <1>3, <1>6, <1>7, <1>8, QuietBudget, WorkersKnown DEF N, S

(* The write: alone between read and write, it finds in the list it read   *)
(* whatever was spent in the hour, and there was room.                     *)
LEMMA SpendBudgetBudget ==
  ASSUME NEW e \in Emails, BudgetInv(e), Single(e), TypeInv, TypeInv',
         NEW w \in Workers, SpendBudget(w), request[w].email = e
  PROVE  BudgetInv(e)'
<1> DEFINE a == scratch[w].at
           list == scratch[w].spent
           new == <<a>> \o list
           mine == <<1, w>>
           S == Spends(e)
           N == Spends(e)'
<1>1. /\ pc[w] = "spend" /\ pc'[w] = "find"
      /\ \A v \in Workers \ {w} : pc'[v] = pc[v]
      /\ UNCHANGED <<clock, tickets, request, scratch>>
      /\ cache'[e] = new
  BY WorkersKnown DEF SpendBudget, Move, Goto
<1>2. /\ list \in Stamps /\ a \in 0 .. MaxClock /\ a \in Nat /\ clock \in Nat
      /\ Len(list) < Budget /\ Len(list) \in Nat /\ Budget \in Nat
      /\ new \in Stamps
  <2>1. scratch[w] \in Scratch /\ clock \in Nat
    BY WorkersKnown
  <2>2. list \in Stamps /\ a \in 0 .. MaxClock
    BY <2>1 DEF Scratch
  <2>3. Len(list) < Budget
    BY <1>1 DEF TypeInv, RoomLeft
  <2>4. cache'[e] \in Stamps
    BY DEF TypeInv, TypeOK
  <2> HIDE DEF a, list
  <2> QED BY <1>1, <2>1, <2>2, <2>3, <2>4, StampsList, IntakeAssumption
<1>3. /\ Counted(e) /\ Reckons(e, w) /\ ~request[w].agent
  BY <1>1 DEF BudgetInv, ReckonersOK
<1>4. N = S \cup {mine} /\ mine \notin S
  <2>1. OpenedInPublic(e)' = OpenedInPublic(e)
    BY <1>1 DEF OpenedInPublic
  <2>2. Paying(e, w)' /\ ~Paying(e, w)
    BY <1>1, <1>3 DEF Paying
  <2>3. \A v \in Workers \ {w} : Paying(e, v)' <=> Paying(e, v)
    BY <1>1 DEF Paying
  <2>4. mine \notin S
    <3>1. ASSUME NEW i, mine = <<0, i>> PROVE FALSE
      BY <3>1
    <3>2. ASSUME NEW v \in Workers, Paying(e, v), mine = <<1, v>> PROVE FALSE
      BY <2>2, <3>2
    <3> QED BY <3>1, <3>2 DEF Spends
  <2>5. \A x : x \in N => x \in S \/ x = mine
    <3> SUFFICES ASSUME NEW x \in N PROVE x \in S \/ x = mine
      OBVIOUS
    <3>1. CASE \E i \in OpenedInPublic(e) : x = <<0, i>>
      BY <3>1 DEF Spends
    <3>2. CASE \E v \in Workers : Paying(e, v)' /\ x = <<1, v>>
      BY <2>3, <3>2 DEF Spends
    <3> QED BY <2>1, <3>1, <3>2 DEF Spends
  <2>6. \A x : x \in S \/ x = mine => x \in N
    <3> SUFFICES ASSUME NEW x, x \in S \/ x = mine PROVE x \in N
      OBVIOUS
    <3>1. CASE \E i \in OpenedInPublic(e) : x = <<0, i>>
      BY <2>1, <3>1 DEF Spends
    <3>2. CASE \E v \in Workers : Paying(e, v) /\ x = <<1, v>>
      BY <2>2, <2>3, <3>2 DEF Spends
    <3>3. CASE x = mine
      BY <2>2, <3>3 DEF Spends
    <3> QED BY <3>1, <3>2, <3>3 DEF Spends
  <2> HIDE DEF N, S, mine
  <2> QED BY <2>4, <2>5, <2>6
<1>5. \A x : When(x)' = When(x)
  BY <1>1 DEF When
<1>6. When(mine) = a
  <2>1. mine[1] # 0 /\ mine[2] = w
    OBVIOUS
  <2> QED BY <2>1 DEF When
<1>7. /\ IsFiniteSet(S) /\ a <= clock
      /\ \A x \in S : When(x) \in Nat /\ When(x) <= clock /\ When(x) <= a
  BY <1>3 DEF Counted, Reckons
<1>8. IsFiniteSet(N)
  BY <1>4, <1>7, FS_AddElement
<1>9. \A x \in N : When(x)' \in Nat /\ When(x)' <= clock'
  BY <1>1, <1>2, <1>4, <1>5, <1>6, <1>7
<1>10. ASSUME NEW t \in Nat, t <= a, a < t + Hour
       PROVE  Cardinality(Since(e, t)) <= Cardinality(Logged(list, t))
  <2>1. t + Hour > a
    BY <1>2, <1>10, IntakeAssumption
  <2> QED BY <1>3, <2>1 DEF Reckons, Remembers
<1> HIDE DEF S, N, mine, a, list, new
<1>11. \A t \in Nat : Cardinality(Within(e, t)') <= Budget
  <2> TAKE t \in Nat
  <2> DEFINE W == Within(e, t)
             V == Within(e, t)'
  <2>1. V = {x \in N : t <= When(x) /\ When(x) < t + Hour}
    BY <1>5 DEF Within, N
  <2>2. W = {x \in S : t <= When(x) /\ When(x) < t + Hour}
    BY DEF Within, S
  <2>3. /\ IsFiniteSet(W) /\ Cardinality(W) \in Nat /\ Cardinality(W) <= Budget
        /\ Cardinality(W) <= Cardinality(Since(e, t)) /\ Cardinality(Since(e, t)) \in Nat
    BY <1>3, <1>7, CountsFinite DEF Counted, S
  <2>4. CASE t <= a /\ a < t + Hour
    <3>1. V = W \cup {mine} /\ mine \notin W
      BY <1>4, <1>6, <2>1, <2>2, <2>4
    <3>2. Cardinality(V) = Cardinality(W) + 1
      BY <2>3, <3>1, FS_AddElement
    <3>3. Cardinality(Since(e, t)) <= Cardinality(Logged(list, t))
      BY <1>10, <2>4
    <3>4. Cardinality(Logged(list, t)) \in Nat /\ Cardinality(Logged(list, t)) <= Len(list)
      BY <1>2, LoggedFinite
    <3> QED BY <1>2, <2>3, <3>2, <3>3, <3>4
  <2>5. CASE ~(t <= a /\ a < t + Hour)
    <3>1. V = W
      BY <1>4, <1>6, <2>1, <2>2, <2>5
    <3> QED BY <2>3, <3>1
  <2> QED BY <2>4, <2>5
<1>12. Remembers(e, cache[e], clock)'
  <2> SUFFICES ASSUME NEW t \in Nat, t + Hour > clock
               PROVE  Cardinality(Since(e, t)') <= Cardinality(Logged(new, t))
    BY <1>1 DEF Remembers, Logged
  <2> DEFINE B == Since(e, t)
             C == Since(e, t)'
  <2>1. C = {x \in N : When(x) >= t}
    BY <1>5 DEF Since, N
  <2>2. B = {x \in S : When(x) >= t}
    BY DEF Since, S
  <2>3. IsFiniteSet(B) /\ Cardinality(B) \in Nat
    BY <1>7, CountsFinite DEF S
  <2>4. Cardinality(Logged(new, t)) \in Nat
    BY <1>2, LoggedFinite
  <2>5. CASE t <= a
    <3>1. C = B \cup {mine} /\ mine \notin B
      BY <1>4, <1>6, <2>1, <2>2, <2>5
    <3>2. Cardinality(C) = Cardinality(B) + 1
      BY <2>3, <3>1, FS_AddElement
    <3>3. Cardinality(B) <= Cardinality(Logged(list, t))
      <4>1. a < t + Hour
        BY <1>2, <1>7, IntakeAssumption
      <4> QED BY <1>10, <2>5, <4>1
    <3>4. Cardinality(Logged(list, t)) + 1 <= Cardinality(Logged(new, t))
      BY <1>2, <2>5, LoggedMore DEF new
    <3>5. Cardinality(Logged(list, t)) \in Nat
      BY <1>2, LoggedFinite
    <3> HIDE DEF B, C
    <3>6. Cardinality(C) <= Cardinality(Logged(new, t))
      BY <2>3, <2>4, <3>2, <3>3, <3>4, <3>5
    <3> QED BY <3>6 DEF C
  <2>6. CASE ~(t <= a)
    <3>1. C = {}
      BY <1>2, <1>4, <1>6, <1>7, <2>1, <2>6
    <3>2. Cardinality(C) = 0
      BY <3>1, FS_EmptySet
    <3> QED BY <2>4, <3>2
  <2> QED BY <2>5, <2>6
<1>13. Counted(e)'
  BY <1>8, <1>9, <1>11, <1>12 DEF Counted, N
<1>14. ASSUME NEW v \in Workers
       PROVE  /\ ~(pc'[v] = "spend" /\ request'[v].email = e)
              /\ pc'[v] \in {"quota", "spend"} => ~request'[v].agent
  <2>1. CASE v = w
    BY <1>1, <2>1
  <2>2. CASE v # w
    <3>1. pc'[v] = pc[v] /\ request'[v] = request[v]
      BY <1>1, <2>2
    <3>2. ASSUME pc[v] = "spend", request[v].email = e PROVE FALSE
      <4> DEFINE Q == {u \in Workers : pc[u] = "spend" /\ request[u].email = e}
      <4>1. v \in Q /\ w \in Q
        BY <1>1, <3>2
      <4>2. Q \in SUBSET Workers /\ IsFiniteSet(Workers)
        BY IntakeAssumption
      <4>3. Cardinality(Q) <= 1
        BY DEF Single
      <4> HIDE DEF Q
      <4>4. IsFiniteSet(Q)
        BY <4>2, FS_Subset
      <4>5. /\ IsFiniteSet(Q \ {v}) /\ Cardinality(Q \ {v}) = Cardinality(Q) - 1
            /\ Cardinality(Q) \in Nat
        BY <4>1, <4>4, FS_RemoveElement, FS_CardinalityType
      <4>6. Cardinality(Q \ {v}) \in Nat
        BY <4>5, FS_CardinalityType
      <4>7. Cardinality(Q \ {v}) = 0
        BY <4>3, <4>5, <4>6
      <4>8. Q \ {v} = {}
        BY <4>5, <4>7, FS_EmptySet
      <4> QED BY <2>2, <4>1, <4>8
    <3>3. pc[v] \in {"quota", "spend"} => ~request[v].agent
      BY DEF BudgetInv, ReckonersOK
    <3> QED BY <3>1, <3>2, <3>3
  <2> QED BY <2>1, <2>2
<1>15. ReckonersOK(e)'
  BY <1>14 DEF ReckonersOK
<1> QED BY <1>13, <1>15 DEF BudgetInv

LEMMA InitBudgetInv == \A e \in Emails : Init => BudgetInv(e)
<1> SUFFICES ASSUME NEW e \in Emails, Init PROVE BudgetInv(e)
  OBVIOUS
<1>1. TypeInv
  BY InitTypeInv
<1>2. clock = 0 /\ tickets = <<>> /\ cache[e] = <<>> /\ \A w \in Workers : pc[w] = "idle"
  BY DEF Init
<1>3. Spends(e) = {}
  <2>1. OpenedInPublic(e) = {}
    BY <1>2 DEF OpenedInPublic
  <2>2. {v \in Workers : Paying(e, v)} = {}
    BY <1>2 DEF Paying
  <2> QED BY <2>1, <2>2 DEF Spends
<1>4. IsFiniteSet(Spends(e)) /\ Cardinality({}) = 0
  BY <1>3, FS_EmptySet
<1>5. ASSUME NEW t \in Nat
      PROVE  Cardinality(Within(e, t)) = 0 /\ Cardinality(Since(e, t)) = 0
  BY <1>3, <1>4 DEF Within, Since
<1>6. \A t \in Nat : Cardinality(Within(e, t)) <= Budget
  BY <1>5, IntakeAssumption
<1>7. Remembers(e, cache[e], clock)
  <2>1. cache[e] \in Stamps
    BY <1>1 DEF TypeInv, TypeOK
  <2>2. \A t \in Nat : Cardinality(Logged(cache[e], t)) \in Nat
    BY <2>1, LoggedFinite
  <2>3. \A t \in Nat : Cardinality(Since(e, t)) <= Cardinality(Logged(cache[e], t))
    BY <1>5, <2>2
  <2> QED BY <2>3 DEF Remembers
<1>8. Counted(e)
  BY <1>3, <1>4, <1>6, <1>7 DEF Counted
<1>9. ReckonersOK(e)
  BY <1>2 DEF ReckonersOK
<1> QED BY <1>8, <1>9 DEF BudgetInv

LEMMA NextBudgetInv ==
  \A e \in Emails :
    BudgetInv(e) /\ Single(e) /\ TypeInv /\ TypeInv' /\ IntakeInv /\ [Next]_intakeVars
      => BudgetInv(e)'
<1> SUFFICES ASSUME NEW e \in Emails, BudgetInv(e), Single(e), TypeInv, TypeInv', IntakeInv,
                    [Next]_intakeVars
             PROVE  BudgetInv(e)'
  OBVIOUS
<1>1. ASSUME NEW w \in Workers, Serve(w) PROVE BudgetInv(e)'
  <2>1. CASE Replay(w) \/ Throttle(w)
    BY <2>1, LeaveBudget DEF Replay, Throttle
  <2>2. CASE FindNoDuplicate(w) \/ FindCustomer(w) \/ InsertCustomer(w) \/ LoseInsert(w)
             \/ WriteTicket(w)
    BY <2>2, ServeBudget
  <2>3. CASE ReadBudget(w)
    BY <2>3, ReadBudgetBudget
  <2>4. CASE SpendBudget(w)
    BY <2>4, SpendBudgetBudget, ServeBudget
  <2>5. CASE Commit(w)
    BY <2>5, CommitBudget
  <2> QED BY <1>1, <2>1, <2>2, <2>3, <2>4, <2>5 DEF Serve
<1>2. ASSUME NEW w \in Workers, Receive(w) PROVE BudgetInv(e)'
  BY <1>2, ServeBudget
<1>3. ASSUME NEW w \in Workers, Crash(w) PROVE BudgetInv(e)'
  BY <1>3, LeaveBudget DEF Crash
<1>4. CASE Tick \/ UNCHANGED intakeVars
  <2>1. UNCHANGED <<tickets, cache, pc, request, scratch>> /\ clock <= clock'
    BY <1>4, WorkersKnown DEF Tick, intakeVars
  <2>2. ASSUME NEW v \in Workers
        PROVE  /\ Paying(e, v)' => Paying(e, v) /\ scratch'[v].at = scratch[v].at
               /\ pc'[v] = "spend" =>
                    pc[v] = "spend" /\ request'[v] = request[v] /\ scratch'[v] = scratch[v]
               /\ pc'[v] \in {"quota", "spend"} => ~request'[v].agent
    BY <2>1 DEF Paying, BudgetInv, ReckonersOK
  <2> QED BY <2>1, <2>2, NothingSpent
<1> QED BY <1>1, <1>2, <1>3, <1>4 DEF Next

(* Every ticket was paid for when it was spent_at.                         *)
LEMMA TicketsArePaidFor == \A e \in Emails : TypeInv /\ BudgetInv(e) => HourlyBudget(e)
<1> SUFFICES ASSUME NEW e \in Emails, TypeInv, BudgetInv(e), NEW t \in 0 .. clock
             PROVE  Cardinality({i \in OpenedInPublic(e) :
                       t <= tickets[i].spent_at /\ tickets[i].spent_at < t + Hour}) <= Budget
  BY DEF HourlyBudget
<1> DEFINE T == {i \in OpenedInPublic(e) :
                   t <= tickets[i].spent_at /\ tickets[i].spent_at < t + Hour}
           f == [i \in T |-> <<0, i>>]
<1>1. t \in Nat
  BY WorkersKnown
<1>2. IsFiniteSet(Within(e, t)) /\ Cardinality(Within(e, t)) <= Budget
  BY <1>1, CountsFinite DEF BudgetInv, Counted
<1>3. ASSUME NEW i \in T PROVE <<0, i>> \in Within(e, t)
  <2>1. <<0, i>> \in Spends(e)
    BY DEF Spends
  <2>2. When(<<0, i>>) = tickets[i].spent_at
    BY DEF When
  <2> QED BY <2>1, <2>2 DEF Within
<1>4. f \in Injection(T, Within(e, t))
  <2> HIDE DEF T
  <2>1. f \in [T -> Within(e, t)]
    BY <1>3
  <2>2. \A i, j \in T : f[i] = f[j] => i = j
    OBVIOUS
  <2> QED BY <2>1, <2>2 DEF Injection, IsInjective
<1>5. IsFiniteSet(T) /\ Cardinality(T) <= Cardinality(Within(e, t))
  BY <1>2, <1>4, FS_Injection
<1>6. Cardinality(T) \in Nat /\ Cardinality(Within(e, t)) \in Nat /\ Budget \in Nat
  BY <1>2, <1>5, FS_CardinalityType, IntakeAssumption
<1> HIDE DEF T
<1>7. Cardinality(T) <= Budget
  BY <1>2, <1>5, <1>6
<1> QED BY <1>7 DEF T

(* While no two submissions of an address are between the throttle's read  *)
(* and its write, the address opens no more public tickets in any hour     *)
(* than its budget, however requests interleave, workers die, and the      *)
(* clock moves between the spending and the commit.                        *)
THEOREM BudgetKept == Spec => BudgetHeldOneByOne
<1>1. ASSUME NEW e \in Emails PROVE Spec => ([]Single(e) => []HourlyBudget(e))
  <2>1. Init => BudgetInv(e)
    BY InitBudgetInv
  <2>2. BudgetInv(e) /\ Single(e) /\ TypeInv /\ TypeInv' /\ IntakeInv /\ [Next]_intakeVars
          => BudgetInv(e)'
    BY NextBudgetInv
  <2>3. TypeInv /\ BudgetInv(e) => HourlyBudget(e)
    BY TicketsArePaidFor
  <2> QED BY <2>1, <2>2, <2>3, IntakeInvariance, TypeInvariance, PTL DEF Spec
<1>2. Spec => \A e \in Emails : ([]Single(e) => []HourlyBudget(e))
  BY <1>1
<1>3. (\A e \in Emails : ([]Single(e) => []HourlyBudget(e))) => BudgetHeldOneByOne
  BY DEF BudgetHeldOneByOne, Single
<1> QED BY <1>2, <1>3, PTL
=============================================================================
