---------------------------- MODULE PublicIntake ----------------------------
(***************************************************************************)
(* How a ticket is born (services.create_ticket): the public form and the  *)
(* agents create tickets through the same service.  It looks for a recent  *)
(* duplicate, spends one ticket of the hourly budget of the address        *)
(* (public form only, in a shared cache), and then, in one transaction,    *)
(* finds or creates the customer and inserts the ticket.                   *)
(*                                                                         *)
(* Each of these is a step of its own: the duplicate check is not under    *)
(* any lock, and the cache is read and written back by two commands.  What *)
(* the first row and the first events hold is TicketServices!NewRow and    *)
(* NewHistory.                                                             *)
(***************************************************************************)
EXTENDS Naturals, Sequences, FiniteSets

CONSTANTS
  None,           \* Python's None and SQL's NULL
  Emails,         \* addresses, already normalised
  Texts,          \* what a submission says: subject and description, stripped
  Keys,           \* values of Idempotency-Key
  Names,          \* customer names
  Workers,        \* the gunicorn workers
  Submissions,    \* what clients may submit
  Window,         \* PUBLIC_TICKET_DEDUPE_WINDOW_SECONDS
  KeyWindow,      \* IDEMPOTENCY_KEY_WINDOW_SECONDS
  Hour,           \* the period of the address's budget
  Budget,         \* how many tickets it may open in that period
  MaxClock,       \* bound on the clock
  MaxRequests     \* bound on the requests received

(* A submission: who it is for, what it says, the Idempotency-Key (None    *)
(* when the header is absent) and whether an agent typed it in.            *)
Submission ==
  [email: Emails, text: Texts, key: Keys \cup {None}, name: Names, agent: BOOLEAN]

ASSUME IntakeAssumption ==
  /\ Submissions \subseteq Submission
  /\ {Window, KeyWindow, Hour, MaxClock, MaxRequests} \subseteq Nat
  /\ Hour > 0 /\ Budget \in Nat \ {0}
  /\ None \notin Keys \cup Names \cup Submission
  /\ IsFiniteSet(Workers)

VARIABLES
  clock,       \* the time every process reads
  tickets,     \* the committed tickets, in the order of their commits
  customers,   \* customers[e]: the name of the customer of address e, or None
  cache,       \* cache[e]: when the budget of e was spent, newest first
  pc,          \* pc[w]: where worker w is
  request,     \* request[w]: what w is serving
  scratch,     \* scratch[w]: what w has read, and what it has not committed
  received     \* how many requests were received

intakeVars == <<clock, tickets, customers, cache, pc, request, scratch, received>>

-----------------------------------------------------------------------------
(* A variant that TLC must refute: the text is part of what a key names.   *)
FingerprintOfBoth(s) == <<"natural", s.email, s.text, s.key>>

(* The fingerprint of a submission.  A key and the text of a submission    *)
(* are never mistaken for one another; both are bound to the address.      *)
Fingerprint(s) ==
  IF s.key # None THEN <<"key", s.email, s.key>> ELSE <<"natural", s.email, s.text>>

(* How long a repeat counts as the same request.                           *)
WindowOf(s) == IF s.key # None THEN KeyWindow ELSE Window

(* The public form always looks for a duplicate; an agent's submission     *)
(* only when it has a key.  Without the check no fingerprint is stored.    *)
Deduplicates(s) == ~s.agent \/ s.key # None

DedupeHash(s) == IF Deduplicates(s) THEN Fingerprint(s) ELSE None

(* created_at >= now - window                                              *)
Recent(t, s) == t.created_at + WindowOf(s) >= clock

Duplicated(s) ==
  \E i \in DOMAIN tickets :
     tickets[i].dedupe_hash = Fingerprint(s) /\ Recent(tickets[i], s)

(* The budget as the throttle counts it: what is an hour old is popped     *)
(* from the end, where the oldest is.                                      *)
Pruned(spent) ==
  LET kept == {i \in DOMAIN spent : \E j \in i .. Len(spent) : spent[j] + Hour > clock}
  IN  [i \in kept |-> spent[i]]

NothingRead == [seen |-> 0, spent |-> <<>>, at |-> 0, name |-> None,
                inserts |-> FALSE, renames |-> FALSE, created_at |-> 0]

Init ==
  /\ clock = 0
  /\ tickets = <<>>
  /\ customers = [e \in Emails |-> None]
  /\ cache = [e \in Emails |-> <<>>]
  /\ pc = [w \in Workers |-> "idle"]
  /\ request = [w \in Workers |-> None]
  /\ scratch = [w \in Workers |-> NothingRead]
  /\ received = 0

Goto(w, to) == pc' = [pc EXCEPT ![w] = to]

Move(w, from, to) == pc[w] = from /\ Goto(w, to)

Leave(w) ==
  /\ pc' = [pc EXCEPT ![w] = "idle"]
  /\ request' = [request EXCEPT ![w] = None]
  /\ scratch' = [scratch EXCEPT ![w] = NothingRead]

-----------------------------------------------------------------------------
(* A valid submission reaches a worker.                                    *)
Receive(w) ==
  /\ received < MaxRequests
  /\ \E s \in Submissions :
       /\ Move(w, "idle", IF Deduplicates(s) THEN "check" ELSE "find")
       /\ request' = [request EXCEPT ![w] = s]
  /\ received' = received + 1
  /\ UNCHANGED <<clock, tickets, customers, cache, scratch>>

(* The duplicate is answered again: 200, Idempotency-Replayed.             *)
Replay(w) ==
  /\ pc[w] = "check" /\ Duplicated(request[w])
  /\ Leave(w)
  /\ UNCHANGED <<clock, tickets, customers, cache, received>>

(* Nothing recent: on to the budget, or past it for an agent.  What had    *)
(* been committed by then is noted for the properties.                     *)
FindNoDuplicate(w) ==
  /\ pc[w] = "check" /\ ~Duplicated(request[w])
  /\ Goto(w, IF request[w].agent THEN "find" ELSE "quota")
  /\ scratch' = [scratch EXCEPT ![w].seen = Len(tickets)]
  /\ UNCHANGED <<clock, tickets, customers, cache, request, received>>

(* A variant that TLC must refute: one ticket too many.                    *)
ReadBudgetLate(w) ==
  LET e == request[w].email
  IN  /\ Move(w, "quota", "spend")
      /\ Len(Pruned(cache[e])) <= Budget
      /\ scratch' = [scratch EXCEPT ![w].spent = Pruned(cache[e]), ![w].at = clock]
      /\ UNCHANGED <<clock, tickets, customers, cache, request, received>>

(* The throttle reads the address's history and finds room in it.          *)
ReadBudget(w) ==
  LET e == request[w].email
  IN  /\ Move(w, "quota", "spend")
      /\ Len(Pruned(cache[e])) < Budget
      /\ scratch' = [scratch EXCEPT ![w].spent = Pruned(cache[e]), ![w].at = clock]
      /\ UNCHANGED <<clock, tickets, customers, cache, request, received>>

(* A variant that TLC must refute: the request waits for room.             *)
ThrottleWaits(w) ==
  /\ pc[w] = "quota"
  /\ Len(Pruned(cache[request[w].email])) >= Budget
  /\ UNCHANGED intakeVars

(* The budget is spent: 429.                                               *)
Throttle(w) ==
  /\ pc[w] = "quota"
  /\ Len(Pruned(cache[request[w].email])) >= Budget
  /\ Leave(w)
  /\ UNCHANGED <<clock, tickets, customers, cache, received>>

(* The throttle writes back the history it read, with one more entry.      *)
SpendBudget(w) ==
  /\ Move(w, "spend", "find")
  /\ cache' = [cache EXCEPT ![request[w].email] = <<scratch[w].at>> \o scratch[w].spent]
  /\ UNCHANGED <<clock, tickets, customers, request, scratch, received>>

(* get_or_create begins with a SELECT: it sees what is committed.          *)
FindCustomer(w) ==
  LET known == customers[request[w].email]
  IN  /\ pc[w] = "find"
      /\ Goto(w, IF known = None THEN "insert" ELSE "write")
      /\ scratch' = [scratch EXCEPT ![w].name = known]
      /\ UNCHANGED <<clock, tickets, customers, cache, request, received>>

(* The unique index makes an INSERT wait for the open transaction that     *)
(* inserted the same address.                                              *)
Inserting(e) == \E v \in Workers : scratch[v].inserts /\ request[v].email = e

(* A variant that TLC must refute: each statement commits on its own.      *)
InsertCommitted(w) ==
  LET e == request[w].email
  IN  /\ Move(w, "insert", "write")
      /\ ~Inserting(e) /\ customers[e] = None
      /\ customers' = [customers EXCEPT ![e] = request[w].name]
      /\ scratch' = [scratch EXCEPT ![w].inserts = TRUE]
      /\ UNCHANGED <<clock, tickets, cache, request, received>>

InsertCustomer(w) ==
  LET e == request[w].email
  IN  /\ Move(w, "insert", "write")
      /\ ~Inserting(e) /\ customers[e] = None
      /\ scratch' = [scratch EXCEPT ![w].inserts = TRUE]
      /\ UNCHANGED <<clock, tickets, customers, cache, request, received>>

(* Another transaction inserted the address first: IntegrityError, and     *)
(* get_or_create reads the winner's row instead.                           *)
LoseInsert(w) ==
  LET e == request[w].email
  IN  /\ Move(w, "insert", "write")
      /\ ~Inserting(e) /\ customers[e] # None
      /\ scratch' = [scratch EXCEPT ![w].name = customers[e]]
      /\ UNCHANGED <<clock, tickets, customers, cache, request, received>>

(* A variant that TLC must refute: anyone corrects the name.               *)
AnyoneCorrects(w) == ~scratch[w].inserts /\ scratch[w].name # request[w].name

(* An agent corrects the name of an existing customer; the public may not. *)
Corrects(w) ==
  ~scratch[w].inserts /\ request[w].agent /\ scratch[w].name # request[w].name

Renaming(e) == \E v \in Workers : scratch[v].renames /\ request[v].email = e

(* The correction, which waits for another open correction of that row,    *)
(* and the ticket, which is stamped before the commit.                     *)
WriteTicket(w) ==
  /\ Move(w, "write", "commit")
  /\ Corrects(w) => ~Renaming(request[w].email)
  /\ scratch' = [scratch EXCEPT ![w].renames = Corrects(w), ![w].created_at = clock]
  /\ UNCHANGED <<clock, tickets, customers, cache, request, received>>

(* The ticket as committed; seen and spent_at are kept for the properties. *)
NewTicket(w) ==
  [request |-> request[w], dedupe_hash |-> DedupeHash(request[w]),
   created_at |-> scratch[w].created_at,
   seen |-> scratch[w].seen, spent_at |-> scratch[w].at]

(* The transaction commits: its customer and its ticket at once.           *)
Commit(w) ==
  /\ pc[w] = "commit"
  /\ tickets' = Append(tickets, NewTicket(w))
  /\ customers' = IF scratch[w].inserts \/ scratch[w].renames
                  THEN [customers EXCEPT ![request[w].email] = request[w].name]
                  ELSE customers
  /\ Leave(w)
  /\ UNCHANGED <<clock, cache, received>>

(* The worker dies, or the database fails it: the transaction is undone,   *)
(* the cache is not.                                                       *)
Crash(w) ==
  /\ pc[w] # "idle"
  /\ Leave(w)
  /\ UNCHANGED <<clock, tickets, customers, cache, received>>

Tick ==
  /\ clock < MaxClock
  /\ clock' = clock + 1
  /\ UNCHANGED <<tickets, customers, cache, pc, request, scratch, received>>

Serve(w) ==
  \/ Replay(w) \/ FindNoDuplicate(w)
  \/ ReadBudget(w) \/ Throttle(w) \/ SpendBudget(w)
  \/ FindCustomer(w) \/ InsertCustomer(w) \/ LoseInsert(w)
  \/ WriteTicket(w) \/ Commit(w)

Next == Tick \/ \E w \in Workers : Receive(w) \/ Serve(w) \/ Crash(w)

Spec == Init /\ [][Next]_intakeVars

(* A worker that can go on does; nobody has to submit, crash or wait.      *)
FairSpec == Spec /\ \A w \in Workers : WF_intakeVars(Serve(w))

-----------------------------------------------------------------------------
Stamps == Seq(0 .. MaxClock)

TypeOK ==
  /\ clock \in 0 .. MaxClock /\ received \in 0 .. MaxRequests
  /\ tickets \in Seq([request: Submissions,
                      dedupe_hash: {DedupeHash(s) : s \in Submissions},
                      created_at: 0 .. MaxClock, seen: Nat, spent_at: 0 .. MaxClock])
  /\ customers \in [Emails -> Names \cup {None}]
  /\ cache \in [Emails -> Stamps]
  /\ \A e \in Emails : Len(cache[e]) <= Budget
  /\ pc \in [Workers -> {"idle", "check", "quota", "spend", "find", "insert",
                         "write", "commit"}]
  /\ request \in [Workers -> Submissions \cup {None}]
  /\ scratch \in [Workers ->
       [seen: Nat, spent: Stamps, at: 0 .. MaxClock, name: Names \cup {None},
        inserts: BOOLEAN, renames: BOOLEAN, created_at: 0 .. MaxClock]]

(* Whether a submission repeats an earlier one: a key names one request of *)
(* its address whatever the door and the text; without one, the public     *)
(* form takes equal texts for a double submit.                             *)
Repeats(s, earlier) ==
  /\ s.email = earlier.email /\ s.key = earlier.key
  /\ s.key = None => s.text = earlier.text /\ ~s.agent /\ ~earlier.agent

(* A repeat that is checked once the first ticket is committed finds it:   *)
(* two tickets for one request are further apart than its window, or the   *)
(* second was already past its check when the first was committed.         *)
(* [create_ticket looks for the duplicate before it does anything else]    *)
RepeatsCollapse ==
  \A j \in DOMAIN tickets : \A i \in 1 .. tickets[j].seen :
     Repeats(tickets[j].request, tickets[i].request)
       => tickets[i].created_at + WindowOf(tickets[j].request) < tickets[j].created_at

(* A customer exists exactly when a ticket of theirs does, wherever a      *)
(* worker dies.  [the transaction of create_ticket]                        *)
NoOrphanCustomer ==
  \A e \in Emails :
     customers[e] # None <=> \E i \in DOMAIN tickets : tickets[i].request.email = e

(* A customer bears the name of the first ticket of the address or one an  *)
(* agent gave, also when two first tickets race for the customer's row:    *)
(* the public form never renames anybody.  [_resolve_customer]             *)
NameIsTrusted ==
  \A i \in DOMAIN tickets :
     LET e == tickets[i].request.email
         mine == {j \in DOMAIN tickets : tickets[j].request.email = e}
     IN  \E j \in mine :
           /\ tickets[j].request.name = customers[e]
           /\ tickets[j].request.agent \/ \A k \in mine : j <= k

OpenedInPublic(e) ==
  {i \in DOMAIN tickets : tickets[i].request.email = e /\ ~tickets[i].request.agent}

(* Within an hour an address opens no more tickets than its budget.        *)
HourlyBudget(e) ==
  \A t \in 0 .. clock :
     Cardinality({i \in OpenedInPublic(e) :
        t <= tickets[i].spent_at /\ tickets[i].spent_at < t + Hour}) <= Budget

(* README: "per reported email (5/hour)".  [SubmittedEmailRateThrottle]    *)
BudgetHeld == \A e \in Emails : HourlyBudget(e)

(* The throttle holds an address to its budget in every hour, wherever its *)
(* tickets fall in it, through duplicates, crashes and both doors, unless  *)
(* two of its submissions were both between the throttle's read and its    *)
(* write.  [SubmittedEmailRateThrottle, after the duplicate check]         *)
BudgetHeldOneByOne ==
  \A e \in Emails :
    [](Cardinality({w \in Workers : pc[w] = "spend" /\ request[w].email = e}) <= 1)
      => []HourlyBudget(e)

(* Every submission is answered or dies with its worker: nobody waits for  *)
(* a customer's row for ever.                                              *)
EverySubmissionEnds == \A w \in Workers : pc[w] # "idle" ~> pc[w] = "idle"

=============================================================================
