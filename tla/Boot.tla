-------------------------------- MODULE Boot --------------------------------
(***************************************************************************)
(* Containers that start on one database (scripts/entrypoint.sh): each     *)
(* waits for it, migrates, seeds the demo and serves; an operator may run  *)
(* `seed_demo --reset' meanwhile.                                          *)
(*                                                                         *)
(* A seed is one transaction under READ COMMITTED: what it writes shows    *)
(* when it commits, and the insertion of a row that is unique waits for    *)
(* another open transaction that inserted the same one.                    *)
(***************************************************************************)
EXTENDS DemoScript, FiniteSets

CONSTANTS
  Containers,
  Environments,  \* the settings the containers may share
  Resetters,     \* those that run `seed_demo --reset' and nothing else
  Migrations,    \* how many migrations there are
  Tickets        \* seed_demo --tickets

ASSUME BootAssumption ==
  /\ Environments \subseteq
       [RUN_MIGRATIONS: BOOLEAN, SEED_DEMO: BOOLEAN, command: {"runserver", "gunicorn"},
        REQUIRE_SHARED_CACHE: BOOLEAN, shared: BOOLEAN]
  /\ Resetters \subseteq Containers
  /\ \A c, d \in Resetters : c = d
  /\ Migrations \in Nat \ {0} /\ Tickets \in Nat

VARIABLES
  environment,   \* the settings and the command, the same for every container
  database,      \* does it accept connections?
  applied,       \* how many migrations are recorded as applied
  accounts,      \* the committed accounts of STAFF
  customers,     \* the committed customers
  batches,       \* what each seed committed: who seeded, and the tickets
  phase,         \* phase[c]: how far container c is
  plan,          \* plan[c]: the first migration it found to be missing
  work           \* work[c]: the open transaction of its seed, or None

bootVars == <<environment, database, applied, accounts, customers, batches,
              phase, plan, work>>

(* How far a container is, until it is serving or done, killed, or has     *)
(* failed: a command failed, and so did the script (set -e).  It is said   *)
(* to be refused when the command failed because a service raised.         *)
Booting == {"created", "waiting", "prepare", "migrating", "seed", "seeding", "playing"}

Init ==
  /\ environment \in Environments
  /\ applied \in {0, Migrations}
  /\ database = "starting"
  /\ accounts = {} /\ customers = {} /\ batches = {}
  /\ phase = [c \in Containers |-> "created"]
  /\ plan = [c \in Containers |-> 0]
  /\ work = [c \in Containers |-> None]

Go(c, next) == phase' = [phase EXCEPT ![c] = next]

-----------------------------------------------------------------------------
DatabaseReady ==
  /\ database = "starting"
  /\ database' = "ready"
  /\ UNCHANGED <<environment, applied, accounts, customers, batches, phase, plan, work>>

(* `seed_demo' is exec'ed as it is; the servers prepare first.             *)
Start(c) ==
  /\ phase[c] = "created"
  /\ Go(c, IF c \notin Resetters THEN "waiting"
           ELSE IF database = "ready" THEN "seed" ELSE "failed")
  /\ UNCHANGED <<environment, database, applied, accounts, customers, batches, plan, work>>

(* wait_for_db: it connects, or gives up after a minute.                   *)
WaitForDb(c) ==
  /\ phase[c] = "waiting"
  /\ Go(c, IF database = "ready" THEN "prepare" ELSE "failed")
  /\ UNCHANGED <<environment, database, applied, accounts, customers, batches, plan, work>>

(* A variant that TLC must refute: a test that is false ends the script.   *)
SkipMigrateOrDie(c) ==
  /\ phase[c] = "prepare" /\ ~environment.RUN_MIGRATIONS
  /\ Go(c, "failed")
  /\ UNCHANGED <<environment, database, applied, accounts, customers, batches, plan, work>>

SkipMigrate(c) ==
  /\ phase[c] = "prepare" /\ ~environment.RUN_MIGRATIONS
  /\ Go(c, "seed")
  /\ UNCHANGED <<environment, database, applied, accounts, customers, batches, plan, work>>

(* The system check: a cache every worker has to itself is refused.        *)
ChecksPass == environment.REQUIRE_SHARED_CACHE => environment.shared

Seeds(c) == phase[c] = "seed" /\ (c \in Resetters \/ environment.SEED_DEMO)

(* A variant that TLC must refute: migrate checks its tables only.         *)
CheckedBySeed(c) ==
  Seeds(c) \/ (phase[c] = "seed" /\ environment.command = "runserver")

(* What runs through manage.py and is checked first: migrate, seed_demo    *)
(* and runserver, but not gunicorn, nor collectstatic before it.           *)
Checked(c) ==
  \/ phase[c] = "prepare" /\ environment.RUN_MIGRATIONS
  \/ Seeds(c)
  \/ phase[c] = "seed" /\ environment.command = "runserver"

RefuseToBoot(c) ==
  /\ Checked(c) /\ ~ChecksPass
  /\ Go(c, "failed")
  /\ UNCHANGED <<environment, database, applied, accounts, customers, batches, plan, work>>

(* manage.py migrate reads what is applied...                              *)
PlanMigrations(c) ==
  /\ phase[c] = "prepare" /\ environment.RUN_MIGRATIONS /\ (Checked(c) => ChecksPass)
  /\ plan' = [plan EXCEPT ![c] = applied + 1]
  /\ Go(c, "migrating")
  /\ UNCHANGED <<environment, database, applied, accounts, customers, batches, work>>

(* ...and applies the rest, each in a transaction of its own, which fails  *)
(* when somebody else has applied that one since.                          *)
Migrate(c) ==
  /\ phase[c] = "migrating"
  /\ \/ /\ plan[c] > Migrations
        /\ Go(c, "seed") /\ UNCHANGED <<plan, applied>>
     \/ /\ plan[c] <= Migrations /\ plan[c] = applied + 1
        /\ applied' = plan[c] /\ plan' = [plan EXCEPT ![c] = @ + 1]
        /\ UNCHANGED phase
     \/ /\ plan[c] <= Migrations /\ plan[c] <= applied
        /\ Go(c, "failed") /\ UNCHANGED <<plan, applied>>
  /\ UNCHANGED <<environment, database, accounts, customers, batches, work>>

Serve(c) ==
  /\ phase[c] = "seed" /\ ~Seeds(c) /\ (Checked(c) => ChecksPass)
  /\ Go(c, "serving")
  /\ UNCHANGED <<environment, database, applied, accounts, customers, batches, plan, work>>

(* There is no table to query.                                             *)
SeedNothing(c) ==
  /\ Seeds(c) /\ ChecksPass /\ applied < Migrations
  /\ Go(c, "failed")
  /\ UNCHANGED <<environment, database, applied, accounts, customers, batches, plan, work>>

-----------------------------------------------------------------------------
(* The transaction of a seed: whether it rebuilds, what its statements     *)
(* deleted, which of STAFF it has seen to and which it inserted, whether   *)
(* it goes on to the tickets, what it inserted of them, and the ticket it  *)
(* is at with the calls that are left to make of it.                       *)
OpenSeed(rebuilds, wiped, gone) ==
  [rebuilds |-> rebuilds, wiped |-> wiped, gone |-> gone,
   ensured |-> {}, staff |-> {}, checked |-> FALSE,
   customers |-> {}, tickets |-> <<>>, ticket |-> None, script |-> <<>>]

(* A variant that TLC must refute: whether there are tickets is asked      *)
(* before the accounts are seen to.                                        *)
BeginSeedChecked(c) ==
  /\ Seeds(c) /\ ChecksPass /\ applied = Migrations
  /\ work' = [work EXCEPT ![c] =
       IF c \in Resetters THEN OpenSeed(TRUE, batches, customers)
       ELSE OpenSeed(batches = {}, {}, {})]
  /\ Go(c, "seeding")
  /\ UNCHANGED <<environment, database, applied, accounts, customers, batches, plan>>

(* With --reset, what is committed is deleted first.                       *)
BeginSeed(c) ==
  /\ Seeds(c) /\ ChecksPass /\ applied = Migrations
  /\ work' = [work EXCEPT ![c] =
       IF c \in Resetters THEN OpenSeed(TRUE, batches, customers)
       ELSE OpenSeed(FALSE, {}, {})]
  /\ Go(c, "seeding")
  /\ UNCHANGED <<environment, database, applied, accounts, customers, batches, plan>>

(* Its seed is open, between two tickets or in the calls of one.           *)
Seeding(c) == phase[c] \in {"seeding", "playing"}

(* Somebody else's open seed holds the row that is unique.                 *)
StaffHeld(c, user) == \E d \in Containers \ {c} : Seeding(d) /\ user \in work[d].staff

CustomerHeld(c, k) == \E d \in Containers \ {c} : Seeding(d) /\ k \in work[d].customers

(* A variant that TLC must refute: the accounts are taken in any order.    *)
NextAccountsAnyOrder(c) == Users \ work[c].ensured

(* The account that _ensure_staff comes to next.                           *)
NextAccounts(c) ==
  {STAFF[i] : i \in {n \in 1 .. Len(STAFF) :
     {m \in 1 .. Len(STAFF) : STAFF[m] \in work[c].ensured} = 1 .. n - 1}}

(* get_or_create finds the account, or inserts it.                         *)
EnsureStaff(c) ==
  /\ phase[c] = "seeding"
  /\ \E user \in NextAccounts(c) :
       /\ user \in accounts \/ ~StaffHeld(c, user)
       /\ work' = [work EXCEPT ![c].ensured = @ \cup {user},
                               ![c].staff = @ \cup ({user} \ accounts)]
  /\ UNCHANGED <<environment, database, applied, accounts, customers, batches, phase, plan>>

EndSeed(c) ==
  /\ work' = [work EXCEPT ![c] = None]
  /\ accounts' = accounts \cup work[c].staff
  /\ Go(c, IF c \in Resetters THEN "done" ELSE "serving")

StaffEnsured(c) ==
  phase[c] = "seeding" /\ NextAccounts(c) = {} /\ ~work[c].checked

(* There are tickets: the accounts are all that is committed...            *)
SkipSeed(c) ==
  /\ StaffEnsured(c)
  /\ batches # {} /\ ~work[c].rebuilds
  /\ EndSeed(c)
  /\ UNCHANGED <<environment, database, applied, customers, batches, plan>>

(* ...there are none, or there are to be none.                             *)
CheckTickets(c) ==
  /\ StaffEnsured(c)
  /\ batches = {} \/ work[c].rebuilds
  /\ work' = [work EXCEPT ![c].checked = TRUE]
  /\ UNCHANGED <<environment, database, applied, accounts, customers, batches, phase, plan>>

AtTickets(c) == phase[c] = "seeding" /\ work[c].checked

(* A variant that TLC must refute: a ticket is committed as it is created. *)
CreateCommitted(c) ==
  LET index == Len(work[c].tickets)  k == CustomerOf(index)
  IN  /\ AtTickets(c) /\ index < Tickets
      /\ ~CustomerHeld(c, k)
      /\ \E drawn \in Drawn :
           work' = [work EXCEPT
             ![c].customers = @ \cup ({k} \ (customers \ work[c].gone)),
             ![c].ticket = Reported(index), ![c].script = Script(index, drawn)]
      /\ batches' = {b \in batches : b.seed # c} \cup
                    {[seed |-> c, tickets |-> Append(work[c].tickets, "OPEN")]}
  /\ Go(c, "playing")
  /\ UNCHANGED <<environment, database, applied, accounts, customers, plan>>

(* One ticket, and its customer if the database has none of that address.  *)
Create(c) ==
  LET index == Len(work[c].tickets)  k == CustomerOf(index)
  IN  /\ AtTickets(c) /\ index < Tickets
      /\ ~CustomerHeld(c, k)
      /\ \E drawn \in Drawn :
           work' = [work EXCEPT
             ![c].customers = @ \cup ({k} \ (customers \ work[c].gone)),
             ![c].ticket = Reported(index), ![c].script = Script(index, drawn)]
  /\ Go(c, "playing")
  /\ UNCHANGED <<environment, database, applied, accounts, customers, batches, plan>>

(* The next call of the script, which ends everything if the service       *)
(* raises...                                                               *)
Play(c) ==
  LET ticket == work[c].ticket  call == Head(work[c].script)
      raised == Raises(ticket, call)
  IN  /\ phase[c] = "playing" /\ work[c].script # <<>>
      /\ work' = [work EXCEPT ![c] =
           IF raised THEN None
           ELSE [work[c] EXCEPT !.ticket = Served(ticket, call), !.script = Tail(@)]]
      /\ Go(c, IF raised THEN "refused" ELSE "playing")
      /\ UNCHANGED <<environment, database, applied, accounts, customers, batches, plan>>

(* ...and after the last one, the ticket is what the demo shows.           *)
Played(c) ==
  /\ phase[c] = "playing" /\ work[c].script = <<>>
  /\ work' = [work EXCEPT ![c].tickets = Append(@, work[c].ticket.status),
                          ![c].ticket = None]
  /\ Go(c, "seeding")
  /\ UNCHANGED <<environment, database, applied, accounts, customers, batches, plan>>

CommitSeed(c) ==
  /\ AtTickets(c) /\ Len(work[c].tickets) = Tickets
  /\ EndSeed(c)
  /\ batches' = (batches \ work[c].wiped) \cup
                {[seed |-> c, tickets |-> work[c].tickets]}
  /\ customers' = (customers \ work[c].gone) \cup work[c].customers
  /\ UNCHANGED <<environment, database, applied, plan>>

(* The container is stopped: its transaction is rolled back.               *)
Kill(c) ==
  /\ phase[c] \in Booting \ {"created"}
  /\ Go(c, "killed")
  /\ work' = [work EXCEPT ![c] = None]
  /\ UNCHANGED <<environment, database, applied, accounts, customers, batches, plan>>

Advance(c) ==
  \/ WaitForDb(c) \/ SkipMigrate(c) \/ RefuseToBoot(c) \/ PlanMigrations(c)
  \/ Migrate(c) \/ Serve(c) \/ SeedNothing(c) \/ BeginSeed(c) \/ EnsureStaff(c) \/ SkipSeed(c) \/ CheckTickets(c)
  \/ Create(c) \/ Play(c) \/ Played(c) \/ CommitSeed(c)

Next ==
  \/ DatabaseReady
  \/ \E c \in Containers : Start(c) \/ Advance(c) \/ Kill(c)

(* The script keeps running once its container is started.                 *)
Spec == Init /\ [][Next]_bootVars /\ \A c \in Containers : WF_bootVars(Advance(c))

-----------------------------------------------------------------------------
(* However many containers start at once, and whenever they are stopped,   *)
(* the demo is seeded once: the unique accounts make the others wait until *)
(* its tickets can be seen, and the two are never seen without each other. *)
(* [handle, _ensure_staff before the check]                                *)
OneBatch ==
  /\ Cardinality({b \in batches : b.seed \notin Resetters}) <= 1
  /\ accounts = IF batches = {} THEN {} ELSE {STAFF[i] : i \in 1 .. Len(STAFF)}

(* What can be seen of a seed is all of it, every ticket walked through to *)
(* its last call, and the desk has tickets in every status.                *)
(* [@transaction.atomic on handle, README "spread across every status"]    *)
DemoIsWhole ==
  \A b \in batches :
    /\ Len(b.tickets) = Tickets
    /\ Tickets >= 6 => {b.tickets[i] : i \in 1 .. Tickets} = Status

(* The demo asks nothing of the services that they refuse.  [_play_out]    *)
NothingRefused == \A c \in Containers : phase[c] # "refused"

(* Where the limits must be counted in a shared cache, nothing serves with *)
(* a cache of its own, except gunicorn when migrations and the demo are    *)
(* both off: then no check runs.  [shared_cache_is_configured, prepare]    *)
PerProcessCacheIsRefused ==
  (\E c \in Containers : phase[c] = "serving")
    => \/ ChecksPass
       \/ /\ environment.command = "gunicorn"
          /\ ~environment.RUN_MIGRATIONS /\ ~environment.SEED_DEMO

(* Once a container has reached the database, some container comes to      *)
(* serve, unless one is stopped, provided that the checks pass and that    *)
(* the schema is there or migrations are on: losing the race to migrate    *)
(* never takes all of them down, nor does a step that is switched off.     *)
(* [prepare]                                                               *)
SomebodyServes ==
  (/\ \E c \in Containers : phase[c] = "prepare"
   /\ ChecksPass
   /\ environment.RUN_MIGRATIONS \/ applied = Migrations)
    ~> \E c \in Containers : phase[c] \in {"serving", "killed"}

(* Seeds that wait for one another never wait in a circle, which the       *)
(* database would break by failing one of them.                            *)
(* [STAFF and CUSTOMERS are inserted in one order by all]                  *)
WaitsFor(c, d) ==
  /\ phase[c] = "seeding" /\ Seeding(d)
  /\ \/ work[c].checked /\ Len(work[c].tickets) < Tickets
        /\ CustomerOf(Len(work[c].tickets)) \in work[d].customers
     \/ NextAccounts(c) # {} /\ NextAccounts(c) \subseteq work[d].staff \ accounts

NobodyWaitsInACircle ==
  \A group \in (SUBSET Containers) \ {{}} :
    ~ \A c \in group : \E d \in group \ {c} : WaitsFor(c, d)
=============================================================================
