----------------------------- MODULE Boot_proofs -----------------------------
(***************************************************************************)
(* What Boot promises, for any containers, environments, accounts of the   *)
(* desk and number of tickets.                                             *)
(*                                                                         *)
(* The checks (CheckInv): no container gets past a failing check, and only *)
(* gunicorn with migrations and the demo off is never checked.  The seed   *)
(* (SeedInv): while no account is committed, what an open seed has ensured *)
(* it has inserted, so the first account lets one seed on; once there are  *)
(* accounts there are tickets, and only the one that resets goes on.  The  *)
(* calls (PlayInv): a ticket and the calls left to make of it are at one   *)
(* of the points of its script, where the next call is allowed.            *)
(***************************************************************************)
EXTENDS Boot, FiniteSetTheorems, SequenceTheorems, TLAPS

(* The steps of a container before and after its seed.                     *)
Preparing(c) ==
  \/ Start(c) \/ WaitForDb(c) \/ SkipMigrate(c) \/ RefuseToBoot(c) \/ PlanMigrations(c)
  \/ Migrate(c) \/ Serve(c) \/ SeedNothing(c)

-----------------------------------------------------------------------------
(* Only unchecked containers serve with a cache of their own.              *)
Unchecked ==
  /\ environment.command = "gunicorn"
  /\ ~environment.RUN_MIGRATIONS /\ ~environment.SEED_DEMO

CheckInv ==
  /\ environment \in Environments
  /\ DOMAIN phase = Containers
  /\ ~ChecksPass => \A c \in Containers :
       /\ phase[c] \notin {"migrating", "seeding", "playing"}
       /\ phase[c] = "seed" => c \in Resetters \/ ~environment.RUN_MIGRATIONS
       /\ phase[c] = "serving" => Unchecked
       /\ phase[c] \in {"waiting", "prepare"} => c \notin Resetters

LEMMA CheckInit == Init => CheckInv
BY DEF Init, CheckInv

LEMMA CheckStep == CheckInv /\ [Next]_bootVars => CheckInv'
<1> SUFFICES ASSUME CheckInv, [Next]_bootVars PROVE CheckInv'
  OBVIOUS
<1>1. environment.command \in {"runserver", "gunicorn"}
  BY BootAssumption DEF CheckInv
<1>2. ASSUME UNCHANGED <<environment, phase>> PROVE CheckInv'
  BY <1>2 DEF CheckInv, ChecksPass, Unchecked
<1>3. ASSUME NEW c \in Containers, NEW to, Go(c, to), UNCHANGED environment,
             ~ChecksPass =>
               /\ to \notin {"migrating", "seeding", "playing"}
               /\ to = "seed" => c \in Resetters \/ ~environment.RUN_MIGRATIONS
               /\ to = "serving" => Unchecked
               /\ to \in {"waiting", "prepare"} => c \notin Resetters
      PROVE  CheckInv'
  BY <1>3 DEF CheckInv, Go, ChecksPass, Unchecked
<1>4. ASSUME NEW c \in Containers, Preparing(c) PROVE CheckInv'
  <2>1. CASE Start(c)
    BY <1>3, <2>1 DEF Start
  <2>2. CASE WaitForDb(c)
    BY <1>3, <2>2 DEF WaitForDb, CheckInv
  <2>3. CASE SkipMigrate(c)
    BY <1>3, <2>3 DEF SkipMigrate
  <2>4. CASE RefuseToBoot(c)
    BY <1>3, <2>4 DEF RefuseToBoot
  <2>5. CASE PlanMigrations(c)
    BY <1>3, <2>5 DEF PlanMigrations, Checked
  <2>6. CASE Migrate(c)
    <3>1. ~ChecksPass => FALSE
      BY <2>6 DEF Migrate, CheckInv
    <3> QED BY <1>2, <1>3, <2>6, <3>1 DEF Migrate
  <2>7. CASE Serve(c)
    <3>1. ~ChecksPass => Unchecked
      <4> SUFFICES ASSUME ~ChecksPass PROVE Unchecked
        OBVIOUS
      <4>1. phase[c] = "seed" /\ ~Seeds(c) /\ ~Checked(c)
        BY <2>7 DEF Serve
      <4>2. c \notin Resetters /\ ~environment.SEED_DEMO
        BY <4>1 DEF Seeds
      <4>3. environment.command # "runserver"
        BY <4>1 DEF Checked
      <4> QED BY <1>1, <4>1, <4>2, <4>3 DEF CheckInv, Unchecked
    <3> QED BY <1>3, <2>7, <3>1 DEF Serve
  <2>8. CASE SeedNothing(c)
    BY <1>3, <2>8 DEF SeedNothing
  <2> QED BY <1>4, <2>1, <2>2, <2>3, <2>4, <2>5, <2>6, <2>7, <2>8 DEF Preparing
<1>5. ASSUME NEW c \in Containers, Kill(c) PROVE CheckInv'
  BY <1>3, <1>5 DEF Kill
<1>6. ASSUME NEW c \in Containers, BeginSeed(c) PROVE CheckInv'
  BY <1>3, <1>6 DEF BeginSeed
<1>7. ASSUME NEW c \in Containers, EnsureStaff(c) \/ CheckTickets(c) PROVE CheckInv'
  BY <1>2, <1>7 DEF EnsureStaff, CheckTickets
<1>8. ASSUME NEW c \in Containers, phase[c] \in {"seeding", "playing"},
             NEW to, Go(c, to), UNCHANGED environment
      PROVE  CheckInv'
  BY <1>3, <1>8 DEF CheckInv
<1>9. ASSUME NEW c \in Containers, SkipSeed(c) \/ CommitSeed(c) PROVE CheckInv'
  BY <1>8, <1>9 DEF SkipSeed, CommitSeed, EndSeed, StaffEnsured, AtTickets
<1>10. ASSUME NEW c \in Containers, Create(c) \/ Play(c) \/ Played(c) PROVE CheckInv'
  BY <1>8, <1>10 DEF Create, Play, Played, AtTickets
<1>11. DatabaseReady \/ UNCHANGED bootVars => CheckInv'
  BY <1>2 DEF DatabaseReady, bootVars
<1> QED BY <1>4, <1>5, <1>6, <1>7, <1>9, <1>10, <1>11 DEF Next, Advance, Preparing

(* With failing checks only what is not checked comes to serve.            *)
THEOREM NobodyServesUnchecked == Spec => []PerProcessCacheIsRefused
<1>1. CheckInv => PerProcessCacheIsRefused
  BY DEF CheckInv, PerProcessCacheIsRefused, Unchecked
<1> QED BY <1>1, CheckInit, CheckStep, PTL DEF Spec

-----------------------------------------------------------------------------
Staff == {STAFF[i] : i \in 1 .. Len(STAFF)}

Taken(n) == {STAFF[i] : i \in 1 .. n}

SeedFields == {"rebuilds", "wiped", "gone", "ensured", "staff", "checked",
               "customers", "tickets", "ticket", "script"}

LEMMA StaffList ==
  /\ STAFF \in Seq(Users) /\ Len(STAFF) \in Nat \ {0} /\ Taken(Len(STAFF)) = Staff
  /\ \A n \in 0 .. Len(STAFF) : \A i \in 1 .. Len(STAFF) : STAFF[i] \in Taken(n) <=> i <= n
<1>1. STAFF \in Seq(Users) /\ Len(STAFF) \in Nat \ {0}
  BY DemoAssumption DEF STAFF
<1>2. ASSUME NEW n \in 0 .. Len(STAFF), NEW i \in 1 .. Len(STAFF)
      PROVE  STAFF[i] \in Taken(n) <=> i <= n
  <2>1. ASSUME STAFF[i] \in Taken(n) PROVE i <= n
    <3>1. PICK j \in 1 .. n : STAFF[i] = STAFF[j]
      BY <2>1 DEF Taken
    <3>2. j \in 1 .. Len(STAFF)
      BY <1>1
    <3> QED BY <3>1, <3>2, DemoAssumption
  <2>2. ASSUME i <= n PROVE STAFF[i] \in Taken(n)
    <3>1. i \in 1 .. n
      BY <1>1, <2>2
    <3> QED BY <3>1 DEF Taken
  <2> QED BY <2>1, <2>2
<1> QED BY <1>1, <1>2 DEF Taken, Staff

(* The first n accounts are ensured, and all of them were inserted while   *)
(* there were none.                                                        *)
Ensured(s, n) ==
  /\ s.ensured = Taken(n)
  /\ s.staff = IF accounts = {} THEN Taken(n) ELSE {}
  /\ s.checked => n = Len(STAFF) /\ (s.rebuilds \/ batches = {})
  /\ ~s.checked => s.customers = {}

OpenSeedOK(c) ==
  /\ DOMAIN work[c] = SeedFields
  /\ work[c].rebuilds => c \in Resetters
  /\ \E n \in 0 .. Len(STAFF) : Ensured(work[c], n)

(* The first account lets one seed on.                                     *)
OneGoesOn ==
  accounts = {} =>
    \A c, d \in Containers :
      Seeding(c) /\ Seeding(d) /\ c # d => work[c].ensured = {} \/ work[d].ensured = {}

SeedInv ==
  /\ DOMAIN phase = Containers /\ DOMAIN work = Containers
  /\ accounts = IF batches = {} THEN {} ELSE Staff
  /\ \A b, e \in batches : b.seed \notin Resetters /\ e.seed \notin Resetters => b = e
  /\ \A c \in Containers : Seeding(c) => OpenSeedOK(c)
  /\ OneGoesOn

LEMMA SeedInit == Init => SeedInv
BY DEF Init, SeedInv, Seeding, OneGoesOn

(* What a step leaves of the seeds of the other containers.                *)
LEMMA OtherSeeds ==
  ASSUME SeedInv, NEW c \in Containers,
         UNCHANGED <<accounts, batches>>,
         DOMAIN phase' = Containers, DOMAIN work' = Containers,
         \A d \in Containers \ {c} : phase'[d] = phase[d] /\ work'[d] = work[d],
         Seeding(c)' => OpenSeedOK(c)',
         Seeding(c)' /\ accounts = {} /\ work'[c].ensured # {} =>
           \A d \in Containers \ {c} : Seeding(d) => work[d].ensured = {}
  PROVE  SeedInv'
<1>1. \A d \in Containers \ {c} : Seeding(d)' <=> Seeding(d)
  BY DEF Seeding
<1>2. \A d \in Containers : Seeding(d)' => OpenSeedOK(d)'
  BY <1>1 DEF SeedInv, OpenSeedOK, Ensured
<1>3. OneGoesOn'
  BY <1>1 DEF SeedInv, OneGoesOn
<1> QED BY <1>2, <1>3 DEF SeedInv

LEMMA PrepareSeedStep ==
  ASSUME SeedInv, NEW c \in Containers, Preparing(c) \/ Kill(c)
  PROVE  SeedInv'
<1>1. UNCHANGED <<accounts, batches>>
  BY DEF Preparing, Start, WaitForDb, SkipMigrate, RefuseToBoot, PlanMigrations,
     Migrate, Serve, SeedNothing, Kill
<1>2. DOMAIN phase = Containers /\ DOMAIN work = Containers
  BY DEF SeedInv
<1>3. /\ DOMAIN phase' = Containers /\ DOMAIN work' = Containers
      /\ \A d \in Containers \ {c} : phase'[d] = phase[d] /\ work'[d] = work[d]
  <2>1. CASE Start(c) \/ WaitForDb(c) \/ SkipMigrate(c) \/ RefuseToBoot(c) \/ PlanMigrations(c)
    BY <1>2, <2>1 DEF Start, WaitForDb, SkipMigrate, RefuseToBoot, PlanMigrations, Go
  <2>2. CASE Migrate(c) \/ Serve(c) \/ SeedNothing(c)
    BY <1>2, <2>2 DEF Migrate, Serve, SeedNothing, Go
  <2>3. CASE Kill(c)
    BY <1>2, <2>3 DEF Kill, Go
  <2> QED BY <2>1, <2>2, <2>3 DEF Preparing
<1>4. ~Seeding(c)'
  <2>1. CASE Start(c) \/ WaitForDb(c) \/ SkipMigrate(c) \/ RefuseToBoot(c) \/ PlanMigrations(c)
    BY <1>2, <2>1 DEF Start, WaitForDb, SkipMigrate, RefuseToBoot, PlanMigrations, Go, Seeding
  <2>2. CASE Migrate(c) \/ Serve(c) \/ SeedNothing(c)
    BY <1>2, <2>2 DEF Migrate, Serve, SeedNothing, Go, Seeding
  <2>3. CASE Kill(c)
    BY <1>2, <2>3 DEF Kill, Go, Seeding
  <2> QED BY <2>1, <2>2, <2>3 DEF Preparing
<1> QED BY <1>1, <1>3, <1>4, OtherSeeds

LEMMA BeginSeedStep ==
  ASSUME SeedInv, NEW c \in Containers, BeginSeed(c)
  PROVE  SeedInv'
<1>1. PICK s : /\ work' = [work EXCEPT ![c] = s]
               /\ DOMAIN s = SeedFields /\ (s.rebuilds => c \in Resetters)
               /\ s.ensured = {} /\ s.staff = {} /\ ~s.checked /\ s.customers = {}
  <2>1. ASSUME NEW wiped, NEW gone, NEW rebuilds
        PROVE  LET s == OpenSeed(rebuilds, wiped, gone)
               IN  /\ DOMAIN s = SeedFields
                   /\ s.ensured = {} /\ s.staff = {} /\ s.checked = FALSE /\ s.customers = {}
    BY DEF OpenSeed, SeedFields
  <2>2. CASE c \in Resetters
    <3> DEFINE s == OpenSeed(TRUE, batches, customers)
    <3>1. work' = [work EXCEPT ![c] = s]
      BY <2>2 DEF BeginSeed
    <3>2. /\ DOMAIN s = SeedFields /\ s.ensured = {} /\ s.staff = {}
          /\ s.checked = FALSE /\ s.customers = {}
      BY <2>1
    <3> HIDE DEF s
    <3> QED BY <2>2, <3>1, <3>2
  <2>3. CASE c \notin Resetters
    <3> DEFINE s == OpenSeed(FALSE, {}, {})
    <3>1. work' = [work EXCEPT ![c] = s]
      BY <2>3 DEF BeginSeed
    <3>2. /\ DOMAIN s = SeedFields /\ s.ensured = {} /\ s.staff = {}
          /\ s.checked = FALSE /\ s.customers = {}
      BY DEF OpenSeed, SeedFields
    <3>3. s.rebuilds = FALSE
      BY DEF OpenSeed
    <3> HIDE DEF s
    <3> QED BY <3>1, <3>2, <3>3
  <2> QED BY <2>2, <2>3
<1>2. /\ UNCHANGED <<accounts, batches>>
      /\ DOMAIN phase' = Containers /\ DOMAIN work' = Containers
      /\ \A d \in Containers \ {c} : phase'[d] = phase[d] /\ work'[d] = work[d]
      /\ work'[c] = s
  BY <1>1 DEF BeginSeed, Go, SeedInv
<1>3. Taken(0) = {} /\ 0 \in 0 .. Len(STAFF)
  BY StaffList DEF Taken
<1>4. Ensured(work[c], 0)'
  BY <1>1, <1>2, <1>3 DEF Ensured, Taken, STAFF
<1>5. OpenSeedOK(c)'
  BY <1>1, <1>2, <1>3, <1>4 DEF OpenSeedOK, STAFF
<1> QED BY <1>1, <1>2, <1>5, OtherSeeds

(* The account that comes next is the one behind those ensured.            *)
LEMMA NextAccountsAfter ==
  ASSUME NEW c \in Containers, NEW n \in 0 .. Len(STAFF), work[c].ensured = Taken(n)
  PROVE  NextAccounts(c) = IF n = Len(STAFF) THEN {} ELSE {STAFF[n + 1]}
<1>1. Len(STAFF) \in Nat
  BY StaffList
<1>2. {m \in 1 .. Len(STAFF) : STAFF[m] \in work[c].ensured} = 1 .. n
  BY <1>1, StaffList
<1>3. \A k \in 1 .. Len(STAFF) : 1 .. n = 1 .. k - 1 <=> k = n + 1
  <2> TAKE k \in 1 .. Len(STAFF)
  <2>1. ASSUME 1 .. n = 1 .. k - 1 PROVE k = n + 1
    <3>1. n <= k - 1
      BY <1>1, <2>1
    <3>2. k - 1 <= n
      BY <1>1, <2>1
    <3> QED BY <1>1, <3>1, <3>2
  <2> QED BY <1>1, <2>1
<1>4. NextAccounts(c) = {STAFF[i] : i \in {k \in 1 .. Len(STAFF) : k = n + 1}}
  BY <1>2, <1>3 DEF NextAccounts
<1> QED BY <1>1, <1>4

LEMMA EnsureStep ==
  ASSUME SeedInv, NEW c \in Containers, EnsureStaff(c)
  PROVE  SeedInv'
<1>1. PICK user \in NextAccounts(c) :
        /\ user \in accounts \/ ~StaffHeld(c, user)
        /\ work' = [work EXCEPT ![c].ensured = @ \cup {user},
                                ![c].staff = @ \cup ({user} \ accounts)]
  BY DEF EnsureStaff
<1>2. Seeding(c) /\ OpenSeedOK(c) /\ phase[c] = "seeding"
  BY DEF EnsureStaff, Seeding, SeedInv
<1>3. PICK n \in 0 .. Len(STAFF) : Ensured(work[c], n)
  BY <1>2 DEF OpenSeedOK
<1>4. n < Len(STAFF) /\ user = STAFF[n + 1] /\ n + 1 \in 1 .. Len(STAFF) /\ n + 1 \in 0 .. Len(STAFF)
  BY <1>1, <1>3, StaffList, NextAccountsAfter DEF Ensured
<1>5. Taken(n + 1) = Taken(n) \cup {user} /\ user \in Staff
  <2>1. 1 .. n + 1 = (1 .. n) \cup {n + 1}
    BY <1>4
  <2> QED BY <1>4, <2>1 DEF Taken, Staff
<1>6. accounts = {} \/ accounts = Staff
  BY DEF SeedInv
<1>7. /\ UNCHANGED <<accounts, batches, phase>>
      /\ DOMAIN phase' = Containers /\ DOMAIN work' = Containers
      /\ \A d \in Containers \ {c} : phase'[d] = phase[d] /\ work'[d] = work[d]
      /\ work'[c] = [work[c] EXCEPT !.ensured = @ \cup {user},
                                    !.staff = @ \cup ({user} \ accounts)]
  BY <1>1 DEF EnsureStaff, SeedInv
<1>8. DOMAIN work[c] = SeedFields
  BY <1>2 DEF OpenSeedOK
<1>9. /\ DOMAIN work'[c] = SeedFields
      /\ work'[c].ensured = work[c].ensured \cup {user}
      /\ work'[c].staff = work[c].staff \cup ({user} \ accounts)
      /\ work'[c].rebuilds = work[c].rebuilds
      /\ work'[c].checked = work[c].checked
      /\ work'[c].customers = work[c].customers
  BY <1>7, <1>8 DEF SeedFields
<1>10. Ensured(work[c], n + 1)'
  <2>1. ~work[c].checked
    BY <1>3, <1>4 DEF Ensured
  <2>2. work'[c].staff = IF accounts = {} THEN Taken(n + 1) ELSE {}
    BY <1>3, <1>5, <1>6, <1>9 DEF Ensured
  <2> QED BY <1>3, <1>5, <1>7, <1>9, <2>1, <2>2 DEF Ensured, Taken, STAFF
<1>11. OpenSeedOK(c)'
  BY <1>2, <1>4, <1>9, <1>10 DEF OpenSeedOK, STAFF
<1>12. ASSUME accounts = {}, NEW d \in Containers \ {c}, Seeding(d), work[d].ensured # {}
       PROVE  FALSE
  <2>1. PICK m \in 0 .. Len(STAFF) : Ensured(work[d], m)
    BY <1>12 DEF SeedInv, OpenSeedOK
  <2>2. work[d].ensured = Taken(m) /\ work[d].staff = Taken(m)
    BY <1>12, <2>1 DEF Ensured
  <2>3. m # 0
    BY <1>12, <2>2 DEF Taken
  <2>4. work[c].ensured = {}
    BY <1>2, <1>12 DEF SeedInv, OneGoesOn
  <2>5. n = 0
    <3>1. n # 0 => STAFF[1] \in Taken(n)
      BY <1>4, StaffList
    <3> QED BY <1>3, <2>4, <3>1 DEF Ensured
  <2>6. STAFF[1] \in Taken(m) /\ user = STAFF[1]
    BY <1>4, <2>1, <2>3, <2>5, StaffList
  <2>7. StaffHeld(c, user)
    BY <1>12, <2>2, <2>6 DEF StaffHeld
  <2> QED BY <1>1, <1>12, <2>7
<1> QED BY <1>7, <1>11, <1>12, OtherSeeds

(* A step of a seed that leaves what is committed, and the accounts it has *)
(* seen to.                                                                *)
LEMMA SameAccounts ==
  ASSUME SeedInv, NEW c \in Containers, Seeding(c),
         UNCHANGED <<accounts, batches>>,
         DOMAIN phase' = Containers, DOMAIN work' = Containers,
         \A d \in Containers \ {c} : phase'[d] = phase[d] /\ work'[d] = work[d],
         Seeding(c)' =>
           /\ DOMAIN work'[c] = SeedFields
           /\ work'[c].rebuilds = work[c].rebuilds
           /\ work'[c].ensured = work[c].ensured /\ work'[c].staff = work[c].staff
           /\ work'[c].checked => \E n \in 0 .. Len(STAFF) :
                Ensured(work[c], n) /\ n = Len(STAFF) /\ (work[c].rebuilds \/ batches = {})
           /\ ~work'[c].checked => ~work[c].checked /\ work'[c].customers = work[c].customers
  PROVE  SeedInv'
<1>1. PICK n \in 0 .. Len(STAFF) : Ensured(work[c], n)
  BY DEF SeedInv, OpenSeedOK
<1>2. ASSUME Seeding(c)' PROVE OpenSeedOK(c)'
  <2>1. CASE work'[c].checked
    <3>1. PICK m \in 0 .. Len(STAFF) : Ensured(work[c], m) /\ m = Len(STAFF) /\ (work[c].rebuilds \/ batches = {})
      BY <1>2, <2>1
    <3>2. Ensured(work[c], m)'
      BY <1>2, <2>1, <3>1 DEF Ensured, Taken, STAFF
    <3> QED BY <1>2, <3>1, <3>2 DEF OpenSeedOK, SeedInv, STAFF
  <2>2. CASE ~work'[c].checked
    <3>1. Ensured(work[c], n)'
      BY <1>1, <1>2, <2>2 DEF Ensured, Taken, STAFF
    <3> QED BY <1>1, <1>2, <3>1 DEF OpenSeedOK, SeedInv, STAFF
  <2> QED BY <2>1, <2>2
<1>3. ASSUME accounts = {}, Seeding(c)', work'[c].ensured # {}, NEW d \in Containers \ {c}, Seeding(d)
      PROVE  work[d].ensured = {}
  BY <1>3 DEF SeedInv, OneGoesOn
<1> QED BY <1>2, <1>3, OtherSeeds

LEMMA TicketSteps ==
  ASSUME SeedInv, NEW c \in Containers,
         CheckTickets(c) \/ Create(c) \/ Play(c) \/ Played(c)
  PROVE  SeedInv'
<1>1. /\ UNCHANGED <<accounts, batches>>
      /\ Seeding(c) /\ DOMAIN phase' = Containers /\ DOMAIN work' = Containers
      /\ \A d \in Containers \ {c} : phase'[d] = phase[d] /\ work'[d] = work[d]
  <2>1. CASE CheckTickets(c)
    BY <2>1 DEF CheckTickets, StaffEnsured, Seeding, SeedInv
  <2>2. CASE Create(c)
    BY <2>2 DEF Create, AtTickets, Seeding, SeedInv, Go
  <2>3. CASE Play(c)
    BY <2>3 DEF Play, Seeding, SeedInv, Go
  <2>4. CASE Played(c)
    BY <2>4 DEF Played, Seeding, SeedInv, Go
  <2> QED BY <2>1, <2>2, <2>3, <2>4
<1>2. PICK n \in 0 .. Len(STAFF) : Ensured(work[c], n)
  BY <1>1 DEF SeedInv, OpenSeedOK
<1>3. DOMAIN work[c] = SeedFields
  BY <1>1 DEF SeedInv, OpenSeedOK
<1>4. CASE CheckTickets(c)
  <2>1. work'[c] = [work[c] EXCEPT !.checked = TRUE]
    BY <1>4 DEF CheckTickets, SeedInv
  <2>2. n = Len(STAFF)
    BY <1>2, <1>4, NextAccountsAfter DEF CheckTickets, StaffEnsured, Ensured
  <2>3. /\ DOMAIN work'[c] = SeedFields /\ work'[c].rebuilds = work[c].rebuilds
        /\ work'[c].ensured = work[c].ensured /\ work'[c].staff = work[c].staff
    BY <1>3, <2>1 DEF SeedFields
  <2>4. work'[c].checked
    BY <1>3, <2>1 DEF SeedFields
  <2> QED BY <1>1, <1>2, <1>4, <2>2, <2>3, <2>4, SameAccounts DEF CheckTickets
<1>5. ASSUME Seeding(c)' => work[c].checked \/ phase[c] = "playing",
             Seeding(c)' =>
               /\ DOMAIN work'[c] = SeedFields
               /\ work'[c].rebuilds = work[c].rebuilds
               /\ work'[c].ensured = work[c].ensured /\ work'[c].staff = work[c].staff
               /\ work'[c].checked = work[c].checked
               /\ ~work[c].checked => work'[c].customers = work[c].customers
      PROVE  SeedInv'
  <2>1. Seeding(c)' /\ work'[c].checked =>
          Ensured(work[c], n) /\ n = Len(STAFF) /\ (work[c].rebuilds \/ batches = {})
    BY <1>2, <1>5 DEF Ensured
  <2> QED BY <1>1, <1>2, <1>5, <2>1, SameAccounts
<1>6. CASE Create(c)
  <2>0. PICK drawn \in Drawn :
          work' = [work EXCEPT
            ![c].customers = @ \cup ({CustomerOf(Len(work[c].tickets))} \ (customers \ work[c].gone)),
            ![c].ticket = Reported(Len(work[c].tickets)),
            ![c].script = Script(Len(work[c].tickets), drawn)]
    BY <1>6 DEF Create
  <2> DEFINE more == {CustomerOf(Len(work[c].tickets))} \ (customers \ work[c].gone)
             row == Reported(Len(work[c].tickets))
             script == Script(Len(work[c].tickets), drawn)
  <2>1. work'[c] = [work[c] EXCEPT !.customers = @ \cup more, !.ticket = row, !.script = script]
    BY <2>0 DEF SeedInv
  <2> HIDE DEF more, row, script
  <2>2. /\ DOMAIN work'[c] = SeedFields /\ work'[c].rebuilds = work[c].rebuilds
        /\ work'[c].ensured = work[c].ensured /\ work'[c].staff = work[c].staff
        /\ work'[c].checked = work[c].checked
    BY <1>3, <2>1 DEF SeedFields
  <2>3. work[c].checked
    BY <1>6 DEF Create, AtTickets
  <2> QED BY <1>5, <2>2, <2>3
<1>7. CASE Play(c)
  <2>1. CASE Raises(work[c].ticket, Head(work[c].script))
    <3>1. ~Seeding(c)'
      BY <1>7, <2>1 DEF Play, Go, Seeding, SeedInv
    <3> QED BY <1>5, <3>1
  <2>2. CASE ~Raises(work[c].ticket, Head(work[c].script))
    <3>1. PICK row, script : work'[c] = [work[c] EXCEPT !.ticket = row, !.script = script]
      BY <1>7, <2>2 DEF Play, SeedInv
    <3>2. /\ DOMAIN work'[c] = SeedFields /\ work'[c].rebuilds = work[c].rebuilds
          /\ work'[c].ensured = work[c].ensured /\ work'[c].staff = work[c].staff
          /\ work'[c].checked = work[c].checked /\ work'[c].customers = work[c].customers
      BY <1>3, <3>1 DEF SeedFields
    <3>3. phase[c] = "playing"
      BY <1>7 DEF Play
    <3> QED BY <1>5, <3>2, <3>3
  <2> QED BY <2>1, <2>2
<1>8. CASE Played(c)
  <2>1. PICK rows : work'[c] = [work[c] EXCEPT !.tickets = rows, !.ticket = None]
    BY <1>8 DEF Played, SeedInv
  <2>2. /\ DOMAIN work'[c] = SeedFields /\ work'[c].rebuilds = work[c].rebuilds
        /\ work'[c].ensured = work[c].ensured /\ work'[c].staff = work[c].staff
        /\ work'[c].checked = work[c].checked /\ work'[c].customers = work[c].customers
    BY <1>3, <2>1 DEF SeedFields
  <2>3. phase[c] = "playing"
    BY <1>8 DEF Played
  <2> QED BY <1>5, <2>2, <2>3
<1> QED BY <1>4, <1>6, <1>7, <1>8

LEMMA SomeStaff == Staff # {} /\ \A n \in 0 .. Len(STAFF) : Taken(n) = {} => n = 0
<1>1. STAFF[1] \in Staff
  BY StaffList DEF Staff
<1>2. ASSUME NEW n \in 0 .. Len(STAFF), n # 0 PROVE STAFF[1] \in Taken(n)
  BY <1>2, StaffList
<1> QED BY <1>1, <1>2

LEMMA SkipStep ==
  ASSUME SeedInv, NEW c \in Containers, SkipSeed(c)
  PROVE  SeedInv'
<1>1. Seeding(c) /\ accounts = Staff /\ batches # {}
  BY DEF SkipSeed, StaffEnsured, Seeding, SeedInv
<1>2. work[c].staff = {}
  BY <1>1, SomeStaff DEF SeedInv, OpenSeedOK, Ensured
<1>3. /\ UNCHANGED <<accounts, batches>>
      /\ DOMAIN phase' = Containers /\ DOMAIN work' = Containers
      /\ \A d \in Containers \ {c} : phase'[d] = phase[d] /\ work'[d] = work[d]
      /\ ~Seeding(c)'
  BY <1>2 DEF SkipSeed, EndSeed, Go, SeedInv, Seeding
<1> QED BY <1>3, OtherSeeds

LEMMA CommitStep ==
  ASSUME SeedInv, NEW c \in Containers, CommitSeed(c)
  PROVE  SeedInv'
<1> DEFINE new == [seed |-> c, tickets |-> work[c].tickets]
<1>1. Seeding(c) /\ work[c].checked
  BY DEF CommitSeed, AtTickets, Seeding
<1>2. Ensured(work[c], Len(STAFF)) /\ (work[c].rebuilds => c \in Resetters)
  BY <1>1 DEF SeedInv, OpenSeedOK, Ensured
<1>3. accounts' = Staff /\ (c \in Resetters \/ batches = {})
  BY <1>1, <1>2, StaffList DEF SeedInv, Ensured, CommitSeed, EndSeed
<1>4. /\ batches' = (batches \ work[c].wiped) \cup {new}
      /\ DOMAIN phase' = Containers /\ DOMAIN work' = Containers
      /\ \A d \in Containers \ {c} : phase'[d] = phase[d] /\ work'[d] = work[d]
      /\ ~Seeding(c)'
  BY DEF CommitSeed, EndSeed, Go, SeedInv, Seeding
<1>5. new.seed = c
  OBVIOUS
<1> HIDE DEF new
<1>6. accounts' = IF batches' = {} THEN {} ELSE Staff'
  BY <1>3, <1>4 DEF Staff, STAFF
<1>7. \A b, e \in batches' : b.seed \notin Resetters /\ e.seed \notin Resetters => b = e
  BY <1>3, <1>4, <1>5 DEF SeedInv
<1>8. ASSUME NEW d \in Containers \ {c}, Seeding(d)' PROVE OpenSeedOK(d)'
  <2>1. Seeding(d) /\ OpenSeedOK(d) /\ work'[d] = work[d]
    BY <1>4, <1>8 DEF Seeding, SeedInv
  <2>2. PICK m \in 0 .. Len(STAFF) : Ensured(work[d], m)
    BY <2>1 DEF OpenSeedOK
  <2>3. CASE accounts = {}
    <3>1. work[c].ensured # {}
      BY <1>2, StaffList, SomeStaff DEF Ensured
    <3>2. work[d].ensured = {}
      BY <1>1, <2>1, <2>3, <3>1 DEF SeedInv, OneGoesOn
    <3>3. m = 0
      BY <2>2, <3>2, SomeStaff DEF Ensured
    <3>4. Taken(0) = {} /\ Len(STAFF) # 0
      BY StaffList DEF Taken
    <3>5. work[d].staff = {} /\ ~work[d].checked
      BY <2>2, <2>3, <3>3, <3>4 DEF Ensured
    <3>6. Ensured(work[d], m)'
      BY <1>3, <2>1, <2>2, <3>5, SomeStaff DEF Ensured, Taken, STAFF
    <3> QED BY <2>1, <2>2, <3>6 DEF OpenSeedOK, STAFF
  <2>4. CASE accounts # {}
    <3>1. accounts = Staff /\ batches # {}
      BY <2>4 DEF SeedInv
    <3>2. Ensured(work[d], m)'
      BY <1>3, <2>1, <2>2, <2>4, <3>1, SomeStaff DEF Ensured, Taken, STAFF
    <3> QED BY <2>1, <2>2, <3>2 DEF OpenSeedOK, STAFF
  <2> QED BY <2>3, <2>4
<1>9. OneGoesOn'
  BY <1>3, SomeStaff DEF OneGoesOn
<1> QED BY <1>4, <1>6, <1>7, <1>8, <1>9 DEF SeedInv

LEMMA SeedStep == SeedInv /\ [Next]_bootVars => SeedInv'
<1> SUFFICES ASSUME SeedInv, [Next]_bootVars PROVE SeedInv'
  OBVIOUS
<1>1. ASSUME UNCHANGED <<accounts, batches, phase, work>> PROVE SeedInv'
  BY <1>1 DEF SeedInv, Seeding, OpenSeedOK, Ensured, OneGoesOn, Staff, Taken, STAFF
<1>2. DatabaseReady \/ UNCHANGED bootVars => SeedInv'
  BY <1>1 DEF DatabaseReady, bootVars
<1>3. ASSUME NEW c \in Containers, Start(c) \/ Advance(c) \/ Kill(c) PROVE SeedInv'
  BY <1>3, PrepareSeedStep, BeginSeedStep, EnsureStep, SkipStep, TicketSteps, CommitStep
  DEF Advance, Preparing
<1> QED BY <1>2, <1>3 DEF Next

(* Of the containers that do not reset, at most one has tickets committed, *)
(* and accounts and tickets are there together or not at all.              *)
THEOREM TheDemoIsSeededOnce == Spec => []OneBatch
<1>1. SeedInv => OneBatch
  <2> SUFFICES ASSUME SeedInv PROVE OneBatch
    OBVIOUS
  <2> DEFINE seeded == {b \in batches : b.seed \notin Resetters}
  <2>1. CASE seeded = {}
    BY <2>1, FS_EmptySet DEF OneBatch, SeedInv, Staff
  <2>2. CASE seeded # {}
    <3>1. PICK b : seeded = {b}
      BY <2>2 DEF SeedInv
    <3>2. Cardinality(seeded) = 1
      BY <3>1, FS_Singleton
    <3> QED BY <3>2 DEF OneBatch, SeedInv, Staff
  <2> QED BY <2>1, <2>2
<1> QED BY <1>1, SeedInit, SeedStep, PTL DEF Spec

(* A seed waits for one that can go on: the one that got the first account,*)
(* or, once the accounts are there, the only one that resets.              *)
LEMMA WaitsForOneAhead ==
  ASSUME SeedInv, NEW c \in Containers, NEW d \in Containers, WaitsFor(c, d),
         NEW e \in Containers, WaitsFor(d, e)
  PROVE  c = d \/ d = e
<1> SUFFICES ASSUME c # d, d # e PROVE FALSE
  OBVIOUS
<1>1. Seeding(c) /\ Seeding(d) /\ Seeding(e)
  BY DEF WaitsFor, Seeding
<1>2. PICK m \in 0 .. Len(STAFF) : Ensured(work[d], m)
  BY <1>1 DEF SeedInv, OpenSeedOK
<1>3. PICK k \in 0 .. Len(STAFF) : Ensured(work[e], k)
  BY <1>1 DEF SeedInv, OpenSeedOK
<1>4. PICK n \in 0 .. Len(STAFF) : Ensured(work[c], n)
  BY <1>1 DEF SeedInv, OpenSeedOK
<1>5. CASE accounts = {}
  <2>1. ASSUME NEW x \in Containers, NEW y \in Containers, WaitsFor(x, y),
               NEW q \in 0 .. Len(STAFF), Ensured(work[y], q)
        PROVE  work[y].ensured # {}
    <3>1. CASE work[y].staff # {}
      BY <1>5, <2>1, <3>1 DEF Ensured
    <3>2. CASE work[y].customers # {}
      <4>1. q = Len(STAFF)
        BY <2>1, <3>2 DEF Ensured
      <4> QED BY <2>1, <4>1, StaffList, SomeStaff DEF Ensured
    <3> QED BY <2>1, <3>1, <3>2 DEF WaitsFor
  <2>2. work[d].ensured # {} /\ work[e].ensured # {}
    BY <1>2, <1>3, <2>1
  <2> QED BY <1>1, <1>5, <2>2 DEF SeedInv, OneGoesOn
<1>6. CASE accounts # {}
  <2>1. work[d].staff = {} /\ work[e].staff = {} /\ batches # {}
    BY <1>2, <1>3, <1>6 DEF Ensured, SeedInv
  <2>2. work[c].checked /\ work[d].customers # {}
    BY <2>1 DEF WaitsFor
  <2>3. work[d].checked
    BY <1>2, <2>2 DEF Ensured
  <2>4. c \in Resetters /\ d \in Resetters
    BY <1>1, <1>2, <1>4, <2>1, <2>2, <2>3 DEF Ensured, SeedInv, OpenSeedOK
  <2> QED BY <2>4, BootAssumption
<1> QED BY <1>5, <1>6

(* No group of seeds waits in a circle, however many start at once.        *)
THEOREM WaitsEnd == Spec => []NobodyWaitsInACircle
<1>1. SeedInv => NobodyWaitsInACircle
  <2> SUFFICES ASSUME SeedInv, NEW group \in (SUBSET Containers) \ {{}},
                      \A c \in group : \E d \in group \ {c} : WaitsFor(c, d)
               PROVE  FALSE
    BY DEF NobodyWaitsInACircle
  <2>0. group # {}
    OBVIOUS
  <2>1. PICK c \in group : TRUE
    BY <2>0
  <2>2. PICK d \in group \ {c} : WaitsFor(c, d)
    BY <2>1
  <2>3. PICK e \in group \ {d} : WaitsFor(d, e)
    BY <2>2
  <2> QED BY <2>1, <2>2, <2>3, WaitsForOneAhead
<1> QED BY <1>1, SeedInit, SeedStep, PTL DEF Spec

-----------------------------------------------------------------------------
(* The calls of a script, and what is left of one from a call on.          *)
Reclassify(drawn) == ServiceCall("change_priority", Supervisor, drawn)
Hand(index) == ServiceCall("assign", Supervisor, Owner(index))
Move(index, status) == ServiceCall("change_status", Owner(index), status)
Note(actor) == ServiceCall("comment", actor, "")
TakeBack == ServiceCall("assign", Supervisor, None)
Close == ServiceCall("change_status", Supervisor, "CLOSED")

Ending(index) ==
  LET stage == index % 6
  IN  IF stage = 1 THEN <<>>
      ELSE IF stage = 2 THEN <<Move(index, "PENDING_CUSTOMER")>>
      ELSE IF stage = 3 THEN <<TakeBack>>
      ELSE IF stage = 4 THEN <<Move(index, "RESOLVED")>>
      ELSE <<Move(index, "RESOLVED")>> \o (<<Note(Supervisor)>> \o <<Close>>)

FromNote(index) == <<Note(Owner(index))>> \o Ending(index)
FromWork(index) == <<Move(index, "IN_PROGRESS")>> \o FromNote(index)
FromHand(index) == <<Hand(index)>> \o FromWork(index)

ScriptCalls(index, drawn) ==
  {Reclassify(drawn), Hand(index), Move(index, "IN_PROGRESS"), Move(index, "PENDING_CUSTOMER"),
   Move(index, "RESOLVED"), Note(Owner(index)), Note(Supervisor), TakeBack, Close}

(* Sequences one after the other, whichever are joined first: a definition *)
(* to cite instances by.                                                   *)
Joined(a, b, c, d, e) == a \o b \o c \o d \o e = a \o (b \o (c \o (d \o e)))

LEMMA Regrouped ==
  ASSUME NEW V, NEW a \in Seq(V), NEW b \in Seq(V), NEW c \in Seq(V), NEW d \in Seq(V),
         NEW e \in Seq(V)
  PROVE  Joined(a, b, c, d, e)
<1> DEFINE ab == a \o b  abc == ab \o c  de == d \o e  cde == c \o de
<1>1. ab \in Seq(V) /\ de \in Seq(V)
  OBVIOUS
<1>2. ab \o (c \o de) = a \o (b \o (c \o de))
  <2>1. cde \in Seq(V)
    <3> HIDE DEF de
    <3> QED BY <1>1
  <2> HIDE DEF cde
  <2>2. ab \o cde = a \o (b \o cde)
    OBVIOUS
  <2> QED BY <2>2 DEF cde
<1>3. abc \o de = ab \o (c \o de)
  <2> HIDE DEF ab, de
  <2> QED BY <1>1
<1>4. abc \in Seq(V)
  <2> HIDE DEF ab
  <2> QED BY <1>1
<1>5. (abc \o d) \o e = abc \o de
  <2> HIDE DEF abc
  <2> QED BY <1>4
<1> QED BY <1>2, <1>3, <1>5 DEF Joined

LEMMA ScriptShape ==
  ASSUME NEW index \in Nat, NEW drawn
  PROVE  Script(index, drawn) =
           IF index % 6 = 0 THEN <<>>
           ELSE IF index % 5 = 0 THEN <<Reclassify(drawn)>> \o FromHand(index)
           ELSE FromHand(index)
<1> DEFINE V == ScriptCalls(index, drawn)
           triage == IF index % 5 = 0 THEN <<Reclassify(drawn)>> ELSE <<>>
           hand == <<Hand(index)>>
           start == <<Move(index, "IN_PROGRESS")>>
           note == <<Note(Owner(index))>>
           pend == <<Move(index, "PENDING_CUSTOMER")>>
           resolve == <<Move(index, "RESOLVED")>>
           back == <<TakeBack>>
           last == <<Note(Supervisor)>>
           close == <<Close>>
           taken == triage \o hand \o start \o note
<1>0. /\ index % 6 = 0 \/ index % 6 = 1 \/ index % 6 = 2 \/ index % 6 = 3 \/ index % 6 = 4 \/ index % 6 = 5
      /\ 0 # 1 /\ 0 # 2 /\ 0 # 3 /\ 0 # 4 /\ 0 # 5 /\ 1 # 2 /\ 1 # 3 /\ 1 # 4 /\ 1 # 5
      /\ 2 # 3 /\ 2 # 4 /\ 2 # 5 /\ 3 # 4 /\ 3 # 5 /\ 4 # 5
  OBVIOUS
<1>1. /\ index % 6 = 0 => Script(index, drawn) = <<>>
      /\ index % 6 = 1 => Script(index, drawn) = taken
      /\ index % 6 = 2 => Script(index, drawn) = taken \o pend
      /\ index % 6 = 3 => Script(index, drawn) = taken \o back
      /\ index % 6 = 4 => Script(index, drawn) = taken \o resolve
      /\ index % 6 = 5 => Script(index, drawn) = taken \o resolve \o last \o close
  BY <1>0, Zenon DEF Script, Reclassify, Hand, Move, Note, TakeBack, Close
<1>2. /\ triage \in Seq(V) /\ hand \in Seq(V) /\ start \in Seq(V) /\ note \in Seq(V)
      /\ pend \in Seq(V) /\ resolve \in Seq(V) /\ back \in Seq(V) /\ last \in Seq(V)
      /\ close \in Seq(V) /\ <<>> \in Seq(V)
  <2>1. /\ Reclassify(drawn) \in V /\ Hand(index) \in V /\ Move(index, "IN_PROGRESS") \in V
        /\ Move(index, "PENDING_CUSTOMER") \in V /\ Move(index, "RESOLVED") \in V
        /\ Note(Owner(index)) \in V /\ Note(Supervisor) \in V /\ TakeBack \in V /\ Close \in V
    BY DEF ScriptCalls
  <2> HIDE DEF V
  <2> QED BY <2>1
<1>3. index % 6 \in 0 .. 5
  OBVIOUS
<1>4. /\ index % 6 = 1 => Ending(index) = <<>>
      /\ index % 6 = 2 => Ending(index) = pend
      /\ index % 6 = 3 => Ending(index) = back
      /\ index % 6 = 4 => Ending(index) = resolve
      /\ index % 6 = 5 => Ending(index) = resolve \o (last \o close)
      /\ index % 6 = 0 => Ending(index) = resolve \o (last \o close)
  BY <1>0, Zenon DEF Ending
<1>5. FromHand(index) = hand \o (start \o (note \o Ending(index)))
  BY DEF FromHand, FromWork, FromNote
<1>6. (IF index % 5 = 0 THEN <<Reclassify(drawn)>> \o FromHand(index) ELSE FromHand(index))
        = triage \o FromHand(index)
  <2>1. Ending(index) \in Seq(V)
    <3> DEFINE both == resolve \o (last \o close)
    <3> HIDE DEF V, pend, back, resolve, last, close
    <3>1. resolve \o (last \o close) \in Seq(V)
      BY <1>2, ConcatProperties
    <3> HIDE DEF both
    <3> QED BY <1>0, <1>2, <1>4, <3>1, Zenon
  <2>2. FromHand(index) \in Seq(V)
    <3> HIDE DEF V, hand, start, note
    <3> QED BY <1>2, <1>5, <2>1, ConcatProperties
  <2>3. <<>> \o FromHand(index) = FromHand(index)
    <3> HIDE DEF V
    <3> QED BY <2>2, ConcatEmptySeq
  <2> QED BY <2>3
<1> HIDE DEF V, triage, hand, start, note, pend, back, resolve, last, close
<1>7. taken \in Seq(V)
  BY <1>2, ConcatProperties
<1>8. ASSUME NEW e \in Seq(V) PROVE taken \o e = triage \o (hand \o (start \o (note \o e)))
  <2>1. Joined(triage, hand, start, note, e)
    BY <1>2, <1>8, Regrouped
  <2> QED BY <2>1, Zenon DEF Joined
<1>9. taken \o <<>> = taken
  BY <1>7, ConcatEmptySeq
<1>10. taken \o resolve \o last \o close = taken \o (resolve \o (last \o close))
  <2> HIDE DEF taken
  <2>1. Joined(<<>>, taken, resolve, last, close)
    BY <1>2, <1>7, Regrouped
  <2>2. <<>> \o taken = taken
    BY <1>7, ConcatEmptySeq
  <2> DEFINE whole == taken \o (resolve \o (last \o close))
  <2>3. <<>> \o whole = whole
    <3>1. whole \in Seq(V)
      <4>1. last \o close \in Seq(V)
        BY <1>2
      <4>2. resolve \o (last \o close) \in Seq(V)
        BY <1>2, <4>1, ConcatProperties
      <4> QED BY <1>7, <4>2, ConcatProperties
    <3> HIDE DEF whole
    <3> QED BY <3>1, ConcatEmptySeq
  <2> QED BY <2>1, <2>2, <2>3, Zenon DEF Joined
<1>11. resolve \o (last \o close) \in Seq(V)
  BY <1>2, ConcatProperties
<1> HIDE DEF taken
<1>12. index % 6 # 0 => Script(index, drawn) = taken \o Ending(index) /\ Ending(index) \in Seq(V)
  <2>1. index % 6 = 1 => Script(index, drawn) = taken \o Ending(index) /\ Ending(index) \in Seq(V)
    BY <1>1, <1>2, <1>4, <1>9, Zenon
  <2>2. index % 6 = 2 => Script(index, drawn) = taken \o Ending(index) /\ Ending(index) \in Seq(V)
    BY <1>1, <1>2, <1>4, Zenon
  <2>3. index % 6 = 3 => Script(index, drawn) = taken \o Ending(index) /\ Ending(index) \in Seq(V)
    BY <1>1, <1>2, <1>4, Zenon
  <2>4. index % 6 = 4 => Script(index, drawn) = taken \o Ending(index) /\ Ending(index) \in Seq(V)
    BY <1>1, <1>2, <1>4, Zenon
  <2>5. index % 6 = 5 => Script(index, drawn) = taken \o Ending(index) /\ Ending(index) \in Seq(V)
    BY <1>1, <1>4, <1>10, <1>11, Zenon
  <2> QED BY <1>0, <2>1, <2>2, <2>3, <2>4, <2>5, Zenon
<1> QED BY <1>1, <1>5, <1>6, <1>8, <1>12, Zenon

(* The status a ticket ends in, by its place in the demo.                  *)
Final(index) ==
  LET stage == index % 6
  IN  IF stage = 0 THEN "OPEN" ELSE IF stage = 1 THEN "IN_PROGRESS"
      ELSE IF stage = 2 THEN "PENDING_CUSTOMER" ELSE IF stage = 3 THEN "OPEN"
      ELSE IF stage = 4 THEN "RESOLVED" ELSE "CLOSED"

RowFields ==
  {"status", "assignee", "reported_priority", "priority", "subject", "description",
   "version", "first_assigned_at", "resolved_at", "closed_at"}

(* The points of a script: the ticket as it stands, and what is left.      *)
AtCall(t, script, index) ==
  \/ /\ \E drawn \in Drawn : script = <<Reclassify(drawn)>> \o FromHand(index)
     /\ t.status = "OPEN"
  \/ script = FromHand(index) /\ t.status = "OPEN"
  \/ script = FromWork(index) /\ t.status = "OPEN" /\ t.assignee = Owner(index)
  \/ script = FromNote(index) /\ t.status = "IN_PROGRESS" /\ t.assignee = Owner(index)
  \/ script = Ending(index) /\ t.status = "IN_PROGRESS" /\ t.assignee = Owner(index)
  \/ index % 6 = 5 /\ script = <<Note(Supervisor)>> \o <<Close>> /\ t.status = "RESOLVED"
  \/ index % 6 = 5 /\ script = <<Close>> /\ t.status = "RESOLVED"

AtPoint(t, script, index) ==
  \/ index % 6 # 0 /\ AtCall(t, script, index)
  \/ script = <<>> /\ t.status = Final(index)

(* What one call makes of a ticket.                                        *)
LEMMA ServedDomain ==
  ASSUME NEW t, NEW call
  PROVE  DOMAIN Served(t, call) = RowFields
BY DEF Served, Written, RowFields

LEMMA ReclassifyServed ==
  ASSUME NEW t, NEW drawn, DOMAIN t = RowFields
  PROVE  /\ Served(t, Reclassify(drawn)).status = t.status
         /\ Served(t, Reclassify(drawn)).assignee = t.assignee
<1>1. Served(t, Reclassify(drawn)) =
        Written(t, IF drawn = t.priority THEN Untouched(t)
                   ELSE PriorityMutation(t, Supervisor, drawn))
  BY DEF Served, Reclassify, ServiceCall
<1>2. \A m : "status" \notin m.columns /\ "assignee" \notin m.columns =>
        Written(t, m).status = t.status /\ Written(t, m).assignee = t.assignee
  BY DEF Written
<1>3. Untouched(t).columns = {}
  BY DEF Untouched, Mutation
<1>4. PriorityMutation(t, Supervisor, drawn).columns = {"priority", "version"}
  BY DEF PriorityMutation, Save, Mutation
<1> QED BY <1>1, <1>2, <1>3, <1>4

LEMMA NoteServed ==
  ASSUME NEW t, NEW actor, DOMAIN t = RowFields
  PROVE  /\ Served(t, Note(actor)).status = t.status
         /\ Served(t, Note(actor)).assignee = t.assignee
BY DEF Served, Note, ServiceCall, Written, CommentMutation, Mutation

LEMMA HandServed ==
  ASSUME NEW t, NEW index, DOMAIN t = RowFields, Owner(index) # None
  PROVE  /\ Served(t, Hand(index)).status = t.status
         /\ Served(t, Hand(index)).assignee = Owner(index)
<1> DEFINE m == AssignMutation(t, Supervisor, Owner(index))
<1>1. Served(t, Hand(index)) =
        Written(t, IF Owner(index) = t.assignee THEN Untouched(t) ELSE m)
  BY DEF Served, Hand, ServiceCall
<1>2. /\ Written(t, Untouched(t)).status = t.status
      /\ Written(t, Untouched(t)).assignee = t.assignee
  BY DEF Written, Untouched, Mutation
<1>3. /\ "assignee" \in m.columns /\ "status" \notin m.columns
      /\ m.ticket.assignee = Owner(index)
  BY DEF AssignMutation, ApplyAssignment, Save, Mutation, RowFields
<1>4. Written(t, m).status = t.status /\ Written(t, m).assignee = Owner(index)
  BY <1>3 DEF Written
<1> QED BY <1>1, <1>2, <1>4

LEMMA MoveServed ==
  ASSUME NEW t, NEW actor, NEW status, DOMAIN t = RowFields,
         status \in STATUSES_REQUIRING_ASSIGNEE => t.assignee # None
  PROVE  LET call == ServiceCall("change_status", actor, status)
         IN  Served(t, call).status = status /\ Served(t, call).assignee = t.assignee
<1> DEFINE m == StatusMutation(t, actor, status)
<1>1. Served(t, ServiceCall("change_status", actor, status)) = Written(t, m)
  BY DEF Served, ServiceCall
<1>2. PickUp(t, actor, status) = Untouched(t)
  BY DEF PickUp
<1>3. "status" \in m.columns /\ "assignee" \notin m.columns /\ m.ticket.status = status
  <2> DEFINE s == ApplyStatus(Untouched(t), actor, status)
             stamped == {c \in {"resolved_at"} : status = "RESOLVED" \/ (status # "CLOSED" /\ t.resolved_at)}
                        \cup {c \in {"closed_at"} : status = "CLOSED"}
  <2>1. s.columns = {"status"} \cup stamped
    BY DEF ApplyStatus, Untouched, Mutation
  <2>2. s.ticket = [t EXCEPT !.status = status,
                             !.resolved_at = IF status = "CLOSED" THEN @ ELSE status = "RESOLVED",
                             !.closed_at = IF status = "CLOSED" THEN TRUE ELSE @]
    BY DEF ApplyStatus, Untouched, Mutation
  <2>3. DOMAIN s.ticket = RowFields /\ s.ticket.status = status
    BY <2>2 DEF RowFields
  <2>4. m = Save(s)
    BY <1>2 DEF StatusMutation
  <2> HIDE DEF s
  <2>5. m.columns = s.columns \cup {"version"} /\ m.ticket.status = status
    BY <2>3, <2>4 DEF Save, Mutation, RowFields
  <2> QED BY <2>1, <2>5
<1>4. Written(t, m).status = status /\ Written(t, m).assignee = t.assignee
  BY <1>3 DEF Written
<1> QED BY <1>1, <1>4

LEMMA TakeBackServed ==
  ASSUME NEW t, DOMAIN t = RowFields, t.assignee # None, t.status = "IN_PROGRESS"
  PROVE  Served(t, TakeBack).status = "OPEN"
<1> DEFINE m == ReleaseMutation(t, Supervisor)
<1>1. Served(t, TakeBack) = Written(t, m)
  BY DEF Served, TakeBack, ServiceCall
<1>2. "status" \in m.columns /\ m.ticket.status = "OPEN"
  BY DEF ReleaseMutation, Save, Mutation, RowFields, STATUSES_RETURNED_TO_QUEUE_ON_RELEASE
<1>3. Written(t, m).status = "OPEN"
  BY <1>2 DEF Written
<1> QED BY <1>1, <1>3

LEMMA FirstCall ==
  ASSUME NEW V, NEW x \in V, NEW s \in Seq(V)
  PROVE  Head(<<x>> \o s) = x /\ Tail(<<x>> \o s) = s /\ <<x>> \o s # <<>>
OBVIOUS

(* What is left of a script is made of its calls.                          *)
LEMMA CallsLeft ==
  ASSUME NEW index \in Nat, NEW drawn
  PROVE  LET V == ScriptCalls(index, drawn)
         IN  /\ Ending(index) \in Seq(V) /\ FromNote(index) \in Seq(V)
             /\ FromWork(index) \in Seq(V) /\ FromHand(index) \in Seq(V)
             /\ <<Close>> \in Seq(V) /\ <<Note(Supervisor)>> \o <<Close>> \in Seq(V)
             /\ Reclassify(drawn) \in V /\ Hand(index) \in V /\ Move(index, "IN_PROGRESS") \in V
             /\ Move(index, "PENDING_CUSTOMER") \in V /\ Move(index, "RESOLVED") \in V
             /\ Note(Owner(index)) \in V /\ Note(Supervisor) \in V /\ TakeBack \in V /\ Close \in V
<1> DEFINE V == ScriptCalls(index, drawn)
<1>1. /\ Reclassify(drawn) \in V /\ Hand(index) \in V /\ Move(index, "IN_PROGRESS") \in V
      /\ Move(index, "PENDING_CUSTOMER") \in V /\ Move(index, "RESOLVED") \in V
      /\ Note(Owner(index)) \in V /\ Note(Supervisor) \in V /\ TakeBack \in V /\ Close \in V
  BY DEF ScriptCalls
<1> HIDE DEF V
<1>2. /\ <<Close>> \in Seq(V) /\ <<Note(Supervisor)>> \in Seq(V) /\ <<TakeBack>> \in Seq(V)
      /\ <<Move(index, "PENDING_CUSTOMER")>> \in Seq(V) /\ <<Move(index, "RESOLVED")>> \in Seq(V)
      /\ <<Note(Owner(index))>> \in Seq(V) /\ <<Move(index, "IN_PROGRESS")>> \in Seq(V)
      /\ <<Hand(index)>> \in Seq(V) /\ <<>> \in Seq(V)
  BY <1>1
<1>3. <<Note(Supervisor)>> \o <<Close>> \in Seq(V)
  BY <1>2, ConcatProperties
<1>4. <<Move(index, "RESOLVED")>> \o (<<Note(Supervisor)>> \o <<Close>>) \in Seq(V)
  BY <1>2, <1>3, ConcatProperties
<1>5. Ending(index) \in Seq(V)
  BY <1>2, <1>4, Zenon DEF Ending
<1>6. FromNote(index) \in Seq(V)
  BY <1>2, <1>5, ConcatProperties DEF FromNote
<1>7. FromWork(index) \in Seq(V)
  BY <1>2, <1>6, ConcatProperties DEF FromWork
<1>8. FromHand(index) \in Seq(V)
  BY <1>2, <1>7, ConcatProperties DEF FromHand
<1> QED BY <1>1, <1>2, <1>3, <1>5, <1>6, <1>7, <1>8 DEF V

LEMMA OwnerIsSomebody ==
  ASSUME NEW index \in Nat
  PROVE  Owner(index) \in Users /\ Owner(index) # None
<1>1. Len(Agents) \in Nat \ {0}
  BY DemoAssumption
<1> DEFINE n == Len(Agents)
<1> HIDE DEF n
<1>2. index % n \in 0 .. n - 1
  BY <1>1 DEF n
<1>3. (index % n) + 1 \in 1 .. n
  BY <1>1, <1>2 DEF n
<1>4. Owner(index) \in Users
  BY <1>3, DemoAssumption DEF Owner, n
<1> QED BY <1>4, NamesAssumption

(* The moves of the scripts are moves of the state machine.                *)
LEMMA MovesAllowed ==
  /\ \A status \in {"OPEN", "IN_PROGRESS", "RESOLVED"} : ~IsTerminal(status)
  /\ IsTransitionAllowed("OPEN", "IN_PROGRESS")
  /\ IsTransitionAllowed("IN_PROGRESS", "PENDING_CUSTOMER")
  /\ IsTransitionAllowed("IN_PROGRESS", "RESOLVED")
  /\ IsTransitionAllowed("RESOLVED", "CLOSED")
BY DEF IsTerminal, IsTransitionAllowed, ALLOWED_TRANSITIONS

LEMMA CallRaises ==
  ASSUME NEW t, t.status \in {"OPEN", "IN_PROGRESS", "RESOLVED"}, NEW actor, NEW value
  PROVE  /\ ~Raises(t, ServiceCall("change_priority", actor, value))
         /\ ~Raises(t, ServiceCall("assign", actor, value))
         /\ IsTransitionAllowed(t.status, value) =>
              ~Raises(t, ServiceCall("change_status", actor, value))
<1>1. ~IsTerminal(t.status)
  BY MovesAllowed
<1> QED BY <1>1 DEF Raises, ServiceCall

LEMMA NoteRaises ==
  ASSUME NEW t, t.status \in {"OPEN", "IN_PROGRESS", "RESOLVED"}, NEW actor
  PROVE  ~Raises(t, Note(actor))
<1>1. ~IsTerminal(t.status)
  BY MovesAllowed
<1> QED BY <1>1 DEF Raises, Note, ServiceCall

(* At every point of a script the next call is allowed, and leads to the   *)
(* next point.                                                             *)
LEMMA CallOfScript ==
  ASSUME NEW index \in Nat, index % 6 # 0, NEW t, DOMAIN t = RowFields,
         NEW script, script # <<>>, AtCall(t, script, index)
  PROVE  /\ ~Raises(t, Head(script))
         /\ AtPoint(Served(t, Head(script)), Tail(script), index)
<1>1. index % 6 = 1 \/ index % 6 = 2 \/ index % 6 = 3 \/ index % 6 = 4 \/ index % 6 = 5
  OBVIOUS
<1>2. Owner(index) # None
  BY OwnerIsSomebody
<1>3. CASE /\ \E drawn \in Drawn : script = <<Reclassify(drawn)>> \o FromHand(index)
           /\ t.status = "OPEN"
  <2>1. PICK drawn \in Drawn : script = <<Reclassify(drawn)>> \o FromHand(index)
    BY <1>3
  <2>2. Head(script) = Reclassify(drawn) /\ Tail(script) = FromHand(index)
    <3>1. /\ FromHand(index) \in Seq(ScriptCalls(index, drawn))
          /\ Reclassify(drawn) \in ScriptCalls(index, drawn)
      BY CallsLeft
    <3> QED BY <2>1, <3>1, FirstCall
  <2>3. ~Raises(t, Reclassify(drawn))
    BY <1>3, CallRaises DEF Reclassify
  <2>4. Served(t, Reclassify(drawn)).status = "OPEN"
    BY <1>3, ReclassifyServed
  <2> QED BY <2>2, <2>3, <2>4 DEF AtPoint, AtCall
<1>4. CASE script = FromHand(index) /\ t.status = "OPEN"
  <2>1. Head(script) = Hand(index) /\ Tail(script) = FromWork(index)
    BY <1>4, CallsLeft, FirstCall DEF FromHand
  <2>2. ~Raises(t, Hand(index))
    BY <1>4, CallRaises DEF Hand
  <2>3. Served(t, Hand(index)).status = "OPEN" /\ Served(t, Hand(index)).assignee = Owner(index)
    BY <1>2, <1>4, HandServed
  <2> QED BY <2>1, <2>2, <2>3 DEF AtPoint, AtCall
<1>5. CASE script = FromWork(index) /\ t.status = "OPEN" /\ t.assignee = Owner(index)
  <2>1. Head(script) = Move(index, "IN_PROGRESS") /\ Tail(script) = FromNote(index)
    BY <1>5, CallsLeft, FirstCall DEF FromWork
  <2>2. ~Raises(t, Move(index, "IN_PROGRESS"))
    BY <1>5, CallRaises, MovesAllowed DEF Move
  <2>3. /\ Served(t, Move(index, "IN_PROGRESS")).status = "IN_PROGRESS"
        /\ Served(t, Move(index, "IN_PROGRESS")).assignee = Owner(index)
    BY <1>2, <1>5, MoveServed DEF Move
  <2> QED BY <2>1, <2>2, <2>3 DEF AtPoint, AtCall
<1>6. CASE script = FromNote(index) /\ t.status = "IN_PROGRESS" /\ t.assignee = Owner(index)
  <2>1. Head(script) = Note(Owner(index)) /\ Tail(script) = Ending(index)
    BY <1>6, CallsLeft, FirstCall DEF FromNote
  <2>2. ~Raises(t, Note(Owner(index)))
    BY <1>6, NoteRaises
  <2>3. /\ Served(t, Note(Owner(index))).status = "IN_PROGRESS"
        /\ Served(t, Note(Owner(index))).assignee = Owner(index)
    BY <1>6, NoteServed
  <2> QED BY <2>1, <2>2, <2>3 DEF AtPoint, AtCall
<1>7. CASE script = Ending(index) /\ t.status = "IN_PROGRESS" /\ t.assignee = Owner(index)
  <2>1. index % 6 # 1
    BY <1>7, Zenon DEF Ending
  <2>2. ASSUME NEW x, script = <<x>> PROVE Head(script) = x /\ Tail(script) = <<>>
    BY <2>2
  <2>3. CASE index % 6 = 2
    <3>1. Ending(index) = <<Move(index, "PENDING_CUSTOMER")>>
      BY <2>1, <2>3 DEF Ending
    <3>2. Head(script) = Move(index, "PENDING_CUSTOMER") /\ Tail(script) = <<>>
      BY <1>7, <2>2, <3>1
    <3>3. ~Raises(t, Move(index, "PENDING_CUSTOMER"))
      BY <1>7, CallRaises, MovesAllowed DEF Move
    <3>4. Served(t, Move(index, "PENDING_CUSTOMER")).status = "PENDING_CUSTOMER"
      BY <1>2, <1>7, MoveServed DEF Move
    <3> QED BY <2>3, <3>2, <3>3, <3>4 DEF AtPoint, Final
  <2>4. CASE index % 6 = 3
    <3>1. Ending(index) = <<TakeBack>>
      BY <2>4 DEF Ending
    <3>2. Head(script) = TakeBack /\ Tail(script) = <<>>
      BY <1>7, <2>2, <3>1
    <3>3. ~Raises(t, TakeBack)
      BY <1>7, CallRaises DEF TakeBack
    <3>4. Served(t, TakeBack).status = "OPEN"
      BY <1>2, <1>7, TakeBackServed
    <3> QED BY <2>4, <3>2, <3>3, <3>4 DEF AtPoint, Final
  <2>5. /\ ~Raises(t, Move(index, "RESOLVED"))
        /\ Served(t, Move(index, "RESOLVED")).status = "RESOLVED"
    BY <1>2, <1>7, CallRaises, MovesAllowed, MoveServed DEF Move
  <2>6. CASE index % 6 = 4
    <3>1. Ending(index) = <<Move(index, "RESOLVED")>>
      BY <2>6 DEF Ending
    <3>2. Head(script) = Move(index, "RESOLVED") /\ Tail(script) = <<>>
      BY <1>7, <2>2, <3>1
    <3> QED BY <2>5, <2>6, <3>2 DEF AtPoint, Final
  <2>7. CASE index % 6 = 5
    <3>1. Ending(index) = <<Move(index, "RESOLVED")>> \o (<<Note(Supervisor)>> \o <<Close>>)
      BY <2>7 DEF Ending
    <3>2. /\ Head(script) = Move(index, "RESOLVED")
          /\ Tail(script) = <<Note(Supervisor)>> \o <<Close>>
      BY <1>7, <3>1, CallsLeft, FirstCall
    <3> QED BY <2>5, <2>7, <3>2 DEF AtPoint, AtCall
  <2> QED BY <1>1, <2>1, <2>3, <2>4, <2>6, <2>7
<1>8. CASE /\ index % 6 = 5 /\ script = <<Note(Supervisor)>> \o <<Close>>
           /\ t.status = "RESOLVED"
  <2>1. Head(script) = Note(Supervisor) /\ Tail(script) = <<Close>>
    BY <1>8, CallsLeft, FirstCall
  <2>2. ~Raises(t, Note(Supervisor)) /\ Served(t, Note(Supervisor)).status = "RESOLVED"
    BY <1>8, NoteRaises, NoteServed
  <2> QED BY <1>8, <2>1, <2>2 DEF AtPoint, AtCall
<1>9. CASE index % 6 = 5 /\ script = <<Close>> /\ t.status = "RESOLVED"
  <2>1. Head(script) = Close /\ Tail(script) = <<>>
    BY <1>9
  <2>2. ~Raises(t, Close) /\ Served(t, Close).status = "CLOSED"
    <3>1. "CLOSED" \notin STATUSES_REQUIRING_ASSIGNEE
      BY DEF STATUSES_REQUIRING_ASSIGNEE
    <3> QED BY <1>9, <3>1, CallRaises, MovesAllowed, MoveServed DEF Close
  <2> QED BY <1>9, <2>1, <2>2 DEF AtPoint, Final
<1> QED BY <1>3, <1>4, <1>5, <1>6, <1>7, <1>8, <1>9 DEF AtCall

LEMMA PointOfScript ==
  ASSUME NEW index \in Nat, NEW t, DOMAIN t = RowFields, NEW script, AtPoint(t, script, index)
  PROVE  /\ script # <<>> =>
              /\ ~Raises(t, Head(script))
              /\ AtPoint(Served(t, Head(script)), Tail(script), index)
         /\ script = <<>> => t.status = Final(index)
<1>1. script # <<>> => index % 6 # 0 /\ AtCall(t, script, index)
  BY DEF AtPoint
<1>2. ASSUME script = <<>>, index % 6 # 0, AtCall(t, script, index) PROVE t.status = Final(index)
  <2>1. FromHand(index) # <<>> /\ FromWork(index) # <<>> /\ FromNote(index) # <<>>
    BY CallsLeft, FirstCall DEF FromHand, FromWork, FromNote
  <2>2. \A drawn : <<Reclassify(drawn)>> \o FromHand(index) # <<>>
    BY CallsLeft, FirstCall
  <2>3. <<Note(Supervisor)>> \o <<Close>> # <<>> /\ <<Close>> # <<>>
    BY CallsLeft, FirstCall
  <2>4. Ending(index) = <<>> /\ t.status = "IN_PROGRESS"
    BY <1>2, <2>1, <2>2, <2>3, Zenon DEF AtCall
  <2>5. index % 6 = 1
    <3>1. <<Move(index, "RESOLVED")>> \o (<<Note(Supervisor)>> \o <<Close>>) # <<>>
      BY CallsLeft, FirstCall
    <3>2. \A x : <<x>> # <<>>
      OBVIOUS
    <3> QED BY <2>4, <3>1, <3>2, Zenon DEF Ending
  <2> QED BY <2>4, <2>5 DEF Final
<1> QED BY <1>1, <1>2, CallOfScript DEF AtPoint

-----------------------------------------------------------------------------
(* The tickets of a seed so far, each in the status its script ends in.    *)
Shows(tickets) ==
  tickets \in Seq(Status) /\ \A i \in 1 .. Len(tickets) : tickets[i] = Final(i - 1)

AtWork(c) ==
  /\ Shows(work[c].tickets) /\ Len(work[c].tickets) <= Tickets
  /\ phase[c] = "playing" =>
       /\ Len(work[c].tickets) < Tickets
       /\ DOMAIN work[c].ticket = RowFields
       /\ AtPoint(work[c].ticket, work[c].script, Len(work[c].tickets))

PlayInv ==
  /\ \A b \in batches : Shows(b.tickets) /\ Len(b.tickets) = Tickets
  /\ \A c \in Containers : Seeding(c) => AtWork(c)
  /\ NothingRefused

LEMMA PlayInit == Init => PlayInv
BY DEF Init, PlayInv, Seeding, NothingRefused

LEMMA OtherPlays ==
  ASSUME PlayInv, NEW c \in Containers,
         \A b \in batches' : Shows(b.tickets) /\ Len(b.tickets) = Tickets,
         \A d \in Containers \ {c} : phase'[d] = phase[d] /\ work'[d] = work[d],
         phase'[c] # "refused",
         Seeding(c)' => AtWork(c)'
  PROVE  PlayInv'
<1>1. \A d \in Containers \ {c} : Seeding(d)' => AtWork(d)'
  BY DEF PlayInv, AtWork, Seeding
<1> QED BY <1>1 DEF PlayInv, NothingRefused

(* A step outside the calls of a ticket.                                   *)
LEMMA NotPlayed ==
  ASSUME SeedInv, PlayInv, NEW c \in Containers,
         Preparing(c) \/ Kill(c) \/ BeginSeed(c) \/ EnsureStaff(c) \/ SkipSeed(c) \/ CheckTickets(c)
  PROVE  PlayInv'
<1>1. DOMAIN phase = Containers /\ DOMAIN work = Containers
  BY DEF SeedInv
<1>2. CASE Preparing(c) \/ Kill(c)
  <2>1. batches' = batches
    BY <1>2 DEF Preparing, Start, WaitForDb, SkipMigrate, RefuseToBoot, PlanMigrations,
       Migrate, Serve, SeedNothing, Kill
  <2>2. /\ \A d \in Containers \ {c} : phase'[d] = phase[d] /\ work'[d] = work[d]
        /\ ~Seeding(c)' /\ phase'[c] # "refused"
    <3>1. CASE Start(c) \/ WaitForDb(c) \/ SkipMigrate(c) \/ RefuseToBoot(c) \/ PlanMigrations(c)
      BY <1>1, <3>1 DEF Start, WaitForDb, SkipMigrate, RefuseToBoot, PlanMigrations, Go, Seeding
    <3>2. CASE Migrate(c) \/ Serve(c) \/ SeedNothing(c)
      BY <1>1, <3>2 DEF Migrate, Serve, SeedNothing, Go, Seeding
    <3>3. CASE Kill(c)
      BY <1>1, <3>3 DEF Kill, Go, Seeding
    <3> QED BY <1>2, <3>1, <3>2, <3>3 DEF Preparing
  <2> QED BY <2>1, <2>2, OtherPlays DEF PlayInv
<1>3. CASE BeginSeed(c)
  <2>1. PICK rebuilds, wiped, gone : work' = [work EXCEPT ![c] = OpenSeed(rebuilds, wiped, gone)]
    BY <1>3 DEF BeginSeed
  <2>2. work'[c].tickets = <<>> /\ phase'[c] = "seeding" /\ batches' = batches
    BY <1>1, <1>3, <2>1 DEF BeginSeed, OpenSeed, Go
  <2>3. \A d \in Containers \ {c} : phase'[d] = phase[d] /\ work'[d] = work[d]
    BY <1>1, <1>3, <2>1 DEF BeginSeed, Go
  <2>4. AtWork(c)'
    BY <2>2, BootAssumption DEF AtWork, Shows
  <2> QED BY <2>2, <2>3, <2>4, OtherPlays DEF PlayInv
<1>4. CASE EnsureStaff(c) \/ CheckTickets(c)
  <2>1. Seeding(c) /\ phase[c] = "seeding" /\ DOMAIN work[c] = SeedFields
    BY <1>4 DEF EnsureStaff, CheckTickets, StaffEnsured, Seeding, SeedInv, OpenSeedOK
  <2>2. /\ phase' = phase /\ batches' = batches
        /\ \A d \in Containers \ {c} : work'[d] = work[d]
        /\ work'[c].tickets = work[c].tickets
    <3>1. CASE EnsureStaff(c)
      <4>1. PICK user : work' = [work EXCEPT ![c].ensured = @ \cup {user},
                                             ![c].staff = @ \cup ({user} \ accounts)]
        BY <3>1 DEF EnsureStaff
      <4> QED BY <1>1, <2>1, <3>1, <4>1 DEF EnsureStaff, SeedFields
    <3>2. CASE CheckTickets(c)
      BY <1>1, <2>1, <3>2 DEF CheckTickets, SeedFields
    <3> QED BY <1>4, <3>1, <3>2
  <2>3. AtWork(c)'
    BY <2>1, <2>2 DEF PlayInv, AtWork
  <2> QED BY <2>1, <2>2, <2>3, OtherPlays DEF PlayInv
<1>5. CASE SkipSeed(c)
  <2>1. /\ batches' = batches /\ ~Seeding(c)' /\ phase'[c] # "refused"
        /\ \A d \in Containers \ {c} : phase'[d] = phase[d] /\ work'[d] = work[d]
    BY <1>1, <1>5 DEF SkipSeed, EndSeed, Go, Seeding
  <2> QED BY <2>1, OtherPlays DEF PlayInv
<1> QED BY <1>2, <1>3, <1>4, <1>5

LEMMA CreateStep ==
  ASSUME SeedInv, PlayInv, NEW c \in Containers, Create(c)
  PROVE  PlayInv'
<1> DEFINE index == Len(work[c].tickets)
           row == Reported(index)
<1>1. DOMAIN phase = Containers /\ DOMAIN work = Containers
  BY DEF SeedInv
<1>2. Seeding(c) /\ phase[c] = "seeding" /\ DOMAIN work[c] = SeedFields /\ AtWork(c)
  BY DEF Create, AtTickets, Seeding, SeedInv, OpenSeedOK, PlayInv
<1>3. index \in Nat /\ index < Tickets
  BY <1>2 DEF Create, AtWork, Shows
<1>4. PICK drawn \in Drawn :
        work' = [work EXCEPT
          ![c].customers = @ \cup ({CustomerOf(index)} \ (customers \ work[c].gone)),
          ![c].ticket = row, ![c].script = Script(index, drawn)]
  BY DEF Create
<1>5. work'[c] = [work[c] EXCEPT
          !.customers = @ \cup ({CustomerOf(index)} \ (customers \ work[c].gone)),
          !.ticket = row, !.script = Script(index, drawn)]
  BY <1>1, <1>4
<1>6. /\ batches' = batches /\ phase'[c] = "playing"
      /\ \A d \in Containers \ {c} : phase'[d] = phase[d] /\ work'[d] = work[d]
  BY <1>1, <1>4 DEF Create, Go
<1>7. row.status = "OPEN" /\ DOMAIN row = RowFields
  BY DEF Reported, NewRow, RowFields
<1>8. /\ work'[c].ticket = row /\ work'[c].script = Script(index, drawn)
      /\ work'[c].tickets = work[c].tickets
  <2> HIDE DEF row
  <2> QED BY <1>2, <1>5 DEF SeedFields
<1>9. AtPoint(row, Script(index, drawn), index)
  <2> HIDE DEF row, index
  <2>1. CASE index % 6 = 0
    <3>1. Script(index, drawn) = <<>>
      BY <1>3, <2>1, ScriptShape
    <3> QED BY <1>7, <2>1, <3>1 DEF AtPoint, Final
  <2>2. CASE index % 6 # 0
    <3>1. \/ Script(index, drawn) = <<Reclassify(drawn)>> \o FromHand(index)
          \/ Script(index, drawn) = FromHand(index)
      BY <1>3, <2>2, ScriptShape
    <3> QED BY <1>4, <1>7, <2>2, <3>1, Zenon DEF AtPoint, AtCall
  <2> QED BY <2>1, <2>2
<1>10. AtWork(c)'
  <2> HIDE DEF row
  <2> QED BY <1>2, <1>3, <1>6, <1>7, <1>8, <1>9 DEF AtWork
<1> QED BY <1>6, <1>10, OtherPlays DEF PlayInv

LEMMA PlayStep ==
  ASSUME SeedInv, PlayInv, NEW c \in Containers, Play(c)
  PROVE  PlayInv'
<1> DEFINE index == Len(work[c].tickets)
           ticket == work[c].ticket
           script == work[c].script
<1>1. DOMAIN phase = Containers /\ DOMAIN work = Containers
  BY DEF SeedInv
<1>2. /\ Seeding(c) /\ phase[c] = "playing" /\ DOMAIN work[c] = SeedFields /\ AtWork(c)
      /\ script # <<>>
  BY DEF Play, Seeding, SeedInv, OpenSeedOK, PlayInv
<1>3. index \in Nat /\ DOMAIN ticket = RowFields /\ AtPoint(ticket, script, index)
  BY <1>2 DEF AtWork, Shows
<1>4. ~Raises(ticket, Head(script)) /\ AtPoint(Served(ticket, Head(script)), Tail(script), index)
  BY <1>2, <1>3, PointOfScript
<1> DEFINE next == [work[c] EXCEPT !.ticket = Served(ticket, Head(script)), !.script = Tail(@)]
<1>5. work' = [work EXCEPT ![c] = next]
  <2>1. work' = [work EXCEPT ![c] = IF Raises(ticket, Head(script)) THEN None ELSE next]
    BY DEF Play
  <2> HIDE DEF next
  <2> QED BY <1>4, <2>1
<1>6. /\ batches' = batches /\ phase'[c] = "playing"
      /\ \A d \in Containers \ {c} : phase'[d] = phase[d] /\ work'[d] = work[d]
  BY <1>1, <1>4, <1>5 DEF Play, Go
<1>7. work'[c] = next
  <2> HIDE DEF next
  <2> QED BY <1>1, <1>5
<1>8. /\ work'[c].ticket = Served(ticket, Head(script)) /\ work'[c].script = Tail(script)
      /\ work'[c].tickets = work[c].tickets
  BY <1>2, <1>7 DEF SeedFields
<1>9. AtWork(c)'
  <2>1. DOMAIN Served(ticket, Head(script)) = RowFields
    BY ServedDomain
  <2> QED BY <1>2, <1>4, <1>6, <1>8, <2>1 DEF AtWork
<1> QED BY <1>6, <1>9, OtherPlays DEF PlayInv

LEMMA PlayedStep ==
  ASSUME SeedInv, PlayInv, NEW c \in Containers, Played(c)
  PROVE  PlayInv'
<1> DEFINE tickets == work[c].tickets
           status == work[c].ticket.status
<1>1. DOMAIN phase = Containers /\ DOMAIN work = Containers
  BY DEF SeedInv
<1>2. /\ Seeding(c) /\ phase[c] = "playing" /\ DOMAIN work[c] = SeedFields /\ AtWork(c)
      /\ work[c].script = <<>>
  BY DEF Played, Seeding, SeedInv, OpenSeedOK, PlayInv
<1>3. Shows(tickets) /\ Len(tickets) \in Nat /\ Len(tickets) < Tickets
  BY <1>2 DEF AtWork, Shows
<1>4. status = Final(Len(tickets))
  BY <1>2, <1>3, PointOfScript DEF AtWork
<1>5. work'[c] = [work[c] EXCEPT !.tickets = Append(@, status), !.ticket = None]
  BY <1>1 DEF Played
<1>6. /\ batches' = batches /\ phase'[c] = "seeding"
      /\ \A d \in Containers \ {c} : phase'[d] = phase[d] /\ work'[d] = work[d]
  BY <1>1 DEF Played, Go
<1>7. work'[c].tickets = Append(tickets, status)
  BY <1>2, <1>5 DEF SeedFields
<1>8. Shows(Append(tickets, status)) /\ Len(Append(tickets, status)) = Len(tickets) + 1
  <2>1. status \in Status
    BY <1>4 DEF Final, Status
  <2> HIDE DEF tickets, status
  <2>2. Append(tickets, status) \in Seq(Status)
    BY <1>3, <2>1 DEF Shows
  <2>3. Len(Append(tickets, status)) = Len(tickets) + 1
    BY <1>3, <2>1 DEF Shows
  <2>4. ASSUME NEW i \in 1 .. Len(tickets) + 1
        PROVE  Append(tickets, status)[i] = Final(i - 1)
    <3>1. CASE i <= Len(tickets)
      <4>1. Append(tickets, status)[i] = tickets[i] /\ i \in 1 .. Len(tickets)
        BY <1>3, <2>1, <3>1 DEF Shows
      <4> QED BY <1>3, <4>1 DEF Shows
    <3>2. CASE i = Len(tickets) + 1
      <4>1. Append(tickets, status)[i] = status /\ i - 1 = Len(tickets)
        BY <1>3, <2>1, <3>2 DEF Shows
      <4> QED BY <1>4, <4>1
    <3> QED BY <1>3, <3>1, <3>2
  <2> QED BY <2>2, <2>3, <2>4 DEF Shows
<1>9. AtWork(c)'
  BY <1>3, <1>6, <1>7, <1>8, BootAssumption DEF AtWork
<1> QED BY <1>6, <1>9, OtherPlays DEF PlayInv

LEMMA CommitPlayed ==
  ASSUME SeedInv, PlayInv, NEW c \in Containers, CommitSeed(c)
  PROVE  PlayInv'
<1> DEFINE new == [seed |-> c, tickets |-> work[c].tickets]
<1>1. /\ batches' = (batches \ work[c].wiped) \cup {new}
      /\ ~Seeding(c)' /\ phase'[c] # "refused"
      /\ \A d \in Containers \ {c} : phase'[d] = phase[d] /\ work'[d] = work[d]
  BY DEF CommitSeed, EndSeed, Go, SeedInv, Seeding
<1>2. new.tickets = work[c].tickets
  OBVIOUS
<1>3. Shows(work[c].tickets) /\ Len(work[c].tickets) = Tickets
  BY DEF CommitSeed, AtTickets, Seeding, PlayInv, AtWork
<1> HIDE DEF new
<1>4. \A b \in batches' : Shows(b.tickets) /\ Len(b.tickets) = Tickets
  BY <1>1, <1>2, <1>3 DEF PlayInv
<1> QED BY <1>1, <1>4, OtherPlays

LEMMA PlayInvStep == SeedInv /\ PlayInv /\ [Next]_bootVars => PlayInv'
<1> SUFFICES ASSUME SeedInv, PlayInv, [Next]_bootVars PROVE PlayInv'
  OBVIOUS
<1>1. ASSUME UNCHANGED <<batches, phase, work>> PROVE PlayInv'
  BY <1>1 DEF PlayInv, Seeding, AtWork, NothingRefused
<1>2. DatabaseReady \/ UNCHANGED bootVars => PlayInv'
  BY <1>1 DEF DatabaseReady, bootVars
<1>3. ASSUME NEW c \in Containers, Start(c) \/ Advance(c) \/ Kill(c) PROVE PlayInv'
  BY <1>3, NotPlayed, CreateStep, PlayStep, PlayedStep, CommitPlayed DEF Advance, Preparing
<1> QED BY <1>2, <1>3 DEF Next

(* No service refuses a call of the demo, whatever priorities are drawn.   *)
THEOREM TheDemoIsAllowed == Spec => []NothingRefused
<1>1. PlayInv => NothingRefused
  BY DEF PlayInv
<1> QED BY <1>1, SeedInit, SeedStep, PlayInit, PlayInvStep, PTL DEF Spec

(* What is committed of a seed is all of it; six tickets show every status.*)
THEOREM TheDemoIsWhole == Spec => []DemoIsWhole
<1>1. PlayInv => DemoIsWhole
  <2> SUFFICES ASSUME PlayInv, NEW b \in batches
               PROVE  /\ Len(b.tickets) = Tickets
                      /\ Tickets >= 6 => {b.tickets[i] : i \in 1 .. Tickets} = Status
    BY DEF DemoIsWhole
  <2>1. Len(b.tickets) = Tickets /\ \A i \in 1 .. Tickets : b.tickets[i] = Final(i - 1)
    BY DEF PlayInv, Shows
  <2>2. \A i \in 1 .. Tickets : b.tickets[i] \in Status
    BY <2>1 DEF PlayInv, Shows
  <2>3. ASSUME Tickets >= 6 PROVE Status \subseteq {b.tickets[i] : i \in 1 .. Tickets}
    <3>1. /\ 1 \in 1 .. Tickets /\ 2 \in 1 .. Tickets /\ 3 \in 1 .. Tickets
          /\ 5 \in 1 .. Tickets /\ 6 \in 1 .. Tickets
      BY <2>3, BootAssumption
    <3>2. /\ Final(0) = "OPEN" /\ Final(1) = "IN_PROGRESS" /\ Final(2) = "PENDING_CUSTOMER"
          /\ Final(4) = "RESOLVED" /\ Final(5) = "CLOSED"
      BY DEF Final
    <3>3. /\ b.tickets[1] = "OPEN" /\ b.tickets[2] = "IN_PROGRESS"
          /\ b.tickets[3] = "PENDING_CUSTOMER" /\ b.tickets[5] = "RESOLVED"
          /\ b.tickets[6] = "CLOSED"
      BY <2>1, <3>1, <3>2
    <3> QED BY <3>1, <3>3 DEF Status
  <2> QED BY <2>1, <2>2, <2>3
<1> QED BY <1>1, SeedInit, SeedStep, PlayInit, PlayInvStep, PTL DEF Spec
=============================================================================
