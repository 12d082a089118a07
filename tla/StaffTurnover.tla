---------------------------- MODULE StaffTurnover ----------------------------
(***************************************************************************)
(* The agent API while an administrator deletes accounts.  The tickets are *)
(* read-only in the admin site, but the users are not, and deleting one    *)
(* goes round the services: the foreign keys of tickets and events are     *)
(* ON DELETE SET_NULL, that of comments is PROTECT.  No version moves and  *)
(* no event is written.                                                    *)
(*                                                                         *)
(* The deletion is one transaction, modelled as one step.  A request that  *)
(* refers to a deleted account fails when it commits, where PostgreSQL     *)
(* checks the foreign keys Django declares (DEFERRABLE INITIALLY DEFERRED).*)
(***************************************************************************)
EXTENDS TicketApi

VARIABLE accounts   \* the users whose account has not been deleted

turnoverVars == <<row, history, lock, active, pc, request, txn, reply, admitted, accounts>>

TurnoverInit == Init /\ accounts = Users

-----------------------------------------------------------------------------
Assigned(u) == {t \in Tickets : row[t].assignee = u}

EventsBy(u, t) == {i \in DOMAIN history[t] : history[t][i].actor = u}

(* Comment.author is PROTECT, and the event of a comment has its author.   *)
Commented(u) ==
  \E t \in Tickets : \E i \in EventsBy(u, t) :
     history[t][i].event_type = "COMMENT_ADDED"

(* A variant that TLC must refute: a deletion does not wait for row locks. *)
ReleasableLocked(t) == row[t].status # "IN_PROGRESS"

(* What the check constraints and the row locks let SET_NULL do.           *)
Releasable(t) == row[t].status # "IN_PROGRESS" /\ lock[t] = None

(* A variant that TLC must refute: history goes with who made it (CASCADE). *)
Deleted(u, h) == SelectSeq(h, LAMBDA e : e.actor # u)

(* A variant that TLC must refute: the actor is left as it is (DO_NOTHING). *)
LeftSigned(u, h) == h

(* SET_NULL on the actor of an event.                                      *)
Anonymised(u, h) ==
  [i \in DOMAIN h |-> IF h[i].actor = u THEN [h[i] EXCEPT !.actor = None] ELSE h[i]]

(* An administrator deletes the account of u.                              *)
DeleteUser(u) ==
  /\ u \in accounts \cap MayLeave
  /\ ~Commented(u)
  /\ \A t \in Assigned(u) : Releasable(t)
  /\ accounts' = accounts \ {u}
  /\ active' = active \ {u}
  /\ row' = [t \in Tickets |->
       IF t \in Assigned(u) THEN [row[t] EXCEPT !.assignee = None] ELSE row[t]]
  /\ history' = [t \in Tickets |-> Anonymised(u, history[t])]
  /\ UNCHANGED <<lock, pc, request, txn, reply, admitted>>

(* Every account the transaction of w writes a reference to still exists.  *)
Resolves(w) ==
  /\ \A i \in DOMAIN txn[w].events : txn[w].events[i].actor \in accounts
  /\ "assignee" \in txn[w].columns => txn[w].ticket.assignee \in accounts \cup {None}

CommitChecked(w) == pc[w] = "staged" /\ Resolves(w) /\ Commit(w)

(* COMMIT raises IntegrityError: rolled back, and answered 500.            *)
CommitFails(w) ==
  /\ pc[w] = "staged" /\ ~Resolves(w)
  /\ Rollback(w, "server_error")

Requests ==
  \/ \E w \in Workers, call \in Calls :
       \/ \E expected \in ExpectedVersions(call) : Admit(w, call, expected)
       \/ Refuse(w, call)
  \/ \E w \in Workers :
       \/ Acquire(w) \/ Service(w) \/ Answer(w) \/ Crash(w)
       \/ CommitChecked(w) \/ CommitFails(w)
  \/ \E u \in Users : Deactivate(u)

TurnoverNext ==
  \/ Requests /\ UNCHANGED accounts
  \/ \E u \in Users : DeleteUser(u)

TurnoverSpec == TurnoverInit /\ [][TurnoverNext]_turnoverVars

-----------------------------------------------------------------------------
(* Whoever a ticket or an entry of its history names has an account, also  *)
(* when the account is deleted while a request that names it is under way; *)
(* a comment, moreover, never loses its author.                            *)
(* [models.py, the foreign keys of Ticket, TicketEvent and Comment]        *)
ReferencesResolve ==
  \A t \in Tickets :
    /\ row[t].assignee \in accounts \cup {None}
    /\ \A i \in DOMAIN history[t] :
         LET e == history[t][i]
         IN  e.actor \in accounts
                \cup (IF e.event_type = "COMMENT_ADDED" THEN {} ELSE {None})

Story(h) == [i \in DOMAIN h |-> <<h[i].event_type, h[i].field, h[i].old, h[i].new>>]

(* Whatever happens to the accounts, what the history says was done is     *)
(* only ever added to: the snapshots outlive who they name.                *)
(* [TicketEvent: the history must still read the way it read that day]     *)
StoryOnlyGrows ==
  [][\A t \in Tickets :
       LET old == Story(history[t])  new == Story(history'[t])
       IN  Len(old) <= Len(new) /\ SubSeq(new, 1, Len(old)) = old]_turnoverVars

(* Work in progress has an owner with an account: a deletion waits for the *)
(* request that is about to put a ticket of theirs in progress.            *)
(* [Ticket.Meta.constraints under SET_NULL]                                *)
WorkKeepsItsOwner ==
  \A t \in Tickets : row[t].status = "IN_PROGRESS" => row[t].assignee \in accounts

(* Who the history of a ticket last said to hold it.                       *)
SaidToHold(t) ==
  LET h == history[t]
  IN  IF Untold(h, "assignee") THEN ""
      ELSE h[CHOOSE i \in DOMAIN h : LastOf(h, "assignee", i)].new

(* The history tells who holds a ticket, but for the tickets a deletion    *)
(* took from somebody; and only a deletion leaves a ticket that waits for  *)
(* its customer with nobody for the reply to land on, whichever way it was *)
(* assigned, moved and released before.                                    *)
(* [enums.py, STATUSES_RETURNED_TO_QUEUE_ON_RELEASE; Ticket.assignee]      *)
OnlyDeletionOrphans ==
  \A t \in Tickets :
    /\ \/ SaidToHold(t) = Shown(row[t].assignee)
       \/ row[t].assignee = None /\ \E u \in Users \ accounts : SaidToHold(t) = DisplayName[u]
    /\ row[t].status = "PENDING_CUSTOMER" => SaidToHold(t) # ""

-----------------------------------------------------------------------------
(* README: "nothing changes without leaving a trace".                      *)
NoChangeWithoutTrace ==
  [][\A t \in Tickets : row'[t] # row[t] =>
       row'[t].version > row[t].version /\ Len(history'[t]) > Len(history[t])]_turnoverVars
=============================================================================
