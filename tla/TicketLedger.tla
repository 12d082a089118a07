---------------------------- MODULE TicketLedger ----------------------------
(***************************************************************************)
(* What the API promises about a ticket, without workers, locks or         *)
(* requests: a ticket is a ledger.  It changes in one step at a time; the  *)
(* step appends to the trail the entries that say who changed which field, *)
(* from what to what, and moves the version forward by one.  Nothing else  *)
(* changes it, and nothing at all once it is closed ("nothing changes      *)
(* without leaving a trace", README.md).                                   *)
(***************************************************************************)
EXTENDS TicketDomain, Naturals, Sequences

CONSTANTS Users, Names, Tickets, Texts

VARIABLES
  ticket,   \* ticket[t]: what a client sees of t, the assignee by name
  trail     \* trail[t]: the entries of its history, oldest first

ledgerVars == <<ticket, trail>>

Field == {"status", "assignee", "priority", "subject", "description"}

(* The values a field can be moved to; "" is the name of nobody.           *)
ValuesOf(field) ==
  CASE field = "status"   -> Status
    [] field = "assignee" -> Names \cup {""}
    [] field = "priority" -> Priority
    [] OTHER              -> Texts

(* An entry that moves `field' of ticket s to `new'.                       *)
Kind(field, new) ==
  CASE field = "status"   -> "STATUS_CHANGED"
    [] field = "assignee" -> IF new = "" THEN "UNASSIGNED" ELSE "ASSIGNED"
    [] field = "priority" -> "PRIORITY_CHANGED"
    [] OTHER              -> "DETAILS_UPDATED"

Entry(s, by, field, new) ==
  [event_type |-> Kind(field, new), actor |-> by, field |-> field,
   old |-> s[field], new |-> new]

(* A status moves along the state machine; every other field moves freely, *)
(* but to a new value: an assignee excepted, for names are not unique.     *)
CanMove(s, field, new) ==
  /\ new \in ValuesOf(field)
  /\ field = "status" => IsTransitionAllowed(s.status, new)
  /\ field # "assignee" => new # s[field]

(* Work somebody is on the hook for has somebody on the hook for it.       *)
Owned(s) == s.status \in {"IN_PROGRESS", "PENDING_CUSTOMER"} => s.assignee # ""

(* One request moves one field, or two: a ticket is taken and started, or  *)
(* released and queued; its subject and its description are edited.        *)
Moves == {<<f>> : f \in Field} \cup {<<f, g>> : f \in Field, g \in Field}

Distinct(move) == \A i, j \in DOMAIN move : i # j => move[i] # move[j]

(* Somebody moves the fields of a move, in that order, to values that are  *)
(* left open here but for what they may be; each is an entry of the trail. *)
Change(t, by, move) ==
  LET s == ticket[t]
      next == ticket'[t]
      moved == {move[i] : i \in DOMAIN move}
  IN /\ Distinct(move)
     /\ \A f \in moved : CanMove(s, f, next[f])
     /\ \A f \in Field \ moved : next[f] = s[f]
     /\ ticket' = [ticket EXCEPT ![t] = next]
     /\ trail' = [trail EXCEPT ![t] = @ \o
          [i \in DOMAIN move |-> Entry(s, by, move[i], next[move[i]])]]

(* Every change is one step of the version, of a ticket that is not closed.*)
Step(t) ==
  /\ ~IsTerminal(ticket[t].status)
  /\ ticket'[t].version = ticket[t].version + 1
  /\ Owned(ticket'[t])
  /\ \E by \in Users, move \in Moves : Change(t, by, move)

(* Somebody adds a comment: an entry about no field.                       *)
Remark(t, by) ==
  /\ ~IsTerminal(ticket[t].status)
  /\ trail' = [trail EXCEPT ![t] = @ \o
                 <<[event_type |-> "COMMENT_ADDED", actor |-> by, field |-> "",
                    old |-> "", new |-> ""]>>]
  /\ UNCHANGED ticket

(* A ticket enters the ledger open and unclaimed, from the public form or  *)
(* from an agent (by), whose triage may correct the reported priority.     *)
Opening ==
  [status: {"OPEN"}, assignee: {""}, priority: Priority,
   subject: Texts, description: Texts, version: {1}]

OpeningTrail(s, by, reported) ==
  <<[event_type |-> "CREATED", actor |-> by, field |-> "status",
     old |-> "", new |-> "OPEN"]>> \o
  (IF reported = s.priority THEN <<>>
   ELSE <<Entry([s EXCEPT !.priority = reported], by, "priority", s.priority)>>)

LedgerInit ==
  /\ ticket \in [Tickets -> Opening]
  /\ \E by \in [Tickets -> Users \cup {None}], reported \in [Tickets -> Priority] :
       trail = [t \in Tickets |-> OpeningTrail(ticket[t], by[t], reported[t])]

LedgerNext ==
  \E t \in Tickets : Step(t) \/ \E by \in Users : Remark(t, by)

LedgerSpec == LedgerInit /\ [][LedgerNext]_ledgerVars
=============================================================================
