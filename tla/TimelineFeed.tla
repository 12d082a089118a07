---------------------------- MODULE TimelineFeed ----------------------------
(***************************************************************************)
(* The two feeds of one ticket, its timeline and its comments, read page   *)
(* by page (core/pagination.py) while the services append to them.         *)
(*                                                                         *)
(* An entry is stamped when it is inserted and becomes visible when its    *)
(* transaction commits; a page is one query, a cursor remembers where it   *)
(* ended.  The bookmark of a cursor is a timestamp and, as timestamps can  *)
(* tie, a number of rows to skip after it: a row that became visible in    *)
(* front of a bookmark would never be read, or move every skip by one.     *)
(*                                                                         *)
(* What an entry says is left out (TicketServices!Event); the clock is one *)
(* for all workers: they run on one host.                                  *)
(***************************************************************************)
EXTENDS Integers, Sequences, FiniteSets

CONSTANTS
  None,
  Workers,       \* who writes
  Readers,       \* clients that page through a feed
  PageSizes,     \* what ?page_size= asks for
  MaxEntries,    \* bound on the entries inserted, rolled back ones included
  MaxClock       \* bound on the clock

(* A cursor: only rows after position, the first offset of them skipped.   *)
Cursors == [position: (0 .. MaxClock) \cup {None}, offset: 0 .. MaxEntries]

ASSUME FeedAssumption ==
  /\ PageSizes \subseteq Nat \ {0} /\ MaxClock \in Nat
  /\ MaxEntries \in Nat /\ MaxEntries >= 2
  /\ None \notin Workers \cup Nat \cup Cursors

VARIABLES
  clock,      \* timezone.now()
  events,     \* the committed events of the ticket
  comments,   \* its committed comments
  nextId,     \* the next primary key; one sequence stands for both tables'
  lock,       \* the worker that holds the row of the ticket, or None
  open,       \* open[w]: what the open transaction of w has inserted, or None
  walk        \* walk[r]: how far reader r has come

feedVars == <<clock, events, comments, nextId, lock, open, walk>>

-----------------------------------------------------------------------------
(* A row of either table; comment is the id of the comment an event stands *)
(* for, 0 for any other event and for the comments themselves.             *)
Entry(id, at, comment) == [id |-> id, created_at |-> at, comment |-> comment]

Entries == [id: 1 .. MaxEntries, created_at: 0 .. MaxClock, comment: 0 .. MaxEntries]

(* comment or event                                                        *)
Kind(e) == IF e.comment = 0 THEN "event" ELSE "comment"

(* A variant that TLC must refute: ties are left to the database.          *)
TimestampOnly(e) == <<e.created_at, 0>>

(* The order of a feed, whatever ?ordering= says.                          *)
Ordering(e) == <<e.created_at, e.id>>

Before(a, b) ==
  LET p == Ordering(a)  q == Ordering(b)
  IN  p[1] < q[1] \/ (p[1] = q[1] /\ p[2] < q[2])

(* What a database may answer to ORDER BY: it breaks ties as it likes, the *)
(* older or the newer row first, and has no choice if the order is total.  *)
Answers(rows) ==
  LET Ahead(a, b, older) == Before(a, b) \/ (~Before(b, a) /\ (a.id < b.id) = older)
      Place(e, older) == Cardinality({a \in rows \ {e} : Ahead(a, e, older)}) + 1
  IN  {[i \in 1 .. Cardinality(rows) |-> CHOOSE e \in rows : Place(e, older) = i] :
         older \in BOOLEAN}

NoTransaction == [events |-> {}, comments |-> {}]

FirstPage == [position |-> None, offset |-> 0]

(* create_ticket left one event, or two if the intake was reclassified.    *)
Init ==
  /\ clock = 0
  /\ \E n \in {1, 2} : events = {Entry(i, 0, 0) : i \in 1 .. n} /\ nextId = n + 1
  /\ comments = {}
  /\ lock = None
  /\ open = [w \in Workers |-> None]
  /\ walk = [r \in Readers |->
       [feed |-> "timeline", size |-> 1, next |-> None, read |-> <<>>]]

-----------------------------------------------------------------------------
(* A variant that TLC must refute: the row is read without FOR UPDATE.     *)
BeginUnlocked(w) ==
  /\ open[w] = None
  /\ open' = [open EXCEPT ![w] = NoTransaction]
  /\ UNCHANGED <<clock, events, comments, nextId, lock, walk>>

(* Every service takes the row lock of the ticket before it does anything. *)
Begin(w) ==
  /\ open[w] = None /\ lock = None
  /\ lock' = w
  /\ open' = [open EXCEPT ![w] = NoTransaction]
  /\ UNCHANGED <<clock, events, comments, nextId, walk>>

(* An event that is no comment: a status change, an assignment...          *)
Record(w) ==
  /\ open[w] # None /\ nextId <= MaxEntries
  /\ open[w].comments = {}
  /\ nextId' = nextId + 1
  /\ open' = [open EXCEPT ![w].events = @ \cup {Entry(nextId, clock, 0)}]
  /\ UNCHANGED <<clock, events, comments, lock, walk>>

(* add_comment inserts the comment...                                      *)
InsertComment(w) ==
  /\ open[w] # None /\ open[w] = NoTransaction
  /\ nextId < MaxEntries
  /\ nextId' = nextId + 1
  /\ open' = [open EXCEPT ![w].comments = {Entry(nextId, clock, 0)}]
  /\ UNCHANGED <<clock, events, comments, lock, walk>>

(* A variant that TLC must refute: the event does not name the comment.    *)
RecordUnlinked(w) ==
  /\ open[w] # None /\ nextId <= MaxEntries
  /\ open[w].events = {}
  /\ \E c \in open[w].comments :
       open' = [open EXCEPT ![w].events = {Entry(nextId, clock, 0)}]
  /\ nextId' = nextId + 1
  /\ UNCHANGED <<clock, events, comments, lock, walk>>

(* ...and then the event that stands for it, stamped again.                *)
RecordComment(w) ==
  /\ open[w] # None /\ nextId <= MaxEntries
  /\ open[w].events = {}
  /\ \E c \in open[w].comments :
       open' = [open EXCEPT ![w].events = {Entry(nextId, clock, c.id)}]
  /\ nextId' = nextId + 1
  /\ UNCHANGED <<clock, events, comments, lock, walk>>

(* The transaction is over: nothing of it is open, and its lock is free.   *)
Finish(w) ==
  /\ open' = [open EXCEPT ![w] = None]
  /\ lock' = IF lock = w THEN None ELSE lock

Commit(w) ==
  /\ open[w] # None
  /\ open[w].comments # {} => open[w].events # {}
  /\ events' = events \cup open[w].events
  /\ comments' = comments \cup open[w].comments
  /\ Finish(w)
  /\ UNCHANGED <<clock, nextId, walk>>

(* The service refuses, or the worker dies: the ids it took are gone.      *)
Rollback(w) ==
  /\ open[w] # None
  /\ Finish(w)
  /\ UNCHANGED <<clock, events, comments, nextId, walk>>

-----------------------------------------------------------------------------
Rows(feed) == IF feed = "timeline" THEN events ELSE comments

(* s[offset:offset + size]                                                 *)
Slice(s, offset, size) ==
  LET left == Len(s) - offset
  IN  [i \in 1 .. (IF left < size THEN left ELSE size) |-> s[offset + i]]

(* The rows of a query, in the order the database gives them: those after  *)
(* the position, less the offset, one more than fit the page.              *)
Fetched(cursor, size, rows) ==
  {Slice(s, cursor.offset, size + 1) :
     s \in Answers(
       {e \in rows : cursor.position = None \/ e.created_at > cursor.position})}

(* The next link after a page that the row `following' follows: back to the*)
(* last row with another timestamp than the one behind it, skipping the    *)
(* rows between; when the whole page has one timestamp, the same bookmark  *)
(* and a page more to skip.                                                *)
NextCursor(cursor, size, page, following) ==
  LET at(i) == IF i > Len(page) THEN following.created_at ELSE page[i].created_at
      ends == {i \in DOMAIN page : at(i) # at(i + 1)}
      last == CHOOSE i \in ends : \A j \in ends : j <= i
  IN  IF ends # {}
      THEN [position |-> at(last), offset |-> Len(page) - last]
      ELSE [position |-> cursor.position, offset |-> cursor.offset + size]

(* One page: what it adds to what was read, and where the next one begins. *)
Turn(r, feed, size, cursor, read) ==
  \E fetched \in Fetched(cursor, size, Rows(feed)) :
    LET more == Len(fetched) > size
        page == IF more THEN SubSeq(fetched, 1, size) ELSE fetched
    IN  walk' = [walk EXCEPT ![r] =
          [feed |-> feed, size |-> size, read |-> read \o page,
           next |-> IF more THEN NextCursor(cursor, size, page, fetched[size + 1])
                    ELSE None]]

(* A client opens a feed...                                                *)
OpenFeed(r) ==
  /\ walk[r].next = None
  /\ \E feed \in {"timeline", "comments"}, size \in PageSizes :
       Turn(r, feed, size, FirstPage, <<>>)
  /\ UNCHANGED <<clock, events, comments, nextId, lock, open>>

(* ...and follows its next link.                                           *)
FollowNext(r) ==
  /\ walk[r].next # None
  /\ Turn(r, walk[r].feed, walk[r].size, walk[r].next, walk[r].read)
  /\ UNCHANGED <<clock, events, comments, nextId, lock, open>>

Tick ==
  /\ clock < MaxClock
  /\ clock' = clock + 1
  /\ UNCHANGED <<events, comments, nextId, lock, open, walk>>

Next ==
  \/ Tick
  \/ \E w \in Workers :
       \/ Begin(w) \/ Record(w) \/ InsertComment(w) \/ RecordComment(w)
       \/ Commit(w) \/ Rollback(w)
  \/ \E r \in Readers : OpenFeed(r) \/ FollowNext(r)

Spec == Init /\ [][Next]_feedVars

-----------------------------------------------------------------------------
Transactions == [events: SUBSET Entries, comments: SUBSET Entries]

TablesOK ==
  /\ clock \in 0 .. MaxClock
  /\ events \subseteq Entries /\ comments \subseteq Entries
  /\ nextId \in 1 .. MaxEntries + 1
  /\ lock \in Workers \cup {None}
  /\ open \in [Workers -> Transactions \cup {None}]

TypeOK ==
  /\ TablesOK
  /\ walk \in [Readers ->
       [feed: {"timeline", "comments"}, size: Nat \ {0},
        next: Cursors \cup {None}, read: Seq(Entries)]]

(* Why appends land at the end: whoever inserts holds the row of the       *)
(* ticket, and inserts behind everything committed and nothing yet to come.*)
WriteInv ==
  /\ TablesOK
  /\ \A w \in Workers : open[w] # None => lock = w
  /\ \A e \in events \cup comments : e.id < nextId /\ e.created_at <= clock
  /\ \A w \in Workers : open[w] # None =>
       \A new \in open[w].events \cup open[w].comments :
         /\ new.id < nextId /\ new.created_at <= clock
         /\ \A old \in events \cup comments :
              old.id < new.id /\ old.created_at <= new.created_at

(* The types, and the discipline of the writers.                           *)
FeedInv == TypeOK /\ WriteInv

IsPrefixOf(s, t) == Len(s) <= Len(t) /\ SubSeq(t, 1, Len(s)) = s

(* What a client has read so far is, at every moment, the beginning of the *)
(* feed as it is now: no entry is read twice and none is passed over, also *)
(* one that is committed while the client is between two pages, ties       *)
(* included.  [CreatedAtCursorPagination over rows written under the lock] *)
PagesAreThePrefix ==
  \A r \in Readers :
     \E s \in Answers(Rows(walk[r].feed)) : IsPrefixOf(walk[r].read, s)

(* A client that is given no next link has read all there is.              *)
(* [CreatedAtCursorPagination, page_size + 1]                              *)
LastPageIsTheEnd ==
  [][\A r \in Readers :
       walk'[r] # walk[r] /\ walk'[r].next = None
         => Len(walk'[r].read) = Cardinality(Rows(walk'[r].feed))]_feedVars

(* An entry never becomes visible in front of one that already was,        *)
(* whatever order the workers insert and commit in.  [services._lock]      *)
AppendsLandAtTheEnd ==
  [][/\ \A old \in events : \A new \in events' \ events : Before(old, new)
     /\ \A old \in comments : \A new \in comments' \ comments : Before(old, new)]_feedVars

(* The two feeds tell the comments alike: each comment is one entry of the *)
(* timeline, and they are in the same order in both.                       *)
(* [add_comment, TimelineEntrySerializer.get_kind]                         *)
FeedsAgree ==
  LET told == {e \in events : Kind(e) = "comment"}
  IN  /\ {e.comment : e \in told} = {c.id : c \in comments}
      /\ \A e, f \in told : e.comment = f.comment => e = f
      /\ \A c, d \in comments : \A e, f \in told :
           e.comment = c.id /\ f.comment = d.id /\ Before(c, d) => Before(e, f)
=============================================================================
