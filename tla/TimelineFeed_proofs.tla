------------------------ MODULE TimelineFeed_proofs ------------------------
(***************************************************************************)
(* What TimelineFeed promises, for any workers, readers, page sizes and    *)
(* bounds.                                                                 *)
(*                                                                         *)
(* Of the writers (WriteInv): the row lock makes one worker insert at a    *)
(* time, so what it inserts is behind everything committed, and nothing is *)
(* committed in front of it before it is.  Of the feeds (LinkInv): a       *)
(* transaction adds at most one comment, with its event.  Of the readers   *)
(* (ReadInv): a row's rank, the number of rows before it, is its place in  *)
(* any answer; what was read has the ranks 1 to k, and what a bookmark     *)
(* passes and skips are k rows as well.                                    *)
(***************************************************************************)
EXTENDS TimelineFeed, FiniteSetTheorems, TLAPS

(* Reading changes no table.                                               *)
writeVars == <<clock, events, comments, nextId, lock, open>>

LEMMA ReadersOnlyRead ==
  ASSUME NEW r \in Readers, OpenFeed(r) \/ FollowNext(r)
  PROVE  UNCHANGED writeVars
  BY DEF OpenFeed, FollowNext, writeVars

LEMMA EntryOK ==
  ASSUME TablesOK, nextId <= MaxEntries, NEW c \in 0 .. MaxEntries
  PROVE  /\ Entry(nextId, clock, c) \in Entries
         /\ Entry(nextId, clock, c).id = nextId
         /\ Entry(nextId, clock, c).created_at = clock
         /\ Entry(nextId, clock, c).comment = c
  BY FeedAssumption DEF Entry, Entries, TablesOK

-----------------------------------------------------------------------------
(* The creation of the ticket inserted one or two events.                  *)
LEMMA WriteInit == Init => WriteInv
  <1> SUFFICES ASSUME Init PROVE WriteInv
      OBVIOUS
  <1>1. PICK n \in {1, 2} : events = {Entry(i, 0, 0) : i \in 1 .. n} /\ nextId = n + 1
        BY DEF Init
  <1>2. \A e \in events : e \in Entries /\ e.id < nextId /\ e.created_at = 0
        BY <1>1, FeedAssumption DEF Entry, Entries
  <1> QED BY <1>1, <1>2, FeedAssumption DEF Init, WriteInv, TablesOK

(* What holds of an entry a worker inserts now.                            *)
LEMMA InsertedBehind ==
  ASSUME WriteInv, nextId <= MaxEntries, NEW c \in 0 .. MaxEntries
  PROVE  LET new == Entry(nextId, clock, c)
         IN  /\ new \in Entries
             /\ new.id < nextId + 1 /\ new.created_at <= clock
             /\ \A old \in events \cup comments :
                  old.id < new.id /\ old.created_at <= new.created_at
  <1>1. nextId \in Nat /\ clock \in Nat
        BY FeedAssumption DEF WriteInv, TablesOK
  <1> QED BY <1>1, EntryOK DEF WriteInv

(* A worker's insertion keeps the discipline.                              *)
LEMMA InsertStep ==
  ASSUME WriteInv, NEW w \in Workers, open[w] # None, nextId <= MaxEntries,
         NEW c \in 0 .. MaxEntries,
         UNCHANGED <<clock, events, comments, lock>>, nextId' = nextId + 1,
         \/ open' = [open EXCEPT ![w].events = @ \cup {Entry(nextId, clock, c)}]
         \/ open' = [open EXCEPT ![w].events = {Entry(nextId, clock, c)}]
         \/ open' = [open EXCEPT ![w].comments = {Entry(nextId, clock, c)}]
  PROVE  WriteInv'
  <1> DEFINE new == Entry(nextId, clock, c)
  <1>1. /\ new \in Entries
        /\ new.id < nextId + 1 /\ new.created_at <= clock
        /\ \A old \in events \cup comments :
             old.id < new.id /\ old.created_at <= new.created_at
        BY InsertedBehind
  <1>2. /\ open \in [Workers -> Transactions \cup {None}]
        /\ open[w] \in Transactions
        /\ nextId \in 1 .. MaxEntries + 1
        BY DEF WriteInv, TablesOK
  <1>3. PICK t \in Transactions :
          /\ open' = [open EXCEPT ![w] = t]
          /\ t.events \cup t.comments
               \subseteq open[w].events \cup open[w].comments \cup {new}
    <2> HIDE DEF new
    <2>1. CASE open' = [open EXCEPT ![w].events = @ \cup {new}]
      <3> DEFINE t == [events |-> open[w].events \cup {new}, comments |-> open[w].comments]
      <3>1. t \in Transactions /\ open' = [open EXCEPT ![w] = t]
            BY <1>1, <1>2, <2>1 DEF Transactions
      <3> QED BY <3>1
    <2>2. CASE open' = [open EXCEPT ![w].events = {new}]
      <3> DEFINE t == [events |-> {new}, comments |-> open[w].comments]
      <3>1. t \in Transactions /\ open' = [open EXCEPT ![w] = t]
            BY <1>1, <1>2, <2>2 DEF Transactions
      <3> QED BY <3>1
    <2>3. CASE open' = [open EXCEPT ![w].comments = {new}]
      <3> DEFINE t == [events |-> open[w].events, comments |-> {new}]
      <3>1. t \in Transactions /\ open' = [open EXCEPT ![w] = t]
            BY <1>1, <1>2, <2>3 DEF Transactions
      <3> QED BY <3>1
    <2> QED BY <2>1, <2>2, <2>3 DEF new
  <1>4. nextId + 1 \in 1 .. MaxEntries + 1
        BY <1>2, FeedAssumption
  <1>5. TablesOK'
        BY <1>2, <1>3, <1>4 DEF WriteInv, TablesOK
  <1>6. \A e \in Entries : e.id < nextId => e.id < nextId'
        BY <1>2 DEF Entries
  <1>7. events \cup comments \subseteq Entries
        BY DEF WriteInv, TablesOK
  <1>8. \A e \in events' \cup comments' : e.id < nextId' /\ e.created_at <= clock'
        BY <1>6, <1>7 DEF WriteInv
  <1>9. ASSUME NEW v \in Workers, open'[v] # None,
               NEW e \in open'[v].events \cup open'[v].comments
        PROVE  /\ lock' = v
               /\ e.id < nextId' /\ e.created_at <= clock'
               /\ \A old \in events' \cup comments' :
                    old.id < e.id /\ old.created_at <= e.created_at
    <2>1. lock = w
          BY DEF WriteInv
    <2>2. open[v] # None
          BY <1>2, <1>3, <1>9
    <2>3. v = w
          BY <2>1, <2>2 DEF WriteInv
    <2>4. e \in open[w].events \cup open[w].comments \cup {new}
      <3> HIDE DEF new
      <3> QED BY <1>2, <1>3, <1>9, <2>3
    <2>5. CASE e = new
          BY <1>1, <2>1, <2>3, <2>5
    <2>6. CASE e \in open[w].events \cup open[w].comments
      <3>1. e \in Entries
            BY <1>2, <2>6 DEF Transactions
      <3> QED BY <1>6, <2>1, <2>3, <2>6, <3>1 DEF WriteInv
    <2> QED BY <2>4, <2>5, <2>6
  <1>10. \A v \in Workers : open'[v] # None => lock' = v
         BY <1>2, <1>3 DEF WriteInv
  <1> QED BY <1>5, <1>8, <1>9, <1>10 DEF WriteInv

(* The end of a transaction, whether its entries stay or go.               *)
LEMMA FinishStep ==
  ASSUME WriteInv, NEW w \in Workers, open[w] # None, Finish(w),
         UNCHANGED <<clock, nextId>>,
         \/ UNCHANGED <<events, comments>>
         \/ /\ events' = events \cup open[w].events
            /\ comments' = comments \cup open[w].comments
  PROVE  WriteInv'
  <1>1. /\ open \in [Workers -> Transactions \cup {None}]
        /\ open[w] \in Transactions /\ lock = w
        BY DEF WriteInv, TablesOK
  <1>2. open' = [open EXCEPT ![w] = None] /\ lock' = None
        BY <1>1 DEF Finish
  <1>3. \A v \in Workers : open'[v] = None
        BY <1>1, <1>2 DEF WriteInv
  <1>4. events' \subseteq Entries /\ comments' \subseteq Entries
        BY <1>1 DEF WriteInv, TablesOK, Transactions
  <1>5. TablesOK'
        BY <1>1, <1>2, <1>4 DEF WriteInv, TablesOK
  <1>6. \A e \in events' \cup comments' : e.id < nextId' /\ e.created_at <= clock'
        BY DEF WriteInv
  <1> QED BY <1>3, <1>5, <1>6 DEF WriteInv

(* The clock of the workers goes on.                                       *)
LEMMA TickStep == WriteInv /\ Tick => WriteInv'
  <1> SUFFICES ASSUME WriteInv, Tick PROVE WriteInv'
      OBVIOUS
  <1>1. clock \in Nat /\ clock' \in 0 .. MaxClock /\ clock <= clock'
        BY FeedAssumption DEF WriteInv, TablesOK, Tick
  <1>2. \A e \in Entries : e.created_at <= clock => e.created_at <= clock'
        BY <1>1, FeedAssumption DEF Entries
  <1>3. \A w \in Workers : open[w] # None =>
          open[w].events \cup open[w].comments \subseteq Entries
        BY DEF WriteInv, TablesOK, Transactions
  <1>4. events \cup comments \subseteq Entries
        BY DEF WriteInv, TablesOK
  <1> QED BY <1>1, <1>2, <1>3, <1>4 DEF WriteInv, TablesOK, Tick

(* Every step of a worker keeps the discipline, and readers disturb none.  *)
LEMMA WriteStep == WriteInv /\ [Next]_feedVars => WriteInv'
  <1> SUFFICES ASSUME WriteInv, [Next]_feedVars PROVE WriteInv'
      OBVIOUS
  <1>1. ASSUME NEW w \in Workers, Begin(w) PROVE WriteInv'
    <2>1. \A v \in Workers : open[v] = None
          BY <1>1, FeedAssumption DEF Begin, WriteInv
    <2>2. NoTransaction \in Transactions
          BY DEF NoTransaction, Transactions
    <2>3. NoTransaction.events = {} /\ NoTransaction.comments = {}
          BY DEF NoTransaction
    <2>4. open' = [open EXCEPT ![w] = NoTransaction] /\ lock' = w
          BY <1>1 DEF Begin
    <2>5. TablesOK'
          BY <1>1, <2>2, <2>4 DEF Begin, WriteInv, TablesOK
    <2>6. \A v \in Workers : open'[v] # None => v = w /\ open'[v] = NoTransaction
          BY <2>1, <2>4 DEF WriteInv, TablesOK
    <2> QED BY <1>1, <2>3, <2>4, <2>5, <2>6 DEF Begin, WriteInv
  <1>2. ASSUME NEW w \in Workers, Record(w) PROVE WriteInv'
    <2>1. 0 \in 0 .. MaxEntries
          BY FeedAssumption
    <2> QED BY <1>2, <2>1, InsertStep DEF Record
  <1>3. ASSUME NEW w \in Workers, InsertComment(w) PROVE WriteInv'
    <2>1. 0 \in 0 .. MaxEntries
          BY FeedAssumption
    <2>2. nextId <= MaxEntries
          BY <1>3, FeedAssumption DEF InsertComment, WriteInv, TablesOK
    <2> QED BY <1>3, <2>1, <2>2, InsertStep DEF InsertComment
  <1>4. ASSUME NEW w \in Workers, RecordComment(w) PROVE WriteInv'
    <2>1. PICK c \in open[w].comments :
            open' = [open EXCEPT ![w].events = {Entry(nextId, clock, c.id)}]
          BY <1>4 DEF RecordComment
    <2>2. open[w] \in Transactions
          BY <1>4 DEF RecordComment, WriteInv, TablesOK
    <2>3. c.id \in 0 .. MaxEntries
          BY <2>2, FeedAssumption DEF Transactions, Entries
    <2> QED BY <1>4, <2>1, <2>3, InsertStep DEF RecordComment
  <1>5. ASSUME NEW w \in Workers, Commit(w) PROVE WriteInv'
        BY <1>5, FinishStep DEF Commit
  <1>6. ASSUME NEW w \in Workers, Rollback(w) PROVE WriteInv'
        BY <1>6, FinishStep DEF Rollback
  <1>7. CASE UNCHANGED writeVars
        BY <1>7 DEF writeVars, WriteInv, TablesOK
  <1>8. UNCHANGED feedVars => UNCHANGED writeVars
        BY DEF feedVars, writeVars
  <1> QED BY <1>1, <1>2, <1>3, <1>4, <1>5, <1>6, <1>7, <1>8,
             TickStep, ReadersOnlyRead DEF Next

(* The discipline of the writers, for any number of them.                  *)
THEOREM WritersInOrder == Spec => []WriteInv
  <1> QED BY WriteInit, WriteStep, PTL DEF Spec

-----------------------------------------------------------------------------
LEMMA BehindIsBefore ==
  ASSUME NEW a \in Entries, NEW b \in Entries,
         a.id < b.id, a.created_at <= b.created_at
  PROVE  Before(a, b) /\ ~Before(b, a)
  BY DEF Before, Ordering, Entries

(* Nothing becomes visible in front of what already was, for any workers:  *)
(* a bookmark in either feed is never overtaken.                           *)
THEOREM AppendOnlyFeeds == Spec => AppendsLandAtTheEnd
  <1> DEFINE Appends ==
        /\ \A old \in events : \A new \in events' \ events : Before(old, new)
        /\ \A old \in comments : \A new \in comments' \ comments : Before(old, new)
  <1>1. ASSUME WriteInv, [Next]_feedVars PROVE [Appends]_feedVars
    <2>1. ASSUME NEW w \in Workers, Commit(w) PROVE Appends
      <3>1. /\ open[w] \in Transactions
            /\ events' = events \cup open[w].events
            /\ comments' = comments \cup open[w].comments
            BY <1>1, <2>1 DEF Commit, WriteInv, TablesOK
      <3>2. \A old \in events \cup comments :
              \A new \in open[w].events \cup open[w].comments : Before(old, new)
        <4>1. events \cup comments \subseteq Entries
              /\ open[w].events \cup open[w].comments \subseteq Entries
              BY <1>1, <3>1 DEF WriteInv, TablesOK, Transactions
        <4>2. \A old \in events \cup comments :
                \A new \in open[w].events \cup open[w].comments :
                  old.id < new.id /\ old.created_at <= new.created_at
              BY <1>1, <2>1 DEF Commit, WriteInv
        <4> QED BY <4>1, <4>2, BehindIsBefore
      <3> QED BY <3>1, <3>2
    <2>2. CASE UNCHANGED <<events, comments>>
          BY <2>2
    <2>3. ASSUME NEW w \in Workers,
                 \/ Begin(w) \/ Record(w) \/ InsertComment(w)
                 \/ RecordComment(w) \/ Rollback(w)
          PROVE  UNCHANGED <<events, comments>>
          BY <2>3 DEF Begin, Record, InsertComment, RecordComment, Rollback
    <2>4. Tick \/ UNCHANGED writeVars => UNCHANGED <<events, comments>>
          BY DEF Tick, writeVars
    <2> HIDE DEF Appends
    <2> QED BY <1>1, <2>1, <2>2, <2>3, <2>4, ReadersOnlyRead DEF Next
  <1> QED BY <1>1, WritersInOrder, PTL DEF Spec, AppendsLandAtTheEnd

-----------------------------------------------------------------------------
(* A transaction inserts either events of other kinds or one comment and   *)
(* at most one event, which stands for it.                                 *)
Linked(t) ==
  \/ t.comments = {} /\ \A e \in t.events : e.comment = 0
  \/ \E c \in Entries :
       /\ t.comments = {c}
       /\ \A e \in t.events : e.comment = c.id
       /\ \A e, f \in t.events : e = f

LinkInv == FeedsAgree /\ \A w \in Workers : open[w] # None => Linked(open[w])

(* FeedsAgree, of the events of the timeline themselves.                   *)
Agreeing ==
  /\ \A e \in events : e.comment # 0 => \E c \in comments : e.comment = c.id
  /\ \A c \in comments : \E e \in events : e.comment # 0 /\ e.comment = c.id
  /\ \A e, f \in events : e.comment # 0 /\ e.comment = f.comment => e = f
  /\ \A c, d \in comments : \A e, f \in events :
       e.comment # 0 /\ f.comment # 0 /\ e.comment = c.id /\ f.comment = d.id
         /\ Before(c, d) => Before(e, f)

LEMMA AgreeUnfolded == FeedsAgree <=> Agreeing
  <1> DEFINE told == {e \in events : Kind(e) = "comment"}
  <1>1. \A e \in events : e \in told <=> e.comment # 0
        BY DEF Kind
  <1>2. FeedsAgree <=>
          /\ {e.comment : e \in told} = {c.id : c \in comments}
          /\ \A e, f \in told : e.comment = f.comment => e = f
          /\ \A c, d \in comments : \A e, f \in told :
               e.comment = c.id /\ f.comment = d.id /\ Before(c, d) => Before(e, f)
        BY DEF FeedsAgree
  <1>3. {e.comment : e \in told} = {c.id : c \in comments} <=>
          /\ \A e \in told : \E c \in comments : e.comment = c.id
          /\ \A c \in comments : \E e \in told : e.comment = c.id
        OBVIOUS
  <1>4. told \subseteq events
        OBVIOUS
  <1> HIDE DEF told
  <1>5. (\A e, f \in told : e.comment = f.comment => e = f) <=>
          \A e, f \in events : e.comment # 0 /\ e.comment = f.comment => e = f
        BY <1>1, <1>4
  <1>6. (\A c, d \in comments : \A e, f \in told :
            e.comment = c.id /\ f.comment = d.id /\ Before(c, d) => Before(e, f)) <=>
          \A c, d \in comments : \A e, f \in events :
            e.comment # 0 /\ f.comment # 0 /\ e.comment = c.id /\ f.comment = d.id
              /\ Before(c, d) => Before(e, f)
        BY <1>1, <1>4
  <1> QED BY <1>1, <1>2, <1>3, <1>4, <1>5, <1>6 DEF Agreeing

LEMMA LinkInit == Init => LinkInv
  <1> SUFFICES ASSUME Init PROVE LinkInv
      OBVIOUS
  <1>1. \A e \in events : e.comment = 0
        BY DEF Init, Entry
  <1>2. comments = {} /\ \A w \in Workers : open[w] = None
        BY DEF Init
  <1> QED BY <1>1, <1>2, AgreeUnfolded DEF LinkInv, Agreeing

(* A commit brings at most one comment, and its event.                     *)
LEMMA LinkCommit ==
  ASSUME WriteInv, LinkInv, NEW w \in Workers, Commit(w)
  PROVE  FeedsAgree'
  <1> DEFINE t == open[w]
  <1>0. (FeedsAgree <=> Agreeing) /\ (FeedsAgree' <=> Agreeing')
        BY AgreeUnfolded, PTL
  <1>1. /\ t \in Transactions /\ Linked(t)
        /\ t.comments # {} => t.events # {}
        /\ events' = events \cup t.events /\ comments' = comments \cup t.comments
        BY DEF Commit, LinkInv, WriteInv, TablesOK
  <1>2. /\ events \cup comments \subseteq Entries
        /\ t.events \cup t.comments \subseteq Entries
        BY <1>1 DEF WriteInv, TablesOK, Transactions
  <1>3. \A old \in events \cup comments : \A new \in t.events \cup t.comments :
          old.id < new.id /\ old.created_at <= new.created_at
        BY DEF Commit, WriteInv
  <1>4. \A old \in events \cup comments : \A new \in t.events \cup t.comments :
          Before(old, new) /\ ~Before(new, old)
        BY <1>2, <1>3, BehindIsBefore
  <1>5. \A e \in Entries : e.id \in Nat \ {0} /\ e.comment \in Nat
        BY FeedAssumption DEF Entries
  <1> HIDE DEF t
  <1>6. CASE t.comments = {} /\ \A e \in t.events : e.comment = 0
    <2>1. comments' = comments
          BY <1>1, <1>6
    <2>2. /\ \A e \in events' : e.comment # 0 => e \in events
          /\ \A e \in events : e \in events'
          BY <1>1, <1>6
    <2>3. Agreeing
          BY <1>0 DEF LinkInv
    <2>4. \A e, f \in events' : e.comment # 0 /\ e.comment = f.comment => e = f
          BY <2>2, <2>3 DEF Agreeing
    <2>5. /\ \A e \in events' : e.comment # 0 => \E c \in comments' : e.comment = c.id
          /\ \A c \in comments' : \E e \in events' : e.comment # 0 /\ e.comment = c.id
          BY <2>1, <2>2, <2>3 DEF Agreeing
    <2>6. \A c, d \in comments' : \A e, f \in events' :
            e.comment # 0 /\ f.comment # 0 /\ e.comment = c.id /\ f.comment = d.id
              /\ Before(c, d) => Before(e, f)
          BY <2>1, <2>2, <2>3 DEF Agreeing
    <2> QED BY <1>0, <2>4, <2>5, <2>6 DEF Agreeing, Before, Ordering
  <1>7. ASSUME NEW n \in Entries, t.comments = {n},
               \A e \in t.events : e.comment = n.id,
               \A e, f \in t.events : e = f
        PROVE  FeedsAgree'
    <2>1. PICK m \in t.events : t.events = {m}
          BY <1>1, <1>7
    <2>2. events' = events \cup {m} /\ comments' = comments \cup {n}
          BY <1>1, <1>7, <2>1
    <2>3. m.comment = n.id /\ n.id # 0 /\ m \in Entries
          BY <1>2, <1>5, <1>7, <2>1
    <2>4. \A c \in comments : c.id # n.id
          BY <1>2, <1>3, <1>5, <1>7
    <2>5. \A e \in events : e.comment # 0 =>
            e.comment # n.id /\ \E c \in comments : e.comment = c.id
          BY <2>4, <1>0 DEF LinkInv, Agreeing
    <2>6. /\ \A e \in events : Before(e, m)
          /\ \A c \in comments : ~Before(n, c)
          /\ ~Before(n, n)
          BY <1>4, <1>5, <1>7, <2>1 DEF Before, Ordering, Entries
    <2>7. \A e \in events' : e.comment # 0 => \E c \in comments' : e.comment = c.id
          BY <2>2, <2>3, <2>5
    <2>8. \A c \in comments' : \E e \in events' : e.comment # 0 /\ e.comment = c.id
      <3>1. \A c \in comments : \E e \in events : e.comment # 0 /\ e.comment = c.id
            BY <1>0 DEF LinkInv, Agreeing
      <3> QED BY <2>2, <2>3, <3>1
    <2>9. \A e, f \in events' : e.comment # 0 /\ e.comment = f.comment => e = f
      <3>1. \A e, f \in events : e.comment # 0 /\ e.comment = f.comment => e = f
            BY <1>0 DEF LinkInv, Agreeing
      <3> QED BY <2>2, <2>3, <2>5, <3>1
    <2>10. ASSUME NEW c \in comments', NEW d \in comments', NEW e \in events', NEW f \in events',
                  e.comment # 0, f.comment # 0, e.comment = c.id, f.comment = d.id, Before(c, d)
           PROVE  Before(e, f)
      <3>1. c \in comments
            BY <2>2, <2>6, <2>10
      <3>2. e \in events
            BY <2>2, <2>3, <2>4, <2>10, <3>1
      <3>3. CASE f = m
            BY <2>6, <3>2, <3>3
      <3>4. CASE f \in events
        <4>1. d \in comments
              BY <2>2, <2>5, <2>10, <3>4
        <4> QED BY <2>10, <3>1, <3>2, <3>4, <4>1, <1>0 DEF LinkInv, Agreeing
      <3> QED BY <2>2, <3>3, <3>4
    <2>11. \A c, d \in comments' : \A e, f \in events' :
             e.comment # 0 /\ f.comment # 0 /\ e.comment = c.id /\ f.comment = d.id
               /\ Before(c, d) => Before(e, f)
           BY <2>10
    <2> QED BY <1>0, <2>7, <2>8, <2>9, <2>11 DEF Agreeing
  <1> QED BY <1>1, <1>6, <1>7 DEF Linked

LEMMA Replaced ==
  ASSUME NEW t \in Transactions, NEW entries
  PROVE  /\ [t EXCEPT !.events = entries] = [events |-> entries, comments |-> t.comments]
         /\ [t EXCEPT !.comments = entries] = [events |-> t.events, comments |-> entries]
  BY DEF Transactions

(* Every step keeps the link between a comment and its event.              *)
LEMMA LinkStep == WriteInv /\ LinkInv /\ [Next]_feedVars => LinkInv'
  <1> SUFFICES ASSUME WriteInv, LinkInv, [Next]_feedVars PROVE LinkInv'
      OBVIOUS
  <1>1. open \in [Workers -> Transactions \cup {None}]
        BY DEF WriteInv, TablesOK
  <1>2. ASSUME NEW w \in Workers, NEW t, Linked(t), open' = [open EXCEPT ![w] = t],
               UNCHANGED <<events, comments>>
        PROVE  LinkInv'
    <2>1. FeedsAgree'
          BY <1>2 DEF LinkInv, FeedsAgree, Kind, Before, Ordering
    <2>2. \A v \in Workers : open'[v] # None => Linked(open'[v])
          BY <1>1, <1>2 DEF LinkInv
    <2> QED BY <2>1, <2>2 DEF LinkInv, Linked
  <1>3. ASSUME NEW w \in Workers, Begin(w) PROVE LinkInv'
    <2>1. Linked(NoTransaction)
          BY DEF Linked, NoTransaction
    <2> QED BY <1>2, <1>3, <2>1 DEF Begin
  <1>4. ASSUME NEW w \in Workers, Record(w) PROVE LinkInv'
    <2> DEFINE new == Entry(nextId, clock, 0)
               t == [events |-> open[w].events \cup {new}, comments |-> open[w].comments]
    <2>1. open[w] \in Transactions /\ Linked(open[w]) /\ open[w].comments = {}
          BY <1>1, <1>4 DEF Record, LinkInv
    <2>2. new.comment = 0
          BY DEF Entry
    <2>3. Linked(t)
      <3>1. \A e \in open[w].events : e.comment = 0
            BY <2>1 DEF Linked
      <3> HIDE DEF new
      <3> QED BY <2>1, <2>2, <3>1 DEF Linked
    <2>4. open' = [open EXCEPT ![w] = t]
      <3>1. open' = [open EXCEPT ![w] = [open[w] EXCEPT !.events = @ \cup {new}]]
            BY <1>4 DEF Record
      <3> HIDE DEF new
      <3> QED BY <2>1, <3>1, Replaced
    <2> QED BY <1>2, <1>4, <2>3, <2>4 DEF Record
  <1>5. ASSUME NEW w \in Workers, InsertComment(w) PROVE LinkInv'
    <2> DEFINE new == Entry(nextId, clock, 0)
               t == [events |-> {}, comments |-> {new}]
    <2>1. nextId <= MaxEntries /\ 0 \in 0 .. MaxEntries
          BY <1>5, FeedAssumption DEF InsertComment, WriteInv, TablesOK
    <2>2. new \in Entries
          BY <2>1, EntryOK DEF WriteInv
    <2>3. Linked(t)
      <3> HIDE DEF new
      <3> QED BY <2>2 DEF Linked
    <2>4. open' = [open EXCEPT ![w] = t]
      <3>1. open' = [open EXCEPT ![w] = [open[w] EXCEPT !.comments = {new}]]
            BY <1>5 DEF InsertComment
      <3>2. open[w] \in Transactions /\ open[w].events = {}
        <4>1. open[w] = NoTransaction /\ open[w] # None
              BY <1>5 DEF InsertComment
        <4>2. NoTransaction \in Transactions /\ NoTransaction.events = {}
              BY DEF NoTransaction, Transactions
        <4> QED BY <4>1, <4>2
      <3> HIDE DEF new
      <3>3. [open[w] EXCEPT !.comments = {new}]
              = [events |-> open[w].events, comments |-> {new}]
            BY <3>2, Replaced
      <3>4. [events |-> open[w].events, comments |-> {new}] = t
            BY <3>2
      <3> QED BY <3>1, <3>3, <3>4, Zenon
    <2> QED BY <1>2, <1>5, <2>3, <2>4 DEF InsertComment
  <1>6. ASSUME NEW w \in Workers, RecordComment(w) PROVE LinkInv'
    <2>1. PICK c \in open[w].comments :
            open' = [open EXCEPT ![w].events = {Entry(nextId, clock, c.id)}]
          BY <1>6 DEF RecordComment
    <2> DEFINE new == Entry(nextId, clock, c.id)
               t == [events |-> {new}, comments |-> open[w].comments]
    <2>2. open[w] \in Transactions /\ Linked(open[w])
          BY <1>1, <1>6 DEF RecordComment, LinkInv
    <2>3. c \in Entries /\ open[w].comments = {c}
          BY <2>1, <2>2 DEF Linked, Transactions
    <2>4. new.comment = c.id
          BY DEF Entry
    <2>5. Linked(t)
      <3> HIDE DEF new
      <3> QED BY <2>3, <2>4 DEF Linked
    <2>6. open' = [open EXCEPT ![w] = t]
      <3>1. open' = [open EXCEPT ![w] = [open[w] EXCEPT !.events = {new}]]
            BY <2>1
      <3> HIDE DEF new
      <3> QED BY <2>2, <3>1, Replaced
    <2> QED BY <1>2, <1>6, <2>5, <2>6 DEF RecordComment
  <1>7. ASSUME NEW w \in Workers, Finish(w), FeedsAgree' PROVE LinkInv'
        BY <1>1, <1>7 DEF Finish, LinkInv, Linked
  <1>8. UNCHANGED <<events, comments>> => FeedsAgree'
        BY DEF LinkInv, FeedsAgree, Kind, Before, Ordering
  <1>9. ASSUME NEW w \in Workers, Commit(w) \/ Rollback(w) PROVE LinkInv'
    <2>1. Finish(w)
          BY <1>9 DEF Commit, Rollback
    <2>2. FeedsAgree'
          BY <1>8, <1>9, LinkCommit DEF Rollback
    <2> QED BY <1>7, <2>1, <2>2
  <1>10. CASE UNCHANGED <<events, comments, open>>
         BY <1>8, <1>10 DEF LinkInv, Linked
  <1>11. Tick \/ UNCHANGED writeVars \/ UNCHANGED feedVars
           => UNCHANGED <<events, comments, open>>
         BY DEF Tick, writeVars, feedVars
  <1> QED BY <1>3, <1>4, <1>5, <1>6, <1>9, <1>10, <1>11, ReadersOnlyRead DEF Next

(* Timeline and comments tell one story, for any workers: each comment is  *)
(* one entry of the timeline, in the same order.                           *)
THEOREM FeedsTellOneStory == Spec => []FeedsAgree
  <1>1. LinkInv => FeedsAgree
        BY DEF LinkInv
  <1>2. Spec => []LinkInv
        BY LinkInit, LinkStep, WritersInOrder, PTL DEF Spec
  <1> QED BY <1>1, <1>2, PTL

-----------------------------------------------------------------------------
(* Rows of one table: a primary key tells them apart.                      *)
Keyed(rows) == rows \in SUBSET Entries /\ \A a, b \in rows : a.id = b.id => a = b

(* The place of a row in its feed.                                         *)
Ahead(e, rows) == {a \in rows : Before(a, e)}

Rank(e, rows) == Cardinality(Ahead(e, rows)) + 1

LEMMA KeyedFinite ==
  ASSUME NEW rows, Keyed(rows)
  PROVE  /\ IsFiniteSet(rows)
         /\ Cardinality(rows) \in Nat /\ Cardinality(rows) <= MaxEntries
  <1> DEFINE f == [e \in rows |-> e.id]
  <1>1. f \in Injection(rows, 1 .. MaxEntries)
        BY DEF Keyed, Entries, Injection, IsInjective
  <1>2. IsFiniteSet(1 .. MaxEntries) /\ Cardinality(1 .. MaxEntries) = MaxEntries
        BY FeedAssumption, FS_Interval
  <1>3. IsFiniteSet(rows) /\ Cardinality(rows) <= MaxEntries
        BY <1>1, <1>2, FS_Injection
  <1> QED BY <1>3, FS_CardinalityType

LEMMA BeforeIsTotal ==
  ASSUME NEW rows, Keyed(rows)
  PROVE  /\ \A a, b \in rows : a = b \/ Before(a, b) \/ Before(b, a)
         /\ \A a, b \in rows : Before(a, b) => ~Before(b, a) /\ a # b
         /\ \A a, b, c \in rows : Before(a, b) /\ Before(b, c) => Before(a, c)
         /\ \A a, b \in rows : Before(a, b) => a.created_at <= b.created_at
         /\ \A a, b \in rows : a.created_at < b.created_at => Before(a, b)
  <1>1. \A e \in rows : e.id \in Nat /\ e.created_at \in Nat
        BY FeedAssumption DEF Keyed, Entries
  <1> QED BY <1>1 DEF Before, Ordering, Keyed

(* A row behind another has a higher rank.                                 *)
LEMMA RankMonotone ==
  ASSUME NEW rows, Keyed(rows), NEW a \in rows, NEW b \in rows
  PROVE  /\ Rank(a, rows) \in 1 .. Cardinality(rows)
         /\ Before(a, b) <=> Rank(a, rows) < Rank(b, rows)
         /\ a = b <=> Rank(a, rows) = Rank(b, rows)
  <1>1. IsFiniteSet(rows) /\ Cardinality(rows) \in Nat
        BY KeyedFinite
  <1>2. ASSUME NEW c \in rows, NEW d \in rows, Before(c, d)
        PROVE  Rank(c, rows) < Rank(d, rows)
    <2>1. Ahead(c, rows) \subseteq Ahead(d, rows) /\ c \in Ahead(d, rows)
          /\ c \notin Ahead(c, rows)
          BY <1>2, BeforeIsTotal DEF Ahead
    <2>2. IsFiniteSet(Ahead(d, rows))
          BY <1>1, FS_Subset DEF Ahead
    <2>3. /\ Cardinality(Ahead(c, rows)) <= Cardinality(Ahead(d, rows))
          /\ Cardinality(Ahead(c, rows)) # Cardinality(Ahead(d, rows))
          /\ IsFiniteSet(Ahead(c, rows))
          BY <2>1, <2>2, FS_Subset
    <2>4. Cardinality(Ahead(c, rows)) \in Nat /\ Cardinality(Ahead(d, rows)) \in Nat
          BY <2>2, <2>3, FS_CardinalityType
    <2> QED BY <2>3, <2>4 DEF Rank
  <1>3. ASSUME NEW e \in rows
        PROVE  Rank(e, rows) \in 1 .. Cardinality(rows)
    <2>1. Ahead(e, rows) \subseteq rows \ {e}
          BY BeforeIsTotal DEF Ahead
    <2>2. IsFiniteSet(rows \ {e}) /\ Cardinality(rows \ {e}) = Cardinality(rows) - 1
          BY <1>1, FS_RemoveElement
    <2>3. /\ IsFiniteSet(Ahead(e, rows))
          /\ Cardinality(Ahead(e, rows)) <= Cardinality(rows) - 1
          BY <2>1, <2>2, FS_Subset
    <2>4. Cardinality(Ahead(e, rows)) \in Nat
          BY <2>3, FS_CardinalityType
    <2> QED BY <1>1, <2>3, <2>4 DEF Rank
  <1>4. Rank(a, rows) \in Nat /\ Rank(b, rows) \in Nat
        BY <1>1, <1>3
  <1> QED BY <1>2, <1>3, <1>4, BeforeIsTotal

(* Every place up to the number of the rows is some row's.                 *)
LEMMA RankOnto ==
  ASSUME NEW rows, Keyed(rows), NEW i \in 1 .. Cardinality(rows)
  PROVE  \E e \in rows : Rank(e, rows) = i
  <1> DEFINE n == Cardinality(rows)
             f == [e \in rows |-> Rank(e, rows)]
  <1>1. n \in Nat
        BY KeyedFinite
  <1>2. f \in Injection(rows, 1 .. n)
        BY RankMonotone DEF Injection, IsInjective
  <1>3. IsFiniteSet(1 .. n) /\ Cardinality(1 .. n) = n
        BY <1>1, FS_Interval
  <1>4. f \in Surjection(rows, 1 .. n)
        BY <1>2, <1>3, FS_Injection
  <1> QED BY <1>4 DEF Surjection

(* The rows after a bookmark: whatever is in front of one of them in the   *)
(* feed and not among them is passed.                                      *)
Passed(cursor, rows) ==
  {e \in rows : cursor.position # None /\ e.created_at <= cursor.position}

Due(cursor, rows) ==
  {e \in rows : cursor.position = None \/ e.created_at > cursor.position}

LEMMA DueOrPassed ==
  ASSUME NEW rows, Keyed(rows), NEW cursor \in Cursors
  PROVE  /\ Due(cursor, rows) = rows \ Passed(cursor, rows)
         /\ Passed(cursor, rows) \in SUBSET rows
         /\ Keyed(Due(cursor, rows))
         /\ Cardinality(Passed(cursor, rows)) \in Nat
         /\ Cardinality(Due(cursor, rows)) \in Nat
         /\ Cardinality(Due(cursor, rows))
              = Cardinality(rows) - Cardinality(Passed(cursor, rows))
  <1> DEFINE due == Due(cursor, rows)  passed == Passed(cursor, rows)
  <1>1. IsFiniteSet(rows) /\ Cardinality(rows) \in Nat
        BY KeyedFinite
  <1>2. \A e \in rows : e.created_at \in Nat
        BY FeedAssumption DEF Keyed, Entries
  <1>3. cursor.position # None => cursor.position \in Nat
        BY FeedAssumption DEF Cursors
  <1>4. due = rows \ passed /\ passed \in SUBSET rows
        BY <1>2, <1>3 DEF Due, Passed
  <1>5. rows \cap passed = passed
        BY <1>4
  <1> HIDE DEF due, passed
  <1>6. IsFiniteSet(passed) /\ Cardinality(passed) \in Nat
        BY <1>1, <1>4, FS_Subset, FS_CardinalityType
  <1>7. /\ Cardinality(rows \ passed) = Cardinality(rows) - Cardinality(passed)
        /\ IsFiniteSet(rows \ passed)
        BY <1>1, <1>5, FS_Difference
  <1>8. Keyed(due)
        BY <1>4 DEF Keyed
  <1>9. Cardinality(due) \in Nat
        BY <1>8, KeyedFinite
  <1> QED BY <1>4, <1>6, <1>7, <1>8, <1>9 DEF due, passed

LEMMA DueFollow ==
  ASSUME NEW rows, Keyed(rows), NEW cursor \in Cursors, NEW e \in Due(cursor, rows)
  PROVE  Rank(e, rows)
           = Cardinality(Passed(cursor, rows)) + Rank(e, Due(cursor, rows))
  <1> DEFINE due == Due(cursor, rows)  passed == Passed(cursor, rows)
             all == Ahead(e, rows)
  <1>1. /\ due = rows \ passed /\ passed \in SUBSET rows /\ Keyed(due)
        /\ Cardinality(passed) \in Nat
        BY DueOrPassed
  <1>2. \A a \in passed : a.created_at < e.created_at
    <2>1. \A a \in rows : a.created_at \in Nat
          BY FeedAssumption DEF Keyed, Entries
    <2>2. cursor.position # None => cursor.position \in Nat
          BY FeedAssumption DEF Cursors
    <2> QED BY <2>1, <2>2 DEF Due, Passed
  <1>3. passed \subseteq all
        BY <1>1, <1>2, BeforeIsTotal DEF Ahead, Due
  <1>4. Ahead(e, due) = all \ passed /\ all \cap passed = passed
        BY <1>1, <1>3 DEF Ahead
  <1>5. IsFiniteSet(all)
        BY KeyedFinite, FS_Subset DEF Ahead
  <1> HIDE DEF due, passed, all
  <1>6. Cardinality(all \ passed) = Cardinality(all) - Cardinality(passed)
        BY <1>4, <1>5, FS_Difference
  <1>7. Cardinality(all) \in Nat
        BY <1>5, FS_CardinalityType
  <1>8. Rank(e, rows) = Cardinality(all) + 1
        BY DEF Rank, all
  <1>9. Rank(e, due) = Cardinality(all) - Cardinality(passed) + 1
        BY <1>4, <1>6 DEF Rank
  <1> QED BY <1>1, <1>7, <1>8, <1>9 DEF due, passed

(* Whatever a database may answer, it is the rows in the order of rank.    *)
LEMMA Ranked ==
  ASSUME NEW rows, Keyed(rows), NEW s \in Answers(rows)
  PROVE  /\ s \in [1 .. Cardinality(rows) -> rows]
         /\ s \in Seq(Entries) /\ Len(s) = Cardinality(rows)
         /\ \A i \in 1 .. Cardinality(rows) : Rank(s[i], rows) = i
  <1> DEFINE n == Cardinality(rows)
             InFront(a, b, older) == Before(a, b) \/ (~Before(b, a) /\ (a.id < b.id) = older)
             Place(e, older) == Cardinality({a \in rows \ {e} : InFront(a, e, older)}) + 1
  <1>1. PICK older \in BOOLEAN : s = [i \in 1 .. n |-> CHOOSE e \in rows : Place(e, older) = i]
        BY DEF Answers
  <1>2. ASSUME NEW e \in rows PROVE Place(e, older) = Rank(e, rows)
    <2>1. {a \in rows \ {e} : InFront(a, e, older)} = Ahead(e, rows)
          BY BeforeIsTotal DEF Ahead
    <2> QED BY <2>1 DEF Rank
  <1> HIDE DEF Place
  <1>3. ASSUME NEW i \in 1 .. n PROVE s[i] \in rows /\ Rank(s[i], rows) = i
    <2>1. \E e \in rows : Place(e, older) = i
          BY <1>2, RankOnto
    <2>2. s[i] = CHOOSE e \in rows : Place(e, older) = i
          BY <1>1
    <2>3. s[i] \in rows /\ Place(s[i], older) = i
          BY <2>1, <2>2
    <2> QED BY <1>2, <2>3
  <1>4. s \in [1 .. n -> rows]
        BY <1>1, <1>3
  <1>5. n \in Nat /\ rows \subseteq Entries
        BY KeyedFinite DEF Keyed
  <1>6. s \in Seq(Entries) /\ Len(s) = n
        BY <1>4, <1>5
  <1> QED BY <1>3, <1>4, <1>6


-----------------------------------------------------------------------------
LEMMA LeastOf ==
  ASSUME NEW S \in SUBSET Nat, S # {}
  PROVE  \E x \in S : \A y \in S : x <= y
  <1>1. PICK x \in S : \A y \in S : ~(<<y, x>> \in OpToRel(<, Nat))
        BY NatLessThanWellFounded, WFMin
  <1>2. \A y \in S : ~(y < x)
        BY <1>1 DEF OpToRel
  <1> QED BY <1>2

(* What was read is the beginning of the feed.                             *)
ReadInOrder(read, rows) ==
  \A i \in 1 .. Len(read) : read[i] \in rows /\ Rank(read[i], rows) = i

(* A bookmark after k entries: what is passed and what is to skip make k,  *)
(* and no row will be appended in front of it, as one is behind it.        *)
Bookmark(cursor, rows, k) ==
  /\ Cardinality(Passed(cursor, rows)) + cursor.offset = k
  /\ cursor.position # None => \E e \in rows : e.created_at > cursor.position

LEMMA ReadBound ==
  ASSUME NEW rows, Keyed(rows), NEW read \in Seq(Entries), ReadInOrder(read, rows)
  PROVE  Len(read) <= Cardinality(rows)
  <1>1. CASE Len(read) = 0
        BY <1>1, KeyedFinite
  <1>2. CASE Len(read) # 0
    <2>1. Len(read) \in 1 .. Len(read)
          BY <1>2
    <2> QED BY <2>1, RankMonotone, KeyedFinite DEF ReadInOrder
  <1> QED BY <1>1, <1>2

(* What is read in order is the beginning of any answer.                   *)
LEMMA ReadIsPrefix ==
  ASSUME NEW rows, Keyed(rows), NEW read \in Seq(Entries), ReadInOrder(read, rows),
         NEW s \in Answers(rows)
  PROVE  IsPrefixOf(read, s)
  <1>1. /\ s \in Seq(Entries) /\ Len(s) = Cardinality(rows)
        /\ \A i \in 1 .. Cardinality(rows) : s[i] \in rows /\ Rank(s[i], rows) = i
        BY Ranked
  <1>2. Len(read) <= Len(s)
        BY <1>1, ReadBound
  <1>3. \A i \in 1 .. Len(read) : i \in 1 .. Len(s) /\ s[i] = read[i]
    <2> TAKE i \in 1 .. Len(read)
    <2>1. i \in 1 .. Len(s)
          BY <1>1, <1>2
    <2> QED BY <1>1, <2>1, RankMonotone DEF ReadInOrder
  <1>4. SubSeq(s, 1, Len(read)) = read
    <2>1. SubSeq(s, 1, Len(read)) = [i \in 1 .. Len(read) |-> s[i]]
          BY <1>1, <1>2
    <2>2. read = [i \in 1 .. Len(read) |-> read[i]]
          OBVIOUS
    <2> QED BY <1>3, <2>1, <2>2
  <1> QED BY <1>2, <1>4 DEF IsPrefixOf

(* What a query returns goes on where the reader is.                       *)
LEMMA FetchedRanks ==
  ASSUME NEW rows, Keyed(rows), NEW cursor \in Cursors, NEW size \in Nat \ {0},
         NEW k \in Nat, k <= Cardinality(rows), Bookmark(cursor, rows, k),
         NEW fetched \in Fetched(cursor, size, rows)
  PROVE  /\ fetched \in Seq(Entries) /\ Len(fetched) <= size + 1
         /\ \A i \in 1 .. Len(fetched) : fetched[i] \in rows /\ Rank(fetched[i], rows) = k + i
         /\ Len(fetched) <= size => k + Len(fetched) = Cardinality(rows)
  <1> DEFINE due == Due(cursor, rows)
             m == Cardinality(Passed(cursor, rows))
             n == Cardinality(due)
             offset == cursor.offset
  <1>1. /\ Keyed(due) /\ m \in Nat /\ n \in Nat /\ n = Cardinality(rows) - m
        /\ Cardinality(rows) \in Nat
        BY DueOrPassed, KeyedFinite
  <1>2. m + offset = k /\ offset \in Nat
        BY FeedAssumption DEF Bookmark, Cursors
  <1>3. PICK s \in Answers(due) : fetched = Slice(s, offset, size + 1)
        BY DEF Fetched, Due
  <1>4. /\ s \in Seq(Entries) /\ Len(s) = n
        /\ \A i \in 1 .. n : s[i] \in due /\ Rank(s[i], due) = i
        BY <1>1, <1>3, Ranked
  <1>5. \A e \in due : e \in rows /\ Rank(e, rows) = m + Rank(e, due)
        BY DueFollow DEF Due
  <1> HIDE DEF m, n, offset, due
  <1> DEFINE left == n - offset
             len == IF left < size + 1 THEN left ELSE size + 1
  <1>6. left \in Nat /\ len \in Nat /\ len <= left
        BY <1>1, <1>2
  <1>7. fetched = [i \in 1 .. len |-> s[offset + i]]
        BY <1>3, <1>4 DEF Slice
  <1>8. \A i \in 1 .. len : offset + i \in 1 .. n
        BY <1>1, <1>2, <1>6
  <1>9. fetched \in Seq(Entries) /\ Len(fetched) = len
        BY <1>4, <1>6, <1>7, <1>8
  <1>10. ASSUME NEW i \in 1 .. len
         PROVE  fetched[i] \in rows /\ Rank(fetched[i], rows) = k + i
    <2>1. fetched[i] = s[offset + i] /\ offset + i \in 1 .. n
          BY <1>7, <1>8
    <2>2. fetched[i] \in due /\ Rank(fetched[i], due) = offset + i
          BY <1>4, <2>1
    <2> QED BY <1>1, <1>2, <1>5, <2>2
  <1>11. len <= size + 1 /\ (len <= size => k + len = Cardinality(rows))
    <2>1. CASE left < size + 1
          BY <1>1, <1>2, <1>6, <2>1
    <2>2. CASE ~(left < size + 1)
          BY <1>6, <2>2
    <2> QED BY <2>1, <2>2
  <1> HIDE DEF len, left
  <1> QED BY <1>9, <1>10, <1>11

(* The new bookmark is behind as many rows as were read.                   *)
LEMMA NextBookmark ==
  ASSUME NEW rows, Keyed(rows), NEW cursor \in Cursors, NEW size \in Nat \ {0},
         NEW k \in Nat, Bookmark(cursor, rows, k),
         NEW fetched \in Seq(Entries), Len(fetched) = size + 1,
         \A i \in 1 .. Len(fetched) : fetched[i] \in rows /\ Rank(fetched[i], rows) = k + i,
         NEW page \in Seq(Entries), Len(page) = size,
         \A i \in 1 .. size : page[i] = fetched[i]
  PROVE  LET next == NextCursor(cursor, size, page, fetched[size + 1])
         IN  next \in Cursors /\ Bookmark(next, rows, k + size)
  <1> DEFINE at(i) == IF i > Len(page) THEN fetched[size + 1].created_at
                      ELSE page[i].created_at
             ends == {i \in DOMAIN page : at(i) # at(i + 1)}
             last == CHOOSE i \in ends : \A j \in ends : j <= i
             next == NextCursor(cursor, size, page, fetched[size + 1])
  <1>0. \A i \in 1 .. size + 1 : at(i) = fetched[i].created_at
        OBVIOUS
  <1>1. ends = {i \in 1 .. size : fetched[i].created_at # fetched[i + 1].created_at}
    <2>1. DOMAIN page = 1 .. size
          OBVIOUS
    <2>2. \A i \in 1 .. size : i \in 1 .. size + 1 /\ i + 1 \in 1 .. size + 1
          OBVIOUS
    <2> HIDE DEF at
    <2> QED BY <1>0, <2>1, <2>2
  <1>2. next = IF ends # {}
               THEN [position |-> at(last), offset |-> Len(page) - last]
               ELSE [position |-> cursor.position, offset |-> cursor.offset + size]
        BY DEF NextCursor
  <1>3. \A e \in rows : e.created_at \in 0 .. MaxClock
        BY DEF Keyed, Entries
  <1>4. k + size + 1 <= Cardinality(rows) /\ Cardinality(rows) \in Nat
        /\ Cardinality(rows) <= MaxEntries
    <2>1. size + 1 \in 1 .. Len(fetched)
          OBVIOUS
    <2> QED BY <2>1, RankMonotone, KeyedFinite
  <1>5. CASE ends = {}
    <2>1. next = [position |-> cursor.position, offset |-> cursor.offset + size]
          BY <1>2, <1>5
    <2>2. Passed(next, rows) = Passed(cursor, rows)
          BY <2>1 DEF Passed
    <2>3. Cardinality(Passed(cursor, rows)) \in Nat
          BY DueOrPassed
    <2>4. cursor.offset \in Nat /\ Cardinality(Passed(cursor, rows)) + cursor.offset = k
          BY FeedAssumption DEF Cursors, Bookmark
    <2>5. cursor.offset + size \in 0 .. MaxEntries
          BY <1>4, <2>3, <2>4, FeedAssumption
    <2>6. next \in Cursors
          BY <2>1, <2>5 DEF Cursors
    <2>7. next.position = cursor.position /\ next.offset = cursor.offset + size
          BY <2>1
    <2> HIDE DEF next
    <2>8. Bookmark(next, rows, k + size)
      <3>1. Cardinality(Passed(next, rows)) + next.offset = k + size
        <4> DEFINE m == Cardinality(Passed(cursor, rows))  offset == cursor.offset
        <4>1. /\ Cardinality(Passed(next, rows)) = m /\ next.offset = offset + size
              /\ m \in Nat /\ offset \in Nat /\ m + offset = k
              BY <2>2, <2>3, <2>4, <2>7
        <4> HIDE DEF m, offset
        <4> QED BY <4>1
      <3>2. next.position # None => \E e \in rows : e.created_at > next.position
            BY <2>7 DEF Bookmark
      <3> QED BY <3>1, <3>2 DEF Bookmark
    <2> QED BY <2>6, <2>8 DEF next
  <1>6. CASE ends # {}
    <2>1. last \in ends
      <3>0. ends \subseteq 1 .. size
            BY <1>1
      <3> HIDE DEF ends
      <3> DEFINE D == {size - i : i \in ends}
      <3>1. D \in SUBSET Nat /\ D # {}
        <4>1. \A i \in ends : size - i \in Nat
              BY <3>0
        <4> QED BY <1>6, <4>1
      <3>2. PICK d \in D : \A x \in D : d <= x
        <4> HIDE DEF D
        <4> QED BY <3>1, LeastOf
      <3>3. PICK i \in ends : d = size - i
            BY <3>2
      <3>4. \A l \in ends : l <= i
        <4> TAKE l \in ends
        <4>1. size - l \in D
              OBVIOUS
        <4>2. l \in Nat /\ i \in Nat
              BY <3>0
        <4>3. size - i <= size - l
              BY <3>2, <3>3, <4>1
        <4> QED BY <4>2, <4>3
      <3> QED BY <3>4
    <2> HIDE DEF last, ends
    <2>2. last \in 1 .. size /\ fetched[last].created_at # fetched[last + 1].created_at
          BY <1>1, <2>1
    <2> DEFINE f == fetched[last]  g == fetched[last + 1]  p == f.created_at
    <2>3. /\ f \in rows /\ g \in rows
          /\ Rank(f, rows) = k + last /\ Rank(g, rows) = k + last + 1
          BY <2>2
    <2>4. at(last) = p
          BY <1>0, <2>2
    <2>5. next = [position |-> p, offset |-> size - last]
          BY <1>2, <1>6, <2>4
    <2> HIDE DEF f, g, at, next
    <2>6. Before(f, g) /\ p < g.created_at
      <3>1. Before(f, g)
            BY <2>2, <2>3, RankMonotone
      <3>2. f.created_at # g.created_at
            BY <2>2 DEF f, g
      <3> QED BY <1>3, <2>3, <3>1, <3>2, BeforeIsTotal
    <2>7. next \in Cursors
      <3>1. p \in 0 .. MaxClock
            BY <1>3, <2>3
      <3>2. size - last \in 0 .. MaxEntries
            BY <1>4, <2>2, FeedAssumption
      <3> QED BY <2>5, <3>1, <3>2 DEF Cursors
    <2>8. p \in Nat /\ p # None /\ p \in 0 .. MaxClock
          BY <1>3, <2>3, FeedAssumption
    <2>9. Passed(next, rows) = {e \in rows : e.created_at <= p}
          BY <2>5, <2>8 DEF Passed
    <2>10. {e \in rows : e.created_at <= p} = Ahead(f, rows) \cup {f}
      <3>1. ASSUME NEW e \in rows, e.created_at <= p PROVE e = f \/ Before(e, f)
        <4> SUFFICES ASSUME e # f, ~Before(e, f) PROVE FALSE
            OBVIOUS
        <4>1. Before(f, e)
              BY <2>3, BeforeIsTotal
        <4>2. Rank(f, rows) < Rank(e, rows) /\ Rank(e, rows) \in Nat
              BY <1>4, <2>3, <4>1, RankMonotone
        <4>3. ~(Rank(e, rows) < Rank(g, rows))
              BY <2>2, <2>3, <4>2
        <4>4. e = g \/ Before(g, e)
              BY <2>3, <4>3, RankMonotone, BeforeIsTotal
        <4>5. g.created_at <= e.created_at
              BY <1>3, <2>3, <4>4, BeforeIsTotal
        <4> QED BY <1>3, <2>3, <2>6, <2>8, <3>1, <4>5
      <3>2. ASSUME NEW e \in rows, e = f \/ Before(e, f) PROVE e.created_at <= p
            BY <1>3, <2>3, <3>2, BeforeIsTotal
      <3> QED BY <2>3, <3>1, <3>2 DEF Ahead
    <2>11. Cardinality(Ahead(f, rows) \cup {f}) = k + last
      <3>1. f \notin Ahead(f, rows)
            BY <2>3, BeforeIsTotal DEF Ahead
      <3>2. IsFiniteSet(Ahead(f, rows))
            BY KeyedFinite, FS_Subset DEF Ahead
      <3>3. Cardinality(Ahead(f, rows) \cup {f}) = Cardinality(Ahead(f, rows)) + 1
            BY <3>1, <3>2, FS_AddElement
      <3> QED BY <2>3, <3>3 DEF Rank
    <2>12. next.position = p /\ next.offset = size - last
          BY <2>5
    <2>13. Cardinality(Passed(next, rows)) + next.offset = k + size
      <3>1. Cardinality(Passed(next, rows)) = k + last
            BY <2>9, <2>10, <2>11
      <3> QED BY <2>2, <2>12, <3>1
    <2>14. Bookmark(next, rows, k + size)
          BY <2>3, <2>6, <2>12, <2>13, <2>8, <1>3 DEF Bookmark
    <2> QED BY <2>7, <2>14 DEF next
  <1> QED BY <1>5, <1>6


(* One page more, and the bookmark behind it.                              *)
LEMMA PageRead ==
  ASSUME NEW rows, Keyed(rows), NEW cursor \in Cursors, NEW size \in Nat \ {0},
         NEW read \in Seq(Entries), ReadInOrder(read, rows),
         Bookmark(cursor, rows, Len(read)),
         NEW fetched \in Fetched(cursor, size, rows)
  PROVE  LET more == Len(fetched) > size
             page == IF more THEN SubSeq(fetched, 1, size) ELSE fetched
             next == NextCursor(cursor, size, page, fetched[size + 1])
         IN  /\ read \o page \in Seq(Entries) /\ ReadInOrder(read \o page, rows)
             /\ more => next \in Cursors /\ Bookmark(next, rows, Len(read \o page))
             /\ ~more => Len(read \o page) = Cardinality(rows)
  <1> DEFINE k == Len(read)
             more == Len(fetched) > size
             page == IF more THEN SubSeq(fetched, 1, size) ELSE fetched
             next == NextCursor(cursor, size, page, fetched[size + 1])
  <1>1. k \in Nat /\ k <= Cardinality(rows) /\ Bookmark(cursor, rows, k)
        BY ReadBound
  <1>2. /\ fetched \in Seq(Entries) /\ Len(fetched) <= size + 1
        /\ \A i \in 1 .. Len(fetched) : fetched[i] \in rows /\ Rank(fetched[i], rows) = k + i
        /\ Len(fetched) <= size => k + Len(fetched) = Cardinality(rows)
    <2> HIDE DEF k
    <2> QED BY <1>1, FetchedRanks
  <1>3. /\ page \in Seq(Entries) /\ Len(page) <= Len(fetched)
        /\ \A i \in 1 .. Len(page) : page[i] = fetched[i]
        /\ more => Len(page) = size /\ Len(fetched) = size + 1
        /\ ~more => Len(page) = Len(fetched) /\ Len(fetched) <= size
    <2>1. CASE more
      <3>1. Len(fetched) = size + 1
            BY <1>2, <2>1
      <3>2. page = SubSeq(fetched, 1, size)
            BY <2>1
      <3> HIDE DEF page
      <3> QED BY <1>2, <2>1, <3>1, <3>2
    <2>2. CASE ~more
      <3>1. page = fetched
            BY <2>2
      <3> HIDE DEF page
      <3> QED BY <1>2, <2>2, <3>1
    <2> QED BY <2>1, <2>2
  <1> HIDE DEF page
  <1>4. /\ read \o page \in Seq(Entries) /\ Len(read \o page) = k + Len(page)
        /\ \A i \in 1 .. k : (read \o page)[i] = read[i]
        /\ \A i \in 1 .. Len(page) : (read \o page)[k + i] = page[i]
        BY <1>3
  <1>5. ReadInOrder(read \o page, rows)
    <2> SUFFICES ASSUME NEW i \in 1 .. k + Len(page)
                 PROVE  (read \o page)[i] \in rows /\ Rank((read \o page)[i], rows) = i
        BY <1>4 DEF ReadInOrder
    <2>1. CASE i \in 1 .. k
          BY <1>4, <2>1 DEF ReadInOrder
    <2>2. CASE i \notin 1 .. k
      <3>1. PICK l \in 1 .. Len(page) : i = k + l
        <4>1. i - k \in 1 .. Len(page) /\ i = k + (i - k)
              BY <1>1, <1>3, <2>2
        <4> QED BY <4>1
      <3>2. l \in 1 .. Len(fetched) /\ page[l] = fetched[l]
            BY <1>2, <1>3
      <3> QED BY <1>2, <1>4, <3>1, <3>2
    <2> QED BY <2>1, <2>2
  <1>6. more => next \in Cursors /\ Bookmark(next, rows, k + size)
    <2> SUFFICES ASSUME more PROVE next \in Cursors /\ Bookmark(next, rows, k + size)
        OBVIOUS
    <2>1. Len(fetched) = size + 1 /\ Len(page) = size
          /\ \A i \in 1 .. size : page[i] = fetched[i]
          BY <1>3
    <2> HIDE DEF k
    <2> QED BY <1>1, <1>2, <1>3, <2>1, NextBookmark
  <1>7. ~more => k + Len(page) = Cardinality(rows)
        BY <1>2, <1>3
  <1> HIDE DEF next, more, k
  <1>8. /\ read \o page \in Seq(Entries) /\ ReadInOrder(read \o page, rows)
        /\ more => next \in Cursors /\ Bookmark(next, rows, Len(read \o page))
        /\ ~more => Len(read \o page) = Cardinality(rows)
        BY <1>3, <1>4, <1>5, <1>6, <1>7
  <1> QED BY <1>8 DEF next, more, page

(* What is appended behind everything leaves the ranks and the bookmarks   *)
(* as they are.                                                            *)
LEMMA AppendKeeps ==
  ASSUME NEW rows, NEW added, Keyed(rows \cup added), Keyed(rows),
         \A old \in rows : \A new \in added :
           old.id < new.id /\ old.created_at <= new.created_at
  PROVE  /\ \A read \in Seq(Entries) :
              ReadInOrder(read, rows) => ReadInOrder(read, rows \cup added)
         /\ \A cursor \in Cursors, k \in Nat :
              Bookmark(cursor, rows, k) => Bookmark(cursor, rows \cup added, k)
  <1>1. rows \subseteq Entries /\ added \subseteq Entries
        BY DEF Keyed
  <1>2. \A old \in rows : \A new \in added : ~Before(new, old)
        BY <1>1, BehindIsBefore
  <1>3. \A e \in rows : Rank(e, rows \cup added) = Rank(e, rows)
    <2> TAKE e \in rows
    <2>1. Ahead(e, rows \cup added) = Ahead(e, rows)
          BY <1>2 DEF Ahead
    <2> QED BY <2>1 DEF Rank
  <1>4. ASSUME NEW read \in Seq(Entries), ReadInOrder(read, rows)
        PROVE  ReadInOrder(read, rows \cup added)
        BY <1>3, <1>4 DEF ReadInOrder
  <1>5. ASSUME NEW cursor \in Cursors, NEW k \in Nat, Bookmark(cursor, rows, k)
        PROVE  Bookmark(cursor, rows \cup added, k)
    <2>1. \A e \in Entries : e.created_at \in Nat
          BY FeedAssumption DEF Entries
    <2>2. cursor.position # None => cursor.position \in Nat
          BY FeedAssumption DEF Cursors
    <2>3. cursor.position # None => \A new \in added : new.created_at > cursor.position
      <3> SUFFICES ASSUME cursor.position # None, NEW new \in added
                   PROVE  new.created_at > cursor.position
          OBVIOUS
      <3>1. PICK e \in rows : e.created_at > cursor.position
            BY <1>5 DEF Bookmark
      <3>2. e.created_at <= new.created_at
            OBVIOUS
      <3> QED BY <1>1, <2>1, <2>2, <3>1, <3>2
    <2>4. Passed(cursor, rows \cup added) = Passed(cursor, rows)
          BY <1>1, <2>1, <2>2, <2>3 DEF Passed
    <2> QED BY <1>5, <2>4 DEF Bookmark
  <1> QED BY <1>4, <1>5

-----------------------------------------------------------------------------
(* No two rows have one key.                                               *)
KeyInv ==
  /\ Keyed(events) /\ Keyed(comments)
  /\ \A w \in Workers : open[w] # None => Keyed(open[w].events) /\ Keyed(open[w].comments)

LEMMA KeyInit == Init => KeyInv
  <1> SUFFICES ASSUME Init PROVE KeyInv
      OBVIOUS
  <1>1. PICK n \in {1, 2} : events = {Entry(i, 0, 0) : i \in 1 .. n}
        BY DEF Init
  <1>2. \A i \in 1 .. n : Entry(i, 0, 0) \in Entries /\ Entry(i, 0, 0).id = i
        BY <1>1, FeedAssumption DEF Entry, Entries
  <1>3. Keyed(events)
        BY <1>1, <1>2 DEF Keyed
  <1>4. Keyed(comments) /\ \A w \in Workers : open[w] = None
        BY DEF Init, Keyed
  <1> QED BY <1>3, <1>4 DEF KeyInv

LEMMA KeyStep == WriteInv /\ KeyInv /\ [Next]_feedVars => KeyInv'
  <1> SUFFICES ASSUME WriteInv, KeyInv, [Next]_feedVars PROVE KeyInv'
      OBVIOUS
  <1>1. open \in [Workers -> Transactions \cup {None}]
        BY DEF WriteInv, TablesOK
  <1>2. ASSUME NEW w \in Workers, NEW t, Keyed(t.events), Keyed(t.comments),
               open' = [open EXCEPT ![w] = t], UNCHANGED <<events, comments>>
        PROVE  KeyInv'
        BY <1>1, <1>2 DEF KeyInv
  <1>3. ASSUME NEW w \in Workers, Begin(w) PROVE KeyInv'
    <2>1. Keyed(NoTransaction.events) /\ Keyed(NoTransaction.comments)
          BY DEF Keyed, NoTransaction
    <2> QED BY <1>2, <1>3, <2>1 DEF Begin
  <1>4. ASSUME NEW w \in Workers, open[w] # None, nextId <= MaxEntries, NEW c \in 0 .. MaxEntries
        PROVE  /\ Keyed({Entry(nextId, clock, c)})
               /\ Keyed(open[w].events \cup {Entry(nextId, clock, c)})
    <2> DEFINE new == Entry(nextId, clock, c)
    <2>1. new \in Entries /\ new.id = nextId
          BY <1>4, EntryOK DEF WriteInv
    <2>2. \A e \in open[w].events : e.id < nextId /\ e.id \in Nat
      <3>1. open[w].events \subseteq Entries
            BY <1>4 DEF KeyInv, Keyed
      <3> QED BY <1>4, <3>1, FeedAssumption DEF WriteInv, Entries
    <2>3. nextId \in Nat
          BY DEF WriteInv, TablesOK
    <2>4. Keyed(open[w].events)
          BY <1>4 DEF KeyInv
    <2> HIDE DEF new
    <2>5. Keyed({new}) /\ Keyed(open[w].events \cup {new})
          BY <2>1, <2>2, <2>3, <2>4 DEF Keyed
    <2> QED BY <2>5 DEF new
  <1>5. ASSUME NEW w \in Workers, Record(w) PROVE KeyInv'
    <2> DEFINE new == Entry(nextId, clock, 0)
               t == [events |-> open[w].events \cup {new}, comments |-> open[w].comments]
    <2>1. Keyed(open[w].events \cup {new}) /\ Keyed(open[w].comments) /\ open[w] \in Transactions
      <3>1. 0 \in 0 .. MaxEntries
            BY FeedAssumption
      <3> QED BY <1>1, <1>4, <1>5, <3>1 DEF Record, KeyInv
    <2> HIDE DEF new
    <2>2. open' = [open EXCEPT ![w] = t]
      <3>1. open' = [open EXCEPT ![w] = [open[w] EXCEPT !.events = @ \cup {new}]]
            BY <1>5 DEF Record, new
      <3> QED BY <2>1, <3>1, Replaced
    <2>3. Keyed(t.events) /\ Keyed(t.comments)
          BY <2>1
    <2> HIDE DEF t
    <2> QED BY <1>2, <1>5, <2>1, <2>2, <2>3 DEF Record
  <1>6. ASSUME NEW w \in Workers, InsertComment(w) PROVE KeyInv'
    <2> DEFINE new == Entry(nextId, clock, 0)
               t == [events |-> open[w].events, comments |-> {new}]
    <2>1. Keyed(open[w].events) /\ Keyed({new}) /\ open[w] \in Transactions
      <3>1. nextId <= MaxEntries /\ 0 \in 0 .. MaxEntries
            BY <1>6, FeedAssumption DEF InsertComment, WriteInv, TablesOK
      <3> QED BY <1>1, <1>4, <1>6, <3>1 DEF InsertComment, KeyInv
    <2> HIDE DEF new
    <2>2. open' = [open EXCEPT ![w] = t]
      <3>1. open' = [open EXCEPT ![w] = [open[w] EXCEPT !.comments = {new}]]
            BY <1>6 DEF InsertComment, new
      <3> QED BY <2>1, <3>1, Replaced
    <2>3. Keyed(t.events) /\ Keyed(t.comments)
          BY <2>1
    <2> HIDE DEF t
    <2> QED BY <1>2, <1>6, <2>1, <2>2, <2>3 DEF InsertComment
  <1>7. ASSUME NEW w \in Workers, RecordComment(w) PROVE KeyInv'
    <2>1. PICK c \in open[w].comments :
            open' = [open EXCEPT ![w].events = {Entry(nextId, clock, c.id)}]
          BY <1>7 DEF RecordComment
    <2> DEFINE new == Entry(nextId, clock, c.id)
               t == [events |-> {new}, comments |-> open[w].comments]
    <2>2. Keyed({new}) /\ Keyed(open[w].comments) /\ open[w] \in Transactions
      <3>1. c.id \in 0 .. MaxEntries
        <4>1. c \in Entries
              BY <1>7 DEF RecordComment, KeyInv, Keyed
        <4> QED BY <4>1, FeedAssumption DEF Entries
      <3> QED BY <1>1, <1>4, <1>7, <3>1 DEF RecordComment, KeyInv
    <2> HIDE DEF new
    <2>3. open' = [open EXCEPT ![w] = t]
      <3>1. open' = [open EXCEPT ![w] = [open[w] EXCEPT !.events = {new}]]
            BY <2>1 DEF new
      <3> QED BY <2>2, <3>1, Replaced
    <2>4. Keyed(t.events) /\ Keyed(t.comments)
          BY <2>2
    <2> HIDE DEF t
    <2> QED BY <1>2, <1>7, <2>2, <2>3, <2>4 DEF RecordComment
  <1>8. ASSUME NEW w \in Workers, Commit(w) PROVE KeyInv'
    <2>1. /\ open[w] # None
          /\ events' = events \cup open[w].events
          /\ comments' = comments \cup open[w].comments
          /\ open' = [open EXCEPT ![w] = None]
          BY <1>8 DEF Commit, Finish
    <2>2. /\ Keyed(events) /\ Keyed(comments)
          /\ Keyed(open[w].events) /\ Keyed(open[w].comments)
          BY <2>1 DEF KeyInv
    <2>3. \A old \in events \cup comments : \A new \in open[w].events \cup open[w].comments :
            old.id < new.id
          BY <2>1 DEF WriteInv
    <2>4. \A e \in Entries : e.id \in Nat
          BY FeedAssumption DEF Entries
    <2>5. Keyed(events') /\ Keyed(comments')
          BY <2>1, <2>2, <2>3, <2>4 DEF Keyed
    <2> QED BY <1>1, <2>1, <2>5 DEF KeyInv
  <1>9. ASSUME NEW w \in Workers, Rollback(w) PROVE KeyInv'
        BY <1>1, <1>9 DEF Rollback, Finish, KeyInv
  <1>10. CASE UNCHANGED <<events, comments, open>>
         BY <1>10 DEF KeyInv
  <1>11. Tick \/ UNCHANGED writeVars \/ UNCHANGED feedVars
           => UNCHANGED <<events, comments, open>>
         BY DEF Tick, writeVars, feedVars
  <1> QED BY <1>3, <1>5, <1>6, <1>7, <1>8, <1>9, <1>10, <1>11, ReadersOnlyRead DEF Next


LEMMA KeysUnique == Spec => []KeyInv
  <1> QED BY KeyInit, KeyStep, WritersInOrder, PTL DEF Spec

-----------------------------------------------------------------------------
(* A reader has read the beginning of its feed, and its bookmark is right  *)
(* behind it.                                                              *)
Walks == [feed: {"timeline", "comments"}, size: Nat \ {0},
          next: Cursors \cup {None}, read: Seq(Entries)]

InStep(v) ==
  /\ ReadInOrder(v.read, Rows(v.feed))
  /\ v.next # None => Bookmark(v.next, Rows(v.feed), Len(v.read))

ReadInv ==
  /\ walk \in [Readers -> Walks]
  /\ \A r \in Readers : InStep(walk[r])

LEMMA ReadInit == Init => ReadInv
  <1> SUFFICES ASSUME Init PROVE ReadInv
      OBVIOUS
  <1> DEFINE v == [feed |-> "timeline", size |-> 1, next |-> None, read |-> <<>>]
  <1>1. v \in Walks /\ v.next = None /\ Len(v.read) = 0 /\ v.feed = "timeline"
        BY DEF Walks
  <1>2. walk = [r \in Readers |-> v]
        BY DEF Init
  <1> HIDE DEF v
  <1> QED BY <1>1, <1>2 DEF ReadInv, InStep, ReadInOrder

LEMMA KeyedRows ==
  ASSUME KeyInv, NEW feed
  PROVE  Keyed(Rows(feed))
  BY DEF KeyInv, Rows

(* A page leaves its reader in step, and a last page at the end.           *)
LEMMA TurnStep ==
  ASSUME KeyInv, ReadInv, NEW r \in Readers,
         NEW feed \in {"timeline", "comments"}, NEW size \in Nat \ {0},
         NEW cursor \in Cursors, NEW read \in Seq(Entries),
         ReadInOrder(read, Rows(feed)), Bookmark(cursor, Rows(feed), Len(read)),
         Turn(r, feed, size, cursor, read), UNCHANGED <<events, comments>>
  PROVE  /\ ReadInv'
         /\ \A q \in Readers \ {r} : walk'[q] = walk[q]
         /\ walk'[r].next = None =>
              Len(walk'[r].read) = Cardinality(Rows(walk'[r].feed))
  <1> DEFINE rows == Rows(feed)
  <1>1. PICK fetched \in Fetched(cursor, size, rows) :
          LET more == Len(fetched) > size
              page == IF more THEN SubSeq(fetched, 1, size) ELSE fetched
          IN  walk' = [walk EXCEPT ![r] =
                [feed |-> feed, size |-> size, read |-> read \o page,
                 next |-> IF more THEN NextCursor(cursor, size, page, fetched[size + 1])
                          ELSE None]]
        BY DEF Turn
  <1> DEFINE more == Len(fetched) > size
             page == IF more THEN SubSeq(fetched, 1, size) ELSE fetched
             next == NextCursor(cursor, size, page, fetched[size + 1])
             v == [feed |-> feed, size |-> size, read |-> read \o page,
                   next |-> IF more THEN next ELSE None]
  <1>2. walk' = [walk EXCEPT ![r] = v]
        BY <1>1
  <1>3. Keyed(rows)
        BY KeyedRows
  <1>4. /\ read \o page \in Seq(Entries) /\ ReadInOrder(read \o page, rows)
        /\ more => next \in Cursors /\ Bookmark(next, rows, Len(read \o page))
        /\ ~more => Len(read \o page) = Cardinality(rows)
    <2> HIDE DEF rows
    <2> QED BY <1>3, PageRead DEF rows
  <1> HIDE DEF more, page, next
  <1>5. /\ v.feed = feed /\ v.read = read \o page
        /\ v.next = IF more THEN next ELSE None
        /\ v \in Walks
        BY <1>4 DEF Walks
  <1>6. None \notin Cursors
        BY FeedAssumption
  <1> HIDE DEF v, rows
  <1>7. InStep(v)
        BY <1>4, <1>5, <1>6 DEF InStep, rows
  <1>8. \A f : Rows(f)' = Rows(f)
        BY DEF Rows
  <1>9. walk \in [Readers -> Walks] /\ \A q \in Readers : InStep(walk[q])
        BY DEF ReadInv
  <1>10. walk' \in [Readers -> Walks] /\ walk'[r] = v
         /\ \A q \in Readers \ {r} : walk'[q] = walk[q]
         BY <1>2, <1>5, <1>9
  <1>11. \A q \in Readers : InStep(walk'[q])
         BY <1>7, <1>9, <1>10
  <1>12. \A q \in Readers : InStep(walk[q])'
         BY <1>8, <1>11 DEF InStep
  <1>13. v.next = None => Len(v.read) = Cardinality(rows)
         BY <1>4, <1>5, <1>6
  <1> QED BY <1>5, <1>8, <1>10, <1>12, <1>13 DEF ReadInv, rows

(* A client opens a feed at its beginning, or goes on where it was.        *)
LEMMA ReaderStep ==
  ASSUME KeyInv, ReadInv, NEW r \in Readers, OpenFeed(r) \/ FollowNext(r)
  PROVE  /\ ReadInv'
         /\ \A q \in Readers \ {r} : walk'[q] = walk[q]
         /\ walk'[r].next = None =>
              Len(walk'[r].read) = Cardinality(Rows(walk'[r].feed))
  <1>1. UNCHANGED <<events, comments>>
        BY DEF OpenFeed, FollowNext
  <1>2. CASE OpenFeed(r)
    <2>1. PICK feed \in {"timeline", "comments"}, size \in PageSizes :
            Turn(r, feed, size, FirstPage, <<>>)
          BY <1>2 DEF OpenFeed
    <2>2. size \in Nat \ {0}
          BY FeedAssumption
    <2>3. FirstPage \in Cursors /\ FirstPage.position = None /\ FirstPage.offset = 0
          BY FeedAssumption DEF FirstPage, Cursors
    <2>4. <<>> \in Seq(Entries) /\ Len(<<>>) = 0 /\ ReadInOrder(<<>>, Rows(feed))
          BY DEF ReadInOrder
    <2>5. Passed(FirstPage, Rows(feed)) = {}
          BY <2>3 DEF Passed
    <2>6. Cardinality(Passed(FirstPage, Rows(feed))) = 0
          BY <2>5, FS_EmptySet
    <2>7. Bookmark(FirstPage, Rows(feed), Len(<<>>))
          BY <2>3, <2>4, <2>6 DEF Bookmark
    <2> QED BY <1>1, <2>1, <2>2, <2>3, <2>4, <2>7, TurnStep
  <1>3. CASE FollowNext(r)
    <2>1. walk[r] \in Walks /\ InStep(walk[r]) /\ walk[r].next # None
          BY <1>3 DEF ReadInv, FollowNext
    <2>2. /\ walk[r].feed \in {"timeline", "comments"} /\ walk[r].size \in Nat \ {0}
          /\ walk[r].next \in Cursors /\ walk[r].read \in Seq(Entries)
          BY <2>1 DEF Walks
    <2>3. /\ ReadInOrder(walk[r].read, Rows(walk[r].feed))
          /\ Bookmark(walk[r].next, Rows(walk[r].feed), Len(walk[r].read))
          BY <2>1 DEF InStep
    <2>4. Turn(r, walk[r].feed, walk[r].size, walk[r].next, walk[r].read)
          BY <1>3 DEF FollowNext
    <2> QED BY <1>1, <2>2, <2>3, <2>4, TurnStep
  <1> QED BY <1>2, <1>3

(* What a transaction commits moves nobody.                                *)
LEMMA CommitReadStep ==
  ASSUME WriteInv, KeyInv, KeyInv', ReadInv, NEW w \in Workers, Commit(w)
  PROVE  ReadInv'
  <1>1. /\ open[w] # None /\ UNCHANGED walk
        /\ events' = events \cup open[w].events
        /\ comments' = comments \cup open[w].comments
        BY DEF Commit
  <1>2. /\ Keyed(events) /\ Keyed(comments)
        /\ Keyed(events \cup open[w].events) /\ Keyed(comments \cup open[w].comments)
        BY <1>1 DEF KeyInv
  <1>3. \A old \in events \cup comments : \A new \in open[w].events \cup open[w].comments :
          old.id < new.id /\ old.created_at <= new.created_at
        BY <1>1 DEF WriteInv
  <1>4. /\ \A read \in Seq(Entries) :
             /\ ReadInOrder(read, events) => ReadInOrder(read, events')
             /\ ReadInOrder(read, comments) => ReadInOrder(read, comments')
        /\ \A cursor \in Cursors, k \in Nat :
             /\ Bookmark(cursor, events, k) => Bookmark(cursor, events', k)
             /\ Bookmark(cursor, comments, k) => Bookmark(cursor, comments', k)
    <2>1. /\ \A read \in Seq(Entries) :
               ReadInOrder(read, events) => ReadInOrder(read, events \cup open[w].events)
          /\ \A cursor \in Cursors, k \in Nat :
               Bookmark(cursor, events, k) => Bookmark(cursor, events \cup open[w].events, k)
          BY <1>2, <1>3, AppendKeeps
    <2>2. /\ \A read \in Seq(Entries) :
               ReadInOrder(read, comments)
                 => ReadInOrder(read, comments \cup open[w].comments)
          /\ \A cursor \in Cursors, k \in Nat :
               Bookmark(cursor, comments, k)
                 => Bookmark(cursor, comments \cup open[w].comments, k)
          BY <1>2, <1>3, AppendKeeps
    <2> QED BY <1>1, <2>1, <2>2
  <1>5. ASSUME NEW r \in Readers PROVE InStep(walk[r])'
    <2>1. /\ walk[r] \in Walks /\ InStep(walk[r])
          BY DEF ReadInv
    <2>2. /\ walk[r].next \in Cursors \cup {None} /\ walk[r].read \in Seq(Entries)
          /\ Len(walk[r].read) \in Nat
          BY <2>1 DEF Walks
    <2>3. CASE walk[r].feed = "timeline"
          BY <1>1, <1>4, <2>1, <2>2, <2>3 DEF InStep, Rows
    <2>4. CASE walk[r].feed # "timeline"
          BY <1>1, <1>4, <2>1, <2>2, <2>4 DEF InStep, Rows
    <2> QED BY <2>3, <2>4
  <1> QED BY <1>1, <1>5 DEF ReadInv

LEMMA ReadStep ==
  WriteInv /\ KeyInv /\ KeyInv' /\ ReadInv /\ [Next]_feedVars => ReadInv'
  <1> SUFFICES ASSUME WriteInv, KeyInv, KeyInv', ReadInv, [Next]_feedVars PROVE ReadInv'
      OBVIOUS
  <1>1. ASSUME UNCHANGED <<events, comments, walk>> PROVE ReadInv'
        BY <1>1 DEF ReadInv, InStep, Rows
  <1>2. ASSUME NEW w \in Workers,
               \/ Begin(w) \/ Record(w) \/ InsertComment(w)
               \/ RecordComment(w) \/ Rollback(w)
        PROVE  ReadInv'
        BY <1>1, <1>2 DEF Begin, Record, InsertComment, RecordComment, Rollback
  <1>3. Tick \/ UNCHANGED feedVars => ReadInv'
        BY <1>1 DEF Tick, feedVars
  <1> QED BY <1>2, <1>3, CommitReadStep, ReaderStep DEF Next

LEMMA ReadersInStep == Spec => []ReadInv
  <1> QED BY ReadInit, ReadStep, WritersInOrder, KeysUnique, PTL DEF Spec

(* The types of the tables, the cursors and the pages, and the discipline  *)
(* of the writers, for any workers, readers and page sizes.                *)
THEOREM FeedInvariance == Spec => []FeedInv
  <1>1. WriteInv /\ ReadInv => FeedInv
        BY DEF FeedInv, TypeOK, WriteInv, ReadInv, Walks
  <1> QED BY <1>1, WritersInOrder, ReadersInStep, PTL

(* What a client has read is the beginning of the feed as it is now.       *)
THEOREM NothingSkippedOrRepeated == Spec => []PagesAreThePrefix
  <1>1. KeyInv /\ ReadInv => PagesAreThePrefix
    <2> SUFFICES ASSUME KeyInv, ReadInv, NEW r \in Readers
                 PROVE  \E s \in Answers(Rows(walk[r].feed)) : IsPrefixOf(walk[r].read, s)
        BY DEF PagesAreThePrefix
    <2> DEFINE rows == Rows(walk[r].feed)
    <2>1. Keyed(rows)
          BY KeyedRows
    <2>2. walk[r].read \in Seq(Entries) /\ ReadInOrder(walk[r].read, rows)
          BY DEF ReadInv, Walks, InStep
    <2>3. PICK s \in Answers(rows) : TRUE
      <3> HIDE DEF rows
      <3>1. Answers(rows) # {}
            BY DEF Answers
      <3> QED BY <3>1
    <2>4. IsPrefixOf(walk[r].read, s)
          BY <2>1, <2>2, ReadIsPrefix
    <2> QED BY <2>4
  <1> QED BY <1>1, KeysUnique, ReadersInStep, PTL

(* A client that is given no next link has read the whole feed.            *)
THEOREM TheEndIsTheEnd == Spec => LastPageIsTheEnd
  <1> DEFINE Ends ==
        \A r \in Readers :
          walk'[r] # walk[r] /\ walk'[r].next = None
            => Len(walk'[r].read) = Cardinality(Rows(walk'[r].feed))
  <1>1. ASSUME WriteInv, KeyInv, ReadInv, Next PROVE Ends
    <2>1. ASSUME NEW r \in Readers, walk'[r] # walk[r], walk'[r].next = None
          PROVE  Len(walk'[r].read) = Cardinality(Rows(walk'[r].feed))
      <3>1. walk' # walk
            BY <2>1
      <3>2. PICK q \in Readers : OpenFeed(q) \/ FollowNext(q)
        <4>1. ASSUME NEW w \in Workers,
                     \/ Begin(w) \/ Record(w) \/ InsertComment(w) \/ RecordComment(w)
                     \/ Commit(w) \/ Rollback(w)
              PROVE  UNCHANGED walk
              BY <4>1 DEF Begin, Record, InsertComment, RecordComment, Commit, Rollback
        <4>2. ~Tick
              BY <3>1 DEF Tick
        <4> QED BY <1>1, <3>1, <4>1, <4>2 DEF Next
      <3>3. q = r
            BY <1>1, <2>1, <3>2, ReaderStep
      <3> QED BY <1>1, <2>1, <3>2, <3>3, ReaderStep
    <2> QED BY <2>1
  <1>2. WriteInv /\ KeyInv /\ ReadInv /\ [Next]_feedVars => [Ends]_feedVars
        BY <1>1
  <1> QED BY <1>2, WritersInOrder, KeysUnique, ReadersInStep, PTL DEF Spec, LastPageIsTheEnd
=============================================================================
