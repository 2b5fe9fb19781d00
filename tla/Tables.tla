-------------------------------- MODULE Tables --------------------------------
(***************************************************************************)
(* The tables of internal/database: feeds, users, subscriptions and        *)
(* seen_items as one record, and the statements of repository.go as        *)
(* functions of it.  A statement yields the tables after it and whether it *)
(* succeeded; a refused one leaves them as they were.                      *)
(*                                                                         *)
(* A feed is its URL and a user its address, the columns that are UNIQUE.  *)
(* Ids are AUTOINCREMENT: sqlite_sequence remembers the largest one ever   *)
(* used.  A row of seen_items carries the rowid that UnmarkSeenItems sorts *)
(* by, one more than the largest in the table.                             *)
(***************************************************************************)
EXTENDS Integers, FiniteSets

CONSTANTS
  Url, Email, Guid,
  Nobody,   \* "no such row" in feeds and users
  MaxId     \* bound: ids of feeds and of users

ASSUME TablesAssumption == MaxId \in Nat /\ Nobody \notin Url \cup Email

Id == 1..MaxId

Feeds(d) == {f \in Id : d.feeds[f] # Nobody}
Users(d) == {u \in Id : d.users[u] # Nobody}

Database ==
  [feeds : [Id -> Url \cup {Nobody}], users : [Id -> Email \cup {Nobody}],
   subs  : SUBSET (Id \X Id), seen : SUBSET [feed : Id, guid : Guid, rowid : Nat],
   lastFeed : 0..MaxId, lastUser : 0..MaxId]

Empty ==
  [feeds |-> [f \in Id |-> Nobody], users |-> [u \in Id |-> Nobody],
   subs |-> {}, seen |-> {}, lastFeed |-> 0, lastUser |-> 0]

Done(d)   == [db |-> d, ok |-> TRUE]
Failed(d) == [db |-> d, ok |-> FALSE]
If(c, d, e) == IF c THEN Done(d) ELSE Failed(e)

\* WithTx keeps what the body did if all of it succeeded.
WithTx(d, body) == IF body.ok THEN body.db ELSE d

-----------------------------------------------------------------------------
(* feeds and users *)

\* A row with an id of its own, which only the legacy import gives.
PutFeed(d, f, url) ==
  [d EXCEPT !.feeds[f] = url, !.lastFeed = IF f > @ THEN f ELSE @]
PutUser(d, u, email) ==
  [d EXCEPT !.users[u] = email, !.lastUser = IF u > @ THEN u ELSE @]

UrlTaken(d, url)     == \E f \in Feeds(d) : d.feeds[f] = url
EmailTaken(d, email) == \E u \in Users(d) : d.users[u] = email

CreateFeed(d, url)   == If(~UrlTaken(d, url), PutFeed(d, d.lastFeed + 1, url), d)

\* Variant: an id that has become free is used again.
CreateUserReusing(d, email) ==
  If(~EmailTaken(d, email),
     PutUser(d, CHOOSE u \in Id \ Users(d) : \A v \in Id \ Users(d) : u <= v, email), d)

CreateUser(d, email) == If(~EmailTaken(d, email), PutUser(d, d.lastUser + 1, email), d)

\* Only the URL matters here; the other columns are those of FeedCrawl.
UpdateFeed(d, f, url) ==
  If(f \in Feeds(d) /\ \A g \in Feeds(d) \ {f} : d.feeds[g] # url,
     [d EXCEPT !.feeds[f] = url], d)

\* Variant: no cascade.
DeleteUserAlone(d, u) == If(u \in Users(d), [d EXCEPT !.users[u] = Nobody], d)

\* ON DELETE CASCADE takes the rows that refer to the deleted one with it.
DeleteFeed(d, f) ==
  If(f \in Feeds(d),
     [d EXCEPT !.feeds[f] = Nobody,
               !.subs = {s \in @ : s[2] # f},
               !.seen = {x \in @ : x.feed # f}], d)
DeleteUser(d, u) ==
  If(u \in Users(d),
     [d EXCEPT !.users[u] = Nobody, !.subs = {s \in @ : s[1] # u}], d)

-----------------------------------------------------------------------------
(* subscriptions *)

\* ListSubscriptionsForUser joins the feeds.
SubscriptionsOf(d, u) == {f \in Feeds(d) : <<u, f>> \in d.subs}

\* A run of Subscribe calls that ends at the first error, a foreign key that
\* refers to no row.  How far it came shows to nobody: it is rolled back.
SubscribeEach(d, S) ==
  LET good == S \cap (Users(d) \X Feeds(d))
  IN  [db |-> [d EXCEPT !.subs = @ \cup good], ok |-> good = S]

Subscribe(d, u, f)   == SubscribeEach(d, {<<u, f>>})
Unsubscribe(d, u, f) == If(<<u, f>> \in d.subs, [d EXCEPT !.subs = @ \ {<<u, f>>}], d)

-----------------------------------------------------------------------------
(* seen_items *)

NextRowid(d) == 1 + CHOOSE n \in {x.rowid : x \in d.seen} \cup {0} :
                      \A x \in d.seen : x.rowid <= n

IsItemSeen(d, f, g) == \E x \in d.seen : x.feed = f /\ x.guid = g

MarkItemSeen(d, f, g) ==
  CASE f \notin Feeds(d)    -> Failed(d)
    [] IsItemSeen(d, f, g)  -> Done(d)   \* ON CONFLICT DO NOTHING
    [] OTHER -> Done([d EXCEPT !.seen =
                        @ \cup {[feed |-> f, guid |-> g, rowid |-> NextRowid(d)]}])

\* DELETE ... WHERE feed_id = f AND guid IN (the last limit guids of f).
UnmarkSeenItems(d, f, limit) ==
  LET mine   == {x \in d.seen : x.feed = f}
      newest == {x.guid : x \in {y \in mine :
                   Cardinality({z \in mine : z.rowid > y.rowid}) < limit}}
  IN  [d EXCEPT !.seen = {x \in @ : x.feed # f \/ x.guid \notin newest}]

=============================================================================
