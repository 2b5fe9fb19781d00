------------------------- MODULE AdministrationProofs -------------------------
(***************************************************************************)
(* For any number of users, feeds, items and legacy rows, and any order of *)
(* requests, saves and imports: the tables stay intact, and a save of the  *)
(* preferences page is exact or nothing.                                   *)
(***************************************************************************)
EXTENDS Administration, TLAPS

(* What holds of the tables alone.  Topped is what makes "one more than the *)
(* largest rowid" a number of its own: any rows have a newest among them.   *)
Referring(d) ==
  /\ d.subs \subseteq Users(d) \X Feeds(d)
  /\ \A x \in d.seen : x.feed \in Feeds(d)

Distinct(d) ==
  /\ \A f, g \in Feeds(d) : d.feeds[f] = d.feeds[g] => f = g
  /\ \A u, v \in Users(d) : d.users[u] = d.users[v] => u = v

Numbered(d) ==
  /\ \A f \in Feeds(d) : f <= d.lastFeed
  /\ \A u \in Users(d) : u <= d.lastUser

ItemsDistinct(d) ==
  \A x, y \in d.seen : x.feed = y.feed /\ (x.guid = y.guid \/ x.rowid = y.rowid) => x = y

Topped(d) ==
  \A T \in SUBSET d.seen :
    \E n \in {x.rowid : x \in T} \cup {0} : \A x \in T : x.rowid <= n

Sound(d) ==
  /\ d \in Database
  /\ Referring(d) /\ Distinct(d) /\ Numbered(d) /\ ItemsDistinct(d) /\ Topped(d)

LEMMA EmptySound == Sound(Empty)
<1> USE TablesAssumption DEF Empty
<1>1. Empty \in Database
  BY DEF Database, Id
<1>2. Users(Empty) = {} /\ Feeds(Empty) = {}
  BY DEF Users, Feeds
<1> QED
  BY <1>1, <1>2 DEF Sound, Referring, Distinct, Numbered, ItemsDistinct, Topped

-----------------------------------------------------------------------------
(* The statements keep the tables sound. *)

\* What a row that is inserted or updated makes of the names of its table.
LEMMA PutFeedSound ==
  ASSUME NEW d, Sound(d), NEW f \in Id \ Feeds(d), NEW url \in Url, ~UrlTaken(d, url)
  PROVE  Sound(PutFeed(d, f, url))
<1> DEFINE e == PutFeed(d, f, url)
<1> USE TablesAssumption
<1>1. /\ e.feeds = [d.feeds EXCEPT ![f] = url]
      /\ e.lastFeed = IF f > d.lastFeed THEN f ELSE d.lastFeed
      /\ e.users = d.users /\ e.subs = d.subs /\ e.seen = d.seen /\ e.lastUser = d.lastUser
      /\ d.feeds \in [Id -> Url \cup {Nobody}] /\ d.lastFeed \in 0..MaxId
  BY DEF Sound, Database, PutFeed
<1>2. e \in Database
  <2>1. e.feeds \in [Id -> Url \cup {Nobody}] /\ e.lastFeed \in 0..MaxId
    BY <1>1 DEF Id
  <2>2. e = [d EXCEPT !.feeds = e.feeds, !.lastFeed = e.lastFeed]
    BY DEF Sound, Database, PutFeed
  <2> QED
    BY <2>1, <2>2 DEF Sound, Database
<1> HIDE DEF e
<1>3. Feeds(e) = Feeds(d) \cup {f} /\ Users(e) = Users(d)
  BY <1>1 DEF Feeds, Users
<1>4. Referring(e)
  BY <1>1, <1>3 DEF Sound, Referring
<1>5. Distinct(e)
  BY <1>1, <1>3 DEF Sound, Distinct, UrlTaken, Feeds
<1>6. Numbered(e)
  BY <1>1, <1>3 DEF Sound, Numbered, Feeds, Id
<1>7. ItemsDistinct(e) /\ Topped(e)
  BY <1>1 DEF Sound, ItemsDistinct, Topped
<1> QED
  BY <1>2, <1>4, <1>5, <1>6, <1>7 DEF Sound, e

LEMMA PutUserSound ==
  ASSUME NEW d, Sound(d), NEW u \in Id \ Users(d), NEW a \in Email, ~EmailTaken(d, a)
  PROVE  Sound(PutUser(d, u, a))
<1> DEFINE e == PutUser(d, u, a)
<1> USE TablesAssumption
<1>1. /\ e.users = [d.users EXCEPT ![u] = a]
      /\ e.lastUser = IF u > d.lastUser THEN u ELSE d.lastUser
      /\ e.feeds = d.feeds /\ e.subs = d.subs /\ e.seen = d.seen /\ e.lastFeed = d.lastFeed
      /\ d.users \in [Id -> Email \cup {Nobody}] /\ d.lastUser \in 0..MaxId
  BY DEF Sound, Database, PutUser
<1>2. e \in Database
  <2>1. e.users \in [Id -> Email \cup {Nobody}] /\ e.lastUser \in 0..MaxId
    BY <1>1 DEF Id
  <2>2. e = [d EXCEPT !.users = e.users, !.lastUser = e.lastUser]
    BY DEF Sound, Database, PutUser
  <2> QED
    BY <2>1, <2>2 DEF Sound, Database
<1> HIDE DEF e
<1>3. Users(e) = Users(d) \cup {u} /\ Feeds(e) = Feeds(d)
  BY <1>1 DEF Feeds, Users
<1>4. Referring(e)
  BY <1>1, <1>3 DEF Sound, Referring
<1>5. Distinct(e)
  BY <1>1, <1>3 DEF Sound, Distinct, EmailTaken, Users
<1>6. Numbered(e)
  BY <1>1, <1>3 DEF Sound, Numbered, Users, Id
<1>7. ItemsDistinct(e) /\ Topped(e)
  BY <1>1 DEF Sound, ItemsDistinct, Topped
<1> QED
  BY <1>2, <1>4, <1>5, <1>6, <1>7 DEF Sound, e

\* AUTOINCREMENT gives an id that no row has.
LEMMA CreateFeedSound ==
  ASSUME NEW d, Sound(d), d.lastFeed < MaxId, NEW url \in Url
  PROVE  Sound(CreateFeed(d, url).db)
<1>1. d.lastFeed + 1 \in Id \ Feeds(d)
  BY TablesAssumption DEF Sound, Database, Numbered, Id, Feeds
<1> QED
  BY <1>1, PutFeedSound DEF CreateFeed, If, Done, Failed

LEMMA CreateUserSound ==
  ASSUME NEW d, Sound(d), d.lastUser < MaxId, NEW a \in Email
  PROVE  Sound(CreateUser(d, a).db)
<1>1. d.lastUser + 1 \in Id \ Users(d)
  BY TablesAssumption DEF Sound, Database, Numbered, Id, Users
<1> QED
  BY <1>1, PutUserSound DEF CreateUser, If, Done, Failed

LEMMA UpdateFeedSound ==
  ASSUME NEW d, Sound(d), NEW f \in Id, NEW url \in Url
  PROVE  Sound(UpdateFeed(d, f, url).db)
<1>1. SUFFICES ASSUME f \in Feeds(d), \A g \in Feeds(d) \ {f} : d.feeds[g] # url
               PROVE  Sound([d EXCEPT !.feeds[f] = url])
  BY DEF UpdateFeed, If, Done, Failed
<1> DEFINE e == [d EXCEPT !.feeds[f] = url]
<1>2. /\ e.feeds = [d.feeds EXCEPT ![f] = url] /\ e.lastFeed = d.lastFeed
      /\ e.users = d.users /\ e.subs = d.subs /\ e.seen = d.seen /\ e.lastUser = d.lastUser
      /\ d.feeds \in [Id -> Url \cup {Nobody}]
  BY DEF Sound, Database
<1>3. e \in Database
  BY DEF Sound, Database
<1> HIDE DEF e
<1>4. Feeds(e) = Feeds(d) /\ Users(e) = Users(d)
  BY <1>1, <1>2, TablesAssumption DEF Feeds, Users
<1>5. Distinct(e)
  BY <1>1, <1>2, <1>4 DEF Sound, Distinct, Feeds
<1>6. Referring(e) /\ Numbered(e) /\ ItemsDistinct(e) /\ Topped(e)
  BY <1>2, <1>4 DEF Sound, Referring, Numbered, ItemsDistinct, Topped
<1> QED
  BY <1>3, <1>5, <1>6 DEF Sound, e

\* Rows of seen_items that stay are still distinct, and have a newest.
LEMMA FewerSeen ==
  ASSUME NEW d, Sound(d), NEW e, e.seen \subseteq d.seen
  PROVE  ItemsDistinct(e) /\ Topped(e)
  BY DEF Sound, ItemsDistinct, Topped

LEMMA DeleteFeedSound ==
  ASSUME NEW d, Sound(d), NEW f \in Id
  PROVE  Sound(DeleteFeed(d, f).db)
<1> DEFINE e == [d EXCEPT !.feeds[f] = Nobody,
                          !.subs = {s \in @ : s[2] # f},
                          !.seen = {x \in @ : x.feed # f}]
<1>1. SUFFICES ASSUME f \in Feeds(d)
               PROVE  Sound(e)
  BY DEF DeleteFeed, If, Done, Failed
<1>2. /\ e.feeds = [d.feeds EXCEPT ![f] = Nobody] /\ e.lastFeed = d.lastFeed
      /\ e.users = d.users /\ e.lastUser = d.lastUser
      /\ e.subs = {s \in d.subs : s[2] # f} /\ e.seen = {x \in d.seen : x.feed # f}
      /\ d.feeds \in [Id -> Url \cup {Nobody}]
  BY DEF Sound, Database
<1>3. e \in Database
  BY DEF Sound, Database
<1> HIDE DEF e
<1>4. Feeds(e) = Feeds(d) \ {f} /\ Users(e) = Users(d)
  BY <1>2 DEF Feeds, Users
<1>5. Referring(e)
  <2>1. \A s \in e.subs : s \in Users(e) \X Feeds(e)
    BY <1>2, <1>4 DEF Sound, Referring
  <2>2. \A x \in e.seen : x.feed \in Feeds(e)
    BY <1>2, <1>4 DEF Sound, Referring
  <2> QED
    BY <2>1, <2>2 DEF Referring
<1>6. Distinct(e)
  BY <1>2, <1>4 DEF Sound, Distinct
<1>7. Numbered(e)
  BY <1>2, <1>4 DEF Sound, Numbered
<1>8. ItemsDistinct(e) /\ Topped(e)
  BY <1>2, FewerSeen
<1> QED
  BY <1>3, <1>5, <1>6, <1>7, <1>8 DEF Sound

LEMMA DeleteUserSound ==
  ASSUME NEW d, Sound(d), NEW u \in Id
  PROVE  Sound(DeleteUser(d, u).db)
<1> DEFINE e == [d EXCEPT !.users[u] = Nobody, !.subs = {s \in @ : s[1] # u}]
<1>1. SUFFICES ASSUME u \in Users(d)
               PROVE  Sound(e)
  BY DEF DeleteUser, If, Done, Failed
<1>2. /\ e.users = [d.users EXCEPT ![u] = Nobody] /\ e.lastUser = d.lastUser
      /\ e.feeds = d.feeds /\ e.lastFeed = d.lastFeed /\ e.seen = d.seen
      /\ e.subs = {s \in d.subs : s[1] # u}
      /\ d.users \in [Id -> Email \cup {Nobody}]
  BY DEF Sound, Database
<1>3. e \in Database
  BY DEF Sound, Database
<1> HIDE DEF e
<1>4. Users(e) = Users(d) \ {u} /\ Feeds(e) = Feeds(d)
  BY <1>2 DEF Feeds, Users
<1>5. Referring(e)
  <2>1. \A s \in e.subs : s \in Users(e) \X Feeds(e)
    BY <1>2, <1>4 DEF Sound, Referring
  <2>2. \A x \in e.seen : x.feed \in Feeds(e)
    BY <1>2, <1>4 DEF Sound, Referring
  <2> QED
    BY <2>1, <2>2 DEF Referring
<1>6. Distinct(e)
  BY <1>2, <1>4 DEF Sound, Distinct
<1>7. Numbered(e)
  BY <1>2, <1>4 DEF Sound, Numbered
<1>8. ItemsDistinct(e) /\ Topped(e)
  BY <1>2, FewerSeen
<1> QED
  BY <1>3, <1>5, <1>6, <1>7, <1>8 DEF Sound

LEMMA SubsSound ==
  ASSUME NEW d, Sound(d), NEW S \in SUBSET (Users(d) \X Feeds(d))
  PROVE  Sound([d EXCEPT !.subs = S])
<1> DEFINE e == [d EXCEPT !.subs = S]
<1>1. /\ e.feeds = d.feeds /\ e.lastFeed = d.lastFeed /\ e.seen = d.seen
      /\ e.users = d.users /\ e.lastUser = d.lastUser /\ e.subs = S
  BY DEF Sound, Database
<1>2. e \in Database
  BY DEF Sound, Database, Users, Feeds
<1> HIDE DEF e
<1>3. Users(e) = Users(d) /\ Feeds(e) = Feeds(d)
  BY <1>1 DEF Feeds, Users
<1>4. Referring(e) /\ Distinct(e) /\ Numbered(e) /\ ItemsDistinct(e) /\ Topped(e)
  BY <1>1, <1>3 DEF Sound, Referring, Distinct, Numbered, ItemsDistinct, Topped
<1> QED
  BY <1>2, <1>4 DEF Sound, e

LEMMA SubscribeEachSound ==
  ASSUME NEW d, Sound(d), NEW S
  PROVE  Sound(SubscribeEach(d, S).db)
<1>1. d.subs \cup (S \cap (Users(d) \X Feeds(d))) \in SUBSET (Users(d) \X Feeds(d))
  BY DEF Sound, Referring
<1> QED
  BY <1>1, SubsSound DEF SubscribeEach

LEMMA UnsubscribeSound ==
  ASSUME NEW d, Sound(d), NEW u \in Id, NEW f \in Id
  PROVE  Sound(Unsubscribe(d, u, f).db)
<1>1. d.subs \ {<<u, f>>} \in SUBSET (Users(d) \X Feeds(d))
  BY DEF Sound, Referring
<1> QED
  BY <1>1, SubsSound DEF Unsubscribe, If, Done, Failed

\* The rowid of a new row is above every other.
LEMMA NextRowidIsNew ==
  ASSUME NEW d, Sound(d)
  PROVE  NextRowid(d) \in Nat /\ \A x \in d.seen : x.rowid < NextRowid(d)
<1> DEFINE R == {x.rowid : x \in d.seen} \cup {0}
<1>1. \E n \in R : \A x \in d.seen : x.rowid <= n
  BY DEF Sound, Topped
<1>2. PICK n \in R : /\ n = CHOOSE m \in R : \A x \in d.seen : x.rowid <= m
                    /\ \A x \in d.seen : x.rowid <= n
  BY <1>1
<1>3. R \subseteq Nat /\ \A x \in d.seen : x.rowid \in Nat
  BY DEF Sound, Database
<1>4. NextRowid(d) = 1 + n
  BY <1>2 DEF NextRowid
<1> QED
  BY <1>2, <1>3, <1>4

LEMMA SeenSound ==
  ASSUME NEW d, Sound(d),
         NEW S \in SUBSET [feed : Id, guid : Guid, rowid : Nat],
         \A x \in S : x.feed \in Feeds(d),
         ItemsDistinct([d EXCEPT !.seen = S]), Topped([d EXCEPT !.seen = S])
  PROVE  Sound([d EXCEPT !.seen = S])
<1> DEFINE e == [d EXCEPT !.seen = S]
<1>1. /\ e.feeds = d.feeds /\ e.lastFeed = d.lastFeed /\ e.subs = d.subs
      /\ e.users = d.users /\ e.lastUser = d.lastUser /\ e.seen = S
  BY DEF Sound, Database
<1>2. e \in Database
  BY DEF Sound, Database
<1>3. ItemsDistinct(e) /\ Topped(e)
  OBVIOUS
<1> HIDE DEF e
<1>4. Users(e) = Users(d) /\ Feeds(e) = Feeds(d)
  BY <1>1 DEF Feeds, Users
<1>5. Referring(e) /\ Distinct(e) /\ Numbered(e)
  BY <1>1, <1>4 DEF Sound, Referring, Distinct, Numbered
<1> QED
  BY <1>2, <1>3, <1>5 DEF Sound, e

LEMMA MarkItemSeenSound ==
  ASSUME NEW d, Sound(d), NEW f \in Id, NEW g \in Guid
  PROVE  Sound(MarkItemSeen(d, f, g).db)
<1> DEFINE new == [feed |-> f, guid |-> g, rowid |-> NextRowid(d)]
           S == d.seen \cup {new}
           e == [d EXCEPT !.seen = S]
<1>1. SUFFICES ASSUME f \in Feeds(d), ~IsItemSeen(d, f, g)
               PROVE  Sound(e)
  BY DEF MarkItemSeen, Done, Failed
<1>2. /\ new \in [feed : Id, guid : Guid, rowid : Nat]
      /\ \A x \in d.seen : x.rowid < new.rowid /\ x.rowid \in Nat
      /\ \A x \in d.seen : x.feed = new.feed => x.guid # new.guid
  BY <1>1, NextRowidIsNew DEF IsItemSeen, Sound, Database
<1>3. e.seen = S
  BY DEF Sound, Database
<1>4. ItemsDistinct(e)
  BY <1>2, <1>3 DEF Sound, ItemsDistinct
<1>5. Topped(e)
  <2> SUFFICES ASSUME NEW T \in SUBSET S
               PROVE  \E n \in {x.rowid : x \in T} \cup {0} : \A x \in T : x.rowid <= n
    BY <1>3 DEF Topped
  <2>1. CASE new \in T
    BY <1>2, <2>1
  <2>2. CASE new \notin T
    BY <2>2 DEF Sound, Topped
  <2> QED
    BY <2>1, <2>2
<1>6. S \in SUBSET [feed : Id, guid : Guid, rowid : Nat] /\ \A x \in S : x.feed \in Feeds(d)
  BY <1>1, <1>2 DEF Sound, Database, Referring
<1> HIDE DEF S
<1> QED
  BY <1>4, <1>5, <1>6, SeenSound

LEMMA UnmarkSeenItemsSound ==
  ASSUME NEW d, Sound(d), NEW f, NEW limit
  PROVE  Sound(UnmarkSeenItems(d, f, limit))
<1>1. PICK S \in SUBSET d.seen : UnmarkSeenItems(d, f, limit) = [d EXCEPT !.seen = S]
  BY DEF UnmarkSeenItems, Sound, Database
<1> DEFINE e == [d EXCEPT !.seen = S]
<1>2. ItemsDistinct(e) /\ Topped(e)
  <2>1. e.seen = S
    BY DEF Sound, Database
  <2> QED
    BY <2>1, FewerSeen
<1>3. S \in SUBSET [feed : Id, guid : Guid, rowid : Nat] /\ \A x \in S : x.feed \in Feeds(d)
  BY DEF Sound, Database, Referring
<1> QED
  BY <1>1, <1>2, <1>3, SeenSound

-----------------------------------------------------------------------------
(* Requests. *)

\* An id of a user is never given to another one: it keeps its address or loses
\* it for good, unless the import, which brings its ids along, gives it back.
Aged(d, e) ==
  /\ d.lastUser <= e.lastUser
  /\ \A u \in Id : u <= d.lastUser => e.users[u] \in {d.users[u], Nobody}

LEMMA SameUsersAged ==
  ASSUME NEW d, Sound(d), NEW e, e.users = d.users, e.lastUser = d.lastUser
  PROVE  Aged(d, e)
  BY TablesAssumption DEF Aged, Sound, Database

LEMMA CreateUserAged ==
  ASSUME NEW d, Sound(d), d.lastUser < MaxId, NEW a \in Email
  PROVE  Aged(d, CreateUser(d, a).db)
<1>1. CASE EmailTaken(d, a)
  BY <1>1, SameUsersAged DEF CreateUser, If, Done, Failed
<1>2. CASE ~EmailTaken(d, a)
  <2> DEFINE e == CreateUser(d, a).db
  <2>1. /\ e.users = [d.users EXCEPT ![d.lastUser + 1] = a]
        /\ e.lastUser = IF d.lastUser + 1 > d.lastUser THEN d.lastUser + 1 ELSE d.lastUser
        /\ d.users \in [Id -> Email \cup {Nobody}] /\ d.lastUser \in 0..MaxId
    BY <1>2 DEF CreateUser, If, Done, Failed, PutUser, Sound, Database
  <2> HIDE DEF e
  <2> QED
    BY <2>1, TablesAssumption DEF Aged, Id, e
<1> QED
  BY <1>1, <1>2

LEMMA DeleteUserAged ==
  ASSUME NEW d, Sound(d), NEW u \in Id
  PROVE  Aged(d, DeleteUser(d, u).db)
<1>1. CASE u \notin Users(d)
  BY <1>1, SameUsersAged DEF DeleteUser, If, Done, Failed
<1>2. CASE u \in Users(d)
  <2> DEFINE e == DeleteUser(d, u).db
  <2>1. /\ e.users = [d.users EXCEPT ![u] = Nobody] /\ e.lastUser = d.lastUser
        /\ d.users \in [Id -> Email \cup {Nobody}] /\ d.lastUser \in 0..MaxId
    BY <1>2 DEF DeleteUser, If, Done, Failed, Sound, Database
  <2> HIDE DEF e
  <2> QED
    BY <2>1, TablesAssumption DEF Aged, e
<1> QED
  BY <1>1, <1>2

\* What a transaction leaves is sound and has aged if what its body does is.
Good(d, r) == Sound(r.db) /\ Aged(d, r.db)

LEMMA WithTxGood ==
  ASSUME NEW d, Sound(d), NEW r, Good(d, r)
  PROVE  Sound(WithTx(d, r)) /\ Aged(d, WithTx(d, r))
  BY SameUsersAged DEF Good, WithTx

LEMMA OperatorGood ==
  ASSUME Sound(db), Operator
  PROVE  \E r : Request(r) /\ Good(db, r)
<1>1. CASE HandleCreateFeed
  <2>0. PICK url \in Url : \E S : CreateFeedFor(url, S)
    BY <1>1 DEF HandleCreateFeed
  <2>1. PICK U : CreateFeedFor(url, U)
    BY <2>0
  <2> DEFINE r == CreateFeed(db, url)
             b == IF r.ok THEN SubscribeEach(r.db, U \X {r.db.lastFeed}) ELSE r
  <2>2. db.lastFeed < MaxId /\ Request(b)
    BY <2>1 DEF CreateFeedFor
  <2>3. Sound(r.db)
    BY <2>2, CreateFeedSound
  <2>4. r.db.users = db.users /\ r.db.lastUser = db.lastUser
    BY DEF CreateFeed, If, Done, Failed, PutFeed, Sound, Database
  <2> HIDE DEF r
  <2>5. Sound(b.db)
    BY <2>3, SubscribeEachSound
  <2>6. b.db.users = db.users /\ b.db.lastUser = db.lastUser
    BY <2>3, <2>4 DEF SubscribeEach, Sound, Database
  <2> QED
    BY <2>2, <2>5, <2>6, SameUsersAged DEF Good
<1>2. CASE HandleUpdateFeed
  <2>1. PICK f \in Id, url \in Url : Request(UpdateFeed(db, f, url))
    BY <1>2 DEF HandleUpdateFeed
  <2>2. /\ UpdateFeed(db, f, url).db.users = db.users
        /\ UpdateFeed(db, f, url).db.lastUser = db.lastUser
    BY DEF UpdateFeed, If, Done, Failed, Sound, Database
  <2> QED
    BY <2>1, <2>2, UpdateFeedSound, SameUsersAged DEF Good
<1>3. CASE HandleDeleteFeed
  <2>1. PICK f \in Id : Request(DeleteFeed(db, f))
    BY <1>3 DEF HandleDeleteFeed
  <2>2. /\ DeleteFeed(db, f).db.users = db.users
        /\ DeleteFeed(db, f).db.lastUser = db.lastUser
    BY DEF DeleteFeed, If, Done, Failed, Sound, Database
  <2> QED
    BY <2>1, <2>2, DeleteFeedSound, SameUsersAged DEF Good
<1>4. CASE HandleCreateUser
  BY <1>4, CreateUserSound, CreateUserAged DEF HandleCreateUser, Good
<1>5. CASE HandleDeleteUser
  BY <1>5, DeleteUserSound, DeleteUserAged DEF HandleDeleteUser, Good
<1>6. CASE HandleSubscribe
  <2>1. PICK u \in Id, f \in Id : Request(Subscribe(db, u, f))
    BY <1>6 DEF HandleSubscribe
  <2>2. /\ Subscribe(db, u, f).db.users = db.users
        /\ Subscribe(db, u, f).db.lastUser = db.lastUser
    BY DEF Subscribe, SubscribeEach, Sound, Database
  <2>3. Sound(Subscribe(db, u, f).db)
    BY SubscribeEachSound DEF Subscribe
  <2> QED
    BY <2>1, <2>2, <2>3, SameUsersAged DEF Good
<1>7. CASE HandleUnsubscribe
  <2>1. PICK u \in Id, f \in Id : Request(Unsubscribe(db, u, f))
    BY <1>7 DEF HandleUnsubscribe
  <2>2. /\ Unsubscribe(db, u, f).db.users = db.users
        /\ Unsubscribe(db, u, f).db.lastUser = db.lastUser
    BY DEF Unsubscribe, If, Done, Failed, Sound, Database
  <2> QED
    BY <2>1, <2>2, UnsubscribeSound, SameUsersAged DEF Good
<1>8. CASE HandleRewindFeed
  <2>1. PICK f \in Id, limit \in 1..2 : Request(Done(UnmarkSeenItems(db, f, limit)))
    BY <1>8 DEF HandleRewindFeed, Rewind
  <2> DEFINE e == UnmarkSeenItems(db, f, limit)
  <2>2. e.users = db.users /\ e.lastUser = db.lastUser
    BY DEF UnmarkSeenItems, Sound, Database
  <2>3. Sound(e) /\ Done(e).db = e
    BY UnmarkSeenItemsSound DEF Done
  <2> HIDE DEF e
  <2>4. Good(db, Done(e))
    BY <2>2, <2>3, SameUsersAged DEF Good
  <2> QED
    BY <2>1, <2>4 DEF e
<1>9. CASE Mark
  <2>1. PICK f \in Id, g \in Guid : Request(MarkItemSeen(db, f, g))
    BY <1>9 DEF Mark
  <2>2. /\ MarkItemSeen(db, f, g).db.users = db.users
        /\ MarkItemSeen(db, f, g).db.lastUser = db.lastUser
    BY DEF MarkItemSeen, Done, Failed, Sound, Database
  <2> QED
    BY <2>1, <2>2, MarkItemSeenSound, SameUsersAged DEF Good
<1> QED
  BY <1>1, <1>2, <1>3, <1>4, <1>5, <1>6, <1>7, <1>8, <1>9 DEF Operator

LEMMA OperatorStep ==
  ASSUME Sound(db), Operator
  PROVE  /\ Sound(db') /\ Aged(db, db') /\ quiet' = FALSE
         /\ UNCHANGED <<page, import, failures, kills>>
         /\ requests' = requests + 1 /\ disturbed' = TRUE
  BY OperatorGood, WithTxGood DEF Request

-----------------------------------------------------------------------------
(* The preferences page. *)

\* Nothing is ticked before the page has been read or after it was answered.
Blank ==
  ppc \notin {"shown", "saving"} => ticked = {} /\ wanted = {}

\* The id that was looked up is the account's, a row's that is gone, or one the
\* import has given to the legacy address it belongs to.
LooksUp ==
  /\ ppc \in {"user", "feeds", "shown", "saving"} => email \in Email
  /\ ppc \in {"user", "feeds", "saving"} =>
       /\ user \in Id /\ user <= db.lastUser
       /\ \/ db.users[user] \in {email, Nobody}
          \/ user \in DOMAIN LegacyUsers /\ db.users[user] = LegacyUsers[user]

\* As long as nobody else changes the tables, what was read is what they hold.
StillTrue ==
  quiet =>
    /\ ppc \in {"user", "feeds", "saving"} => db.users[user] = email
    /\ ppc \in {"feeds", "shown", "saving"} => shown = Feeds(db)
    /\ ppc = "shown" => \E u \in Users(db) : db.users[u] = email /\ ticked = SubscriptionsOf(db, u)
    /\ ppc = "saving" => ticked = SubscriptionsOf(db, user)

Paged == Blank /\ LooksUp /\ StillTrue

Inv == TypeOK /\ Sound(db) /\ Paged

LEMMA InvInit == Init => Inv
<1> SUFFICES ASSUME Init PROVE Inv
  OBVIOUS
<1>1. Sound(db)
  BY EmptySound DEF Init
<1>2. TypeOK
  BY <1>1 DEF Init, TypeOK, Sound
<1>3. Paged
  BY DEF Init, Paged, Blank, LooksUp, StillTrue
<1> QED
  BY <1>1, <1>2, <1>3 DEF Inv

LEMMA OperatorKeeps == Inv /\ Operator => Inv'
<1> SUFFICES ASSUME Inv, Operator PROVE Inv'
  OBVIOUS
<1>1. /\ Sound(db') /\ Aged(db, db') /\ quiet' = FALSE
      /\ UNCHANGED <<ppc, email, user, shown, ticked, wanted, stage, todo, failures, kills>>
      /\ requests' = requests + 1 /\ disturbed' = TRUE
  BY OperatorStep DEF Inv, page, import
<1>2. TypeOK'
  <2>1. todo' \subseteq Rows(stage')
    BY <1>1 DEF Inv, TypeOK
  <2>2. db' \in Database /\ requests' \in Nat
    BY <1>1 DEF Inv, TypeOK, Sound
  <2>3. quiet' \in BOOLEAN /\ disturbed' \in BOOLEAN
    BY <1>1, Zenon
  <2> QED
    BY <1>1, <2>1, <2>2, <2>3 DEF Inv, TypeOK
<1>3. Blank' /\ StillTrue'
  BY <1>1 DEF Inv, Paged, Blank, StillTrue
<1>4. LooksUp'
  <2>1. db.lastUser \in Int /\ db'.lastUser \in Int /\ Id \subseteq Int
    BY <1>1, TablesAssumption DEF Inv, Sound, Database, Id
  <2> QED
    <3>1. SUFFICES ASSUME ppc \in {"user", "feeds", "saving"}
                   PROVE  /\ user <= db'.lastUser
                          /\ \/ db'.users[user] \in {email, Nobody}
                             \/ user \in DOMAIN LegacyUsers /\ db'.users[user] = LegacyUsers[user]
      BY <1>1 DEF Inv, Paged, LooksUp
    <3>2. /\ user \in Id /\ user <= db.lastUser
          /\ \/ db.users[user] \in {email, Nobody}
             \/ user \in DOMAIN LegacyUsers /\ db.users[user] = LegacyUsers[user]
      BY <3>1 DEF Inv, Paged, LooksUp
    <3>3. db'.users[user] \in {db.users[user], Nobody}
      BY <1>1, <3>2 DEF Aged
    <3>4. user <= db'.lastUser
      BY <1>1, <2>1, <3>2 DEF Aged
    <3> QED
      BY <3>2, <3>3, <3>4, Zenon
<1> QED
  BY <1>1, <1>2, <1>3, <1>4 DEF Inv, Paged

\* Reading, ticking and leaving.
LEMMA ReadingKeeps ==
  Inv /\ (PageUser \/ PageFeeds \/ PageSubs \/ Tick \/ ClosePage \/ Submit \/ SubmitUnknown)
    => Inv'
<1> SUFFICES ASSUME Inv,
                    PageUser \/ PageFeeds \/ PageSubs \/ Tick \/ ClosePage \/ Submit \/ SubmitUnknown
             PROVE  Inv'
  OBVIOUS
<1> USE DEF NoChange, Page, Answer, import
<1>1. Sound(db) /\ UNCHANGED <<db, import, disturbed, requests, kills, failures>>
  BY DEF Inv, PageUser, PageFeeds, PageSubs, Tick, ClosePage, Submit, SubmitUnknown
<1>2. /\ Users(db) \subseteq Id /\ Feeds(db) \subseteq Id
      /\ \A u \in Users(db) : db.users[u] \in Email /\ u <= db.lastUser
      /\ \A u, v \in Users(db) : db.users[u] = db.users[v] => u = v
      /\ \A u \in Id : db.users[u] \in Email => u \in Users(db)
  BY TablesAssumption DEF Inv, Sound, Database, Users, Feeds, Numbered, Distinct
<1>3. TypeOK'
  <2>1. Sound(db') /\ todo' \subseteq Rows(stage')
    BY <1>1 DEF Inv, TypeOK, Rows
  <2> QED
    BY <1>1, <1>2, <2>1 DEF Inv, TypeOK, Paged, Blank, Sound, PageUser, PageFeeds,
       PageSubs, Tick, ClosePage, Submit, SubmitUnknown, UserWith
<1>4. Blank'
  BY DEF Inv, Paged, Blank, PageUser, PageFeeds, PageSubs, Tick, ClosePage, Submit,
     SubmitUnknown
<1>5. LooksUp'
  BY <1>1, <1>2 DEF Inv, Paged, LooksUp, PageUser, PageFeeds, PageSubs, Tick, ClosePage,
     Submit, SubmitUnknown, UserWith
<1>6. StillTrue'
  <2>1. CASE PageUser
    BY <1>1, <2>1 DEF PageUser, StillTrue
  <2>2. CASE PageFeeds
    BY <1>1, <2>2 DEF Inv, Paged, PageFeeds, StillTrue
  <2>3. CASE PageSubs
    <3>1. SUFFICES ASSUME quiet
                   PROVE  /\ shown' = Feeds(db)
                          /\ \E u \in Users(db) : db.users[u] = email
                                                 /\ ticked' = SubscriptionsOf(db, u)
      BY <1>1, <2>3 DEF PageSubs, StillTrue, Users, SubscriptionsOf, Feeds
    <3>2. user \in Users(db) /\ db.users[user] = email /\ shown = Feeds(db)
      BY <1>2, <2>3, <3>1 DEF Inv, Paged, LooksUp, StillTrue, PageSubs
    <3>3. ticked' = SubscriptionsOf(db, user)
      BY <2>3, <3>2 DEF PageSubs, SubscriptionsOf
    <3> QED
      BY <2>3, <3>2, <3>3 DEF PageSubs
  <2>4. CASE Tick
    BY <1>1, <2>4 DEF Inv, Paged, Tick, StillTrue, Users, SubscriptionsOf, Feeds
  <2>5. CASE Submit
    <3>1. SUFFICES ASSUME quiet
                   PROVE  /\ db.users[user'] = email /\ shown = Feeds(db)
                          /\ ticked = SubscriptionsOf(db, user')
      BY <1>1, <2>5 DEF Submit, StillTrue, SubscriptionsOf, Feeds
    <3>2. PICK u \in Users(db) : db.users[u] = email /\ ticked = SubscriptionsOf(db, u)
      BY <2>5, <3>1 DEF Inv, Paged, StillTrue, Submit
    <3>3. user' = u
      BY <1>2, <2>5, <3>2 DEF Submit, UserWith
    <3> QED
      BY <2>5, <3>1, <3>2, <3>3 DEF Inv, Paged, StillTrue, Submit
  <2>6. CASE ClosePage \/ SubmitUnknown
    BY <2>6 DEF ClosePage, SubmitUnknown, StillTrue
  <2> QED
    BY <2>1, <2>2, <2>3, <2>4, <2>5, <2>6
<1> QED
  BY <1>1, <1>3, <1>4, <1>5, <1>6 DEF Inv, Paged, Sound, Referring, Distinct, Numbered,
     ItemsDistinct, Topped, Users, Feeds

\* The body of a save that has not failed.
Dropped == [db EXCEPT !.subs = @ \ ({user} \X (SubscriptionsOf(db, user) \ wanted))]

LEMMA PreferencesSound ==
  ASSUME Sound(db)
  PROVE  /\ Sound(Dropped) /\ Sound(Preferences.db)
         /\ Preferences = SubscribeEach(Dropped, {user} \X (wanted \ SubscriptionsOf(db, user)))
<1>1. db.subs \ ({user} \X (SubscriptionsOf(db, user) \ wanted)) \in SUBSET (Users(db) \X Feeds(db))
  BY DEF Sound, Referring
<1>2. Sound(Dropped)
  BY <1>1, SubsSound DEF Dropped
<1>3. Preferences = SubscribeEach(Dropped, {user} \X (wanted \ SubscriptionsOf(db, user)))
  BY DEF Preferences, Dropped
<1> QED
  BY <1>2, <1>3, SubscribeEachSound

LEMMA SaveKeeps == Inv /\ SaveTx => Inv'
<1> SUFFICES ASSUME Inv, SaveTx PROVE Inv'
  OBVIOUS
<1>1. /\ db' = db \/ db' = Preferences.db
      /\ ppc' \in {"saved", "refused"} /\ email' = Nobody /\ user' = 0
      /\ shown' = {} /\ ticked' = {} /\ wanted' = {} /\ quiet' = FALSE
      /\ UNCHANGED <<stage, todo, requests, kills>>
  BY DEF SaveTx, WithTx, PreferencesCut, Failed, Answer, import
<1>2. Sound(db')
  BY <1>1, PreferencesSound DEF Inv
<1>3. failures' \in Nat /\ disturbed' \in BOOLEAN
  BY DEF Inv, TypeOK, SaveTx
<1>4. TypeOK'
  <2>1. todo' \subseteq Rows(stage') /\ db' \in Database
    BY <1>1, <1>2 DEF Inv, TypeOK, Sound
  <2>2. quiet' \in BOOLEAN
    BY <1>1, Zenon
  <2> QED
    BY <1>1, <1>3, <2>1, <2>2 DEF Inv, TypeOK
<1>5. Paged'
  BY <1>1 DEF Paged, Blank, LooksUp, StillTrue
<1> QED
  BY <1>2, <1>4, <1>5 DEF Inv

-----------------------------------------------------------------------------
(* The import. *)

\* Every user is as it was, or as the legacy one.
Grown(d, e) ==
  /\ d.lastUser <= e.lastUser
  /\ \A u \in Id : \/ e.users[u] = d.users[u]
                   \/ u \in DOMAIN LegacyUsers /\ e.users[u] = LegacyUsers[u]

LEMMA SameUsersGrown ==
  ASSUME NEW d, Sound(d), NEW e, e.users = d.users, e.lastUser = d.lastUser
  PROVE  Grown(d, e)
<1>1. d.lastUser <= e.lastUser
  BY TablesAssumption DEF Sound, Database
<1> QED
  BY <1>1, Zenon DEF Grown

LEMMA InsertGood ==
  ASSUME Inv, stage \in Stages, NEW x \in Rows(stage)
  PROVE  Sound(Insert(stage, x).db) /\ Grown(db, Insert(stage, x).db)
<1> USE LegacyAssumption, TablesAssumption
<1> DEFINE e == Insert(stage, x).db
<1>0. Sound(db) /\ db.lastUser \in 0..MaxId
  BY DEF Inv, Sound, Database
<1>1. CASE stage = "users"
  <2>1. x \in DOMAIN LegacyUsers /\ x \in Id /\ LegacyUsers[x] \in Email
    BY <1>1 DEF Rows
  <2>2. e = InsertUser(x).db
    BY <1>1 DEF Insert
  <2>3. CASE EmailTaken(db, LegacyUsers[x]) \/ x \in Users(db)
    <3>1. e = db
      BY <2>2, <2>3 DEF InsertUser, If, Done, Failed
    <3> QED
      BY <1>0, <3>1, SameUsersGrown
  <2>4. CASE ~EmailTaken(db, LegacyUsers[x]) /\ x \notin Users(db)
    <3>1. e = PutUser(db, x, LegacyUsers[x])
      BY <2>2, <2>4 DEF InsertUser, If, Done, Failed
    <3>2. Sound(e)
      BY <1>0, <2>1, <2>4, <3>1, PutUserSound
    <3>3. /\ e.users = [db.users EXCEPT ![x] = LegacyUsers[x]]
          /\ e.lastUser = IF x > db.lastUser THEN x ELSE db.lastUser
          /\ db.users \in [Id -> Email \cup {Nobody}]
      BY <1>0, <3>1 DEF PutUser, Sound, Database
    <3> HIDE DEF e
    <3>4. Grown(db, e)
      <4>1. db.lastUser <= e.lastUser
        BY <1>0, <2>1, <3>3 DEF Id
      <4>2. \A u \in Id : e.users[u] = IF u = x THEN LegacyUsers[x] ELSE db.users[u]
        BY <2>1, <3>3
      <4> QED
        BY <2>1, <4>1, <4>2, Zenon DEF Grown
    <3> QED
      BY <3>2, <3>4 DEF e
  <2> QED
    BY <2>3, <2>4
<1>2. CASE stage = "feeds"
  <2>1. x \in DOMAIN LegacyFeeds /\ x \in Id /\ LegacyFeeds[x] \in Url
    BY <1>2 DEF Rows
  <2>2. e = InsertFeed(x).db
    BY <1>2 DEF Insert
  <2>3. CASE UrlTaken(db, LegacyFeeds[x]) \/ x \in Feeds(db)
    <3>1. e = db
      BY <2>2, <2>3 DEF InsertFeed, If, Done, Failed
    <3> QED
      BY <1>0, <3>1, SameUsersGrown
  <2>4. CASE ~UrlTaken(db, LegacyFeeds[x]) /\ x \notin Feeds(db)
    <3>1. e = PutFeed(db, x, LegacyFeeds[x])
      BY <2>2, <2>4 DEF InsertFeed, If, Done, Failed
    <3>2. Sound(e)
      BY <1>0, <2>1, <2>4, <3>1, PutFeedSound
    <3>3. e.users = db.users /\ e.lastUser = db.lastUser
      BY <1>0, <3>1 DEF PutFeed, Sound, Database
    <3> HIDE DEF e
    <3>4. Grown(db, e)
      BY <1>0, <3>3, SameUsersGrown
    <3> QED
      BY <3>2, <3>4 DEF e
  <2> QED
    BY <2>3, <2>4
<1>3. CASE stage = "subs"
  <2>1. e = SubscribeEach(db, {<<x[1], x[2]>>}).db
    BY <1>3 DEF Insert, Subscribe
  <2>2. Sound(e)
    BY <1>0, <2>1, SubscribeEachSound
  <2>3. e.users = db.users /\ e.lastUser = db.lastUser
    BY <1>0, <2>1 DEF SubscribeEach, Sound, Database
  <2> HIDE DEF e
  <2>4. Grown(db, e)
    BY <1>0, <2>3, SameUsersGrown
  <2> QED
    BY <2>2, <2>4 DEF e
<1>4. CASE stage = "seen"
  <2>1. x[1] \in Id /\ x[2] \in Guid
    BY <1>4 DEF Rows
  <2>2. e = MarkItemSeen(db, x[1], x[2]).db
    BY <1>4 DEF Insert
  <2>3. Sound(e)
    BY <1>0, <2>1, <2>2, MarkItemSeenSound
  <2>4. e.users = db.users /\ e.lastUser = db.lastUser
    BY <1>0, <2>2 DEF MarkItemSeen, Done, Failed, Sound, Database
  <2> HIDE DEF e
  <2>5. Grown(db, e)
    BY <1>0, <2>4, SameUsersGrown
  <2> QED
    BY <2>3, <2>5 DEF e
<1> QED
  BY <1>1, <1>2, <1>3, <1>4 DEF Stages

LEMMA ImportRowKeeps == Inv /\ ImportRow => Inv'
<1> SUFFICES ASSUME Inv, ImportRow PROVE Inv'
  OBVIOUS
<1>1. PICK x \in todo : /\ db' = Insert(stage, x).db
                        /\ \/ stage' = stage /\ todo' = todo \ {x}
                           \/ stage' = "off" /\ todo' = {}
  BY DEF ImportRow
<1>2. /\ UNCHANGED <<ppc, email, user, shown, ticked, wanted, disturbed, requests, failures, kills>>
      /\ quiet' = (quiet /\ db' = db)
  BY DEF ImportRow, page, bounds
<1>3. x \in Rows(stage) /\ stage \in Stages
  BY <1>1 DEF Inv, TypeOK, Rows
<1>4. /\ Sound(db') /\ db.lastUser <= db'.lastUser
      /\ \A u \in Id : \/ db'.users[u] = db.users[u]
                       \/ u \in DOMAIN LegacyUsers /\ db'.users[u] = LegacyUsers[u]
  BY <1>1, <1>3, InsertGood DEF Grown
<1>5. TypeOK'
  <2>1. todo' \subseteq Rows(stage') /\ stage' \in Stages \cup {"off", "done"}
    BY <1>1, <1>3 DEF Inv, TypeOK
  <2>2. db' \in Database
    BY <1>4 DEF Sound
  <2>3. quiet' \in BOOLEAN
    BY <1>2, Zenon
  <2> QED
    BY <1>2, <2>1, <2>2, <2>3 DEF Inv, TypeOK
<1>6. Blank'
  BY <1>2 DEF Inv, Paged, Blank
<1>7. LooksUp'
  <2>1. SUFFICES ASSUME ppc \in {"user", "feeds", "saving"}
                 PROVE  /\ user <= db'.lastUser
                        /\ \/ db'.users[user] \in {email, Nobody}
                           \/ user \in DOMAIN LegacyUsers /\ db'.users[user] = LegacyUsers[user]
    BY <1>2 DEF Inv, Paged, LooksUp
  <2>2. /\ user \in Id /\ user <= db.lastUser
        /\ \/ db.users[user] \in {email, Nobody}
           \/ user \in DOMAIN LegacyUsers /\ db.users[user] = LegacyUsers[user]
    BY <2>1 DEF Inv, Paged, LooksUp
  <2>3. db.lastUser \in Int /\ db'.lastUser \in Int /\ Id \subseteq Int
    BY <1>4, TablesAssumption DEF Inv, Sound, Database, Id
  <2>4. user <= db'.lastUser
    BY <1>4, <2>2, <2>3
  <2> QED
    BY <1>4, <2>2, <2>4, Zenon
<1>8. StillTrue'
  <2> SUFFICES ASSUME quiet, db' = db PROVE StillTrue'
    BY <1>2 DEF StillTrue
  <2> QED
    BY <1>2 DEF Inv, Paged, StillTrue, Feeds, Users, SubscriptionsOf
<1> QED
  BY <1>4, <1>5, <1>6, <1>7, <1>8 DEF Inv, Paged

LEMMA StageKeeps == Inv /\ (StartImport \/ NextStage \/ KillImport \/ UNCHANGED vars) => Inv'
<1> SUFFICES ASSUME Inv, StartImport \/ NextStage \/ KillImport \/ UNCHANGED vars PROVE Inv'
  OBVIOUS
<1>1. UNCHANGED <<db, ppc, email, user, shown, ticked, wanted, quiet, disturbed, requests, failures>>
  BY DEF StartImport, NextStage, KillImport, vars, page, bounds
<1>2. Sound(db') /\ Paged'
  BY <1>1 DEF Inv, Paged, Blank, LooksUp, StillTrue, Feeds, Users, SubscriptionsOf
<1>3. todo' \subseteq Rows(stage') /\ stage' \in Stages \cup {"off", "done"} /\ kills' \in Nat
  BY DEF Inv, TypeOK, StartImport, NextStage, KillImport, vars, import, bounds, Stages, After
<1>4. TypeOK'
  BY <1>1, <1>3 DEF Inv, TypeOK
<1> QED
  BY <1>2, <1>4 DEF Inv

LEMMA InvNext == Inv /\ [Next]_vars => Inv'
  BY OperatorKeeps, ReadingKeeps, SaveKeeps, ImportRowKeeps, StageKeeps
     DEF Next, Subscriber, Import

LEMMA Invariance == Spec => []Inv
  BY InvInit, InvNext, PTL DEF Spec

\* The tables stay intact for any addresses, URLs and items and any legacy tables,
\* however many requests, saves and imports there are and wherever an import is
\* killed (001_initial.sql:5-48, repository.go:512).
THEOREM TablesIntact == Spec => []Intact
<1>1. Inv => Intact
  BY DEF Inv, Intact, Sound, Referring, Distinct, Numbered, ItemsDistinct
<1> QED
  BY <1>1, Invariance, PTL

-----------------------------------------------------------------------------
(* Saves. *)

\* What a transaction that is not refused makes of the subscriptions.
LEMMA SavedSubs ==
  ASSUME Sound(db), Preferences.ok
  PROVE  LET current == SubscriptionsOf(db, user)
         IN  /\ {user} \X (wanted \ current) \subseteq Users(db) \X Feeds(db)
             /\ Preferences.db = [db EXCEPT !.subs = (db.subs \ ({user} \X (current \ wanted)))
                                                      \cup ({user} \X (wanted \ current))]
<1> DEFINE current == SubscriptionsOf(db, user)
           new == {user} \X (wanted \ current)
<1>1. Preferences = SubscribeEach(Dropped, new)
  BY PreferencesSound
<1>2. /\ Dropped.subs = db.subs \ ({user} \X (current \ wanted))
      /\ Users(Dropped) = Users(db) /\ Feeds(Dropped) = Feeds(db)
  BY DEF Dropped, Sound, Database, Users, Feeds
<1>3. new \cap (Users(db) \X Feeds(db)) = new
  BY <1>1, <1>2 DEF SubscribeEach
<1>4. Preferences.db = [Dropped EXCEPT !.subs = @ \cup new]
  BY <1>1, <1>2, <1>3 DEF SubscribeEach
<1>5. new \subseteq Users(db) \X Feeds(db)
  BY <1>3
<1> HIDE DEF new
<1>6. Preferences.db = [db EXCEPT !.subs = (db.subs \ ({user} \X (current \ wanted))) \cup new]
  BY <1>2, <1>4 DEF Dropped, Sound, Database
<1> QED
  BY <1>5, <1>6 DEF new

LEMMA SaveIsExact ==
  ASSUME Inv, SaveTx
  PROVE  /\ ppc' = "saved" => SubscriptionsOf(db', user) = wanted
         /\ ppc' = "refused" => db' = db
         /\ \A u, f \in Id : (<<u, f>> \in db.subs) # (<<u, f>> \in db'.subs)
              => db.users[u] = email \/ (u \in DOMAIN LegacyUsers /\ db.users[u] = LegacyUsers[u])
         /\ quiet /\ wanted = ticked
              => db' = db /\ (ppc' = "refused" => failures' > failures)
<1> DEFINE current == SubscriptionsOf(db, user)
<1>1. /\ ppc = "saving" /\ Sound(db) /\ user \in Id /\ wanted \subseteq Id
      /\ \/ db.users[user] \in {email, Nobody}
         \/ user \in DOMAIN LegacyUsers /\ db.users[user] = LegacyUsers[user]
      /\ failures \in Nat /\ email \in Email
  BY DEF Inv, TypeOK, SaveTx, Paged, LooksUp
<1>2. current = {f \in Feeds(db) : <<user, f>> \in db.subs}
  BY DEF SubscriptionsOf
<1>3. CASE Preferences.ok /\ db' = Preferences.db /\ ppc' = "saved"
  <2>1. /\ {user} \X (wanted \ current) \subseteq Users(db) \X Feeds(db)
        /\ db' = [db EXCEPT !.subs = (db.subs \ ({user} \X (current \ wanted)))
                                      \cup ({user} \X (wanted \ current))]
    BY <1>1, <1>3, SavedSubs
  <2>2. /\ db'.subs = (db.subs \ ({user} \X (current \ wanted))) \cup ({user} \X (wanted \ current))
        /\ db'.feeds = db.feeds
    BY <1>1, <2>1 DEF Sound, Database
  <2>3. Feeds(db') = Feeds(db)
    BY <2>2 DEF Feeds
  <2>4. \A f : <<user, f>> \in db'.subs <=>
             \/ <<user, f>> \in db.subs /\ f \notin current \ wanted
             \/ f \in wanted \ current
    BY <2>2
  <2>5. ASSUME NEW f \in wanted \ current
        PROVE  f \in Feeds(db) /\ user \in Users(db)
    <3>1. <<user, f>> \in {user} \X (wanted \ current)
      OBVIOUS
    <3>2. <<user, f>> \in Users(db) \X Feeds(db)
      BY <2>1, <3>1, Zenon
    <3> QED
      BY <3>2
  <2>6. SubscriptionsOf(db', user) = wanted
    <3>1. \A f : f \in SubscriptionsOf(db', user) <=> f \in Feeds(db) /\ <<user, f>> \in db'.subs
      BY <2>3 DEF SubscriptionsOf
    <3> QED
      BY <1>2, <2>4, <2>5, <3>1
  <2>7. ASSUME NEW u \in Id, NEW f \in Id, (<<u, f>> \in db.subs) # (<<u, f>> \in db'.subs)
        PROVE  db.users[u] = email \/ (u \in DOMAIN LegacyUsers /\ db.users[u] = LegacyUsers[u])
    <3>1. u = user
      BY <2>2, <2>7
    <3>2. user \in Users(db)
      <4>1. CASE <<user, f>> \in db.subs
        BY <1>1, <4>1 DEF Sound, Referring
      <4>2. CASE <<user, f>> \notin db.subs
        BY <2>4, <2>5, <2>7, <3>1, <4>2
      <4> QED
        BY <4>1, <4>2
    <3>3. db.users[user] # Nobody
      BY <3>2 DEF Users
    <3> QED
      BY <1>1, <3>1, <3>3
  <2>8. ASSUME quiet, wanted = ticked
        PROVE  db' = db
    <3>1. wanted = current
      BY <1>1, <2>8 DEF Inv, Paged, StillTrue
    <3>2. db'.subs = db.subs
      BY <2>2, <3>1
    <3> QED
      BY <1>1, <2>1, <2>2, <3>2 DEF Sound, Database
  <2> QED
    BY <1>3, <2>6, <2>7, <2>8
<1>4. CASE db' = db /\ ppc' = "refused" /\ (~Preferences.ok \/ failures' = failures + 1)
  <2>1. ASSUME quiet, wanted = ticked, ~Preferences.ok
        PROVE  FALSE
    <3>1. wanted = current
      BY <1>1, <2>1 DEF Inv, Paged, StillTrue
    <3>2. {user} \X (wanted \ current) = {}
      BY <3>1
    <3>3. SubscribeEach(Dropped, {}).ok
      BY DEF SubscribeEach
    <3>4. Preferences = SubscribeEach(Dropped, {})
      BY <1>1, <3>2, PreferencesSound
    <3> QED
      BY <2>1, <3>3, <3>4
  <2>2. failures' = failures + 1 => failures' > failures
    BY <1>1
  <2> QED
    BY <1>4, <2>1, <2>2
<1> QED
  BY <1>3, <1>4 DEF SaveTx, WithTx, PreferencesCut, Failed, Answer

\* A save of the preferences page gives the subscriber exactly the feeds that were
\* sent or changes nothing, never touches another account, and undoes nothing that
\* nobody asked for, for any subscribers, feeds and changes between the page and
\* its save (handlers.go:125-188).
THEOREM SavesAreExact == Spec => SavesExactly
<1>1. Inv /\ [Next]_vars =>
        [ppc = "saving" /\ ppc' # "saving" =>
           /\ ppc' = "saved" => SubscriptionsOf(db', user) = wanted
           /\ ppc' = "refused" => db' = db
           /\ \A u, f \in Id : (<<u, f>> \in db.subs) # (<<u, f>> \in db'.subs)
                => db.users[u] = email \/ (u \in DOMAIN LegacyUsers /\ db.users[u] = LegacyUsers[u])
           /\ quiet /\ wanted = ticked
                => db' = db /\ (ppc' = "refused" => failures' > failures)
        ]_<<db, ppc>>
  <2> SUFFICES ASSUME Inv, [Next]_vars, ppc = "saving", ppc' # "saving"
               PROVE  SaveTx
    BY SaveIsExact
  <2>1. CASE Operator
    BY <2>1, OperatorStep DEF Inv, page
  <2> QED
    BY <2>1 DEF Next, vars, page, Subscriber, Import, PageUser, PageFeeds, PageSubs, Tick,
       ClosePage, Submit, SubmitUnknown, Page, StartImport, ImportRow, NextStage, KillImport
<1> QED
  BY <1>1, Invariance, PTL DEF Spec, SavesExactly

=============================================================================
