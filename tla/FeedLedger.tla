------------------------------ MODULE FeedLedger ------------------------------
(***************************************************************************)
(* What a feed promises of its items, whatever crawls, catch-ups, requests *)
(* and crashes do.  An item is mailed only while the feed is there and the *)
(* item unseen, and in the very step that makes it seen: no crash can come *)
(* between, so that no subscriber gets it twice and none of those mailed   *)
(* in that step is left out.  What is seen stays seen until an operator    *)
(* rewinds it or deletes the feed, and what is deleted stays silent.       *)
(***************************************************************************)
EXTENDS Integers

CONSTANTS Guid, User

VARIABLES
  feed,  \* "unused", "live", "deleted"
  seen,  \* items that are not to be mailed
  mails  \* mails[<<g, u>>]: mails of item g queued for subscriber u

vars == <<feed, seen, mails>>

Init ==
  /\ feed = "unused"
  /\ seen = {}
  /\ mails = [m \in Guid \X User |-> 0]

Open ==
  /\ feed = "unused"
  /\ feed' = "live"
  /\ UNCHANGED <<seen, mails>>

\* An unseen item is mailed to some subscribers and is seen from then on.
Mail(g, U) ==
  /\ feed = "live"
  /\ g \notin seen
  /\ seen' = seen \cup {g}
  /\ mails' = [m \in Guid \X User |-> mails[m] + IF m \in {g} \X U THEN 1 ELSE 0]
  /\ UNCHANGED feed

\* Nobody is to get the item: there are no subscribers, or a catch-up skips it.
Mark(g) ==
  /\ feed = "live"
  /\ seen' = seen \cup {g}
  /\ UNCHANGED <<feed, mails>>

Rewind(S) ==
  /\ feed = "live"
  /\ seen' = seen \ S
  /\ UNCHANGED <<feed, mails>>

Delete ==
  /\ feed = "live"
  /\ feed' = "deleted"
  /\ seen' = {}
  /\ UNCHANGED mails

Next ==
  \/ Open \/ Delete
  \/ \E g \in Guid : Mark(g) \/ \E U \in SUBSET User : Mail(g, U)
  \/ \E S \in SUBSET Guid : Rewind(S)

Spec == Init /\ [][Next]_vars

=============================================================================
