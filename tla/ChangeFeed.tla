----------------------------- MODULE ChangeFeed ------------------------------
(***************************************************************************)
(* What the server's change_log promises to the phones that read it.       *)
(*                                                                         *)
(* A change has a sequence number and the key of the entity it is about.   *)
(* Numbers are issued in increasing order, but a transaction publishes its *)
(* changes only when it commits, so a change may appear BELOW changes that *)
(* are already visible.  What a reader can rely on is the order of the     *)
(* changes of one entity: a newly published one is above all the published *)
(* ones of the same key, and nothing is ever changed or withdrawn.         *)
(*                                                                         *)
(* EventStore is shown to implement this; PhoneSync is built on it.        *)
(***************************************************************************)
EXTENDS Integers

CONSTANT Key          \* entities: <<entity_type, entity_id>>

VARIABLES
  feed,               \* the committed changes, a set of [seq, key]
  issued              \* the highest sequence number handed out so far

feedVars == <<feed, issued>>

Change == [seq : Nat \ {0}, key : Key]

FeedTypeOK ==
  /\ feed \subseteq Change
  /\ issued \in Nat

FeedInit ==
  /\ feed = {}
  /\ issued = 0

\* An INSERT into change_log takes the next values of the bigserial.
Issue ==
  /\ issued' \in Nat
  /\ issued' > issued
  /\ UNCHANGED feed

\* A COMMIT makes the changes of one transaction visible.
Publish ==
  /\ feed \subseteq feed'
  /\ \A new \in feed' \ feed :
       /\ new \in Change
       /\ new.seq <= issued
       /\ \A old \in feed : old.key = new.key => old.seq < new.seq
  /\ \A a, b \in feed' : a.seq = b.seq => a = b
  /\ UNCHANGED issued

FeedNext == Issue \/ Publish

FeedSpec == FeedInit /\ [][FeedNext]_feedVars
=============================================================================
