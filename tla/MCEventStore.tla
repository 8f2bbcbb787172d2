---------------------------- MODULE MCEventStore -----------------------------
(***************************************************************************)
(* Instances of EventStore for TLC: one event, its creation and the        *)
(* operations that contend for it.                                         *)
(***************************************************************************)
EXTENDS EventStore, TLC

CONSTANTS s1, s2, n1, n2, n3   \* sessions and notification ids

Fields == {"title", "notes"}
Whole(v) == [f \in Fields |-> v]
One(f, v) == f :> v

Request(id, via, kind, event, base, edit, text) ==
  [id |-> id, via |-> via, kind |-> kind, event |-> event,
   base |-> base, edit |-> edit, text |-> text]

Create     == Request("create", "sync", "create", "e1", 0, Whole("a"), NoMessage)
Post       == Request("post",   "rest", "create", "e1", 0, Whole("a"), NoMessage)
EditNotes  == Request("notes",  "sync", "update", "e1", 1, One("notes", "b"), NoMessage)
PatchTitle == Request("patch",  "rest", "update", "e1", 1, One("title", "b"), NoMessage)
Remove     == Request("delete", "sync", "delete", "e1", 0, <<>>, NoMessage)
RestRemove == Request("rm",     "rest", "delete", "e1", 0, <<>>, NoMessage)
Notify     == Request("notify", "sync", "notify", "e1", 0, <<>>, "b")
Bell       == Request("bell",   "rest", "notify", "e1", 0, <<>>, NoMessage)
Unknown    == Request("other",  "sync", "other",  "e1", 0, <<>>, NoMessage)

Work(ops, limit, batch, ticks) ==
  [ops |-> ops, requests |-> limit, batch |-> batch, ticks |-> ticks]

Ops == {Create, Post, EditNotes, PatchTitle, Remove, RestRemove, Notify, Bell, Unknown}

\* Edits against a deletion, both ways in; what phones send may be in one batch
\* and may be sent again while an earlier copy is running.  And announcements
\* against each other and a deletion.
Loads == {Work({Create, EditNotes, PatchTitle, Remove}, 5, 2, 0),
          Work({Post, EditNotes, RestRemove, Notify, Bell, Unknown}, 4, 1, 3)}

Symmetry == Permutations(Session) \union Permutations(NotifId)
=============================================================================
