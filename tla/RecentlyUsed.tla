---------------------------- MODULE RecentlyUsed ----------------------------
(***************************************************************************)
(* What react-cache's LRU promises: its entries in the order of their last *)
(* use, of which trimming leaves the most recent ones.                     *)
(***************************************************************************)
EXTENDS SequencesExt

CONSTANTS Entry, Limits

VARIABLES
  recent,    \* the entries, most recently used first
  unread,    \* those that have been added and not used since
  limit

Init == recent = <<>> /\ unread = {} /\ limit \in Limits

Add(e) ==
  /\ e \notin Range(recent)
  /\ recent' = <<e>> \o recent
  /\ unread' = unread \cup {e}
  /\ UNCHANGED limit

Use(e) ==
  /\ \E i \in DOMAIN recent : recent[i] = e /\ recent' = <<e>> \o RemoveAt(recent, i)
  /\ unread' = unread \ {e}
  /\ UNCHANGED limit

Trim ==
  /\ Len(recent) > limit
  /\ recent' = SubSeq(recent, 1, limit)
  /\ unread' = unread \cap Range(recent')
  /\ UNCHANGED limit

SetLimit(n) == limit' = n /\ UNCHANGED <<recent, unread>>

Next ==
  \/ \E e \in Entry : Add(e) \/ Use(e)
  \/ Trim
  \/ \E n \in Limits : SetLimit(n)

Spec == Init /\ [][Next]_<<recent, unread, limit>>
=============================================================================
