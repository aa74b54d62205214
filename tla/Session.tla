------------------------------- MODULE Session -------------------------------
(***************************************************************************)
(* The watch session as those who use the client may see it: somebody asks *)
(* for a session, and it is opened with the labels of that moment.  It is  *)
(* the interface of two modules: Watcher, which has the threads behind it, *)
(* and Sidecar, which has a session in one step (ReceiveLabels and Notify, *)
(* Disturb for Ask, StartWatch and Reconnect for Serve).  The user of      *)
(* ResetLabels (client/client.go:241) relies on it: labels that were set   *)
(* are followed by a session for them, or one is asked for.                *)
(***************************************************************************)
EXTENDS Integers

CONSTANT NotYet  \* no session has been opened

VARIABLES
  labels,     \* the labels of the subscribers
  notifying,  \* they were set, and the session is not asked for yet
  asked,      \* a session is asked for
  served      \* the labels of the session opened last

interface == <<labels, notifying, asked, served>>

Init == notifying = FALSE /\ asked = FALSE /\ served = NotYet

\* Before the first session: the subscribers are made, with any labels.
Configure ==
  served = NotYet /\ asked' = TRUE /\ UNCHANGED <<notifying, served>>

\* ResetLabels, in two steps; the labels may be any.
SetLabels == notifying = FALSE /\ notifying' = TRUE /\ UNCHANGED <<asked, served>>

Notify == notifying = TRUE /\ notifying' = FALSE /\ asked' = TRUE /\ UNCHANGED <<labels, served>>

\* Also after a failure of the session, or of the attempt to open it.
Ask == asked' = TRUE /\ UNCHANGED <<labels, notifying, served>>

\* It may be asked for again already.
Serve ==
  /\ asked = TRUE /\ asked' \in BOOLEAN
  /\ served' = labels
  /\ UNCHANGED <<labels, notifying>>

Next == Configure \/ SetLabels \/ Notify \/ Ask \/ Serve

Spec == Init /\ [][Next]_interface

\* A session for other labels than the subscribers' is about to be replaced.
Promise == served \notin {NotYet, labels} => asked = TRUE \/ notifying = TRUE
=============================================================================
