------------------------------ MODULE EventLog ------------------------------
(***************************************************************************)
(* What an EventStream promises the components that share a conversation,  *)
(* with threads, queues, pages and callbacks left out.  A conversation is  *)
(* a log: an entry is added under an id that no entry has, and an entry    *)
(* that is in the log is there unchanged for ever, also for the processes  *)
(* that come after a crash.  Within the life of one process a subscriber   *)
(* is handed an entry at most once, and only when the entry is in the log. *)
(***************************************************************************)
EXTENDS Naturals

CONSTANTS Subs

VARIABLES
  log,    \* id |-> entry, defined on the ids that were stored
  seen    \* the ids each subscriber was called with in this process

logVars == <<log, seen>>

LogInit ==
  /\ DOMAIN log = {}
  /\ seen = [s \in Subs |-> {}]

\* One more entry: a fresh id, an entry that no id holds yet, and every other
\* entry as it was.
Store ==
  /\ \E i \in DOMAIN log' :
       /\ i \in Nat
       /\ i \notin DOMAIN log
       /\ DOMAIN log' = DOMAIN log \cup {i}
       /\ \A j \in DOMAIN log : log'[j] = log[j] /\ log'[j] # log'[i]
  /\ UNCHANGED seen

Handle(s) ==
  /\ \E i \in DOMAIN log :
       /\ i \notin seen[s]
       /\ seen' = [seen EXCEPT ![s] = @ \cup {i}]
  /\ UNCHANGED log

\* A new process has new subscribers and the old log.
Restart ==
  /\ seen' = [s \in Subs |-> {}]
  /\ UNCHANGED log

LogNext == Store \/ Restart \/ \E s \in Subs : Handle(s)

LogSpec == LogInit /\ [][LogNext]_logVars
=============================================================================
