---------------------------- MODULE WebHookStore ----------------------------
(***************************************************************************)
(* BatchedWebHookFileStore: writes and deletes go to the wrapped file      *)
(* store and, in batches, to a web hook that keeps a copy.  A batch leaves *)
(* when it is large enough, when its timer fires or on flush; it is sent   *)
(* by a thread pool, up to three times.                                    *)
(*                                                                         *)
(* A write or delete is its version number: version n is the n-th change   *)
(* made to the wrapped store.  A batch holds at most one version per path. *)
(* Everything under _batch_lock is one step.  Sizes are left out: any      *)
(* update may bring the batch to its limit.                                *)
(***************************************************************************)
EXTENDS Naturals, FiniteSets

CONSTANTS
  Writers,      \* threads that write
  Paths,
  MaxVersions,  \* bound: changes made
  MaxSends      \* stop_after_attempt

ASSUME WebHookAssumption == {MaxVersions, MaxSends} \subseteq Nat \ {0}

VARIABLES
  local,     \* the wrapped store: each path's version
  remote,    \* the web hook's copy
  writing,   \* the change each writer has made and not yet queued
  batch,     \* _batch: each path's queued version, or 0
  timer,     \* _batch_timer is running
  sending,   \* batches in the pool, with the attempts left
  hookMet    \* history: changes made, and what may leave the copy behind

hookVars == <<local, remote, writing, batch, timer, sending, hookMet>>

Nothing == [path |-> 0, version |-> 0]
EmptyBatch == [p \in Paths |-> 0]

HookInit ==
  /\ local = EmptyBatch /\ remote = EmptyBatch /\ batch = EmptyBatch
  /\ writing = [w \in Writers |-> Nothing]
  /\ timer = FALSE /\ sending = {}
  /\ hookMet = [versions |-> 0, dropped |-> FALSE, overtaken |-> FALSE]

-----------------------------------------------------------------------------
\* write, delete: the wrapped store first.
ChangesFile(w, p) ==
  /\ writing[w] = Nothing /\ hookMet.versions < MaxVersions
  /\ LET v == hookMet.versions + 1 IN
     /\ local' = [local EXCEPT ![p] = v]
     /\ writing' = [writing EXCEPT ![w] = [path |-> p, version |-> v]]
     /\ hookMet' = [hookMet EXCEPT !.versions = v]
  /\ UNCHANGED <<remote, batch, timer, sending>>

MutEnqueueKeepsBatch(b) ==
  /\ batch' = b /\ timer' = FALSE
  /\ sending' = sending \cup {[batch |-> b, left |-> MaxSends]}

\* _enqueue_batch_from_lock: the batch is handed to the pool and the timer cancelled.
Enqueue(b) ==
  /\ batch' = EmptyBatch /\ timer' = FALSE
  /\ sending' = sending \cup {[batch |-> b, left |-> MaxSends]}

\* _queue_update
QueuesUpdate(w) ==
  /\ writing[w] # Nothing
  /\ LET p == writing[w].path
         b == [batch EXCEPT ![p] = writing[w].version] IN
     /\ \/ Enqueue(b)                      \* the size limit is reached
        \/ batch' = b /\ timer' = TRUE /\ UNCHANGED sending
     /\ hookMet' = [hookMet EXCEPT !.overtaken = @ \/ writing[w].version < local[p]]
  /\ writing' = [writing EXCEPT ![w] = Nothing]
  /\ UNCHANGED <<local, remote>>

\* _enqueue_batch_from_timer
TimerFires ==
  /\ timer
  /\ Enqueue(batch)
  /\ UNCHANGED <<local, remote, writing, hookMet>>

\* flush, which waits for the request to be answered
Flush ==
  /\ batch # EmptyBatch
  /\ Enqueue(batch)
  /\ UNCHANGED <<local, remote, writing, hookMet>>

\* _send_batch_request: the hook applies the batch; its answer may be lost and the batch sent again.
Applies(s) ==
  /\ remote' = [p \in Paths |-> IF s.batch[p] # 0 THEN s.batch[p] ELSE remote[p]]
  /\ \/ sending' = sending \ {s}
     \/ s.left > 1 /\ sending' = (sending \ {s}) \cup {[s EXCEPT !.left = @ - 1]}
  /\ hookMet' = [hookMet EXCEPT !.overtaken =
                   @ \/ \E p \in Paths : s.batch[p] # 0 /\ s.batch[p] < remote[p]]
  /\ UNCHANGED <<local, writing, batch, timer>>

\* The request fails; after the last attempt the batch is logged and dropped.
SendFails(s) ==
  /\ sending' = IF s.left > 1 THEN (sending \ {s}) \cup {[s EXCEPT !.left = @ - 1]}
                ELSE sending \ {s}
  /\ hookMet' = [hookMet EXCEPT !.dropped = @ \/ (s.left = 1 /\ s.batch # EmptyBatch)]
  /\ UNCHANGED <<local, remote, writing, batch, timer>>

HookNext ==
  \/ \E w \in Writers : QueuesUpdate(w) \/ \E p \in Paths : ChangesFile(w, p)
  \/ TimerFires \/ Flush
  \/ \E s \in sending : Applies(s) \/ SendFails(s)

HookSpec == HookInit /\ [][HookNext]_hookVars

-----------------------------------------------------------------------------
\* A queued change is never stranded without a timer, and once nothing is queued or on its way the
\* web hook's copy equals the store, unless a batch was dropped after its last attempt or an older
\* change overtook a newer one of the same path (two batches in the pool at once, or two writers of
\* one path queueing in the other order).
HookCatchesUp ==
  /\ batch # EmptyBatch => timer
  /\ (sending = {} /\ batch = EmptyBatch /\ \A w \in Writers : writing[w] = Nothing) =>
       remote = local \/ hookMet.dropped \/ hookMet.overtaken
=============================================================================
