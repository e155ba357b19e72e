----------------------------- MODULE EventStream -----------------------------
(***************************************************************************)
(* The event stream of one conversation: openhands/events/stream.py on top *)
(* of openhands/events/event_store.py.                                     *)
(*                                                                         *)
(* Threads (the agent controller, the runtime, the web socket, memory) add *)
(* events; each event gets an id under a lock and is written to a file, to *)
(* a cache page when its page is full, and to a queue.  One dispatcher     *)
(* thread takes events from the queue and submits each to the one-thread   *)
(* pool of every subscriber.  Subscribers come and go, the stream may be   *)
(* closed, a write may fail and the process may crash and start again on   *)
(* the files it left.                                                      *)
(*                                                                         *)
(* An event is its id, the thread that added it and a serial number that   *)
(* tells any two events apart (the model's, not the code's: it stands for  *)
(* the contents).  The file store is two functions, one per directory.  A  *)
(* subscriber id has one callback.                                         *)
(***************************************************************************)
EXTENDS Integers, Sequences, FiniteSets

CONSTANTS
  Adders,       \* the threads that call add_event
  Subs,         \* subscriber ids; their order is the order of dispatch
  CacheSize,    \* cache_size, 25 in the code
  MaxEvents,    \* bound: events added, over all processes
  MaxCrashes,   \* bound: crashes
  Faults,       \* which of "crash", "write_error", "unsubscribe", "close" happen
  None

ASSUME StreamAssumption ==
  /\ Subs \subseteq Nat
  /\ CacheSize \in Nat \ {0}
  /\ MaxEvents \in Nat
  /\ MaxCrashes \in Nat
  /\ None \notin Nat

VARIABLES
  files,        \* the events directory: id |-> event
  cacheFiles,   \* the event_cache directory: first id |-> page
  curId,        \* cur_id, the next id
  pages,        \* every write page this process made; the last is _write_page_cache
  adder,        \* what each adding thread does: pc, its event, its page
  queue,        \* _queue
  disp,         \* the dispatcher thread: pc, the event in hand, keys still to visit
  keys,         \* the keys of _subscribers: subscribers that ever subscribed
  status,       \* each callback: "none", "opening" (registered, its pool is not),
                \* "subscribed", "closing" (its pool is shut down and drains)
  pool,         \* the tasks waiting in each callback's pool
  loop,         \* each callback's event loop: "none", "open", "closed"
  cleaner,      \* the calls inside _clean_up_subscriber, by subscriber:
                \* a subset of {"unsubscribe", "close"}
  closing,      \* close(): "open", "stopping", "cleaning", "closed", "failed"
  toClean,      \* the callbacks close() has still to clean up
  calls,        \* history: each callback's calls, with whether its loop was usable
  added,        \* history: events added so far, over all processes
  crashes

storeVars == <<files, cacheFiles, curId, pages>>
addVars   == <<adder, added>>
subVars   == <<keys, status, loop, cleaner>>
closeVars == <<closing, toClean>>
vars == <<storeVars, addVars, queue, disp, subVars, pool, closeVars, calls, crashes>>

-----------------------------------------------------------------------------
(* Values *)

Event == [id : Nat, no : Nat, by : Adders]

Idle == [pc |-> "idle"]
Adding(pc, e, p) == [pc |-> pc, event |-> e, page |-> p]
Getting == [pc |-> "get"]
Visiting(e, todo) == [pc |-> "each", event |-> e, todo |-> todo]

Put(f, i, v) == [j \in DOMAIN f \cup {i} |-> IF j = i THEN v ELSE f[j]]
Empty == [i \in {} |-> None]

\* _calculate_cur_id: one more than the highest id that has a file.
MutCountFiles(ids) == Cardinality(ids)

MutHighestId(ids) ==
  IF ids = {} THEN -1 ELSE CHOOSE m \in ids : \A n \in ids : n <= m

NextId(ids) ==
  IF ids = {} THEN 0 ELSE 1 + (CHOOSE m \in ids : \A n \in ids : n <= m)

\* search_events for one index: the page that the index belongs to when such a
\* page is stored, else the event's own file.
PageStart(i) == i - (i % CacheSize)

Read(i) ==
  IF PageStart(i) \in DOMAIN cacheFiles
  THEN cacheFiles[PageStart(i)][i - PageStart(i) + 1]
  ELSE IF i \in DOMAIN files THEN files[i] ELSE None

-----------------------------------------------------------------------------
(* __init__: a process starts on what the file store holds. *)

StartProcess ==
  /\ pages = << <<>> >>
  /\ adder = [t \in Adders |-> Idle]
  /\ queue = <<>>
  /\ disp = Getting
  /\ keys = {}
  /\ status = [s \in Subs |-> "none"]
  /\ pool = [s \in Subs |-> <<>>]
  /\ loop = [s \in Subs |-> "none"]
  /\ cleaner = [s \in Subs |-> {}]
  /\ closing = "open"
  /\ toClean = {}
  /\ calls = [s \in Subs |-> <<>>]
  /\ curId = NextId(DOMAIN files)

Init ==
  /\ files = Empty
  /\ cacheFiles = Empty
  /\ added = 0
  /\ crashes = 0
  /\ StartProcess

\* The process dies between any two steps of its threads and another one
\* opens the same conversation.
Crash ==
  /\ "crash" \in Faults
  /\ crashes < MaxCrashes
  /\ crashes' = crashes + 1
  /\ pages' = << <<>> >>
  /\ adder' = [t \in Adders |-> Idle]
  /\ queue' = <<>>
  /\ disp' = Getting
  /\ keys' = {}
  /\ status' = [s \in Subs |-> "none"]
  /\ pool' = [s \in Subs |-> <<>>]
  /\ loop' = [s \in Subs |-> "none"]
  /\ cleaner' = [s \in Subs |-> {}]
  /\ closing' = "open"
  /\ toClean' = {}
  /\ calls' = [s \in Subs |-> <<>>]
  /\ curId' = NextId(DOMAIN files)
  /\ UNCHANGED <<files, cacheFiles, added>>

-----------------------------------------------------------------------------
(* add_event *)

\* The event goes to the end of the current write page; a full page is left
\* to the threads that hold it and a new one takes the events to come.
MutKeepFullPage(ps, e) == [ps EXCEPT ![Len(ps)] = Append(@, e)]

Grow(ps, e) ==
  LET grown == [ps EXCEPT ![Len(ps)] = Append(@, e)]
  IN IF Len(grown[Len(ps)]) = CacheSize THEN Append(grown, <<>>) ELSE grown

\* Under the lock: the next id and a place in the current page.  The thread
\* keeps the page itself, not a copy, and stores what it holds later.
AssignId(t) ==
  /\ adder[t].pc = "idle"
  /\ added < MaxEvents
  /\ LET e == [id |-> curId, no |-> added, by |-> t]
     IN /\ adder' = [adder EXCEPT ![t] = Adding("write", e, Len(pages))]
        /\ pages' = Grow(pages, e)
  /\ curId' = curId + 1
  /\ added' = added + 1
  /\ UNCHANGED <<files, cacheFiles, queue, disp, subVars, pool, closeVars, calls, crashes>>

\* file_store.write of the event's own file.
WriteFile(t) ==
  /\ adder[t].pc = "write"
  /\ files' = Put(files, adder[t].event.id, adder[t].event)
  /\ adder' = [adder EXCEPT ![t] = Adding("page", @.event, @.page)]
  /\ UNCHANGED <<cacheFiles, curId, pages, added, queue, disp, subVars, pool, closeVars, calls, crashes>>

\* The name of a page's file is its first id (and its end).
MutKeyAfter(page) == page[Len(page)].id + 1

CacheKey(page) == page[1].id

\* _store_cache_page: a page that is not full is left alone.
StoreCachePage(t) ==
  /\ adder[t].pc = "page"
  /\ LET page == pages[adder[t].page]
     IN cacheFiles' = IF Len(page) < CacheSize THEN cacheFiles
                      ELSE Put(cacheFiles, CacheKey(page), page)
  /\ adder' = [adder EXCEPT ![t] = Adding("put", @.event, @.page)]
  /\ UNCHANGED <<files, curId, pages, added, queue, disp, subVars, pool, closeVars, calls, crashes>>

\* Either write raises: add_event ends there, and the event is not queued.
WriteFails(t) ==
  /\ "write_error" \in Faults
  /\ \/ adder[t].pc = "write"
     \/ adder[t].pc = "page" /\ Len(pages[adder[t].page]) >= CacheSize
  /\ adder' = [adder EXCEPT ![t] = Idle]
  /\ UNCHANGED <<storeVars, added, queue, disp, subVars, pool, closeVars, calls, crashes>>

PutInQueue(t) ==
  /\ adder[t].pc = "put"
  /\ queue' = Append(queue, adder[t].event)
  /\ adder' = [adder EXCEPT ![t] = Idle]
  /\ UNCHANGED <<storeVars, added, disp, subVars, pool, closeVars, calls, crashes>>

-----------------------------------------------------------------------------
(* _process_queue, in the dispatcher thread *)

\* The keys are listed once per event.
MutVisitIdle ==
  /\ disp.pc = "get"
  /\ closing = "open"
  /\ queue # <<>>
  /\ disp' = Visiting(Head(queue), {s \in keys : pool[s] = <<>>})
  /\ queue' = Tail(queue)
  /\ UNCHANGED <<storeVars, addVars, subVars, pool, closeVars, calls, crashes>>

TakeEvent ==
  /\ disp.pc = "get"
  /\ closing = "open"
  /\ queue # <<>>
  /\ disp' = Visiting(Head(queue), keys)
  /\ queue' = Tail(queue)
  /\ UNCHANGED <<storeVars, addVars, subVars, pool, closeVars, calls, crashes>>

\* The next key in order.  A callback that is gone is skipped; one whose pool
\* is not there yet (KeyError) or shut down (RuntimeError) ends the thread.
Dispatch(s) ==
  /\ disp.pc = "each"
  /\ s \in disp.todo
  /\ \A r \in disp.todo : s <= r
  /\ \/ /\ status[s] = "subscribed"
        /\ disp' = Visiting(disp.event, disp.todo \ {s})
        /\ pool' = [pool EXCEPT ![s] = Append(@, disp.event)]
     \/ /\ status[s] = "none"
        /\ disp' = Visiting(disp.event, disp.todo \ {s})
        /\ UNCHANGED pool
     \/ /\ status[s] \in {"opening", "closing"}
        /\ disp' = [pc |-> "dead", at |-> status[s]]
        /\ UNCHANGED pool
  /\ UNCHANGED <<storeVars, addVars, queue, subVars, closeVars, calls, crashes>>

EventDone ==
  /\ disp.pc = "each"
  /\ disp.todo = {}
  /\ disp' = Getting
  /\ UNCHANGED <<storeVars, addVars, queue, subVars, pool, closeVars, calls, crashes>>

\* The stop flag is seen between two events.
DispatcherStops ==
  /\ disp.pc = "get"
  /\ closing # "open"
  /\ disp' = [pc |-> "stopped"]
  /\ UNCHANGED <<storeVars, addVars, queue, subVars, pool, closeVars, calls, crashes>>

\* A pool's thread runs its next task.  Its first task makes the event loop;
\* on a loop that clean-up closed the callback fails and the error handler
\* logs it.
MutAnyTask(s) ==
  /\ \E i \in DOMAIN pool[s] :
       /\ calls' = [calls EXCEPT ![s] =
            Append(@, [event |-> pool[s][i], ok |-> loop[s] # "closed"])]
       /\ pool' = [pool EXCEPT ![s] = SubSeq(@, 1, i - 1) \o SubSeq(@, i + 1, Len(@))]
  /\ loop' = [loop EXCEPT ![s] = IF @ = "none" THEN "open" ELSE @]
  /\ UNCHANGED <<storeVars, addVars, queue, disp, keys, status, cleaner, closeVars, crashes>>

RunCallback(s) ==
  /\ pool[s] # <<>>
  /\ calls' = [calls EXCEPT ![s] =
       Append(@, [event |-> Head(pool[s]), ok |-> loop[s] # "closed"])]
  /\ pool' = [pool EXCEPT ![s] = Tail(@)]
  /\ loop' = [loop EXCEPT ![s] = IF @ = "none" THEN "open" ELSE @]
  /\ UNCHANGED <<storeVars, addVars, queue, disp, keys, status, cleaner, closeVars, crashes>>

-----------------------------------------------------------------------------
(* subscribe and unsubscribe *)

\* The callback is registered first and its pool second.
Subscribe(s) ==
  /\ status[s] = "none"
  /\ keys' = keys \cup {s}
  /\ status' = [status EXCEPT ![s] = "opening"]
  /\ UNCHANGED <<storeVars, addVars, queue, disp, loop, cleaner, pool, closeVars, calls, crashes>>

RegisterPool(s) ==
  /\ status[s] = "opening"
  /\ status' = [status EXCEPT ![s] = "subscribed"]
  /\ UNCHANGED <<storeVars, addVars, queue, disp, keys, loop, cleaner, pool, closeVars, calls, crashes>>

\* _clean_up_subscriber up to the wait in pool.shutdown: the loop is closed and
\* the pool takes no more tasks.
CleanUpBegins(s, who) ==
  /\ status' = [status EXCEPT ![s] = "closing"]
  /\ loop' = [loop EXCEPT ![s] = IF @ = "open" THEN "closed" ELSE @]
  /\ cleaner' = [cleaner EXCEPT ![s] = @ \cup {who}]

\* The rest of it, once the pool's tasks are done.
MutNoWait(s, who) ==
  /\ who \in cleaner[s]
  /\ status[s] = "closing"
  /\ status' = [status EXCEPT ![s] = "none"]
  /\ loop' = [loop EXCEPT ![s] = IF @ = "closed" THEN "none" ELSE @]
  /\ cleaner' = [cleaner EXCEPT ![s] = @ \ {who}]

CleanUpEnds(s, who) ==
  /\ who \in cleaner[s]
  /\ status[s] = "closing"
  /\ pool[s] = <<>>
  /\ status' = [status EXCEPT ![s] = "none"]
  /\ loop' = [loop EXCEPT ![s] = IF @ = "closed" THEN "none" ELSE @]
  /\ cleaner' = [cleaner EXCEPT ![s] = @ \ {who}]

\* Another call removed the callback while this one waited: del raises KeyError.
CleanUpFails(s, who) ==
  /\ who \in cleaner[s]
  /\ status[s] # "closing"
  /\ cleaner' = [cleaner EXCEPT ![s] = @ \ {who}]
  /\ UNCHANGED <<status, loop>>

\* A component unsubscribes what it subscribed, once each time.
Unsubscribe(s) ==
  /\ "unsubscribe" \in Faults
  /\ status[s] \in {"subscribed", "closing"}
  /\ "unsubscribe" \notin cleaner[s]
  /\ CleanUpBegins(s, "unsubscribe")
  /\ UNCHANGED <<storeVars, addVars, queue, disp, keys, pool, closeVars, calls, crashes>>

UnsubscribeEnds(s) ==
  /\ CleanUpEnds(s, "unsubscribe") \/ CleanUpFails(s, "unsubscribe")
  /\ UNCHANGED <<storeVars, addVars, queue, disp, keys, pool, closeVars, calls, crashes>>

-----------------------------------------------------------------------------
(* close *)

Close ==
  /\ "close" \in Faults
  /\ closing = "open"
  /\ closing' = "stopping"
  /\ UNCHANGED <<storeVars, addVars, queue, disp, subVars, pool, toClean, calls, crashes>>

\* The dispatcher is joined, then the callbacks are listed.
MutListEarly ==
  /\ closing = "stopping"
  /\ toClean' = {s \in Subs : status[s] # "none"}
  /\ closing' = "cleaning"
  /\ UNCHANGED <<storeVars, addVars, queue, disp, subVars, pool, calls, crashes>>

MutJoinForever ==
  /\ closing = "stopping"
  /\ disp.pc = "stopped"
  /\ toClean' = {s \in Subs : status[s] # "none"}
  /\ closing' = "cleaning"
  /\ UNCHANGED <<storeVars, addVars, queue, disp, subVars, pool, calls, crashes>>

ListCallbacks ==
  /\ closing = "stopping"
  /\ disp.pc \in {"stopped", "dead"}
  /\ toClean' = {s \in Subs : status[s] # "none"}
  /\ closing' = "cleaning"
  /\ UNCHANGED <<storeVars, addVars, queue, disp, subVars, pool, calls, crashes>>

\* The next listed callback; one that is gone meanwhile is skipped, and one
\* that has no pool yet is removed at once.
CloseCallback(s) ==
  /\ closing = "cleaning"
  /\ s \in toClean
  /\ \A r \in Subs : "close" \notin cleaner[r]
  /\ \/ /\ status[s] \in {"subscribed", "closing"}
        /\ CleanUpBegins(s, "close")
        /\ UNCHANGED closeVars
     \/ /\ status[s] \in {"none", "opening"}
        /\ toClean' = toClean \ {s}
        /\ status' = [status EXCEPT ![s] = "none"]
        /\ UNCHANGED <<closing, loop, cleaner>>
  /\ UNCHANGED <<storeVars, addVars, queue, disp, keys, pool, calls, crashes>>

CallbackClosed(s) ==
  /\ \/ /\ CleanUpEnds(s, "close")
        /\ toClean' = toClean \ {s}
        /\ UNCHANGED closing
     \/ /\ CleanUpFails(s, "close")
        /\ closing' = "failed"
        /\ toClean' = {}
  /\ UNCHANGED <<storeVars, addVars, queue, disp, keys, pool, calls, crashes>>

CloseReturns ==
  /\ closing = "cleaning"
  /\ toClean = {}
  /\ closing' = "closed"
  /\ queue' = <<>>
  /\ UNCHANGED <<storeVars, addVars, disp, subVars, pool, toClean, calls, crashes>>

-----------------------------------------------------------------------------
AdderStep(t) == WriteFile(t) \/ StoreCachePage(t) \/ WriteFails(t) \/ PutInQueue(t)

DispatcherStep == TakeEvent \/ EventDone \/ DispatcherStops \/ \E s \in Subs : Dispatch(s)

CloseStep ==
  \/ ListCallbacks
  \/ CloseReturns
  \/ \E s \in Subs : CloseCallback(s) \/ CallbackClosed(s)

Next ==
  \/ \E t \in Adders : AssignId(t) \/ AdderStep(t)
  \/ DispatcherStep
  \/ \E s \in Subs : \/ RunCallback(s)
                     \/ Subscribe(s) \/ RegisterPool(s)
                     \/ Unsubscribe(s) \/ UnsubscribeEnds(s)
  \/ Close
  \/ CloseStep
  \/ Crash

Spec == Init /\ [][Next]_vars

\* Threads that are in the middle of a call run on; callbacks return.  Nobody
\* has to add, subscribe, unsubscribe or close.
Fairness ==
  /\ \A t \in Adders : WF_vars(AdderStep(t))
  /\ WF_vars(DispatcherStep)
  /\ WF_vars(CloseStep)
  /\ \A s \in Subs : /\ WF_vars(RunCallback(s))
                    /\ WF_vars(RegisterPool(s))
                    /\ WF_vars(UnsubscribeEnds(s))

FairSpec == Spec /\ Fairness

-----------------------------------------------------------------------------
(* Properties *)

IsPage(p) == p \in Seq(Event)

AdderType(a) ==
  \/ a = Idle
  \/ /\ a.pc \in {"write", "page", "put"}
     /\ a.event \in Event
     /\ a.page \in 1..Len(pages)
     /\ a = Adding(a.pc, a.event, a.page)

DispType ==
  \/ disp \in {Getting, [pc |-> "stopped"]}
  \/ disp \in [pc : {"dead"}, at : {"opening", "closing"}]
  \/ /\ disp.pc = "each"
     /\ disp.event \in Event
     /\ disp.todo \subseteq Subs
     /\ disp = Visiting(disp.event, disp.todo)

\* The type of every variable; the keys of the two directories are ids.
TypeOK ==
  /\ DOMAIN files \subseteq Nat
  /\ \A i \in DOMAIN files : files[i] \in Event
  /\ DOMAIN cacheFiles \subseteq Nat
  /\ \A i \in DOMAIN cacheFiles : IsPage(cacheFiles[i])
  /\ curId \in Nat
  /\ Len(pages) > 0 /\ \A n \in 1..Len(pages) : IsPage(pages[n])
  /\ DOMAIN adder = Adders /\ \A t \in Adders : AdderType(adder[t])
  /\ queue \in Seq(Event)
  /\ DispType
  /\ keys \subseteq Subs
  /\ status \in [Subs -> {"none", "opening", "subscribed", "closing"}]
  /\ pool \in [Subs -> Seq(Event)]
  /\ loop \in [Subs -> {"none", "open", "closed"}]
  /\ cleaner \in [Subs -> SUBSET {"unsubscribe", "close"}]
  /\ closing \in {"open", "stopping", "cleaning", "closed", "failed"}
  /\ toClean \subseteq Subs
  /\ calls \in [Subs -> Seq([event : Event, ok : BOOLEAN])]
  /\ added \in Nat
  /\ crashes \in Nat

\* The stream implements the log: ids are unique and a stored event is never
\* overwritten, whatever threads race in add_event, whichever writes fail and
\* whenever the process crashes; a callback runs at most once per event and
\* only when the event's file exists.
Log == INSTANCE EventLog WITH
         log  <- files,
         seen <- [s \in Subs |-> {calls[s][n].event.id : n \in DOMAIN calls[s]}]

ImplementsLog == Log!LogSpec

\* A cache page, once stored, never changes: the second thread that stores a
\* full page stores the same page, and a later process starts its pages at
\* other ids.
CachePagesFinal ==
  [][\A i \in DOMAIN cacheFiles :
       i \in DOMAIN cacheFiles' /\ cacheFiles'[i] = cacheFiles[i]]_cacheFiles

\* What search_events yields for an id is what that id's file holds: the page
\* cache only makes reading faster.
SearchMatchesFiles == \A i \in DOMAIN files : Read(i) = files[i]

\* The same as long as the process has not crashed: threads that share a page,
\* gaps left by failed writes and pages stored twice do not spoil it.
SearchMatchesUntilCrash == crashes = 0 => SearchMatchesFiles

Calls(s) == {calls[s][n].event : n \in DOMAIN calls[s]}
Before(s, e, f) ==
  \E m, n \in DOMAIN calls[s] : m < n /\ calls[s][m].event = e /\ calls[s][n].event = f

PerThreadOrder ==
  \A s \in Subs : \A e, f \in Calls(s) :
    e.by = f.by /\ Before(s, e, f) => e.no < f.no

SameOrderForAll ==
  \A s, r \in Subs : \A e, f \in Calls(s) \cap Calls(r) :
    Before(s, e, f) => ~Before(r, f, e)

\* A subscriber sees the events of one thread in the order that thread added
\* them, through two queues and three threads, and two subscribers never see
\* two events in opposite orders.
DeliveryOrder == PerThreadOrder /\ SameOrderForAll

\* A callback that is unsubscribed has no task left that could still call it:
\* the dispatcher and the clean-up, which take no common lock, never leave one.
NoTaskWhenGone == \A s \in Subs : status[s] \in {"none", "opening"} => pool[s] = <<>>

\* Once close() has returned no callback is called any more.
SilentAfterClose == closing = "closed" => \A s \in Subs : pool[s] = <<>>

\* The stream's own state is well formed and no callback is called that is gone, whether it
\* was unsubscribed or the stream closed.
StreamSound == TypeOK /\ NoTaskWhenGone /\ SilentAfterClose

DispatcherAlive == disp.pc # "dead"

Stored(n) ==
  \/ \E t \in Adders : adder[t].pc = "put" /\ adder[t].event.no = n
  \/ \E m \in DOMAIN queue : queue[m].no = n

\* An event that add_event has stored reaches every subscriber of that moment,
\* unless the subscriber leaves, the stream is closed or the dispatcher died.
EventReachesSubscribers ==
  \A n \in 0..MaxEvents - 1 : \A s \in Subs :
    (status[s] = "subscribed" /\ Stored(n))
      ~> ( \/ \E e \in Calls(s) : e.no = n
           \/ status[s] # "subscribed"
           \/ closing # "open"
           \/ ~DispatcherAlive )

\* close() comes to an end: it returns, or raises when an unsubscribe that ran
\* at the same time removed a callback first, or the process dies.
CloseEnds ==
  closing \in {"stopping", "cleaning"} ~> closing \in {"closed", "failed", "open"}
=============================================================================
