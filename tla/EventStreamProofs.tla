------------------------- MODULE EventStreamProofs -------------------------
(***************************************************************************)
(* For any threads, subscribers, page size and faults: the stream is       *)
(* sound, delivers in order, implements EventLog and never changes a       *)
(* stored page; until the first crash searching yields what the files hold.*)
(***************************************************************************)
EXTENDS EventStream, SequenceTheorems, WellFoundedInduction, TLAPS

-----------------------------------------------------------------------------
(* The inductive invariants *)

\* What is in a sequence.
Elems(q) == {q[n] : n \in DOMAIN q}

\* e comes before f in a sequence.
InOrder(q, e, f) == \E m, n \in DOMAIN q : m < n /\ q[m] = e /\ q[n] = f

\* A thread inside add_event.
Busy(t) == adder[t].pc # "idle"

\* The types; a sequence of pages, a next id above every stored one.
Typed ==
  /\ TypeOK
  /\ pages \in Seq(Seq(Event))
  /\ \A i \in DOMAIN files : i < curId
  /\ \A t \in Adders : Busy(t) => adder[t].event.id < curId

\* From the join of the dispatcher on, no pool gets a task; close() leaves no
\* callback it has cleaned up with one.
Joined == closing \in {"cleaning", "closed"} => disp.pc \in {"stopped", "dead"}

Cleaned == closing = "cleaning" => \A s \in Subs \ toClean : pool[s] = <<>>

SoundInv == Typed /\ NoTaskWhenGone /\ SilentAfterClose /\ Joined /\ Cleaned

\* What a subscriber was called with, and what may still come: the tasks of its
\* pool, the event the dispatcher has in hand, the queue.
Called(s) == [n \in DOMAIN calls[s] |-> calls[s][n].event]

InHand(s) == IF disp.pc = "each" /\ s \in disp.todo THEN {disp.event} ELSE {}

Reach(s) == Elems(Called(s)) \cup Elems(pool[s]) \cup InHand(s) \cup Elems(queue)

\* e comes before f on that way.
Leads(s, e, f) ==
  \/ InOrder(Called(s), e, f)
  \/ InOrder(pool[s], e, f)
  \/ InOrder(queue, e, f)
  \/ e \in Elems(Called(s)) /\ f \in Elems(pool[s]) \cup InHand(s) \cup Elems(queue)
  \/ e \in Elems(pool[s]) /\ f \in InHand(s) \cup Elems(queue)
  \/ e \in InHand(s) /\ f \in Elems(queue)

\* What the threads inside add_event hold.
Held ==
  \A t \in Adders : Busy(t) =>
    /\ adder[t].event.no < added
    /\ adder[t].event.by = t
    /\ adder[t].pc = "write" => adder[t].event.id \notin DOMAIN files
    /\ adder[t].pc # "write" => /\ adder[t].event.id \in DOMAIN files
                                /\ files[adder[t].event.id] = adder[t].event
    /\ \A u \in Adders \ {t} : Busy(u) => adder[u].event.id # adder[t].event.id

\* A file holds the event of its id.
Filed == \A i \in DOMAIN files : files[i].id = i

\* What is on its way is stored, and older than what its thread adds now.
OnWay ==
  \A s \in Subs : \A e \in Reach(s) :
    /\ e.id \in DOMAIN files /\ files[e.id] = e
    /\ e.no < added
    /\ \A t \in Adders : Busy(t) => /\ e.id # adder[t].event.id
                                    /\ e.by = t => e.no < adder[t].event.no

\* The order is the same for all subscribers and agrees with every thread's.
InLine ==
  \A s \in Subs : \A e, f \in Event :
    Leads(s, e, f) => /\ e.id # f.id
                      /\ e.by = f.by => e.no < f.no
                      /\ \A r \in Subs : ~Leads(r, f, e)

FlowInv == Held /\ Filed /\ OnWay /\ InLine

\* All pages but the last are full; their ids ascend.
PagesFull ==
  /\ \A n \in 1..Len(pages) - 1 : Len(pages[n]) = CacheSize
  /\ Len(pages[Len(pages)]) < CacheSize

Consecutive ==
  \A n \in 1..Len(pages) : \A m \in 1..Len(pages[n]) :
    /\ pages[n][m].id = pages[n][1].id + m - 1
    /\ pages[n][m].id < curId
    /\ \A k \in 1..n - 1 : \A l \in 1..Len(pages[k]) : pages[k][l].id < pages[n][m].id

LastConsecutive ==
  LET last == pages[Len(pages)]
  IN last # <<>> => curId = last[1].id + Len(last)

\* A thread inside add_event holds the page its event is in.
HeldPage ==
  \A t \in Adders : Busy(t) => adder[t].event \in Elems(pages[adder[t].page])

\* A stored page is a page of this process, or its ids are below all of this process's.
PageStored ==
  \A i \in DOMAIN cacheFiles :
    /\ \E j \in DOMAIN files : i <= j
    /\ \/ \E n \in 1..Len(pages) : /\ Len(pages[n]) = CacheSize
                                   /\ cacheFiles[i] = pages[n] /\ i = pages[n][1].id
       \/ \A n \in 1..Len(pages) : \A m \in 1..Len(pages[n]) : i < pages[n][m].id

PageInv == PagesFull /\ Consecutive /\ LastConsecutive /\ HeldPage /\ PageStored

\* Before the first crash every stored event and page is this process's.
FirstProcess ==
  crashes = 0 =>
    /\ \A i \in DOMAIN files : \E n \in 1..Len(pages) : files[i] \in Elems(pages[n])
    /\ \A i \in DOMAIN cacheFiles : \E n \in 1..Len(pages) :
         Len(pages[n]) = CacheSize /\ cacheFiles[i] = pages[n] /\ i = pages[n][1].id

-----------------------------------------------------------------------------
(* Sequences and ids *)

\* A sequence that grows: its elements, and what comes before what.
LEMMA AppendInOrder ==
  ASSUME NEW S, NEW q \in Seq(S), NEW e \in S
  PROVE  /\ Append(q, e) \in Seq(S)
         /\ Elems(Append(q, e)) = Elems(q) \cup {e}
         /\ \A a, b : InOrder(Append(q, e), a, b) =>
              InOrder(q, a, b) \/ (a \in Elems(q) /\ b = e)
PROOF
<1> DEFINE r == Append(q, e)
<1>1. Len(q) \in Nat /\ DOMAIN q = 1..Len(q)
  BY LenProperties
<1>2. /\ r \in Seq(S) /\ Len(r) = Len(q) + 1 /\ DOMAIN r = 1..Len(q) + 1
      /\ r[Len(q) + 1] = e /\ \A n \in 1..Len(q) : r[n] = q[n]
  BY <1>1, AppendProperties, LenProperties
<1> HIDE DEF r
<1>3. \A n \in DOMAIN r : \/ n \in DOMAIN q /\ r[n] = q[n]
                          \/ n = Len(q) + 1 /\ r[n] = e
  BY <1>1, <1>2
<1>4. Elems(r) = Elems(q) \cup {e}
  <2>1. Elems(r) \subseteq Elems(q) \cup {e}
    BY <1>3 DEF Elems
  <2>2. Elems(q) \cup {e} \subseteq Elems(r)
    BY <1>1, <1>2 DEF Elems
  <2> QED
    BY <2>1, <2>2
<1>5. ASSUME NEW a, NEW b, InOrder(r, a, b)
      PROVE  InOrder(q, a, b) \/ (a \in Elems(q) /\ b = e)
  <2>1. PICK m \in DOMAIN r, n \in DOMAIN r : m < n /\ r[m] = a /\ r[n] = b
    BY <1>5 DEF InOrder
  <2>2. m \in DOMAIN q /\ r[m] = q[m]
    BY <1>1, <1>2, <2>1
  <2> QED
    BY <1>3, <2>1, <2>2 DEF InOrder, Elems
<1> QED
  BY <1>2, <1>4, <1>5 DEF r

\* The head of a sequence and what follows it.
LEMMA TailInOrder ==
  ASSUME NEW S, NEW q \in Seq(S), q # <<>>
  PROVE  /\ Tail(q) \in Seq(S) /\ Head(q) \in S
         /\ Elems(q) = {Head(q)} \cup Elems(Tail(q))
         /\ \A a, b : InOrder(Tail(q), a, b) => InOrder(q, a, b)
         /\ \A b \in Elems(Tail(q)) : InOrder(q, Head(q), b)
PROOF
<1>1. Len(q) \in Nat /\ Len(q) > 0 /\ DOMAIN q = 1..Len(q)
  BY EmptySeq, LenProperties
<1>2. /\ Tail(q) \in Seq(S) /\ Head(q) \in S /\ Head(q) = q[1]
      /\ \A n \in 1..Len(q) - 1 : Tail(q)[n] = q[n + 1]
      /\ DOMAIN Tail(q) = 1..Len(q) - 1
  BY <1>1, HeadTailProperties, LenProperties
<1>3. \A n \in DOMAIN Tail(q) : 1 < n + 1 /\ n + 1 \in DOMAIN q /\ Tail(q)[n] = q[n + 1]
  BY <1>1, <1>2
<1>4. 1 \in DOMAIN q
  BY <1>1
<1>5. \A n \in DOMAIN q : n = 1 \/ (n - 1 \in DOMAIN Tail(q) /\ q[n] = Tail(q)[n - 1])
  BY <1>1, <1>2
<1>6. Elems(q) = {Head(q)} \cup Elems(Tail(q))
  <2>1. Elems(q) \subseteq {Head(q)} \cup Elems(Tail(q))
    BY <1>2, <1>5 DEF Elems
  <2>2. {Head(q)} \cup Elems(Tail(q)) \subseteq Elems(q)
    BY <1>2, <1>3, <1>4 DEF Elems
  <2> QED
    BY <2>1, <2>2
<1>7. ASSUME NEW a, NEW b, InOrder(Tail(q), a, b) PROVE InOrder(q, a, b)
  <2>1. PICK m \in DOMAIN Tail(q), n \in DOMAIN Tail(q) :
          m < n /\ Tail(q)[m] = a /\ Tail(q)[n] = b
    BY <1>7 DEF InOrder
  <2>2. m + 1 < n + 1
    BY <1>1, <1>2, <2>1
  <2> QED
    BY <1>3, <2>1, <2>2 DEF InOrder
<1>8. ASSUME NEW b \in Elems(Tail(q)) PROVE InOrder(q, Head(q), b)
  <2>1. PICK n \in DOMAIN Tail(q) : Tail(q)[n] = b
    BY DEF Elems
  <2> QED
    BY <1>2, <1>3, <1>4, <2>1 DEF InOrder
<1> QED
  BY <1>2, <1>6, <1>7, <1>8

\* The elements of a sequence have its type.
LEMMA ElemsTyped ==
  ASSUME NEW S, NEW q \in Seq(S)
  PROVE  Elems(q) \subseteq S
PROOF
  BY ElementOfSeq, LenProperties DEF Elems

\* A bounded set of naturals has a greatest element.
LEMMA Greatest ==
  ASSUME NEW S, S \subseteq Nat, S # {}, NEW k \in Nat, \A x \in S : x < k
  PROVE  \E m \in S : \A n \in S : n <= m
PROOF
<1> DEFINE P == {n \in Nat : \A x \in S : x <= n}
<1>1. k \in P
  OBVIOUS
<1>2. PICK m \in P : \A n \in P : m <= n
  <2>1. \E m \in P : \A n \in P : ~ (<<n, m>> \in OpToRel(<, Nat))
    <3> HIDE DEF P
    <3>1. P \subseteq Nat
      BY DEF P
    <3> QED
      BY <1>1, <3>1, NatLessThanWellFounded, WFMin
  <2>2. PICK m \in P : \A n \in P : ~ (<<n, m>> \in OpToRel(<, Nat))
    BY <2>1
  <2>3. \A n \in P : ~ (n < m)
    BY <2>2 DEF OpToRel
  <2> QED
    BY <2>3
<1>3. m \in S
  <2> SUFFICES ASSUME m \notin S PROVE FALSE
    OBVIOUS
  <2>1. PICK y : y \in S
    OBVIOUS
  <2>2. \A x \in S : x <= m - 1
    BY <1>2
  <2>3. m - 1 \in P
    BY <2>1, <2>2
  <2> QED
    BY <1>2, <2>3
<1> QED
  BY <1>2, <1>3

\* The next id is above all stored ones, and no higher than needed.
LEMMA NextIdAbove ==
  ASSUME NEW S, S \subseteq Nat, NEW k \in Nat, \A x \in S : x < k
  PROVE  /\ NextId(S) \in Nat
         /\ \A x \in S : x < NextId(S)
         /\ S = {} => NextId(S) = 0
PROOF
<1>1. CASE S = {}
  BY <1>1 DEF NextId
<1>2. CASE S # {}
  <2> DEFINE m == CHOOSE m \in S : \A n \in S : n <= m
  <2>1. m \in S /\ \A n \in S : n <= m
    BY <1>2, Greatest
  <2>2. NextId(S) = 1 + m
    BY <1>2 DEF NextId
  <2> HIDE DEF m
  <2> QED
    BY <1>2, <2>1, <2>2
<1> QED
  BY <1>1, <1>2

-----------------------------------------------------------------------------
(* The stream is sound *)

\* What TypeOK says of the files, the pages and the threads that add.
StoreTyped ==
  /\ DOMAIN files \subseteq Nat
  /\ \A i \in DOMAIN files : files[i] \in Event
  /\ DOMAIN cacheFiles \subseteq Nat
  /\ \A i \in DOMAIN cacheFiles : IsPage(cacheFiles[i])
  /\ curId \in Nat
  /\ pages \in Seq(Seq(Event)) /\ Len(pages) > 0
  /\ DOMAIN adder = Adders /\ \A t \in Adders : AdderType(adder[t])
  /\ added \in Nat
  /\ \A i \in DOMAIN files : i < curId
  /\ \A t \in Adders : Busy(t) => adder[t].event.id < curId

\* And of the rest.
DeliveryTyped ==
  /\ queue \in Seq(Event)
  /\ DispType
  /\ keys \subseteq Subs
  /\ status \in [Subs -> {"none", "opening", "subscribed", "closing"}]
  /\ pool \in [Subs -> Seq(Event)]
  /\ loop \in [Subs -> {"none", "open", "closed"}]
  /\ cleaner \in [Subs -> SUBSET {"unsubscribe", "close"}]
  /\ closing \in {"open", "stopping", "cleaning", "closed", "failed"}
  /\ toClean \subseteq Subs
  /\ calls \in [Subs -> Seq([event : Event, ok : BOOLEAN])]
  /\ crashes \in Nat

\* The two parts are all of it.
LEMMA TypedParts == Typed <=> StoreTyped /\ DeliveryTyped
PROOF
<1>1. pages \in Seq(Seq(Event)) => \A n \in 1..Len(pages) : IsPage(pages[n])
  BY ElementOfSeq DEF IsPage
<1> QED
  BY <1>1 DEF Typed, TypeOK, StoreTyped, DeliveryTyped

\* A new conversation satisfies the invariant.
LEMMA SoundInit == Init => SoundInv
PROOF
<1> SUFFICES ASSUME Init PROVE SoundInv
  OBVIOUS
<1>1. DOMAIN files = {} /\ DOMAIN cacheFiles = {} /\ curId = 0
  BY DEF Init, Empty, StartProcess, NextId
<1>2. pages \in Seq(Seq(Event)) /\ Len(pages) = 1 /\ pages[1] = <<>> /\ queue \in Seq(Event)
  BY DEF Init, StartProcess
<1>3. StoreTyped
  BY <1>1, <1>2 DEF Init, StartProcess, StoreTyped, AdderType, Busy, Idle
<1>4. DeliveryTyped
  BY <1>2 DEF Init, StartProcess, DeliveryTyped, DispType
<1> QED
  BY <1>1, <1>2, <1>3, <1>4, TypedParts
     DEF Init, StartProcess, SoundInv, Typed, NoTaskWhenGone, SilentAfterClose, Joined, Cleaned

\* A crash: the new process starts above every stored id.
LEMMA SoundCrash ==
  ASSUME SoundInv, Crash
  PROVE  SoundInv'
PROOF
<1>1. curId' \in Nat /\ \A i \in DOMAIN files : i < curId'
  BY NextIdAbove DEF SoundInv, Typed, TypeOK, Crash
<1>2. /\ pages' \in Seq(Seq(Event)) /\ Len(pages') = 1 /\ pages'[1] = <<>>
      /\ queue' \in Seq(Event)
  BY DEF Crash
<1>3. StoreTyped'
  BY <1>1, <1>2, TypedParts DEF SoundInv, Crash, StoreTyped, AdderType, Busy, Idle
<1>4. DeliveryTyped'
  BY <1>2, TypedParts DEF SoundInv, Crash, DeliveryTyped, DispType
<1>5. Typed'
  BY <1>3, <1>4, TypedParts, PTL
<1> QED
  BY <1>2, <1>5
     DEF Crash, SoundInv, Typed, NoTaskWhenGone, SilentAfterClose, Joined, Cleaned

\* The end of a page grows: the page it goes to, and the pages as a whole.
LEMMA GrowPages ==
  ASSUME NEW ps \in Seq(Seq(Event)), ps # <<>>, NEW e \in Event
  PROVE  LET last == Append(ps[Len(ps)], e)
         IN /\ Grow(ps, e) \in Seq(Seq(Event))
            /\ last \in Seq(Event) /\ Len(last) = Len(ps[Len(ps)]) + 1
            /\ Len(Grow(ps, e)) = IF Len(last) = CacheSize THEN Len(ps) + 1 ELSE Len(ps)
            /\ Grow(ps, e)[Len(ps)] = last
            /\ \A n \in 1..Len(ps) - 1 : Grow(ps, e)[n] = ps[n]
            /\ Len(last) = CacheSize => Grow(ps, e)[Len(ps) + 1] = <<>>
PROOF
<1> DEFINE k == Len(ps)
           last == Append(ps[k], e)
           grown == [ps EXCEPT ![k] = last]
<1>1. k \in Nat /\ k > 0 /\ DOMAIN ps = 1..k /\ k \in 1..k
  BY EmptySeq, LenProperties
<1>2. ps[k] \in Seq(Event)
  BY <1>1, ElementOfSeq
<1>3. last \in Seq(Event) /\ Len(last) = Len(ps[k]) + 1
  BY <1>2, AppendProperties
<1> HIDE DEF last
<1>4. /\ grown \in Seq(Seq(Event)) /\ Len(grown) = k /\ grown[k] = last
      /\ \A n \in 1..k - 1 : grown[n] = ps[n]
  <2>1. /\ grown \in Seq(Seq(Event)) /\ Len(grown) = Len(ps)
        /\ \A n \in 1..Len(ps) : grown[n] = IF n = k THEN last ELSE ps[n]
    BY <1>1, <1>3, ExceptSeq
  <2> HIDE DEF grown
  <2>2. \A n \in 1..k - 1 : n \in 1..k /\ n # k
    <3> HIDE DEF k
    <3> QED
      BY <1>1
  <2> QED
    BY <1>1, <2>1, <2>2
<1>5. <<>> \in Seq(Event)
  OBVIOUS
<1>6. Grow(ps, e) = IF Len(last) = CacheSize THEN Append(grown, <<>>) ELSE grown
  BY <1>4 DEF Grow, last
<1> HIDE DEF grown
<1> DEFINE more == Append(grown, <<>>)
<1>7. /\ more \in Seq(Seq(Event)) /\ Len(more) = k + 1 /\ more[k + 1] = <<>>
      /\ \A n \in 1..k : more[n] = grown[n]
  BY <1>4, <1>5, AppendProperties
<1> HIDE DEF more
<1>8. Grow(ps, e) = IF Len(last) = CacheSize THEN more ELSE grown
  BY <1>6 DEF more
<1>9. \A n \in 1..k - 1 : n \in 1..k
  BY <1>1
<1> QED
  BY <1>1, <1>3, <1>4, <1>7, <1>8, <1>9 DEF last

\* Every step of add_event keeps the types of files, pages and threads.
LEMMA AddersTyped ==
  ASSUME StoreTyped, NEW t \in Adders, AssignId(t) \/ AdderStep(t)
  PROVE  StoreTyped'
PROOF
<1>1. AdderType(adder[t]) /\ DOMAIN adder = Adders
  BY DEF StoreTyped
<1>2. CASE AssignId(t)
  <2> DEFINE e == [id |-> curId, no |-> added, by |-> t]
  <2>1. e \in Event /\ pages' = Grow(pages, e) /\ pages # <<>>
    BY <1>2 DEF AssignId, StoreTyped, Event
  <2>2. pages' \in Seq(Seq(Event)) /\ Len(pages) \in Nat /\ Len(pages) <= Len(pages')
    BY <2>1, GrowPages, LenProperties DEF StoreTyped
  <2>3. \A u \in Adders : AdderType(adder[u])'
    <3>1. adder' = [adder EXCEPT ![t] = Adding("write", e, Len(pages))]
      BY <1>2 DEF AssignId
    <3> HIDE DEF e
    <3> QED
      BY <2>1, <2>2, <3>1 DEF StoreTyped, AdderType, Adding, Idle
  <2>4. \A u \in Adders : Busy(u)' => adder'[u].event.id < curId'
    <3>1. /\ curId' = curId + 1 /\ adder'[t].event.id = curId
          /\ \A u \in Adders \ {t} : adder'[u] = adder[u]
      BY <1>1, <1>2 DEF AssignId, Adding
    <3>2. \A u \in Adders : Busy(u) => adder[u].event.id \in Nat
      BY DEF StoreTyped, Busy, AdderType, Idle, Event
    <3>3. curId \in Nat
      BY DEF StoreTyped
    <3>4. ASSUME NEW u \in Adders, Busy(u)' PROVE adder'[u].event.id < curId'
      <4>1. CASE u = t
        BY <3>1, <3>3, <4>1
      <4>2. CASE u # t
        <5>1. adder'[u] = adder[u] /\ Busy(u)
          BY <3>1, <3>4, <4>2 DEF Busy
        <5>2. adder[u].event.id \in Nat /\ adder[u].event.id < curId
          BY <3>2, <5>1 DEF StoreTyped
        <5> QED
          BY <3>1, <3>3, <5>1, <5>2
      <4> QED
        BY <4>1, <4>2
    <3> QED
      BY <3>4
  <2> QED
    BY <1>2, <2>2, <2>3, <2>4 DEF AssignId, StoreTyped
<1>3. CASE WriteFile(t)
  <2>1. adder[t].event \in Event /\ adder[t].event.id \in Nat /\ adder[t].event.id < curId
    BY <1>1, <1>3 DEF WriteFile, AdderType, Idle, Event, StoreTyped, Busy
  <2>2. \A u \in Adders : AdderType(adder[u])'
    BY <1>1, <1>3, <2>1 DEF WriteFile, StoreTyped, AdderType, Adding, Idle
  <2> QED
    BY <1>1, <1>3, <2>1, <2>2 DEF WriteFile, StoreTyped, Put, Busy, Adding
<1>4. CASE StoreCachePage(t)
  <2> DEFINE page == pages[adder[t].page]
  <2>1. page \in Seq(Event) /\ adder[t].event \in Event
    BY <1>1, <1>4, ElementOfSeq DEF StoreTyped, StoreCachePage, AdderType, Idle
  <2>2. Len(page) >= CacheSize => CacheKey(page) \in Nat
    <3>1. Len(page) >= CacheSize => 1 \in 1..Len(page)
      BY <2>1, LenProperties, StreamAssumption
    <3> HIDE DEF page
    <3>2. Len(page) >= CacheSize => page[1] \in Event
      BY <2>1, <3>1, ElementOfSeq
    <3> QED
      BY <3>2 DEF CacheKey, Event
  <2>3. /\ DOMAIN cacheFiles' \subseteq Nat
        /\ \A i \in DOMAIN cacheFiles' : IsPage(cacheFiles'[i])
    <3>1. cacheFiles' = IF Len(page) < CacheSize THEN cacheFiles
                        ELSE Put(cacheFiles, CacheKey(page), page)
      BY <1>4 DEF StoreCachePage
    <3>2. Len(page) \in Nat
      BY <2>1, LenProperties
    <3> HIDE DEF page
    <3> QED
      BY <2>1, <2>2, <3>1, <3>2, StreamAssumption DEF StoreTyped, Put, IsPage
  <2>4. \A u \in Adders : AdderType(adder[u])'
    BY <1>1, <1>4, <2>1 DEF StoreCachePage, StoreTyped, AdderType, Adding, Idle
  <2> QED
    BY <1>1, <1>4, <2>3, <2>4 DEF StoreCachePage, StoreTyped, Busy, Adding
<1>5. CASE WriteFails(t)
  BY <1>1, <1>5 DEF WriteFails, StoreTyped, storeVars, AdderType, Busy, Idle
<1>6. CASE PutInQueue(t)
  BY <1>1, <1>6 DEF PutInQueue, StoreTyped, storeVars, AdderType, Busy, Idle
<1> QED
  BY <1>2, <1>3, <1>4, <1>5, <1>6 DEF AdderStep

\* Every other step but a crash leaves the files, the pages and the threads alone.
LEMMA StoreFrame ==
  ASSUME Next, ~Crash, \A t \in Adders : ~(AssignId(t) \/ AdderStep(t))
  PROVE  UNCHANGED <<storeVars, addVars, crashes>>
PROOF
<1>1. CASE DispatcherStep
  BY <1>1 DEF DispatcherStep, TakeEvent, EventDone, DispatcherStops, Dispatch, vars
<1>2. ASSUME NEW s \in Subs, RunCallback(s) \/ Subscribe(s) \/ RegisterPool(s)
                              \/ Unsubscribe(s) \/ UnsubscribeEnds(s)
      PROVE  UNCHANGED <<storeVars, addVars, crashes>>
  BY <1>2 DEF RunCallback, Subscribe, RegisterPool, Unsubscribe, UnsubscribeEnds
<1>3. CASE Close \/ CloseStep
  BY <1>3 DEF Close, CloseStep, ListCallbacks, CloseReturns, CloseCallback, CallbackClosed
<1> QED
  BY <1>1, <1>2, <1>3 DEF Next

\* So does a step that does not touch them.
LEMMA StoreSame ==
  ASSUME StoreTyped, UNCHANGED <<storeVars, addVars>>
  PROVE  StoreTyped'
PROOF
  BY DEF StoreTyped, storeVars, addVars, AdderType, Busy

\* The part of the invariant about the way of an event to its subscribers.
DeliveryInv ==
  DeliveryTyped /\ NoTaskWhenGone /\ SilentAfterClose /\ Joined /\ Cleaned

deliveryVars == <<queue, disp, subVars, pool, closeVars, calls>>

\* A step that does not touch the way keeps its invariant.
LEMMA DeliverySame ==
  ASSUME DeliveryInv, UNCHANGED <<deliveryVars, crashes>>
  PROVE  DeliveryInv'
PROOF
<1>1. DeliveryTyped'
  BY DEF DeliveryInv, DeliveryTyped, deliveryVars, subVars, closeVars, DispType
<1>2. (NoTaskWhenGone /\ SilentAfterClose /\ Joined /\ Cleaned)'
  BY DEF DeliveryInv, deliveryVars, subVars, closeVars,
         NoTaskWhenGone, SilentAfterClose, Joined, Cleaned
<1> QED
  BY <1>1, <1>2 DEF DeliveryInv

\* add_event puts events in the queue, and nothing else.
LEMMA AddersDeliver ==
  ASSUME DeliveryInv, StoreTyped, NEW t \in Adders, AssignId(t) \/ AdderStep(t)
  PROVE  DeliveryInv'
PROOF
<1>1. CASE AssignId(t) \/ WriteFile(t) \/ StoreCachePage(t) \/ WriteFails(t)
  BY <1>1, DeliverySame DEF AssignId, WriteFile, StoreCachePage, WriteFails, deliveryVars
<1>2. CASE PutInQueue(t)
  <2>1. adder[t].event \in Event
    BY <1>2 DEF PutInQueue, StoreTyped, AdderType, Idle
  <2>2. queue' \in Seq(Event)
    BY <1>2, <2>1, AppendProperties DEF PutInQueue, DeliveryInv, DeliveryTyped
  <2>3. DeliveryTyped'
    BY <1>2, <2>2
       DEF PutInQueue, DeliveryInv, DeliveryTyped, subVars, closeVars, DispType
  <2> QED
    BY <1>2, <2>3
       DEF PutInQueue, DeliveryInv, subVars, closeVars,
           NoTaskWhenGone, SilentAfterClose, Joined, Cleaned
<1> QED
  BY <1>1, <1>2 DEF AdderStep

\* The dispatcher gives a task only to a callback that is subscribed, and none
\* once it was joined.
LEMMA DispatcherDelivers ==
  ASSUME DeliveryInv, DispatcherStep
  PROVE  DeliveryInv'
PROOF
<1>1. CASE TakeEvent
  <2>1. queue' \in Seq(Event) /\ Head(queue) \in Event
    BY <1>1, TailInOrder DEF TakeEvent, DeliveryInv, DeliveryTyped
  <2>2. DeliveryTyped'
    BY <1>1, <2>1 DEF TakeEvent, DeliveryInv, DeliveryTyped, subVars, closeVars, DispType, Visiting
  <2> QED
    BY <1>1, <2>2 DEF TakeEvent, DeliveryInv, subVars, closeVars,
                      NoTaskWhenGone, SilentAfterClose, Joined, Cleaned
<1>2. CASE EventDone \/ DispatcherStops
  <2>1. DeliveryTyped'
    BY <1>2 DEF EventDone, DispatcherStops, DeliveryInv, DeliveryTyped, subVars, closeVars,
                DispType, Getting
  <2> QED
    BY <1>2, <2>1 DEF EventDone, DispatcherStops, DeliveryInv, subVars, closeVars, Getting,
                      NoTaskWhenGone, SilentAfterClose, Joined, Cleaned
<1>3. ASSUME NEW s \in Subs, Dispatch(s) PROVE DeliveryInv'
  <2>1. disp.pc = "each" /\ disp.event \in Event /\ disp.todo \subseteq Subs
    BY <1>3 DEF Dispatch, DeliveryInv, DeliveryTyped, DispType, Getting
  <2>2. closing \notin {"cleaning", "closed"}
    BY <2>1 DEF DeliveryInv, Joined
  <2>3. UNCHANGED <<queue, subVars, closeVars, calls, crashes>>
    BY <1>3 DEF Dispatch
  <2>4. \/ status[s] = "subscribed" /\ pool' = [pool EXCEPT ![s] = Append(@, disp.event)]
        \/ pool' = pool
    BY <1>3 DEF Dispatch
  <2>5. pool' \in [Subs -> Seq(Event)]
    <3>1. pool[s] \in Seq(Event)
      BY DEF DeliveryInv, DeliveryTyped
    <3>2. Append(pool[s], disp.event) \in Seq(Event)
      BY <2>1, <3>1, AppendProperties
    <3> QED
      BY <2>4, <3>2 DEF DeliveryInv, DeliveryTyped
  <2>6. DispType'
    BY <1>3, <2>1 DEF Dispatch, DispType, Visiting
  <2>7. DeliveryTyped'
    BY <2>3, <2>5, <2>6 DEF DeliveryInv, DeliveryTyped, subVars, closeVars
  <2>8. NoTaskWhenGone'
    BY <2>3, <2>4 DEF DeliveryInv, DeliveryTyped, NoTaskWhenGone, subVars
  <2> QED
    BY <2>2, <2>3, <2>7, <2>8 DEF DeliveryInv, SilentAfterClose, Joined, Cleaned, closeVars
<1> QED
  BY <1>1, <1>2, <1>3 DEF DispatcherStep

\* A pool's thread takes one task and records the call.
LEMMA CallbackDelivers ==
  ASSUME DeliveryInv, NEW s \in Subs, RunCallback(s)
  PROVE  DeliveryInv'
PROOF
<1>1. /\ pool[s] \in Seq(Event) /\ pool[s] # <<>>
      /\ calls[s] \in Seq([event : Event, ok : BOOLEAN])
  BY DEF RunCallback, DeliveryInv, DeliveryTyped
<1>2. Tail(pool[s]) \in Seq(Event) /\ Head(pool[s]) \in Event
  BY <1>1, TailInOrder
<1>3. pool' \in [Subs -> Seq(Event)]
  BY <1>2 DEF RunCallback, DeliveryInv, DeliveryTyped
<1>4. calls' \in [Subs -> Seq([event : Event, ok : BOOLEAN])]
  <2> DEFINE c == [event |-> Head(pool[s]), ok |-> loop[s] # "closed"]
  <2>1. c \in [event : Event, ok : BOOLEAN]
    BY <1>2
  <2>2. calls' = [calls EXCEPT ![s] = Append(@, c)]
    BY DEF RunCallback
  <2> HIDE DEF c
  <2>3. Append(calls[s], c) \in Seq([event : Event, ok : BOOLEAN])
    BY <1>1, <2>1, AppendProperties
  <2> QED
    BY <2>2, <2>3 DEF DeliveryInv, DeliveryTyped
<1>5. loop' \in [Subs -> {"none", "open", "closed"}]
  BY DEF RunCallback, DeliveryInv, DeliveryTyped
<1>6. DeliveryTyped'
  BY <1>3, <1>4, <1>5 DEF RunCallback, DeliveryInv, DeliveryTyped, closeVars, DispType
<1>7. \A r \in Subs : pool[r] = <<>> => pool'[r] = <<>>
  BY <1>1 DEF RunCallback, DeliveryInv, DeliveryTyped
<1> QED
  BY <1>6, <1>7 DEF RunCallback, DeliveryInv, closeVars,
                    NoTaskWhenGone, SilentAfterClose, Joined, Cleaned

\* Subscribing and unsubscribing leave the pools alone; a callback goes only
\* when its pool is empty.
LEMMA SubscribersDeliver ==
  ASSUME DeliveryInv, NEW s \in Subs,
         Subscribe(s) \/ RegisterPool(s) \/ Unsubscribe(s) \/ UnsubscribeEnds(s)
  PROVE  DeliveryInv'
PROOF
<1>1. UNCHANGED <<queue, disp, pool, closeVars, calls, crashes>>
  BY DEF Subscribe, RegisterPool, Unsubscribe, UnsubscribeEnds
<1>2. /\ status' \in [Subs -> {"none", "opening", "subscribed", "closing"}]
      /\ loop' \in [Subs -> {"none", "open", "closed"}]
      /\ cleaner' \in [Subs -> SUBSET {"unsubscribe", "close"}]
      /\ keys' \subseteq Subs
  <2>1. CASE Subscribe(s) \/ RegisterPool(s)
    BY <2>1 DEF Subscribe, RegisterPool, DeliveryInv, DeliveryTyped
  <2>2. CASE Unsubscribe(s)
    BY <2>2 DEF Unsubscribe, CleanUpBegins, DeliveryInv, DeliveryTyped
  <2>3. CASE UnsubscribeEnds(s)
    BY <2>3 DEF UnsubscribeEnds, CleanUpEnds, CleanUpFails, DeliveryInv, DeliveryTyped
  <2> QED
    BY <2>1, <2>2, <2>3
<1>3. DeliveryTyped'
  BY <1>1, <1>2 DEF DeliveryInv, DeliveryTyped, closeVars, DispType
<1>4. \A r \in Subs : status'[r] \in {"none", "opening"} =>
        pool[r] = <<>> \/ status[r] \in {"none", "opening"}
  <2>1. CASE Subscribe(s) \/ RegisterPool(s)
    BY <2>1 DEF Subscribe, RegisterPool, DeliveryInv, DeliveryTyped
  <2>2. CASE Unsubscribe(s)
    BY <2>2 DEF Unsubscribe, CleanUpBegins, DeliveryInv, DeliveryTyped
  <2>3. CASE UnsubscribeEnds(s)
    BY <2>3 DEF UnsubscribeEnds, CleanUpEnds, CleanUpFails, DeliveryInv, DeliveryTyped
  <2> QED
    BY <2>1, <2>2, <2>3
<1> QED
  BY <1>1, <1>3, <1>4 DEF DeliveryInv, closeVars,
                          NoTaskWhenGone, SilentAfterClose, Joined, Cleaned

\* close(): what it has cleaned up has no task left.
LEMMA CloseDelivers ==
  ASSUME DeliveryInv, Close \/ CloseStep
  PROVE  DeliveryInv'
PROOF
<1>1. CASE Close
  <2>1. DeliveryTyped'
    BY <1>1 DEF Close, DeliveryInv, DeliveryTyped, subVars, DispType
  <2> QED
    BY <1>1, <2>1 DEF Close, DeliveryInv, subVars,
                      NoTaskWhenGone, SilentAfterClose, Joined, Cleaned
<1>2. CASE ListCallbacks
  <2>1. DeliveryTyped'
    BY <1>2 DEF ListCallbacks, DeliveryInv, DeliveryTyped, subVars, DispType
  <2> QED
    BY <1>2, <2>1 DEF ListCallbacks, DeliveryInv, DeliveryTyped, subVars,
                      NoTaskWhenGone, SilentAfterClose, Joined, Cleaned
<1>3. CASE CloseReturns
  <2>1. queue' \in Seq(Event)
    BY <1>3 DEF CloseReturns
  <2>2. DeliveryTyped'
    BY <1>3, <2>1 DEF CloseReturns, DeliveryInv, DeliveryTyped, subVars, DispType
  <2> QED
    BY <1>3, <2>2 DEF CloseReturns, DeliveryInv, subVars,
                      NoTaskWhenGone, SilentAfterClose, Joined, Cleaned
<1>4. ASSUME NEW s \in Subs, CloseCallback(s) PROVE DeliveryInv'
  <2>1. UNCHANGED <<queue, disp, keys, pool, calls, crashes>> /\ closing' = closing
    BY <1>4 DEF CloseCallback, closeVars
  <2>2. DeliveryTyped'
    <3>1. /\ status' \in [Subs -> {"none", "opening", "subscribed", "closing"}]
          /\ loop' \in [Subs -> {"none", "open", "closed"}]
          /\ cleaner' \in [Subs -> SUBSET {"unsubscribe", "close"}]
          /\ toClean' \subseteq Subs
      <4>1. CASE CleanUpBegins(s, "close") /\ UNCHANGED closeVars
        BY <4>1 DEF CleanUpBegins, closeVars, DeliveryInv, DeliveryTyped
      <4>2. CASE /\ toClean' = toClean \ {s} /\ status' = [status EXCEPT ![s] = "none"]
                 /\ UNCHANGED <<closing, loop, cleaner>>
        BY <4>2 DEF DeliveryInv, DeliveryTyped
      <4> QED
        BY <1>4, <4>1, <4>2 DEF CloseCallback
    <3> QED
      BY <2>1, <3>1 DEF DeliveryInv, DeliveryTyped, DispType
  <2>3. \A r \in Subs : status'[r] \in {"none", "opening"} => status[r] \in {"none", "opening"}
    BY <1>4 DEF CloseCallback, CleanUpBegins, DeliveryInv, DeliveryTyped
  <2>4. \A r \in Subs \ toClean' : r \notin toClean \/ status[r] \in {"none", "opening"}
    BY <1>4 DEF CloseCallback, closeVars
  <2> QED
    BY <2>1, <2>2, <2>3, <2>4 DEF DeliveryInv, NoTaskWhenGone, SilentAfterClose, Joined, Cleaned
<1>5. ASSUME NEW s \in Subs, CallbackClosed(s) PROVE DeliveryInv'
  <2>1. UNCHANGED <<queue, disp, keys, pool, calls, crashes>>
    BY <1>5 DEF CallbackClosed
  <2>2. DeliveryTyped'
    BY <1>5, <2>1
       DEF CallbackClosed, CleanUpEnds, CleanUpFails, DeliveryInv, DeliveryTyped, DispType
  <2>3. \A r \in Subs : status'[r] \in {"none", "opening"} =>
          pool[r] = <<>> \/ status[r] \in {"none", "opening"}
    BY <1>5 DEF CallbackClosed, CleanUpEnds, CleanUpFails, DeliveryInv, DeliveryTyped
  <2>4. \/ closing' = closing /\ \A r \in Subs \ toClean' : r \notin toClean \/ pool[r] = <<>>
        \/ closing' = "failed"
    BY <1>5 DEF CallbackClosed, CleanUpEnds
  <2> QED
    BY <2>1, <2>2, <2>3, <2>4 DEF DeliveryInv, NoTaskWhenGone, SilentAfterClose, Joined, Cleaned
<1> QED
  BY <1>1, <1>2, <1>3, <1>4, <1>5 DEF CloseStep

\* The two parts are the invariant.
LEMMA SoundParts == SoundInv <=> StoreTyped /\ DeliveryInv
PROOF
  BY TypedParts DEF SoundInv, DeliveryInv

\* Every step of the stream keeps the invariant.
LEMMA SoundStep ==
  ASSUME SoundInv, [Next]_vars
  PROVE  SoundInv'
PROOF
<1>1. StoreTyped /\ DeliveryInv
  BY SoundParts
<1>2. CASE UNCHANGED vars
  <2>1. UNCHANGED <<storeVars, addVars>> /\ UNCHANGED <<deliveryVars, crashes>>
    BY <1>2 DEF vars, deliveryVars
  <2>2. StoreTyped' /\ DeliveryInv'
    BY <1>1, <2>1, StoreSame, DeliverySame
  <2> QED
    BY <2>2, SoundParts, PTL
<1>3. CASE Crash
  BY <1>3, SoundCrash
<1>4. ASSUME NEW t \in Adders, AssignId(t) \/ AdderStep(t) PROVE SoundInv'
  <2>1. StoreTyped' /\ DeliveryInv'
    BY <1>1, <1>4, AddersTyped, AddersDeliver
  <2> QED
    BY <2>1, SoundParts, PTL
<1>5. ASSUME Next, ~Crash, \A t \in Adders : ~(AssignId(t) \/ AdderStep(t))
      PROVE  SoundInv'
  <2>1. StoreTyped'
    BY <1>1, <1>5, StoreFrame, StoreSame
  <2>2. DeliveryInv'
    BY <1>1, <1>5, DispatcherDelivers, CallbackDelivers, SubscribersDeliver, CloseDelivers
       DEF Next
  <2> QED
    BY <2>1, <2>2, SoundParts, PTL
<1> QED
  BY <1>2, <1>3, <1>4, <1>5

\* The variables keep their types, no callback that is gone has a task left,
\* and none is called once close() has returned (_clean_up_subscriber, close
\* and _process_queue of stream.py): for any number of threads and subscribers,
\* any page size and any of the faults.
THEOREM StreamIsSound == Spec => []StreamSound
PROOF
<1>1. SoundInv => StreamSound
  BY DEF SoundInv, Typed, StreamSound
<1> QED
  BY SoundInit, SoundStep, <1>1, PTL DEF Spec

-----------------------------------------------------------------------------
(* The way of an event to a subscriber *)

\* What a subscriber was called with is a sequence of events.
LEMMA CalledTyped ==
  ASSUME DeliveryTyped, NEW s \in Subs
  PROVE  Called(s) \in Seq(Event) /\ Elems(Called(s)) = Calls(s)
PROOF
<1> DEFINE C == [event : Event, ok : BOOLEAN]
<1>1. calls[s] \in Seq(C)
  BY DEF DeliveryTyped
<1>2. Len(calls[s]) \in Nat /\ DOMAIN calls[s] = 1..Len(calls[s])
  BY <1>1, LenProperties
<1>3. \A n \in DOMAIN calls[s] : calls[s][n] \in C
  BY <1>1, <1>2, ElementOfSeq
<1>4. Called(s) \in [1..Len(calls[s]) -> Event]
  BY <1>2, <1>3 DEF Called
<1>5. Called(s) \in Seq(Event)
  BY <1>2, <1>4, SeqDef
<1>6. Elems(Called(s)) = Calls(s)
  BY DEF Called, Elems, Calls
<1> QED
  BY <1>5, <1>6

\* Events are on the way, and nothing else.
LEMMA ReachTyped ==
  ASSUME DeliveryTyped, NEW s \in Subs
  PROVE  Reach(s) \subseteq Event
PROOF
<1>1. Elems(Called(s)) \subseteq Event
  BY CalledTyped, ElemsTyped
<1>2. Elems(pool[s]) \subseteq Event /\ Elems(queue) \subseteq Event
  BY ElemsTyped DEF DeliveryTyped
<1>3. InHand(s) \subseteq Event
  BY DEF DeliveryTyped, DispType, InHand, Getting
<1> QED
  BY <1>1, <1>2, <1>3 DEF Reach

\* What is ordered is on the way.
LEMMA LeadsReach ==
  ASSUME NEW s, NEW e, NEW f, Leads(s, e, f)
  PROVE  e \in Reach(s) /\ f \in Reach(s)
PROOF
  BY DEF Leads, Reach, InOrder, Elems

\* The way loses events, and keeps the order of the others.
Narrows ==
  \A s \in Subs : /\ Reach(s)' \subseteq Reach(s)
                  /\ \A e, f : Leads(s, e, f)' => Leads(s, e, f)

\* Giving up what is in hand, or the queue, takes events off the way.
LEMMA WayNarrows ==
  ASSUME UNCHANGED <<calls, pool>>, queue' = queue \/ queue' = <<>>,
         \A s \in Subs : InHand(s)' \subseteq InHand(s)
  PROVE  Narrows
PROOF
<1> SUFFICES ASSUME NEW s \in Subs
             PROVE  /\ Reach(s)' \subseteq Reach(s)
                    /\ \A e, f : Leads(s, e, f)' => Leads(s, e, f)
  BY DEF Narrows
<1>1. Called(s)' = Called(s) /\ Elems(pool[s])' = Elems(pool[s])
  BY DEF Called
<1>2. /\ Elems(queue)' \subseteq Elems(queue)
      /\ \A e, f : InOrder(queue, e, f)' => InOrder(queue, e, f)
  BY DEF Elems, InOrder
<1>3. \A e, f : InOrder(pool[s], e, f)' = InOrder(pool[s], e, f)
  OBVIOUS
<1>4. Elems(Called(s))' = Elems(Called(s))
      /\ \A e, f : InOrder(Called(s), e, f)' = InOrder(Called(s), e, f)
  BY <1>1 DEF Elems, InOrder
<1>5. InHand(s)' \subseteq InHand(s)
  OBVIOUS
<1> QED
  BY <1>1, <1>2, <1>3, <1>4, <1>5 DEF Reach, Leads

\* The event at the head of the queue comes to the dispatcher's hand, for the
\* subscribers there are.
LEMMA TakeNarrows ==
  ASSUME DeliveryTyped, TakeEvent
  PROVE  Narrows
PROOF
<1> SUFFICES ASSUME NEW s \in Subs
             PROVE  /\ Reach(s)' \subseteq Reach(s)
                    /\ \A e, f : Leads(s, e, f)' => Leads(s, e, f)
  BY DEF Narrows
<1> DEFINE q == queue
           h == Head(queue)
<1>1. q \in Seq(Event) /\ q # <<>> /\ queue' = Tail(q) /\ UNCHANGED <<pool, calls>>
  BY DEF TakeEvent, DeliveryTyped
<1>2. InHand(s) = {} /\ InHand(s)' \subseteq {h}
  BY DEF TakeEvent, InHand, Visiting
<1>3. Called(s)' = Called(s)
  BY <1>1 DEF Called
<1>4. /\ Elems(q) = {h} \cup Elems(Tail(q))
      /\ \A a, b : InOrder(Tail(q), a, b) => InOrder(q, a, b)
      /\ \A b \in Elems(Tail(q)) : InOrder(q, h, b)
  BY <1>1, TailInOrder
<1>5. /\ Elems(queue)' = Elems(Tail(q))
      /\ \A a, b : InOrder(queue, a, b)' = InOrder(Tail(q), a, b)
      /\ Elems(pool[s])' = Elems(pool[s])
      /\ \A a, b : InOrder(pool[s], a, b)' = InOrder(pool[s], a, b)
      /\ Elems(Called(s))' = Elems(Called(s))
      /\ \A a, b : InOrder(Called(s), a, b)' = InOrder(Called(s), a, b)
  BY <1>1, <1>3 DEF Elems, InOrder
<1> HIDE DEF q, h
<1>6. Reach(s)' \subseteq Reach(s)
  BY <1>2, <1>4, <1>5 DEF Reach, q
<1> QED
  BY <1>2, <1>4, <1>5, <1>6 DEF Leads, q

\* The event in hand goes to the end of a pool, or is lost to the subscriber.
LEMMA DispatchNarrows ==
  ASSUME DeliveryTyped, NEW s \in Subs, Dispatch(s)
  PROVE  Narrows
PROOF
<1>1. /\ UNCHANGED <<queue, calls>> /\ disp.event \in Event
      /\ disp.pc = "each" /\ s \in disp.todo /\ disp.todo \subseteq Subs
  BY DEF Dispatch, DeliveryTyped, DispType, Getting
<1>2. CASE pool' = pool
  <2>1. \A r \in Subs : InHand(r)' \subseteq InHand(r)
    BY <1>1 DEF Dispatch, InHand, Visiting
  <2> QED
    BY <1>1, <1>2, <2>1, WayNarrows
<1>3. CASE pool' # pool
  <2> DEFINE d == disp.event
             p == pool[s]
  <2>1. /\ disp' = Visiting(d, disp.todo \ {s})
        /\ pool' = [pool EXCEPT ![s] = Append(p, d)]
    BY <1>3 DEF Dispatch
  <2>2. p \in Seq(Event) /\ pool'[s] = Append(p, d) /\ \A r \in Subs \ {s} : pool'[r] = pool[r]
    BY <2>1 DEF DeliveryTyped
  <2>3. \A r \in Subs \ {s} : InHand(r)' = InHand(r)
    BY <1>1, <2>1 DEF InHand, Visiting
  <2>4. InHand(s) = {d} /\ InHand(s)' = {}
    BY <1>1, <2>1 DEF InHand, Visiting
  <2>5. \A r \in Subs : Called(r)' = Called(r)
    BY <1>1 DEF Called
  <2>6. /\ Elems(Append(p, d)) = Elems(p) \cup {d}
        /\ \A a, b : InOrder(Append(p, d), a, b) =>
             InOrder(p, a, b) \/ (a \in Elems(p) /\ b = d)
    BY <1>1, <2>2, AppendInOrder
  <2>7. ASSUME NEW r \in Subs
        PROVE  /\ Reach(r)' \subseteq Reach(r)
               /\ \A e, f : Leads(r, e, f)' => Leads(r, e, f)
    <3>1. /\ Elems(queue)' = Elems(queue)
          /\ \A a, b : InOrder(queue, a, b)' = InOrder(queue, a, b)
          /\ Elems(Called(r))' = Elems(Called(r))
          /\ \A a, b : InOrder(Called(r), a, b)' = InOrder(Called(r), a, b)
      BY <1>1, <2>5 DEF Elems, InOrder
    <3>2. CASE r = s
      <4>1. /\ Elems(pool[s])' = Elems(p) \cup {d}
            /\ \A a, b : InOrder(pool[s], a, b)' =>
                 InOrder(p, a, b) \/ (a \in Elems(p) /\ b = d)
        BY <2>2, <2>6
      <4> HIDE DEF d, p
      <4>2. Reach(s)' \subseteq Reach(s)
        BY <2>4, <3>1, <3>2, <4>1 DEF Reach, p
      <4>3. \A e, f : Leads(s, e, f)' => Leads(s, e, f)
        BY <2>4, <3>1, <3>2, <4>1 DEF Leads, p
      <4> QED
        BY <3>2, <4>2, <4>3
    <3>3. CASE r # s
      <4>1. /\ Elems(pool[r])' = Elems(pool[r])
            /\ \A a, b : InOrder(pool[r], a, b)' = InOrder(pool[r], a, b)
            /\ InHand(r)' = InHand(r)
        BY <2>2, <2>3, <3>3
      <4> QED
        BY <3>1, <4>1 DEF Reach, Leads
    <3> QED
      BY <3>2, <3>3
  <2> QED
    BY <2>7 DEF Narrows
<1> QED
  BY <1>2, <1>3

\* The first task of a pool becomes the last call.
LEMMA CallbackNarrows ==
  ASSUME DeliveryTyped, NEW s \in Subs, RunCallback(s)
  PROVE  /\ Narrows
         /\ Called(s)' = Append(Called(s), Head(pool[s]))
         /\ \A r \in Subs \ {s} : Called(r)' = Called(r)
PROOF
<1> DEFINE p == pool[s]
           h == Head(p)
           c == [event |-> h, ok |-> loop[s] # "closed"]
<1>1. /\ p \in Seq(Event) /\ p # <<>> /\ UNCHANGED <<queue, disp>>
      /\ calls' = [calls EXCEPT ![s] = Append(calls[s], c)]
      /\ pool'[s] = Tail(p) /\ \A r \in Subs \ {s} : pool'[r] = pool[r]
  BY DEF RunCallback, DeliveryTyped
<1>2. /\ h \in Event /\ Elems(p) = {h} \cup Elems(Tail(p))
      /\ \A a, b : InOrder(Tail(p), a, b) => InOrder(p, a, b)
      /\ \A b \in Elems(Tail(p)) : InOrder(p, h, b)
  BY <1>1, TailInOrder
<1>3. \A r \in Subs \ {s} : Called(r)' = Called(r)
  BY <1>1 DEF Called
<1>4. Called(s)' = Append(Called(s), h)
  <2> DEFINE C == [event : Event, ok : BOOLEAN]
  <2>1. calls[s] \in Seq(C) /\ c \in C
    BY <1>2 DEF DeliveryTyped
  <2>2. calls'[s] = Append(calls[s], c)
    BY <1>1 DEF DeliveryTyped
  <2>3. c.event = h
    OBVIOUS
  <2> HIDE DEF c, h
  <2> DEFINE k == Len(calls[s])
             q == Append(calls[s], c)
  <2>4. /\ k \in Nat /\ DOMAIN calls[s] = 1..k /\ q \in Seq(C) /\ Len(q) = k + 1
        /\ \A n \in 1..k : q[n] = calls[s][n]
        /\ q[k + 1] = c
    BY <2>1, LenProperties, AppendProperties
  <2>5. DOMAIN q = 1..k + 1
    BY <2>4, LenProperties
  <2>6. Called(s) \in Seq(Event) /\ Len(Called(s)) = k
    <3>1. Called(s) \in Seq(Event) /\ DOMAIN Called(s) = DOMAIN calls[s]
      BY CalledTyped DEF Called
    <3>2. Len(Called(s)) \in Nat /\ DOMAIN Called(s) = 1..Len(Called(s))
      BY <3>1, LenProperties
    <3> HIDE DEF k
    <3> QED
      BY <2>4, <3>1, <3>2
  <2> DEFINE a == Append(Called(s), h)
             b == [n \in DOMAIN q |-> q[n].event]
  <2>7. /\ a \in Seq(Event) /\ Len(a) = k + 1 /\ a[k + 1] = h
        /\ \A n \in 1..k : a[n] = Called(s)[n]
    BY <1>2, <2>6, AppendProperties
  <2>8. DOMAIN a = 1..k + 1
    BY <2>7, LenProperties
  <2> HIDE DEF a, q, k
  <2>9. \A n \in 1..k + 1 : a[n] = b[n]
    <3>1. ASSUME NEW n \in 1..k + 1 PROVE a[n] = b[n]
      <4>1. CASE n \in 1..k
        BY <2>4, <2>5, <2>7, <4>1 DEF Called
      <4>2. CASE n = k + 1
        BY <2>3, <2>4, <2>5, <2>7, <4>2
      <4> QED
        BY <2>4, <4>1, <4>2
    <3> QED
      BY <3>1
  <2>10. a = b
    <3>1. a = [n \in DOMAIN a |-> a[n]]
      BY <2>7, LenProperties, SeqDef
    <3> QED
      BY <2>5, <2>8, <2>9, <3>1
  <2> QED
    BY <2>2, <2>10 DEF Called, a, q
<1>5. ASSUME NEW r \in Subs
      PROVE  /\ Reach(r)' \subseteq Reach(r)
             /\ \A e, f : Leads(r, e, f)' => Leads(r, e, f)
  <2>1. /\ Elems(queue)' = Elems(queue) /\ InHand(r)' = InHand(r)
        /\ \A a, b : InOrder(queue, a, b)' = InOrder(queue, a, b)
    BY <1>1 DEF Elems, InOrder, InHand
  <2>2. CASE r = s
    <3>1. Called(s) \in Seq(Event)
      BY CalledTyped
    <3> DEFINE q == Append(Called(s), h)
    <3>2. /\ Elems(q) = Elems(Called(s)) \cup {h}
          /\ \A a, b : InOrder(q, a, b) =>
               InOrder(Called(s), a, b) \/ (a \in Elems(Called(s)) /\ b = h)
      BY <1>2, <3>1, AppendInOrder
    <3>3. /\ Elems(Called(s))' = Elems(Called(s)) \cup {h}
          /\ \A a, b : InOrder(Called(s), a, b)' =>
               InOrder(Called(s), a, b) \/ (a \in Elems(Called(s)) /\ b = h)
      BY <1>4, <3>2 DEF Elems, InOrder
    <3>4. /\ Elems(pool[s])' = Elems(Tail(p))
          /\ \A a, b : InOrder(pool[s], a, b)' = InOrder(Tail(p), a, b)
      BY <1>1
    <3> HIDE DEF h, p, q
    <3>5. Reach(s)' \subseteq Reach(s)
      BY <1>2, <2>1, <2>2, <3>3, <3>4 DEF Reach, p
    <3>6. \A e, f : Leads(s, e, f)' => Leads(s, e, f)
      BY <1>2, <2>1, <2>2, <3>3, <3>4 DEF Leads, p
    <3> QED
      BY <2>2, <3>5, <3>6
  <2>3. CASE r # s
    <3>1. /\ Elems(pool[r])' = Elems(pool[r])
          /\ \A a, b : InOrder(pool[r], a, b)' = InOrder(pool[r], a, b)
          /\ Elems(Called(r))' = Elems(Called(r))
          /\ \A a, b : InOrder(Called(r), a, b)' = InOrder(Called(r), a, b)
      BY <1>1, <1>3, <2>3 DEF Elems, InOrder
    <3> QED
      BY <2>1, <3>1 DEF Reach, Leads
  <2> QED
    BY <2>2, <2>3
<1> QED
  BY <1>3, <1>4, <1>5 DEF Narrows

\* An event that is put in the queue comes after all that went there before.
LEMMA QueueGrows ==
  ASSUME DeliveryTyped, NEW t \in Adders, PutInQueue(t), adder[t].event \in Event
  PROVE  \A s \in Subs :
           /\ Reach(s)' = Reach(s) \cup {adder[t].event}
           /\ \A e, f : Leads(s, e, f)' =>
                Leads(s, e, f) \/ (e \in Reach(s) /\ f = adder[t].event)
PROOF
<1> SUFFICES ASSUME NEW s \in Subs
             PROVE  /\ Reach(s)' = Reach(s) \cup {adder[t].event}
                    /\ \A e, f : Leads(s, e, f)' =>
                         Leads(s, e, f) \/ (e \in Reach(s) /\ f = adder[t].event)
  OBVIOUS
<1> DEFINE a == adder[t].event
           q == queue
<1>1. q \in Seq(Event) /\ queue' = Append(q, a) /\ UNCHANGED <<disp, pool, calls>>
  BY DEF PutInQueue, DeliveryTyped
<1>2. /\ Elems(Append(q, a)) = Elems(q) \cup {a}
      /\ \A e, f : InOrder(Append(q, a), e, f) => InOrder(q, e, f) \/ (e \in Elems(q) /\ f = a)
  BY <1>1, AppendInOrder
<1>3. /\ Elems(queue)' = Elems(q) \cup {a}
      /\ \A e, f : InOrder(queue, e, f)' => InOrder(q, e, f) \/ (e \in Elems(q) /\ f = a)
  BY <1>1, <1>2
<1>4. Called(s)' = Called(s) /\ InHand(s)' = InHand(s)
  BY <1>1 DEF Called, InHand
<1>5. /\ Elems(pool[s])' = Elems(pool[s])
      /\ \A e, f : InOrder(pool[s], e, f)' = InOrder(pool[s], e, f)
      /\ Elems(Called(s))' = Elems(Called(s))
      /\ \A e, f : InOrder(Called(s), e, f)' = InOrder(Called(s), e, f)
  BY <1>1, <1>4 DEF Elems, InOrder
<1> HIDE DEF a, q
<1>6. Reach(s)' = Reach(s) \cup {a}
  BY <1>3, <1>4, <1>5 DEF Reach, q
<1>7. \A e, f : Leads(s, e, f)' => Leads(s, e, f) \/ (e \in Reach(s) /\ f = a)
  BY <1>3, <1>4, <1>5 DEF Leads, Reach, q
<1> QED
  BY <1>6, <1>7 DEF a

-----------------------------------------------------------------------------
(* The order on the way *)

FlowTypes == StoreTyped /\ DeliveryTyped

\* The types are part of the invariant.
LEMMA FlowTyped == SoundInv => FlowTypes
PROOF
  BY SoundParts DEF DeliveryInv, FlowTypes

\* What a busy thread holds.
LEMMA HeldTyped ==
  ASSUME StoreTyped, NEW t \in Adders, Busy(t)
  PROVE  /\ adder[t].event \in Event /\ adder[t].event.id \in Nat /\ adder[t].event.no \in Nat
         /\ adder[t].event.id < curId
         /\ adder[t].page \in 1..Len(pages)
         /\ adder[t].pc \in {"write", "page", "put"}
PROOF
  BY DEF StoreTyped, AdderType, Busy, Idle, Event

\* At first nothing is on its way.
LEMMA FlowInit == Init => FlowInv
PROOF
<1> SUFFICES ASSUME Init PROVE FlowInv
  OBVIOUS
<1>1. DOMAIN files = {} /\ \A t \in Adders : ~Busy(t)
  BY DEF Init, StartProcess, Empty, Busy, Idle
<1>2. \A s \in Subs : Reach(s) = {}
  BY DEF Init, StartProcess, Reach, Called, Elems, InHand, Getting
<1>3. \A s \in Subs : \A e, f : ~Leads(s, e, f)
  BY <1>2, LeadsReach
<1> QED
  BY <1>1, <1>2, <1>3 DEF FlowInv, Held, Filed, OnWay, InLine

\* After a crash nothing is on its way.
LEMMA FlowCrash ==
  ASSUME FlowTypes, FlowInv, Crash
  PROVE  FlowInv'
PROOF
<1>1. files' = files /\ \A t \in Adders : ~Busy(t)'
  BY DEF Crash, Busy, Idle
<1>2. \A s \in Subs : Reach(s)' = {}
  BY DEF Crash, Reach, Called, Elems, InHand, Getting
<1>3. \A s \in Subs : \A e, f : ~Leads(s, e, f)'
  <2>1. \A s \in Subs : \A e, f : Leads(s, e, f)' => e \in Reach(s)'
    BY DEF Leads, Reach, InOrder, Elems
  <2> QED
    BY <1>2, <2>1
<1> QED
  BY <1>1, <1>2, <1>3 DEF FlowInv, Held, Filed, OnWay, InLine

\* A step on the way to the subscribers.
LEMMA FlowNarrows ==
  ASSUME FlowInv, Narrows, UNCHANGED <<files, addVars>>
  PROVE  FlowInv'
PROOF
<1>1. Held' /\ Filed'
  BY DEF FlowInv, Held, Filed, Busy, addVars
<1>2. OnWay'
  BY DEF FlowInv, OnWay, Narrows, Busy, addVars
<1>3. InLine'
  BY DEF FlowInv, InLine, Narrows
<1> QED
  BY <1>1, <1>2, <1>3 DEF FlowInv

\* A step that leaves the way alone.
WaySame ==
  \A s \in Subs : /\ Reach(s)' = Reach(s)
                  /\ \A e, f : Leads(s, e, f)' = Leads(s, e, f)

\* A step that leaves queue, dispatcher, pools and calls leaves the way.
LEMMA WayUnchanged ==
  ASSUME UNCHANGED <<queue, disp, pool, calls>>
  PROVE  WaySame
PROOF
  BY DEF WaySame, Reach, Leads, Called, InHand, Elems, InOrder

\* A new event is newer than all events on their way, and its id is new.
LEMMA FlowAssign ==
  ASSUME FlowTypes, FlowInv, NEW t \in Adders, AssignId(t)
  PROVE  FlowInv'
PROOF
<1>1. WaySame
  BY WayUnchanged DEF AssignId
<1>2. /\ ~Busy(t) /\ files' = files /\ added' = added + 1 /\ added \in Nat /\ curId \in Nat
      /\ DOMAIN adder = Adders
  BY DEF AssignId, Busy, FlowTypes, StoreTyped
<1>3. /\ adder'[t].pc = "write" /\ adder'[t].event = [id |-> curId, no |-> added, by |-> t]
      /\ \A u \in Adders \ {t} : adder'[u] = adder[u]
  BY <1>2 DEF AssignId, Adding
<1>4. \A i \in DOMAIN files : i < curId /\ i \in Nat
  BY DEF FlowTypes, StoreTyped
<1>5. \A u \in Adders \ {t} : (Busy(u)' <=> Busy(u))
  BY <1>3 DEF Busy
<1>6. \A u \in Adders : Busy(u) => /\ adder[u].event.id \in Nat /\ adder[u].event.id < curId
                                   /\ adder[u].event.no \in Nat
  BY HeldTyped DEF FlowTypes
<1>7. Held'
  <2> SUFFICES ASSUME NEW u \in Adders, Busy(u)'
               PROVE  /\ adder'[u].event.no < added'
                      /\ adder'[u].event.by = u
                      /\ adder'[u].pc = "write" => adder'[u].event.id \notin DOMAIN files'
                      /\ adder'[u].pc # "write" =>
                           /\ adder'[u].event.id \in DOMAIN files'
                           /\ files'[adder'[u].event.id] = adder'[u].event
                      /\ \A v \in Adders \ {u} : Busy(v)' =>
                           adder'[v].event.id # adder'[u].event.id
    BY DEF Held
  <2>1. CASE u = t
    <3>1. \A v \in Adders \ {t} : Busy(v)' => adder'[v].event.id # curId
      BY <1>2, <1>3, <1>5, <1>6
    <3>2. curId \notin DOMAIN files
      BY <1>2, <1>4
    <3> QED
      BY <1>2, <1>3, <2>1, <3>1, <3>2
  <2>2. CASE u # t
    <3>1. Busy(u) /\ adder'[u] = adder[u]
      BY <1>3, <1>5, <2>2
    <3>2. adder[u].event.no < added'
      BY <1>2, <1>6, <3>1 DEF FlowInv, Held
    <3>3. \A v \in Adders \ {u} : Busy(v)' => adder'[v].event.id # adder[u].event.id
      BY <1>2, <1>3, <1>5, <1>6, <2>2, <3>1 DEF FlowInv, Held
    <3> QED
      BY <1>2, <3>1, <3>2, <3>3 DEF FlowInv, Held
  <2> QED
    BY <2>1, <2>2
<1>8. OnWay'
  <2> SUFFICES ASSUME NEW s \in Subs, NEW e \in Reach(s)
               PROVE  /\ e.id \in DOMAIN files /\ files[e.id] = e
                      /\ e.no < added'
                      /\ \A u \in Adders : Busy(u)' => /\ e.id # adder'[u].event.id
                                                       /\ e.by = u => e.no < adder'[u].event.no
    BY <1>1, <1>2 DEF OnWay, WaySame
  <2>1. e.id \in DOMAIN files /\ files[e.id] = e /\ e.no < added
    BY DEF FlowInv, OnWay
  <2>2. e.id \in Nat /\ e.no \in Nat /\ e.id < curId
    BY <1>4, <2>1, ReachTyped DEF FlowTypes, Event
  <2>3. \A u \in Adders : Busy(u)' => /\ e.id # adder'[u].event.id
                                      /\ e.by = u => e.no < adder'[u].event.no
    <3> SUFFICES ASSUME NEW u \in Adders, Busy(u)'
                 PROVE  e.id # adder'[u].event.id /\ (e.by = u => e.no < adder'[u].event.no)
      OBVIOUS
    <3>1. CASE u = t
      BY <1>2, <1>3, <2>1, <2>2, <3>1
    <3>2. CASE u # t
      BY <1>3, <1>5, <3>2 DEF FlowInv, OnWay
    <3> QED
      BY <3>1, <3>2
  <2> QED
    BY <1>2, <2>1, <2>2, <2>3
<1>9. Filed' /\ InLine'
  BY <1>1, <1>2 DEF FlowInv, Filed, InLine, WaySame
<1> QED
  BY <1>7, <1>8, <1>9 DEF FlowInv

\* The first write of an id: nothing that is stored is overwritten.
LEMMA FlowWrite ==
  ASSUME FlowTypes, FlowInv, NEW t \in Adders, WriteFile(t)
  PROVE  FlowInv'
PROOF
<1> DEFINE e == adder[t].event
           i == e.id
<1>1. WaySame
  BY WayUnchanged DEF WriteFile
<1>2. /\ Busy(t) /\ added' = added /\ DOMAIN adder = Adders
      /\ adder'[t].pc = "page" /\ adder'[t].event = e
      /\ \A u \in Adders \ {t} : adder'[u] = adder[u]
  BY DEF WriteFile, Busy, FlowTypes, StoreTyped, Adding
<1>3. i \notin DOMAIN files
  BY <1>2 DEF WriteFile, FlowInv, Held
<1>4. /\ DOMAIN files' = DOMAIN files \cup {i} /\ files'[i] = e
      /\ \A j \in DOMAIN files : files'[j] = files[j]
  BY <1>3 DEF WriteFile, Put
<1>5. \A u \in Adders : (Busy(u)' <=> Busy(u)) /\ adder'[u].event = adder[u].event
  BY <1>2 DEF Busy
<1>6. \A u \in Adders \ {t} : Busy(u) => adder[u].event.id # i
  BY <1>2 DEF FlowInv, Held
<1>7. Held'
  <2> SUFFICES ASSUME NEW u \in Adders, Busy(u)'
               PROVE  /\ adder'[u].event.no < added'
                      /\ adder'[u].event.by = u
                      /\ adder'[u].pc = "write" => adder'[u].event.id \notin DOMAIN files'
                      /\ adder'[u].pc # "write" =>
                           /\ adder'[u].event.id \in DOMAIN files'
                           /\ files'[adder'[u].event.id] = adder'[u].event
                      /\ \A v \in Adders \ {u} : Busy(v)' =>
                           adder'[v].event.id # adder'[u].event.id
    BY DEF Held
  <2>1. Busy(u)
    BY <1>5
  <2>2. CASE u = t
    BY <1>2, <1>4, <1>5, <1>6, <2>1, <2>2 DEF FlowInv, Held
  <2>3. CASE u # t
    <3>1. adder'[u] = adder[u] /\ adder[u].event.id # i
      BY <1>2, <1>6, <2>1, <2>3
    <3> HIDE DEF i
    <3> QED
      BY <1>2, <1>4, <1>5, <2>1, <2>3, <3>1 DEF FlowInv, Held
  <2> QED
    BY <2>2, <2>3
<1>8. OnWay'
  <2> HIDE DEF i, e
  <2> QED
    BY <1>1, <1>2, <1>4, <1>5 DEF FlowInv, OnWay, WaySame
<1>9. Filed'
  BY <1>4 DEF FlowInv, Filed
<1>10. InLine'
  BY <1>1 DEF FlowInv, InLine, WaySame
<1> QED
  BY <1>7, <1>8, <1>9, <1>10 DEF FlowInv

\* Storing a page and giving up after a failed write.
LEMMA FlowPage ==
  ASSUME FlowTypes, FlowInv, NEW t \in Adders, StoreCachePage(t) \/ WriteFails(t)
  PROVE  FlowInv'
PROOF
<1>1. WaySame
  BY WayUnchanged DEF StoreCachePage, WriteFails
<1>2. /\ files' = files /\ added' = added /\ DOMAIN adder = Adders
      /\ \A u \in Adders \ {t} : adder'[u] = adder[u]
  BY DEF StoreCachePage, WriteFails, storeVars, FlowTypes, StoreTyped
<1>3. Busy(t) /\ \/ ~Busy(t)'
                 \/ /\ adder[t].pc = "page" /\ adder'[t].pc = "put"
                    /\ adder'[t].event = adder[t].event
  BY <1>2 DEF StoreCachePage, WriteFails, Busy, Adding, Idle
<1>4. \A u \in Adders : Busy(u)' =>
        /\ Busy(u) /\ adder'[u].event = adder[u].event
        /\ adder'[u].pc = "write" <=> adder[u].pc = "write"
  BY <1>2, <1>3 DEF Busy
<1>5. Held' /\ Filed'
  BY <1>2, <1>4 DEF FlowInv, Held, Filed
<1>6. OnWay'
  BY <1>1, <1>2, <1>4 DEF FlowInv, OnWay, WaySame
<1>7. InLine'
  BY <1>1 DEF FlowInv, InLine, WaySame
<1> QED
  BY <1>5, <1>6, <1>7 DEF FlowInv

\* An event joins the way behind all others.
LEMMA FlowPut ==
  ASSUME FlowTypes, FlowInv, NEW t \in Adders, PutInQueue(t)
  PROVE  FlowInv'
PROOF
<1> DEFINE a == adder[t].event
<1>1. Busy(t) /\ adder[t].pc = "put"
  BY DEF PutInQueue, Busy
<1>2. a \in Event
  BY <1>1, HeldTyped DEF FlowTypes
<1>3. ASSUME NEW s \in Subs
      PROVE  /\ Reach(s)' = Reach(s) \cup {a}
             /\ \A e, f : Leads(s, e, f)' => Leads(s, e, f) \/ (e \in Reach(s) /\ f = a)
  BY <1>2, QueueGrows DEF FlowTypes
<1>4. /\ files' = files /\ added' = added /\ DOMAIN adder = Adders /\ ~Busy(t)'
      /\ \A u \in Adders \ {t} : adder'[u] = adder[u]
  BY DEF PutInQueue, storeVars, FlowTypes, StoreTyped, Busy, Idle
<1>5. \A u \in Adders : Busy(u)' => Busy(u) /\ u # t /\ adder'[u] = adder[u]
  BY <1>4 DEF Busy
<1>6. Held' /\ Filed'
  BY <1>4, <1>5 DEF FlowInv, Held, Filed
<1>7. /\ a.id \in DOMAIN files /\ files[a.id] = a /\ a.no < added /\ a.by = t
      /\ \A u \in Adders \ {t} : Busy(u) => a.id # adder[u].event.id
  BY <1>1 DEF FlowInv, Held
<1>8. \A s \in Subs : \A e \in Reach(s) : e.id # a.id /\ (e.by = a.by => e.no < a.no)
  BY <1>1, <1>7 DEF FlowInv, OnWay
<1> HIDE DEF a
<1>9. OnWay'
  <2> SUFFICES ASSUME NEW s \in Subs, NEW e \in Reach(s) \cup {a}
               PROVE  /\ e.id \in DOMAIN files /\ files[e.id] = e
                      /\ e.no < added
                      /\ \A u \in Adders : Busy(u)' => /\ e.id # adder'[u].event.id
                                                       /\ e.by = u => e.no < adder'[u].event.no
    BY <1>3, <1>4 DEF OnWay
  <2>1. CASE e \in Reach(s)
    BY <1>5, <2>1 DEF FlowInv, OnWay
  <2>2. CASE e = a
    BY <1>5, <1>7, <2>2
  <2> QED
    BY <2>1, <2>2
<1>10. InLine'
  <2> SUFFICES ASSUME NEW s \in Subs, NEW e \in Event, NEW f \in Event, Leads(s, e, f)'
               PROVE  /\ e.id # f.id
                      /\ e.by = f.by => e.no < f.no
                      /\ \A r \in Subs : ~Leads(r, f, e)'
    BY DEF InLine
  <2>1. CASE Leads(s, e, f)
    <3>1. e \in Reach(s) /\ f \in Reach(s) /\ e # a
      BY <1>8, <2>1, LeadsReach
    <3>2. \A r \in Subs : ~Leads(r, f, e)'
      BY <1>3, <2>1, <3>1 DEF FlowInv, InLine
    <3> QED
      BY <2>1, <3>2 DEF FlowInv, InLine
  <2>2. CASE e \in Reach(s) /\ f = a
    <3>1. \A r \in Subs : a \notin Reach(r)
      BY <1>8
    <3>2. e # a
      BY <2>2, <3>1
    <3>3. \A r \in Subs : ~Leads(r, f, e)
      BY <2>2, <3>1, LeadsReach
    <3>4. \A r \in Subs : ~Leads(r, f, e)'
      BY <1>3, <3>2, <3>3
    <3> QED
      BY <1>8, <2>2, <3>4
  <2> QED
    BY <1>3, <2>1, <2>2
<1> QED
  BY <1>6, <1>9, <1>10 DEF FlowInv

\* Every other step takes events off the way, or leaves it.
LEMMA OthersNarrow ==
  ASSUME DeliveryTyped, Next, ~Crash, \A t \in Adders : ~(AssignId(t) \/ AdderStep(t))
  PROVE  Narrows
PROOF
<1>1. CASE TakeEvent
  BY <1>1, TakeNarrows
<1>2. CASE \E s \in Subs : Dispatch(s)
  BY <1>2, DispatchNarrows
<1>3. CASE \E s \in Subs : RunCallback(s)
  BY <1>3, CallbackNarrows
<1>4. CASE EventDone \/ DispatcherStops
  <2>1. /\ UNCHANGED <<calls, pool, queue>> /\ \A s \in Subs : InHand(s)' = {}
    BY <1>4 DEF EventDone, DispatcherStops, InHand, Getting
  <2> QED
    BY <2>1, WayNarrows
<1>5. CASE \/ \E s \in Subs : \/ Subscribe(s) \/ RegisterPool(s)
                              \/ Unsubscribe(s) \/ UnsubscribeEnds(s)
           \/ Close \/ CloseStep
  <2>1. UNCHANGED <<calls, pool, disp>> /\ (queue' = queue \/ queue' = <<>>)
    BY <1>5 DEF Subscribe, RegisterPool, Unsubscribe, UnsubscribeEnds, Close, CloseStep,
                ListCallbacks, CloseReturns, CloseCallback, CallbackClosed
  <2>2. \A s \in Subs : InHand(s)' = InHand(s)
    BY <2>1 DEF InHand
  <2> QED
    BY <2>1, <2>2, WayNarrows
<1> QED
  BY <1>1, <1>2, <1>3, <1>4, <1>5 DEF Next, DispatcherStep

\* Every step of the stream keeps the order on the way.
LEMMA FlowStep ==
  ASSUME SoundInv, FlowInv, [Next]_vars
  PROVE  FlowInv'
PROOF
<1>1. FlowTypes
  BY FlowTyped
<1>2. CASE UNCHANGED vars
  <2>1. UNCHANGED <<queue, disp, pool, calls, files, addVars>>
    BY <1>2 DEF vars, storeVars
  <2>2. Narrows
    BY <2>1, WayUnchanged DEF WaySame, Narrows
  <2> QED
    BY <2>1, <2>2, FlowNarrows
<1>3. CASE Crash
  BY <1>1, <1>3, FlowCrash
<1>4. ASSUME NEW t \in Adders, AssignId(t) \/ AdderStep(t) PROVE FlowInv'
  BY <1>1, <1>4, FlowAssign, FlowWrite, FlowPage, FlowPut DEF AdderStep
<1>5. ASSUME Next, ~Crash, \A t \in Adders : ~(AssignId(t) \/ AdderStep(t))
      PROVE  FlowInv'
  <2>1. Narrows
    BY <1>1, <1>5, OthersNarrow DEF FlowTypes
  <2>2. UNCHANGED <<files, addVars>>
    BY <1>5, StoreFrame DEF storeVars
  <2> QED
    BY <2>1, <2>2, FlowNarrows
<1> QED
  BY <1>2, <1>3, <1>4, <1>5

\* A subscriber sees the events of one thread in the order that thread added
\* them, and two subscribers never see two events in opposite orders (add_event,
\* _process_queue and the pools of stream.py): for any number of threads and
\* subscribers, with failing writes, crashes, and subscribers that come and go.
THEOREM EventsInOrder == Spec => []DeliveryOrder
PROOF
<1>1. ASSUME SoundInv, FlowInv PROVE DeliveryOrder
  <2>1. ASSUME NEW s \in Subs, NEW e, NEW f, Before(s, e, f)
        PROVE  Leads(s, e, f) /\ e \in Event /\ f \in Event
    <3>1. InOrder(Called(s), e, f)
      BY <2>1 DEF Before, InOrder, Called
    <3>2. Leads(s, e, f)
      BY <3>1 DEF Leads
    <3> QED
      BY <1>1, <3>2, LeadsReach, FlowTyped, ReachTyped DEF FlowTypes
  <2>2. PerThreadOrder
    BY <1>1, <2>1 DEF PerThreadOrder, FlowInv, InLine
  <2>3. SameOrderForAll
    BY <1>1, <2>1 DEF SameOrderForAll, FlowInv, InLine
  <2> QED
    BY <2>2, <2>3 DEF DeliveryOrder
<1> DEFINE Inv == SoundInv /\ FlowInv
<1>2. Init => Inv
  BY SoundInit, FlowInit
<1>3. Inv /\ [Next]_vars => Inv'
  BY SoundStep, FlowStep
<1>4. Inv => DeliveryOrder
  BY <1>1
<1> QED
  BY <1>2, <1>3, <1>4, PTL DEF Spec

-----------------------------------------------------------------------------
(* The stream implements the log *)

SeenIds(s) == {calls[s][n].event.id : n \in DOMAIN calls[s]}

\* What the log calls seen.
LEMMA SeenCalled == \A s \in Subs : SeenIds(s) = {e.id : e \in Elems(Called(s))}
PROOF
  BY DEF SeenIds, Called, Elems

\* Only three actions change the log or what subscribers have seen of it.
LEMMA StoreOrStutter ==
  ASSUME Next, ~Crash, \A t \in Adders : ~WriteFile(t), \A s \in Subs : ~RunCallback(s)
  PROVE  UNCHANGED <<files, calls>>
PROOF
<1>1. ASSUME NEW t \in Adders, AssignId(t) \/ AdderStep(t) PROVE UNCHANGED <<files, calls>>
  BY <1>1 DEF AdderStep, AssignId, StoreCachePage, WriteFails, PutInQueue, storeVars
<1>2. CASE DispatcherStep
  BY <1>2 DEF DispatcherStep, TakeEvent, EventDone, DispatcherStops, Dispatch, storeVars
<1>3. ASSUME NEW s \in Subs,
             Subscribe(s) \/ RegisterPool(s) \/ Unsubscribe(s) \/ UnsubscribeEnds(s)
      PROVE  UNCHANGED <<files, calls>>
  BY <1>3 DEF Subscribe, RegisterPool, Unsubscribe, UnsubscribeEnds, storeVars
<1>4. CASE Close \/ CloseStep
  BY <1>4 DEF Close, CloseStep, ListCallbacks, CloseReturns, CloseCallback, CallbackClosed, storeVars
<1> QED
  BY <1>1, <1>2, <1>3, <1>4 DEF Next

\* Every step of the stream is a step of the log, or leaves it as it is.
LEMMA LogStep ==
  ASSUME SoundInv, FlowInv, [Next]_vars
  PROVE  [Log!LogNext]_(Log!logVars)
PROOF
<1> DEFINE seen == [s \in Subs |-> {calls[s][n].event.id : n \in DOMAIN calls[s]}]
<1>1. FlowTypes
  BY FlowTyped
<1>2. CASE UNCHANGED <<files, calls>>
  BY <1>2 DEF Log!logVars
<1>3. CASE Crash
  <2>1. files' = files /\ seen' = [s \in Subs |-> {}]
    BY <1>3 DEF Crash
  <2> QED
    BY <2>1 DEF Log!LogNext, Log!Restart
<1>4. ASSUME NEW t \in Adders, WriteFile(t) PROVE Log!LogNext
  <2> DEFINE e == adder[t].event
             i == e.id
  <2>1. Busy(t) /\ adder[t].pc = "write"
    BY <1>4 DEF WriteFile, Busy
  <2>2. i \in Nat /\ i \notin DOMAIN files
    BY <1>1, <2>1, HeldTyped DEF FlowTypes, FlowInv, Held
  <2>3. /\ DOMAIN files' = DOMAIN files \cup {i} /\ files'[i] = e
        /\ \A j \in DOMAIN files : files'[j] = files[j]
    BY <1>4, <2>2 DEF WriteFile, Put
  <2>4. \A j \in DOMAIN files : files[j].id = j /\ files[j] # e
    BY <2>2 DEF FlowInv, Filed
  <2>5. calls' = calls
    BY <1>4 DEF WriteFile
  <2> HIDE DEF e, i
  <2>6. seen' = seen
    BY <2>5
  <2> QED
    BY <2>2, <2>3, <2>4, <2>6 DEF Log!LogNext, Log!Store
<1>5. ASSUME NEW s \in Subs, RunCallback(s) PROVE Log!LogNext
  <2> DEFINE h == Head(pool[s])
  <2>1. /\ Called(s)' = Append(Called(s), h)
        /\ \A r \in Subs \ {s} : Called(r)' = Called(r)
        /\ h \in Event /\ h \in Elems(pool[s]) /\ Called(s) \in Seq(Event)
    <3>1. pool[s] \in Seq(Event) /\ pool[s] # <<>>
      BY <1>1, <1>5 DEF FlowTypes, DeliveryTyped, RunCallback
    <3> QED
      BY <1>1, <1>5, <3>1, CallbackNarrows, CalledTyped, TailInOrder DEF FlowTypes
  <2>2. Elems(Append(Called(s), h)) = Elems(Called(s)) \cup {h}
    BY <2>1, AppendInOrder
  <2>3. h.id \in DOMAIN files
    BY <2>1 DEF FlowInv, OnWay, Reach
  <2>4. \A e \in Elems(Called(s)) : e.id # h.id
    <3> SUFFICES ASSUME NEW e \in Elems(Called(s)) PROVE e.id # h.id
      OBVIOUS
    <3>1. Leads(s, e, h)
      BY <2>1 DEF Leads
    <3>2. e \in Event
      BY <2>1, ElemsTyped
    <3> QED
      BY <2>1, <3>1, <3>2 DEF FlowInv, InLine
  <2>5. /\ seen[s] = {e.id : e \in Elems(Called(s))}
        /\ h.id \notin seen[s]
    <3> HIDE DEF h
    <3>1. seen[s] = {e.id : e \in Elems(Called(s))}
      BY SeenCalled DEF SeenIds
    <3> HIDE DEF seen
    <3> QED
      BY <2>4, <3>1
  <2>6. \A r \in Subs : seen'[r] = {e.id : e \in Elems(Called(r))'}
    BY DEF Called, Elems
  <2>7. seen'[s] = seen[s] \cup {h.id}
    <3>1. Elems(Called(s))' = Elems(Called(s)) \cup {h}
      BY <2>1, <2>2
    <3> HIDE DEF h, seen
    <3> QED
      BY <2>5, <2>6, <3>1
  <2>8. \A r \in Subs \ {s} : seen'[r] = seen[r]
    BY <2>1, <2>6, SeenCalled DEF SeenIds
  <2>9. files' = files
    BY <1>5 DEF RunCallback, storeVars
  <2>10. seen' = [seen EXCEPT ![s] = @ \cup {h.id}]
    BY <2>7, <2>8
  <2> HIDE DEF h
  <2>11. Log!Handle(s)
    BY <2>3, <2>5, <2>9, <2>10 DEF Log!Handle
  <2> QED
    BY <2>11 DEF Log!LogNext
<1>6. UNCHANGED vars => UNCHANGED <<files, calls>>
  BY DEF vars, storeVars
<1> QED
  BY <1>2, <1>3, <1>4, <1>5, <1>6, StoreOrStutter

\* The stream implements EventLog: an id is given to one event, a stored event
\* never changes, also across crashes, and a subscriber is called at most once per
\* event and only when the event is stored (add_event, __init__ and
\* _process_queue of stream.py).
THEOREM StreamImplementsLog == Spec => ImplementsLog
PROOF
<1> DEFINE Inv == SoundInv /\ FlowInv
<1>1. Init => Inv
  BY SoundInit, FlowInit
<1>2. Inv /\ [Next]_vars => Inv'
  BY SoundStep, FlowStep
<1>3. Init => Log!LogInit
  BY DEF Init, StartProcess, Empty, Log!LogInit
<1>4. Inv /\ [Next]_vars => [Log!LogNext]_(Log!logVars)
  BY LogStep
<1> QED
  BY <1>1, <1>2, <1>3, <1>4, PTL DEF Spec, ImplementsLog, Log!LogSpec

-----------------------------------------------------------------------------
(* The pages *)

\* What a page and its events are.
LEMMA PageTyped ==
  ASSUME StoreTyped, NEW n \in 1..Len(pages)
  PROVE  /\ pages[n] \in Seq(Event) /\ Len(pages[n]) \in Nat
         /\ DOMAIN pages[n] = 1..Len(pages[n])
         /\ \A m \in 1..Len(pages[n]) : pages[n][m] \in Event /\ pages[n][m].id \in Nat
PROOF
<1>1. pages[n] \in Seq(Event)
  BY ElementOfSeq DEF StoreTyped
<1>2. Len(pages[n]) \in Nat /\ DOMAIN pages[n] = 1..Len(pages[n])
  BY <1>1, LenProperties
<1>3. \A m \in 1..Len(pages[n]) : pages[n][m] \in Event
  BY <1>1, ElementOfSeq
<1> QED
  BY <1>1, <1>2, <1>3 DEF Event

\* There is a last page.
LEMMA PageCount == StoreTyped => Len(pages) \in Nat /\ Len(pages) \in 1..Len(pages)
PROOF
  BY LenProperties DEF StoreTyped

\* A new conversation has one page, an empty one.
LEMMA PageInit == Init => PageInv /\ FirstProcess
PROOF
<1> SUFFICES ASSUME Init PROVE PageInv /\ FirstProcess
  OBVIOUS
<1>1. /\ Len(pages) = 1 /\ pages[1] = <<>> /\ DOMAIN cacheFiles = {} /\ DOMAIN files = {}
      /\ \A t \in Adders : ~Busy(t)
  BY DEF Init, StartProcess, Empty, Busy, Idle
<1>2. PagesFull /\ Consecutive /\ LastConsecutive
  BY <1>1, StreamAssumption DEF PagesFull, Consecutive, LastConsecutive
<1> QED
  BY <1>1, <1>2 DEF PageInv, HeldPage, PageStored, FirstProcess

\* A process that starts again has one page, an empty one, and starts above
\* every stored page.
LEMMA PageCrash ==
  ASSUME StoreTyped, DeliveryTyped, PageInv, Crash
  PROVE  PageInv' /\ FirstProcess'
PROOF
<1>1. /\ Len(pages') = 1 /\ pages'[1] = <<>> /\ cacheFiles' = cacheFiles /\ files' = files
      /\ \A t \in Adders : ~Busy(t)'
      /\ crashes' # 0
  BY DEF Crash, Busy, Idle, DeliveryTyped
<1>2. (PagesFull /\ Consecutive /\ LastConsecutive)'
  BY <1>1, StreamAssumption DEF PagesFull, Consecutive, LastConsecutive
<1>3. PageStored'
  <2>1. \A n \in 1..Len(pages') : \A m \in 1..Len(pages'[n]) : FALSE
    BY <1>1
  <2> QED
    BY <1>1, <2>1 DEF PageInv, PageStored
<1> QED
  BY <1>1, <1>2, <1>3 DEF PageInv, HeldPage, FirstProcess

\* No page is longer than the cache pages; a full one is not the last.
LEMMA PageLengths ==
  ASSUME StoreTyped, PagesFull, NEW n \in 1..Len(pages)
  PROVE  /\ Len(pages[n]) <= CacheSize
         /\ Len(pages[n]) = CacheSize <=> n < Len(pages)
PROOF
<1>1. Len(pages) \in Nat /\ Len(pages[n]) \in Nat
  BY PageTyped, PageCount
<1>2. CASE n < Len(pages)
  <2>1. n \in 1..Len(pages) - 1
    BY <1>1, <1>2
  <2> QED
    BY <1>1, <1>2, <2>1, StreamAssumption DEF PagesFull
<1>3. CASE n = Len(pages)
  BY <1>1, <1>3, StreamAssumption DEF PagesFull
<1> QED
  BY <1>1, <1>2, <1>3

\* An id is in one place of one page.
LEMMA OnePlace ==
  ASSUME StoreTyped, Consecutive, NEW n \in 1..Len(pages), NEW m \in 1..Len(pages[n]),
         NEW k \in 1..Len(pages), NEW l \in 1..Len(pages[k]),
         pages[n][m].id = pages[k][l].id
  PROVE  n = k /\ m = l
PROOF
<1>1. Len(pages) \in Nat /\ pages[n][m].id \in Nat /\ pages[k][l].id \in Nat
      /\ Len(pages[n]) \in Nat /\ Len(pages[k]) \in Nat
  BY PageTyped, PageCount
<1>2. ~(n < k)
  <2> SUFFICES ASSUME n < k PROVE FALSE
    OBVIOUS
  <2>1. n \in 1..k - 1
    BY <1>1
  <2>2. pages[n][m].id < pages[k][l].id
    BY <2>1 DEF Consecutive
  <2> QED
    BY <1>1, <2>2
<1>3. ~(k < n)
  <2> SUFFICES ASSUME k < n PROVE FALSE
    OBVIOUS
  <2>1. k \in 1..n - 1
    BY <1>1
  <2>2. pages[k][l].id < pages[n][m].id
    BY <2>1 DEF Consecutive
  <2> QED
    BY <1>1, <2>2
<1>4. n = k
  BY <1>1, <1>2, <1>3
<1>5. pages[n][1].id \in Nat
  <2>1. 1 \in 1..Len(pages[n])
    BY <1>1
  <2> QED
    BY <2>1, PageTyped
<1>6. pages[n][m].id = pages[n][1].id + m - 1 /\ pages[n][l].id = pages[n][1].id + l - 1
  BY <1>4 DEF Consecutive
<1> QED
  BY <1>1, <1>4, <1>5, <1>6

\* What the next event does to the pages.
LEMMA AssignPages ==
  ASSUME StoreTyped, PagesFull, NEW t \in Adders, AssignId(t)
  PROVE  LET L == Len(pages)
             K == Len(pages')
             e == [id |-> curId, no |-> added, by |-> t]
         IN /\ L \in Nat /\ L > 0 /\ K \in {L, L + 1}
            /\ \A n \in 1..L - 1 : pages'[n] = pages[n]
            /\ Len(pages'[L]) = Len(pages[L]) + 1
            /\ \A m \in 1..Len(pages[L]) : pages'[L][m] = pages[L][m]
            /\ pages'[L][Len(pages[L]) + 1] = e
            /\ K = L + 1 => Len(pages'[L]) = CacheSize /\ pages'[K] = <<>>
            /\ K = L => Len(pages'[L]) < CacheSize
PROOF
<1> DEFINE L == Len(pages)
           e == [id |-> curId, no |-> added, by |-> t]
           last == Append(pages[L], e)
<1>1. pages \in Seq(Seq(Event)) /\ pages # <<>> /\ e \in Event /\ pages' = Grow(pages, e)
  BY DEF StoreTyped, AssignId, Event
<1>2. /\ last \in Seq(Event) /\ Len(last) = Len(pages[L]) + 1
      /\ Len(pages') = IF Len(last) = CacheSize THEN L + 1 ELSE L
      /\ pages'[L] = last
      /\ \A n \in 1..L - 1 : pages'[n] = pages[n]
      /\ Len(last) = CacheSize => pages'[L + 1] = <<>>
  BY <1>1, GrowPages
<1>3. L \in Nat /\ L > 0 /\ L \in 1..L
  BY PageCount DEF StoreTyped
<1>4. pages[L] \in Seq(Event) /\ Len(pages[L]) \in Nat /\ Len(pages[L]) < CacheSize
  BY <1>3, PageTyped DEF PagesFull
<1>5. /\ \A m \in 1..Len(pages[L]) : last[m] = pages[L][m]
      /\ last[Len(pages[L]) + 1] = e
  BY <1>1, <1>4, AppendProperties
<1> HIDE DEF last, e
<1>6. Len(last) # CacheSize => Len(last) < CacheSize
  BY <1>2, <1>4, StreamAssumption
<1> QED
  BY <1>2, <1>3, <1>5, <1>6 DEF e

\* Every event of a page was there before, or is the new one at the end.
LEMMA AssignPlaces ==
  ASSUME StoreTyped, PagesFull, NEW t \in Adders, AssignId(t),
         NEW n \in 1..Len(pages'), NEW m \in 1..Len(pages'[n])
  PROVE  \/ n \in 1..Len(pages) /\ m \in 1..Len(pages[n]) /\ pages'[n][m] = pages[n][m]
         \/ /\ n = Len(pages) /\ m = Len(pages[n]) + 1
            /\ pages'[n][m] = [id |-> curId, no |-> added, by |-> t]
PROOF
<1> DEFINE L == Len(pages)
           e == [id |-> curId, no |-> added, by |-> t]
<1>1. /\ L \in Nat /\ L > 0 /\ Len(pages') \in {L, L + 1}
      /\ \A k \in 1..L - 1 : pages'[k] = pages[k]
      /\ Len(pages'[L]) = Len(pages[L]) + 1
      /\ \A k \in 1..Len(pages[L]) : pages'[L][k] = pages[L][k]
      /\ pages'[L][Len(pages[L]) + 1] = e
      /\ Len(pages') = L + 1 => pages'[L + 1] = <<>>
  BY AssignPages
<1>2. Len(pages[L]) \in Nat
  BY <1>1, PageTyped, PageCount
<1> HIDE DEF e
<1>3. CASE n \in 1..L - 1
  BY <1>1, <1>3
<1>4. CASE n = L
  <2>1. n \in 1..L
    BY <1>1, <1>4
  <2>2. m \in 1..Len(pages[L]) \/ m = Len(pages[L]) + 1
    BY <1>1, <1>2, <1>4
  <2>3. CASE m \in 1..Len(pages[L])
    <3>1. pages'[n][m] = pages[n][m]
      BY <1>1, <1>4, <2>3
    <3> QED
      BY <1>4, <2>1, <2>3, <3>1
  <2>4. CASE m = Len(pages[L]) + 1
    BY <1>1, <1>4, <2>4 DEF e
  <2> QED
    BY <2>2, <2>3, <2>4
<1>5. CASE n = L + 1
  <2>1. Len(pages'[n]) = 0
    BY <1>1, <1>5
  <2> QED
    BY <2>1
<1>6. n \in 1..L - 1 \/ n = L \/ n = L + 1
  BY <1>1
<1> QED
  BY <1>3, <1>4, <1>5, <1>6 DEF e

\* The next event continues the ids of the pages.
LEMMA ConsecutiveAssign ==
  ASSUME StoreTyped, PageInv, NEW t \in Adders, AssignId(t)
  PROVE  (PagesFull /\ Consecutive /\ LastConsecutive)'
PROOF
<1> DEFINE L == Len(pages)
           K == Len(pages')
           e == [id |-> curId, no |-> added, by |-> t]
           z == Len(pages[L])
<1>1. /\ L \in Nat /\ L > 0 /\ K \in {L, L + 1}
      /\ \A n \in 1..L - 1 : pages'[n] = pages[n]
      /\ Len(pages'[L]) = z + 1
      /\ \A m \in 1..z : pages'[L][m] = pages[L][m]
      /\ pages'[L][z + 1] = e
      /\ K = L + 1 => Len(pages'[L]) = CacheSize /\ pages'[K] = <<>>
      /\ K = L => Len(pages'[L]) < CacheSize
  BY AssignPages DEF PageInv
<1>2. /\ L \in 1..L /\ z \in Nat /\ curId \in Nat /\ curId' = curId + 1
  BY <1>1, PageTyped DEF AssignId, StoreTyped
<1>3. ASSUME NEW n \in 1..K, NEW m \in 1..Len(pages'[n])
      PROVE  \/ n \in 1..L /\ m \in 1..Len(pages[n]) /\ pages'[n][m] = pages[n][m]
             \/ n = L /\ m = z + 1 /\ pages'[n][m] = e
  BY <1>3, AssignPlaces DEF PageInv
<1>4. PagesFull'
  <2>1. ASSUME NEW n \in 1..K - 1 PROVE Len(pages'[n]) = CacheSize
    <3>1. n \in 1..L - 1 \/ (n = L /\ K = L + 1)
      BY <1>1, <2>1
    <3> QED
      BY <1>1, <3>1 DEF PageInv, PagesFull
  <2>2. Len(pages'[K]) < CacheSize
    BY <1>1, StreamAssumption
  <2> QED
    BY <2>1, <2>2 DEF PagesFull
<1>5. z > 0 => /\ 1 \in 1..z /\ pages[L][1].id \in Nat /\ curId = pages[L][1].id + z
               /\ pages'[L][1] = pages[L][1]
  <2> SUFFICES ASSUME z > 0
               PROVE  /\ 1 \in 1..z /\ pages[L][1].id \in Nat /\ curId = pages[L][1].id + z
                      /\ pages'[L][1] = pages[L][1]
    OBVIOUS
  <2>1. 1 \in 1..z /\ pages[L] # <<>>
    BY <1>2
  <2>2. pages[L][1].id \in Nat
    BY <1>2, <2>1, PageTyped
  <2> QED
    BY <1>1, <2>1, <2>2 DEF PageInv, LastConsecutive
<1>6. z = 0 => pages'[L][1] = e
  BY <1>1
<1>7. e.id = curId
  OBVIOUS
<1> HIDE DEF e
<1>8. Consecutive'
  <2> SUFFICES ASSUME NEW n \in 1..K, NEW m \in 1..Len(pages'[n])
               PROVE  /\ pages'[n][m].id = pages'[n][1].id + m - 1
                      /\ pages'[n][m].id < curId'
                      /\ \A k \in 1..n - 1 : \A l \in 1..Len(pages'[k]) :
                           pages'[k][l].id < pages'[n][m].id
    BY DEF Consecutive
  <2>1. \A k \in 1..n - 1 : k \in 1..L /\ (pages'[k] = pages[k] \/ n = L + 1)
    BY <1>1
  <2>2. CASE n \in 1..L /\ m \in 1..Len(pages[n]) /\ pages'[n][m] = pages[n][m]
    <3>1. pages'[n][1] = pages[n][1]
      <4>1. Len(pages[n]) \in Nat
        BY <2>2, PageTyped
      <4>2. n \in 1..L - 1 \/ (n = L /\ 1 \in 1..z)
        BY <1>1, <2>2, <4>1
      <4> QED
        BY <1>1, <4>2
    <3>2. \A k \in 1..n - 1 : pages'[k] = pages[k]
      BY <1>1, <2>2
    <3>3. pages[n][m].id \in Nat /\ pages[n][m].id < curId
      BY <2>2, PageTyped DEF PageInv, Consecutive
    <3>4. pages[n][m].id < curId'
      BY <1>2, <3>3
    <3> QED
      BY <2>2, <3>1, <3>2, <3>4 DEF PageInv, Consecutive
  <2>3. CASE n = L /\ m = z + 1 /\ pages'[n][m] = e
    <3>1. e.id = pages'[L][1].id + m - 1
      <4>1. CASE z = 0
        BY <1>2, <1>6, <1>7, <2>3, <4>1
      <4>2. CASE z > 0
        BY <1>2, <1>5, <1>7, <2>3, <4>2
      <4> QED
        BY <1>2, <4>1, <4>2
    <3>2. \A k \in 1..n - 1 : \A l \in 1..Len(pages'[k]) : pages'[k][l].id < curId
      <4> SUFFICES ASSUME NEW k \in 1..n - 1, NEW l \in 1..Len(pages'[k])
                   PROVE  pages'[k][l].id < curId
        OBVIOUS
      <4>1. k \in 1..L - 1 /\ k \in 1..L
        BY <1>1, <2>3
      <4>2. pages'[k] = pages[k]
        BY <1>1, <4>1
      <4> QED
        BY <4>1, <4>2 DEF PageInv, Consecutive
    <3> QED
      BY <1>2, <1>7, <2>3, <3>1, <3>2
  <2> QED
    BY <1>3, <2>2, <2>3
<1>9. LastConsecutive'
  <2>1. CASE K = L + 1
    BY <1>1, <2>1 DEF LastConsecutive
  <2>2. CASE K = L
    <3>1. curId' = pages'[L][1].id + (z + 1)
      <4>1. CASE z = 0
        BY <1>2, <1>6, <1>7, <4>1
      <4>2. CASE z > 0
        BY <1>2, <1>5, <4>2
      <4> QED
        BY <1>2, <4>1, <4>2
    <3> QED
      BY <1>1, <2>2, <3>1 DEF LastConsecutive
  <2> QED
    BY <1>1, <2>1, <2>2
<1> QED
  BY <1>4, <1>8, <1>9

\* The next event leaves the stored pages and what threads hold as they were.
LEMMA PageAssign ==
  ASSUME FlowTypes, FlowInv, PageInv, NEW t \in Adders, AssignId(t)
  PROVE  PageInv' /\ (FirstProcess => FirstProcess')
PROOF
<1> DEFINE L == Len(pages)
           K == Len(pages')
           e == [id |-> curId, no |-> added, by |-> t]
<1>0. StoreTyped
  BY DEF FlowTypes
<1>1. (PagesFull /\ Consecutive /\ LastConsecutive)'
  BY <1>0, ConsecutiveAssign
<1>2. /\ L \in Nat /\ L > 0 /\ K \in {L, L + 1}
      /\ \A n \in 1..L - 1 : pages'[n] = pages[n]
      /\ Len(pages'[L]) = Len(pages[L]) + 1
      /\ \A m \in 1..Len(pages[L]) : pages'[L][m] = pages[L][m]
      /\ pages'[L][Len(pages[L]) + 1] = e
  BY <1>0, AssignPages DEF PageInv
<1>3. /\ files' = files /\ cacheFiles' = cacheFiles /\ crashes' = crashes /\ DOMAIN adder = Adders
      /\ curId \in Nat /\ Len(pages[L]) \in Nat /\ L \in 1..L /\ 1..L \subseteq 1..K
  BY <1>0, <1>2, PageTyped DEF AssignId, StoreTyped
<1>4. StoreTyped'
  BY <1>0, AddersTyped
<1>5. \A n \in 1..L : Elems(pages[n]) \subseteq Elems(pages'[n])
  <2> SUFFICES ASSUME NEW n \in 1..L, NEW m \in 1..Len(pages[n])
               PROVE  pages[n][m] \in Elems(pages'[n])
    BY <1>0, PageTyped DEF Elems
  <2>1. Len(pages[n]) \in Nat
    BY <1>0, PageTyped
  <2>2. m \in 1..Len(pages'[n]) /\ pages'[n][m] = pages[n][m]
    <3>1. CASE n \in 1..L - 1
      BY <1>2, <3>1
    <3>2. CASE n = L
      BY <1>2, <2>1, <3>2
    <3> QED
      BY <1>2, <3>1, <3>2
  <2>3. DOMAIN pages'[n] = 1..Len(pages'[n])
    BY <1>3, <1>4, LenProperties, ElementOfSeq DEF StoreTyped
  <2> QED
    BY <2>2, <2>3 DEF Elems
<1>6. HeldPage'
  <2> SUFFICES ASSUME NEW u \in Adders, Busy(u)'
               PROVE  adder'[u].event \in Elems(pages'[adder'[u].page])
    BY DEF HeldPage
  <2>1. CASE u = t
    <3>1. adder'[t].event = e /\ adder'[t].page = L
      BY <1>3 DEF AssignId, Adding
    <3>2. DOMAIN pages'[L] = 1..Len(pages'[L])
      BY <1>3, <1>4, LenProperties, ElementOfSeq DEF StoreTyped
    <3>3. Len(pages[L]) + 1 \in DOMAIN pages'[L]
      BY <1>2, <1>3, <3>2
    <3> HIDE DEF e, L
    <3> QED
      BY <1>2, <2>1, <3>1, <3>3 DEF Elems
  <2>2. CASE u # t
    <3>1. adder'[u] = adder[u] /\ Busy(u)
      BY <1>3, <2>2 DEF AssignId, Busy
    <3>2. adder[u].page \in 1..L
      BY <1>0, <3>1, HeldTyped
    <3> QED
      BY <1>5, <3>1, <3>2 DEF PageInv, HeldPage
  <2> QED
    BY <2>1, <2>2
<1>7. \A n \in 1..L : Len(pages[n]) = CacheSize => n \in 1..L - 1 /\ pages'[n] = pages[n]
  <2>1. \A n \in 1..L : Len(pages[n]) = CacheSize => n \in 1..L - 1
    BY <1>0, <1>2, PageLengths DEF PageInv
  <2> QED
    BY <1>2, <2>1
<1>8. PageStored'
  <2> SUFFICES ASSUME NEW i \in DOMAIN cacheFiles
               PROVE  /\ \E j \in DOMAIN files : i <= j
                      /\ \/ \E n \in 1..K : /\ Len(pages'[n]) = CacheSize
                                            /\ cacheFiles[i] = pages'[n] /\ i = pages'[n][1].id
                         \/ \A n \in 1..K : \A m \in 1..Len(pages'[n]) : i < pages'[n][m].id
    BY <1>3 DEF PageStored
  <2>1. PICK j \in DOMAIN files : i <= j
    BY DEF PageInv, PageStored
  <2>2. CASE \E n \in 1..L : /\ Len(pages[n]) = CacheSize
                             /\ cacheFiles[i] = pages[n] /\ i = pages[n][1].id
    <3>1. PICK n \in 1..L : /\ Len(pages[n]) = CacheSize
                            /\ cacheFiles[i] = pages[n] /\ i = pages[n][1].id
      BY <2>2
    <3>2. n \in 1..K /\ pages'[n] = pages[n]
      BY <1>3, <1>7, <3>1
    <3> QED
      BY <2>1, <3>1, <3>2
  <2>3. CASE \A n \in 1..L : \A m \in 1..Len(pages[n]) : i < pages[n][m].id
    <3>1. i \in Nat /\ j \in Nat /\ j < curId
      BY <1>0 DEF StoreTyped
    <3>2. i < curId
      BY <1>3, <2>1, <3>1
    <3>3. ASSUME NEW n \in 1..K, NEW m \in 1..Len(pages'[n]) PROVE i < pages'[n][m].id
      <4>1. \/ n \in 1..L /\ m \in 1..Len(pages[n]) /\ pages'[n][m] = pages[n][m]
            \/ pages'[n][m] = e
        BY <1>0, <3>3, AssignPlaces DEF PageInv
      <4> QED
        BY <2>3, <3>2, <4>1
    <3> QED
      BY <2>1, <3>3
  <2> QED
    BY <2>2, <2>3 DEF PageInv, PageStored
<1>9. FirstProcess => FirstProcess'
  <2> SUFFICES ASSUME FirstProcess, crashes = 0
               PROVE  /\ \A i \in DOMAIN files : \E n \in 1..K : files[i] \in Elems(pages'[n])
                      /\ \A i \in DOMAIN cacheFiles : \E n \in 1..K :
                           /\ Len(pages'[n]) = CacheSize
                           /\ cacheFiles[i] = pages'[n] /\ i = pages'[n][1].id
    BY <1>3 DEF FirstProcess
  <2>1. \A i \in DOMAIN files : \E n \in 1..K : files[i] \in Elems(pages'[n])
    BY <1>3, <1>5 DEF FirstProcess
  <2>2. ASSUME NEW i \in DOMAIN cacheFiles
        PROVE  \E n \in 1..K : /\ Len(pages'[n]) = CacheSize
                               /\ cacheFiles[i] = pages'[n] /\ i = pages'[n][1].id
    <3>1. PICK n \in 1..L : /\ Len(pages[n]) = CacheSize
                            /\ cacheFiles[i] = pages[n] /\ i = pages[n][1].id
      BY DEF FirstProcess
    <3>2. n \in 1..K /\ pages'[n] = pages[n]
      BY <1>3, <1>7, <3>1
    <3> QED
      BY <3>1, <3>2
  <2> QED
    BY <2>1, <2>2
<1> QED
  BY <1>1, <1>6, <1>8, <1>9 DEF PageInv

\* A page that is stored is full: its first id is not above the id of the
\* thread's own event, and if that id has a page already, it is this one.
LEMMA PageKey ==
  ASSUME FlowTypes, FlowInv, PageInv, NEW t \in Adders, adder[t].pc = "page",
         Len(pages[adder[t].page]) >= CacheSize
  PROVE  LET page == pages[adder[t].page]
             key  == CacheKey(page)
         IN /\ Len(page) = CacheSize /\ key = page[1].id
            /\ \E j \in DOMAIN files : key <= j
            /\ key \in DOMAIN cacheFiles => cacheFiles[key] = page
PROOF
<1> DEFINE k == adder[t].page
           page == pages[k]
           e == adder[t].event
<1>1. StoreTyped /\ Busy(t) /\ k \in 1..Len(pages) /\ e.id \in Nat
  BY HeldTyped DEF FlowTypes, Busy
<1>2. /\ page \in Seq(Event) /\ Len(page) \in Nat /\ DOMAIN page = 1..Len(page)
      /\ \A m \in 1..Len(page) : page[m].id \in Nat
  BY <1>1, PageTyped
<1>3. Len(page) = CacheSize /\ 1 \in 1..Len(page)
  BY <1>1, <1>2, PageLengths, StreamAssumption DEF PageInv
<1>4. e.id \in DOMAIN files
  BY <1>1 DEF FlowInv, Held
<1>5. PICK m \in 1..Len(page) : page[m] = e
  BY <1>1, <1>2 DEF PageInv, HeldPage, Elems
<1>6. page[1].id <= e.id
  <2>1. page[m].id = page[1].id + m - 1
    BY <1>1 DEF PageInv, Consecutive
  <2>2. page[1].id \in Nat
    BY <1>2, <1>3
  <2> HIDE DEF page, e
  <2> QED
    BY <1>1, <1>2, <1>5, <2>1, <2>2
<1>7. ASSUME page[1].id \in DOMAIN cacheFiles PROVE cacheFiles[page[1].id] = page
  <2>1. CASE \E n \in 1..Len(pages) : /\ Len(pages[n]) = CacheSize
                                      /\ cacheFiles[page[1].id] = pages[n]
                                      /\ page[1].id = pages[n][1].id
    <3>1. PICK n \in 1..Len(pages) : /\ Len(pages[n]) = CacheSize
                                     /\ cacheFiles[page[1].id] = pages[n]
                                     /\ page[1].id = pages[n][1].id
      BY <2>1
    <3>2. 1 \in 1..Len(pages[n])
      BY <3>1, <1>3
    <3>3. n = k
      BY <1>1, <1>3, <3>1, <3>2, OnePlace DEF PageInv
    <3> QED
      BY <3>1, <3>3
  <2>2. CASE \A n \in 1..Len(pages) : \A l \in 1..Len(pages[n]) : page[1].id < pages[n][l].id
    <3>1. page[1].id < page[1].id /\ page[1].id \in Nat
      BY <1>1, <1>2, <1>3, <2>2
    <3> QED
      BY <3>1
  <2> QED
    BY <1>7, <2>1, <2>2 DEF PageInv, PageStored
<1> QED
  BY <1>3, <1>4, <1>6, <1>7 DEF CacheKey

\* Storing a page.
LEMMA PageStore ==
  ASSUME FlowTypes, FlowInv, PageInv, NEW t \in Adders, StoreCachePage(t)
  PROVE  PageInv' /\ (FirstProcess => FirstProcess')
PROOF
<1> DEFINE k == adder[t].page
           page == pages[k]
           key == CacheKey(page)
<1>1. StoreTyped /\ Busy(t) /\ k \in 1..Len(pages) /\ adder[t].pc = "page"
  BY HeldTyped DEF FlowTypes, Busy, StoreCachePage
<1>2. /\ UNCHANGED <<files, pages, curId, crashes>> /\ DOMAIN adder = Adders
  BY <1>1 DEF StoreCachePage, StoreTyped
<1>3. \A u \in Adders : Busy(u)' => /\ Busy(u) /\ adder'[u].event = adder[u].event
                                    /\ adder'[u].page = adder[u].page
  BY <1>1, <1>2 DEF StoreCachePage, Busy, Adding
<1>4. (PagesFull /\ Consecutive /\ LastConsecutive /\ HeldPage)'
  BY <1>2, <1>3 DEF PageInv, PagesFull, Consecutive, LastConsecutive, HeldPage
<1>5. Len(page) \in Nat
  BY <1>1, PageTyped
<1>6. CASE Len(page) < CacheSize
  <2>1. cacheFiles' = cacheFiles
    BY <1>6 DEF StoreCachePage
  <2> QED
    BY <1>2, <1>4, <2>1 DEF PageInv, PageStored, FirstProcess
<1>7. CASE Len(page) >= CacheSize
  <2>1. /\ Len(page) = CacheSize /\ key = page[1].id
        /\ \E j \in DOMAIN files : key <= j
    BY <1>1, <1>7, PageKey
  <2>2. /\ DOMAIN cacheFiles' = DOMAIN cacheFiles \cup {key} /\ cacheFiles'[key] = page
        /\ \A i \in DOMAIN cacheFiles \ {key} : cacheFiles'[i] = cacheFiles[i]
    <3>1. cacheFiles' = Put(cacheFiles, key, page)
      BY <1>7, <2>1, StreamAssumption DEF StoreCachePage
    <3> HIDE DEF page, key
    <3> QED
      BY <3>1 DEF Put
  <2>3. ASSUME NEW i \in DOMAIN cacheFiles'
        PROVE  \/ /\ \E j \in DOMAIN files : i <= j
                  /\ \E n \in 1..Len(pages) : /\ Len(pages[n]) = CacheSize
                                              /\ cacheFiles'[i] = pages[n] /\ i = pages[n][1].id
               \/ i \in DOMAIN cacheFiles /\ cacheFiles'[i] = cacheFiles[i]
    <3>1. CASE i = key
      BY <1>1, <2>1, <2>2, <3>1
    <3>2. CASE i # key
      BY <2>2, <3>2
    <3> QED
      BY <3>1, <3>2
  <2>4. PageStored'
    BY <1>2, <2>3 DEF PageInv, PageStored
  <2>5. FirstProcess => FirstProcess'
    BY <1>2, <2>3 DEF FirstProcess
  <2> QED
    BY <1>4, <2>4, <2>5 DEF PageInv
<1> QED
  BY <1>5, <1>6, <1>7, StreamAssumption

\* Writing an event's own file.
LEMMA PageWrite ==
  ASSUME FlowTypes, FlowInv, PageInv, NEW t \in Adders, WriteFile(t)
  PROVE  PageInv' /\ (FirstProcess => FirstProcess')
PROOF
<1> DEFINE e == adder[t].event
           i == e.id
<1>1. StoreTyped /\ Busy(t) /\ adder[t].page \in 1..Len(pages)
  BY HeldTyped DEF FlowTypes, Busy, WriteFile
<1>2. UNCHANGED <<cacheFiles, pages, curId, crashes>> /\ DOMAIN adder = Adders
  BY <1>1 DEF WriteFile, StoreTyped
<1>3. \A u \in Adders : Busy(u)' => /\ Busy(u) /\ adder'[u].event = adder[u].event
                                    /\ adder'[u].page = adder[u].page
  BY <1>1, <1>2 DEF WriteFile, Busy, Adding
<1>4. (PagesFull /\ Consecutive /\ LastConsecutive /\ HeldPage)'
  BY <1>2, <1>3 DEF PageInv, PagesFull, Consecutive, LastConsecutive, HeldPage
<1>5. i \notin DOMAIN files
  BY <1>1 DEF WriteFile, FlowInv, Held
<1>6. /\ DOMAIN files' = DOMAIN files \cup {i} /\ files'[i] = e
      /\ \A j \in DOMAIN files : files'[j] = files[j]
  BY <1>5 DEF WriteFile, Put
<1>7. PageStored'
  BY <1>2, <1>6 DEF PageInv, PageStored
<1>8. e \in Elems(pages[adder[t].page])
  BY <1>1 DEF PageInv, HeldPage
<1> HIDE DEF e, i
<1>9. FirstProcess => FirstProcess'
  BY <1>1, <1>2, <1>6, <1>8 DEF FirstProcess
<1> QED
  BY <1>4, <1>7, <1>9 DEF PageInv

\* A step that touches no page and no file; a thread may leave add_event.
LEMMA PageSame ==
  ASSUME PageInv, UNCHANGED <<storeVars, crashes>>,
         \A u \in Adders : Busy(u)' => /\ Busy(u) /\ adder'[u].event = adder[u].event
                                       /\ adder'[u].page = adder[u].page
  PROVE  PageInv' /\ (FirstProcess => FirstProcess')
PROOF
  BY DEF PageInv, PagesFull, Consecutive, LastConsecutive, HeldPage, PageStored,
         FirstProcess, storeVars

\* Every step of the stream keeps the pages in order.
LEMMA PageStep ==
  ASSUME SoundInv, FlowInv, PageInv, FirstProcess, [Next]_vars
  PROVE  PageInv' /\ FirstProcess'
PROOF
<1>1. FlowTypes
  BY FlowTyped
<1>2. CASE UNCHANGED vars
  BY <1>2, PageSame DEF vars, addVars, Busy
<1>3. CASE Crash
  BY <1>1, <1>3, PageCrash DEF FlowTypes
<1>4. ASSUME NEW t \in Adders, AssignId(t) \/ AdderStep(t) PROVE PageInv' /\ FirstProcess'
  <2>1. CASE AssignId(t) \/ WriteFile(t) \/ StoreCachePage(t)
    BY <1>1, <2>1, PageAssign, PageWrite, PageStore
  <2>2. CASE WriteFails(t) \/ PutInQueue(t)
    <3>1. UNCHANGED <<storeVars, crashes>> /\ adder' = [adder EXCEPT ![t] = Idle]
      BY <2>2 DEF WriteFails, PutInQueue
    <3>2. \A u \in Adders : Busy(u)' => /\ Busy(u) /\ adder'[u].event = adder[u].event
                                        /\ adder'[u].page = adder[u].page
      BY <1>1, <3>1 DEF Busy, Idle, FlowTypes, StoreTyped
    <3> QED
      BY <3>1, <3>2, PageSame
  <2> QED
    BY <1>4, <2>1, <2>2 DEF AdderStep
<1>5. ASSUME Next, ~Crash, \A t \in Adders : ~(AssignId(t) \/ AdderStep(t))
      PROVE  PageInv' /\ FirstProcess'
  BY <1>5, StoreFrame, PageSame DEF addVars, Busy
<1> QED
  BY <1>2, <1>3, <1>4, <1>5

StreamInv == SoundInv /\ FlowInv /\ PageInv /\ FirstProcess

\* The inductive invariant of the stream.
LEMMA StreamInvariant == Spec => []StreamInv
PROOF
<1>1. Init => StreamInv
  BY SoundInit, FlowInit, PageInit DEF StreamInv
<1>2. StreamInv /\ [Next]_vars => StreamInv'
  BY SoundStep, FlowStep, PageStep DEF StreamInv
<1> QED
  BY <1>1, <1>2, PTL DEF Spec

\* Only _store_cache_page writes pages.
LEMMA CacheFrame ==
  ASSUME [Next]_vars, \A t \in Adders : ~StoreCachePage(t)
  PROVE  cacheFiles' = cacheFiles
PROOF
<1>1. CASE UNCHANGED vars
  BY <1>1 DEF vars, storeVars
<1>2. CASE Crash
  BY <1>2 DEF Crash
<1>3. ASSUME NEW t \in Adders, AssignId(t) \/ AdderStep(t) PROVE cacheFiles' = cacheFiles
  BY <1>3 DEF AdderStep, AssignId, WriteFile, WriteFails, PutInQueue, storeVars
<1>4. ASSUME Next, ~Crash, \A t \in Adders : ~(AssignId(t) \/ AdderStep(t))
      PROVE  cacheFiles' = cacheFiles
  BY <1>4, StoreFrame DEF storeVars
<1> QED
  BY <1>1, <1>2, <1>3, <1>4

\* A cache page, once stored, never changes, whichever threads hold the same
\* page and whichever process stores it (_store_cache_page of stream.py).
THEOREM CachePagesStay == Spec => CachePagesFinal
PROOF
<1> DEFINE Same == \A i \in DOMAIN cacheFiles :
                     i \in DOMAIN cacheFiles' /\ cacheFiles'[i] = cacheFiles[i]
<1>1. ASSUME StreamInv, [Next]_vars PROVE [Same]_cacheFiles
  <2>1. ASSUME NEW t \in Adders, StoreCachePage(t) PROVE [Same]_cacheFiles
    <3> DEFINE page == pages[adder[t].page]
               key == CacheKey(page)
    <3>1. FlowTypes /\ adder[t].pc = "page"
      BY <1>1, <2>1, FlowTyped DEF StreamInv, StoreCachePage
    <3>2. CASE Len(page) < CacheSize
      BY <2>1, <3>2 DEF StoreCachePage
    <3>3. CASE ~(Len(page) < CacheSize)
      <4>1. Len(page) >= CacheSize
        <5>1. adder[t].page \in 1..Len(pages)
          BY <3>1, HeldTyped DEF FlowTypes, Busy
        <5>2. Len(page) \in Nat
          BY <3>1, <5>1, PageTyped DEF FlowTypes
        <5> QED
          BY <3>3, <5>2, StreamAssumption
      <4>2. key \in DOMAIN cacheFiles => cacheFiles[key] = page
        BY <1>1, <3>1, <4>1, PageKey DEF StreamInv
      <4>3. cacheFiles' = Put(cacheFiles, key, page)
        BY <2>1, <3>3 DEF StoreCachePage
      <4> HIDE DEF page, key
      <4> QED
        BY <4>2, <4>3 DEF Put
    <3> QED
      BY <3>2, <3>3
  <2> QED
    BY <1>1, <2>1, CacheFrame
<1> QED
  BY <1>1, StreamInvariant, PTL DEF Spec, CachePagesFinal

\* Until the first crash search_events yields for an id what that id's file
\* holds, with threads that share pages, gaps left by failed writes and pages
\* that are stored twice (search_events of event_store.py, _store_cache_page).
THEOREM SearchIsRight == Spec => []SearchMatchesUntilCrash
PROOF
<1>1. ASSUME StreamInv PROVE SearchMatchesUntilCrash
  <2> SUFFICES ASSUME crashes = 0, NEW i \in DOMAIN files, PageStart(i) \in DOMAIN cacheFiles
               PROVE  cacheFiles[PageStart(i)][i - PageStart(i) + 1] = files[i]
    BY DEF SearchMatchesUntilCrash, SearchMatchesFiles, Read
  <2> DEFINE p == PageStart(i)
             m == i - p + 1
  <2>1. StoreTyped /\ FlowInv /\ PageInv /\ FirstProcess
    BY <1>1, SoundParts DEF StreamInv
  <2>2. i \in Nat /\ p \in Int /\ m \in 1..CacheSize /\ i = p + m - 1
    <3>1. i \in Nat /\ CacheSize \in Nat \ {0}
      BY <2>1, StreamAssumption DEF StoreTyped
    <3> DEFINE r == i % CacheSize
    <3>2. r \in 0..CacheSize - 1
      BY <3>1
    <3>3. p = i - r
      BY DEF PageStart
    <3> HIDE DEF r, p
    <3> QED
      BY <3>1, <3>2, <3>3
  <2>3. PICK n \in 1..Len(pages) :
          Len(pages[n]) = CacheSize /\ cacheFiles[p] = pages[n] /\ p = pages[n][1].id
    BY <2>1 DEF FirstProcess
  <2>4. m \in 1..Len(pages[n])
    BY <2>2, <2>3
  <2>5. pages[n][m].id = i
    <3>1. pages[n][m].id = pages[n][1].id + m - 1
      BY <2>1, <2>4 DEF PageInv, Consecutive
    <3> HIDE DEF m, p
    <3> QED
      BY <2>2, <2>3, <3>1
  <2>6. PICK k \in 1..Len(pages) : files[i] \in Elems(pages[k])
    BY <2>1 DEF FirstProcess
  <2>7. PICK l \in 1..Len(pages[k]) : files[i] = pages[k][l]
    BY <2>1, <2>6, PageTyped DEF Elems
  <2>8. pages[k][l].id = i
    BY <2>1, <2>7 DEF FlowInv, Filed
  <2>9. n = k /\ m = l
    BY <2>1, <2>4, <2>5, <2>8, OnePlace DEF PageInv
  <2> QED
    BY <2>3, <2>7, <2>9
<1>2. StreamInv => SearchMatchesUntilCrash
  BY <1>1
<1> QED
  BY <1>2, StreamInvariant, PTL
=============================================================================
