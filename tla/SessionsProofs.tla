--------------------------- MODULE SessionsProofs ---------------------------
(* The conversations of one server, for any number of conversations,         *)
(* connections, requests and any limit.                                      *)
EXTENDS Sessions, FiniteSetTheorems, TLAPS

-----------------------------------------------------------------------------
(* Types.                                                                    *)

Places == {"idle", "replay", "served", "limit", "evict", "ended", "attach", "connect", "using"}
SessionType ==
  [start : {"none", "task", "env", "connect", "setup", "ended"}, runtime : {"none", "made", "closed"},
   controller : {"none", "live", "closed"}, stream : {"open", "closed"}, sub : {"none", "own", "lent"},
   close : {"no", "emit", "wait", "done", "cut"},
   late : BOOLEAN, idle : BOOLEAN, early : BOOLEAN, lent : BOOLEAN]
ConvType == [shares : BOOLEAN, stream : Procs \cup {None}, up : BOOLEAN]
TaskType ==
  [by : Procs \cup {Cleaner}, sid : Convs, at : {"new", "drop", "close"}, conns : SUBSET Conns,
   sess : Procs \cup {None}]

Typed ==
  /\ pc \in [Procs -> Places]
  /\ target \in [Procs -> Convs \cup {None}]
  /\ \A p \in Procs : pc[p] # "idle" => target[p] \in Convs
  /\ registered \in [Conns -> Convs \cup {None}]
  /\ loops \in [Convs -> Procs \cup {None}]
  /\ sess \in [Procs -> SessionType]
  /\ evict \in [Procs -> SUBSET Convs]
  /\ waited \subseteq Procs
  /\ tasks \subseteq TaskType
  /\ \A k \in tasks : k.at = "close" => k.sess \in Procs
  /\ lock \in Reqs \cup {None}
  /\ active \in [Convs -> (Reqs \cup {None}) \X Nat]
  /\ detached \in [Convs -> Reqs \cup {None}]
  /\ conv \in [Reqs -> ConvType]
  /\ using \in [Reqs -> Reqs \cup {None}]

\* Nothing has happened yet.
LEMMA InitTyped == Init => Typed
PROOF
<1> SUFFICES ASSUME Init PROVE Typed
  OBVIOUS
<1>1. NoSession \in SessionType /\ NoConv \in ConvType
  BY DEF NoSession, SessionType, NoConv, ConvType
<1>2. \A s \in Convs : active[s] \in (Reqs \cup {None}) \X Nat
  BY DEF Init
<1> QED
  BY <1>1 DEF Init, Typed, Places

\* What every step may do to the table of loops and to the sessions is one of: a session
\* is made, one is taken from the table, or the fields of one change.
LEMMA NewSessionTyped ==
  ASSUME Typed, NEW p \in Procs, NEW s \in Convs, target'[p] = s, target' \in [Procs -> Convs \cup {None}],
         \A q \in Procs \ {p} : target'[q] = target[q], NewSession(p, s)
  PROVE  /\ pc' \in [Procs -> Places] /\ loops' \in [Convs -> Procs \cup {None}]
         /\ sess' \in [Procs -> SessionType]
         /\ \A q \in Procs : pc'[q] # "idle" => target'[q] \in Convs
PROOF
<1>1. [NoSession EXCEPT !.start = "task"] \in SessionType
  BY DEF NoSession, SessionType
<1>2. pc' = [pc EXCEPT ![p] = "served"] /\ pc' \in [Procs -> Places]
  BY DEF NewSession, Typed, Places
<1>3. loops' \in [Convs -> Procs \cup {None}] /\ sess' \in [Procs -> SessionType]
  BY <1>1 DEF NewSession, Typed
<1>4. ASSUME NEW q \in Procs, pc'[q] # "idle" PROVE target'[q] \in Convs
  BY <1>2, <1>4 DEF Typed
<1> QED
  BY <1>2, <1>3, <1>4

\* Starting a loop.
LEMMA MaybeStartTyped ==
  ASSUME Typed, NEW p \in Procs, NEW s \in Convs, target'[p] = s, target' \in [Procs -> Convs \cup {None}],
         \A q \in Procs \ {p} : target'[q] = target[q], MaybeStart(p, s)
  PROVE  /\ pc' \in [Procs -> Places] /\ loops' \in [Convs -> Procs \cup {None}]
         /\ sess' \in [Procs -> SessionType] /\ evict' \in [Procs -> SUBSET Convs] /\ waited' \subseteq Procs
         /\ \A q \in Procs : pc'[q] # "idle" => target'[q] \in Convs
PROOF
<1>1. CASE NewSession(p, s) /\ UNCHANGED <<evict, waited>>
  BY <1>1, NewSessionTyped DEF Typed
<1>2. CASE pc' = [pc EXCEPT ![p] = "served"] /\ UNCHANGED <<loops, sess, evict, waited>>
  <2>1. pc' \in [Procs -> Places]
    BY <1>2 DEF Typed, Places
  <2>2. ASSUME NEW q \in Procs, pc'[q] # "idle" PROVE target'[q] \in Convs
    BY <1>2, <2>2 DEF Typed
  <2> QED
    BY <1>2, <2>1, <2>2 DEF Typed
<1>3. CASE /\ pc' = [pc EXCEPT ![p] = "limit"] /\ evict' = [evict EXCEPT ![p] = Running]
           /\ waited' = waited \cup {p} /\ UNCHANGED <<loops, sess>>
  <2>1. pc' \in [Procs -> Places]
    BY <1>3 DEF Typed, Places
  <2>2. ASSUME NEW q \in Procs, pc'[q] # "idle" PROVE target'[q] \in Convs
    BY <1>3, <2>2 DEF Typed
  <2>3. evict' \in [Procs -> SUBSET Convs]
    BY <1>3 DEF Typed, Running
  <2> QED
    BY <1>3, <2>1, <2>2, <2>3 DEF Typed
<1> QED
  BY <1>1, <1>2, <1>3 DEF MaybeStart

\* The task that closes a session has taken it from the table.
LEMMA PoppedTyped ==
  ASSUME Typed, NEW k \in tasks, Popped(k)
  PROVE  /\ loops' \in [Convs -> Procs \cup {None}] /\ sess' \in [Procs -> SessionType]
         /\ tasks' \subseteq TaskType /\ \A t \in tasks' : t.at = "close" => t.sess \in Procs
PROOF
<1>1. k \in TaskType /\ k.sid \in Convs /\ loops[k.sid] \in Procs \cup {None}
  BY DEF Typed, TaskType
<1>2. loops' \in [Convs -> Procs \cup {None}]
  BY DEF Popped, Typed
<1>3. CASE loops[k.sid] = None
  BY <1>2, <1>3 DEF Popped, Typed
<1>4. CASE loops[k.sid] # None
  <2> DEFINE t == [k EXCEPT !.at = "close", !.conns = {}, !.sess = loops[k.sid]]
  <2>1. loops[k.sid] \in Procs
    BY <1>1, <1>4
  <2>2. t \in TaskType /\ t.sess \in Procs
    BY <1>1, <2>1 DEF TaskType
  <2>3. tasks' = (tasks \ {k}) \cup {t} /\ sess' = [sess EXCEPT ![loops[k.sid]].close = "emit"]
    BY <1>4 DEF Popped
  <2>4. sess' \in [Procs -> SessionType]
    <3>1. sess \in [Procs -> SessionType] /\ sess[loops[k.sid]] \in SessionType
      BY <2>1 DEF Typed
    <3>2. [sess[loops[k.sid]] EXCEPT !.close = "emit"] \in SessionType
      BY <3>1 DEF SessionType
    <3> QED
      BY <2>1, <2>3, <3>1, <3>2
  <2> HIDE DEF t
  <2> QED
    BY <1>2, <2>2, <2>3, <2>4 DEF Typed
<1> QED
  BY <1>3, <1>4

\* Closing streams leaves the rest of the sessions alone.
LEMMA StreamsClosedTyped ==
  ASSUME Typed, NEW rs \in SUBSET Reqs
  PROVE  /\ StreamsClosed(rs, sess) \in [Procs -> SessionType] /\ ConvsDown(rs) \in [Reqs -> ConvType]
         /\ \A i \in Procs : LET t == StreamsClosed(rs, sess)[i] IN
              /\ t.start = sess[i].start /\ t.runtime = sess[i].runtime /\ t.controller = sess[i].controller
              /\ t.close = sess[i].close /\ t.early = sess[i].early /\ t.lent = sess[i].lent
              /\ t.stream # sess[i].stream => \E r \in rs : ~conv[r].shares /\ conv[r].stream = i
         /\ \A r \in Reqs : LET c == ConvsDown(rs)[r] IN
              /\ c.shares = conv[r].shares /\ c.stream = conv[r].stream
              /\ r \notin rs => c.up = conv[r].up
PROOF
<1>1. \A i \in Procs : sess[i] \in SessionType
  BY DEF Typed
<1>2. \A r \in Reqs : conv[r] \in ConvType
  BY DEF Typed
<1>3. \A i \in Procs : [sess[i] EXCEPT !.stream = "closed", !.sub = "none"] \in SessionType
  BY <1>1 DEF SessionType
<1>4. \A r \in Reqs : [conv[r] EXCEPT !.up = FALSE] \in ConvType
  BY <1>2 DEF ConvType
<1>5. StreamsClosed(rs, sess) \in [Procs -> SessionType]
  BY <1>1, <1>3 DEF StreamsClosed
<1>6. ConvsDown(rs) \in [Reqs -> ConvType]
  BY <1>2, <1>4 DEF ConvsDown
<1>7. ASSUME NEW i \in Procs
      PROVE  LET t == StreamsClosed(rs, sess)[i] IN
              /\ t.start = sess[i].start /\ t.runtime = sess[i].runtime /\ t.controller = sess[i].controller
              /\ t.close = sess[i].close /\ t.early = sess[i].early /\ t.lent = sess[i].lent
              /\ t.stream # sess[i].stream => \E r \in rs : ~conv[r].shares /\ conv[r].stream = i
  <2> DEFINE x == [sess[i] EXCEPT !.stream = "closed", !.sub = "none"]
  <2>1. /\ x.start = sess[i].start /\ x.runtime = sess[i].runtime /\ x.controller = sess[i].controller
        /\ x.close = sess[i].close /\ x.early = sess[i].early /\ x.lent = sess[i].lent
    BY <1>1 DEF SessionType
  <2>2. CASE \E r \in rs : ~conv[r].shares /\ conv[r].stream = i
    <3>1. StreamsClosed(rs, sess)[i] = x
      BY <2>2 DEF StreamsClosed
    <3> QED
      BY <2>1, <2>2, <3>1
  <2>3. CASE ~ \E r \in rs : ~conv[r].shares /\ conv[r].stream = i
    <3>1. StreamsClosed(rs, sess)[i] = sess[i]
      BY <2>3 DEF StreamsClosed
    <3> QED
      BY <3>1
  <2> QED
    BY <2>2, <2>3
<1>8. ASSUME NEW r \in Reqs
      PROVE  LET c == ConvsDown(rs)[r] IN
              /\ c.shares = conv[r].shares /\ c.stream = conv[r].stream
              /\ r \notin rs => c.up = conv[r].up
  BY <1>2 DEF ConvsDown, ConvType
<1> QED
  BY <1>5, <1>6, <1>7, <1>8

\* The steps of a session's start and close that change it alone.
OwnStep(i) ==
  \/ MarkClosed(i) \/ AgentClose(i) \/ StartStep(i) \/ TurnsLate(i) \/ GoesIdle(i) \/ WakesUp(i)
LEMMA OwnStepTyped ==
  ASSUME Typed, NEW i \in Procs, OwnStep(i)
  PROVE  /\ Typed'
         /\ \E x \in SessionType : sess' = [sess EXCEPT ![i] = x]
         /\ UNCHANGED <<procVars, connVars, loops, tasks, convVars>>
PROOF
<1>1. sess \in [Procs -> SessionType] /\ sess[i] \in SessionType
  BY DEF Typed
<1>2. /\ sess' \in [Procs -> SessionType]
      /\ \E x \in SessionType : sess' = [sess EXCEPT ![i] = x]
      /\ UNCHANGED <<procVars, connVars, loops, tasks, convVars>>
  <2>0. ASSUME NEW x \in SessionType, sess' = [sess EXCEPT ![i] = x]
        PROVE  sess' \in [Procs -> SessionType] /\ \E y \in SessionType : sess' = [sess EXCEPT ![i] = y]
    BY <1>1, <2>0
  <2>1. CASE MarkClosed(i)
    <3> DEFINE x == [sess[i] EXCEPT !.close = "wait"]
    <3>1. x \in SessionType
      BY <1>1 DEF SessionType
    <3>2. sess' = [sess EXCEPT ![i] = x]
      BY <2>1 DEF MarkClosed
    <3> HIDE DEF x
    <3> QED
      BY <2>0, <2>1, <3>1, <3>2 DEF MarkClosed
  <2>2. CASE AgentClose(i)
    <3> DEFINE e == Starting(i)
               c == IF sess[i].controller = "live" THEN "closed" ELSE sess[i].controller
               m == IF sess[i].runtime = "made" THEN "closed" ELSE sess[i].runtime
               x == [sess[i] EXCEPT !.close = "done", !.early = e, !.stream = "closed", !.sub = "none",
                                    !.controller = c, !.runtime = m]
    <3>0. e \in BOOLEAN /\ c \in {"none", "live", "closed"} /\ m \in {"none", "made", "closed"}
      BY <1>1 DEF Starting, SessionType
    <3>1. x \in SessionType
      <4> DEFINE x1 == [sess[i] EXCEPT !.close = "done", !.early = e, !.stream = "closed"]
      <4> HIDE DEF e, c, m
      <4>1. x1 \in SessionType
        BY <1>1, <3>0 DEF SessionType
      <4>2. x = [x1 EXCEPT !.sub = "none", !.controller = c, !.runtime = m]
        OBVIOUS
      <4> HIDE DEF x1, x
      <4> QED
        BY <4>1, <4>2, <3>0 DEF SessionType
    <3>2. sess' = [sess EXCEPT ![i] = x]
      BY <1>1, <2>2 DEF AgentClose
    <3> HIDE DEF x
    <3> QED
      BY <2>0, <2>2, <3>1, <3>2 DEF AgentClose
  <2>3. CASE BeginStart(i)
    <3> DEFINE x == [sess[i] EXCEPT !.start = IF sess[i].close \in {"no", "emit"} THEN "env" ELSE "ended"]
    <3>1. x \in SessionType
      BY <1>1 DEF SessionType
    <3>2. sess' = [sess EXCEPT ![i] = x]
      BY <2>3 DEF BeginStart
    <3> HIDE DEF x
    <3> QED
      BY <2>0, <2>3, <3>1, <3>2 DEF BeginStart, StartOnly
  <2>4. CASE MakeRuntime(i)
    <3> DEFINE x == IF sess[i].sub = "lent" THEN [sess[i] EXCEPT !.start = "ended"]
                    ELSE [sess[i] EXCEPT !.start = "connect", !.runtime = "made", !.sub = "own"]
    <3>1. x \in SessionType
      BY <1>1 DEF SessionType
    <3>2. sess' = [sess EXCEPT ![i] = x]
      BY <2>4 DEF MakeRuntime
    <3> HIDE DEF x
    <3> QED
      BY <2>0, <2>4, <3>1, <3>2 DEF MakeRuntime, StartOnly
  <2>5. CASE ConnectRuntime(i)
    <3> DEFINE x == [sess[i] EXCEPT !.start = "setup"]
    <3>1. x \in SessionType
      BY <1>1 DEF SessionType
    <3>2. sess' = [sess EXCEPT ![i] = x]
      BY <2>5 DEF ConnectRuntime
    <3> HIDE DEF x
    <3> QED
      BY <2>0, <2>5, <3>1, <3>2 DEF ConnectRuntime, StartOnly
  <2>6. CASE MakeController(i)
    <3> DEFINE x == [sess[i] EXCEPT !.start = "ended", !.controller = "live"]
    <3>1. x \in SessionType
      BY <1>1 DEF SessionType
    <3>2. sess' = [sess EXCEPT ![i] = x]
      BY <2>6 DEF MakeController
    <3> HIDE DEF x
    <3> QED
      BY <2>0, <2>6, <3>1, <3>2 DEF MakeController, StartOnly
  <2>7. CASE StartFails(i)
    <3> DEFINE x == [sess[i] EXCEPT !.start = "ended"]
    <3>1. x \in SessionType
      BY <1>1 DEF SessionType
    <3>2. sess' = [sess EXCEPT ![i] = x]
      BY <2>7 DEF StartFails
    <3> HIDE DEF x
    <3> QED
      BY <2>0, <2>7, <3>1, <3>2 DEF StartFails, StartOnly
  <2>8. CASE TurnsLate(i)
    <3> DEFINE x == [sess[i] EXCEPT !.late = TRUE]
    <3>1. x \in SessionType
      BY <1>1 DEF SessionType
    <3>2. sess' = [sess EXCEPT ![i] = x]
      BY <2>8 DEF TurnsLate
    <3> HIDE DEF x
    <3> QED
      BY <2>0, <2>8, <3>1, <3>2 DEF TurnsLate, StartOnly
  <2>9. CASE GoesIdle(i) \/ WakesUp(i)
    <3>1. PICK b \in BOOLEAN : sess' = [sess EXCEPT ![i].idle = b]
      BY <2>9 DEF GoesIdle, WakesUp
    <3> DEFINE x == [sess[i] EXCEPT !.idle = b]
    <3>2. x \in SessionType
      BY <1>1 DEF SessionType
    <3>3. sess' = [sess EXCEPT ![i] = x]
      BY <3>1
    <3> HIDE DEF x
    <3> QED
      BY <2>0, <2>9, <3>2, <3>3 DEF GoesIdle, WakesUp, StartOnly
  <2> QED
    BY <2>1, <2>2, <2>3, <2>4, <2>5, <2>6, <2>7, <2>8, <2>9 DEF OwnStep, StartStep
<1>3. Typed'
  BY <1>2 DEF Typed, procVars, connVars, convVars
<1> QED
  BY <1>2, <1>3

\* Every variable keeps its type.
LEMMA NextTyped ==
  ASSUME Typed, [Next]_vars
  PROVE  Typed'
PROOF
<1>1. ASSUME NEW c \in Conns, NEW s \in Convs, Connect(c, s) PROVE Typed'
  <2>1. c \in Procs
    BY DEF Procs
  <2>2. pc' = [pc EXCEPT ![c] = "replay"] /\ target' = [target EXCEPT ![c] = s]
    BY <1>1 DEF Connect
  <2>3. pc' \in [Procs -> Places] /\ target' \in [Procs -> Convs \cup {None}]
    BY <2>2 DEF Typed, Places
  <2>4. \A p \in Procs : pc'[p] # "idle" => target'[p] \in Convs
    BY <2>1, <2>2 DEF Typed
  <2> QED
    BY <1>1, <2>3, <2>4 DEF Connect, Typed, convVars
<1>2. ASSUME NEW c \in Conns, ConnectRefused(c) PROVE Typed'
  <2>1. c \in Procs /\ pc[c] = "replay"
    BY <1>2 DEF Procs, ConnectRefused
  <2>2. pc' = [pc EXCEPT ![c] = "ended"] /\ target' = target
    BY <1>2 DEF ConnectRefused
  <2>3. pc' \in [Procs -> Places] /\ \A p \in Procs : pc'[p] # "idle" => target'[p] \in Convs
    BY <2>1, <2>2 DEF Typed, Places
  <2> QED
    BY <1>2, <2>2, <2>3 DEF ConnectRefused, Typed, convVars
<1>3. ASSUME NEW c \in Conns, Join(c) PROVE Typed'
  <2>1. c \in Procs /\ pc[c] = "replay" /\ target[c] \in Convs /\ target' = target
    BY <1>3 DEF Procs, Join, Typed
  <2>2. CASE pc' = [pc EXCEPT ![c] = "ended"] /\ UNCHANGED <<registered, loops, sess, evict, waited>>
    <3>1. pc' \in [Procs -> Places] /\ \A p \in Procs : pc'[p] # "idle" => target'[p] \in Convs
      BY <2>1, <2>2 DEF Typed, Places
    <3> QED
      BY <1>3, <2>1, <2>2, <3>1 DEF Join, Typed, convVars
  <2>3. CASE registered' = [registered EXCEPT ![c] = target[c]] /\ MaybeStart(c, target[c])
    <3>1. registered' \in [Conns -> Convs \cup {None}]
      BY <2>1, <2>3 DEF Typed
    <3>2. target'[c] = target[c] /\ target' \in [Procs -> Convs \cup {None}]
      BY <2>1 DEF Typed
    <3>3. /\ pc' \in [Procs -> Places] /\ loops' \in [Convs -> Procs \cup {None}]
          /\ sess' \in [Procs -> SessionType] /\ evict' \in [Procs -> SUBSET Convs] /\ waited' \subseteq Procs
          /\ \A q \in Procs : pc'[q] # "idle" => target'[q] \in Convs
      BY <2>1, <2>3, <3>2, MaybeStartTyped
    <3> QED
      BY <1>3, <3>1, <3>2, <3>3 DEF Join, Typed, convVars
  <2> QED
    BY <1>3, <2>2, <2>3 DEF Join
<1>4. ASSUME NEW c \in Conns, Disconnect(c) PROVE Typed'
  <2>1. registered' \in [Conns -> Convs \cup {None}]
    BY <1>4 DEF Disconnect, Typed
  <2> QED
    BY <1>4, <2>1 DEF Disconnect, Typed, procVars, convVars
<1>5. ASSUME NEW r \in Reqs, NEW s \in Convs, StartRequest(r, s) PROVE Typed'
  <2>1. r \in Procs /\ target' = [target EXCEPT ![r] = s] /\ MaybeStart(r, s)
    BY <1>5 DEF Procs, StartRequest
  <2>2. target'[r] = s /\ target' \in [Procs -> Convs \cup {None}] /\ \A q \in Procs \ {r} : target'[q] = target[q]
    BY <2>1 DEF Typed
  <2>3. /\ pc' \in [Procs -> Places] /\ loops' \in [Convs -> Procs \cup {None}]
        /\ sess' \in [Procs -> SessionType] /\ evict' \in [Procs -> SUBSET Convs] /\ waited' \subseteq Procs
        /\ \A q \in Procs : pc'[q] # "idle" => target'[q] \in Convs
    BY <2>1, <2>2, MaybeStartTyped
  <2> QED
    BY <1>5, <2>2, <2>3 DEF StartRequest, Typed, connVars, convVars
<1>6. ASSUME NEW r \in Reqs, NEW s \in Convs, StopRequest(r, s) PROVE Typed'
  <2>1. r \in Procs /\ pc' = [pc EXCEPT ![r] = "ended"] /\ target' = [target EXCEPT ![r] = s]
    BY <1>6 DEF Procs, StopRequest
  <2>2. /\ pc' \in [Procs -> Places] /\ target' \in [Procs -> Convs \cup {None}]
        /\ \A p \in Procs : pc'[p] # "idle" => target'[p] \in Convs
    BY <2>1 DEF Typed, Places
  <2>3. Task(r, s) \in TaskType /\ Task(r, s).at = "new"
    BY <2>1 DEF Task, TaskType
  <2>4. tasks' = tasks \cup {Task(r, s)}
    BY <1>6 DEF StopRequest
  <2>5. tasks' \subseteq TaskType /\ \A k \in tasks' : k.at = "close" => k.sess \in Procs
    BY <2>3, <2>4 DEF Typed
  <2> QED
    BY <1>6, <2>2, <2>5 DEF StopRequest, Typed, connVars, convVars
<1>7. ASSUME NEW r \in Reqs, NEW s \in Convs, AttachRequest(r, s) PROVE Typed'
  <2>1. r \in Procs /\ pc' = [pc EXCEPT ![r] = "attach"] /\ target' = [target EXCEPT ![r] = s]
    BY <1>7 DEF Procs, AttachRequest
  <2>2. /\ pc' \in [Procs -> Places] /\ target' \in [Procs -> Convs \cup {None}]
        /\ \A p \in Procs : pc'[p] # "idle" => target'[p] \in Convs
    BY <2>1 DEF Typed, Places
  <2> QED
    BY <1>7, <2>2 DEF AttachRequest, Typed, connVars, convVars
<1>8. ASSUME NEW r \in Reqs, NEW h \in Reqs, NEW n \in Nat, pc[r] # "idle", Hold(r, target[r], h, n)
      PROVE  /\ pc' \in [Procs -> Places] /\ active' \in [Convs -> (Reqs \cup {None}) \X Nat]
             /\ using' \in [Reqs -> Reqs \cup {None}] /\ \A p \in Procs : pc'[p] # "idle" => target[p] \in Convs
  <2>1. r \in Procs
    BY DEF Procs
  <2> QED
    BY <1>8, <2>1 DEF Hold, Typed, Places
<1>9. ASSUME NEW r \in Reqs, AttachReuse(r) PROVE Typed'
  <2>1. r \in Procs /\ pc[r] = "attach" /\ target[r] \in Convs
    BY <1>9 DEF Procs, AttachReuse, Typed
  <2> DEFINE s == target[r]
  <2>2. active[s] \in (Reqs \cup {None}) \X Nat
    BY <2>1 DEF Typed
  <2>3. UNCHANGED <<plan, target, evict, waited, connVars, loops, sess, tasks, lock, conv, boxVars>>
    BY <1>9 DEF AttachReuse
  <2>4. CASE active[s][2] > 0 /\ Hold(r, s, active[s][1], active[s][2] + 1) /\ UNCHANGED detached
    <3>1. active' = [active EXCEPT ![s] = <<active[s][1], active[s][2] + 1>>] /\ using' = [using EXCEPT ![r] = active[s][1]]
          /\ pc' = [pc EXCEPT ![r] = "using"]
      BY <2>4 DEF Hold
    <3>2. active[s][1] \in Reqs \cup {None} /\ active[s][2] + 1 \in Nat
      BY <2>2
    <3>3. /\ pc' \in [Procs -> Places] /\ active' \in [Convs -> (Reqs \cup {None}) \X Nat]
          /\ using' \in [Reqs -> Reqs \cup {None}] /\ \A p \in Procs : pc'[p] # "idle" => target[p] \in Convs
      BY <2>1, <3>1, <3>2 DEF Typed, Places
    <3> QED
      BY <2>3, <2>4, <3>3 DEF Typed, connVars
  <2>5. CASE detached[s] # None /\ Hold(r, s, detached[s], 1) /\ detached' = [detached EXCEPT ![s] = None]
    <3>1. detached[s] \in Reqs /\ 1 \in Nat
      BY <2>1, <2>5 DEF Typed
    <3>2. /\ pc' \in [Procs -> Places] /\ active' \in [Convs -> (Reqs \cup {None}) \X Nat]
          /\ using' \in [Reqs -> Reqs \cup {None}] /\ \A p \in Procs : pc'[p] # "idle" => target[p] \in Convs
      BY <1>8, <2>1, <2>5, <3>1
    <3>3. detached' \in [Convs -> Reqs \cup {None}]
      BY <2>5 DEF Typed
    <3> QED
      BY <2>3, <3>2, <3>3 DEF Typed, connVars
  <2> QED
    BY <1>9, <2>4, <2>5 DEF AttachReuse
<1>10. ASSUME NEW r \in Reqs, AttachNew(r) PROVE Typed'
  <2>1. r \in Procs /\ pc[r] = "attach" /\ target[r] \in Convs
    BY <1>10 DEF Procs, AttachNew, Typed
  <2> DEFINE s == target[r]
             i == loops[s]
  <2>2. i \in Procs \cup {None}
    BY <2>1 DEF Typed
  <2>3. UNCHANGED <<plan, target, evict, waited, connVars, loops, tasks, detached, boxVars>>
    BY <1>10 DEF AttachNew
  <2>4. ASSUME NEW b \in BOOLEAN, conv' = [conv EXCEPT ![r] = [shares |-> b, stream |-> i, up |-> TRUE]]
        PROVE  conv' \in [Reqs -> ConvType]
    <3>1. [shares |-> b, stream |-> i, up |-> TRUE] \in ConvType
      BY <2>2 DEF ConvType
    <3> HIDE DEF i
    <3> QED
      BY <2>4, <3>1 DEF Typed
  <2>5. CASE /\ conv' = [conv EXCEPT ![r] = [shares |-> TRUE, stream |-> i, up |-> TRUE]]
             /\ Hold(r, s, r, 1) /\ UNCHANGED <<lock, sess>>
    <3>1. /\ pc' \in [Procs -> Places] /\ active' \in [Convs -> (Reqs \cup {None}) \X Nat]
          /\ using' \in [Reqs -> Reqs \cup {None}] /\ \A p \in Procs : pc'[p] # "idle" => target[p] \in Convs
      BY <1>8, <2>1, <2>5
    <3>2. conv' \in [Reqs -> ConvType]
      BY <2>4, <2>5
    <3> QED
      BY <2>3, <2>5, <3>1, <3>2 DEF Typed, connVars
  <2>6. CASE /\ conv' = [conv EXCEPT ![r] = [shares |-> FALSE, stream |-> i, up |-> TRUE]]
             /\ sess' = IF i = None THEN sess ELSE [sess EXCEPT ![i].sub = "lent", ![i].lent = TRUE]
             /\ lock' = r /\ pc' = [pc EXCEPT ![r] = "connect"] /\ UNCHANGED <<active, using>>
    <3>1. conv' \in [Reqs -> ConvType]
      BY <2>4, <2>6
    <3>2. pc' \in [Procs -> Places] /\ \A p \in Procs : pc'[p] # "idle" => target[p] \in Convs
      BY <2>1, <2>6 DEF Typed, Places
    <3>3. sess' \in [Procs -> SessionType]
      <4>1. CASE i = None
        BY <2>6, <4>1 DEF Typed
      <4>2. CASE i # None
        <5>1. i \in Procs /\ sess \in [Procs -> SessionType] /\ sess[i] \in SessionType
          BY <2>2, <4>2 DEF Typed
        <5>2. [sess[i] EXCEPT !.sub = "lent", !.lent = TRUE] \in SessionType
          BY <5>1 DEF SessionType
        <5>3. sess' = [sess EXCEPT ![i] = [sess[i] EXCEPT !.sub = "lent", !.lent = TRUE]]
          BY <2>6, <4>2, <5>1
        <5> QED
          BY <5>1, <5>2, <5>3
      <4> QED
        BY <4>1, <4>2
    <3> QED
      BY <2>3, <2>6, <3>1, <3>2, <3>3 DEF Typed, connVars
  <2> QED
    BY <1>10, <2>5, <2>6 DEF AttachNew
<1>11. ASSUME NEW r \in Reqs, AttachConnects(r) PROVE Typed'
  <2>1. pc[r] = "connect" /\ Hold(r, target[r], r, 1) /\ lock' = None
    BY <1>11 DEF AttachConnects
  <2>2. /\ pc' \in [Procs -> Places] /\ active' \in [Convs -> (Reqs \cup {None}) \X Nat]
        /\ using' \in [Reqs -> Reqs \cup {None}] /\ \A p \in Procs : pc'[p] # "idle" => target[p] \in Convs
    BY <1>8, <2>1
  <2> QED
    BY <1>11, <2>1, <2>2 DEF AttachConnects, Typed, connVars
<1>12. ASSUME NEW r \in Reqs, AttachFails(r) PROVE Typed'
  <2>1. r \in Procs /\ pc[r] = "connect" /\ pc' = [pc EXCEPT ![r] = "ended"]
    BY <1>12 DEF AttachFails, Procs
  <2>2. pc' \in [Procs -> Places] /\ \A p \in Procs : pc'[p] # "idle" => target[p] \in Convs
    BY <2>1 DEF Typed, Places
  <2>3. sess' \in [Procs -> SessionType] /\ conv' \in [Reqs -> ConvType]
    BY <1>12, StreamsClosedTyped DEF AttachFails
  <2> QED
    BY <1>12, <2>2, <2>3 DEF AttachFails, Typed, connVars
<1>13. ASSUME NEW r \in Reqs, Detach(r) PROVE Typed'
  <2>1. r \in Procs /\ pc[r] = "using" /\ target[r] \in Convs /\ pc' = [pc EXCEPT ![r] = "ended"]
        /\ using' = [using EXCEPT ![r] = None]
    BY <1>13 DEF Detach, Procs, Typed
  <2> DEFINE s == target[r]
  <2>2. /\ pc' \in [Procs -> Places] /\ using' \in [Reqs -> Reqs \cup {None}]
        /\ \A p \in Procs : pc'[p] # "idle" => target[p] \in Convs
    BY <2>1 DEF Typed, Places
  <2>3. UNCHANGED <<plan, target, evict, waited, connVars, loops, sess, tasks, lock, conv, boxVars>>
    BY <1>13 DEF Detach
  <2>4. CASE active[s][2] > 1 /\ active' = [active EXCEPT ![s][2] = @ - 1] /\ UNCHANGED detached
    <3>1. active[s] \in (Reqs \cup {None}) \X Nat
      BY <2>1 DEF Typed
    <3>2. [active[s] EXCEPT ![2] = @ - 1] \in (Reqs \cup {None}) \X Nat
      BY <2>4, <3>1
    <3>3. active' \in [Convs -> (Reqs \cup {None}) \X Nat]
      BY <2>4, <3>2 DEF Typed
    <3> QED
      BY <2>2, <2>3, <2>4, <3>3 DEF Typed, connVars
  <2>5. CASE active' = [active EXCEPT ![s] = <<None, 0>>] /\ detached' = [detached EXCEPT ![s] = using[r]]
    <3>1. active' \in [Convs -> (Reqs \cup {None}) \X Nat] /\ detached' \in [Convs -> Reqs \cup {None}]
      BY <2>5 DEF Typed
    <3> QED
      BY <2>2, <2>3, <3>1 DEF Typed, connVars
  <2> QED
    BY <1>13, <2>4, <2>5 DEF Detach
<1>14. ASSUME NEW p \in Procs, ChooseOldest(p) PROVE Typed'
  <2>1. pc' = [pc EXCEPT ![p] = "evict"] /\ pc[p] = "limit" /\ target' = target
    BY <1>14 DEF ChooseOldest
  <2>2. pc' \in [Procs -> Places] /\ \A q \in Procs : pc'[q] # "idle" => target'[q] \in Convs
    BY <2>1 DEF Typed, Places
  <2>3. evict' \in [Procs -> SUBSET Convs]
    <3>1. PICK old \in SUBSET evict[p] : evict' = [evict EXCEPT ![p] = old]
      BY <1>14 DEF ChooseOldest
    <3>2. old \in SUBSET Convs
      BY DEF Typed
    <3> QED
      BY <3>1, <3>2 DEF Typed
  <2> QED
    BY <1>14, <2>2, <2>3 DEF ChooseOldest, Typed, connVars, convVars
<1>15. ASSUME NEW p \in Procs, CloseOldest(p) PROVE Typed'
  <2>1. PICK s \in evict[p] : /\ evict' = [evict EXCEPT ![p] = @ \ {s}]
                              /\ tasks' = IF loops[s] # None THEN tasks \cup {Task(p, s)} ELSE tasks
    BY <1>15 DEF CloseOldest
  <2>2. s \in Convs /\ evict' \in [Procs -> SUBSET Convs]
    BY <2>1 DEF Typed
  <2>3. Task(p, s) \in TaskType /\ Task(p, s).at = "new"
    BY <2>2 DEF Task, TaskType
  <2>4. tasks' \subseteq TaskType /\ \A k \in tasks' : k.at = "close" => k.sess \in Procs
    BY <2>1, <2>3 DEF Typed
  <2> QED
    BY <1>15, <2>2, <2>4 DEF CloseOldest, Typed, connVars, convVars
<1>16. ASSUME NEW p \in Procs, StartAfterEviction(p) PROVE Typed'
  <2>1. pc[p] = "evict" /\ NewSession(p, target[p]) /\ target' = target /\ target[p] \in Convs
    BY <1>16 DEF StartAfterEviction, Typed
  <2>2. target'[p] = target[p] /\ target' \in [Procs -> Convs \cup {None}]
    BY <2>1 DEF Typed
  <2>3. /\ pc' \in [Procs -> Places] /\ loops' \in [Convs -> Procs \cup {None}] /\ sess' \in [Procs -> SessionType]
        /\ \A q \in Procs : pc'[q] # "idle" => target'[q] \in Convs
    BY <2>1, <2>2, NewSessionTyped
  <2> QED
    BY <1>16, <2>2, <2>3 DEF StartAfterEviction, Typed, connVars, convVars
<1>17. ASSUME NEW i \in Procs, OwnStep(i) PROVE Typed'
  BY <1>17, OwnStepTyped
<1>18. ASSUME NEW i \in Procs, RuntimeStops(i) PROVE Typed'
  BY <1>18 DEF RuntimeStops, Typed, procVars, connVars, convVars
<1>19. ASSUME NEW k \in tasks, CloseBegins(k) PROVE Typed'
  <2>1. CASE Popped(k)
    BY <1>19, <2>1, PoppedTyped DEF CloseBegins, Typed, procVars, connVars, convVars
  <2>2. CASE /\ tasks' = (tasks \ {k}) \cup {[k EXCEPT !.at = "drop", !.conns = ConnsOf(k.sid)]}
             /\ UNCHANGED <<loops, sess>>
    <3> DEFINE t == [k EXCEPT !.at = "drop", !.conns = ConnsOf(k.sid)]
    <3>1. k \in TaskType /\ ConnsOf(k.sid) \in SUBSET Conns
      BY DEF Typed, ConnsOf
    <3>2. t \in TaskType /\ t.at = "drop"
      BY <3>1 DEF TaskType
    <3>3. tasks' = (tasks \ {k}) \cup {t}
      BY <2>2
    <3> HIDE DEF t
    <3>4. tasks' \subseteq TaskType /\ \A x \in tasks' : x.at = "close" => x.sess \in Procs
      BY <3>2, <3>3 DEF Typed
    <3> QED
      BY <1>19, <2>2, <3>4 DEF CloseBegins, Typed, procVars, connVars, convVars
  <2> QED
    BY <1>19, <2>1, <2>2 DEF CloseBegins
<1>20. ASSUME NEW k \in tasks, DropConnection(k) PROVE Typed'
  <2>1. PICK c \in k.conns :
         /\ registered' = [registered EXCEPT ![c] = None]
         /\ IF k.conns = {c} THEN Popped(k)
            ELSE tasks' = (tasks \ {k}) \cup {[k EXCEPT !.conns = @ \ {c}]} /\ UNCHANGED <<loops, sess>>
    BY <1>20 DEF DropConnection
  <2>2. registered' \in [Conns -> Convs \cup {None}]
    BY <2>1 DEF Typed
  <2>3. CASE Popped(k)
    BY <1>20, <2>2, <2>3, PoppedTyped DEF DropConnection, Typed, procVars, convVars
  <2>4. CASE tasks' = (tasks \ {k}) \cup {[k EXCEPT !.conns = @ \ {c}]} /\ UNCHANGED <<loops, sess>>
    <3> DEFINE t == [k EXCEPT !.conns = @ \ {c}]
    <3>1. k \in TaskType /\ k.at = "drop"
      BY <1>20 DEF Typed, DropConnection
    <3>2. t \in TaskType /\ t.at = "drop"
      BY <3>1 DEF TaskType
    <3>3. tasks' = (tasks \ {k}) \cup {t}
      BY <2>4
    <3> HIDE DEF t
    <3>4. tasks' \subseteq TaskType /\ \A x \in tasks' : x.at = "close" => x.sess \in Procs
      BY <3>2, <3>3 DEF Typed
    <3> QED
      BY <1>20, <2>2, <2>4, <3>4 DEF DropConnection, Typed, procVars, convVars
  <2> QED
    BY <2>1, <2>3, <2>4
<1>21. ASSUME NEW k \in tasks, CloseReturns(k) PROVE Typed'
  BY <1>21 DEF CloseReturns, Typed, procVars, connVars, convVars
<1>22. ASSUME NEW k \in tasks, CutClose(k) PROVE Typed'
  <2>1. k.sess \in Procs /\ sess' = [sess EXCEPT ![k.sess].close = "cut"] /\ tasks' = tasks \ {k}
    BY <1>22 DEF CutClose, Typed
  <2>2. sess \in [Procs -> SessionType] /\ sess[k.sess] \in SessionType
    BY <2>1 DEF Typed
  <2>3. [sess[k.sess] EXCEPT !.close = "cut"] \in SessionType
    BY <2>2 DEF SessionType
  <2>4. sess' \in [Procs -> SessionType]
    BY <2>1, <2>2, <2>3
  <2> QED
    BY <1>22, <2>1, <2>4 DEF CutClose, Typed, procVars, connVars, convVars
<1>23. CASE CleanUp
  <2> DEFINE gone == {detached[s] : s \in Convs} \ {None}
  <2>1. gone \in SUBSET Reqs
    BY DEF Typed
  <2>2. /\ sess' = StreamsClosed(gone, sess) /\ conv' = ConvsDown(gone) /\ detached' = [s \in Convs |-> None]
        /\ tasks' = tasks \cup {Task(Cleaner, s) : s \in Stale}
        /\ UNCHANGED <<procVars, connVars, loops, lock, active, using>>
    BY <1>23 DEF CleanUp
  <2>3. sess' \in [Procs -> SessionType] /\ conv' \in [Reqs -> ConvType]
    <3> HIDE DEF gone
    <3> QED
      BY <2>1, <2>2, StreamsClosedTyped
  <2>4. \A s \in Stale : Task(Cleaner, s) \in TaskType /\ Task(Cleaner, s).at = "new"
    BY DEF Stale, Running, Task, TaskType
  <2>5. tasks' \subseteq TaskType /\ \A k \in tasks' : k.at = "close" => k.sess \in Procs
    BY <2>2, <2>4 DEF Typed
  <2>6. detached' \in [Convs -> Reqs \cup {None}]
    BY <2>2
  <2> QED
    BY <2>2, <2>3, <2>5, <2>6 DEF Typed, procVars, connVars
<1>24. CASE UNCHANGED vars
  BY <1>24 DEF vars, Typed, procVars, connVars, convVars
<1>25. ASSUME NEW i \in Procs,
              \/ StarterStep(i) \/ StartStep(i) \/ TurnsLate(i) \/ GoesIdle(i) \/ WakesUp(i) \/ CloseStep(i) \/ RuntimeStops(i)
       PROVE  Typed'
  BY <1>14, <1>15, <1>16, <1>17, <1>18, <1>25 DEF StarterStep, CloseStep, OwnStep
<1>26. ASSUME NEW k \in tasks, TaskStep(k) PROVE Typed'
  BY <1>19, <1>20, <1>21, <1>22, <1>26 DEF TaskStep
<1>27. ASSUME NEW r \in Reqs, AttachStep(r) \/ Detach(r) PROVE Typed'
  BY <1>9, <1>10, <1>11, <1>12, <1>13, <1>27 DEF AttachStep
<1> QED
  BY <1>1, <1>2, <1>3, <1>4, <1>5, <1>6, <1>7, <1>23, <1>24, <1>25, <1>26, <1>27 DEF Next
-----------------------------------------------------------------------------
(* The table of loops and the sessions in it.                                *)

\* What holds of a session by itself: a closed one whose start was over keeps nothing and is
\* not started again; nothing is made before the start; its stream is closed by its own
\* close, or because it was lent.
Sound(t) ==
  /\ t.close = "done" /\ ~t.early =>
       t.start \in {"none", "task", "ended"} /\ t.runtime # "made" /\ t.controller # "live"
  /\ t.start \in {"none", "task"} => t.runtime = "none" /\ t.controller = "none"
  /\ t.stream = "closed" => t.lent \/ t.close = "done"

\* What a step leaves of a session.
Kept(t, x) ==
  /\ (t.start = "none") <=> (x.start = "none")
  /\ (t.close = "no") <=> (x.close = "no")
  /\ t.lent => x.lent

\* Nobody who waited at the limit is about conversation s.
NobodyWaited(s) == \A w \in waited : target[w] # s

Placed ==
  /\ \A p \in Procs : sess[p].start # "none" => pc[p] = "served"
  /\ \A p \in Procs : pc[p] \in {"limit", "evict"} => p \in waited
  /\ \A p \in waited : pc[p] # "idle"
Tabled ==
  /\ \A s \in Convs : loops[s] # None =>
       target[loops[s]] = s /\ sess[loops[s]].start # "none" /\ sess[loops[s]].close = "no"
  /\ \A i \in Procs : sess[i].start # "none" /\ sess[i].close = "no" /\ NobodyWaited(target[i])
       => loops[target[i]] = i
Streamed(c) ==
  c.stream # None => sess[c.stream].start # "none" /\ (~c.shares => sess[c.stream].lent)

Serving ==
  /\ \A i \in Procs : Sound(sess[i])
  /\ Placed
  /\ Tabled
  /\ \A r \in Reqs : Streamed(conv[r])

\* No session has been made.
LEMMA InitServing == Init => Serving
PROOF
<1> SUFFICES ASSUME Init PROVE Serving
  OBVIOUS
<1>1. \A p \in Procs : sess[p] = NoSession /\ pc[p] = "idle"
  BY DEF Init
<1>2. Sound(NoSession) /\ NoSession.start = "none"
  BY DEF Sound, NoSession
<1>3. \A r \in Reqs : conv[r] = NoConv
  BY DEF Init
<1>4. waited = {} /\ \A s \in Convs : loops[s] = None
  BY DEF Init
<1> QED
  BY <1>1, <1>2, <1>3, <1>4 DEF Serving, Placed, Tabled, Streamed, NoConv

\* A session's own step leaves it sound.
LEMMA OwnStepSound ==
  ASSUME Typed, NEW i \in Procs, Sound(sess[i]), OwnStep(i)
  PROVE  Kept(sess[i], sess'[i]) /\ Sound(sess'[i])
PROOF
<1>1. sess \in [Procs -> SessionType] /\ sess[i] \in SessionType
  BY DEF Typed
<1>2. CASE MarkClosed(i)
  <2>1. sess'[i] = [sess[i] EXCEPT !.close = "wait"] /\ sess[i].close = "emit"
    BY <1>1, <1>2 DEF MarkClosed
  <2> QED
    BY <1>1, <2>1 DEF SessionType, Sound, Kept
<1>3. CASE AgentClose(i)
  <2> DEFINE x == sess'[i]
             t == sess[i]
  <2>1. sess' = [sess EXCEPT ![i].close = "done", ![i].early = Starting(i),
                          ![i].stream = "closed", ![i].sub = "none",
                          ![i].controller = IF @ = "live" THEN "closed" ELSE @,
                          ![i].runtime = IF @ = "made" THEN "closed" ELSE @]
        /\ t.close = "wait"
    BY <1>3 DEF AgentClose
  <2>2. x = [t EXCEPT !.close = "done", !.early = Starting(i), !.stream = "closed", !.sub = "none",
                      !.controller = IF @ = "live" THEN "closed" ELSE @,
                      !.runtime = IF @ = "made" THEN "closed" ELSE @]
    BY <1>1, <2>1
  <2> HIDE DEF x
  <2>3. /\ x.close = "done" /\ x.early = Starting(i) /\ x.start = t.start /\ x.lent = t.lent
        /\ x.controller = (IF t.controller = "live" THEN "closed" ELSE t.controller)
        /\ x.runtime = (IF t.runtime = "made" THEN "closed" ELSE t.runtime)
    BY <1>1, <2>2 DEF SessionType
  <2>4. ~Starting(i) => t.start \in {"none", "task", "ended"}
    BY <1>1 DEF Starting, SessionType
  <2>5. Kept(t, x)
    BY <2>1, <2>3 DEF Kept
  <2>6. Sound(x)
    BY <1>1, <2>3, <2>4 DEF Sound
  <2> QED
    BY <2>5, <2>6 DEF x
<1>4. CASE BeginStart(i)
  <2>1. /\ sess'[i] = [sess[i] EXCEPT !.start = IF sess[i].close \in {"no", "emit"} THEN "env" ELSE "ended"]
        /\ sess[i].start = "task"
    BY <1>1, <1>4 DEF BeginStart
  <2> QED
    BY <1>1, <2>1 DEF SessionType, Sound, Kept
<1>5. CASE MakeRuntime(i)
  <2>1. /\ sess'[i] = IF sess[i].sub = "lent" THEN [sess[i] EXCEPT !.start = "ended"]
                      ELSE [sess[i] EXCEPT !.start = "connect", !.runtime = "made", !.sub = "own"]
        /\ sess[i].start = "env"
    BY <1>1, <1>5 DEF MakeRuntime
  <2> QED
    BY <1>1, <2>1 DEF SessionType, Sound, Kept
<1>6. CASE ConnectRuntime(i)
  <2>1. sess'[i] = [sess[i] EXCEPT !.start = "setup"] /\ sess[i].start = "connect"
    BY <1>1, <1>6 DEF ConnectRuntime
  <2> QED
    BY <1>1, <2>1 DEF SessionType, Sound, Kept
<1>7. CASE MakeController(i)
  <2>1. sess'[i] = [sess[i] EXCEPT !.start = "ended", !.controller = "live"] /\ sess[i].start = "setup"
    BY <1>1, <1>7 DEF MakeController
  <2> QED
    BY <1>1, <2>1 DEF SessionType, Sound, Kept
<1>8. CASE StartFails(i)
  <2>1. sess'[i] = [sess[i] EXCEPT !.start = "ended"] /\ sess[i].start \in {"connect", "setup"}
    BY <1>1, <1>8 DEF StartFails
  <2> QED
    BY <1>1, <2>1 DEF SessionType, Sound, Kept
<1>9. CASE TurnsLate(i)
  <2>1. sess'[i] = [sess[i] EXCEPT !.late = TRUE]
    BY <1>1, <1>9 DEF TurnsLate
  <2> QED
    BY <1>1, <2>1 DEF SessionType, Sound, Kept
<1>10. CASE GoesIdle(i) \/ WakesUp(i)
  <2>1. PICK b \in BOOLEAN : sess' = [sess EXCEPT ![i].idle = b]
    BY <1>10 DEF GoesIdle, WakesUp
  <2>2. sess'[i] = [sess[i] EXCEPT !.idle = b]
    BY <1>1, <2>1
  <2> QED
    BY <1>1, <2>2 DEF SessionType, Sound, Kept
<1> QED
  BY <1>2, <1>3, <1>4, <1>5, <1>6, <1>7, <1>8, <1>9, <1>10 DEF OwnStep, StartStep

\* A step that makes no session and takes none from the table.
LEMMA SteadyServing ==
  ASSUME Typed, Serving, UNCHANGED <<loops, waited>>,
         \A i \in Procs : Kept(sess[i], sess'[i]) /\ Sound(sess'[i]),
         \A p \in Procs : pc[p] # "idle" => target'[p] = target[p] /\ pc'[p] # "idle",
         \A p \in Procs : pc[p] = "served" => pc'[p] = "served",
         \A p \in Procs : pc'[p] \in {"limit", "evict"} => pc[p] \in {"limit", "evict"},
         \A r \in Reqs : \/ conv'[r].stream = conv[r].stream /\ conv'[r].shares = conv[r].shares
                         \/ Streamed(conv[r])'
  PROVE  Serving'
PROOF
<1>1. \A p \in Procs : sess'[p].start # "none" => sess[p].start # "none"
  BY DEF Kept
<1>2. Placed'
  BY <1>1 DEF Serving, Placed, Typed
<1>3. \A i \in Procs : sess[i].start # "none" => target'[i] = target[i]
  BY DEF Serving, Placed
<1>4. ASSUME NEW s \in Convs, loops'[s] # None
      PROVE  target'[loops'[s]] = s /\ sess'[loops'[s]].start # "none" /\ sess'[loops'[s]].close = "no"
  <2>1. loops[s] \in Procs /\ loops'[s] = loops[s]
    BY <1>4 DEF Typed
  <2>2. target[loops[s]] = s /\ sess[loops[s]].start # "none" /\ sess[loops[s]].close = "no"
    BY <1>4, <2>1 DEF Serving, Tabled
  <2> QED
    BY <1>3, <2>1, <2>2 DEF Kept
<1>5. ASSUME NEW i \in Procs, sess'[i].start # "none", sess'[i].close = "no", NobodyWaited(target[i])'
      PROVE  loops'[target'[i]] = i
  <2>1. sess[i].start # "none" /\ sess[i].close = "no" /\ target'[i] = target[i]
    BY <1>3, <1>5 DEF Kept
  <2>2. NobodyWaited(target[i])
    <3> SUFFICES ASSUME NEW w \in waited, target[w] = target[i] PROVE FALSE
      BY DEF NobodyWaited
    <3>1. w \in Procs /\ pc[w] # "idle"
      BY DEF Typed, Serving, Placed
    <3>2. target'[w] = target[w] /\ w \in waited'
      BY <3>1
    <3> QED
      BY <1>5, <2>1, <3>2 DEF NobodyWaited
  <2> QED
    BY <2>1, <2>2 DEF Serving, Tabled
<1>6. ASSUME NEW r \in Reqs PROVE Streamed(conv[r])'
  <2>1. CASE conv'[r].stream = conv[r].stream /\ conv'[r].shares = conv[r].shares
    <3>1. conv[r].stream \in Procs \cup {None}
      BY DEF Typed, ConvType
    <3> QED
      BY <2>1, <3>1 DEF Serving, Streamed, Kept
  <2> QED
    BY <2>1
<1>7. Tabled'
  BY <1>4, <1>5 DEF Tabled
<1> QED
  BY <1>2, <1>6, <1>7 DEF Serving

\* A new session takes the place in the table of what was there, if anything.
LEMMA NewSessionServing ==
  ASSUME Typed, Serving, NEW p \in Procs, NEW s \in Convs, NewSession(p, s),
         target'[p] = s, pc[p] # "served",
         \A q \in Procs \ {p} : target'[q] = target[q],
         pc[p] # "idle" => target'[p] = target[p],
         waited' = waited, conv' = conv,
         loops[s] = None \/ p \in waited
  PROVE  Serving'
PROOF
<1>1. /\ pc' = [pc EXCEPT ![p] = "served"] /\ loops' = [loops EXCEPT ![s] = p]
      /\ sess' = [sess EXCEPT ![p] = [NoSession EXCEPT !.start = "task"]]
  BY DEF NewSession
<1> DEFINE x == [NoSession EXCEPT !.start = "task"]
<1>2. x.start = "task" /\ x.close = "no" /\ Sound(x)
  BY DEF NoSession, Sound
<1>3. sess'[p] = x /\ pc'[p] = "served" /\ loops'[s] = p
  BY <1>1 DEF Typed
<1>4. \A q \in Procs \ {p} : sess'[q] = sess[q] /\ pc'[q] = pc[q]
  BY <1>1 DEF Typed
<1>5. \A q \in Convs \ {s} : loops'[q] = loops[q]
  BY <1>1 DEF Typed
<1> HIDE DEF x
<1>6. sess[p].start = "none"
  BY DEF Serving, Placed
<1>7. \A q \in Procs : Sound(sess'[q])
  BY <1>2, <1>3, <1>4 DEF Serving
<1>8. Placed'
  BY <1>3, <1>4 DEF Serving, Placed, Typed
<1>9. ASSUME NEW q \in Convs, loops'[q] # None
      PROVE  target'[loops'[q]] = q /\ sess'[loops'[q]].start # "none" /\ sess'[loops'[q]].close = "no"
  <2>1. CASE q = s
    BY <1>2, <1>3, <2>1
  <2>2. CASE q # s
    <3>1. loops'[q] = loops[q] /\ loops[q] \in Procs
      BY <1>5, <1>9, <2>2 DEF Typed
    <3>2. target[loops[q]] = q /\ sess[loops[q]].start # "none" /\ sess[loops[q]].close = "no"
      BY <1>9, <3>1 DEF Serving, Tabled
    <3>3. loops[q] # p
      BY <1>6, <3>2
    <3> QED
      BY <1>4, <3>1, <3>2, <3>3
  <2> QED
    BY <2>1, <2>2
<1>10. ASSUME NEW i \in Procs, sess'[i].start # "none", sess'[i].close = "no", NobodyWaited(target[i])'
       PROVE  loops'[target'[i]] = i
  <2>1. CASE i = p
    BY <1>3, <2>1
  <2>2. CASE i # p
    <3>1. sess[i].start # "none" /\ sess[i].close = "no" /\ target'[i] = target[i]
      BY <1>4, <1>10, <2>2
    <3>2. target[i] \in Convs
      BY <3>1 DEF Typed, Serving, Placed
    <3>3. NobodyWaited(target[i])
      <4> SUFFICES ASSUME NEW w \in waited, target[w] = target[i] PROVE FALSE
        BY DEF NobodyWaited
      <4>1. w \in Procs /\ pc[w] # "idle"
        BY DEF Typed, Serving, Placed
      <4>2. target'[w] = target[w] /\ w \in waited'
        BY <4>1
      <4> QED
        BY <1>10, <3>1, <4>2 DEF NobodyWaited
    <3>4. loops[target[i]] = i
      BY <3>1, <3>3 DEF Serving, Tabled
    <3>5. CASE target[i] = s
      <4>1. loops[s] # None
        BY <3>4, <3>5, SessionsAssumption
      <4>2. p \in waited /\ p \in waited' /\ target'[p] = target[i]
        BY <3>5, <4>1
      <4> QED
        BY <1>10, <3>1, <4>2 DEF NobodyWaited
    <3>6. CASE target[i] # s
      BY <1>5, <3>1, <3>2, <3>4, <3>6
    <3> QED
      BY <3>5, <3>6
  <2> QED
    BY <2>1, <2>2
<1>11. Tabled'
  BY <1>9, <1>10 DEF Tabled
<1>12. ASSUME NEW r \in Reqs PROVE Streamed(conv[r])'
  <2>1. conv[r].stream \in Procs \cup {None} /\ Streamed(conv[r])
    BY DEF Typed, ConvType, Serving
  <2>2. conv[r].stream # p
    BY <1>6, <2>1, SessionsAssumption DEF Streamed
  <2> QED
    BY <1>4, <2>1, <2>2 DEF Streamed
<1> QED
  BY <1>7, <1>8, <1>11, <1>12 DEF Serving

\* A starter that is served at once, is given what runs, or has to wait.
LEMMA MaybeStartServing ==
  ASSUME Typed, Serving, NEW p \in Procs, NEW s \in Convs, MaybeStart(p, s),
         target'[p] = s, pc[p] \in {"idle", "replay"},
         \A q \in Procs \ {p} : target'[q] = target[q],
         pc[p] # "idle" => target'[p] = target[p],
         conv' = conv
  PROVE  Serving'
PROOF
<1>1. CASE loops[s] = None /\ NewSession(p, s) /\ UNCHANGED <<evict, waited>>
  BY <1>1, NewSessionServing
<1>2. ASSUME sess' = sess PROVE \A i \in Procs : Kept(sess[i], sess'[i]) /\ Sound(sess'[i])
  BY <1>2 DEF Kept, Serving
<1>3. CASE pc' = [pc EXCEPT ![p] = "served"] /\ UNCHANGED <<loops, sess, evict, waited>>
  <2>1. /\ \A q \in Procs : pc[q] # "idle" => target'[q] = target[q] /\ pc'[q] # "idle"
        /\ \A q \in Procs : pc[q] = "served" => pc'[q] = "served"
        /\ \A q \in Procs : pc'[q] \in {"limit", "evict"} => pc[q] \in {"limit", "evict"}
    BY <1>3 DEF Typed
  <2>2. \A i \in Procs : Kept(sess[i], sess'[i]) /\ Sound(sess'[i])
    BY <1>2, <1>3
  <2>3. UNCHANGED <<loops, waited>>
    BY <1>3
  <2> QED
    BY <2>1, <2>2, <2>3, SteadyServing
<1>4. CASE /\ loops[s] = None /\ pc' = [pc EXCEPT ![p] = "limit"]
           /\ waited' = waited \cup {p} /\ UNCHANGED <<loops, sess>>
  <2>1. /\ \A q \in Procs \ {p} : target'[q] = target[q] /\ pc'[q] = pc[q]
        /\ pc'[p] = "limit"
    BY <1>4 DEF Typed
  <2>3. sess[p].start = "none"
    BY DEF Serving, Placed
  <2>4. Placed'
    BY <1>4, <2>1, <2>3 DEF Serving, Placed, Typed
  <2>5. ASSUME NEW q \in Convs, loops'[q] # None
        PROVE  target'[loops'[q]] = q /\ sess'[loops'[q]].start # "none" /\ sess'[loops'[q]].close = "no"
    <3>1. loops[q] \in Procs /\ loops[q] # None
      BY <1>4, <2>5 DEF Typed
    <3>2. target[loops[q]] = q /\ sess[loops[q]].start # "none" /\ sess[loops[q]].close = "no"
      BY <3>1 DEF Serving, Tabled
    <3>3. loops[q] # p
      BY <2>3, <3>2
    <3> QED
      BY <1>4, <2>1, <3>1, <3>2, <3>3
  <2>6. ASSUME NEW i \in Procs, sess'[i].start # "none", sess'[i].close = "no", NobodyWaited(target[i])'
        PROVE  loops'[target'[i]] = i
    <3>1. i # p /\ sess[i].start # "none" /\ sess[i].close = "no" /\ target'[i] = target[i]
      BY <1>4, <2>1, <2>3, <2>6
    <3>2. NobodyWaited(target[i])
      <4> SUFFICES ASSUME NEW w \in waited, target[w] = target[i] PROVE FALSE
        BY DEF NobodyWaited
      <4>1. w \in Procs /\ pc[w] # "idle"
        BY DEF Typed, Serving, Placed
      <4>2. target'[w] = target[w] /\ w \in waited'
        BY <1>4, <2>1, <4>1
      <4> QED
        BY <2>6, <3>1, <4>2 DEF NobodyWaited
    <3>3. loops[target[i]] = i
      BY <3>1, <3>2 DEF Serving, Tabled
    <3> QED
      BY <1>4, <3>1, <3>3
  <2>7. Tabled'
    BY <2>5, <2>6 DEF Tabled
  <2>8. (\A i \in Procs : Sound(sess[i]))' /\ (\A r \in Reqs : Streamed(conv[r]))'
    BY <1>4 DEF Serving, Streamed
  <2> QED
    BY <2>4, <2>7, <2>8 DEF Serving
<1> QED
  BY <1>1, <1>3, <1>4 DEF MaybeStart

\* Closing takes a session from the table.
LEMMA PoppedServing ==
  ASSUME Typed, Serving, NEW k \in tasks, Popped(k), UNCHANGED <<pc, target, waited, conv>>
  PROVE  Serving'
PROOF
<1> DEFINE sid == k.sid
           i == loops[sid]
<1>1. sid \in Convs /\ i \in Procs \cup {None}
  BY DEF Typed, TaskType
<1>2. loops' = [loops EXCEPT ![sid] = None]
  BY DEF Popped
<1>3. CASE i = None
  <2>1. loops' = loops /\ sess' = sess
    BY <1>1, <1>2, <1>3 DEF Popped, Typed
  <2>2. \A q \in Procs : Kept(sess[q], sess'[q]) /\ Sound(sess'[q])
    BY <2>1 DEF Kept, Serving
  <2> QED
    BY <2>1, <2>2, SteadyServing
<1>4. CASE i # None
  <2>1. i \in Procs /\ sess' = [sess EXCEPT ![i].close = "emit"]
    BY <1>1, <1>4 DEF Popped
  <2>2. target[i] = sid /\ sess[i].start # "none" /\ sess[i].close = "no"
    BY <1>1, <1>4 DEF Serving, Tabled
  <2>3. sess[i] \in SessionType /\ sess \in [Procs -> SessionType] /\ loops \in [Convs -> Procs \cup {None}]
    BY <2>1 DEF Typed
  <2>4. /\ sess'[i].start = sess[i].start /\ sess'[i].close = "emit" /\ sess'[i].lent = sess[i].lent
        /\ Sound(sess'[i])
    <3>1. sess'[i] = [sess[i] EXCEPT !.close = "emit"]
      BY <2>1, <2>3
    <3>2. Sound(sess[i])
      BY <2>1 DEF Serving
    <3> QED
      BY <2>2, <2>3, <3>1, <3>2 DEF SessionType, Sound
  <2>5. \A q \in Procs \ {i} : sess'[q] = sess[q]
    BY <2>1, <2>3
  <2>6. loops'[sid] = None /\ \A q \in Convs \ {sid} : loops'[q] = loops[q]
    BY <1>1, <1>2, <2>3
  <2> HIDE DEF sid, i
  <2>7. \A q \in Procs : Sound(sess'[q])
    BY <2>4, <2>5 DEF Serving
  <2>8. Placed'
    BY <2>4, <2>5 DEF Serving, Placed, Typed
  <2>9. ASSUME NEW q \in Convs, loops'[q] # None
        PROVE  target'[loops'[q]] = q /\ sess'[loops'[q]].start # "none" /\ sess'[loops'[q]].close = "no"
    <3>1. q # sid /\ loops'[q] = loops[q] /\ loops[q] \in Procs
      BY <2>3, <2>6, <2>9
    <3>2. target[loops[q]] = q /\ sess[loops[q]].start # "none" /\ sess[loops[q]].close = "no"
      BY <2>9, <3>1 DEF Serving, Tabled
    <3>3. loops[q] # i
      BY <2>2, <3>1, <3>2
    <3> QED
      BY <2>5, <3>1, <3>2, <3>3
  <2>10. ASSUME NEW q \in Procs, sess'[q].start # "none", sess'[q].close = "no", NobodyWaited(target[q])'
         PROVE  loops'[target'[q]] = q
    <3>1. q # i /\ sess[q].start # "none" /\ sess[q].close = "no" /\ target'[q] = target[q]
      BY <2>4, <2>5, <2>10
    <3>2. target[q] \in Convs
      BY <3>1 DEF Typed, Serving, Placed
    <3>3. NobodyWaited(target[q])
      BY <2>10, <3>1 DEF NobodyWaited
    <3>4. loops[target[q]] = q
      BY <3>1, <3>3 DEF Serving, Tabled
    <3>5. target[q] # sid
      BY <3>1, <3>4 DEF i
    <3> QED
      BY <2>6, <3>1, <3>2, <3>4, <3>5
  <2>11. Tabled'
    BY <2>9, <2>10 DEF Tabled
  <2>12. ASSUME NEW r \in Reqs PROVE Streamed(conv[r])'
    <3>1. conv[r].stream \in Procs \cup {None} /\ Streamed(conv[r])
      BY DEF Typed, ConvType, Serving
    <3> QED
      BY <2>4, <2>5, <3>1 DEF Streamed
  <2> QED
    BY <2>7, <2>8, <2>11, <2>12 DEF Serving
<1> QED
  BY <1>3, <1>4
\* A step that leaves the sessions and the lent conversations alone.
LEMMA ApartServing ==
  ASSUME Typed, Serving, UNCHANGED <<loops, waited, sess, conv>>,
         \A p \in Procs : pc[p] # "idle" => target'[p] = target[p] /\ pc'[p] # "idle",
         \A p \in Procs : pc[p] = "served" => pc'[p] = "served",
         \A p \in Procs : pc'[p] \in {"limit", "evict"} => pc[p] \in {"limit", "evict"}
  PROVE  Serving'
PROOF
<1>1. \A i \in Procs : Kept(sess[i], sess'[i]) /\ Sound(sess'[i])
  BY DEF Kept, Serving
<1>2. UNCHANGED <<loops, waited>>
  OBVIOUS
<1>3. \A r \in Reqs : conv'[r].stream = conv[r].stream /\ conv'[r].shares = conv[r].shares
  OBVIOUS
<1> QED
  BY <1>1, <1>2, <1>3, SteadyServing

\* Streams are closed only of sessions that were lent to the conversations that go.
LEMMA StreamsClosedServing ==
  ASSUME Typed, Serving, NEW rs \in SUBSET Reqs,
         sess' = StreamsClosed(rs, sess), conv' = ConvsDown(rs), UNCHANGED <<loops, waited, target>>,
         \A p \in Procs : pc[p] # "idle" => pc'[p] # "idle",
         \A p \in Procs : pc[p] = "served" => pc'[p] = "served",
         \A p \in Procs : pc'[p] \in {"limit", "evict"} => pc[p] \in {"limit", "evict"}
  PROVE  Serving'
PROOF
<1>1. ASSUME NEW i \in Procs PROVE Kept(sess[i], sess'[i]) /\ Sound(sess'[i])
  <2> DEFINE t == sess'[i]
  <2>1. /\ t.start = sess[i].start /\ t.runtime = sess[i].runtime /\ t.controller = sess[i].controller
        /\ t.close = sess[i].close /\ t.early = sess[i].early /\ t.lent = sess[i].lent
        /\ t.stream # sess[i].stream => \E r \in rs : ~conv[r].shares /\ conv[r].stream = i
    BY StreamsClosedTyped
  <2>2. t.stream # sess[i].stream => sess[i].lent
    <3> SUFFICES ASSUME NEW r \in rs, ~conv[r].shares, conv[r].stream = i PROVE sess[i].lent
      BY <2>1
    <3>1. Streamed(conv[r]) /\ i # None
      BY SessionsAssumption DEF Serving
    <3> QED
      BY <3>1 DEF Streamed
  <2>3. Sound(sess[i])
    BY DEF Serving
  <2> HIDE DEF t
  <2>4. Kept(sess[i], t) /\ Sound(t)
    BY <2>1, <2>2, <2>3 DEF Kept, Sound
  <2> QED
    BY <2>4 DEF t
<1>2. \A r \in Reqs : conv'[r].stream = conv[r].stream /\ conv'[r].shares = conv[r].shares
  BY StreamsClosedTyped
<1>3. \A p \in Procs : pc[p] # "idle" => target'[p] = target[p] /\ pc'[p] # "idle"
  OBVIOUS
<1>4. UNCHANGED <<loops, waited>>
  OBVIOUS
<1> QED
  BY <1>1, <1>2, <1>3, <1>4, SteadyServing

\* Every step keeps the table of loops and its sessions in order.
LEMMA NextServing ==
  ASSUME Typed, Serving, [Next]_vars
  PROVE  Serving'
PROOF
<1>0. ASSUME UNCHANGED <<procVars, loops, sess, conv>> PROVE Serving'
  BY <1>0, ApartServing DEF procVars
<1>1. ASSUME NEW p \in Procs, NEW x \in Places \ {"idle", "served", "limit", "evict"}, NEW s \in Convs,
             pc[p] \notin {"served"}, pc' = [pc EXCEPT ![p] = x],
             target' = target \/ (pc[p] = "idle" /\ target' = [target EXCEPT ![p] = s]),
             UNCHANGED <<loops, waited>>
      PROVE  /\ \A q \in Procs : pc[q] # "idle" => target'[q] = target[q] /\ pc'[q] # "idle"
             /\ \A q \in Procs : pc[q] = "served" => pc'[q] = "served"
             /\ \A q \in Procs : pc'[q] \in {"limit", "evict"} => pc[q] \in {"limit", "evict"}
  BY <1>1 DEF Typed
<1>2. ASSUME NEW p \in Procs, NEW x \in Places \ {"idle", "served", "limit", "evict"},
             pc[p] \notin {"idle", "served"}, pc' = [pc EXCEPT ![p] = x], target' = target
      PROVE  /\ \A q \in Procs : pc[q] # "idle" => target'[q] = target[q] /\ pc'[q] # "idle"
             /\ \A q \in Procs : pc[q] = "served" => pc'[q] = "served"
             /\ \A q \in Procs : pc'[q] \in {"limit", "evict"} => pc[q] \in {"limit", "evict"}
  BY <1>2 DEF Typed
<1>3. ASSUME NEW c \in Conns, NEW s \in Convs, Connect(c, s) PROVE Serving'
  <2>1. /\ c \in Procs /\ pc[c] = "idle" /\ pc' = [pc EXCEPT ![c] = "replay"]
        /\ target' = [target EXCEPT ![c] = s] /\ UNCHANGED <<loops, waited, sess, conv>>
    BY <1>3 DEF Connect, Comes, Procs, convVars
  <2> QED
    BY <1>1, <2>1, ApartServing DEF Places
<1>4. ASSUME NEW c \in Conns, ConnectRefused(c) PROVE Serving'
  <2>1. /\ c \in Procs /\ pc[c] = "replay" /\ pc' = [pc EXCEPT ![c] = "ended"]
        /\ target' = target /\ UNCHANGED <<loops, waited, sess, conv>>
    BY <1>4 DEF ConnectRefused, Procs, convVars
  <2> QED
    BY <1>2, <2>1, ApartServing DEF Places
<1>5. ASSUME NEW c \in Conns, Join(c) PROVE Serving'
  <2>1. c \in Procs /\ pc[c] = "replay" /\ target' = target /\ conv' = conv /\ target[c] \in Convs
    BY <1>5 DEF Join, Procs, convVars, Typed
  <2>2. CASE pc' = [pc EXCEPT ![c] = "ended"] /\ UNCHANGED <<registered, loops, sess, evict, waited>>
    BY <1>2, <2>1, <2>2, ApartServing DEF Places
  <2>3. CASE MaybeStart(c, target[c])
    BY <2>1, <2>3, MaybeStartServing
  <2> QED
    BY <1>5, <2>2, <2>3 DEF Join
<1>6. ASSUME NEW c \in Conns, Disconnect(c) PROVE Serving'
  BY <1>0, <1>6 DEF Disconnect, convVars
<1>7. ASSUME NEW r \in Reqs, NEW s \in Convs, StartRequest(r, s) PROVE Serving'
  <2>1. /\ r \in Procs /\ pc[r] = "idle" /\ target' = [target EXCEPT ![r] = s] /\ MaybeStart(r, s)
        /\ conv' = conv
    BY <1>7 DEF StartRequest, Comes, Procs, convVars
  <2>2. target'[r] = s /\ \A q \in Procs \ {r} : target'[q] = target[q]
    BY <2>1 DEF Typed
  <2> QED
    BY <2>1, <2>2, MaybeStartServing
<1>8. ASSUME NEW r \in Reqs, NEW s \in Convs, StopRequest(r, s) PROVE Serving'
  <2>1. /\ r \in Procs /\ pc[r] = "idle" /\ pc' = [pc EXCEPT ![r] = "ended"]
        /\ target' = [target EXCEPT ![r] = s] /\ UNCHANGED <<loops, waited, sess, conv>>
    BY <1>8 DEF StopRequest, Comes, Procs, convVars
  <2> QED
    BY <1>1, <2>1, ApartServing DEF Places
<1>9. ASSUME NEW r \in Reqs, NEW s \in Convs, AttachRequest(r, s) PROVE Serving'
  <2>1. /\ r \in Procs /\ pc[r] = "idle" /\ pc' = [pc EXCEPT ![r] = "attach"]
        /\ target' = [target EXCEPT ![r] = s] /\ UNCHANGED <<loops, waited, sess, conv>>
    BY <1>9 DEF AttachRequest, Comes, Procs, convVars
  <2> QED
    BY <1>1, <2>1, ApartServing DEF Places
<1>10. ASSUME NEW r \in Reqs, AttachReuse(r) PROVE Serving'
  <2>1. /\ r \in Procs /\ pc[r] = "attach" /\ pc' = [pc EXCEPT ![r] = "using"]
        /\ target' = target /\ UNCHANGED <<loops, waited, sess, conv>>
    BY <1>10 DEF AttachReuse, Hold, Procs
  <2> QED
    BY <1>2, <2>1, ApartServing DEF Places
<1>11. ASSUME NEW r \in Reqs, AttachNew(r) PROVE Serving'
  <2> DEFINE s == target[r]
             i == loops[s]
  <2>1. /\ r \in Procs /\ pc[r] = "attach" /\ target' = target /\ UNCHANGED <<loops, waited>>
        /\ s \in Convs /\ i \in Procs \cup {None}
    BY <1>11 DEF AttachNew, Procs, Typed
  <2>2. PICK x \in {"using", "connect"} : pc' = [pc EXCEPT ![r] = x]
    BY <1>11 DEF AttachNew, Hold
  <2>3. PICK b \in BOOLEAN : /\ conv' = [conv EXCEPT ![r] = [shares |-> b, stream |-> i, up |-> TRUE]]
                             /\ \/ b /\ i # None /\ sess' = sess
                                \/ ~b /\ sess' = IF i = None THEN sess
                                                 ELSE [sess EXCEPT ![i].sub = "lent", ![i].lent = TRUE]
    BY <1>11 DEF AttachNew
  <2>4. x \in Places \ {"idle", "served", "limit", "evict"}
    BY DEF Places
  <2>5. /\ \A q \in Procs : pc[q] # "idle" => target'[q] = target[q] /\ pc'[q] # "idle"
        /\ \A q \in Procs : pc[q] = "served" => pc'[q] = "served"
        /\ \A q \in Procs : pc'[q] \in {"limit", "evict"} => pc[q] \in {"limit", "evict"}
    BY <1>2, <2>1, <2>2, <2>4
  <2>6. i # None => sess[i].start # "none"
    BY <2>1 DEF Serving, Tabled
  <2>7. ASSUME NEW q \in Procs PROVE Kept(sess[q], sess'[q]) /\ Sound(sess'[q])
    <3>1. sess[q] \in SessionType /\ Sound(sess[q]) /\ sess \in [Procs -> SessionType]
      BY DEF Serving, Typed
    <3>2. CASE sess'[q] = sess[q]
      BY <3>1, <3>2 DEF Kept
    <3>3. CASE sess'[q] = [sess[q] EXCEPT !.sub = "lent", !.lent = TRUE]
      BY <3>1, <3>3 DEF Kept, Sound, SessionType
    <3>4. sess'[q] = sess[q] \/ sess'[q] = [sess[q] EXCEPT !.sub = "lent", !.lent = TRUE]
      BY <2>3, <3>1
    <3> QED
      BY <3>2, <3>3, <3>4
  <2>8. Streamed(conv[r])'
    <3>1. conv'[r] = [shares |-> b, stream |-> i, up |-> TRUE]
      BY <2>3 DEF Typed
    <3>2. conv'[r].stream = i /\ conv'[r].shares = b
      BY <3>1
    <3>3. CASE i = None
      BY <3>2, <3>3 DEF Streamed
    <3>4. CASE i # None
      <4>1. i \in Procs /\ sess'[i].start # "none"
        BY <2>1, <2>6, <2>7, <3>4 DEF Kept
      <4>2. ~b => sess'[i].lent
        <5>1. sess \in [Procs -> SessionType] /\ sess[i] \in SessionType
          BY <4>1 DEF Typed
        <5>2. ~b => sess'[i] = [sess[i] EXCEPT !.sub = "lent", !.lent = TRUE]
          BY <2>3, <3>4, <4>1, <5>1
        <5> QED
          BY <5>1, <5>2 DEF SessionType
      <4> QED
        BY <3>2, <4>1, <4>2 DEF Streamed
    <3> QED
      BY <3>3, <3>4
  <2>9. \A q \in Reqs \ {r} : conv'[q] = conv[q]
    BY <2>3 DEF Typed
  <2> HIDE DEF s, i
  <2>10. \A q \in Reqs : \/ conv'[q].stream = conv[q].stream /\ conv'[q].shares = conv[q].shares
                         \/ Streamed(conv[q])'
    BY <2>8, <2>9
  <2> QED
    BY <2>1, <2>5, <2>7, <2>10, SteadyServing
<1>12. ASSUME NEW r \in Reqs, AttachConnects(r) PROVE Serving'
  <2>1. /\ r \in Procs /\ pc[r] = "connect" /\ pc' = [pc EXCEPT ![r] = "using"]
        /\ target' = target /\ UNCHANGED <<loops, waited, sess, conv>>
    BY <1>12 DEF AttachConnects, Hold, Procs
  <2> QED
    BY <1>2, <2>1, ApartServing DEF Places
<1>13. ASSUME NEW r \in Reqs, AttachFails(r) PROVE Serving'
  <2>1. /\ r \in Procs /\ pc[r] = "connect" /\ pc' = [pc EXCEPT ![r] = "ended"]
        /\ UNCHANGED <<loops, waited, target>> /\ sess' = StreamsClosed({r}, sess) /\ conv' = ConvsDown({r})
    BY <1>13 DEF AttachFails, Procs
  <2>2. {r} \in SUBSET Reqs
    OBVIOUS
  <2>3. /\ \A q \in Procs : pc[q] # "idle" => pc'[q] # "idle"
        /\ \A q \in Procs : pc[q] = "served" => pc'[q] = "served"
        /\ \A q \in Procs : pc'[q] \in {"limit", "evict"} => pc[q] \in {"limit", "evict"}
    BY <2>1 DEF Typed
  <2> QED
    BY <2>1, <2>2, <2>3, StreamsClosedServing
<1>14. ASSUME NEW r \in Reqs, Detach(r) PROVE Serving'
  <2>1. /\ r \in Procs /\ pc[r] = "using" /\ pc' = [pc EXCEPT ![r] = "ended"]
        /\ target' = target /\ UNCHANGED <<loops, waited, sess, conv>>
    BY <1>14 DEF Detach, Procs
  <2> QED
    BY <1>2, <2>1, ApartServing DEF Places
<1>15. ASSUME NEW p \in Procs, ChooseOldest(p) PROVE Serving'
  <2>1. /\ pc[p] = "limit" /\ pc' = [pc EXCEPT ![p] = "evict"] /\ target' = target
        /\ UNCHANGED <<loops, waited, sess, conv>>
    BY <1>15 DEF ChooseOldest, convVars
  <2>2. /\ \A q \in Procs : pc[q] # "idle" => target'[q] = target[q] /\ pc'[q] # "idle"
        /\ \A q \in Procs : pc[q] = "served" => pc'[q] = "served"
        /\ \A q \in Procs : pc'[q] \in {"limit", "evict"} => pc[q] \in {"limit", "evict"}
    BY <2>1 DEF Typed
  <2> QED
    BY <2>1, <2>2, ApartServing
<1>16. ASSUME NEW p \in Procs, CloseOldest(p) PROVE Serving'
  BY <1>16, ApartServing DEF CloseOldest, convVars
<1>17. ASSUME NEW p \in Procs, StartAfterEviction(p) PROVE Serving'
  <2>1. /\ pc[p] = "evict" /\ NewSession(p, target[p]) /\ target' = target /\ waited' = waited /\ conv' = conv
        /\ target[p] \in Convs /\ p \in waited
    BY <1>17 DEF StartAfterEviction, convVars, Typed, Serving, Placed
  <2> QED
    BY <2>1, NewSessionServing
<1>18. ASSUME NEW i \in Procs, OwnStep(i) PROVE Serving'
  <2>1. PICK x \in SessionType : sess' = [sess EXCEPT ![i] = x]
    BY <1>18, OwnStepTyped
  <2>2. UNCHANGED <<procVars, loops, convVars>>
    BY <1>18, OwnStepTyped
  <2>3. Kept(sess[i], sess'[i]) /\ Sound(sess'[i])
    BY <1>18, OwnStepSound DEF Serving
  <2>4. ASSUME NEW q \in Procs PROVE Kept(sess[q], sess'[q]) /\ Sound(sess'[q])
    <3>1. CASE q = i
      BY <2>3, <3>1
    <3>2. CASE q # i
      <4>1. sess'[q] = sess[q]
        BY <2>1, <3>2 DEF Typed
      <4> QED
        BY <4>1 DEF Kept, Serving
    <3> QED
      BY <3>1, <3>2
  <2>5. UNCHANGED <<pc, target, waited, conv>>
    BY <2>2 DEF procVars, convVars
  <2> QED
    BY <2>2, <2>4, <2>5, SteadyServing
<1>19. ASSUME NEW i \in Procs, RuntimeStops(i) PROVE Serving'
  BY <1>0, <1>19 DEF RuntimeStops, convVars
<1>20. ASSUME NEW k \in tasks, CloseBegins(k) PROVE Serving'
  BY <1>0, <1>20, PoppedServing DEF CloseBegins, procVars, convVars
<1>21. ASSUME NEW k \in tasks, DropConnection(k) PROVE Serving'
  <2>1. UNCHANGED <<procVars, convVars>> /\ (Popped(k) \/ UNCHANGED <<loops, sess>>)
    BY <1>21 DEF DropConnection
  <2> QED
    BY <1>0, <2>1, PoppedServing DEF procVars, convVars
<1>22. ASSUME NEW k \in tasks, CloseReturns(k) PROVE Serving'
  BY <1>0, <1>22 DEF CloseReturns, convVars
<1>23. ASSUME NEW k \in tasks, CutClose(k) PROVE Serving'
  <2> DEFINE i == k.sess
  <2>1. /\ i \in Procs /\ sess' = [sess EXCEPT ![i].close = "cut"] /\ sess[i].close = "wait"
        /\ UNCHANGED <<procVars, loops, convVars>>
    BY <1>23 DEF CutClose, Typed
  <2> HIDE DEF i
  <2>2. ASSUME NEW q \in Procs PROVE Kept(sess[q], sess'[q]) /\ Sound(sess'[q])
    <3>1. sess[q] \in SessionType /\ Sound(sess[q]) /\ sess \in [Procs -> SessionType]
      BY DEF Serving, Typed
    <3>2. CASE q # i
      BY <2>1, <3>1, <3>2 DEF Kept
    <3>3. CASE q = i
      <4>1. sess'[q] = [sess[q] EXCEPT !.close = "cut"] /\ sess[q].close = "wait"
        BY <2>1, <3>1, <3>3
      <4> QED
        BY <3>1, <4>1 DEF Kept, Sound, SessionType
    <3> QED
      BY <3>2, <3>3
  <2>3. UNCHANGED <<pc, target, waited, conv>>
    BY <2>1 DEF procVars, convVars
  <2> QED
    BY <2>1, <2>2, <2>3, SteadyServing
<1>24. CASE CleanUp
  <2> DEFINE gone == {detached[s] : s \in Convs} \ {None}
  <2>1. gone \in SUBSET Reqs
    BY DEF Typed
  <2>2. /\ sess' = StreamsClosed(gone, sess) /\ conv' = ConvsDown(gone) /\ UNCHANGED <<procVars, loops>>
    BY <1>24 DEF CleanUp
  <2> HIDE DEF gone
  <2> QED
    BY <2>1, <2>2, StreamsClosedServing DEF procVars
<1>25. CASE UNCHANGED vars
  BY <1>0, <1>25 DEF vars, convVars
<1>26. ASSUME NEW i \in Procs,
              \/ StarterStep(i) \/ StartStep(i) \/ TurnsLate(i) \/ GoesIdle(i) \/ WakesUp(i) \/ CloseStep(i) \/ RuntimeStops(i)
       PROVE  Serving'
  BY <1>15, <1>16, <1>17, <1>18, <1>19, <1>26 DEF StarterStep, CloseStep, OwnStep
<1>27. ASSUME NEW k \in tasks, TaskStep(k) PROVE Serving'
  BY <1>20, <1>21, <1>22, <1>23, <1>27 DEF TaskStep
<1>28. ASSUME NEW r \in Reqs, AttachStep(r) \/ Detach(r) PROVE Serving'
  BY <1>10, <1>11, <1>12, <1>13, <1>14, <1>28 DEF AttachStep
<1> QED
  BY <1>3, <1>4, <1>5, <1>6, <1>7, <1>8, <1>9, <1>24, <1>25, <1>26, <1>27, <1>28 DEF Next

\* The stream of a session that serves its conversation is open, unless a request that came
\* before its runtime was lent the stream, for any number of requests, starts and closes.
THEOREM StreamsStayOpen == Spec => []OnlyEarlyAttachClosesStream
PROOF
<1>1. Typed /\ Serving => OnlyEarlyAttachClosesStream
  <2> SUFFICES ASSUME Typed, Serving, NEW s \in Convs, loops[s] # None, ~sess[loops[s]].lent
               PROVE  sess[loops[s]].stream = "open"
    BY DEF OnlyEarlyAttachClosesStream
  <2>1. loops[s] \in Procs
    BY DEF Typed
  <2>2. sess[loops[s]] \in SessionType /\ Sound(sess[loops[s]]) /\ sess[loops[s]].close = "no"
    BY <2>1 DEF Typed, Serving, Tabled
  <2> QED
    BY <2>2 DEF Sound, SessionType
<1>2. Typed /\ Serving /\ [Next]_vars => (Typed /\ Serving)'
  BY NextTyped, NextServing
<1>3. Init => Typed /\ Serving
  BY InitTyped, InitServing
<1> QED
  BY <1>1, <1>2, <1>3, PTL DEF Spec

\* Two sessions that nobody closes serve one conversation only when a starter of this
\* conversation had to wait at the limit, whatever starts, stops and connections overlap.
THEOREM OneLoopBelowLimit == Spec => []TwoLoopsOnlyAtLimit
PROOF
<1>1. Typed /\ Serving => TwoLoopsOnlyAtLimit
  <2> SUFFICES ASSUME Serving, NEW i \in Procs, NEW j \in Procs,
                      i # j, target[i] = target[j],
                      sess[i].start # "none", sess[i].close = "no",
                      sess[j].start # "none", sess[j].close = "no",
                      NobodyWaited(target[i])
               PROVE  FALSE
    BY DEF TwoLoopsOnlyAtLimit, NobodyWaited
  <2>1. loops[target[i]] = i /\ loops[target[j]] = j
    BY DEF Serving, Tabled
  <2> QED
    BY <2>1
<1>2. Typed /\ Serving /\ [Next]_vars => (Typed /\ Serving)'
  BY NextTyped, NextServing
<1>3. Init => Typed /\ Serving
  BY InitTyped, InitServing
<1> QED
  BY <1>1, <1>2, <1>3, PTL DEF Spec

\* A closed session whose start has ended keeps neither a runtime nor a controller, unless
\* the close went on while the start was under way: the only way to leak them.
THEOREM ClosedHoldsNothing == Spec => []LeakOnlyWhileStarting
PROOF
<1>1. Typed /\ Serving => LeakOnlyWhileStarting
  BY DEF Serving, Sound, LeakOnlyWhileStarting, Released
<1>2. Typed /\ Serving /\ [Next]_vars => (Typed /\ Serving)'
  BY NextTyped, NextServing
<1>3. Init => Typed /\ Serving
  BY InitTyped, InitServing
<1> QED
  BY <1>1, <1>2, <1>3, PTL DEF Spec

-----------------------------------------------------------------------------
(* What requests hold.                                                       *)

\* The requests that hold a conversation of s.
Holders(s) == {r \in Reqs : using[r] # None /\ target[r] = s}

\* A ServerConversation of s that may be handed out.
Lendable(h, s) == h \in Reqs /\ conv[h].up /\ target[h] = s /\ pc[h] \in {"using", "ended"}

\* A holder's conversation is the active one, counted once per holder; the active and the
\* detached conversation of s, of which there is one at most, are up and about s; and while
\* one is being connected under the lock there is neither.
Held ==
  /\ \A r \in Reqs : (using[r] # None) <=> (pc[r] = "using")
  /\ \A r \in Reqs : using[r] # None => active[target[r]][1] = using[r]
  /\ \A s \in Convs : IsFiniteSet(Holders(s)) /\ active[s][2] = Cardinality(Holders(s))
  /\ \A s \in Convs : active[s][2] > 0 => Lendable(active[s][1], s) /\ detached[s] = None
  /\ \A s \in Convs : detached[s] # None => Lendable(detached[s], s)
  /\ \A r \in Reqs : pc[r] = "connect" =>
       lock = r /\ conv[r].up /\ active[target[r]][2] = 0 /\ detached[target[r]] = None

\* Nobody holds anything yet.
LEMMA InitHeld == Init => Held
PROOF
<1> SUFFICES ASSUME Init PROVE Held
  OBVIOUS
<1>1. \A s \in Convs : Holders(s) = {}
  BY DEF Holders, Init
<1>2. IsFiniteSet({}) /\ Cardinality({}) = 0
  BY FS_EmptySet
<1>3. \A s \in Convs : active[s][2] = 0 /\ detached[s] = None
  BY DEF Init
<1>4. \A r \in Reqs : using[r] = None /\ pc[r] = "idle"
  BY DEF Init, Procs
<1>5. \A s \in Convs : IsFiniteSet(Holders(s)) /\ active[s][2] = Cardinality(Holders(s))
  <2> SUFFICES ASSUME NEW s \in Convs PROVE IsFiniteSet(Holders(s)) /\ active[s][2] = Cardinality(Holders(s))
    OBVIOUS
  <2>1. Holders(s) = {}
    BY <1>1
  <2> QED
    BY <2>1, <1>2, <1>3
<1>6. \A s \in Convs : ~(active[s][2] > 0)
  BY <1>3
<1> QED
  BY <1>3, <1>4, <1>5, <1>6 DEF Held

\* A holder is at work, its conversation is active, and no conversation is active without one.
LEMMA HoldersCount ==
  ASSUME Typed, Held, NEW s \in Convs
  PROVE  /\ active[s][2] \in Nat
         /\ active[s][2] = 0 <=> Holders(s) = {}
PROOF
<1>1. active[s] \in (Reqs \cup {None}) \X Nat
  BY DEF Typed
<1>2. IsFiniteSet(Holders(s)) /\ active[s][2] = Cardinality(Holders(s))
  BY DEF Held
<1> QED
  BY <1>1, <1>2, FS_EmptySet

\* A request that starts to hold a conversation of s is one more holder of s alone.
LEMMA HoldersJoin ==
  ASSUME Typed, Held, NEW r \in Reqs, NEW h \in Reqs, NEW s \in Convs, target[r] = s, using[r] = None,
         using' = [using EXCEPT ![r] = h], target' = target, None \notin Reqs
  PROVE  /\ Holders(s)' = Holders(s) \cup {r}
         /\ IsFiniteSet(Holders(s)') /\ Cardinality(Holders(s)') = active[s][2] + 1
         /\ \A t \in Convs \ {s} : Holders(t)' = Holders(t)
PROOF
<1>1. using'[r] = h /\ h # None /\ \A q \in Reqs \ {r} : using'[q] = using[q]
  BY DEF Typed
<1>2. Holders(s)' = Holders(s) \cup {r}
  BY <1>1 DEF Holders
<1>3. r \notin Holders(s)
  BY DEF Holders
<1>4. IsFiniteSet(Holders(s)) /\ active[s][2] = Cardinality(Holders(s))
  BY DEF Held
<1>5. IsFiniteSet(Holders(s) \cup {r}) /\ Cardinality(Holders(s) \cup {r}) = active[s][2] + 1
  BY <1>3, <1>4, FS_AddElement
<1>6. \A t \in Convs \ {s} : Holders(t)' = Holders(t)
  BY <1>1 DEF Holders
<1> QED
  BY <1>2, <1>5, <1>6

\* A request that is over is one holder less.
LEMMA HoldersLeave ==
  ASSUME Typed, Held, NEW r \in Reqs, NEW s \in Convs, target[r] = s, using[r] # None,
         using' = [using EXCEPT ![r] = None], target' = target
  PROVE  /\ Holders(s)' = Holders(s) \ {r}
         /\ IsFiniteSet(Holders(s)') /\ Cardinality(Holders(s)') = active[s][2] - 1
         /\ \A t \in Convs \ {s} : Holders(t)' = Holders(t)
PROOF
<1>1. using'[r] = None /\ \A q \in Reqs \ {r} : using'[q] = using[q]
  BY DEF Typed
<1>2. Holders(s)' = Holders(s) \ {r}
  BY <1>1 DEF Holders
<1>3. r \in Holders(s)
  BY DEF Holders
<1>4. IsFiniteSet(Holders(s)) /\ active[s][2] = Cardinality(Holders(s))
  BY DEF Held
<1>5. IsFiniteSet(Holders(s) \ {r}) /\ Cardinality(Holders(s) \ {r}) = active[s][2] - 1
  BY <1>3, <1>4, FS_RemoveElement
<1>6. \A t \in Convs \ {s} : Holders(t)' = Holders(t)
  BY <1>1 DEF Holders
<1> QED
  BY <1>2, <1>5, <1>6

\* A step that lends nothing and takes nothing back, and moves only actors that neither hold
\* nor have made a conversation.
LEMMA ApartHeld ==
  ASSUME Typed, Held, UNCHANGED convVars,
         \A q \in Procs : pc[q] \in {"using", "ended", "connect"} => pc'[q] = pc[q] /\ target'[q] = target[q],
         \A q \in Procs : pc'[q] \in {"using", "connect"} => pc[q] = pc'[q]
  PROVE  Held'
PROOF
<1>1. UNCHANGED <<lock, active, detached, conv, using>> /\ \A r \in Reqs : r \in Procs
  BY DEF convVars, Procs
<1>2. \A s \in Convs : Holders(s)' = Holders(s)
  <2> SUFFICES ASSUME NEW s \in Convs, NEW r \in Reqs
               PROVE  (using'[r] # None /\ target'[r] = s) <=> (using[r] # None /\ target[r] = s)
    BY DEF Holders
  <2> QED
    BY <1>1 DEF Held
<1>3. \A h, s : Lendable(h, s) => Lendable(h, s)'
  BY <1>1 DEF Lendable
<1>4. \A r \in Reqs : (using'[r] # None) <=> (pc'[r] = "using")
  BY <1>1 DEF Held
<1>5. \A r \in Reqs : using'[r] # None => active'[target'[r]][1] = using'[r]
  BY <1>1 DEF Held
<1>6. \A s \in Convs : IsFiniteSet(Holders(s)') /\ active'[s][2] = Cardinality(Holders(s)')
  BY <1>1, <1>2 DEF Held
<1>7. \A s \in Convs : /\ active'[s][2] > 0 => Lendable(active[s][1], s)' /\ detached'[s] = None
                       /\ detached'[s] # None => Lendable(detached[s], s)'
  BY <1>1, <1>3 DEF Held
<1>8. \A r \in Reqs : pc'[r] = "connect" =>
       lock' = r /\ conv'[r].up /\ active'[target'[r]][2] = 0 /\ detached'[target'[r]] = None
  BY <1>1 DEF Held
<1> QED
  BY <1>4, <1>5, <1>6, <1>7, <1>8 DEF Held, Lendable

\* Starting a loop moves an actor that neither holds nor has made a conversation.
LEMMA MaybeStartHeld ==
  ASSUME Typed, Held, NEW p \in Procs, NEW s \in Convs, pc[p] \in {"idle", "replay"},
         \A q \in Procs \ {p} : target'[q] = target[q], MaybeStart(p, s), UNCHANGED convVars
  PROVE  Held'
PROOF
<1>1. PICK x \in {"served", "limit"} : pc' = [pc EXCEPT ![p] = x]
  BY DEF MaybeStart, NewSession
<1>2. \A q \in Procs : pc[q] \in {"using", "ended", "connect"} => pc'[q] = pc[q] /\ target'[q] = target[q]
  BY <1>1 DEF Typed
<1>3. \A q \in Procs : pc'[q] \in {"using", "connect"} => pc[q] = pc'[q]
  BY <1>1 DEF Typed
<1> QED
  BY <1>2, <1>3, ApartHeld

\* Conversations that are neither active, detached nor being connected may be disconnected.
LEMMA ConvsDownHeld ==
  ASSUME Typed, Held, NEW gone \in SUBSET Reqs, conv' = ConvsDown(gone),
         UNCHANGED <<active, using, target>>,
         \A s \in Convs : active[s][2] > 0 => active[s][1] \notin gone,
         \A s \in Convs : detached'[s] # None => detached'[s] = detached[s] /\ detached[s] \notin gone,
         \A q \in Procs : pc[q] \in {"using", "ended"} => pc'[q] = pc[q],
         \A q \in Reqs : pc'[q] = "using" => pc[q] = "using",
         \A q \in Reqs : pc'[q] # "connect"
  PROVE  Held'
PROOF
<1>1. \A r \in Reqs : r \in Procs /\ (r \notin gone => conv'[r].up = conv[r].up)
  BY StreamsClosedTyped DEF Procs
<1>2. \A s \in Convs : Holders(s)' = Holders(s)
  BY DEF Holders
<1>3. \A h, s : h \notin gone /\ Lendable(h, s) => Lendable(h, s)'
  BY <1>1 DEF Lendable
<1>4. \A r \in Reqs : (using'[r] # None) <=> (pc'[r] = "using")
  BY <1>1 DEF Held
<1>5. \A r \in Reqs : using'[r] # None => active'[target'[r]][1] = using'[r]
  BY DEF Held
<1>6. \A s \in Convs : IsFiniteSet(Holders(s)') /\ active'[s][2] = Cardinality(Holders(s)')
  BY <1>2 DEF Held
<1>7. ASSUME NEW s \in Convs, active[s][2] > 0
      PROVE  Lendable(active[s][1], s)' /\ detached'[s] = None
  <2>1. Lendable(active[s][1], s) /\ detached[s] = None /\ active[s][1] \notin gone /\ active' = active
    BY <1>7 DEF Held
  <2>2. Lendable(active[s][1], s)'
    BY <2>1, <1>1 DEF Lendable
  <2> QED
    BY <2>1, <2>2
<1>8. ASSUME NEW s \in Convs, detached'[s] # None PROVE Lendable(detached[s], s)'
  <2>1. Lendable(detached[s], s) /\ detached[s] \notin gone /\ detached'[s] = detached[s]
    BY <1>8 DEF Held
  <2> QED
    BY <2>1, <1>1 DEF Lendable
<1> QED
  BY <1>4, <1>5, <1>6, <1>7, <1>8 DEF Held

\* An active or a detached conversation is lent again.
LEMMA AttachReuseHeld ==
  ASSUME Typed, Held, None \notin Reqs, NEW r \in Reqs, AttachReuse(r)
  PROVE  Held'
PROOF
<1>0. PICK s \in Convs : target[r] = s
  BY DEF AttachReuse, Typed, Procs
<1>1. /\ r \in Procs /\ pc[r] = "attach" /\ lock = None /\ s \in Convs /\ using[r] = None
      /\ UNCHANGED <<target, lock, conv>> /\ None \notin Reqs
  BY DEF AttachReuse, Procs, Typed, Held
<1>2. /\ active[s] \in (Reqs \cup {None}) \X Nat /\ \A t \in Convs : detached[t] \in Reqs \cup {None}
      /\ active \in [Convs -> (Reqs \cup {None}) \X Nat]
  BY <1>1 DEF Typed
<1>3. PICK h \in Reqs :
      /\ active' = [active EXCEPT ![s] = <<h, active[s][2] + 1>>]
      /\ using' = [using EXCEPT ![r] = h] /\ pc' = [pc EXCEPT ![r] = "using"]
      /\ detached'[s] = None /\ \A t \in Convs \ {s} : detached'[t] = detached[t]
      /\ Lendable(h, s)
      /\ active[s][2] > 0 => h = active[s][1]
  <2>1. CASE active[s][2] > 0
    <3>1. Hold(r, s, active[s][1], active[s][2] + 1) /\ detached' = detached
      BY <2>1, <1>0, <1>2 DEF AttachReuse
    <3>2. Lendable(active[s][1], s) /\ detached[s] = None
      BY <1>1, <2>1 DEF Held
    <3> QED
      BY <2>1, <3>1, <3>2 DEF Hold, Lendable
  <2>2. CASE ~(active[s][2] > 0)
    <3>1. /\ Hold(r, s, detached[s], 1) /\ detached' = [detached EXCEPT ![s] = None] /\ detached[s] # None
          /\ active[s][2] = 0
      BY <2>2, <1>0, <1>2 DEF AttachReuse
    <3>2. Lendable(detached[s], s)
      BY <1>1, <3>1 DEF Held
    <3>3. detached'[s] = None /\ \A t \in Convs \ {s} : detached'[t] = detached[t]
      BY <1>1, <3>1 DEF Typed
    <3>4. active[s][2] + 1 = 1 /\ detached[s] \in Reqs
      BY <3>1, <3>2 DEF Lendable
    <3>5. /\ active' = [active EXCEPT ![s] = <<detached[s], active[s][2] + 1>>]
          /\ using' = [using EXCEPT ![r] = detached[s]] /\ pc' = [pc EXCEPT ![r] = "using"]
      BY <3>1, <3>4 DEF Hold
    <3> QED
      BY <2>2, <3>2, <3>3, <3>4, <3>5
  <2> QED
    BY <2>1, <2>2
<1>4. h \in Reqs /\ h # None
  BY <1>1, <1>3
<1>5. active'[s] = <<h, active[s][2] + 1>> /\ \A t \in Convs \ {s} : active'[t] = active[t]
  BY <1>1, <1>2, <1>3
<1>6. active'[s][1] = h /\ active'[s][2] = active[s][2] + 1 /\ active[s][2] \in Nat
  BY <1>2, <1>5
<1>7. /\ IsFiniteSet(Holders(s)') /\ Cardinality(Holders(s)') = active[s][2] + 1
      /\ \A t \in Convs \ {s} : Holders(t)' = Holders(t)
  BY <1>1, <1>3, <1>4, <1>0, HoldersJoin
<1>8. /\ pc'[r] = "using" /\ \A q \in Procs \ {r} : pc'[q] = pc[q]
      /\ using'[r] = h /\ \A q \in Reqs \ {r} : using'[q] = using[q]
  BY <1>1, <1>3 DEF Typed
<1>9. \A q \in Reqs : (using'[q] # None) <=> (pc'[q] = "using")
  BY <1>4, <1>8 DEF Held, Procs
<1>10. ASSUME NEW q \in Reqs, using'[q] # None PROVE active'[target'[q]][1] = using'[q]
  <2>1. CASE q = r
    BY <1>0, <1>1, <1>6, <1>8, <2>1
  <2>2. CASE q # r
    <3>1. using[q] # None /\ active[target[q]][1] = using[q] /\ target'[q] = target[q] /\ target[q] \in Convs
      BY <1>1, <1>8, <1>10, <2>2 DEF Held, Typed, Procs
    <3>2. CASE target[q] # s
      BY <1>5, <1>8, <2>2, <3>1, <3>2
    <3>3. CASE target[q] = s
      <4>1. q \in Holders(s)
        BY <3>1, <3>3 DEF Holders
      <4>2. active[s][2] > 0
        BY <4>1, <1>1, <1>6, HoldersCount
      <4> QED
        BY <4>2, <1>3, <1>6, <1>8, <2>2, <3>1, <3>3
    <3> QED
      BY <3>2, <3>3
  <2> QED
    BY <2>1, <2>2
<1>11. ASSUME NEW t \in Convs
       PROVE  IsFiniteSet(Holders(t)') /\ active'[t][2] = Cardinality(Holders(t)')
  <2>1. CASE t = s
    BY <1>6, <1>7, <2>1
  <2>2. CASE t # s
    <3>1. Holders(t)' = Holders(t) /\ active'[t] = active[t]
      BY <1>5, <1>7, <2>2
    <3> QED
      BY <3>1 DEF Held
  <2> QED
    BY <2>1, <2>2
<1>13. ASSUME NEW t \in Convs, active'[t][2] > 0 PROVE Lendable(active[t][1], t)' /\ detached'[t] = None
  <2>1. CASE t = s
    <3>1. h \in Reqs /\ conv'[h].up /\ target'[h] = s /\ pc'[h] \in {"using", "ended"}
      BY <1>1, <1>3, <1>8 DEF Lendable, Procs
    <3> QED
      BY <3>1, <1>3, <1>6, <2>1 DEF Lendable
  <2>2. CASE t # s
    <3>1. active'[t] = active[t] /\ detached'[t] = detached[t]
      BY <1>3, <1>5, <2>2
    <3>2. Lendable(active[t][1], t) /\ detached[t] = None
      BY <1>13, <3>1 DEF Held
    <3>3. Lendable(active[t][1], t)'
      BY <3>1, <3>2, <1>1, <1>8 DEF Lendable, Procs
    <3> QED
      BY <3>1, <3>2, <3>3
  <2> QED
    BY <2>1, <2>2
<1>14. ASSUME NEW t \in Convs, detached'[t] # None PROVE Lendable(detached[t], t)'
  <2>1. t # s /\ detached'[t] = detached[t]
    BY <1>3, <1>14
  <2>2. Lendable(detached[t], t)
    BY <1>14, <2>1 DEF Held
  <2> QED
    BY <2>1, <2>2, <1>1, <1>8 DEF Lendable, Procs
<1>15. \A q \in Reqs : pc'[q] # "connect"
  BY <1>1, <1>8 DEF Held, Procs
<1> QED
  BY <1>9, <1>10, <1>11, <1>13, <1>14, <1>15 DEF Held

\* A request that has a conversation of its own, which is up, lends it to itself.
LEMMA FreshHeld ==
  ASSUME Typed, Held, None \notin Reqs, NEW r \in Reqs, NEW s \in Convs, target[r] = s,
         pc[r] \in {"attach", "connect"}, lock \in {None, r},
         active[s][2] = 0, detached[s] = None,
         Hold(r, s, r, 1), conv'[r].up, \A q \in Reqs \ {r} : conv'[q] = conv[q],
         UNCHANGED <<target, detached>>
  PROVE  Held'
PROOF
<1>1. r \in Procs /\ using[r] = None /\ None \notin Reqs /\ r # None
  BY DEF Procs, Held
<1>2. /\ active' = [active EXCEPT ![s] = <<r, 1>>] /\ using' = [using EXCEPT ![r] = r]
      /\ pc' = [pc EXCEPT ![r] = "using"]
  BY DEF Hold
<1>3. active'[s] = <<r, 1>> /\ \A t \in Convs \ {s} : active'[t] = active[t]
  BY <1>2 DEF Typed
<1>4. active'[s][1] = r /\ active'[s][2] = 1
  BY <1>3
<1>5. /\ IsFiniteSet(Holders(s)') /\ Cardinality(Holders(s)') = active[s][2] + 1
      /\ \A t \in Convs \ {s} : Holders(t)' = Holders(t)
  BY <1>1, <1>2, HoldersJoin
<1>6. /\ pc'[r] = "using" /\ \A q \in Procs \ {r} : pc'[q] = pc[q]
      /\ using'[r] = r /\ \A q \in Reqs \ {r} : using'[q] = using[q]
  BY <1>1, <1>2 DEF Typed
<1>7. \A q \in Reqs : (using'[q] # None) <=> (pc'[q] = "using")
  BY <1>1, <1>6 DEF Held, Procs
<1>8. ASSUME NEW q \in Reqs, using'[q] # None PROVE active'[target'[q]][1] = using'[q]
  <2>1. CASE q = r
    BY <1>4, <1>6, <2>1
  <2>2. CASE q # r
    <3>1. using[q] # None /\ active[target[q]][1] = using[q] /\ target'[q] = target[q] /\ target[q] \in Convs
      BY <1>6, <1>8, <2>2 DEF Held, Typed, Procs
    <3>2. Holders(s) = {}
      BY HoldersCount
    <3>3. target[q] # s
      BY <3>1, <3>2 DEF Holders
    <3> QED
      BY <1>3, <1>6, <2>2, <3>1, <3>3
  <2> QED
    BY <2>1, <2>2
<1>9. ASSUME NEW t \in Convs
      PROVE  IsFiniteSet(Holders(t)') /\ active'[t][2] = Cardinality(Holders(t)')
  <2>1. CASE t = s
    BY <1>4, <1>5, <2>1
  <2>2. CASE t # s
    <3>1. Holders(t)' = Holders(t) /\ active'[t] = active[t]
      BY <1>3, <1>5, <2>2
    <3> QED
      BY <3>1 DEF Held
  <2> QED
    BY <2>1, <2>2
<1>10. ASSUME NEW g \in Reqs, NEW t, Lendable(g, t)
       PROVE  conv'[g].up /\ target'[g] = t /\ pc'[g] \in {"using", "ended"}
  <2>1. g # r
    BY <1>10 DEF Lendable
  <2> QED
    BY <1>6, <1>10, <2>1 DEF Lendable, Procs
<1>11. ASSUME NEW t \in Convs, active'[t][2] > 0 PROVE Lendable(active[t][1], t)' /\ detached'[t] = None
  <2>1. CASE t = s
    BY <1>4, <1>6, <2>1 DEF Lendable
  <2>2. CASE t # s
    <3>1. active'[t] = active[t] /\ detached'[t] = detached[t]
      BY <1>3, <2>2
    <3>2. active[t][1] \in Reqs /\ Lendable(active[t][1], t) /\ detached[t] = None
      BY <1>11, <3>1 DEF Held, Lendable
    <3> QED
      BY <3>1, <3>2, <1>10 DEF Lendable
  <2> QED
    BY <2>1, <2>2
<1>12. ASSUME NEW t \in Convs, detached'[t] # None PROVE Lendable(detached[t], t)'
  <2>1. detached'[t] = detached[t] /\ detached[t] \in Reqs /\ Lendable(detached[t], t)
    BY <1>12 DEF Held, Lendable
  <2> QED
    BY <2>1, <1>10 DEF Lendable
<1>13. \A q \in Reqs : pc'[q] # "connect"
  BY <1>6 DEF Held, Procs
<1> QED
  BY <1>7, <1>8, <1>9, <1>11, <1>12, <1>13 DEF Held

\* A conversation is made: on a running session's runtime, or one that has still to connect.
LEMMA AttachNewHeld ==
  ASSUME Typed, Held, None \notin Reqs, NEW r \in Reqs, AttachNew(r)
  PROVE  Held'
PROOF
<1>0. PICK s \in Convs : target[r] = s
  BY DEF AttachNew, Typed, Procs
<1>1. /\ r \in Procs /\ pc[r] = "attach" /\ lock = None /\ active[s][2] = 0 /\ detached[s] = None
      /\ UNCHANGED <<target, detached>> /\ using[r] = None /\ r # None
  BY <1>0 DEF AttachNew, Procs, Held
<1>2. PICK b \in BOOLEAN : conv' = [conv EXCEPT ![r] = [shares |-> b, stream |-> loops[s], up |-> TRUE]]
  BY <1>0 DEF AttachNew
<1>3. conv'[r].up /\ \A q \in Reqs \ {r} : conv'[q] = conv[q]
  BY <1>2 DEF Typed
<1>4. CASE Hold(r, s, r, 1)
  BY <1>0, <1>1, <1>3, <1>4, FreshHeld
<1>5. CASE lock' = r /\ pc' = [pc EXCEPT ![r] = "connect"] /\ UNCHANGED <<active, using>>
  <2>1. pc'[r] = "connect" /\ \A q \in Procs \ {r} : pc'[q] = pc[q]
    BY <1>1, <1>5 DEF Typed
  <2>2. \A t \in Convs : Holders(t)' = Holders(t)
    BY <1>1, <1>5 DEF Holders
  <2>3. \A q \in Reqs : (using'[q] # None) <=> (pc'[q] = "using")
    BY <1>1, <1>5, <2>1 DEF Held, Procs
  <2>4. \A q \in Reqs : using'[q] # None => active'[target'[q]][1] = using'[q]
    BY <1>1, <1>5 DEF Held
  <2>5. \A t \in Convs : IsFiniteSet(Holders(t)') /\ active'[t][2] = Cardinality(Holders(t)')
    BY <1>5, <2>2 DEF Held
  <2>6. ASSUME NEW g \in Reqs, NEW t, Lendable(g, t)
        PROVE  conv'[g].up /\ target'[g] = t /\ pc'[g] \in {"using", "ended"}
    <3>1. g # r
      BY <1>1, <2>6 DEF Lendable
    <3> QED
      BY <1>1, <1>3, <2>1, <2>6, <3>1 DEF Lendable, Procs
  <2>7. ASSUME NEW t \in Convs, active'[t][2] > 0 PROVE Lendable(active[t][1], t)' /\ detached'[t] = None
    <3>1. active[t][1] \in Reqs /\ Lendable(active[t][1], t) /\ detached[t] = None
      BY <1>5, <2>7 DEF Held, Lendable
    <3> QED
      BY <1>1, <1>5, <3>1, <2>6 DEF Lendable
  <2>8. ASSUME NEW t \in Convs, detached'[t] # None PROVE Lendable(detached[t], t)'
    <3>1. detached[t] \in Reqs /\ Lendable(detached[t], t)
      BY <1>1, <2>8 DEF Held, Lendable
    <3> QED
      BY <1>1, <3>1, <2>6 DEF Lendable
  <2>9. \A q \in Reqs : pc'[q] = "connect" =>
          lock' = q /\ conv'[q].up /\ active'[target'[q]][2] = 0 /\ detached'[target'[q]] = None
    <3>1. \A q \in Reqs : pc'[q] = "connect" => q = r
      BY <1>1, <2>1 DEF Held, Procs
    <3> QED
      BY <1>0, <1>1, <1>3, <1>5, <3>1
  <2> QED
    BY <2>3, <2>4, <2>5, <2>7, <2>8, <2>9 DEF Held
<1> QED
  BY <1>0, <1>4, <1>5 DEF AttachNew

\* The container was found: the conversation is lent to the request that made it.
LEMMA AttachConnectsHeld ==
  ASSUME Typed, Held, None \notin Reqs, NEW r \in Reqs, AttachConnects(r)
  PROVE  Held'
PROOF
<1>0. PICK s \in Convs : target[r] = s
  BY DEF AttachConnects, Typed, Procs
<1>1. /\ pc[r] = "connect" /\ UNCHANGED <<target, detached, conv>> /\ Hold(r, s, r, 1)
  BY <1>0 DEF AttachConnects
<1>2. lock = r /\ active[s][2] = 0 /\ detached[s] = None /\ conv[r].up
  BY <1>0, <1>1 DEF Held
<1> QED
  BY <1>0, <1>1, <1>2, FreshHeld

\* The sandbox is not there: the conversation, which nobody else has, is disconnected.
LEMMA AttachFailsHeld ==
  ASSUME Typed, Held, None \notin Reqs, NEW r \in Reqs, AttachFails(r)
  PROVE  Held'
PROOF
<1>1. /\ r \in Procs /\ pc[r] = "connect" /\ pc' = [pc EXCEPT ![r] = "ended"] /\ conv' = ConvsDown({r})
      /\ UNCHANGED <<active, using, target, detached>> /\ {r} \in SUBSET Reqs
  BY DEF AttachFails, Procs
<1>2. pc'[r] = "ended" /\ \A q \in Procs \ {r} : pc'[q] = pc[q]
  BY <1>1 DEF Typed
<1>3. \A h, s : Lendable(h, s) => h \notin {r}
  BY <1>1 DEF Lendable
<1>4. ASSUME NEW s \in Convs, active[s][2] > 0 PROVE active[s][1] \notin {r}
  BY <1>3, <1>4 DEF Held
<1>5. ASSUME NEW s \in Convs, detached'[s] # None PROVE detached'[s] = detached[s] /\ detached[s] \notin {r}
  BY <1>1, <1>3, <1>5 DEF Held
<1>6. /\ \A q \in Procs : pc[q] \in {"using", "ended"} => pc'[q] = pc[q]
      /\ \A q \in Reqs : pc'[q] = "using" => pc[q] = "using"
  BY <1>1, <1>2 DEF Procs
<1>7. \A q \in Reqs : pc'[q] # "connect"
  BY <1>1, <1>2 DEF Held, Procs
<1> QED
  BY <1>1, <1>4, <1>5, <1>6, <1>7, ConvsDownHeld

\* The clean-up disconnects the detached conversations, none of which is active.
LEMMA CleanUpHeld ==
  ASSUME Typed, Held, None \notin Reqs, CleanUp
  PROVE  Held'
PROOF
<1> DEFINE gone == {detached[s] : s \in Convs} \ {None}
<1>1. /\ lock = None /\ conv' = ConvsDown(gone) /\ detached' = [s \in Convs |-> None]
      /\ UNCHANGED <<active, using, target, pc>>
  BY DEF CleanUp, procVars
<1>2. gone \in SUBSET Reqs
  BY DEF Typed
<1>3. ASSUME NEW s \in Convs, active[s][2] > 0 PROVE active[s][1] \notin gone
  <2> SUFFICES ASSUME NEW t \in Convs, detached[t] # None, detached[t] = active[s][1] PROVE FALSE
    OBVIOUS
  <2>1. Lendable(active[s][1], s) /\ detached[s] = None
    BY <1>3 DEF Held
  <2>2. Lendable(detached[t], t)
    BY DEF Held
  <2>3. s = t
    BY <2>1, <2>2 DEF Lendable
  <2> QED
    BY <2>1, <2>3
<1>4. \A s \in Convs : detached'[s] = None
  BY <1>1
<1>5. \A q \in Reqs : pc'[q] # "connect"
  BY <1>1 DEF Held, Procs
<1> HIDE DEF gone
<1> QED
  BY <1>1, <1>2, <1>3, <1>4, <1>5, ConvsDownHeld

\* A request is over: one holder less, and the last one detaches the conversation.
LEMMA DetachHeld ==
  ASSUME Typed, Held, None \notin Reqs, NEW r \in Reqs, Detach(r)
  PROVE  Held'
PROOF
<1>0. PICK s \in Convs : target[r] = s
  BY DEF Detach, Typed, Procs
<1>1. /\ r \in Procs /\ pc[r] = "using" /\ lock = None /\ using[r] # None /\ using[r] = active[s][1]
      /\ pc' = [pc EXCEPT ![r] = "ended"] /\ using' = [using EXCEPT ![r] = None]
      /\ UNCHANGED <<target, conv>>
  BY <1>0 DEF Detach, Procs, Held
<1>2. /\ pc'[r] = "ended" /\ \A q \in Procs \ {r} : pc'[q] = pc[q]
      /\ using'[r] = None /\ \A q \in Reqs \ {r} : using'[q] = using[q]
  BY <1>1 DEF Typed
<1>3. /\ Holders(s)' = Holders(s) \ {r}
      /\ IsFiniteSet(Holders(s)') /\ Cardinality(Holders(s)') = active[s][2] - 1
      /\ \A t \in Convs \ {s} : Holders(t)' = Holders(t)
  BY <1>0, <1>1, HoldersLeave
<1>4. active[s] \in (Reqs \cup {None}) \X Nat /\ active[s][2] # 0
  <2>1. r \in Holders(s)
    BY <1>0, <1>1 DEF Holders
  <2> QED
    BY <2>1, HoldersCount DEF Typed
<1>5. Lendable(active[s][1], s) /\ detached[s] = None
  <2>1. active[s][2] > 0
    BY <1>4
  <2> QED
    BY <2>1 DEF Held
<1>6. /\ active'[s][2] = active[s][2] - 1 /\ \A t \in Convs \ {s} : active'[t] = active[t] /\ detached'[t] = detached[t]
      /\ active[s][2] > 1 => active'[s][1] = active[s][1] /\ detached'[s] = None
      /\ active[s][2] = 1 => detached'[s] = using[r]
  <2>1. CASE active[s][2] > 1
    <3>1. active' = [active EXCEPT ![s][2] = active[s][2] - 1] /\ detached' = detached
      BY <1>0, <2>1 DEF Detach
    <3>2. active'[s] = [active[s] EXCEPT ![2] = active[s][2] - 1] /\ \A t \in Convs \ {s} : active'[t] = active[t]
      BY <3>1 DEF Typed
    <3>3. active'[s][2] = active[s][2] - 1 /\ active'[s][1] = active[s][1]
      BY <1>4, <3>2
    <3> QED
      BY <1>5, <2>1, <3>1, <3>2, <3>3
  <2>2. CASE active[s][2] = 1
    <3>1. active' = [active EXCEPT ![s] = <<None, 0>>] /\ detached' = [detached EXCEPT ![s] = using[r]]
      BY <1>0, <2>2 DEF Detach
    <3>2. active'[s] = <<None, 0>> /\ detached'[s] = using[r]
          /\ \A t \in Convs \ {s} : active'[t] = active[t] /\ detached'[t] = detached[t]
      BY <3>1 DEF Typed
    <3>3. active'[s][2] = active[s][2] - 1
      BY <2>2, <3>2
    <3> QED
      BY <2>2, <3>2, <3>3
  <2> QED
    BY <1>4, <2>1, <2>2
<1>7. \A q \in Reqs : (using'[q] # None) <=> (pc'[q] = "using")
  BY <1>1, <1>2 DEF Held, Procs
<1>8. ASSUME NEW q \in Reqs, using'[q] # None PROVE active'[target'[q]][1] = using'[q]
  <2>1. q # r /\ using[q] # None /\ using'[q] = using[q] /\ active[target[q]][1] = using[q]
        /\ target'[q] = target[q] /\ target[q] \in Convs
    BY <1>1, <1>2, <1>8 DEF Held, Typed, Procs
  <2>2. CASE target[q] # s
    BY <1>6, <2>1, <2>2
  <2>3. CASE target[q] = s
    <3>1. q \in Holders(s)'
      BY <1>3, <2>1, <2>3 DEF Holders
    <3>2. Cardinality(Holders(s)') # 0
      BY <1>3, <3>1, FS_EmptySet
    <3>3. active[s][2] > 1
      BY <1>3, <1>4, <3>2
    <3> QED
      BY <1>6, <2>1, <2>3, <3>3
  <2> QED
    BY <2>2, <2>3
<1>9. ASSUME NEW t \in Convs
      PROVE  IsFiniteSet(Holders(t)') /\ active'[t][2] = Cardinality(Holders(t)')
  <2>1. CASE t = s
    BY <1>3, <1>6, <2>1
  <2>2. CASE t # s
    <3>1. Holders(t)' = Holders(t) /\ active'[t] = active[t]
      BY <1>3, <1>6, <2>2
    <3> QED
      BY <3>1 DEF Held
  <2> QED
    BY <2>1, <2>2
<1>10. ASSUME NEW g \in Reqs, NEW t, Lendable(g, t)
       PROVE  conv'[g].up /\ target'[g] = t /\ pc'[g] \in {"using", "ended"}
  BY <1>1, <1>2, <1>10 DEF Lendable, Procs
<1>11. ASSUME NEW t \in Convs, active'[t][2] > 0 PROVE Lendable(active[t][1], t)' /\ detached'[t] = None
  <2>1. CASE t = s
    <3>1. active[s][2] > 1
      BY <1>4, <1>6, <1>11, <2>1
    <3>2. active'[s][1] = active[s][1] /\ detached'[s] = None /\ active[s][1] \in Reqs
      BY <1>5, <1>6, <3>1 DEF Lendable
    <3> QED
      BY <1>5, <1>10, <2>1, <3>2 DEF Lendable
  <2>2. CASE t # s
    <3>1. active'[t] = active[t] /\ detached'[t] = detached[t]
      BY <1>6, <2>2
    <3>2. active[t][1] \in Reqs /\ Lendable(active[t][1], t) /\ detached[t] = None
      BY <1>11, <3>1 DEF Held, Lendable
    <3> QED
      BY <3>1, <3>2, <1>10 DEF Lendable
  <2> QED
    BY <2>1, <2>2
<1>12. ASSUME NEW t \in Convs, detached'[t] # None PROVE Lendable(detached[t], t)'
  <2>1. CASE t = s
    <3>1. detached'[s] = active[s][1] /\ active[s][1] \in Reqs
      BY <1>1, <1>4, <1>5, <1>6, <1>12, <2>1 DEF Lendable
    <3> QED
      BY <1>5, <1>10, <2>1, <3>1 DEF Lendable
  <2>2. CASE t # s
    <3>1. detached'[t] = detached[t] /\ detached[t] \in Reqs /\ Lendable(detached[t], t)
      BY <1>6, <1>12, <2>2 DEF Held, Lendable
    <3> QED
      BY <3>1, <1>10 DEF Lendable
  <2> QED
    BY <2>1, <2>2
<1>13. \A q \in Reqs : pc'[q] # "connect"
  BY <1>1, <1>2 DEF Held, Procs
<1> QED
  BY <1>7, <1>8, <1>9, <1>11, <1>12, <1>13 DEF Held

\* Lending stays in order.
LEMMA NextHeld ==
  ASSUME Typed, Held, None \notin Reqs, [Next]_vars
  PROVE  Held'
PROOF
<1>0. ASSUME UNCHANGED <<procVars, convVars>> PROVE Held'
  BY <1>0, ApartHeld DEF procVars
<1>1. ASSUME NEW p \in Procs, NEW x \in Places \ {"idle", "using", "connect"},
             pc[p] \notin {"using", "ended", "connect"}, pc' = [pc EXCEPT ![p] = x],
             \A q \in Procs \ {p} : target'[q] = target[q], UNCHANGED convVars
      PROVE  Held'
  <2>1. \A q \in Procs : pc[q] \in {"using", "ended", "connect"} => pc'[q] = pc[q] /\ target'[q] = target[q]
    BY <1>1 DEF Typed
  <2>2. \A q \in Procs : pc'[q] \in {"using", "connect"} => pc[q] = pc'[q]
    BY <1>1 DEF Typed
  <2> QED
    BY <1>1, <2>1, <2>2, ApartHeld
<1>2. ASSUME NEW p \in Procs, NEW s, target' = [target EXCEPT ![p] = s]
      PROVE  \A q \in Procs \ {p} : target'[q] = target[q]
  BY <1>2 DEF Typed
<1>3. ASSUME NEW c \in Conns, NEW s \in Convs, Connect(c, s) PROVE Held'
  <2>1. /\ c \in Procs /\ pc[c] = "idle" /\ pc' = [pc EXCEPT ![c] = "replay"]
        /\ target' = [target EXCEPT ![c] = s] /\ UNCHANGED convVars
    BY <1>3 DEF Connect, Comes, Procs
  <2> QED
    BY <1>1, <1>2, <2>1 DEF Places
<1>4. ASSUME NEW c \in Conns, ConnectRefused(c) PROVE Held'
  <2>1. /\ c \in Procs /\ pc[c] = "replay" /\ pc' = [pc EXCEPT ![c] = "ended"]
        /\ target' = target /\ UNCHANGED convVars
    BY <1>4 DEF ConnectRefused, Procs
  <2> QED
    BY <1>1, <2>1 DEF Places
<1>5. ASSUME NEW c \in Conns, Join(c) PROVE Held'
  <2>1. c \in Procs /\ pc[c] = "replay" /\ target' = target /\ UNCHANGED convVars /\ target[c] \in Convs
    BY <1>5 DEF Join, Procs, Typed
  <2>2. CASE pc' = [pc EXCEPT ![c] = "ended"]
    BY <1>1, <2>1, <2>2 DEF Places
  <2>3. CASE MaybeStart(c, target[c])
    BY <2>1, <2>3, MaybeStartHeld
  <2> QED
    BY <1>5, <2>2, <2>3 DEF Join
<1>6. ASSUME NEW c \in Conns, Disconnect(c) PROVE Held'
  BY <1>0, <1>6 DEF Disconnect
<1>7. ASSUME NEW r \in Reqs, NEW s \in Convs, StartRequest(r, s) PROVE Held'
  <2>1. /\ r \in Procs /\ pc[r] = "idle" /\ target' = [target EXCEPT ![r] = s] /\ MaybeStart(r, s)
        /\ UNCHANGED convVars
    BY <1>7 DEF StartRequest, Comes, Procs
  <2> QED
    BY <1>2, <2>1, MaybeStartHeld
<1>8. ASSUME NEW r \in Reqs, NEW s \in Convs, StopRequest(r, s) PROVE Held'
  <2>1. /\ r \in Procs /\ pc[r] = "idle" /\ pc' = [pc EXCEPT ![r] = "ended"]
        /\ target' = [target EXCEPT ![r] = s] /\ UNCHANGED convVars
    BY <1>8 DEF StopRequest, Comes, Procs
  <2> QED
    BY <1>1, <1>2, <2>1 DEF Places
<1>9. ASSUME NEW r \in Reqs, NEW s \in Convs, AttachRequest(r, s) PROVE Held'
  <2>1. /\ r \in Procs /\ pc[r] = "idle" /\ pc' = [pc EXCEPT ![r] = "attach"]
        /\ target' = [target EXCEPT ![r] = s] /\ UNCHANGED convVars
    BY <1>9 DEF AttachRequest, Comes, Procs
  <2> QED
    BY <1>1, <1>2, <2>1 DEF Places
<1>10. ASSUME NEW r \in Reqs, AttachStep(r) \/ Detach(r) PROVE Held'
  BY <1>10, AttachReuseHeld, AttachNewHeld, AttachConnectsHeld, AttachFailsHeld, DetachHeld DEF AttachStep
<1>11. ASSUME NEW p \in Procs, ChooseOldest(p) PROVE Held'
  <2>1. /\ pc[p] = "limit" /\ pc' = [pc EXCEPT ![p] = "evict"] /\ target' = target /\ UNCHANGED convVars
    BY <1>11 DEF ChooseOldest
  <2> QED
    BY <1>1, <2>1 DEF Places
<1>12. ASSUME NEW p \in Procs, CloseOldest(p) PROVE Held'
  <2>1. pc' = pc /\ target' = target /\ UNCHANGED convVars
    BY <1>12 DEF CloseOldest
  <2> QED
    BY <2>1, ApartHeld
<1>13. ASSUME NEW p \in Procs, StartAfterEviction(p) PROVE Held'
  <2>1. /\ pc[p] = "evict" /\ pc' = [pc EXCEPT ![p] = "served"] /\ target' = target /\ UNCHANGED convVars
    BY <1>13 DEF StartAfterEviction, NewSession
  <2> QED
    BY <1>1, <2>1 DEF Places
<1>14. ASSUME NEW i \in Procs, OwnStep(i) PROVE Held'
  BY <1>0, <1>14, OwnStepTyped
<1>15. ASSUME NEW i \in Procs, RuntimeStops(i) PROVE Held'
  BY <1>0, <1>15 DEF RuntimeStops
<1>16. ASSUME NEW k \in tasks, TaskStep(k) PROVE Held'
  BY <1>0, <1>16 DEF TaskStep, CloseBegins, DropConnection, CloseReturns, CutClose
<1>17. CASE CleanUp
  BY <1>17, CleanUpHeld
<1>18. CASE UNCHANGED vars
  BY <1>0, <1>18 DEF vars
<1>19. ASSUME NEW i \in Procs,
              \/ StarterStep(i) \/ StartStep(i) \/ TurnsLate(i) \/ GoesIdle(i) \/ WakesUp(i) \/ CloseStep(i) \/ RuntimeStops(i)
       PROVE  Held'
  BY <1>11, <1>12, <1>13, <1>14, <1>15, <1>19 DEF StarterStep, CloseStep, OwnStep
<1> QED
  BY <1>3, <1>4, <1>5, <1>6, <1>7, <1>8, <1>9, <1>10, <1>16, <1>17, <1>18, <1>19 DEF Next

\* A conversation that requests hold is the active one, counted once per request, and nothing
\* disconnects it under them, however many requests attach, fail and detach while the
\* clean-up runs.
THEOREM HeldStaysUp == Spec => []HeldConversationIsUp
PROOF
<1>0. None \notin Reqs
  BY SessionsAssumption DEF Procs
<1>1. Typed /\ Held => HeldConversationIsUp
  <2> SUFFICES ASSUME Typed, Held PROVE HeldConversationIsUp
    OBVIOUS
  <2>1. ASSUME NEW r \in Reqs, using[r] # None PROVE conv[using[r]].up /\ active[target[r]][1] = using[r]
    <3>1. r \in Procs /\ pc[r] = "using" /\ target[r] \in Convs /\ active[target[r]][1] = using[r]
      BY <2>1 DEF Held, Typed, Procs
    <3>2. r \in Holders(target[r])
      BY <2>1 DEF Holders
    <3>3. active[target[r]][2] > 0
      BY <3>1, <3>2, HoldersCount
    <3> QED
      BY <3>1, <3>3 DEF Held, Lendable
  <2> QED
    BY <2>1 DEF HeldConversationIsUp, Held, Holders
<1>2. Typed /\ Held /\ [Next]_vars => (Typed /\ Held)'
  BY <1>0, NextTyped, NextHeld
<1>3. Init => Typed /\ Held
  BY InitTyped, InitHeld
<1> QED
  BY <1>1, <1>2, <1>3, PTL DEF Spec
=============================================================================
