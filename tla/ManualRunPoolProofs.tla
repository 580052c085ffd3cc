------------------------ MODULE ManualRunPoolProofs ------------------------
(***************************************************************************)
(* Type correctness of ManualRunPool, for every value of its constants,    *)
(* what a step does to the API server's objects and to the changes the     *)
(* watch has still to deliver, and from these its ceiling and that it      *)
(* implements BoundedPool.                                                 *)
(***************************************************************************)
EXTENDS ManualRunPoolInv, FiniteSetTheorems, SequenceTheorems, TLAPS

(***************************************************************************)
(* Lemmas about the operators the actions are built from                   *)
(***************************************************************************)

USE DelayAssumption, KindAssumption, BoundAssumption, LimitAssumption

\* A status write keeps the types, and appends exactly one event.
LEMMA StoreType ==
    ASSUME TypeOK, NEW r \in Run, NEW s \in Status, Store(r, s)
    PROVE  /\ status' \in [Run -> Status]
           /\ events' \in Seq(Event)
BY DEF TypeOK, Store, Event

\* A pass that ends leaves its bookkeeping well-typed.
LEMMA EndPassType ==
    ASSUME TypeOK, NEW r \in Run, EndPass(r)
    PROVE  /\ pc' \in [Run -> {"idle", "start", "admitted", "queued", "create"}]
           /\ copy' \in [Run -> Status]
           /\ fresh' \in [Run -> BOOLEAN]
           /\ passAge' \in [Run -> 0 .. PassDelay]
BY DEF TypeOK, EndPass, Status, Gone

LEMMA WriteStatusType ==
    ASSUME TypeOK, NEW r \in Run, NEW s \in Status,
           NEW to \in {"idle", "create"}, WriteStatus(r, s, to)
    PROVE  /\ status' \in [Run -> Status]
           /\ events' \in Seq(Event)
           /\ pc' \in [Run -> {"idle", "start", "admitted", "queued", "create"}]
           /\ copy' \in [Run -> Status]
           /\ fresh' \in [Run -> BOOLEAN]
           /\ passAge' \in [Run -> 0 .. PassDelay]
<1>1. CASE fresh[r] /\ to = "idle"
  BY <1>1, StoreType, EndPassType DEF WriteStatus
<1>2. CASE fresh[r] /\ to # "idle"
  BY <1>2, StoreType DEF WriteStatus, TypeOK
<1>3. CASE ~fresh[r]
  BY <1>3, EndPassType DEF WriteStatus, TypeOK
<1>. QED BY <1>1, <1>2, <1>3

LEMMA StatusMembers ==
    /\ \A s \in {"Absent", "New", "Queued", "Pending", "Admitted", "Frozen",
                 "Running", "Finished", "Deleted"} : s \in Status
    /\ Occupying \subseteq Status
BY DEF Status, Waiting, Occupying, Gone

(***************************************************************************)
(* Type correctness                                                        *)
(***************************************************************************)

LEMMA InitTypeOK == Init => TypeOK
BY StatusMembers DEF Init, TypeOK, NoRes, MaxAge

LEMMA NextTypeOK == TypeOK /\ [Next]_vars => TypeOK'
<1>. SUFFICES ASSUME TypeOK, [Next]_vars PROVE TypeOK'
  OBVIOUS
<1>. USE StatusMembers
<1>1. ASSUME NEW r \in Run, Submit(r) PROVE TypeOK'
  BY <1>1, StoreType DEF Submit, TypeOK, passVars
<1>2. ASSUME NEW r \in Run, Delete(r) PROVE TypeOK'
  BY <1>2, StoreType DEF Delete, Fault, TypeOK
<1>3. CASE Deliver
  <2>1. Head(events) \in Event /\ Tail(events) \in Seq(Event)
    BY <1>3, HeadTailProperties DEF Deliver, TypeOK
  <2>2. view' \in [Run -> Status]
    BY <1>3, <2>1 DEF Deliver, TypeOK, Event
  <2>. QED BY <1>3, <2>1, <2>2 DEF Deliver, TypeOK, apiVars, passVars
<1>4. CASE Tick
  <2>1. events' \in Seq(Event)
    <3>1. Len(events) \in Nat /\ DOMAIN events = 1 .. Len(events)
      BY DEF TypeOK
    <3>2. \A i \in DOMAIN events : events[i] \in Event /\ events[i].age < WatchDelay
      BY <1>4 DEF Tick, TypeOK
    <3>3. \A i \in DOMAIN events : [events[i] EXCEPT !.age = @ + 1] \in Event
      BY <3>2 DEF Event
    <3>4. events' \in [1 .. Len(events) -> Event]
      BY <1>4, <3>1, <3>3 DEF Tick
    <3>. QED BY <3>1, <3>4, SeqDef
  <2>2. held' \in [Run -> 0 .. NoRes]
    BY SMTT(60), <1>4 DEF Tick, TypeOK, Older, NoRes, MaxAge, Reserved
  <2>3. passAge' \in [Run -> 0 .. PassDelay]
    BY <1>4 DEF Tick, TypeOK
  <2>. QED BY <1>4, <2>1, <2>2, <2>3 DEF Tick, TypeOK, apiVars
<1>5. CASE Crash
  <2>1. held' \in [Run -> 0 .. NoRes]
    BY <1>5 DEF Crash, NoRes, MaxAge
  <2>2. passAge' \in [Run -> 0 .. PassDelay]
    BY <1>5 DEF Crash
  <2>3. faults' \in 0 .. MaxFaults
    BY <1>5 DEF Crash, Fault, TypeOK
  <2>4. /\ pc' \in [Run -> {"idle", "start", "admitted", "queued", "create"}]
        /\ copy' \in [Run -> Status]
        /\ fresh' \in [Run -> BOOLEAN]
    BY <1>5 DEF Crash
  <2>5. UNCHANGED <<status, job, probe, events, view, misread>> /\ synced' = FALSE
    BY <1>5 DEF Crash, apiVars
  <2>. QED BY <2>1, <2>2, <2>3, <2>4, <2>5 DEF TypeOK
<1>6. CASE Relist
  BY <1>6 DEF Relist, TypeOK, apiVars, passVars
<1>7. ASSUME NEW r \in Run, Begin(r) PROVE TypeOK'
  BY <1>7 DEF Begin, Fault, TypeOK, apiVars
<1>8. ASSUME NEW r \in Run, Abort(r) PROVE TypeOK'
  BY <1>8, EndPassType DEF Abort, Fault, TypeOK, apiVars
<1>9. ASSUME NEW r \in Run, Hold(r) PROVE TypeOK'
  BY <1>9, EndPassType, WriteStatusType DEF Hold, TypeOK
<1>10. ASSUME NEW r \in Run, Refuse(r) PROVE TypeOK'
  BY <1>10, WriteStatusType DEF Refuse, TypeOK
<1>11. ASSUME NEW r \in Run, Decide(r) PROVE TypeOK'
  <2>1. held' \in [Run -> 0 .. NoRes]
    <3>1. NoRes \in Nat /\ passAge[r] \in 0 .. NoRes
      BY DEF TypeOK, NoRes, MaxAge
    <3>2. Pruned(r) \in [Run -> 0 .. NoRes]
      BY <3>1 DEF TypeOK, Pruned
    <3>. QED BY <1>11, <3>1, <3>2 DEF Decide
  <2>2. pc' \in [Run -> {"idle", "start", "admitted", "queued", "create"}]
    BY <1>11 DEF Decide, TypeOK, Continue
  <2>. QED BY <1>11, <2>1, <2>2 DEF Decide, Continue, NoteMisread, TypeOK, apiVars
<1>12. ASSUME NEW r \in Run, RecordAdmission(r) PROVE TypeOK'
  BY <1>12, WriteStatusType DEF RecordAdmission, TypeOK
<1>13. ASSUME NEW r \in Run, RecordQueued(r) PROVE TypeOK'
  BY <1>13, EndPassType, WriteStatusType DEF RecordQueued, TypeOK
<1>14. ASSUME NEW r \in Run, Resume(r) PROVE TypeOK'
  BY <1>14 DEF Resume, Continue, NoteMisread, TypeOK, apiVars
<1>15. ASSUME NEW r \in Run, Discover(r) PROVE TypeOK'
  BY <1>15, EndPassType DEF Discover, TypeOK
<1>16. ASSUME NEW r \in Run, Freeze(r) PROVE TypeOK'
  BY <1>16, WriteStatusType DEF Freeze, TypeOK
<1>17. ASSUME NEW r \in Run, CreateJob(r) PROVE TypeOK'
  BY <1>17, EndPassType, WriteStatusType DEF CreateJob, TypeOK
<1>18. ASSUME NEW r \in Run, HoldMaterialization(r) PROVE TypeOK'
  BY <1>18, WriteStatusType DEF HoldMaterialization, TypeOK
<1>19. ASSUME NEW r \in Run, ObserveRunning(r) PROVE TypeOK'
  BY <1>19, WriteStatusType DEF ObserveRunning, TypeOK
<1>20. ASSUME NEW r \in Run, ObserveFinished(r) PROVE TypeOK'
  BY <1>20, WriteStatusType DEF ObserveFinished, TypeOK
<1>21. CASE UNCHANGED vars
  BY <1>21 DEF vars, TypeOK
<1>. QED
  BY <1>1, <1>2, <1>3, <1>4, <1>5, <1>6, <1>7, <1>8, <1>9, <1>10, <1>11, <1>12,
     <1>13, <1>14, <1>15, <1>16, <1>17, <1>18, <1>19, <1>20, <1>21
     DEF Next, Pass

\* Every variable keeps its type, in every behaviour.
THEOREM TypeCorrect == Spec => []TypeOK
BY InitTypeOK, NextTypeOK, PTL DEF Spec

(***************************************************************************)
(* How a step changes the API server's objects and the watch               *)
(***************************************************************************)

\* Everything but Deliver, Tick, Relist and Crash either stores one status or
\* leaves the objects and the watch alone.
Quiet == UNCHANGED <<status, events, view, synced>>

Stores(r, s) == Store(r, s) /\ UNCHANGED <<view, synced>>

LEMMA WriteShape ==
    ASSUME NEW r \in Run, NEW s \in Status, NEW to, WriteStatus(r, s, to)
    PROVE  UNCHANGED <<status, events>> \/ Store(r, s)
BY DEF WriteStatus

LEMMA PassShape ==
    ASSUME NEW r \in Run, Submit(r) \/ Delete(r) \/ Pass(r)
    PROVE  Quiet \/ \E s \in Status : Stores(r, s)
<1>. USE StatusMembers, WriteShape DEF Quiet, Stores
<1>1. CASE Submit(r) \/ Delete(r)
  BY <1>1 DEF Submit, Delete
<1>2. CASE Begin(r) \/ Abort(r) \/ Decide(r) \/ Resume(r) \/ Discover(r)
  BY <1>2 DEF Begin, Abort, Decide, Resume, Discover, apiVars
<1>3. CASE Hold(r) \/ Refuse(r)
  BY <1>3 DEF Hold, Refuse
<1>4. CASE RecordAdmission(r) \/ RecordQueued(r) \/ Freeze(r)
  BY <1>4 DEF RecordAdmission, RecordQueued, Freeze
<1>5. CASE CreateJob(r) \/ HoldMaterialization(r)
  BY <1>5 DEF CreateJob, HoldMaterialization
<1>6. CASE ObserveRunning(r) \/ ObserveFinished(r)
  BY <1>6 DEF ObserveRunning, ObserveFinished
<1>. QED BY <1>1, <1>2, <1>3, <1>4, <1>5, <1>6 DEF Pass

\* The undelivered events, one by one.
LEMMA EventsTyped ==
    ASSUME TypeOK
    PROVE  /\ Len(events) \in Nat
           /\ DOMAIN events = 1 .. Len(events)
           /\ \A i \in DOMAIN events : /\ events[i].run \in Run
                                       /\ events[i].status \in Status
                                       /\ events[i].age \in Nat
<1>1. /\ Len(events) \in Nat
      /\ DOMAIN events = 1 .. Len(events)
      /\ \A i \in DOMAIN events : events[i] \in Event
  BY DEF TypeOK
<1>. QED BY <1>1 DEF Event

\* What one stored status does to the undelivered events.
LEMMA StoreEvents ==
    ASSUME TypeOK, NEW r \in Run, NEW s \in Status, Store(r, s)
    PROVE  /\ Len(events) \in Nat
           /\ DOMAIN events = 1 .. Len(events)
           /\ DOMAIN events' = 1 .. Len(events) + 1
           /\ \A i \in DOMAIN events : events'[i] = events[i]
           /\ events'[Len(events) + 1] = [run |-> r, status |-> s, age |-> 0]
<1>1. events \in Seq(Event)
  BY DEF TypeOK
<1> DEFINE e == [run |-> r, status |-> s, age |-> 0]
<1>2. e \in Event
  BY DEF Event
<1>3. events' = Append(events, e)
  BY DEF Store
<1> HIDE DEF e
<1>4. /\ Len(events') = Len(events) + 1
      /\ \A i \in 1 .. Len(events) : events'[i] = events[i]
      /\ events'[Len(events) + 1] = e
      /\ events' \in Seq(Event)
  BY <1>1, <1>2, <1>3, AppendProperties
<1>5. /\ Len(events) \in Nat /\ DOMAIN events = 1 .. Len(events)
      /\ DOMAIN events' = 1 .. Len(events')
  BY <1>1, <1>4
<1>. QED BY <1>4, <1>5 DEF e

LEMMA StoreUnseen ==
    ASSUME TypeOK, NEW r \in Run, NEW s \in Status, Store(r, s), NEW q \in Run
    PROVE  /\ q # r => Unseen(q)' = Unseen(q)
           /\ q = r => Unseen(q)' = Unseen(q) \cup {Len(events) + 1}
<1>1. /\ Len(events) \in Nat
      /\ DOMAIN events = 1 .. Len(events)
      /\ DOMAIN events' = 1 .. Len(events) + 1
      /\ \A i \in DOMAIN events : events'[i] = events[i]
      /\ events'[Len(events) + 1] = [run |-> r, status |-> s, age |-> 0]
  BY StoreEvents
<1>2. events'[Len(events) + 1].run = r
  BY <1>1
<1>3. \A i : i \in DOMAIN events' <=> i \in DOMAIN events \/ i = Len(events) + 1
  BY <1>1
<1>. QED BY <1>1, <1>2, <1>3 DEF Unseen

\* What delivering the oldest event does to them.
LEMMA DeliverEvents ==
    ASSUME TypeOK, Deliver
    PROVE  /\ Len(events) \in Nat \ {0}
           /\ DOMAIN events = 1 .. Len(events)
           /\ DOMAIN events' = 1 .. Len(events) - 1
           /\ \A i \in DOMAIN events' : events'[i] = events[i + 1]
           /\ events[1] \in Event
           /\ view' = [view EXCEPT ![events[1].run] = events[1].status]
<1>1. events \in Seq(Event) /\ events # <<>>
  BY DEF TypeOK, Deliver
<1>2. Len(events) \in Nat \ {0} /\ DOMAIN events = 1 .. Len(events)
  BY <1>1, EmptySeq, LenProperties
<1>3. /\ Head(events) = events[1]
      /\ Len(Tail(events)) = Len(events) - 1
      /\ \A i \in 1 .. Len(Tail(events)) : Tail(events)[i] = events[i + 1]
      /\ Tail(events) \in Seq(Event)
  BY <1>1, HeadTailProperties
<1>4. DOMAIN Tail(events) = 1 .. Len(events) - 1
  BY <1>3, LenProperties
<1>5. events[1] \in Event
  BY <1>1, <1>2, ElementOfSeq
<1>. QED BY <1>2, <1>3, <1>4, <1>5 DEF Deliver

\* The age of events does not matter to who they are about.
LEMMA TickEvents ==
    ASSUME TypeOK, Tick
    PROVE  /\ DOMAIN events' = DOMAIN events
           /\ \A i \in DOMAIN events :
                 /\ events'[i].run = events[i].run
                 /\ events'[i].status = events[i].status
                 /\ events'[i].age = events[i].age + 1
           /\ \A q \in Run : Unseen(q)' = Unseen(q)
<1>1. \A i \in DOMAIN events : events[i] \in Event
  BY DEF TypeOK
<1>. QED BY <1>1 DEF Tick, Event, Unseen

(***************************************************************************)
(* The watch delivers in order                                             *)
(***************************************************************************)

LEMMA WatchInOrderStep ==
    ASSUME TypeOK, WatchInOrder, [Next]_vars
    PROVE  WatchInOrder'
<1>1. CASE Quiet
  BY <1>1 DEF Quiet, WatchInOrder, Unseen
<1>2. ASSUME NEW r \in Run, NEW s \in Status, Stores(r, s) PROVE WatchInOrder'
  <2>. DEFINE new == Len(events) + 1
  <2>1. status' = [status EXCEPT ![r] = s] /\ view' = view /\ synced' = synced
    BY <1>2 DEF Stores, Store
  <2>a. /\ Len(events) \in Nat
        /\ DOMAIN events = 1 .. Len(events)
        /\ DOMAIN events' = 1 .. Len(events) + 1
        /\ \A i \in DOMAIN events : events'[i] = events[i]
        /\ events'[Len(events) + 1] = [run |-> r, status |-> s, age |-> 0]
    BY <1>2, StoreEvents DEF Stores
  <2>b. status \in [Run -> Status] /\ \A i \in DOMAIN events : events[i].run \in Run
    BY EventsTyped DEF TypeOK
  <2>c. /\ new \in DOMAIN events' /\ events'[new].run = r
        /\ events'[new].status = s /\ status'[r] = s
        /\ \A i \in DOMAIN events : i \in DOMAIN events' /\ new > i
        /\ \A i \in DOMAIN events' : i = new \/ i \in DOMAIN events
    BY <2>1, <2>a, <2>b
  <2>2. ASSUME NEW i \in DOMAIN events'
        PROVE  \/ \E j \in DOMAIN events' : j > i /\ events'[j].run = events'[i].run
               \/ events'[i].status = status'[events'[i].run]
    <3>2. CASE i = new
      BY <2>c, <3>2
    <3>3. CASE i \in DOMAIN events
      <4>1. events'[i] = events[i]
        BY <2>a, <3>3
      <4>2. CASE events[i].run = r
        BY <2>c, <3>3, <4>1, <4>2
      <4>3. CASE events[i].run # r /\ events[i].status = status[events[i].run]
        BY <2>1, <2>b, <3>3, <4>1, <4>3
      <4>4. ASSUME NEW j \in DOMAIN events, j > i, events[j].run = events[i].run
            PROVE  \E k \in DOMAIN events' : k > i /\ events'[k].run = events'[i].run
        BY <2>a, <2>c, <4>1, <4>4
      <4>. QED BY <3>3, <4>1, <4>2, <4>3, <4>4 DEF WatchInOrder
    <3>. QED BY <2>c, <3>2, <3>3
  <2>3. ASSUME synced', NEW q \in Run, Unseen(q)' = {} PROVE view'[q] = status'[q]
    <3>1. q # r /\ Unseen(q) = {}
      BY <1>2, <2>3, StoreUnseen DEF Stores
    <3>. QED BY <2>1, <2>3, <2>b, <3>1 DEF WatchInOrder
  <2>. QED BY <2>2, <2>3 DEF WatchInOrder
<1>3. CASE Deliver
  <2>1. status' = status /\ synced' = synced
    BY <1>3 DEF Deliver, apiVars
  <2>2. ASSUME NEW i \in DOMAIN events'
        PROVE  \/ \E j \in DOMAIN events' : j > i /\ events'[j].run = events'[i].run
               \/ events'[i].status = status'[events'[i].run]
    <3>1. i + 1 \in DOMAIN events /\ events'[i] = events[i + 1]
      BY <1>3, DeliverEvents
    <3>2. CASE events[i + 1].status = status[events[i + 1].run]
      BY <2>1, <3>1, <3>2
    <3>3. CASE \E j \in DOMAIN events : j > i + 1 /\ events[j].run = events[i + 1].run
      <4>1. PICK j \in DOMAIN events : j > i + 1 /\ events[j].run = events[i + 1].run
        BY <3>3
      <4>2. j - 1 \in DOMAIN events' /\ j - 1 > i /\ events'[j - 1] = events[j]
        BY <1>3, <4>1, DeliverEvents
      <4>. QED BY <3>1, <4>1, <4>2
    <3>. QED BY <3>1, <3>2, <3>3 DEF WatchInOrder
  <2>3. ASSUME NEW q \in Run, Unseen(q)' = {} PROVE view'[q] = status'[q]
    <3>1. \A j \in DOMAIN events : j > 1 => events[j].run # q
      <4>1. ASSUME NEW j \in DOMAIN events, j > 1, events[j].run = q PROVE FALSE
        <5>1. j - 1 \in DOMAIN events' /\ events'[j - 1] = events[j]
          BY <1>3, <4>1, DeliverEvents
        <5>. QED BY <2>3, <4>1, <5>1 DEF Unseen
      <4>. QED BY <4>1
    <3>2. CASE events[1].run = q
      <4>1. events[1].status = status[q]
        BY <1>3, <3>1, <3>2, DeliverEvents DEF WatchInOrder
      <4>. QED BY <1>3, <2>1, <3>2, <4>1, DeliverEvents DEF TypeOK
    <3>3. CASE events[1].run # q
      <4>1. Unseen(q) = {}
        BY <1>3, <3>1, <3>3, DeliverEvents DEF Unseen
      <4>. QED BY <1>3, <2>1, <3>3, <4>1, DeliverEvents DEF TypeOK, WatchInOrder, Deliver
    <3>. QED BY <3>2, <3>3
  <2>. QED BY <2>2, <2>3 DEF WatchInOrder
<1>4. CASE Tick
  <2>1. status' = status /\ view' = view /\ synced' = synced
    BY <1>4 DEF Tick, apiVars
  <2>. QED BY <1>4, <2>1, TickEvents DEF WatchInOrder
<1>5. CASE Crash
  BY <1>5 DEF Crash, WatchInOrder, apiVars
<1>6. CASE Relist
  BY <1>6 DEF Relist, WatchInOrder, apiVars
<1>7. CASE UNCHANGED vars
  BY <1>1, <1>7 DEF vars, Quiet
<1>. QED BY <1>1, <1>2, <1>3, <1>4, <1>5, <1>6, <1>7, PassShape DEF Next

-----------------------------------------------------------------------------
(***************************************************************************)
(* Why the ceiling of the manual-run pool holds, for any set of runs, any  *)
(* ceiling and any delays, as long as the pass and the watch together take *)
(* no longer than the reservation lives (DelayAssumption).  Nothing is     *)
(* assumed of the copy a pass is handed: a run that a pass misread is      *)
(* written down (misread), and the argument is about all the others.       *)
(***************************************************************************)

(***************************************************************************)
(* What a step of run r leaves alone                                       *)
(***************************************************************************)

SameRun(q) ==
    /\ status'[q] = status[q] /\ job'[q] = job[q]
    /\ pc'[q] = pc[q] /\ copy'[q] = copy[q]
    /\ fresh'[q] = fresh[q] /\ passAge'[q] = passAge[q]
    /\ q \in misread' <=> q \in misread

Others(r) == \A q \in Run \ {r} : SameRun(q)

LEMMA StoreOthers ==
    ASSUME TypeOK, NEW r \in Run, NEW s \in Status, Store(r, s)
    PROVE  \A q \in Run \ {r} : status'[q] = status[q]
BY DEF TypeOK, Store

LEMMA EndPassOthers ==
    ASSUME TypeOK, NEW r \in Run, EndPass(r)
    PROVE  \A q \in Run \ {r} : /\ pc'[q] = pc[q] /\ copy'[q] = copy[q]
                                /\ fresh'[q] = fresh[q] /\ passAge'[q] = passAge[q]
BY DEF TypeOK, EndPass

LEMMA WriteStatusOthers ==
    ASSUME TypeOK, NEW r \in Run, NEW s \in Status, NEW to, WriteStatus(r, s, to)
    PROVE  \A q \in Run \ {r} : /\ status'[q] = status[q]
                                /\ pc'[q] = pc[q] /\ copy'[q] = copy[q]
                                /\ fresh'[q] = fresh[q] /\ passAge'[q] = passAge[q]
<1>1. CASE fresh[r] /\ to = "idle"
  BY <1>1, StoreOthers, EndPassOthers DEF WriteStatus
<1>2. CASE fresh[r] /\ to # "idle"
  BY <1>2, StoreOthers DEF WriteStatus, TypeOK
<1>3. CASE ~fresh[r]
  BY <1>3, EndPassOthers DEF WriteStatus
<1>. QED BY <1>1, <1>2, <1>3

LEMMA StepFrame ==
    ASSUME TypeOK, NEW r \in Run, Submit(r) \/ Delete(r) \/ Pass(r)
    PROVE  /\ Others(r)
           /\ view' = view /\ synced' = synced
           /\ held' = held \/ Decide(r)
           /\ misread \subseteq misread'
           /\ misread' = misread \/ Decide(r) \/ Resume(r)
<1>. USE StatusMembers DEF Others, SameRun
<1>1. CASE Submit(r)
  BY <1>1, StoreOthers DEF Submit, passVars
<1>2. CASE Delete(r)
  BY <1>2, StoreOthers DEF Delete, TypeOK
<1>3. CASE Begin(r)
  BY <1>3 DEF Begin, TypeOK, apiVars
<1>4. CASE Abort(r)
  BY <1>4, EndPassOthers DEF Abort, apiVars
<1>5. CASE Hold(r)
  BY <1>5, EndPassOthers, WriteStatusOthers DEF Hold
<1>6. CASE Refuse(r)
  BY <1>6, WriteStatusOthers DEF Refuse
<1>7. CASE Decide(r)
  BY <1>7 DEF Decide, Continue, NoteMisread, TypeOK, apiVars
<1>8. CASE RecordAdmission(r)
  BY <1>8, WriteStatusOthers DEF RecordAdmission
<1>9. CASE RecordQueued(r)
  BY <1>9, EndPassOthers, WriteStatusOthers DEF RecordQueued
<1>10. CASE Resume(r)
  BY <1>10 DEF Resume, Continue, NoteMisread, TypeOK, apiVars
<1>11. CASE Discover(r)
  BY <1>11, EndPassOthers DEF Discover
<1>12. CASE Freeze(r)
  BY <1>12, WriteStatusOthers DEF Freeze
<1>13. CASE CreateJob(r)
  BY <1>13, WriteStatusOthers, EndPassOthers DEF CreateJob, TypeOK
<1>14. CASE HoldMaterialization(r)
  BY <1>14, WriteStatusOthers DEF HoldMaterialization
<1>15. CASE ObserveRunning(r)
  BY <1>15, WriteStatusOthers DEF ObserveRunning
<1>16. CASE ObserveFinished(r)
  BY <1>16, WriteStatusOthers DEF ObserveFinished
<1>. QED
  BY <1>1, <1>2, <1>3, <1>4, <1>5, <1>6, <1>7, <1>8, <1>9, <1>10, <1>11, <1>12,
     <1>13, <1>14, <1>15, <1>16 DEF Pass

LEMMA EventsFrame ==
    ASSUME TypeOK, NEW r \in Run, Submit(r) \/ Delete(r) \/ Pass(r),
           NEW q \in Run \ {r}
    PROVE  /\ Unseen(q)' = Unseen(q)
           /\ \A i \in Unseen(q) : events'[i] = events[i]
<1>1. CASE Quiet
  BY <1>1 DEF Quiet, Unseen
<1>2. ASSUME NEW s \in Status, Store(r, s)
      PROVE  /\ Unseen(q)' = Unseen(q)
             /\ \A i \in Unseen(q) : events'[i] = events[i]
  <2>1. Unseen(q)' = Unseen(q)
    BY <1>2, StoreUnseen
  <2>2. \A i \in DOMAIN events : events'[i] = events[i]
    BY <1>2, StoreEvents
  <2>. QED BY <2>1, <2>2 DEF Unseen
<1>. QED BY <1>1, <1>2, PassShape DEF Stores

(***************************************************************************)
(* A reservation that is still needed survives every decision              *)
(***************************************************************************)

\* r holds or is about to hold a slot, and the store does not say so.
Needed(r) ==
    \/ pc[r] = "admitted" /\ fresh[r]
    \/ status[r] \in Occupying /\ view[r] \notin Occupying /\ r \notin misread

LEMMA YoungIsKept ==
    ASSUME NEW r \in Run, NEW q \in Run, passAge[r] \in 0 .. PassDelay,
           held[q] \in 0 .. NoRes, held[q] <= TTL,
           view[q] \in Waiting \cup {"Pending"}
    PROVE  Keep(r, q)
<1>1. Reserved(held, q) /\ held[q] <= TTL + passAge[r]
  BY DEF Reserved, NoRes, MaxAge
<1>2. Listed(q) /\ view[q] \notin Occupying \cup {"Finished"}
  BY DEF Listed, Waiting, Gone, Occupying
<1>. QED BY <1>1, <1>2 DEF Keep

\* decide() keeps it for every candidate: it is young enough, and the store
\* still lists the run as one that holds nothing.
LEMMA NeededIsKept ==
    ASSUME IInv, synced, NEW r \in Run, NEW q \in Run, Needed(q)
    PROVE  Keep(r, q) /\ view[q] \in Waiting \cup {"Pending"}
<1>. /\ passAge[r] \in 0 .. PassDelay /\ passAge[q] \in 0 .. PassDelay
     /\ held[q] \in 0 .. NoRes /\ view \in [Run -> Status] /\ copy \in [Run -> Status]
  BY DEF IInv, TypeOK
<1>1. CASE pc[q] = "admitted" /\ fresh[q]
  <2>1. PassOwns(q)
    BY DEF IInv, PassOwnsItsRun
  <2>2. Unseen(q) = {} /\ held[q] = passAge[q]
    BY <1>1, <2>1 DEF PassOwns
  <2>3. view[q] = copy[q]
    BY <1>1, <2>1, <2>2 DEF IInv, WatchInOrder, PassOwns
  <2>4. view[q] \in Waiting \cup {"Pending"}
    BY <1>1, <2>1, <2>3 DEF PassOwns, Status
  <2>. QED BY <2>2, <2>4, YoungIsKept
<1>2. CASE status[q] \in Occupying /\ view[q] \notin Occupying /\ q \notin misread
  <2>1. view[q] \in Waiting \cup {"Pending"}
    BY <1>2 DEF IInv, Covered, CoveredRun
  <2>2. Unseen(q) # {}
    BY <1>2 DEF IInv, WatchInOrder
  <2>3. PICK i \in Unseen(q) : held[q] <= events[i].age + PassDelay
    BY <1>2, <2>2 DEF IInv, Covered, CoveredRun
  <2>4. events[i].age \in 0 .. WatchDelay
    <3>1. events[i] \in Event
      BY DEF IInv, TypeOK, Unseen
    <3>. QED BY <3>1 DEF Event
  <2>5. held[q] <= TTL
    BY <2>3, <2>4
  <2>. QED BY <2>1, <2>5, YoungIsKept
<1>. QED BY <1>1, <1>2 DEF Needed

LEMMA HeldFrame ==
    ASSUME IInv, synced, NEW r \in Run, Submit(r) \/ Delete(r) \/ Pass(r),
           NEW q \in Run \ {r}, Needed(q)
    PROVE  held'[q] = held[q]
<1>1. CASE held' = held
  BY <1>1
<1>2. CASE Decide(r)
  <2>1. Pruned(r)[q] = held[q]
    BY NeededIsKept DEF Pruned
  <2>2. held'[q] = Pruned(r)[q]
    BY <1>2 DEF Decide, Pruned
  <2>. QED BY <2>1, <2>2
<1>. QED BY <1>1, <1>2, StepFrame DEF IInv

(***************************************************************************)
(* One run's share of the invariant                                        *)
(***************************************************************************)

Counted(r) == job[r] /\ r \notin misread => status[r] \in Occupying \cup {"Finished"}

RunOK(r) == PassOwns(r) /\ Steady(r) /\ CoveredRun(r) /\ Counted(r)

LEMMA RunsOK == IInv => \A r \in Run : RunOK(r)
BY DEF IInv, PassOwnsItsRun, OccupyingIsSteady, Covered, JobsAreCounted, Counted, RunOK

\* A step of r leaves every other run's share alone.
LEMMA OthersOK ==
    ASSUME IInv, NEW r \in Run, Submit(r) \/ Delete(r) \/ Pass(r),
           NEW q \in Run \ {r}
    PROVE  RunOK(q)'
<1>1. TypeOK /\ RunOK(q)
  BY RunsOK DEF IInv
<1>2. SameRun(q) /\ view' = view /\ synced' = synced
  BY <1>1, StepFrame DEF Others
<1>3. /\ Unseen(q)' = Unseen(q)
      /\ \A i \in Unseen(q) : events'[i] = events[i]
  BY <1>1, EventsFrame
<1>4. synced /\ Needed(q) => held'[q] = held[q]
  BY HeldFrame
<1>5. PassOwns(q)'
  BY <1>1, <1>2, <1>3, <1>4 DEF RunOK, PassOwns, SameRun, Needed
<1>6. Steady(q)'
  BY <1>1, <1>2, <1>3 DEF RunOK, Steady, SameRun
<1>7. CoveredRun(q)'
  BY <1>1, <1>2, <1>3, <1>4 DEF RunOK, CoveredRun, SameRun, Needed
<1>8. Counted(q)'
  BY <1>1, <1>2 DEF RunOK, Counted, SameRun
<1>. QED BY <1>5, <1>6, <1>7, <1>8 DEF RunOK

\* A status write by the run's own pass, as far as the watch and the
\* reservations are concerned.
LEMMA OwnWrite ==
    ASSUME IInv, NEW r \in Run, NEW s \in Status, Store(r, s),
           view' = view, synced' = synced, held' = held, misread' = misread,
           s \in Occupying => status[r] \in Occupying \/ Unseen(r) = {},
           s \in Occupying /\ view[r] \notin Occupying /\ r \notin misread =>
               view[r] \in Waiting \cup {"Pending"} /\ held[r] <= PassDelay
    PROVE  Steady(r)' /\ CoveredRun(r)' /\ status'[r] = s
<1>. DEFINE new == Len(events) + 1
<1>1. TypeOK /\ RunOK(r)
  BY RunsOK DEF IInv
<1>2. status'[r] = s
  BY <1>1 DEF Store, TypeOK
<1>3. Unseen(r)' = Unseen(r) \cup {new}
  BY <1>1, StoreUnseen
<1>a. /\ \A i \in DOMAIN events : events'[i] = events[i]
      /\ events'[new] = [run |-> r, status |-> s, age |-> 0]
  BY <1>1, StoreEvents
<1>4. /\ \A i \in Unseen(r) : events'[i] = events[i]
      /\ events'[new].status = s /\ events'[new].age = 0
  BY <1>a DEF Unseen
<1>5. Steady(r)'
  BY <1>1, <1>2, <1>3, <1>4 DEF RunOK, Steady
<1>6. ASSUME synced, s \in Occupying, view[r] \notin Occupying, r \notin misread, NEW i \in Unseen(r)'
      PROVE  held[r] <= events'[i].age + PassDelay
  <2>1. CASE i = new
    BY <1>4, <1>6, <2>1
  <2>2. CASE i \in Unseen(r)
    BY <1>1, <1>4, <1>6, <2>2 DEF RunOK, CoveredRun
  <2>. QED BY <1>3, <1>6, <2>1, <2>2
<1>7. CoveredRun(r)'
  BY <1>2, <1>6 DEF CoveredRun
<1>. QED BY <1>2, <1>5, <1>7

\* A step that writes nothing.
LEMMA OwnQuiet ==
    ASSUME IInv, NEW r \in Run, UNCHANGED <<status, events, view, synced>>,
           misread \subseteq misread',
           status[r] \in Occupying => held'[r] = held[r] \/ r \in misread'
    PROVE  Steady(r)' /\ CoveredRun(r)' /\ status'[r] = status[r]
<1>1. RunOK(r)
  BY RunsOK
<1>2. Unseen(r)' = Unseen(r)
  BY DEF Unseen
<1>. QED BY <1>1, <1>2 DEF RunOK, Steady, CoveredRun

\* A write that ends the pass: the version it was made on decides whether it
\* lands.
LEMMA LastWrite ==
    ASSUME IInv, NEW r \in Run, NEW s \in Status, pc[r] # "idle",
           WriteStatus(r, s, "idle"),
           view' = view, synced' = synced, held' = held, misread' = misread,
           s \in Occupying => status[r] \in Occupying \/ Unseen(r) = {},
           s \in Occupying /\ view[r] \notin Occupying /\ r \notin misread =>
               view[r] \in Waiting \cup {"Pending"} /\ held[r] <= PassDelay
    PROVE  /\ PassOwns(r)' /\ Steady(r)' /\ CoveredRun(r)'
           /\ \/ status'[r] = s
              \/ ~fresh[r] /\ status' = status
<1>1. TypeOK /\ PassOwns(r)
  BY DEF IInv, PassOwnsItsRun
<1>2. pc'[r] = "idle"
  BY <1>1 DEF WriteStatus, EndPass, TypeOK
<1>3. PassOwns(r)'
  BY <1>2 DEF PassOwns
<1>4. CASE fresh[r]
  BY <1>3, <1>4, OwnWrite DEF WriteStatus
<1>5. CASE ~fresh[r]
  <2>1. UNCHANGED <<status, events>>
    BY <1>5 DEF WriteStatus
  <2>. QED BY <1>1, <1>3, <1>5, <2>1, OwnQuiet DEF PassOwns
<1>. QED BY <1>4, <1>5

\* A write after which the pass goes on.
LEMMA NextWrite ==
    ASSUME IInv, NEW r \in Run, NEW s \in Occupying,
           pc[r] \in {"admitted", "create"}, WriteStatus(r, s, "create"),
           view' = view, synced' = synced, held' = held, job' = job, misread' = misread
    PROVE  RunOK(r)'
<1>1. TypeOK /\ RunOK(r)
  BY RunsOK DEF IInv
<1>2. PassOwns(r)
  BY <1>1 DEF RunOK
<1>3. s \in Status
  BY StatusMembers
<1>4. CASE fresh[r]
  <2>1. Store(r, s)
    BY <1>4 DEF WriteStatus
  <2>2. status[r] \in Occupying \/ Unseen(r) = {}
    BY <1>2, <1>4 DEF PassOwns
  <2>3. /\ passAge[r] <= PassDelay
        /\ view[r] \notin Occupying /\ r \notin misread => held[r] = passAge[r]
    BY <1>1, <1>2, <1>4 DEF PassOwns, TypeOK
  <2>4. view[r] \notin Occupying /\ r \notin misread => view[r] \in Waiting \cup {"Pending"}
    <3>1. CASE pc[r] = "admitted"
      BY <1>4, <3>1, <1>2, NeededIsKept DEF Needed, PassOwns
    <3>2. CASE pc[r] = "create" /\ view[r] \notin Occupying /\ r \notin misread
      BY <1>4, <3>2, <1>2, NeededIsKept DEF Needed, PassOwns
    <3>. QED BY <3>1, <3>2
  <2>5. Steady(r)' /\ CoveredRun(r)' /\ status'[r] = s
    BY <1>3, <2>1, <2>2, <2>3, <2>4, OwnWrite
  <2>6. /\ pc'[r] = "create" /\ copy'[r] = s
        /\ fresh' = fresh /\ passAge' = passAge
    BY <1>1, <1>4 DEF WriteStatus, TypeOK
  <2>7. s \notin Gone \cup {"Finished"}
    BY DEF Occupying, Gone
  <2>8. PassOwns(r)'
    BY <1>2, <1>4, <2>3, <2>5, <2>6, <2>7 DEF PassOwns
  <2>9. Counted(r)'
    BY <2>5 DEF Counted
  <2>. QED BY <2>5, <2>8, <2>9 DEF RunOK
<1>5. CASE ~fresh[r]
  <2>1. UNCHANGED <<status, events>> /\ pc'[r] = "idle"
    BY <1>1, <1>5 DEF WriteStatus, EndPass, TypeOK
  <2>2. Steady(r)' /\ CoveredRun(r)'
    BY <2>1, OwnQuiet
  <2>3. PassOwns(r)' /\ Counted(r)'
    BY <1>1, <2>1 DEF PassOwns, Counted, RunOK
  <2>. QED BY <2>2, <2>3 DEF RunOK
<1>. QED BY <1>4, <1>5

(***************************************************************************)
(* A step of r keeps r's own share                                         *)
(***************************************************************************)

\* A step that ends the pass and writes nothing.
LEMMA QuietEnd ==
    ASSUME IInv, NEW r \in Run, EndPass(r), job'[r] = job[r], held' = held,
           UNCHANGED <<status, events, view, synced, misread>>
    PROVE  RunOK(r)'
<1>1. TypeOK /\ RunOK(r)
  BY RunsOK DEF IInv
<1>2. pc'[r] = "idle"
  BY <1>1 DEF EndPass, TypeOK
<1>3. PassOwns(r)'
  BY <1>2 DEF PassOwns
<1>4. Counted(r)'
  BY <1>1 DEF RunOK, Counted
<1>. QED BY <1>3, <1>4, OwnQuiet DEF RunOK

\* A pass of a run without a Job writes that it holds no slot, and ends.
LEMMA PlainEnd ==
    ASSUME IInv, NEW r \in Run, NEW s \in Status \ Occupying, pc[r] # "idle", ~job[r],
           WriteStatus(r, s, "idle"),
           view' = view, synced' = synced, held' = held, job' = job, misread' = misread
    PROVE  RunOK(r)'
BY LastWrite DEF RunOK, Counted

LEMMA PassOK ==
    ASSUME IInv, NEW r \in Run, Pass(r)
    PROVE  RunOK(r)'
<1>. USE StatusMembers
<1>a. /\ TypeOK /\ PassOwns(r) /\ Counted(r)
      /\ job \in [Run -> BOOLEAN] /\ pc \in [Run -> {"idle", "start", "admitted", "queued", "create"}]
      /\ passAge[r] <= PassDelay
  BY RunsOK DEF IInv, RunOK, TypeOK
<1>b. /\ {"Pending", "Finished", "Queued"} \cap Occupying = {}
      /\ {"Admitted", "Frozen", "Running"} = Occupying
  BY DEF Occupying
<1>1. CASE Begin(r)
  <2>1. /\ synced /\ view[r] \notin Gone \cup {"Finished"}
        /\ pc'[r] = "start" /\ copy'[r] = view[r] /\ fresh'[r] = (Unseen(r) = {})
        /\ UNCHANGED <<status, job, events, view, held, synced, misread>>
    BY <1>1, <1>a DEF Begin, TypeOK, apiVars, Listed
  <2>2. /\ Unseen(r)' = Unseen(r)
        /\ Unseen(r) = {} => view[r] = status[r]
    BY <2>1 DEF IInv, WatchInOrder, Unseen
  <2>3. PassOwns(r)'
    BY <2>1, <2>2 DEF PassOwns
  <2>. QED BY <1>a, <2>1, <2>3, OwnQuiet DEF RunOK, Counted
<1>2. CASE Abort(r)
  BY <1>2, QuietEnd DEF Abort, apiVars
<1>3. CASE Hold(r)
  BY <1>3, <1>a, <1>b, QuietEnd, PlainEnd DEF Hold, NothingRuns
<1>4. CASE Refuse(r)
  <2>1. pc[r] # "idle"
    BY <1>4 DEF Refuse, NothingRuns
  <2>2. ~job[r]
    BY <1>4, <1>a DEF Refuse, NothingRuns, PassOwns
  <2>. QED BY <1>4, <1>b, <2>1, <2>2, PlainEnd DEF Refuse, Status
<1>5. CASE Decide(r)
  <2>1. /\ pc[r] = "start" /\ ~job[r] /\ copy[r] \notin Occupying
        /\ UNCHANGED <<status, job, events, view, synced, copy, fresh, passAge>>
        /\ \/ pc'[r] = "queued"
           \/ pc'[r] = "admitted" /\ held'[r] = passAge[r]
        /\ misread' = IF Misread(r) THEN misread \cup {r} ELSE misread
    BY <1>5, <1>a DEF Decide, Gated, NothingRuns, Continue, NoteMisread, apiVars, TypeOK, Pruned
  <2>2. /\ status[r] \in Occupying => r \in misread'
        /\ misread \subseteq misread'
    BY <2>1 DEF Misread
  <2>3. Unseen(r)' = Unseen(r)
    BY <2>1 DEF Unseen
  <2>4. PassOwns(r)'
    BY <1>a, <2>1, <2>3 DEF PassOwns
  <2>. QED BY <1>a, <2>1, <2>2, <2>4, OwnQuiet DEF RunOK, Counted
<1>6. CASE RecordAdmission(r)
  BY <1>6, <1>b, NextWrite DEF RecordAdmission
<1>7. CASE RecordQueued(r)
  BY <1>7, <1>a, <1>b, QuietEnd, PlainEnd DEF RecordQueued, PassOwns
<1>8. CASE Resume(r)
  <2>1. /\ pc[r] = "start" /\ ~job[r] /\ copy[r] \in Occupying /\ pc'[r] = "create"
        /\ UNCHANGED <<status, job, events, view, held, synced, copy, fresh, passAge>>
        /\ misread' = IF Misread(r) THEN misread \cup {r} ELSE misread
    BY <1>8, <1>a DEF Resume, NothingRuns, Continue, NoteMisread, apiVars
  <2>a. /\ status[r] \notin Occupying => r \in misread'
        /\ misread \subseteq misread'
    BY <2>1 DEF Misread
  <2>2. fresh[r] => view[r] \in Occupying
    BY <1>a, <2>1 DEF PassOwns, IInv, WatchInOrder
  <2>3. PassOwns(r)'
    BY <1>a, <2>1, <2>a, <2>2 DEF PassOwns
  <2>. QED BY <1>a, <2>1, <2>a, <2>3, OwnQuiet DEF RunOK, Counted
<1>9. CASE Discover(r)
  BY <1>9, QuietEnd DEF Discover
<1>10. CASE Freeze(r)
  BY <1>10, <1>b, NextWrite DEF Freeze
<1>11. CASE CreateJob(r)
  <2>1. /\ pc[r] = "create" /\ copy[r] \in Occupying
        /\ r \in misread \/ status[r] \in Occupying
        /\ fresh[r] => status[r] \in Occupying
    BY <1>11, <1>a DEF CreateJob, PassOwns, Gone
  <2>2. /\ view' = view /\ synced' = synced /\ held' = held /\ misread' = misread
        /\ \/ WriteStatus(r, "Running", "idle")
           \/ EndPass(r) /\ UNCHANGED <<status, events>>
    BY <1>11 DEF CreateJob
  <2>3. fresh[r] /\ view[r] \notin Occupying /\ r \notin misread =>
            view[r] \in Waiting \cup {"Pending"} /\ held[r] <= PassDelay
    <3>1. view[r] \notin Occupying /\ r \notin misread => view[r] \in Waiting \cup {"Pending"}
      BY <1>a, <2>1, NeededIsKept DEF Needed, PassOwns
    <3>. QED BY <1>a, <2>1, <3>1 DEF PassOwns
  <2>4. CASE fresh[r] /\ WriteStatus(r, "Running", "idle")
    <3>1. PassOwns(r)' /\ Steady(r)' /\ CoveredRun(r)' /\ status'[r] = "Running"
      BY <1>b, <2>1, <2>2, <2>3, <2>4, LastWrite DEF Occupying
    <3>. QED BY <1>b, <3>1 DEF RunOK, Counted
  <2>5. CASE EndPass(r) /\ UNCHANGED <<status, events>>
    <3>1. pc'[r] = "idle"
      BY <1>a, <2>5 DEF EndPass
    <3>2. Steady(r)' /\ CoveredRun(r)' /\ status'[r] = status[r]
      BY <2>2, <2>5, OwnQuiet
    <3>. QED BY <2>1, <2>2, <3>1, <3>2 DEF RunOK, PassOwns, Counted
  <2>6. CASE ~fresh[r] /\ WriteStatus(r, "Running", "idle")
    BY <2>5, <2>6 DEF WriteStatus
  <2>. QED BY <2>2, <2>4, <2>5, <2>6
<1>12. CASE HoldMaterialization(r)
  BY <1>12, <1>a, <1>b, PlainEnd DEF HoldMaterialization, PassOwns
<1>13. CASE ObserveRunning(r) \/ ObserveFinished(r)
  <2>1. /\ pc[r] = "start" /\ job[r]
        /\ UNCHANGED <<job, view, held, synced, misread>>
        /\ WriteStatus(r, "Running", "idle") \/ WriteStatus(r, "Finished", "idle")
    BY <1>13 DEF ObserveRunning, ObserveFinished
  <2>2. fresh[r] => /\ view[r] = status[r] /\ Unseen(r) = {}
                    /\ r \in misread \/ status[r] \in Occupying
    BY <1>a, <2>1 DEF PassOwns, Counted, IInv, WatchInOrder
  <2>3. CASE fresh[r]
    <3>1. /\ PassOwns(r)' /\ Steady(r)' /\ CoveredRun(r)'
          /\ status'[r] \in {"Running", "Finished"}
      BY <2>1, <2>2, <2>3, LastWrite DEF Occupying
    <3>. QED BY <1>b, <3>1 DEF RunOK, Counted
  <2>4. CASE ~fresh[r]
    BY <2>1, <2>4, QuietEnd DEF WriteStatus
  <2>. QED BY <2>3, <2>4
<1>. QED
  BY <1>1, <1>2, <1>3, <1>4, <1>5, <1>6, <1>7, <1>8, <1>9, <1>10, <1>11, <1>12,
     <1>13 DEF Pass

LEMMA UserOK ==
    ASSUME IInv, NEW r \in Run, Submit(r) \/ Delete(r)
    PROVE  RunOK(r)'
<1>. USE StatusMembers
<1>1. TypeOK /\ PassOwns(r) /\ Counted(r)
  BY RunsOK DEF IInv, RunOK
<1>2. CASE Submit(r)
  <2>1. /\ status[r] = "Absent" /\ Store(r, "New")
        /\ UNCHANGED <<job, view, held, synced, misread, passVars>>
    BY <1>2 DEF Submit
  <2>2. ~job[r] \/ r \in misread
    BY <1>1, <2>1 DEF Counted, Occupying
  <2>3. Steady(r)' /\ CoveredRun(r)'
    BY <2>1, OwnWrite DEF Occupying
  <2>4. PassOwns(r)'
    BY <1>1, <2>1, <2>3 DEF PassOwns, passVars, Gone, Occupying
  <2>. QED BY <2>1, <2>2, <2>3, <2>4 DEF RunOK, Counted
<1>3. CASE Delete(r)
  <2>1. /\ Store(r, "Deleted") /\ ~fresh'[r] /\ ~job'[r]
        /\ UNCHANGED <<view, held, synced, misread, pc, copy>>
    BY <1>1, <1>3 DEF Delete, TypeOK
  <2>2. Steady(r)' /\ CoveredRun(r)' /\ status'[r] = "Deleted"
    BY <2>1, OwnWrite DEF Occupying
  <2>. QED BY <1>1, <2>1, <2>2 DEF RunOK, PassOwns, Counted
<1>. QED BY <1>2, <1>3

LEMMA DeliverOK ==
    ASSUME IInv, Deliver, NEW q \in Run
    PROVE  RunOK(q)'
<1>1. TypeOK /\ RunOK(q)
  BY RunsOK DEF IInv
<1>2. /\ UNCHANGED <<status, job, held, pc, copy, fresh, passAge, synced, misread>> /\ synced
  BY DEF Deliver, apiVars, passVars
<1>3. /\ Len(events) \in Nat \ {0}
      /\ DOMAIN events = 1 .. Len(events)
      /\ DOMAIN events' = 1 .. Len(events) - 1
      /\ \A i \in DOMAIN events' : events'[i] = events[i + 1]
      /\ view' = [view EXCEPT ![events[1].run] = events[1].status]
  BY <1>1, DeliverEvents
<1>4. \A i \in Unseen(q)' : i + 1 \in Unseen(q) /\ events'[i] = events[i + 1]
  BY <1>3 DEF Unseen
<1>5. view'[q] = view[q] \/ (1 \in Unseen(q) /\ view'[q] = events[1].status)
  BY <1>1, <1>3 DEF Unseen, TypeOK
<1>6. status[q] \in Occupying /\ view'[q] \notin Occupying => view'[q] = view[q]
  BY <1>1, <1>5 DEF RunOK, Steady
<1>7. PassOwns(q)'
  BY <1>1, <1>2, <1>4, <1>6 DEF RunOK, PassOwns
<1>8. Steady(q)'
  BY <1>1, <1>2, <1>4 DEF RunOK, Steady
<1>9. CoveredRun(q)'
  BY <1>1, <1>2, <1>4, <1>6 DEF RunOK, CoveredRun
<1>. QED BY <1>1, <1>2, <1>7, <1>8, <1>9 DEF RunOK, Counted

LEMMA TickOK ==
    ASSUME IInv, Tick, NEW q \in Run
    PROVE  RunOK(q)'
<1>1. TypeOK /\ RunOK(q)
  BY RunsOK DEF IInv
<1>2. UNCHANGED <<status, job, view, pc, copy, fresh, synced, misread>>
  BY DEF Tick, apiVars
<1>3. /\ Unseen(q)' = Unseen(q)
      /\ \A i \in Unseen(q) : /\ events'[i].status = events[i].status
                             /\ events'[i].age = events[i].age + 1
                             /\ events[i].age \in Nat
  BY <1>1, TickEvents, EventsTyped DEF Unseen
<1>4. /\ held[q] \in 0 .. NoRes /\ passAge[q] \in 0 .. PassDelay
      /\ held'[q] = IF held[q] # NoRes THEN Older(held[q]) ELSE NoRes
      /\ passAge'[q] = IF pc[q] = "idle" THEN 0 ELSE passAge[q] + 1
  BY <1>1 DEF Tick, TypeOK, Reserved
<1>5. held'[q] <= held[q] + 1
  BY <1>4 DEF Older, NoRes, MaxAge
<1>6. pc[q] # "idle" /\ held[q] = passAge[q] => held'[q] = passAge'[q]
  BY <1>4 DEF Older, NoRes, MaxAge
<1>7. PassOwns(q)'
  BY <1>1, <1>2, <1>3, <1>6 DEF RunOK, PassOwns
<1>8. Steady(q)'
  BY <1>1, <1>2, <1>3 DEF RunOK, Steady
<1>9. CoveredRun(q)'
  <2>1. ASSUME NEW i \in Unseen(q), held[q] <= events[i].age + PassDelay
        PROVE  held'[q] <= events'[i].age + PassDelay
    <3>1. held'[q] \in Nat
      BY <1>4 DEF Older, NoRes, MaxAge
    <3>. QED BY <1>3, <1>4, <1>5, <2>1, <3>1 DEF NoRes, MaxAge
  <2>. QED BY <1>1, <1>2, <1>3, <2>1 DEF RunOK, CoveredRun
<1>. QED BY <1>1, <1>2, <1>7, <1>8, <1>9 DEF RunOK, Counted

LEMMA RestartOK ==
    ASSUME IInv, Crash \/ Relist, NEW q \in Run
    PROVE  RunOK(q)'
<1>1. RunOK(q)
  BY RunsOK
<1>2. CASE Crash
  <2>1. UNCHANGED <<status, job, events, view, misread>> /\ pc'[q] = "idle" /\ ~synced'
    BY <1>2 DEF Crash, apiVars
  <2>2. Unseen(q)' = Unseen(q)
    BY <2>1 DEF Unseen
  <2>. QED BY <1>1, <2>1, <2>2 DEF RunOK, PassOwns, Steady, CoveredRun, Counted
<1>3. CASE Relist
  <2>1. UNCHANGED <<status, job, pc, misread>> /\ pc[q] = "idle" /\ view' = status
    BY <1>1, <1>3 DEF Relist, apiVars, passVars, RunOK, PassOwns
  <2>2. Unseen(q)' = {}
    BY <1>3 DEF Relist, Unseen
  <2>. QED BY <1>1, <2>1, <2>2 DEF RunOK, PassOwns, Steady, CoveredRun, Counted
<1>. QED BY <1>2, <1>3

(***************************************************************************)
(* Claims: runs that hold a slot or are about to record one                *)
(***************************************************************************)

\* Everyone else's claim is counted by every decision.
LEMMA ClaimsAreActive ==
    ASSUME IInv, synced, NEW r \in Run
    PROVE  Claimed \ {r} \subseteq Active(r)
<1>1. ASSUME NEW q \in Claimed \ {r} PROVE q \in Active(r)
  <2>1. q \in Run \ {r}
    BY DEF Claimed, Slots, Holders
  <2>2. CASE Needed(q)
    <3>1. Keep(r, q)
      BY <2>1, <2>2, NeededIsKept
    <3>. QED BY <2>1, <3>1 DEF Active, Keep
  <2>3. CASE view[q] \in Occupying
    BY <2>1, <2>3 DEF Active, Listed, Occupying, Gone
  <2>. QED BY <2>2, <2>3 DEF Claimed, Slots, Holders, Needed
<1>. QED BY <1>1

LEMMA ClaimedFinite == IsFiniteSet(Claimed) /\ \A r \in Run : IsFiniteSet(Active(r))
BY RunAssumption, FS_Subset DEF Claimed, Slots, Holders, Active

\* Only a decision makes a claim, and only for its own run.
LEMMA DecideClaims ==
    ASSUME IInv, NEW r \in Run, Decide(r)
    PROVE  \/ Claimed' \subseteq Claimed
           \/ /\ Cardinality(Active(r)) + Cardinality(Ahead(r)) < Limit
              /\ Claimed' \subseteq Claimed \cup {r}
<1>a. /\ misread \subseteq misread' /\ status' = status /\ fresh' = fresh
      /\ \A q \in Run \ {r} : pc'[q] = pc[q]
  BY DEF Decide, Continue, NoteMisread, apiVars, IInv, TypeOK
<1>1. Claimed' \subseteq Claimed \cup {r}
  BY <1>a DEF Claimed, Slots, Holders
<1>2. CASE pc'[r] = "queued"
  BY <1>a, <1>1, <1>2 DEF Claimed, Slots, Holders
<1>3. CASE pc'[r] # "queued"
  BY <1>1, <1>3 DEF Decide, Continue, IInv, TypeOK
<1>. QED BY <1>2, <1>3

\* A status write that says "holds a slot" is made only for a run that claimed
\* it before.
LEMMA PassClaims ==
    ASSUME IInv, NEW r \in Run,
           Submit(r) \/ Delete(r) \/ Pass(r), ~Decide(r)
    PROVE  Claimed' \subseteq Claimed
<1>. USE StatusMembers
<1>a. /\ TypeOK /\ PassOwns(r) /\ Counted(r)
  BY RunsOK DEF IInv, RunOK
<1>b. /\ {"Pending", "Finished", "Queued", "New", "Deleted"} \cap Occupying = {}
  BY DEF Occupying
<1>1. \A q \in Run \ {r} : q \in Claimed' => q \in Claimed
  BY <1>a, StepFrame DEF Others, SameRun, Claimed, Slots, Holders
<1>2. ASSUME r \in Claimed' PROVE r \in Claimed
  <2>. DEFINE Own == r \in Holders \/ (pc[r] = "admitted" /\ fresh[r])
  <2>a. /\ r \notin misread
        /\ Own <=> r \in Claimed
    BY <1>a, <1>2, StepFrame DEF Claimed, Slots, Holders
  <2>b. status'[r] \in Occupying \/ (pc'[r] = "admitted" /\ fresh'[r])
    BY <1>2 DEF Claimed, Slots, Holders
  <2>1. ASSUME NEW s \in Status, NEW to \in {"idle", "create"}, WriteStatus(r, s, to),
               s \in Occupying /\ fresh[r] => Own
        PROVE  Own
    <3>1. CASE fresh[r]
      <4>1. status'[r] = s /\ pc'[r] # "admitted"
        BY <1>a, <2>1, <3>1 DEF WriteStatus, Store, EndPass, TypeOK
      <4>. QED BY <2>b, <2>1, <3>1, <4>1
    <3>2. CASE ~fresh[r]
      <4>1. status' = status /\ pc'[r] # "admitted"
        BY <1>a, <2>1, <3>2 DEF WriteStatus, EndPass, TypeOK
      <4>. QED BY <2>b, <4>1 DEF Holders
    <3>. QED BY <3>1, <3>2
  <2>2. ASSUME status' = status, EndPass(r) PROVE Own
    <3>1. pc'[r] # "admitted"
      BY <1>a, <2>2 DEF EndPass, TypeOK
    <3>. QED BY <2>b, <2>2, <3>1 DEF Holders
  <2>3. CASE Submit(r) \/ Delete(r)
    <3>1. status'[r] \notin Occupying
      BY <1>a, <1>b, <2>3 DEF Submit, Delete, Store, TypeOK
    <3>2. pc' = pc /\ (fresh'[r] => fresh[r])
      BY <1>a, <2>3 DEF Submit, Delete, passVars, TypeOK
    <3>. QED BY <2>a, <2>b, <3>1, <3>2
  <2>4. CASE Begin(r) \/ Resume(r)
    <3>1. status' = status /\ pc'[r] # "admitted"
      BY <1>a, <2>4 DEF Begin, Resume, Continue, apiVars, TypeOK
    <3>. QED BY <2>a, <2>b, <3>1 DEF Holders
  <2>5. CASE Abort(r) \/ Discover(r)
    BY <2>a, <2>2, <2>5 DEF Abort, Discover, apiVars, Holders
  <2>6. CASE Hold(r) \/ Refuse(r) \/ HoldMaterialization(r)
    BY <2>a, <1>b, <2>1, <2>2, <2>6 DEF Hold, Refuse, HoldMaterialization, Holders
  <2>7. CASE RecordQueued(r)
    BY <2>a, <1>b, <2>1, <2>2, <2>7 DEF RecordQueued, Holders
  <2>8. CASE RecordAdmission(r)
    BY <2>a, <2>1, <2>8 DEF RecordAdmission, Holders
  <2>9. CASE Freeze(r) \/ CreateJob(r)
    BY <2>a, <1>a, <2>1, <2>2, <2>9 DEF Freeze, CreateJob, PassOwns, Holders
  <2>10. CASE ObserveRunning(r) \/ ObserveFinished(r)
    BY <2>a, <1>a, <1>b, <2>1, <2>10
       DEF ObserveRunning, ObserveFinished, PassOwns, Counted, Holders
  <2>. QED
    BY <2>3, <2>4, <2>5, <2>6, <2>7, <2>8, <2>9, <2>10 DEF Pass
<1>. QED BY <1>1, <1>2 DEF Claimed, Slots, Holders

LEMMA ClaimsStayBounded ==
    ASSUME IInv, [Next]_vars
    PROVE  ClaimsBounded'
<1>. ClaimsBounded /\ TypeOK /\ \A q \in Run : PassOwns(q)
  BY RunsOK DEF IInv, RunOK
<1>1. Claimed' \subseteq Claimed => ClaimsBounded'
  <2>1. ASSUME Claimed' \subseteq Claimed PROVE ClaimsBounded'
    <3>1. Cardinality(Claimed') <= Cardinality(Claimed)
      BY <2>1, ClaimedFinite, FS_Subset
    <3>2. IsFiniteSet(Claimed')
      BY <2>1, ClaimedFinite, FS_Subset
    <3>3. Cardinality(Claimed) \in Nat /\ Cardinality(Claimed') \in Nat
      BY <3>2, ClaimedFinite, FS_CardinalityType
    <3>. QED BY <3>1, <3>3 DEF ClaimsBounded
  <2>. QED BY <2>1
<1>2. ASSUME NEW r \in Run, Decide(r) PROVE ClaimsBounded'
  <2>1. CASE Claimed' \subseteq Claimed
    BY <1>1, <2>1
  <2>2. CASE /\ Cardinality(Active(r)) + Cardinality(Ahead(r)) < Limit
             /\ Claimed' \subseteq Claimed \cup {r}
    <3>1. synced
      BY <1>2 DEF Decide, Gated, NothingRuns, PassOwns
    <3>2. Claimed' \subseteq Active(r) \cup {r}
      BY <2>2, <3>1, ClaimsAreActive
    <3>3. IsFiniteSet(Active(r)) /\ IsFiniteSet(Ahead(r))
      BY ClaimedFinite, RunAssumption, FS_Subset DEF Ahead
    <3>4. /\ IsFiniteSet(Active(r) \cup {r})
          /\ Cardinality(Active(r) \cup {r}) = Cardinality(Active(r)) + 1
      BY <3>3, FS_AddElement DEF Active
    <3>5. /\ Cardinality(Claimed') <= Cardinality(Active(r) \cup {r})
          /\ IsFiniteSet(Claimed')
      BY <3>2, <3>4, FS_Subset
    <3>6. /\ Cardinality(Active(r)) \in Nat /\ Cardinality(Ahead(r)) \in Nat
          /\ Cardinality(Claimed') \in Nat
      BY <3>3, <3>5, FS_CardinalityType
    <3>. QED BY <2>2, <3>4, <3>5, <3>6 DEF ClaimsBounded
  <2>. QED BY <1>2, <2>1, <2>2, DecideClaims
<1>3. ASSUME NEW r \in Run, Submit(r) \/ Delete(r) \/ Pass(r), ~Decide(r)
      PROVE  ClaimsBounded'
  BY <1>1, <1>3, PassClaims
<1>4. CASE Deliver \/ Tick \/ Relist
  BY <1>1, <1>4 DEF Deliver, Tick, Relist, Claimed, Slots, Holders, apiVars, passVars
<1>5. CASE Crash
  BY <1>1, <1>5 DEF Crash, Claimed, Slots, Holders, apiVars
<1>6. CASE UNCHANGED vars
  BY <1>1, <1>6 DEF vars, Claimed, Slots, Holders
<1>. QED BY <1>2, <1>3, <1>4, <1>5, <1>6 DEF Next

(***************************************************************************)
(* The invariant, and what it gives                                        *)
(***************************************************************************)

LEMMA InitIInv == Init => IInv
<1>. SUFFICES ASSUME Init PROVE IInv
  OBVIOUS
<1>1. TypeOK
  BY InitTypeOK
<1>2. WatchInOrder
  BY DEF Init, WatchInOrder
<1>3. \A r \in Run : RunOK(r)
  BY DEF Init, RunOK, PassOwns, Steady, CoveredRun, Counted, Occupying
<1>4. ClaimsBounded
  <2>1. Claimed = {}
    BY DEF Init, Claimed, Slots, Holders, Occupying
  <2>. QED BY <2>1, FS_EmptySet DEF ClaimsBounded
<1>. QED
  BY <1>1, <1>2, <1>3, <1>4
     DEF IInv, PassOwnsItsRun, OccupyingIsSteady, Covered, JobsAreCounted, Counted, RunOK

LEMMA NextIInv ==
    ASSUME IInv, [Next]_vars
    PROVE  IInv'
<1>1. TypeOK' /\ WatchInOrder'
  BY NextTypeOK, WatchInOrderStep DEF IInv
<1>2. ASSUME NEW q \in Run PROVE RunOK(q)'
  <2>1. ASSUME NEW r \in Run, Submit(r) \/ Delete(r) \/ Pass(r) PROVE RunOK(q)'
    <3>1. CASE q # r
      BY <2>1, <3>1, OthersOK
    <3>2. CASE q = r
      BY <2>1, <3>2, UserOK, PassOK
    <3>. QED BY <3>1, <3>2
  <2>2. CASE Deliver
    BY <2>2, DeliverOK
  <2>3. CASE Tick
    BY <2>3, TickOK
  <2>4. CASE Crash \/ Relist
    BY <2>4, RestartOK
  <2>5. CASE UNCHANGED vars
    <3>1. Unseen(q)' = Unseen(q)
      BY <2>5 DEF vars, Unseen
    <3>. QED BY <2>5, <3>1, RunsOK DEF vars, RunOK, PassOwns, Steady, CoveredRun, Counted
  <2>. QED BY <2>1, <2>2, <2>3, <2>4, <2>5 DEF Next
<1>3. ClaimsBounded'
  BY ClaimsStayBounded
<1>. QED
  BY <1>1, <1>2, <1>3
     DEF IInv, PassOwnsItsRun, OccupyingIsSteady, Covered, JobsAreCounted, Counted, RunOK

\* The strengthened invariant holds in every reachable state, whatever copy of
\* its run a pass is handed.
THEOREM InvariantHolds == Spec => []IInv
<1>1. Init => IInv
  BY InitIInv
<1>2. IInv /\ [Next]_vars => IInv'
  BY NextIInv
<1>. QED BY <1>1, <1>2, PTL DEF Spec

\* However many manual runs are asked for at once, and however passes, watch
\* and restarts interleave, no more of them hold a slot than the ceiling allows,
\* the runs apart that a pass decided about on a copy older than their admission.
THEOREM CeilingHolds == Spec => []Ceiling
<1>1. IInv => Ceiling
  <2>. SUFFICES ASSUME IInv PROVE Ceiling
    OBVIOUS
  <2>1. Slots \subseteq Claimed
    BY DEF Claimed
  <2>2. /\ IsFiniteSet(Slots) /\ Cardinality(Slots) <= Cardinality(Claimed)
    BY <2>1, ClaimedFinite, FS_Subset
  <2>3. Cardinality(Slots) \in Nat /\ Cardinality(Claimed) \in Nat
    BY <2>2, ClaimedFinite, FS_CardinalityType
  <2>. QED BY <2>2, <2>3 DEF Ceiling, IInv, ClaimsBounded
<1>. QED BY <1>1, InvariantHolds, PTL

\* A runner Job exists only for a run every process counts, a finished one, or
\* one a pass misread.
THEOREM JobsCounted == Spec => []JobsAreCounted
<1>1. IInv => JobsAreCounted
  BY DEF IInv
<1>. QED BY <1>1, InvariantHolds, PTL

(***************************************************************************)
(* Refinement of the abstract pool                                         *)
(***************************************************************************)

\* A step of r changes no other run's hold on a slot, and gives r one only if
\* r had claimed it.
LEMMA SlotsStep ==
    ASSUME IInv, NEW r \in Run, Submit(r) \/ Delete(r) \/ Pass(r)
    PROVE  /\ Slots' \subseteq Slots \cup {r}
           /\ Slots \subseteq Slots' \cup {r}
           /\ r \in Slots' => r \in Claimed
<1>1. Slots' \subseteq Slots \cup {r} /\ Slots \subseteq Slots' \cup {r}
  BY StepFrame DEF IInv, Others, SameRun, Slots, Holders
<1>2. CASE Decide(r)
  BY <1>1, <1>2, StepFrame DEF Decide, apiVars, Slots, Holders, Claimed, IInv
<1>3. CASE ~Decide(r)
  BY <1>1, <1>3, PassClaims DEF Claimed
<1>. QED BY <1>1, <1>2, <1>3

LEMMA PoolStep ==
    ASSUME IInv, [Next]_vars
    PROVE  [Pool!Next]_Slots
<1>1. ASSUME NEW r \in Run, Submit(r) \/ Delete(r) \/ Pass(r)
      PROVE  [Pool!Next]_Slots
  <2>1. /\ Slots' \subseteq Slots \cup {r}
        /\ Slots \subseteq Slots' \cup {r}
        /\ r \in Slots' => r \in Claimed
    BY <1>1, SlotsStep
  <2>2. CASE r \in Slots <=> r \in Slots'
    BY <2>1, <2>2
  <2>3. CASE r \in Slots /\ r \notin Slots'
    <3>1. Slots' = Slots \ {r}
      BY <2>1, <2>3
    <3>. QED BY <2>3, <3>1 DEF Pool!Next, Pool!Release
  <2>4. CASE r \notin Slots /\ r \in Slots'
    <3>1. Slots' = Slots \cup {r} /\ Slots \cup {r} \subseteq Claimed
      BY <2>1, <2>4 DEF Claimed
    <3>2. IsFiniteSet(Slots)
      BY ClaimedFinite, FS_Subset DEF Claimed
    <3>3. /\ Cardinality(Slots \cup {r}) = Cardinality(Slots) + 1
          /\ Cardinality(Slots \cup {r}) <= Cardinality(Claimed)
      BY <2>4, <3>1, <3>2, ClaimedFinite, FS_AddElement, FS_Subset
    <3>4. Cardinality(Slots) \in Nat /\ Cardinality(Claimed) \in Nat
      BY <3>2, ClaimedFinite, FS_CardinalityType
    <3>5. Cardinality(Slots) < Limit
      BY <3>3, <3>4 DEF IInv, ClaimsBounded
    <3>6. Pool!Cardinality(Slots) = Cardinality(Slots)
      BY DEF Pool!Cardinality, Cardinality
    <3>. QED BY <2>4, <3>1, <3>5, <3>6 DEF Pool!Next, Pool!Take
  <2>. QED BY <2>2, <2>3, <2>4
<1>2. CASE Deliver \/ Tick \/ Crash \/ Relist \/ UNCHANGED vars
  BY <1>2 DEF Deliver, Tick, Crash, Relist, apiVars, vars, Slots, Holders
<1>. QED BY <1>1, <1>2 DEF Next

\* The durable statuses behave as the abstract pool: an admission is recorded
\* only while fewer than Limit runs hold a slot, and a slot is only given back.
THEOREM PoolRefinement == Spec => ImplementsPool
<1>1. Init => Pool!Init
  BY DEF Init, Pool!Init, Slots, Holders, Occupying
<1>2. IInv /\ [Next]_vars => [Pool!Next]_Slots
  BY PoolStep
<1>. QED BY <1>1, <1>2, InvariantHolds, PTL DEF Spec, ImplementsPool, Pool!Spec

=============================================================================
