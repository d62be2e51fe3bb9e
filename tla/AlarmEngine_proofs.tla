------------------------ MODULE AlarmEngine_proofs ------------------------
(***************************************************************************)
(* Machine-checked proofs about AlarmEngine, for every set of alarms, any  *)
(* horizon and any number of calls: type correctness, no lost wake-up, the *)
(* agreement of the records of an alarm, and the refinement of AlarmClock. *)
(***************************************************************************)
EXTENDS AlarmEngine, TLAPS

USE DEF None, Time

Map == [Alarm -> Time \cup {None}]

(* The timer wakes the engine in time for every entry of map, all of which
   lie ahead. *)
Covers(at, map) ==
  \A b \in Armed(map) : now <= at /\ at <= map[b]

Ahead(map) == \A b \in Armed(map) : now <= map[b]

(* UpdateTimer starts the timer for the entry the map begins with, or fails. *)
LEMMA UpdateTimerCovers ==
  ASSUME TypeOK, NEW map \in Map, UpdateTimer(map)
  PROVE  /\ timer' \in Time \cup {None}
         /\ fault' = fault \/ fault' = "assert"
         /\ fault' # "assert" => Covers(timer', map) /\ Ahead(map)
         /\ timer' # None => now <= timer'
<1>1. CASE Armed(map) = {} /\ timer' = None /\ fault' = fault
  BY <1>1 DEF Covers, Ahead
<1>2. ASSUME NEW a \in First(map),
             IF now <= map[a] THEN timer' = map[a] /\ fault' = fault
                              ELSE timer' = None /\ fault' = "assert"
      PROVE  /\ timer' \in Time \cup {None}
             /\ fault' = fault \/ fault' = "assert"
             /\ fault' # "assert" => Covers(timer', map) /\ Ahead(map)
             /\ timer' # None => now <= timer'
  <2>1. a \in Alarm /\ map[a] \in Time /\ now \in Time
        /\ \A b \in Armed(map) : map[b] \in Time /\ map[a] <= map[b]
    <3>1. a \in Armed(map) /\ \A b \in Armed(map) : map[a] <= map[b]
      BY DEF First
    <3>2. \A b \in Armed(map) : b \in Alarm /\ map[b] \in Time
      BY DEF Armed, Map
    <3>. QED  BY <3>1, <3>2 DEF TypeOK
  <2>. QED  BY <1>2, <2>1, BoundAssumption DEF Covers, Ahead
<1>. QED  BY <1>1, <1>2 DEF UpdateTimer

(* An entry is added to others, which the timer covered: now it covers all. *)
LEMMA UpdateIfEarlierCovers ==
  ASSUME TypeOK, NEW a \in Alarm, NEW at \in Time, NEW others \in Map, others[a] = None,
         NEW map, map = [others EXCEPT ![a] = at],
         Ahead(others), fault = "none",
         timer # None => now <= timer,
         pc = "outside" => Covers(timer, others),
         UpdateIfEarlier(at, others, map)
  PROVE  /\ timer' \in Time \cup {None}
         /\ fault' \in {"none", "assert"}
         /\ fault' = "none" => Ahead(map) /\ (pc = "outside" => Covers(timer', map))
         /\ fault' = "none" /\ timer' # None => now <= timer'
<1>1. map \in Map
  BY DEF Map
<1>2. CASE UpdateTimer(map)
  BY <1>1, <1>2, UpdateTimerCovers
<1>3. CASE /\ timer # None
           /\ \E b \in Armed(others) : others[b] <= at
           /\ timer' = timer /\ fault' = fault
  <2>1. PICK b \in Armed(others) : others[b] <= at
    BY <1>3
  <2>2. \A c \in Armed(map) : c = a \/ (c \in Armed(others) /\ map[c] = others[c])
    BY DEF Armed, Map
  <2>3. map[a] = at /\ others[b] \in Time /\ now \in Time /\ timer \in Time
    BY <1>3, <2>1 DEF Armed, Map, TypeOK
  <2>4. now <= others[b] /\ (pc = "outside" => now <= timer /\ timer <= others[b])
    BY <2>1 DEF Ahead, Covers
  <2>5. now <= at /\ (pc = "outside" => now <= timer /\ timer <= at)
    BY <2>1, <2>3, <2>4, BoundAssumption
  <2>6. Ahead(map)
    BY <2>2, <2>3, <2>5 DEF Ahead
  <2>7. pc = "outside" => Covers(timer, map)
    BY <2>2, <2>3, <2>5 DEF Covers
  <2>. QED  BY <1>3, <2>6, <2>7 DEF TypeOK
<1>4. \/ timer = None
      \/ \A b \in Armed(others) : at < others[b]
      \/ \E b \in Armed(others) : others[b] <= at
  <2>1. \A b \in Armed(others) : others[b] \in Time
    BY DEF Armed, Map
  <2>. QED  BY <2>1, BoundAssumption
<1>. QED  BY <1>2, <1>3, <1>4 DEF UpdateIfEarlier

(* What RegisterAlarm does for an alarm that has no entry. *)
LEMMA RegisterStep ==
  ASSUME IInv, Sound, NEW a \in Alarm, NEW timeout \in Time,
         a \notin allAlarms, alarmMap[a] = None, RegisterAlarm(a, timeout)
  PROVE  \E at \in Time :
           /\ timeout <= at /\ at \in {now, timeout}
           /\ alarmMap' = [alarmMap EXCEPT ![a] = at]
           /\ allAlarms' = allAlarms \cup {a}
           /\ registered' = [registered EXCEPT ![a] = TRUE]
           /\ timer' \in Time \cup {None}
           /\ fault' \in {"none", "assert"}
           /\ fault' = "none" => Ahead(alarmMap') /\ (pc = "outside" => Covers(timer', alarmMap'))
           /\ fault' = "none" /\ timer' # None => now <= timer'
<1>. DEFINE at == IF timeout < now THEN now ELSE timeout
<1>0. now \in Time
  BY DEF IInv, TypeOK
<1>1. at \in Time /\ timeout <= at /\ at \in {now, timeout}
  BY <1>0, BoundAssumption
<1>2. /\ alarmMap' = [alarmMap EXCEPT ![a] = at]
      /\ allAlarms' = allAlarms \cup {a}
      /\ registered' = [registered EXCEPT ![a] = TRUE]
      /\ UpdateIfEarlier(at, alarmMap, alarmMap')
  BY DEF RegisterAlarm, IInv, TypeOK
<1>3. /\ alarmMap \in Map /\ Ahead(alarmMap) /\ fault = "none"
      /\ timer # None => now <= timer
      /\ pc = "outside" => Covers(timer, alarmMap)
  BY DEF IInv, EngineInv, TimerCovers, Sound, TypeOK, Map, Ahead, Covers
<1>. HIDE DEF at
<1>4. TypeOK
  BY DEF IInv
<1>5. /\ timer' \in Time \cup {None}
      /\ fault' \in {"none", "assert"}
      /\ fault' = "none" => Ahead(alarmMap') /\ (pc = "outside" => Covers(timer', alarmMap'))
      /\ fault' = "none" /\ timer' # None => now <= timer'
  BY <1>1, <1>2, <1>3, <1>4, UpdateIfEarlierCovers
<1>. QED  BY <1>1, <1>2, <1>5

(* What ReregisterAlarm does for an alarm that has an entry. *)
LEMMA ReregisterStep ==
  ASSUME IInv, Sound, NEW a \in Alarm, NEW timeout \in Time,
         alarmMap[a] # None, ReregisterAlarm(a, timeout)
  PROVE  /\ allAlarms' = allAlarms
         /\ registered' = registered
         /\ timer' \in Time \cup {None}
         /\ fault' \in {"none", "assert"}
         /\ alarmMap' \in Map
         /\ fault' = "none" =>
              /\ alarmMap' = [alarmMap EXCEPT ![a] = timeout]
              /\ Ahead(alarmMap')
              /\ pc = "outside" => Covers(timer', alarmMap')
              /\ timer' # None => now <= timer'
<1>. DEFINE others == [alarmMap EXCEPT ![a] = None]
<1>1. /\ others \in Map /\ others[a] = None
      /\ [alarmMap EXCEPT ![a] = timeout] = [others EXCEPT ![a] = timeout]
      /\ [alarmMap EXCEPT ![a] = timeout] \in Map
  BY DEF IInv, TypeOK, Map
<1>2. \A b \in Armed(others) : b \in Armed(alarmMap) /\ others[b] = alarmMap[b]
  BY DEF Armed, IInv, TypeOK
<1>3. /\ Ahead(others) /\ fault = "none" /\ TypeOK
      /\ timer # None => now <= timer
      /\ pc = "outside" => Covers(timer, others)
  BY <1>2 DEF IInv, EngineInv, TimerCovers, Sound, Ahead, Covers
<1>4. CASE Armed(others) = {}
  BY <1>4 DEF ReregisterAlarm, engine, IInv, TypeOK, Map
<1>5. CASE Armed(others) # {}
  <2>1. /\ alarmMap' = [alarmMap EXCEPT ![a] = timeout]
        /\ UpdateIfEarlier(timeout, others, alarmMap')
        /\ allAlarms' = allAlarms /\ registered' = registered
    BY <1>5 DEF ReregisterAlarm
  <2>2. alarmMap' = [others EXCEPT ![a] = timeout]
    BY <1>1, <2>1
  <2>. HIDE DEF others
  <2>3. /\ timer' \in Time \cup {None}
        /\ fault' \in {"none", "assert"}
        /\ fault' = "none" => Ahead(alarmMap') /\ (pc = "outside" => Covers(timer', alarmMap'))
        /\ fault' = "none" /\ timer' # None => now <= timer'
    BY <1>1, <1>3, <2>1, <2>2, UpdateIfEarlierCovers
  <2>. QED  BY <1>1, <2>1, <2>3
<1>. QED  BY <1>4, <1>5

LEMMA InvInit == Init => IInv
BY BoundAssumption DEF Init, IInv, TypeOK, SameView, TimerCovers, EngineInv, Armed, Sound

(* The timer expires: what is due moves from the map to the callbacks. *)
LEMMA InvOnTimeout ==
  ASSUME IInv, OnTimeout
  PROVE  IInv'
<1>1. /\ TypeOK /\ fault = "none" /\ pc = "outside" /\ cbs = {} /\ ringing = {}
      /\ pc' = "OnTimeout" /\ timer' = None /\ cbs' = Due
      /\ alarmMap' = [a \in Alarm |-> IF a \in Due THEN None ELSE alarmMap[a]]
      /\ allAlarms' = allAlarms \ Due
      /\ now' = now /\ deadline' = deadline /\ registered' = registered
      /\ ringing' = ringing /\ fault' = fault /\ calls' = calls
  BY DEF OnTimeout, IInv, EngineInv
<1>2. \A a \in Alarm :
        /\ deadline[a] # None <=> registered[a]
        /\ registered[a] <=> a \in allAlarms
        /\ a \in allAlarms <=> alarmMap[a] # None
        /\ a \in allAlarms => alarmMap[a] >= deadline[a]
  BY <1>1 DEF IInv, SameView, Sound
<1>3. \A a \in Due : a \in Alarm /\ a \in allAlarms /\ alarmMap[a] <= now /\ deadline[a] <= now
  <2>1. \A a \in Due : a \in Alarm /\ alarmMap[a] # None /\ alarmMap[a] <= now
    BY DEF Due, Armed
  <2>2. now \in Time /\ \A a \in Alarm : alarmMap[a] \in Time \cup {None} /\ deadline[a] \in Time \cup {None}
    BY <1>1 DEF TypeOK
  <2>. QED  BY <1>2, <2>1, <2>2, BoundAssumption
<1>4. \A a \in Armed(alarmMap)' : a \in Armed(alarmMap) /\ a \notin Due /\ alarmMap'[a] = alarmMap[a]
  BY <1>1 DEF Armed
<1>5. TypeOK'
  BY <1>1, <1>3 DEF TypeOK
<1>6. SameView'
  BY <1>1, <1>2, <1>3 DEF SameView, Sound
<1>7. TimerCovers'
  BY <1>1 DEF TimerCovers
<1>8. EngineInv'
  BY <1>1, <1>3, <1>4 DEF EngineInv, IInv, Sound
<1>. QED  BY <1>5, <1>6, <1>7, <1>8 DEF IInv

(* A callback: its alarm is not set any more. *)
LEMMA InvOnAlarm ==
  ASSUME IInv, NEW a \in Alarm, OnAlarm(a)
  PROVE  IInv'
<1>1. /\ TypeOK /\ fault = "none" /\ pc = "OnTimeout" /\ a \in cbs
      /\ cbs' = cbs \ {a} /\ ringing' \subseteq {a}
      /\ registered' = [registered EXCEPT ![a] = FALSE]
      /\ deadline' = [deadline EXCEPT ![a] = None]
      /\ now' = now /\ alarmMap' = alarmMap /\ allAlarms' = allAlarms /\ timer' = timer
      /\ pc' = pc /\ fault' = fault /\ calls' = calls
  BY DEF OnAlarm, IInv
<1>2. /\ SameView /\ EngineInv
      /\ a \notin allAlarms
  BY <1>1 DEF IInv, SameView, Sound
<1>3. TypeOK'
  BY <1>1 DEF TypeOK
<1>4. SameView'
  BY <1>1, <1>2 DEF SameView, Sound, TypeOK
<1>5. TimerCovers'
  BY <1>1 DEF TimerCovers
<1>6. EngineInv'
  <2>1. \A b \in Armed(alarmMap) : b # a
    BY <1>1, <1>2 DEF Armed, SameView, Sound
  <2>. QED  BY <1>1, <1>2, <2>1 DEF EngineInv, Sound, TypeOK, Armed
<1>. QED  BY <1>3, <1>4, <1>5, <1>6 DEF IInv

(* The end of OnTimeout: the timer runs for what the callbacks have set. *)
LEMMA InvTimeoutDone ==
  ASSUME IInv, TimeoutDone
  PROVE  IInv'
<1>1. /\ TypeOK /\ fault = "none" /\ pc = "OnTimeout" /\ cbs = {}
      /\ UpdateTimer(alarmMap)
      /\ ringing' = {} /\ pc' = "outside"
      /\ now' = now /\ deadline' = deadline /\ alarmMap' = alarmMap /\ allAlarms' = allAlarms
      /\ registered' = registered /\ cbs' = cbs /\ calls' = calls
      /\ SameView /\ EngineInv
  BY DEF TimeoutDone, IInv
<1>2. alarmMap \in Map
  BY <1>1 DEF TypeOK, Map
<1>3. /\ timer' \in Time \cup {None}
      /\ fault' = fault \/ fault' = "assert"
      /\ fault' # "assert" => Covers(timer', alarmMap) /\ Ahead(alarmMap)
      /\ timer' # None => now <= timer'
  BY <1>1, <1>2, UpdateTimerCovers
<1>4. TypeOK'
  BY <1>1, <1>3 DEF TypeOK
<1>5. SameView'
  BY <1>1 DEF SameView, Sound
<1>6. TimerCovers'
  BY <1>1, <1>3 DEF TimerCovers, Covers, Armed, Sound
<1>7. EngineInv'
  BY <1>1, <1>3 DEF EngineInv, Sound, Armed
<1>. QED  BY <1>4, <1>5, <1>6, <1>7 DEF IInv

(* After the destructor nothing is promised. *)
LEMMA InvShutdown ==
  ASSUME IInv, Shutdown
  PROVE  IInv'
<1>1. TypeOK'
  BY DEF Shutdown, IInv, TypeOK
<1>2. ~Sound' /\ (EngineInv => EngineInv')
  BY DEF Shutdown, Sound, EngineInv
<1>. QED  BY <1>1, <1>2 DEF IInv, SameView, TimerCovers, EngineInv

(* quiche calls the engine only while it runs. *)
LEMMA CallingSound ==
  ASSUME IInv, Calling
  PROVE  /\ TypeOK /\ SameView /\ TimerCovers /\ EngineInv /\ Sound /\ fault = "none"
         /\ now' = now /\ cbs' = cbs /\ ringing' = ringing /\ pc' = pc
         /\ calls' \in 0..MaxCalls
<1>1. /\ TypeOK /\ SameView /\ TimerCovers /\ EngineInv /\ fault = "none"
      /\ now' = now /\ cbs' = cbs /\ ringing' = ringing /\ pc' = pc
      /\ pc = "outside" \/ ringing # {}
      /\ calls < MaxCalls /\ calls' = calls + 1
  BY DEF Calling, IInv
<1>2. pc # "destroyed"
  BY <1>1 DEF EngineInv
<1>3. calls' \in 0..MaxCalls
  <2>1. calls \in 0..MaxCalls
    BY <1>1 DEF TypeOK
  <2>. QED  BY <1>1, <2>1, BoundAssumption
<1>. QED  BY <1>1, <1>2, <1>3 DEF Sound

(* An alarm is set: it gets an entry, not before its deadline. *)
LEMMA InvSet ==
  ASSUME IInv, NEW a \in Alarm, Set(a)
  PROVE  IInv'
<1>1. PICK timeout \in Time :
        /\ Calling
        /\ deadline[a] = None
        /\ deadline' = [deadline EXCEPT ![a] = timeout]
        /\ RegisterAlarm(a, timeout)
  BY DEF Set
<1>2. /\ TypeOK /\ SameView /\ TimerCovers /\ EngineInv /\ Sound /\ fault = "none"
      /\ now' = now /\ cbs' = cbs /\ ringing' = ringing /\ pc' = pc
      /\ calls' \in 0..MaxCalls
  BY <1>1, CallingSound
<1>3. ~registered[a] /\ a \notin allAlarms /\ a \notin cbs /\ alarmMap[a] = None
  BY <1>1, <1>2 DEF SameView
<1>4. PICK at \in Time :
        /\ timeout <= at /\ at \in {now, timeout}
        /\ alarmMap' = [alarmMap EXCEPT ![a] = at]
        /\ allAlarms' = allAlarms \cup {a}
        /\ registered' = [registered EXCEPT ![a] = TRUE]
        /\ timer' \in Time \cup {None}
        /\ fault' \in {"none", "assert"}
        /\ fault' = "none" => Ahead(alarmMap') /\ (pc = "outside" => Covers(timer', alarmMap'))
        /\ fault' = "none" /\ timer' # None => now <= timer'
  BY <1>1, <1>2, <1>3, RegisterStep
<1>5. TypeOK'
  BY <1>1, <1>2, <1>4 DEF TypeOK
<1>6. SameView'
  BY <1>1, <1>2, <1>3, <1>4, BoundAssumption DEF SameView, Sound, TypeOK
<1>7. TimerCovers'
  <2>1. Armed(alarmMap') = Armed(alarmMap)'
    BY DEF Armed
  <2>2. ASSUME Sound', pc' = "outside"
        PROVE  \A b \in Armed(alarmMap)' : now' <= timer' /\ timer' <= alarmMap'[b]
    <3>1. Covers(timer', alarmMap')
      BY <1>2, <1>4, <2>2 DEF Sound
    <3>. QED  BY <1>2, <2>1, <3>1 DEF Covers
  <2>. QED  BY <2>2 DEF TimerCovers
<1>8. EngineInv'
  <2>1. \A b \in Armed(alarmMap)' :
          b = a \/ (b \in Armed(alarmMap) /\ alarmMap'[b] = alarmMap[b])
    BY <1>2, <1>4 DEF Armed, TypeOK
  <2>2. alarmMap'[a] = at /\ deadline'[a] = timeout
        /\ \A b \in Alarm \ {a} : deadline'[b] = deadline[b]
    BY <1>1, <1>2, <1>4 DEF TypeOK
  <2>3. \A b \in Armed(alarmMap) : b \in Alarm
    BY DEF Armed
  <2>4. ASSUME Sound'
        PROVE  \A b \in Armed(alarmMap)' : now' <= alarmMap'[b] /\ alarmMap'[b] \in {now', deadline'[b]}
    <3>1. \A b \in Armed(alarmMap') : now <= alarmMap'[b]
      BY <1>4, <2>4 DEF Sound, Ahead
    <3>2. Armed(alarmMap') = Armed(alarmMap)'
      BY DEF Armed
    <3>3. \A b \in Armed(alarmMap) : alarmMap[b] \in {now, deadline[b]}
      BY <1>2 DEF EngineInv
    <3>. QED  BY <1>2, <1>4, <2>1, <2>2, <2>3, <3>1, <3>2, <3>3
  <2>5. ASSUME Sound'
        PROVE  /\ \A b \in cbs' : deadline'[b] <= now'
               /\ timer' # None => now' <= timer'
    BY <1>2, <1>3, <1>4, <2>2, <2>5 DEF EngineInv, TypeOK, Sound
  <2>. QED  BY <1>2, <2>4, <2>5 DEF EngineInv
<1>. QED  BY <1>5, <1>6, <1>7, <1>8 DEF IInv

(* An alarm is cancelled: its entry goes, and the timer may expire for nothing. *)
LEMMA InvCancel ==
  ASSUME IInv, NEW a \in Alarm, Cancel(a)
  PROVE  IInv'
<1>1. /\ Calling /\ deadline[a] # None
      /\ deadline' = [deadline EXCEPT ![a] = None]
      /\ IF ~registered[a] THEN UNCHANGED <<engine, fault>>
         ELSE IF alarmMap[a] = None THEN StaleToken
         ELSE UnregisterAlarm(a)
  BY DEF Cancel
<1>2. /\ TypeOK /\ SameView /\ TimerCovers /\ EngineInv /\ Sound /\ fault = "none"
      /\ now' = now /\ cbs' = cbs /\ ringing' = ringing /\ pc' = pc
      /\ calls' \in 0..MaxCalls
  BY <1>1, CallingSound
<1>3. registered[a]
  BY <1>1, <1>2 DEF SameView
<1>4. CASE alarmMap[a] = None
  <2>1. /\ fault' = "stale token" /\ alarmMap' = alarmMap /\ allAlarms' = allAlarms
        /\ registered' = registered /\ timer' = timer
    BY <1>1, <1>3, <1>4 DEF StaleToken, engine
  <2>2. TypeOK'
    BY <1>1, <1>2, <2>1 DEF TypeOK
  <2>. QED  BY <1>2, <2>1, <2>2 DEF IInv, SameView, TimerCovers, EngineInv, Sound
<1>5. CASE alarmMap[a] # None
  <2>1. /\ alarmMap' = [alarmMap EXCEPT ![a] = None]
        /\ allAlarms' = allAlarms \ {a}
        /\ registered' = [registered EXCEPT ![a] = FALSE]
        /\ timer' = timer /\ fault' = fault
    BY <1>1, <1>3, <1>5 DEF UnregisterAlarm
  <2>2. a \in allAlarms /\ a \notin cbs
    BY <1>2, <1>5 DEF SameView
  <2>3. TypeOK'
    BY <1>1, <1>2, <2>1 DEF TypeOK
  <2>4. SameView'
    BY <1>1, <1>2, <2>1, <2>2 DEF SameView, Sound, TypeOK
  <2>5. \A b \in Armed(alarmMap)' : b \in Armed(alarmMap) /\ b # a /\ alarmMap'[b] = alarmMap[b]
    BY <1>2, <2>1 DEF Armed, TypeOK
  <2>6. TimerCovers'
    BY <1>2, <2>1, <2>5 DEF TimerCovers, Sound
  <2>7. EngineInv'
    <3>1. \A b \in Alarm \ {a} : deadline'[b] = deadline[b]
      BY <1>1, <1>2 DEF TypeOK
    <3>2. \A b \in Armed(alarmMap) : b \in Alarm
      BY DEF Armed
    <3>3. \A b \in cbs : b \in Alarm /\ b # a
      BY <1>2, <2>2 DEF TypeOK
    <3>. QED  BY <1>2, <2>1, <2>2, <2>5, <3>1, <3>2, <3>3 DEF EngineInv, Sound
  <2>. QED  BY <2>3, <2>4, <2>6, <2>7 DEF IInv
<1>. QED  BY <1>4, <1>5

(* An alarm is moved: its entry is erased and inserted again, or misused. *)
LEMMA InvUpdate ==
  ASSUME IInv, NEW a \in Alarm, Update(a)
  PROVE  IInv'
<1>1. PICK timeout \in Time :
        /\ Calling
        /\ deadline[a] \notin {None, timeout}
        /\ deadline' = [deadline EXCEPT ![a] = timeout]
        /\ IF ~registered[a] THEN RegisterAlarm(a, timeout)
           ELSE IF alarmMap[a] = None THEN StaleToken
           ELSE ReregisterAlarm(a, timeout)
  BY DEF Update
<1>2. /\ TypeOK /\ SameView /\ TimerCovers /\ EngineInv /\ Sound /\ fault = "none"
      /\ now' = now /\ cbs' = cbs /\ ringing' = ringing /\ pc' = pc
      /\ calls' \in 0..MaxCalls
  BY <1>1, CallingSound
<1>3. registered[a]
  BY <1>1, <1>2 DEF SameView
<1>4. CASE alarmMap[a] = None
  <2>1. /\ fault' = "stale token" /\ alarmMap' = alarmMap /\ allAlarms' = allAlarms
        /\ registered' = registered /\ timer' = timer
    BY <1>1, <1>3, <1>4 DEF StaleToken, engine
  <2>2. TypeOK'
    BY <1>1, <1>2, <2>1 DEF TypeOK
  <2>. QED  BY <1>2, <2>1, <2>2 DEF IInv, SameView, TimerCovers, EngineInv, Sound
<1>5. CASE alarmMap[a] # None
  <2>1. ReregisterAlarm(a, timeout)
    BY <1>1, <1>3, <1>5
  <2>2. /\ allAlarms' = allAlarms
        /\ registered' = registered
        /\ timer' \in Time \cup {None}
        /\ fault' \in {"none", "assert"}
        /\ alarmMap' \in Map
        /\ fault' = "none" =>
             /\ alarmMap' = [alarmMap EXCEPT ![a] = timeout]
             /\ Ahead(alarmMap')
             /\ pc = "outside" => Covers(timer', alarmMap')
             /\ timer' # None => now <= timer'
    BY <1>2, <1>5, <2>1, ReregisterStep
  <2>3. TypeOK'
    BY <1>1, <1>2, <2>2 DEF TypeOK, Map
  <2>4. CASE fault' # "none"
    BY <1>2, <2>3, <2>4 DEF IInv, SameView, TimerCovers, EngineInv, Sound
  <2>5. CASE fault' = "none"
    <3>1. a \in allAlarms /\ a \notin cbs
      BY <1>2, <1>5 DEF SameView
    <3>2. SameView'
      BY <1>1, <1>2, <1>3, <2>2, <2>5, <3>1, BoundAssumption DEF SameView, Sound, TypeOK
    <3>3. Armed(alarmMap') = Armed(alarmMap)'
      BY DEF Armed
    <3>4. TimerCovers'
      BY <1>2, <2>2, <2>5, <3>3 DEF TimerCovers, Covers
    <3>5. EngineInv'
      <4>1. \A b \in Armed(alarmMap)' :
              b = a \/ (b \in Armed(alarmMap) /\ b \in Alarm \ {a} /\ alarmMap'[b] = alarmMap[b])
        BY <1>2, <2>2, <2>5 DEF Armed, TypeOK
      <4>2. /\ alarmMap'[a] = timeout /\ deadline'[a] = timeout
            /\ \A b \in Alarm \ {a} : deadline'[b] = deadline[b]
            /\ \A b \in cbs : b \in Alarm \ {a}
        BY <1>1, <1>2, <2>2, <2>5, <3>1 DEF TypeOK
      <4>3. \A b \in Armed(alarmMap) : alarmMap[b] \in {now, deadline[b]}
        BY <1>2 DEF EngineInv
      <4>4. \A b \in Armed(alarmMap)' : now' <= alarmMap'[b] /\ alarmMap'[b] \in {now', deadline'[b]}
        <5>1. \A b \in Armed(alarmMap)' : now <= alarmMap'[b]
          BY <2>2, <2>5, <3>3 DEF Ahead
        <5>. QED  BY <1>2, <4>1, <4>2, <4>3, <5>1
      <4>5. \A b \in cbs' : deadline'[b] <= now'
        BY <1>2, <4>2 DEF EngineInv
      <4>. QED  BY <1>2, <2>2, <2>5, <4>4, <4>5 DEF EngineInv
    <3>. QED  BY <2>3, <3>2, <3>4, <3>5 DEF IInv
  <2>. QED  BY <2>4, <2>5
<1>. QED  BY <1>4, <1>5

(* Time passes when nothing is due: what lay ahead lies at most at the new now. *)
LEMMA InvTick ==
  ASSUME IInv, Tick
  PROVE  IInv'
<1>1. /\ TypeOK /\ SameView /\ TimerCovers /\ EngineInv /\ Sound
      /\ pc = "outside" /\ timer # now /\ now < Horizon
      /\ now' = now + 1 /\ calls' = 0
      /\ deadline' = deadline /\ alarmMap' = alarmMap /\ allAlarms' = allAlarms
      /\ registered' = registered /\ timer' = timer
      /\ cbs' = cbs /\ ringing' = ringing /\ pc' = pc /\ fault' = fault
  BY DEF Tick, IInv, Sound, engine
<1>2. /\ now \in Time /\ timer \in Time \cup {None} /\ cbs = {} /\ ringing = {}
      /\ timer # None => now <= timer
  BY <1>1 DEF TypeOK, EngineInv
<1>3. timer # None => now + 1 <= timer
  BY <1>1, <1>2, BoundAssumption
<1>4. \A a \in Armed(alarmMap) :
        /\ a \in Alarm /\ alarmMap[a] \in Time
        /\ now <= timer /\ timer <= alarmMap[a] /\ alarmMap[a] \in {now, deadline[a]}
  BY <1>1 DEF TimerCovers, EngineInv, Armed, TypeOK
<1>5. \A a \in Armed(alarmMap) :
        now + 1 <= timer /\ timer <= alarmMap[a] /\ now + 1 <= alarmMap[a] /\ alarmMap[a] = deadline[a]
  <2>. SUFFICES ASSUME NEW a \in Armed(alarmMap)
                PROVE  /\ now + 1 <= timer /\ timer <= alarmMap[a] /\ now + 1 <= alarmMap[a]
                       /\ alarmMap[a] = deadline[a]
    OBVIOUS
  <2>1. timer \in Int /\ now \in Nat /\ alarmMap[a] \in Nat
    BY <1>2, <1>4, BoundAssumption
  <2>2. now + 1 <= timer
    BY <1>2, <1>3, <1>4, <2>1
  <2>3. timer <= alarmMap[a] /\ alarmMap[a] \in {now, deadline[a]}
    BY <1>4
  <2>4. now + 1 <= alarmMap[a]
    BY <2>1, <2>2, <2>3
  <2>5. alarmMap[a] = deadline[a]
    BY <2>1, <2>3, <2>4
  <2>. QED  BY <2>2, <2>3, <2>4, <2>5
<1>6. TypeOK'
  <2>1. now' \in Time /\ calls' \in 0..MaxCalls
    BY <1>1, <1>2, BoundAssumption
  <2>. QED  BY <1>1, <2>1 DEF TypeOK
<1>7. SameView'
  BY <1>1 DEF SameView, Sound
<1>8. TimerCovers'
  BY <1>1, <1>5 DEF TimerCovers, Armed
<1>9. EngineInv'
  BY <1>1, <1>2, <1>3, <1>5 DEF EngineInv, Armed
<1>. QED  BY <1>6, <1>7, <1>8, <1>9 DEF IInv

LEMMA InvStep == IInv /\ [Next]_vars => IInv'
<1>. SUFFICES ASSUME IInv, [Next]_vars
              PROVE  IInv'
  OBVIOUS
<1>1. CASE OnTimeout
  BY <1>1, InvOnTimeout
<1>2. CASE TimeoutDone
  BY <1>2, InvTimeoutDone
<1>3. CASE Shutdown
  BY <1>3, InvShutdown
<1>4. CASE Tick
  BY <1>4, InvTick
<1>5. ASSUME NEW a \in Alarm, OnAlarm(a)
      PROVE  IInv'
  BY <1>5, InvOnAlarm
<1>6. ASSUME NEW a \in Alarm, Set(a)
      PROVE  IInv'
  BY <1>6, InvSet
<1>7. ASSUME NEW a \in Alarm, Cancel(a)
      PROVE  IInv'
  BY <1>7, InvCancel
<1>8. ASSUME NEW a \in Alarm, Update(a)
      PROVE  IInv'
  BY <1>8, InvUpdate
<1>9. CASE UNCHANGED vars
  BY <1>9 DEF vars, IInv, TypeOK, SameView, TimerCovers, EngineInv, Sound, Armed
<1>. QED  BY <1>1, <1>2, <1>3, <1>4, <1>5, <1>6, <1>7, <1>8, <1>9 DEF Next

(* The inductive invariant holds in every reachable state. *)
THEOREM Invariance == Spec => []IInv
<1>. QED  BY InvInit, InvStep, PTL DEF Spec

(* Every variable of the engine keeps its type. *)
THEOREM TypeCorrect == Spec => []TypeOK
<1>1. IInv => TypeOK
  BY DEF IInv
<1>. QED  BY <1>1, Invariance, PTL

(* No wake-up is lost: outside OnTimeout the timer expires no later than the
   earliest entry of alarm_map_. *)
THEOREM NoLostWakeUp == Spec => []TimerCovers
<1>1. IInv => TimerCovers
  BY DEF IInv
<1>. QED  BY <1>1, Invariance, PTL

(* The deadline, registered_, all_alarms_ and alarm_map_ agree on which alarms
   are set. *)
THEOREM RecordsAgree == Spec => []SameView
<1>1. IInv => SameView
  BY DEF IInv
<1>. QED  BY <1>1, Invariance, PTL

-----------------------------------------------------------------------------
(* The refinement of AlarmClock. *)

LEMMA ClockInit == Init => Clock!Init
BY DEF Init, Clock!Init, Clock!None

(* A call of quiche sets, moves or cancels one alarm. *)
LEMMA ClockCall ==
  ASSUME IInv, NEW a \in Alarm, Set(a) \/ Cancel(a) \/ Update(a)
  PROVE  Clock!Set(a) \/ Clock!Cancel(a)
<1>1. deadline \in [Alarm -> Time \cup {None}]
  BY DEF IInv, TypeOK
<1>2. Calling
  BY DEF Set, Cancel, Update
<1>3. now' = now /\ ringing' = ringing
  BY <1>2 DEF Calling
<1>4. \/ \E timeout \in Time : deadline' = [deadline EXCEPT ![a] = timeout]
      \/ deadline' = [deadline EXCEPT ![a] = None]
  BY DEF Set, Cancel, Update
<1>5. CASE deadline' = [deadline EXCEPT ![a] = None]
  BY <1>3, <1>5 DEF Clock!Cancel, Clock!None
<1>6. ASSUME NEW timeout \in Time, deadline' = [deadline EXCEPT ![a] = timeout]
      PROVE  Clock!Set(a)
  <2>1. deadline'[a] = timeout /\ timeout \in Nat
    BY <1>1, <1>6, BoundAssumption
  <2>. QED  BY <1>3, <1>6, <2>1 DEF Clock!Set
<1>. QED  BY <1>4, <1>5, <1>6

(* An alarm rings only when it is set and due; a callback that finds its alarm
   cancelled is only the return of the one before. *)
LEMMA ClockFire ==
  ASSUME IInv, NEW a \in Alarm, OnAlarm(a)
  PROVE  Clock!Fire(a) \/ Clock!Return
<1>1. /\ deadline \in [Alarm -> Time \cup {None}]
      /\ ringing \cap cbs = {} /\ a \in cbs
      /\ deadline' = [deadline EXCEPT ![a] = None]
      /\ ringing' = IF deadline[a] # None THEN {a} ELSE {}
      /\ now' = now
  BY DEF IInv, TypeOK, EngineInv, OnAlarm
<1>2. deadline[a] <= now
  BY DEF IInv, EngineInv, OnAlarm, Sound
<1>3. CASE deadline[a] = None
  <2>1. deadline' = deadline
    BY <1>1, <1>3
  <2>. QED  BY <1>1, <1>3, <2>1 DEF Clock!Return
<1>4. CASE deadline[a] # None
  BY <1>1, <1>2, <1>4 DEF Clock!Fire, Clock!IsSet, Clock!None
<1>. QED  BY <1>3, <1>4

(* Time does not pass a deadline: a set alarm has an entry, the timer covers it,
   and what is not due is at its deadline. *)
LEMMA ClockTick ==
  ASSUME IInv, Tick
  PROVE  Clock!Tick
<1>1. /\ TypeOK /\ SameView /\ TimerCovers /\ EngineInv /\ Sound
      /\ pc = "outside" /\ timer # now /\ now' = now + 1
      /\ deadline' = deadline /\ ringing' = ringing
  BY DEF Tick, IInv, Sound
<1>2. now \in Nat /\ timer \in Int
  <2>1. now \in Time /\ timer \in Time \cup {None}
    BY <1>1 DEF TypeOK
  <2>. QED  BY <2>1, BoundAssumption
<1>3. ASSUME NEW a \in Alarm, deadline[a] # None
      PROVE  now < deadline[a]
  <2>1. a \in Armed(alarmMap)
    BY <1>1, <1>3 DEF SameView, EngineInv, Armed
  <2>2. now <= timer /\ timer <= alarmMap[a] /\ alarmMap[a] \in {now, deadline[a]}
    BY <1>1, <2>1 DEF TimerCovers, EngineInv
  <2>3. alarmMap[a] \in Int
    <3>1. alarmMap[a] \in Time \cup {None}
      BY <1>1 DEF TypeOK
    <3>. QED  BY <3>1, BoundAssumption
  <2>. QED  BY <1>1, <1>2, <2>2, <2>3
<1>. QED  BY <1>1, <1>3 DEF Clock!Tick, Clock!IsSet, Clock!None

LEMMA ClockStep == IInv /\ [Next]_vars => [Clock!Next]_<<now, deadline, ringing>>
<1>. SUFFICES ASSUME IInv, [Next]_vars
              PROVE  Clock!Next \/ (now' = now /\ deadline' = deadline /\ ringing' = ringing)
  OBVIOUS
<1>1. CASE OnTimeout
  BY <1>1 DEF OnTimeout
<1>2. CASE TimeoutDone
  BY <1>2 DEF TimeoutDone, Clock!Next, Clock!Return
<1>3. CASE Shutdown
  BY <1>3 DEF Shutdown
<1>4. CASE Tick
  BY <1>4, ClockTick DEF Clock!Next
<1>5. ASSUME NEW a \in Alarm, OnAlarm(a)
      PROVE  Clock!Next
  BY <1>5, ClockFire DEF Clock!Next
<1>6. ASSUME NEW a \in Alarm, Set(a) \/ Cancel(a) \/ Update(a)
      PROVE  Clock!Next
  BY <1>6, ClockCall DEF Clock!Next
<1>7. CASE UNCHANGED vars
  BY <1>7 DEF vars
<1>. QED  BY <1>1, <1>2, <1>3, <1>4, <1>5, <1>6, <1>7 DEF Next

(* The engine implements the ideal clock: an alarm fires at its deadline, never
   before, and not once it is cancelled, as long as the engine keeps going. *)
THEOREM ClockImplemented == Spec => ImplementsClock
<1>. QED  BY ClockInit, ClockStep, Invariance, PTL DEF Spec, ImplementsClock, Clock!Spec

=============================================================================
