---------------------------- MODULE AlarmEngine ----------------------------
(***************************************************************************)
(* The alarms of QUIC on ns-3's event scheduler                            *)
(* (quic/model/ns3-quic-alarm-engine.cc): Ns3Alarm, through BaseAlarm,     *)
(* keeps an entry in the multimap alarm_map_ of the engine, and one        *)
(* scheduled event, timer_, runs OnTimeout for all entries that are due.   *)
(*                                                                         *)
(* The calls of quiche (QuicAlarm::Set, Cancel, Update, in which Ns3Alarm  *)
(* plugs SetImpl, CancelImpl and UpdateImpl) come from other events of the *)
(* scheduler and from the callbacks of alarms that fire.  An entry of the  *)
(* multimap is identified by its alarm, and so is the iterator (the token) *)
(* that BaseAlarm keeps: it is valid while the alarm has an entry.         *)
(***************************************************************************)
EXTENDS Integers, FiniteSets

CONSTANTS
  Alarm,    (* the alarms of one connection, or of one server         *)
  Horizon,  (* bound: the last instant                                *)
  MaxCalls  (* bound: calls of quiche at one instant                  *)

ASSUME BoundAssumption == Horizon \in Nat /\ MaxCalls \in Nat

None == -1
Time == 0..Horizon

VARIABLES
  now,        (* Simulator::Now                                       *)
  deadline,   (* deadline[a]: QuicAlarm::deadline_, or None           *)
  alarmMap,   (* alarmMap[a]: the time of a's entry, or None          *)
  allAlarms,  (* the alarms all_alarms_ holds                         *)
  registered, (* registered[a]: BaseAlarm::registered_                *)
  timer,      (* when timer_ expires, None if it is not running       *)
  cbs,        (* in OnTimeout: the callbacks still to call            *)
  ringing,    (* the alarm whose callback runs, if any                *)
  pc,         (* "outside" OnTimeout, in it, or engine "destroyed"    *)
  fault,      (* "none", "assert" or "stale token"                    *)
  calls       (* calls of quiche at this instant                      *)

engine == <<alarmMap, allAlarms, registered, timer>>
vars == <<now, deadline, alarmMap, allAlarms, registered, timer, cbs, ringing, pc, fault, calls>>

Armed(map) == {a \in Alarm : map[a] # None}

(* The alarms whose entries alarm_map_ begins with. *)
First(map) == {a \in Armed(map) : \A b \in Armed(map) : map[a] <= map[b]}

-----------------------------------------------------------------------------
(* The engine. *)

(* Mutant (here and below, right before the definition it replaces): the event
   is scheduled with the absolute time as its delay. *)
UpdateTimerAbsolute(map) ==
  /\ timer' = IF Armed(map) = {} THEN None ELSE now + map[CHOOSE a \in First(map) : TRUE]
  /\ UNCHANGED fault

UpdateTimer(map) ==
  \/ Armed(map) = {} /\ timer' = None /\ UNCHANGED fault
  \/ \E a \in First(map) :
       IF now <= map[a] THEN timer' = map[a] /\ UNCHANGED fault
                        ELSE timer' = None /\ fault' = "assert"

(* Mutant: only a timer that is not running is started. *)
UpdateIfIdle(at, others, map) ==
  IF timer = None THEN UpdateTimer(map) ELSE UNCHANGED <<timer, fault>>

(* A call whose entry ends up in front of the others reschedules the timer. *)
UpdateIfEarlier(at, others, map) ==
  IF timer = None \/ \A b \in Armed(others) : at < others[b]
    THEN UpdateTimer(map)
    ELSE UNCHANGED <<timer, fault>>

RegisterAlarm(a, timeout) ==
  LET at == IF timeout < now THEN now ELSE timeout
      map == IF a \in allAlarms THEN alarmMap ELSE [alarmMap EXCEPT ![a] = at]
  IN /\ alarmMap' = map
     /\ allAlarms' = allAlarms \cup {a}
     /\ registered' = [registered EXCEPT ![a] = @ \/ a \notin allAlarms]
     /\ UpdateIfEarlier(at, alarmMap, map)

(* An iterator that was erased is used: undefined behaviour. *)
StaleToken == fault' = "stale token" /\ UNCHANGED engine

(* Mutant: the alarm stays in all_alarms_. *)
UnregisterAlarmForgets(a) ==
  /\ alarmMap' = [alarmMap EXCEPT ![a] = None]
  /\ registered' = [registered EXCEPT ![a] = FALSE]
  /\ UNCHANGED <<allAlarms, timer, fault>>

UnregisterAlarm(a) ==
  /\ alarmMap' = [alarmMap EXCEPT ![a] = None]
  /\ allAlarms' = allAlarms \ {a}
  /\ registered' = [registered EXCEPT ![a] = FALSE]
  /\ UNCHANGED <<timer, fault>>

(* The entry is erased and inserted again.  If no other entry is left in
   between, NS_ASSERT (!alarm_map_.empty ()) fails. *)
ReregisterAlarm(a, timeout) ==
  LET others == [alarmMap EXCEPT ![a] = None]
      map == [alarmMap EXCEPT ![a] = timeout]
  IN IF Armed(others) = {}
       THEN fault' = "assert" /\ UNCHANGED engine
       ELSE /\ alarmMap' = map
            /\ UpdateIfEarlier(timeout, others, map)
            /\ UNCHANGED <<allAlarms, registered>>

(* Mutants: what is due next is taken along; what is due now is not. *)
DueNext == {a \in Armed(alarmMap) : alarmMap[a] <= now + 1}
DueBefore == {a \in Armed(alarmMap) : alarmMap[a] < now}

(* The event of the timer: all entries that are due are taken out. *)
Due == {a \in Armed(alarmMap) : alarmMap[a] <= now}

(* Mutant: all_alarms_ keeps what is taken out. *)
OnTimeoutKeeps ==
  /\ fault = "none" /\ pc = "outside" /\ timer = now
  /\ pc' = "OnTimeout"
  /\ timer' = None
  /\ cbs' = Due
  /\ alarmMap' = [a \in Alarm |-> IF a \in Due THEN None ELSE alarmMap[a]]
  /\ UNCHANGED <<now, deadline, allAlarms, registered, ringing, fault, calls>>

OnTimeout ==
  /\ fault = "none" /\ pc = "outside" /\ timer = now
  /\ pc' = "OnTimeout"
  /\ timer' = None
  /\ cbs' = Due
  /\ alarmMap' = [a \in Alarm |-> IF a \in Due THEN None ELSE alarmMap[a]]
  /\ allAlarms' = allAlarms \ Due
  /\ UNCHANGED <<now, deadline, registered, ringing, fault, calls>>

(* The callbacks of these entries, one by one.  QuicAlarm::Fire resets the
   deadline, and calls the delegate unless it was reset before. *)
OnAlarm(a) ==
  /\ fault = "none" /\ pc = "OnTimeout" /\ a \in cbs
  /\ cbs' = cbs \ {a}
  /\ registered' = [registered EXCEPT ![a] = FALSE]
  /\ deadline' = [deadline EXCEPT ![a] = None]
  /\ ringing' = IF deadline[a] # None THEN {a} ELSE {}
  /\ UNCHANGED <<now, alarmMap, allAlarms, timer, pc, fault, calls>>

(* The end of OnTimeout.  No visitor is ever set. *)
TimeoutDone ==
  /\ fault = "none" /\ pc = "OnTimeout" /\ cbs = {}
  /\ UpdateTimer(alarmMap)
  /\ ringing' = {}
  /\ pc' = "outside"
  /\ UNCHANGED <<now, deadline, alarmMap, allAlarms, registered, cbs, calls>>

(* The destructor.  The timer is not cancelled, but the simulator is at its end. *)
Shutdown ==
  /\ fault = "none" /\ pc = "outside"
  /\ alarmMap' = [a \in Alarm |-> None]
  /\ allAlarms' = allAlarms \ Armed(alarmMap)
  /\ registered' = [a \in Alarm |-> registered[a] /\ a \notin Armed(alarmMap)]
  /\ pc' = "destroyed"
  /\ UNCHANGED <<now, deadline, timer, cbs, ringing, fault, calls>>

-----------------------------------------------------------------------------
(* QuicAlarm, from an event or from a callback. *)
Calling ==
  /\ fault = "none" /\ calls < MaxCalls
  /\ pc = "outside" \/ ringing # {}
  /\ calls' = calls + 1
  /\ UNCHANGED <<now, cbs, ringing, pc>>

(* Set, or Update of an alarm that is not set. *)
Set(a) ==
  \E timeout \in Time :
    /\ Calling
    /\ deadline[a] = None
    /\ deadline' = [deadline EXCEPT ![a] = timeout]
    /\ RegisterAlarm(a, timeout)

(* Cancel, and the destructor of an alarm. *)
Cancel(a) ==
  /\ Calling
  /\ deadline[a] # None
  /\ deadline' = [deadline EXCEPT ![a] = None]
  /\ IF ~registered[a] THEN UNCHANGED <<engine, fault>>
     ELSE IF alarmMap[a] = None THEN StaleToken
     ELSE UnregisterAlarm(a)

Update(a) ==
  \E timeout \in Time :
    /\ Calling
    /\ deadline[a] \notin {None, timeout}
    /\ deadline' = [deadline EXCEPT ![a] = timeout]
    /\ IF ~registered[a] THEN RegisterAlarm(a, timeout)
       ELSE IF alarmMap[a] = None THEN StaleToken
       ELSE ReregisterAlarm(a, timeout)

(* Time passes when no event is left at this instant. *)
Tick ==
  /\ fault = "none" /\ pc = "outside" /\ timer # now
  /\ now < Horizon
  /\ now' = now + 1
  /\ calls' = 0
  /\ UNCHANGED <<deadline, engine, cbs, ringing, pc, fault>>

Init ==
  /\ now = 0
  /\ deadline = [a \in Alarm |-> None]
  /\ alarmMap = [a \in Alarm |-> None]
  /\ allAlarms = {}
  /\ registered = [a \in Alarm |-> FALSE]
  /\ timer = None
  /\ cbs = {} /\ ringing = {} /\ pc = "outside"
  /\ fault = "none"
  /\ calls = 0

Next ==
  \/ OnTimeout \/ TimeoutDone \/ Shutdown \/ Tick
  \/ \E a \in Alarm : OnAlarm(a) \/ Set(a) \/ Cancel(a) \/ Update(a)

Spec == Init /\ [][Next]_vars

(* The scheduler runs every event, OnTimeout runs to its end, and quiche makes
   finitely many calls at one instant. *)
FairSpec ==
  /\ Spec
  /\ WF_vars(OnTimeout) /\ WF_vars(TimeoutDone) /\ WF_vars(Tick)
  /\ \A a \in Alarm : WF_vars(OnAlarm(a))

-----------------------------------------------------------------------------
TypeOK ==
  /\ now \in Time
  /\ deadline \in [Alarm -> Time \cup {None}]
  /\ alarmMap \in [Alarm -> Time \cup {None}]
  /\ allAlarms \subseteq Alarm
  /\ registered \in [Alarm -> BOOLEAN]
  /\ timer \in Time \cup {None}
  /\ cbs \subseteq Alarm /\ ringing \subseteq Alarm
  /\ pc \in {"outside", "OnTimeout", "destroyed"}
  /\ fault \in {"none", "assert", "stale token"}
  /\ calls \in 0..MaxCalls

Sound == fault = "none" /\ pc # "destroyed"

(* No wake-up is lost: outside OnTimeout, the timer expires no later than the
   earliest entry.  (It may expire earlier: UnregisterAlarm leaves it alone.) *)
TimerCovers ==
  Sound /\ pc = "outside" =>
    \A a \in Armed(alarmMap) : now <= timer /\ timer <= alarmMap[a]

(* The four places that say whether an alarm is set agree, except for those
   that OnTimeout took out and has not called yet. *)
SameView ==
  Sound => \A a \in Alarm :
    /\ deadline[a] # None <=> registered[a]
    /\ registered[a] <=> a \in allAlarms \cup cbs
    /\ a \in allAlarms <=> alarmMap[a] # None
    /\ a \in allAlarms => alarmMap[a] >= deadline[a] /\ a \notin cbs

(* The inductive invariant.  Nothing in the map is overdue, nor is the timer, an
   entry that is not due is at its alarm's deadline, and what OnTimeout has taken
   out is due and has not rung. *)
EngineInv ==
  /\ pc # "OnTimeout" => cbs = {} /\ ringing = {}
  /\ ringing \cap cbs = {}
  /\ Sound => /\ \A a \in Armed(alarmMap) : now <= alarmMap[a] /\ alarmMap[a] \in {now, deadline[a]}
              /\ \A a \in cbs : deadline[a] <= now
              /\ timer # None => now <= timer

IInv == TypeOK /\ SameView /\ TimerCovers /\ EngineInv

(* The engine never uses the iterator of an entry it erased ("If the alarm was
   registered, unregister it.", ns3-quic-alarm-engine.cc:168). *)
NoStaleToken == fault # "stale token"

(* The engine implements the ideal clock: no alarm fires before its deadline,
   time does not pass a deadline, and no cancelled alarm fires. *)
Clock == INSTANCE AlarmClock
ImplementsClock == Clock!Spec

(* Every alarm that is set fires or is cancelled. *)
EveryAlarmEnds ==
  \A a \in Alarm : deadline[a] # None ~> deadline[a] = None \/ ~Sound
=============================================================================
