------------------------------ MODULE QuicAlarm ------------------------------
(***************************************************************************)
(* One alarm of the ported QUIC: QuicAlarm (quic/core/quic_alarm.cc) with  *)
(* QuicChromeAlarm (quic/chromium/quic_chromium_alarm_factory.cc) under    *)
(* it.  The alarm was written for a message loop whose tasks cannot be     *)
(* withdrawn; the port runs it on the events of the simulator, which can.  *)
(* Times are microseconds of the simulator; 0 is QuicTime::Zero(), "not    *)
(* initialized".                                                           *)
(***************************************************************************)
EXTENDS Integers, FiniteSets

CONSTANTS
  StartTime,      \* when the application that owns the alarm starts
  MaxTime,        \* bound: the last time anything is asked for or happens
  SmallDelay,     \* a shorter delay is no delay (10 in the code)
  Granularities,  \* the granularities Update is called with
  Calls,          \* what the owner does: "set", "cancel", "earlier", "later"
  Uids            \* bound: identities of simulator events

ASSUME AlarmConstants ==
  /\ StartTime \in Nat \ {0}
  /\ MaxTime \in Nat
  /\ SmallDelay \in Nat
  /\ Granularities \subseteq Nat
  /\ 0 \notin Uids

VARIABLES
  now,    \* Simulator::Now()
  alarm,  \* deadline_, task_deadline_ and id of the alarm
  events, \* events of this alarm that the simulator still has to run
  asked,  \* history: the deadline last accepted, and when
  fired   \* history: the last invocation of the delegate

alarmVars == <<now, alarm, events, asked, fired>>

Times == 0 .. MaxTime
Alarms == [deadline : Nat, task_deadline : Nat, id : Uids \cup {0}]
Request == [deadline : Nat, at : Nat]
Firing == [at : Nat, deadline : Nat, asked_at : Nat]

Larger(a, b) == IF a > b THEN a ELSE b
Distance(a, b) == IF a > b THEN a - b ELSE b - a

IsSet == alarm.deadline # 0

AlarmInit ==
  /\ now = StartTime
  /\ alarm = [deadline |-> 0, task_deadline |-> 0, id |-> 0]
  /\ events = {}
  /\ asked = [deadline |-> 0, at |-> 0]
  /\ fired = [at |-> 0, deadline |-> 0, asked_at |-> 0]

-----------------------------------------------------------------------------
(* The simulator's side of one call, on the alarm a and its events E.      *)

\* SetImpl returns early: the task already posted is relied on to set the
\* alarm again when it runs before the deadline.
TaskSuffices(a, d) == a.task_deadline # 0 /\ a.task_deadline <= d

\* A mutant: the delay is rounded to the simulator's clock more coarsely.
CoarseTaskTime(d) == IF d - now < 2 * SmallDelay THEN now ELSE d

\* When the event of a new task runs, which also becomes the deadline.
TaskTime(d) == IF d - now < SmallDelay THEN now ELSE d

\* SetImpl for deadline d, if a new event is posted, gets identity u.
SetImpl(a, E, d, u) ==
  IF TaskSuffices(a, d)
  THEN /\ alarm' = [a EXCEPT !.deadline = d]
       /\ events' = E
  ELSE /\ alarm' = [deadline |-> TaskTime(d), task_deadline |-> TaskTime(d),
                    id |-> u]
       /\ events' = E \cup {[uid |-> u, at |-> TaskTime(d)]}

Running(a) == \E e \in events : e.uid = a.id

\* A mutant: as its comment says, the task is not withdrawn.
CancelNothing(a) == events

\* CancelImpl: the events left once the event the alarm remembers is
\* cancelled.  The deadline of the task is not forgotten.
CancelImpl(a) == {e \in events : e.uid # a.id}

Cancelled(a) == [a EXCEPT !.deadline = 0, !.id = IF Running(a) THEN 0 ELSE @]

FreeUids(E) == Uids \ {e.uid : e \in E}

-----------------------------------------------------------------------------
(* The calls of the owner.                                                 *)

\* Set, "must not be called while the alarm is set".
Set(d) ==
  /\ "set" \in Calls
  /\ ~IsSet
  /\ \E u \in FreeUids(events) : SetImpl(alarm, events, d, u)
  /\ asked' = [deadline |-> d, at |-> now]
  /\ UNCHANGED <<now, fired>>

\* Cancel, also Update with a deadline that is not initialized.
Cancel ==
  /\ "cancel" \in Calls
  /\ IsSet
  /\ alarm' = Cancelled(alarm)
  /\ events' = CancelImpl(alarm)
  /\ UNCHANGED <<now, asked, fired>>

\* Update to another deadline.  A set alarm is cancelled and set again.
Update(d, granularity) ==
  /\ \/ "later" \in Calls
     \/ "earlier" \in Calls /\ (IsSet => d < alarm.deadline)
  /\ Distance(d, alarm.deadline) >= granularity
  /\ \/ /\ IsSet
        /\ \E u \in FreeUids(CancelImpl(alarm)) :
             SetImpl(Cancelled(alarm), CancelImpl(alarm), d, u)
     \/ /\ ~IsSet
        /\ \E u \in FreeUids(events) : SetImpl(alarm, events, d, u)
  /\ asked' = [deadline |-> d, at |-> now]
  /\ UNCHANGED <<now, fired>>

-----------------------------------------------------------------------------
(* The simulator runs its events in the order of their times.              *)

\* An event runs OnAlarm: nothing if the alarm was cancelled, set again if its
\* deadline was moved, and otherwise the delegate is invoked.
OnAlarm(e) ==
  /\ e.at = now
  /\ LET left == events \ {e}
         idle == [alarm EXCEPT !.task_deadline = 0]
     IN  IF IsSet /\ now >= alarm.deadline
         THEN /\ alarm' = [idle EXCEPT !.deadline = 0]
              /\ events' = left
              /\ fired' = [at |-> now, deadline |-> asked.deadline,
                           asked_at |-> asked.at]
         ELSE /\ IF IsSet
                 THEN \E u \in FreeUids(left) :
                        SetImpl(idle, left, alarm.deadline, u)
                 ELSE /\ alarm' = idle
                      /\ events' = left
              /\ UNCHANGED fired
  /\ UNCHANGED <<now, asked>>

Tick ==
  /\ now < MaxTime
  /\ \A e \in events : e.at > now
  /\ now' = now + 1
  /\ UNCHANGED <<alarm, events, asked, fired>>

RunEvent == \E e \in events : OnAlarm(e)

AlarmNext ==
  \/ \E d \in Times \ {0} : Set(d)
  \/ Cancel
  \/ \E d \in Times \ {0}, g \in Granularities : Update(d, g)
  \/ RunEvent
  \/ Tick

AlarmSpec == AlarmInit /\ [][AlarmNext]_alarmVars

\* The simulator runs whatever is scheduled, and time passes.
FairSpec == AlarmSpec /\ WF_alarmVars(RunEvent) /\ WF_alarmVars(Tick)

-----------------------------------------------------------------------------
\* Times, deadlines and events have the values the code can give them.
AlarmTypeOK ==
  /\ now \in Nat
  /\ alarm \in Alarms
  /\ events \subseteq [uid : Uids, at : Nat]
  /\ asked \in Request
  /\ fired \in Firing

\* The alarm never has two events in the simulator, and the one it has is the
\* one it remembers and can cancel, even though SetImpl overwrites id and the
\* weak pointers it invalidates do not stop an event of the simulator.
OneTask ==
  \A e \in events :
    /\ e.uid = alarm.id
    /\ e.at = alarm.task_deadline
    /\ events = {e}

\* An alarm that is cancelled or whose deadline moved leaves nothing behind:
\* the delegate is invoked for the last deadline asked for, less than
\* SmallDelay before it and never after it, or at once for one in the past.
FiresOnTime ==
  fired.at # 0 =>
    /\ fired.deadline < fired.at + Larger(SmallDelay, 1)
    /\ fired.at <= Larger(fired.deadline, fired.asked_at)

\* A set alarm goes off, unless its owner cancels it.
AlarmGoesOff == IsSet ~> ~IsSet
=============================================================================
