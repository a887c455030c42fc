-------------------------- MODULE InputPreemption --------------------------
(***************************************************************************)
(* Input::Update and OnInputChanged in single steps.  The thread of the    *)
(* YardForce cover UI has a lower priority than the services and takes no  *)
(* lock: between any two of its steps another input may change on the      *)
(* input service's thread, and main or the emergency service may poll.     *)
(* Those have the higher priority and are not interrupted by it, except    *)
(* that a poll's time is read before it waits for the inputs' mutex.       *)
(*                                                                         *)
(* One lift input belongs to the cover UI, one ("gpio") to the input       *)
(* service's thread.  The flags and num_active_lift_ are atomic, the       *)
(* refcount of a redundancy group and active_since are not.                *)
(***************************************************************************)
EXTENDS Integers

CONSTANTS
  Delay,       \* emergency_delay_ms of the cover UI's input
  MaxTime,     \* bound on the clock
  MaxUpdates   \* bound on the changes of the cover UI's input

ASSUME PreemptionConstants ==
  {Delay, MaxTime, MaxUpdates} \subseteq Nat

VARIABLES
  grouped,   \* configuration: the two inputs form a redundancy group
  clock,
  step,      \* cover UI thread: "idle", "stamp", "load", "count", "store", "read", "multiple"
  lift, lift_since, lift_pending,   \* of the cover UI's input
  gpio,      \* active of the other input
  count,     \* num_active_lift_ (8 bits)
  rc, reg,   \* the group's refcount (8 bits) and the cover UI thread's copy
  two,       \* local: num_active_lift_ >= 2
  multiple,  \* active of the virtual input lift_multiple_input_
  changed,   \* INPUTS_CHANGED raised and not yet fetched
  poll, now, \* a poll: "no", or "main"/"service" with the time it has read
  owed,      \* history: the input was active for Delay and is not yet reported
  updates

liftVars == <<lift, lift_since, lift_pending>>
countVars == <<count, rc, multiple>>
pollVars == <<poll, now>>
preemptionVars == <<grouped, clock, step, liftVars, gpio, countVars, reg, two,
                    changed, pollVars, owed, updates>>

PreemptionInit ==
  /\ grouped \in BOOLEAN
  /\ clock = 0 /\ step = "idle" /\ lift = FALSE /\ lift_since = 0
  /\ lift_pending = FALSE /\ gpio = FALSE /\ count = 0 /\ rc = 0 /\ reg = 0
  /\ two = FALSE /\ multiple = FALSE /\ changed = FALSE /\ poll = "no" /\ now = 0
  /\ owed = FALSE /\ updates = 0

ClockStep ==
  /\ clock < MaxTime /\ clock' = clock + 1
  /\ UNCHANGED <<grouped, step, liftVars, gpio, countVars, reg, two, changed, pollVars,
                 owed, updates>>

-----------------------------------------------------------------------------
\* Input::Update, called by UpdateEmergencyInputs: the exchange of active ...
Exchange ==
  /\ step = "idle" /\ updates < MaxUpdates /\ updates' = updates + 1
  /\ lift' = ~lift /\ step' = "stamp"
  /\ UNCHANGED <<grouped, clock, lift_since, lift_pending, gpio, countVars, reg, two,
                 changed, pollVars, owed>>

\* Deviation: the new level is tested the wrong way round.
LongPressInverted == lift /\ clock - lift_since >= Delay

LongPress == ~lift /\ clock - lift_since >= Delay

\* ... then the time it became active, or the emergency of a long press.
Stamp ==
  /\ step = "stamp" /\ step' = IF grouped THEN "load" ELSE "count"
  /\ lift_since' = IF lift THEN clock ELSE lift_since
  /\ lift_pending' = (lift_pending \/ LongPress)
  /\ owed' = (owed \/ (~lift /\ clock - lift_since >= Delay))
  /\ UNCHANGED <<grouped, clock, lift, gpio, countVars, reg, two, changed, pollVars, updates>>

Counted(n, up) == (n + (IF up THEN 1 ELSE -1)) % 256

\* OnInputChanged for an input in a group: the refcount is loaded, ...
LoadRefcount ==
  /\ step = "load" /\ reg' = rc
  /\ step' = IF lift /\ rc = 0 THEN "count" ELSE "store"
  /\ UNCHANGED <<grouped, clock, liftVars, gpio, countVars, two, changed, pollVars, owed, updates>>

\* num_active_lift_ changes, for an input of a group only with the first or the
\* last active member (the compiler may load the refcount again after it), ...
CountLift ==
  /\ step = "count" /\ count' = Counted(count, lift)
  /\ step' = IF grouped /\ lift THEN "store" ELSE "read"
  /\ reg' \in {reg, rc}
  /\ UNCHANGED <<grouped, clock, liftVars, gpio, rc, multiple, two, changed, pollVars,
                 owed, updates>>

\* and the refcount is stored.
StoreRefcount ==
  /\ step = "store" /\ rc' = Counted(reg, lift)
  /\ step' = IF ~lift /\ rc' = 0 THEN "count" ELSE "read"
  /\ UNCHANGED <<grouped, clock, liftVars, gpio, count, multiple, reg, two, changed,
                 pollVars, owed, updates>>

\* The virtual input's new level is computed, then it follows and main is told.
ReadCount ==
  /\ step = "read" /\ step' = "multiple" /\ two' = (count >= 2)
  /\ UNCHANGED <<grouped, clock, liftVars, gpio, countVars, reg, changed, pollVars, owed, updates>>

UpdateMultiple ==
  /\ step = "multiple" /\ step' = "idle" /\ multiple' = two /\ changed' = TRUE
  /\ UNCHANGED <<grouped, clock, liftVars, gpio, count, rc, reg, two, pollVars, owed, updates>>

CoverUiThread ==
  Stamp \/ LoadRefcount \/ CountLift \/ StoreRefcount \/ ReadCount \/ UpdateMultiple

\* Input::Update of the other input, by a thread that is not interrupted.
GpioUpdate ==
  /\ gpio' = ~gpio
  /\ rc' = IF grouped THEN Counted(rc, gpio') ELSE rc
  /\ count' = IF grouped /\ (IF gpio' THEN rc ELSE rc') # 0 THEN count ELSE Counted(count, gpio')
  /\ multiple' = (count' >= 2) /\ changed' = TRUE
  /\ UNCHANGED <<grouped, clock, step, liftVars, reg, two, pollVars, owed, updates>>

-----------------------------------------------------------------------------
\* CheckInputs reads the time: main after INPUTS_CHANGED, the emergency
\* service's thread at any time.
StartPoll(who) ==
  /\ poll = "no" /\ poll' = who /\ now' = clock
  /\ IF who = "main" THEN changed /\ changed' = FALSE ELSE UNCHANGED changed
  /\ UNCHANGED <<grouped, clock, step, liftVars, gpio, countVars, reg, two, owed, updates>>

\* GetEmergencyReasons: the unsigned difference of a time read too early is
\* larger than any delay.
FinishPoll ==
  /\ poll # "no" /\ poll' = "no"
  /\ lift_pending' = FALSE
  /\ owed' = (owed /\ ~lift_pending
                   /\ ~(lift /\ (now - lift_since >= Delay \/ now < lift_since)))
  /\ UNCHANGED <<grouped, clock, step, lift, lift_since, gpio, countVars, reg, two, changed,
                 now, updates>>

PreemptionNext ==
  \/ ClockStep \/ Exchange \/ CoverUiThread \/ GpioUpdate
  \/ StartPoll("main") \/ StartPoll("service") \/ FinishPoll

PreemptionSpec == PreemptionInit /\ [][PreemptionNext]_preemptionVars

-----------------------------------------------------------------------------
\* A press that lasted its delay is reported, wherever a poll hits the steps
\* of Update: between the exchange of active and the pending emergency there
\* is a moment in which neither shows it.
LongPressReported == owed ~> ~owed

\* The comment in OnInputChanged on redundancy groups: "count the group as one
\* lift, regardless of how many members are active".
GroupCountsAsOne ==
  step = "idle" /\ grouped => count = IF lift \/ gpio THEN 1 ELSE 0
=============================================================================
