----------------------- MODULE EmergencyServiceProofs -----------------------
(***************************************************************************)
(* Proofs about EmergencyService, for any inputs, configurations, delays,  *)
(* periods and messages.                                                   *)
(*                                                                         *)
(* The argument rests on Promised: what reasons_ will be once the calls    *)
(* of UpdateEmergency that hold or wait for mtx_ are served in their       *)
(* order.  Serving a call does not change it (ServeKeepsPromise), and a    *)
(* call that enters acts on it at once (EnterPromises), so the checks can  *)
(* be looked at as if they took effect where they are computed.            *)
(***************************************************************************)
EXTENDS EmergencyService, InputServiceProofs, SequenceTheorems, WellFoundedInduction

\* The set r after the call thread t is in.
After(r, t) == IF call[t].at = "update" THEN (r \ call[t].clear) \cup call[t].add ELSE r

Promised ==
    IF mtx_queue = << >> THEN reasons
    ELSE IF Len(mtx_queue) = 1 THEN After(reasons, mtx_queue[1])
    ELSE After(After(reasons, mtx_queue[1]), mtx_queue[2])

-----------------------------------------------------------------------------
(* The parts of the inductive invariant.                                   *)

\* A thread is in the queue of mtx_ exactly while it is in a call.
QueueInv ==
    /\ call["emergency"] # NoCall <=>
           mtx_queue \in {<<"emergency">>, <<"emergency", "main">>, <<"main", "emergency">>}
    /\ call["main"] # NoCall <=>
           mtx_queue \in {<<"main">>, <<"emergency", "main">>, <<"main", "emergency">>}

\* A service that is stopped sleeps, and one that sleeps has no checks to make.
ThreadInv ==
    /\ running \/ asleep
    /\ asleep => checks["emergency"] = {}
    /\ checks["main"] \subseteq {"inputs"}

\* Clock differences are the true durations until these reach the clock's range.
\* A press that is injected is dated back; no time passes before its release.
ClockInv ==
    /\ silence < Wrap => MessageAge = silence
    /\ \A i \in Slots : active[i] /\ i \notin injecting /\ held[i] < Wrap => ActiveDuration(i) = held[i]
    /\ \A i \in injecting : active[i] => held[i] = 0
    /\ injecting # {} => calm = 0
    /\ \A i, j \in injecting : i = j

\* The virtual inputs exist as soon as any input does.
SlotsInv ==
    /\ \A i \in Slots : active[i] => i \in all_inputs
    /\ all_inputs # {} => {lift_multiple_input, collision_multiple_input} \subseteq all_inputs

\* A pending emergency is recent, and main is going to look at it.
PendingInv ==
    Pending # {} => calm = 0 /\ (inputs_changed \/ "inputs" \in checks["main"])

LatchInv ==
    latch_owed => "LATCH" \in Promised \/ \E i \in Pending : "LATCH" \in config[i].reason

\* The ticks the service sleeps, or will sleep after the checks made so far.
Rest == IF asleep THEN sleep ELSE block_time

\* Check c has been made since the service woke up.
Checked(c) == running /\ IF asleep THEN sleep > 0 ELSE c \notin checks["emergency"]

\* An input is reported, or the service wakes up before it has to be.
InputWatched(i) ==
    \/ held[i] >= config[i].delay /\ config[i].reason \subseteq Promised
    \/ held[i] + Rest <= StatusPeriod
    \/ held[i] + Rest <= config[i].delay

ReportInv ==
    Checked("inputs") => \A i \in Watched : active[i] /\ held[i] < Wrap => InputWatched(i)

\* The reasons that inputs give are exact, and will be when the service wakes up,
\* unless something changed after the check.
InputsExact ==
    /\ Promised \cap CheckedInputReasons = UNION {config[i].reason \ {"LATCH"} : i \in TimedOut}
    /\ \A i \in Waiting : held[i] + Rest <= config[i].delay

ExactInv ==
    Checked("inputs") /\ (\A i \in Slots : active[i] => held[i] < Wrap) =>
        calm + Rest <= StatusPeriod \/ InputsExact

TimeoutInv ==
    /\ ~running => "TIMEOUT_HIGH_LEVEL" \in Promised
    /\ Checked("timeouts") /\ silence < Wrap =>
          /\ "TIMEOUT_HIGH_LEVEL" \in Promised <=> silence >= HlTimeout
          /\ "TIMEOUT_INPUTS" \notin Promised
          /\ silence < HlTimeout => silence + Rest <= HlTimeout

ReadyInv ==
    Checked("services") =>
        calm + Rest <= StatusPeriod \/ ("SERVICE_NOT_READY" \in Promised <=> ~AllReady)

StateInv ==
    TypeOK /\ CountersAgree /\ MultipleNeedsTwo /\ QueueInv /\ ThreadInv /\ ClockInv /\ SlotsInv

EmergencyInv ==
    StateInv /\ PendingInv /\ LatchInv /\ ReportInv /\ ExactInv /\ TimeoutInv /\ ReadyInv

-----------------------------------------------------------------------------
(* The queue of mtx_.                                                      *)

Calls == [at : {"none", "update", "status"},
          add : SUBSET EmergencyReasons, clear : SUBSET EmergencyReasons]
Queues == {<< >>, <<"emergency">>, <<"main">>, <<"emergency", "main">>, <<"main", "emergency">>}
CallsOK == call \in [Threads -> Calls] /\ mtx_queue \in Queues /\ QueueInv

\* Two threads queue up.
LEMMA AppendSecond == ASSUME NEW t, NEW u PROVE Append(<<u>>, t) = <<u, t>>
<1> DEFINE S == {u, t}
           a == Append(<<u>>, t)
           b == <<u, t>>
<1>1. <<u>> \in Seq(S) /\ b \in Seq(S) /\ t \in S
    OBVIOUS
<1>2. a \in Seq(S) /\ Len(a) = 2 /\ a[1] = u /\ a[2] = t
    BY <1>1, AppendProperties
<1>3. Len(b) = 2 /\ b[1] = u /\ b[2] = t
    OBVIOUS
<1> HIDE DEF a, b, S
<1>4. Len(a) = Len(b) /\ \A i \in 1..Len(a) : a[i] = b[i]
    BY <1>2, <1>3
<1>5. a = b
    BY <1>1, <1>2, <1>4, SeqEqual
<1> QED
    BY <1>5 DEF a, b

\* The queue seen from a thread that is not in it.
LEMMA NotQueued ==
    ASSUME CallsOK, NEW t \in Threads, call[t] = NoCall
    PROVE  mtx_queue = << >> \/ \E u \in Threads \ {t} : mtx_queue = <<u>> /\ call[u] # NoCall
BY DEF CallsOK, QueueInv, Queues, Threads

\* The queue seen from the thread that holds mtx_.
LEMMA FirstQueued ==
    ASSUME CallsOK, NEW t \in Threads, mtx_queue # << >>, Head(mtx_queue) = t
    PROVE  /\ call[t] # NoCall
           /\ \/ mtx_queue = <<t>> /\ \A u \in Threads \ {t} : call[u] = NoCall
              \/ \E u \in Threads \ {t} : mtx_queue = <<t, u>> /\ call[u] # NoCall
BY DEF CallsOK, QueueInv, Queues, Threads

\* Promised in each shape of the queue.
LEMMA PromisedCases ==
    /\ mtx_queue = << >> => Promised = reasons
    /\ \A t : mtx_queue = <<t>> => Promised = After(reasons, t)
    /\ \A t, u : mtx_queue = <<t, u>> => Promised = After(After(reasons, t), u)
BY DEF Promised

\* What the queue is for a thread that enters it, and for one that leaves it.
LEMMA QueueInvCases ==
    ASSUME NEW t \in Threads, NEW u \in Threads \ {t}
    PROVE  /\ mtx_queue = << >> => (QueueInv <=> call[t] = NoCall /\ call[u] = NoCall)
           /\ mtx_queue = <<t>> => (QueueInv <=> call[t] # NoCall /\ call[u] = NoCall)
           /\ mtx_queue = <<t, u>> => (QueueInv <=> call[t] # NoCall /\ call[u] # NoCall)
BY DEF QueueInv, Threads

\* The same after a step.
LEMMA NextCases ==
    ASSUME NEW t \in Threads, NEW u \in Threads \ {t}
    PROVE  /\ mtx_queue' = << >> => /\ Promised' = reasons'
                                    /\ QueueInv' <=> call'[t] = NoCall /\ call'[u] = NoCall
           /\ mtx_queue' = <<t>> => /\ Promised' = After(reasons, t)'
                                   /\ QueueInv' <=> call'[t] # NoCall /\ call'[u] = NoCall
           /\ mtx_queue' = <<t, u>> => /\ Promised' = (After(After(reasons, t), u))'
                                      /\ QueueInv' <=> call'[t] # NoCall /\ call'[u] # NoCall
<1>1. /\ mtx_queue' = << >> => Promised' = reasons'
      /\ mtx_queue' = <<t>> => Promised' = After(reasons, t)'
      /\ mtx_queue' = <<t, u>> => Promised' = (After(After(reasons, t), u))'
    <2>1. ASSUME mtx_queue' = << >> PROVE Promised' = reasons'
        BY <2>1 DEF Promised
    <2>2. ASSUME mtx_queue' = <<t>> PROVE Promised' = After(reasons, t)'
        <3>1. mtx_queue' # << >> /\ Len(mtx_queue') = 1 /\ mtx_queue'[1] = t
            BY <2>2
        <3>2. Promised' = After(reasons, mtx_queue[1])'
            BY <3>1 DEF Promised
        <3> QED
            BY <3>1, <3>2 DEF After
    <2>3. ASSUME mtx_queue' = <<t, u>> PROVE Promised' = (After(After(reasons, t), u))'
        <3>1. mtx_queue' # << >> /\ Len(mtx_queue') = 2 /\ mtx_queue'[1] = t /\ mtx_queue'[2] = u
            BY <2>3
        <3>2. Promised' = (After(After(reasons, mtx_queue[1]), mtx_queue[2]))'
            BY <3>1 DEF Promised
        <3> QED
            BY <3>1, <3>2 DEF After
    <2> QED
        BY <2>1, <2>2, <2>3
<1>2. /\ mtx_queue' = << >> => (QueueInv' <=> call'[t] = NoCall /\ call'[u] = NoCall)
      /\ mtx_queue' = <<t>> => (QueueInv' <=> call'[t] # NoCall /\ call'[u] = NoCall)
      /\ mtx_queue' = <<t, u>> => (QueueInv' <=> call'[t] # NoCall /\ call'[u] # NoCall)
    BY DEF QueueInv, Threads
<1> QED
    BY <1>1, <1>2

\* A call that enters takes effect on what is promised at once.
LEMMA EnterPromises ==
    ASSUME CallsOK, NEW t \in Threads, NEW c \in Calls \ {NoCall}, Enter(t, c), reasons' = reasons
    PROVE  /\ CallsOK'
           /\ Promised' = IF c.at = "update" THEN (Promised \ c.clear) \cup c.add ELSE Promised
<1>1. /\ call[t] = NoCall /\ call' = [call EXCEPT ![t] = c]
      /\ mtx_queue' = Append(mtx_queue, t) /\ call \in [Threads -> Calls]
    BY DEF Enter, CallsOK
<1>2. /\ call' \in [Threads -> Calls] /\ call'[t] = c
      /\ \A u \in Threads \ {t} : call'[u] = call[u]
    BY <1>1
<1>3. PICK u \in Threads \ {t} : TRUE
    BY DEF Threads
<1>4. \A v \in Threads \ {t} : v = u
    BY <1>3 DEF Threads
<1>5. CASE mtx_queue = << >>
    <2>1. mtx_queue' = <<t>>
        BY <1>1, <1>5
    <2>2. call[u] = NoCall
        BY <1>3, <1>5, QueueInvCases DEF CallsOK
    <2>3. QueueInv' /\ Promised' = After(reasons, t)'
        BY <1>2, <1>3, <2>1, <2>2, NextCases
    <2>4. Promised = reasons
        BY <1>5, PromisedCases
    <2>5. mtx_queue' \in Queues
        BY <2>1 DEF Queues, Threads
    <2> QED
        BY <1>2, <2>3, <2>4, <2>5 DEF After, CallsOK
<1>6. CASE mtx_queue = <<u>>
    <2>1. mtx_queue' = <<u, t>>
        BY <1>1, <1>6, AppendSecond
    <2>2. call[u] # NoCall
        BY <1>3, <1>6, QueueInvCases DEF CallsOK
    <2>3. t \in Threads \ {u}
        BY <1>3
    <2>4. QueueInv' /\ Promised' = (After(After(reasons, u), t))'
        BY <1>2, <1>3, <2>1, <2>2, <2>3, NextCases
    <2>5. Promised = After(reasons, u)
        BY <1>6, PromisedCases
    <2>6. mtx_queue' \in Queues
        BY <1>3, <2>1 DEF Queues, Threads
    <2>7. After(reasons, u)' = After(reasons, u)
        BY <1>2, <1>3 DEF After
    <2>8. (After(After(reasons, u), t))' =
            IF c.at = "update" THEN (After(reasons, u)' \ c.clear) \cup c.add ELSE After(reasons, u)'
        BY <1>2 DEF After
    <2> QED
        BY <1>2, <2>4, <2>5, <2>6, <2>7, <2>8 DEF CallsOK
<1> QED
    BY <1>1, <1>4, <1>5, <1>6, NotQueued

\* Serving a call of UpdateEmergency or SendStatus keeps the promise.
LEMMA ServeKeepsPromise ==
    ASSUME CallsOK, reasons \subseteq EmergencyReasons, NEW t \in Threads,
           UpdateEmergency(t) \/ SendStatus(t)
    PROVE  CallsOK' /\ Promised' = Promised /\ reasons' \subseteq EmergencyReasons
<1>1. /\ mtx_queue # << >> /\ Head(mtx_queue) = t /\ call[t].at \in {"update", "status"}
      /\ call \in [Threads -> Calls]
    BY DEF UpdateEmergency, SendStatus, CallsOK
<1>2. reasons' = After(reasons, t)
    BY DEF UpdateEmergency, SendStatus, After, emergencyVars
<1>3. NoCall \in Calls /\ StatusCall \in Calls /\ StatusCall # NoCall
      /\ NoCall.at = "none" /\ StatusCall.at = "status"
    BY DEF NoCall, StatusCall, Calls
<1>4. PICK u \in Threads \ {t} : \A v \in Threads \ {t} : v = u
    BY DEF Threads
<1>5. reasons' \subseteq EmergencyReasons
    BY <1>1, <1>2 DEF After, Calls
<1>6. CASE call' = [call EXCEPT ![t] = NoCall] /\ mtx_queue' = Tail(mtx_queue)
    <2>1. call' \in [Threads -> Calls] /\ call'[t] = NoCall /\ call'[u] = call[u]
        BY <1>1, <1>3, <1>4, <1>6
    <2>2. CASE mtx_queue = <<t>> /\ call[u] = NoCall
        <3>1. mtx_queue' = << >>
            BY <1>6, <2>2
        <3> QED
            BY <1>2, <1>4, <1>5, <2>1, <2>2, <3>1, NextCases, PromisedCases DEF CallsOK, Queues
    <2>3. CASE mtx_queue = <<t, u>> /\ call[u] # NoCall
        <3>1. mtx_queue' = <<u>>
            BY <1>6, <2>3
        <3>2. QueueInv' /\ Promised' = After(reasons, u)'
            BY <1>4, <2>1, <2>3, <3>1, NextCases
        <3>3. After(reasons, u)' = After(reasons', u)
            BY <2>1 DEF After
        <3>4. Promised = After(After(reasons, t), u)
            BY <2>3, PromisedCases
        <3> QED
            BY <1>2, <1>4, <1>5, <2>1, <3>1, <3>2, <3>3, <3>4 DEF CallsOK, Queues, Threads
    <2> QED
        BY <1>1, <1>4, <2>2, <2>3, FirstQueued
<1>7. CASE call' = [call EXCEPT ![t] = StatusCall] /\ mtx_queue' = Append(Tail(mtx_queue), t)
    <2>1. call' \in [Threads -> Calls] /\ call'[t] = StatusCall /\ call'[u] = call[u]
        BY <1>1, <1>3, <1>4, <1>7
    <2>2. CASE mtx_queue = <<t>> /\ call[u] = NoCall
        <3>1. mtx_queue' = <<t>>
            BY <1>7, <2>2
        <3>2. QueueInv' /\ Promised' = After(reasons, t)'
            BY <1>3, <1>4, <2>1, <2>2, <3>1, NextCases
        <3>3. After(reasons, t)' = reasons'
            BY <1>3, <2>1 DEF After
        <3> QED
            BY <1>2, <1>5, <2>1, <2>2, <3>1, <3>2, <3>3, PromisedCases DEF CallsOK, Queues, Threads
    <2>3. CASE mtx_queue = <<t, u>> /\ call[u] # NoCall
        <3>1. mtx_queue' = <<u, t>>
            BY <1>7, <2>3, AppendSecond
        <3>2. t \in Threads \ {u}
            BY <1>4
        <3>3. QueueInv' /\ Promised' = (After(After(reasons, u), t))'
            BY <1>3, <1>4, <2>1, <2>3, <3>1, <3>2, NextCases
        <3>4. (After(After(reasons, u), t))' = After(reasons', u)
            BY <1>3, <2>1 DEF After
        <3>5. Promised = After(After(reasons, t), u)
            BY <2>3, PromisedCases
        <3> QED
            BY <1>2, <1>4, <1>5, <2>1, <3>1, <3>3, <3>4, <3>5 DEF CallsOK, Queues, Threads
    <2> QED
        BY <1>1, <1>4, <2>2, <2>3, FirstQueued
<1> QED
    BY <1>6, <1>7 DEF UpdateEmergency, SendStatus

-----------------------------------------------------------------------------
(* The clock and the block time.                                           *)

\* Differences of a clock that wraps around.
LEMMA ModDiff ==
    ASSUME NEW a \in 0..(Wrap - 1), NEW b \in 0..(Wrap - 1)
    PROVE  /\ (a - b) % Wrap = IF a >= b THEN a - b ELSE a - b + Wrap
           /\ (a - b) % Wrap \in 0..(Wrap - 1)
           /\ (a - a) % Wrap = 0
BY InputConstantsAssumption

\* A tick makes a clock difference one longer, unless it starts over.
LEMMA ModTick ==
    ASSUME NEW a \in 0..(Wrap - 1), NEW b \in 0..(Wrap - 1), ((a - b) % Wrap) + 1 < Wrap
    PROVE  (((a + 1) % Wrap) - b) % Wrap = ((a - b) % Wrap) + 1
<1> DEFINE c == (a + 1) % Wrap
<1>1. c = IF a + 1 = Wrap THEN 0 ELSE a + 1
    BY InputConstantsAssumption
<1>2. c \in 0..(Wrap - 1)
    BY <1>1, InputConstantsAssumption
<1>3. (c - b) % Wrap = IF c >= b THEN c - b ELSE c - b + Wrap
    BY <1>2, ModDiff
<1>4. (a - b) % Wrap = IF a >= b THEN a - b ELSE a - b + Wrap
    BY ModDiff
<1> HIDE DEF c
<1>5. (c - b) % Wrap = ((a - b) % Wrap) + 1
    BY <1>1, <1>3, <1>4, InputConstantsAssumption
<1> QED
    BY <1>5 DEF c

\* A set of natural numbers has a least one.
LEMMA LeastElement ==
    ASSUME NEW S \in SUBSET Nat, S # {}
    PROVE  \E m \in S : \A k \in S : m <= k
<1> DEFINE R == OpToRel(<, Nat)
<1>1. IsWellFoundedOn(R, Nat)
    BY NatLessThanWellFounded, Zenon
<1>2. \A x, y \in Nat : <<y, x>> \in R <=> y < x
    BY DEF OpToRel
<1> HIDE DEF R
<1>3. PICK m \in S : \A k \in S : ~(<<k, m>> \in R)
    BY <1>1, WFMin
<1>4. m \in Nat /\ \A k \in S : k \in Nat /\ ~(k < m)
    BY <1>2, <1>3
<1> QED
    BY <1>4

\* The block time CheckInputs returns: never longer than asked for, and over
\* before the delay of any waiting input is.
LEMMA BlockTimeBounds ==
    ASSUME InputTypeOK, NEW bound \in Nat
    PROVE  /\ InputBlockTime(bound) \in 0..bound
           /\ Pending # {} => InputBlockTime(bound) = 0
           /\ Pending = {} => \A i \in Waiting :
                                InputBlockTime(bound) <= config[i].delay - ActiveDuration(i)
<1> DEFINE left(i) == config[i].delay - ActiveDuration(i)
           S == {bound} \cup {left(i) : i \in Waiting}
           Good(b) == (b = bound \/ \E i \in Waiting : b = left(i)) /\ \A i \in Waiting : b <= left(i)
<1>1. ASSUME NEW i \in Waiting PROVE left(i) \in Nat
    <2>1. i \in Slots /\ ActiveDuration(i) < config[i].delay
        BY DEF Waiting, Watched, InputTypeOK
    <2>2. micros \in 0..(Wrap - 1) /\ active_since[i] \in 0..(Wrap - 1) /\ config[i].delay \in 0..(Wrap - 1)
        BY <2>1 DEF InputTypeOK, InputConfig
    <2>3. ActiveDuration(i) \in 0..(Wrap - 1)
        BY <2>2, ModDiff DEF ActiveDuration
    <2> HIDE DEF ActiveDuration
    <2> QED
        BY <2>1, <2>2, <2>3, InputConstantsAssumption
<1>2. S \in SUBSET Nat /\ bound \in S
    BY <1>1
<1>3. PICK m \in S : \A k \in S : m <= k
    BY <1>2, LeastElement
<1>4. m \in 0..bound /\ Good(m)
    BY <1>2, <1>3
<1>5. Pending = {} => InputBlockTime(bound) = CHOOSE b \in 0..bound : Good(b)
    BY DEF InputBlockTime
<1>6. Pending = {} => InputBlockTime(bound) \in 0..bound /\ Good(InputBlockTime(bound))
    BY <1>4, <1>5
<1>7. Pending # {} => InputBlockTime(bound) = 0
    BY DEF InputBlockTime
<1> QED
    BY <1>6, <1>7

-----------------------------------------------------------------------------
(* What the checks find.                                                   *)

\* The reasons of an input are reasons of CheckInputs and LATCH.
LEMMA InputReasonsFacts ==
    ASSUME InputTypeOK, NEW i \in Slots
    PROVE  /\ config[i].reason \subseteq CheckedInputReasons \cup {"LATCH"}
           /\ config[i].reason \cap CheckedInputReasons = config[i].reason \ {"LATCH"}
           /\ config[i].delay \in 0..(Wrap - 1)
           /\ ActiveDuration(i) \in 0..(Wrap - 1)
<1>1. config[i] \in InputConfig /\ micros \in 0..(Wrap - 1) /\ active_since[i] \in 0..(Wrap - 1)
    BY DEF InputTypeOK
<1>2. ActiveDuration(i) \in 0..(Wrap - 1)
    BY <1>1, ModDiff DEF ActiveDuration
<1>3. /\ config[i].reason \subseteq InputReasons \cup {"LIFT_MULTIPLE", "COLLISION_MULTIPLE"}
      /\ config[i].delay \in 0..(Wrap - 1)
    BY <1>1 DEF InputConfig
<1> QED
    BY <1>2, <1>3 DEF InputReasons, CheckedInputReasons

\* So are the reasons CheckInputs adds.
LEMMA CheckedReasons ==
    ASSUME InputTypeOK
    PROVE  /\ GetEmergencyReasons \subseteq CheckedInputReasons \cup {"LATCH"}
           /\ Pending = {} => GetEmergencyReasons \cap CheckedInputReasons =
                                UNION {config[i].reason \ {"LATCH"} : i \in TimedOut}
<1>1. Watched \subseteq Slots
    BY DEF Watched, InputTypeOK
<1>2. Pending \cup TimedOut \subseteq Slots
    BY <1>1 DEF Pending, TimedOut
<1>3. GetEmergencyReasons \subseteq CheckedInputReasons \cup {"LATCH"}
    BY <1>2, InputReasonsFacts DEF GetEmergencyReasons
<1>4. ASSUME Pending = {}
      PROVE  GetEmergencyReasons \cap CheckedInputReasons =
               UNION {config[i].reason \ {"LATCH"} : i \in TimedOut}
    <2>1. \A i \in TimedOut : config[i].reason \cap CheckedInputReasons = config[i].reason \ {"LATCH"}
        BY <1>2, InputReasonsFacts
    <2>2. GetEmergencyReasons = UNION {config[i].reason : i \in TimedOut}
        BY <1>4 DEF GetEmergencyReasons
    <2> QED
        BY <2>1, <2>2
<1> QED
    BY <1>3, <1>4

\* An input that was held for its delay is found by CheckInputs.
LEMMA HeldIsFound ==
    ASSUME StateInv, NEW i \in Watched, active[i], held[i] < Wrap, held[i] >= config[i].delay
    PROVE  config[i].reason \subseteq GetEmergencyReasons
<1>1. i \in Slots
    BY DEF StateInv, TypeOK, InputTypeOK, Watched
<1>2. held[i] \in Nat /\ config[i].delay \in Nat /\ ActiveDuration(i) \in Nat
    BY <1>1, InputReasonsFacts, InputConstantsAssumption DEF StateInv, TypeOK
<1>3. i \notin injecting => ActiveDuration(i) = held[i]
    BY <1>1 DEF StateInv, ClockInv
<1>4. i \in injecting => held[i] = 0
    BY DEF StateInv, ClockInv
<1> HIDE DEF ActiveDuration
<1>5. ActiveDuration(i) >= config[i].delay
    BY <1>2, <1>3, <1>4
<1>6. i \in Pending \cup TimedOut
    BY <1>5 DEF Pending, TimedOut
<1> QED
    BY <1>6 DEF GetEmergencyReasons

\* A step that changes neither the inputs nor the clock.
SameInputs ==
    UNCHANGED <<micros, input_running, inputs_configured, all_inputs, config, active, active_since,
                emergency_pending, injecting>>

\* The inputs seen after such a step.
LEMMA InputsFrame ==
    ASSUME SameInputs
    PROVE  /\ Watched' = Watched /\ Pending' = Pending /\ TimedOut' = TimedOut /\ Waiting' = Waiting
           /\ \A i : ActiveDuration(i)' = ActiveDuration(i)
           /\ AllReady' = (others_healthy' /\ input_running /\ inputs_configured)
           /\ micros' = micros /\ config' = config /\ active' = active /\ all_inputs' = all_inputs
           /\ injecting' = injecting
<1>1. /\ Watched' = Watched /\ \A i : ActiveDuration(i)' = ActiveDuration(i)
    BY DEF SameInputs, Watched, ActiveDuration
<1>2. Pending' = Pending
    BY <1>1 DEF SameInputs, Pending
<1> HIDE DEF ActiveDuration
<1>3. TimedOut' = TimedOut /\ Waiting' = Waiting
    BY <1>1, <1>2 DEF SameInputs, TimedOut, Waiting
<1> QED
    BY <1>1, <1>2, <1>3 DEF SameInputs, AllReady

LEMMA InputVarsFrame ==
    ASSUME UNCHANGED inputVars PROVE SameInputs /\ inputs_changed' = inputs_changed
BY DEF inputVars, configVars, stateVars, SameInputs

-----------------------------------------------------------------------------
(* What steps of the threads leave alone.                                  *)

\* The types that no thread step disturbs by itself.
LEMMA TypeParts ==
    TypeOK <=> /\ InputTypeOK /\ reasons \subseteq EmergencyReasons /\ last_message \in 0..(Wrap - 1)
               /\ running \in BOOLEAN /\ others_healthy \in BOOLEAN
               /\ checks \in [Threads -> SUBSET AllChecks]
               /\ call \in [Threads -> Calls] /\ mtx_queue \in Queues
               /\ block_time \in 0..StatusPeriod /\ asleep \in BOOLEAN /\ sleep \in 0..StatusPeriod
               /\ held \in [Slots -> 0..Wrap] /\ silence \in 0..Wrap /\ calm \in 0..StatusPeriod
               /\ latch_owed \in BOOLEAN
BY DEF TypeOK, Calls, Queues

LEMMA TypePartsNext ==
    TypeOK' <=> /\ InputTypeOK' /\ reasons' \subseteq EmergencyReasons /\ last_message' \in 0..(Wrap - 1)
                /\ running' \in BOOLEAN /\ others_healthy' \in BOOLEAN
                /\ checks' \in [Threads -> SUBSET AllChecks]
                /\ call' \in [Threads -> Calls] /\ mtx_queue' \in Queues
                /\ block_time' \in 0..StatusPeriod /\ asleep' \in BOOLEAN /\ sleep' \in 0..StatusPeriod
                /\ held' \in [Slots -> 0..Wrap] /\ silence' \in 0..Wrap /\ calm' \in 0..StatusPeriod
                /\ latch_owed' \in BOOLEAN
BY DEF TypeOK, Calls, Queues

LEMMA StateFacts ==
    ASSUME StateInv
    PROVE  InputInv /\ CallsOK /\ TypeOK /\ reasons \subseteq EmergencyReasons
BY TypeParts DEF StateInv, InputInv, CallsOK

\* Inputs that do not change stay well formed.
LEMMA InputPart ==
    ASSUME StateInv, UNCHANGED inputVars
    PROVE  InputInv' /\ SlotsInv'
<1>1. InputInv'
    BY StateFacts, InputInvStep
<1>2. SlotsInv'
    BY InputsFrame, InputVarsFrame DEF StateInv, SlotsInv
<1> QED
    BY <1>1, <1>2

LEMMA ClockPart ==
    ASSUME StateInv, UNCHANGED inputVars, UNCHANGED <<last_message, held, silence, calm>>
    PROVE  ClockInv'
<1>1. MessageAge' = MessageAge /\ \A i : ActiveDuration(i)' = ActiveDuration(i)
    BY InputsFrame, InputVarsFrame DEF MessageAge
<1> HIDE DEF ActiveDuration, MessageAge
<1> QED
    BY <1>1, InputsFrame, InputVarsFrame DEF StateInv, ClockInv

\* A call of UpdateEmergency that is served, and a step that does nothing here.
LEMMA Steady ==
    ASSUME EmergencyInv, CallsOK', reasons' \subseteq EmergencyReasons, Promised' = Promised,
           UNCHANGED <<inputVars, last_message, running, others_healthy, checks, block_time,
                       asleep, sleep, historyVars>>
    PROVE  EmergencyInv'
<1> USE DEF historyVars
<1>1. StateInv'
    <2>1. InputInv' /\ SlotsInv' /\ ClockInv'
        BY InputPart, ClockPart DEF EmergencyInv
    <2>2. TypeOK'
        BY <2>1, TypeParts, TypePartsNext DEF EmergencyInv, StateInv, InputInv, CallsOK
    <2>3. ThreadInv'
        BY DEF EmergencyInv, StateInv, ThreadInv
    <2> QED
        BY <2>1, <2>2, <2>3 DEF StateInv, InputInv, CallsOK
<1>2. PendingInv' /\ LatchInv'
    BY InputsFrame, InputVarsFrame DEF EmergencyInv, PendingInv, LatchInv
<1>3. Rest' = Rest /\ \A c : Checked(c)' = Checked(c)
    BY DEF Rest, Checked
<1> HIDE DEF Rest, Checked
<1>4. ReportInv'
    BY <1>3, InputsFrame, InputVarsFrame DEF EmergencyInv, ReportInv, InputWatched
<1>5. ExactInv'
    BY <1>3, InputsFrame, InputVarsFrame DEF EmergencyInv, ExactInv, InputsExact
<1>6. TimeoutInv'
    BY <1>3, InputsFrame, InputVarsFrame DEF EmergencyInv, TimeoutInv
<1>7. ReadyInv'
    BY <1>3, InputsFrame, InputVarsFrame DEF EmergencyInv, ReadyInv, AllReady
<1> QED
    BY <1>1, <1>2, <1>4, <1>5, <1>6, <1>7 DEF EmergencyInv

LEMMA ServeStep ==
    ASSUME EmergencyInv, NEW t \in Threads, UpdateEmergency(t) \/ SendStatus(t)
    PROVE  EmergencyInv'
<1>1. CallsOK' /\ Promised' = Promised /\ reasons' \subseteq EmergencyReasons
    BY StateFacts, ServeKeepsPromise DEF EmergencyInv
<1>2. UNCHANGED <<inputVars, last_message, running, others_healthy, checks, block_time,
                  asleep, sleep, historyVars>>
    BY DEF UpdateEmergency, SendStatus, emergencyVars
<1> QED
    BY <1>1, <1>2, Steady

LEMMA StutterStep ==
    ASSUME EmergencyInv, UNCHANGED vars PROVE EmergencyInv'
<1>1. UNCHANGED <<inputVars, last_message, running, others_healthy, checks, block_time,
                  asleep, sleep, historyVars>> /\ UNCHANGED <<reasons, call, mtx_queue>>
    BY DEF vars, emergencyVars, threadVars
<1>2. CallsOK' /\ reasons' \subseteq EmergencyReasons
    BY <1>1, StateFacts DEF EmergencyInv, CallsOK, QueueInv
<1>3. Promised' = Promised
    BY <1>1 DEF Promised, After
<1> QED
    BY <1>1, <1>2, <1>3, Steady

\* Sums get no longer when their parts do not.
LEMMA Shorter ==
    ASSUME NEW a \in Nat, NEW b \in Nat, a <= b, NEW y \in Nat, NEW n \in Nat, y + b <= n
    PROVE  y + a <= n /\ \A x \in Nat : x <= y => x + a <= n
OBVIOUS

LEMMA Fresh ==
    ASSUME NEW c, c = 0, NEW r \in 0..StatusPeriod PROVE c + r <= StatusPeriod
BY EmergencyConstantsAssumption

\* The ticks and counts that the parts of the invariant add up.
LEMMA Numbers ==
    ASSUME TypeOK
    PROVE  /\ Rest \in 0..StatusPeriod /\ calm \in Nat /\ silence \in Nat /\ StatusPeriod \in Nat
           /\ HlTimeout \in Nat /\ Wrap \in Nat
           /\ \A i \in Slots : held[i] \in Nat /\ config[i].delay \in Nat
           /\ Watched \subseteq Slots /\ Pending \subseteq Watched /\ TimedOut \subseteq Watched
           /\ Waiting \subseteq Watched
<1>1. \A i \in Slots : held[i] \in Nat /\ config[i].delay \in Nat
    BY TypeParts, InputReasonsFacts, InputConstantsAssumption
<1>2. /\ Watched \subseteq Slots /\ Pending \subseteq Watched /\ TimedOut \subseteq Watched
      /\ Waiting \subseteq Watched
    BY TypeParts DEF Watched, Pending, TimedOut, Waiting, InputTypeOK
<1>3. Rest \in 0..StatusPeriod
    BY TypeParts DEF Rest
<1> QED
    BY <1>1, <1>2, <1>3, TypeParts, InputConstantsAssumption, EmergencyConstantsAssumption

\* ReportInv and ExactInv survive a step that leaves the inputs and their reasons
\* alone and does not make the service sleep longer.
LEMMA InputsKept ==
    ASSUME EmergencyInv, SameInputs, UNCHANGED held, Rest' \in Nat, calm' \in Nat,
           Checked("inputs")' =>
               /\ Checked("inputs") /\ Rest' <= Rest /\ calm' <= calm
               /\ \A x \in CheckedInputReasons \cup {"LATCH"} : x \in Promised <=> x \in Promised'
    PROVE  ReportInv' /\ ExactInv'
<1>1. TypeOK /\ InputTypeOK
    BY TypeParts DEF EmergencyInv, StateInv
<1>2. \A i \in Watched : config[i].reason \subseteq CheckedInputReasons \cup {"LATCH"}
    BY <1>1, Numbers, InputReasonsFacts
<1>3. SUFFICES ASSUME Checked("inputs")' PROVE ReportInv' /\ ExactInv'
    BY DEF ReportInv, ExactInv
<1>4. /\ Checked("inputs") /\ Rest' <= Rest /\ calm' <= calm
      /\ \A x \in CheckedInputReasons \cup {"LATCH"} : x \in Promised <=> x \in Promised'
    BY <1>3
<1>5. /\ Rest \in Nat /\ calm \in Nat /\ StatusPeriod \in Nat
      /\ \A i \in Watched : i \in Slots /\ held[i] \in Nat /\ config[i].delay \in Nat
      /\ Waiting \subseteq Watched
    BY <1>1, Numbers
<1> HIDE DEF Rest, Checked
<1>6. ReportInv'
    <2> SUFFICES ASSUME NEW i \in Watched', active'[i], held'[i] < Wrap PROVE InputWatched(i)'
        BY DEF ReportInv
    <2>1. i \in Watched /\ active[i] /\ held[i] < Wrap /\ config'[i] = config[i] /\ held'[i] = held[i]
        BY InputsFrame
    <2>2. InputWatched(i)
        BY <1>4, <2>1 DEF EmergencyInv, ReportInv
    <2>3. config[i].reason \subseteq Promised => config'[i].reason \subseteq Promised'
        BY <1>2, <1>4, <2>1
    <2>4. held[i] \in Nat /\ config[i].delay \in Nat
        BY <1>5, <2>1
    <2> QED
        BY <1>4, <1>5, <2>1, <2>2, <2>3, <2>4 DEF InputWatched
<1>7. ExactInv'
    <2> SUFFICES ASSUME \A i \in Slots : active'[i] => held'[i] < Wrap
                 PROVE  calm' + Rest' <= StatusPeriod \/ InputsExact'
        BY DEF ExactInv
    <2>1. calm + Rest <= StatusPeriod \/ InputsExact
        BY <1>4, InputsFrame DEF EmergencyInv, ExactInv
    <2>2. CASE calm + Rest <= StatusPeriod
        BY <1>4, <1>5, <2>2, Shorter, Zenon
    <2>3. CASE InputsExact
        <3>1. Promised' \cap CheckedInputReasons = Promised \cap CheckedInputReasons
            BY <1>4
        <3>2. ASSUME NEW i \in Waiting PROVE held[i] + Rest' <= config[i].delay
            <4>1. held[i] + Rest <= config[i].delay
                BY <2>3, Zenon DEF InputsExact
            <4>2. i \in Watched /\ held[i] \in Nat /\ config[i].delay \in Nat
                BY <1>5
            <4>3. Rest' \in Nat /\ Rest \in Nat /\ Rest' <= Rest
                BY <1>4, <1>5
            <4> QED
                BY <4>1, <4>2, <4>3
        <3> QED
            BY <2>3, <3>1, <3>2, InputsFrame DEF InputsExact
    <2> QED
        BY <2>1, <2>2, <2>3
<1> QED
    BY <1>6, <1>7

\* TimeoutInv likewise.
LEMMA TimeoutKept ==
    ASSUME EmergencyInv, UNCHANGED silence, Rest' \in Nat,
           ~running' => "TIMEOUT_HIGH_LEVEL" \in Promised',
           Checked("timeouts")' =>
               /\ Checked("timeouts") /\ Rest' <= Rest
               /\ "TIMEOUT_HIGH_LEVEL" \in Promised <=> "TIMEOUT_HIGH_LEVEL" \in Promised'
               /\ "TIMEOUT_INPUTS" \in Promised <=> "TIMEOUT_INPUTS" \in Promised'
    PROVE  TimeoutInv'
<1>1. SUFFICES ASSUME Checked("timeouts")', silence < Wrap
               PROVE  /\ "TIMEOUT_HIGH_LEVEL" \in Promised' <=> silence >= HlTimeout
                      /\ "TIMEOUT_INPUTS" \notin Promised'
                      /\ silence < HlTimeout => silence + Rest' <= HlTimeout
    BY DEF TimeoutInv
<1>2. Checked("timeouts") /\ Rest' <= Rest
    BY <1>1
<1>3. Rest \in Nat /\ silence \in Nat /\ HlTimeout \in Nat
    BY Numbers DEF EmergencyInv, StateInv
<1> HIDE DEF Rest, Checked
<1>4. silence < HlTimeout => silence + Rest <= HlTimeout
    BY <1>1, <1>2 DEF EmergencyInv, TimeoutInv
<1>5. silence < HlTimeout => silence + Rest' <= HlTimeout
    BY <1>2, <1>3, <1>4, Shorter, Zenon
<1> QED
    BY <1>1, <1>2, <1>5 DEF EmergencyInv, TimeoutInv

\* And ReadyInv.
LEMMA ReadyKept ==
    ASSUME EmergencyInv, Rest' \in Nat, calm' \in Nat, AllReady' = AllReady,
           Checked("services")' =>
               /\ Checked("services") /\ Rest' <= Rest /\ calm' <= calm
               /\ "SERVICE_NOT_READY" \in Promised <=> "SERVICE_NOT_READY" \in Promised'
    PROVE  ReadyInv'
<1>1. SUFFICES ASSUME Checked("services")', ~(calm' + Rest' <= StatusPeriod)
               PROVE  "SERVICE_NOT_READY" \in Promised' <=> ~AllReady
    BY DEF ReadyInv
<1>2. Checked("services") /\ Rest' <= Rest /\ calm' <= calm
    BY <1>1
<1>3. Rest \in Nat /\ calm \in Nat /\ StatusPeriod \in Nat
    BY Numbers DEF EmergencyInv, StateInv
<1> HIDE DEF Rest, Checked, AllReady
<1>4. ~(calm + Rest <= StatusPeriod)
    BY <1>1, <1>2, <1>3, Shorter, Zenon
<1> QED
    BY <1>1, <1>2, <1>4 DEF EmergencyInv, ReadyInv

-----------------------------------------------------------------------------
(* The checks.                                                             *)

\* A check takes effect on what is promised, and is made.
LEMMA CheckFacts ==
    ASSUME StateInv, NEW t \in Threads, NEW c \in AllChecks, NEW add \in SUBSET EmergencyReasons,
           NEW clear \in SUBSET EmergencyReasons, Check(t, c, add, clear)
    PROVE  /\ CallsOK' /\ Promised' = (Promised \ clear) \cup add
           /\ c \in checks[t] /\ checks'[t] = checks[t] \ {c}
           /\ \A u \in Threads \ {t} : checks'[u] = checks[u]
           /\ checks' \in [Threads -> SUBSET AllChecks]
           /\ UNCHANGED <<reasons, last_message, running, others_healthy, asleep, sleep, held,
                          silence, calm, latch_owed>>
           /\ ThreadInv'
           /\ t = "emergency" => running /\ ~asleep
<1>1. /\ c \in checks[t] /\ checks' = [checks EXCEPT ![t] = @ \ {c}]
      /\ Enter(t, UpdateCall(add, clear))
      /\ UNCHANGED <<reasons, last_message, running, others_healthy, asleep, sleep, held,
                     silence, calm, latch_owed>>
    BY DEF Check, emergencyVars, historyVars
<1>2. checks \in [Threads -> SUBSET AllChecks] /\ ThreadInv
    BY TypeParts DEF StateInv
<1>3. /\ checks'[t] = checks[t] \ {c} /\ \A u \in Threads \ {t} : checks'[u] = checks[u]
      /\ checks' \in [Threads -> SUBSET AllChecks]
    BY <1>1, <1>2
<1>4. ThreadInv'
    BY <1>1, <1>2, <1>3 DEF ThreadInv, Threads
<1>5. t = "emergency" => running /\ ~asleep
    BY <1>1, <1>2 DEF ThreadInv
<1>6. UpdateCall(add, clear) \in Calls \ {NoCall} /\ UpdateCall(add, clear).at = "update"
      /\ UpdateCall(add, clear).add = add /\ UpdateCall(add, clear).clear = clear
    BY DEF UpdateCall, Calls, NoCall
<1>7. CallsOK' /\ Promised' = (Promised \ clear) \cup add
    <2> DEFINE uc == UpdateCall(add, clear)
    <2> HIDE DEF uc
    <2>1. uc \in Calls \ {NoCall} /\ uc.at = "update" /\ uc.add = add /\ uc.clear = clear /\ Enter(t, uc)
        BY <1>1, <1>6 DEF uc
    <2> QED
        BY <1>1, <2>1, StateFacts, EnterPromises
<1> QED
    BY <1>1, <1>3, <1>4, <1>5, <1>7

\* CheckTimeouts.
LEMMA TimeoutsStep ==
    ASSUME EmergencyInv, CheckTimeouts PROVE EmergencyInv'
<1> DEFINE add == IF MessageAge >= HlTimeout THEN {"TIMEOUT_HIGH_LEVEL"} ELSE {}
           clear == {"TIMEOUT_HIGH_LEVEL", "TIMEOUT_INPUTS"}
<1>0. StateInv /\ TypeOK /\ UNCHANGED inputVars
    BY DEF EmergencyInv, StateInv, CheckTimeouts
<1>1. /\ CallsOK' /\ Promised' = (Promised \ clear) \cup add
      /\ "timeouts" \in checks["emergency"]
      /\ checks'["emergency"] = checks["emergency"] \ {"timeouts"}
      /\ checks'["main"] = checks["main"]
      /\ checks' \in [Threads -> SUBSET AllChecks]
      /\ UNCHANGED <<reasons, last_message, running, others_healthy, asleep, sleep, held,
                     silence, calm, latch_owed>>
      /\ ThreadInv' /\ running /\ ~asleep
    <2>1. Check("emergency", "timeouts", add, clear)
        BY DEF CheckTimeouts
    <2>2. /\ "emergency" \in Threads /\ "timeouts" \in AllChecks /\ "main" \in Threads \ {"emergency"}
          /\ add \in SUBSET EmergencyReasons /\ clear \in SUBSET EmergencyReasons
        BY DEF Threads, AllChecks, EmergencyReasons
    <2> HIDE DEF add, clear
    <2> QED
        BY <1>0, <2>1, <2>2, CheckFacts
<1>2. MessageAge \in 0..(Wrap - 1) /\ (silence < Wrap => MessageAge = silence)
    BY <1>0, TypeParts, ModDiff DEF MessageAge, InputTypeOK, StateInv, ClockInv
<1>3. /\ block_time' \in 0..StatusPeriod /\ block_time' <= block_time
      /\ MessageAge < HlTimeout => MessageAge + block_time' <= HlTimeout
    <2>1. block_time' = IF MessageAge >= HlTimeout THEN block_time
                        ELSE Minimum(block_time, HlTimeout - MessageAge)
        BY DEF CheckTimeouts
    <2>2. block_time \in 0..StatusPeriod
        BY <1>0, TypeParts
    <2> HIDE DEF MessageAge
    <2> QED
        BY <1>2, <2>1, <2>2, InputConstantsAssumption, EmergencyConstantsAssumption DEF Minimum
<1> HIDE DEF MessageAge
<1>4. StateInv'
    <2>1. InputInv' /\ SlotsInv' /\ ClockInv'
        BY <1>0, <1>1, InputPart, ClockPart
    <2>2. TypeOK'
        BY <1>0, <1>1, <1>3, <2>1, TypeParts, TypePartsNext DEF InputInv, CallsOK
    <2> QED
        BY <1>1, <2>1, <2>2 DEF StateInv, InputInv, CallsOK
<1>5. PendingInv'
    BY <1>0, <1>1, InputsFrame, InputVarsFrame DEF EmergencyInv, PendingInv
<1>6. LatchInv'
    BY <1>0, <1>1, InputsFrame, InputVarsFrame DEF EmergencyInv, LatchInv
<1>7. Rest' <= Rest /\ Rest \in Nat /\ Rest' \in Nat /\ Rest' = block_time'
    BY <1>0, <1>1, <1>3, TypeParts, EmergencyConstantsAssumption DEF Rest
<1>8. \A c \in AllChecks : Checked(c)' <=> c = "timeouts" \/ Checked(c)
    BY <1>1 DEF Checked
<1>9. "inputs" \in AllChecks /\ "timeouts" \in AllChecks /\ "services" \in AllChecks
    BY DEF AllChecks
<1> HIDE DEF Rest, Checked
<1>10. ReportInv' /\ ExactInv'
    <2>1. \A x \in CheckedInputReasons \cup {"LATCH"} : x \in Promised <=> x \in Promised'
        BY <1>1 DEF CheckedInputReasons
    <2>2. calm \in Nat /\ calm' = calm /\ held' = held
        BY <1>0, <1>1, Numbers
    <2> QED
        BY <1>0, <1>7, <1>8, <1>9, <2>1, <2>2, InputsKept, InputVarsFrame
<1>11. TimeoutInv'
    <2>1. running' = running /\ silence' = silence
        BY <1>1
    <2>2. silence < Wrap => ("TIMEOUT_HIGH_LEVEL" \in Promised' <=> silence >= HlTimeout)
        BY <1>1, <1>2
    <2>3. "TIMEOUT_INPUTS" \notin Promised'
        BY <1>1
    <2>4. silence < Wrap /\ silence < HlTimeout => silence + Rest' <= HlTimeout
        BY <1>2, <1>3, <1>7
    <2> QED
        BY <1>1, <2>1, <2>2, <2>3, <2>4 DEF TimeoutInv
<1>12. ReadyInv'
    <2>1. AllReady' = AllReady
        BY <1>0, <1>1, InputsFrame, InputVarsFrame DEF AllReady
    <2>2. "SERVICE_NOT_READY" \in Promised <=> "SERVICE_NOT_READY" \in Promised'
        BY <1>1
    <2>3. calm \in Nat /\ calm' = calm
        BY <1>0, <1>1, Numbers
    <2> QED
        BY <1>7, <1>8, <1>9, <2>1, <2>2, <2>3, ReadyKept
<1> QED
    BY <1>4, <1>5, <1>6, <1>10, <1>11, <1>12 DEF EmergencyInv

\* CheckRequiredServices.
LEMMA ServicesStep ==
    ASSUME EmergencyInv, CheckRequiredServices PROVE EmergencyInv'
<1> DEFINE add == IF AllReady THEN {} ELSE {"SERVICE_NOT_READY"}
           clear == {"SERVICE_NOT_READY"}
<1>0. StateInv /\ TypeOK /\ UNCHANGED inputVars
    BY DEF EmergencyInv, StateInv, CheckRequiredServices
<1>1. /\ CallsOK' /\ Promised' = (Promised \ clear) \cup add
      /\ "services" \in checks["emergency"]
      /\ checks'["emergency"] = checks["emergency"] \ {"services"}
      /\ checks'["main"] = checks["main"]
      /\ checks' \in [Threads -> SUBSET AllChecks]
      /\ UNCHANGED <<reasons, last_message, running, others_healthy, asleep, sleep, held,
                     silence, calm, latch_owed>>
      /\ ThreadInv' /\ running /\ ~asleep
    <2>1. Check("emergency", "services", add, clear)
        BY DEF CheckRequiredServices
    <2>2. /\ "emergency" \in Threads /\ "services" \in AllChecks /\ "main" \in Threads \ {"emergency"}
          /\ add \in SUBSET EmergencyReasons /\ clear \in SUBSET EmergencyReasons
        BY DEF Threads, AllChecks, EmergencyReasons
    <2> HIDE DEF add, clear
    <2> QED
        BY <1>0, <2>1, <2>2, CheckFacts
<1>2. AllReady' = AllReady
    BY <1>0, <1>1, InputsFrame, InputVarsFrame DEF AllReady
<1> HIDE DEF AllReady
<1>3. block_time' \in 0..StatusPeriod /\ block_time' <= block_time
    <2>1. block_time' = block_time \/ block_time' = Minimum(block_time, RetryInterval)
        BY DEF CheckRequiredServices
    <2>2. block_time \in 0..StatusPeriod
        BY <1>0, TypeParts
    <2> QED
        BY <2>1, <2>2, EmergencyConstantsAssumption DEF Minimum
<1>4. StateInv'
    <2>1. InputInv' /\ SlotsInv' /\ ClockInv'
        BY <1>0, <1>1, InputPart, ClockPart
    <2>2. TypeOK'
        BY <1>0, <1>1, <1>3, <2>1, TypeParts, TypePartsNext DEF InputInv, CallsOK
    <2> QED
        BY <1>1, <2>1, <2>2 DEF StateInv, InputInv, CallsOK
<1>5. PendingInv'
    BY <1>0, <1>1, InputsFrame, InputVarsFrame DEF EmergencyInv, PendingInv
<1>6. LatchInv'
    BY <1>0, <1>1, InputsFrame, InputVarsFrame DEF EmergencyInv, LatchInv
<1>7. Rest' <= Rest /\ Rest \in Nat /\ Rest' \in Nat
    BY <1>0, <1>1, <1>3, TypeParts, EmergencyConstantsAssumption DEF Rest
<1>8. \A c \in AllChecks : Checked(c)' <=> c = "services" \/ Checked(c)
    BY <1>1 DEF Checked
<1>9. "inputs" \in AllChecks /\ "timeouts" \in AllChecks /\ "services" \in AllChecks
    BY DEF AllChecks
<1>10. ReportInv' /\ ExactInv'
    <2>1. \A x \in CheckedInputReasons \cup {"LATCH"} : x \in Promised <=> x \in Promised'
        BY <1>1 DEF CheckedInputReasons
    <2>2. calm \in Nat /\ calm' = calm /\ held' = held
        BY <1>0, <1>1, Numbers
    <2> QED
        BY <1>0, <1>7, <1>8, <1>9, <2>1, <2>2, InputsKept, InputVarsFrame
<1>11. TimeoutInv'
    <2>1. /\ "TIMEOUT_HIGH_LEVEL" \in Promised <=> "TIMEOUT_HIGH_LEVEL" \in Promised'
          /\ "TIMEOUT_INPUTS" \in Promised <=> "TIMEOUT_INPUTS" \in Promised'
        BY <1>1
    <2>2. running' /\ silence' = silence
        BY <1>1
    <2> QED
        BY <1>7, <1>8, <1>9, <2>1, <2>2, TimeoutKept
<1>12. ReadyInv'
    <2>1. "SERVICE_NOT_READY" \in Promised' <=> ~AllReady
        BY <1>1
    <2> QED
        BY <1>2, <2>1 DEF ReadyInv
<1> QED
    BY <1>4, <1>5, <1>6, <1>10, <1>11, <1>12 DEF EmergencyInv

\* CheckInputs clears what was pending, having reported it.
LEMMA CheckInputsStep ==
    ASSUME EmergencyInv, NEW t \in Threads, CheckInputs(t) PROVE EmergencyInv'
<1>0. /\ StateInv /\ TypeOK /\ InputTypeOK /\ InputInv
      /\ UNCHANGED <<micros, input_running, inputs_configured, all_inputs, config, active,
                     active_since, num_active_lift, num_active_collision, group_refcount,
                     injecting, inputs_changed>>
    BY StateFacts, TypeParts DEF EmergencyInv, StateInv, CheckInputs, configVars, counterVars
<1>1. /\ CallsOK' /\ Promised' = (Promised \ CheckedInputReasons) \cup GetEmergencyReasons
      /\ "inputs" \in checks[t] /\ checks'[t] = checks[t] \ {"inputs"}
      /\ \A u \in Threads \ {t} : checks'[u] = checks[u]
      /\ checks' \in [Threads -> SUBSET AllChecks]
      /\ UNCHANGED <<reasons, last_message, running, others_healthy, asleep, sleep, held,
                     silence, calm, latch_owed>>
      /\ ThreadInv' /\ (t = "emergency" => running /\ ~asleep)
    <2>1. Check(t, "inputs", GetEmergencyReasons, CheckedInputReasons)
        BY DEF CheckInputs
    <2>2. /\ "inputs" \in AllChecks /\ CheckedInputReasons \in SUBSET EmergencyReasons
          /\ GetEmergencyReasons \in SUBSET EmergencyReasons
        BY <1>0, CheckedReasons DEF AllChecks, EmergencyReasons
    <2> QED
        BY <1>0, <2>1, <2>2, CheckFacts
<1>2. /\ GetEmergencyReasons \subseteq CheckedInputReasons \cup {"LATCH"}
      /\ Pending = {} => GetEmergencyReasons \cap CheckedInputReasons =
                           UNION {config[i].reason \ {"LATCH"} : i \in TimedOut}
    BY <1>0, CheckedReasons
<1>3. \A x \in {"TIMEOUT_HIGH_LEVEL", "TIMEOUT_INPUTS", "SERVICE_NOT_READY"} :
         x \in Promised <=> x \in Promised'
    BY <1>1, <1>2 DEF CheckedInputReasons
<1>4. /\ block_time' \in 0..StatusPeriod /\ block_time' <= block_time
      /\ t = "emergency" =>
            /\ Pending # {} => block_time' = 0
            /\ Pending = {} => \A i \in Waiting : block_time' <= config[i].delay - ActiveDuration(i)
      /\ t # "emergency" => block_time' = block_time
    <2>1. block_time \in 0..StatusPeriod /\ block_time \in Nat /\ StatusPeriod \in Nat
        BY <1>0, TypeParts, EmergencyConstantsAssumption
    <2>2. /\ InputBlockTime(block_time) \in 0..block_time
          /\ Pending # {} => InputBlockTime(block_time) = 0
          /\ Pending = {} => \A i \in Waiting :
                               InputBlockTime(block_time) <= config[i].delay - ActiveDuration(i)
        BY <1>0, <2>1, BlockTimeBounds
    <2>3. block_time' = IF t = "emergency" THEN InputBlockTime(block_time) ELSE block_time
        BY DEF CheckInputs
    <2> HIDE DEF ActiveDuration
    <2> QED
        BY <2>1, <2>2, <2>3
<1>5. /\ Watched' = Watched /\ \A i : ActiveDuration(i)' = ActiveDuration(i)
      /\ Pending' = {}
    BY <1>0, Numbers DEF Watched, ActiveDuration, Pending, CheckInputs, ClearPending
<1> HIDE DEF ActiveDuration
<1>6. StateInv'
    <2>1. CountersAgree' /\ MultipleNeedsTwo'
        BY <1>0, FrameKeepsCounters DEF counterVars
    <2>2. emergency_pending' \in [Slots -> BOOLEAN]
        BY <1>0 DEF CheckInputs, ClearPending, InputTypeOK
    <2>3. InputTypeOK'
        BY <1>0, <2>2 DEF InputTypeOK
    <2>4. TypeOK'
        BY <1>0, <1>1, <1>4, <2>3, TypeParts, TypePartsNext DEF CallsOK
    <2>5. SlotsInv'
        BY <1>0 DEF StateInv, SlotsInv
    <2>6. ClockInv'
        <3>1. MessageAge' = MessageAge
            BY <1>0, <1>1 DEF MessageAge
        <3> HIDE DEF MessageAge
        <3> QED
            BY <1>0, <1>1, <1>5, <3>1 DEF StateInv, ClockInv
    <2> QED
        BY <1>1, <2>1, <2>4, <2>5, <2>6 DEF StateInv, CallsOK
<1>7. PendingInv'
    BY <1>5 DEF PendingInv
<1>8. LatchInv'
    <2>1. \A i \in Pending : config[i].reason \subseteq Promised'
        BY <1>1 DEF GetEmergencyReasons
    <2>2. "LATCH" \in Promised => "LATCH" \in Promised'
        BY <1>1 DEF CheckedInputReasons
    <2> QED
        BY <1>1, <2>1, <2>2 DEF EmergencyInv, LatchInv
<1>9. Rest' <= Rest /\ Rest \in 0..StatusPeriod /\ Rest' \in 0..StatusPeriod
      /\ (t = "emergency" => Rest' = block_time')
    BY <1>0, <1>1, <1>4, TypeParts, EmergencyConstantsAssumption DEF Rest
<1>10. /\ \A c \in AllChecks : Checked(c)' => Checked(c) \/ (c = "inputs" /\ t = "emergency")
       /\ "inputs" \in AllChecks /\ "timeouts" \in AllChecks /\ "services" \in AllChecks
    BY <1>1 DEF Checked, AllChecks, Threads
<1>11. Rest \in Nat /\ Rest' \in Nat /\ calm \in Nat /\ calm' = calm
    BY <1>0, <1>1, <1>9, Numbers, EmergencyConstantsAssumption
<1>12. TimeoutInv'
    <2>1. ~running' => "TIMEOUT_HIGH_LEVEL" \in Promised'
        BY <1>1, <1>3 DEF EmergencyInv, TimeoutInv
    <2>2. silence' = silence
        BY <1>1
    <2> QED
        BY <1>3, <1>9, <1>10, <1>11, <2>1, <2>2, TimeoutKept
<1>13. ReadyInv'
    <2>1. AllReady' = AllReady
        BY <1>0, <1>1 DEF AllReady
    <2>2. calm' <= calm
        BY <1>11
    <2> QED
        BY <1>3, <1>9, <1>10, <1>11, <2>1, <2>2, ReadyKept
<1>14. ReportInv'
    <2> SUFFICES ASSUME Checked("inputs")', NEW i \in Watched', active'[i], held'[i] < Wrap
                 PROVE  InputWatched(i)'
        BY DEF ReportInv
    <2>1. i \in Watched /\ active[i] /\ held[i] < Wrap /\ config'[i] = config[i] /\ held'[i] = held[i]
        BY <1>0, <1>1, <1>5
    <2>2. /\ i \in Slots /\ held[i] \in Nat /\ config[i].delay \in Nat /\ StatusPeriod \in Nat
          /\ ActiveDuration(i) \in Nat
        BY <1>0, <2>1, Numbers, InputReasonsFacts, InputConstantsAssumption
    <2>3. held[i] >= config[i].delay => InputWatched(i)'
        <3>1. held[i] >= config[i].delay => config[i].reason \subseteq Promised'
            BY <1>0, <1>1, <2>1, HeldIsFound
        <3> QED
            BY <2>1, <3>1 DEF InputWatched
    <2>4. CASE t # "emergency" /\ held[i] < config[i].delay
        <3>1. Checked("inputs")
            BY <1>10, <2>4
        <3>2. InputWatched(i)
            BY <2>1, <3>1 DEF EmergencyInv, ReportInv
        <3>3. held[i] + Rest <= StatusPeriod \/ held[i] + Rest <= config[i].delay
            BY <2>2, <2>4, <3>2 DEF InputWatched
        <3>4. \A n \in Nat : held[i] + Rest <= n => held[i] + Rest' <= n
            BY <1>9, <1>11, <2>2
        <3>5. held[i] + Rest' <= StatusPeriod \/ held[i] + Rest' <= config[i].delay
            BY <2>2, <3>3, <3>4, Zenon
        <3> QED
            BY <2>1, <3>5 DEF InputWatched
    <2>5. CASE t = "emergency" /\ held[i] < config[i].delay
        <3>1. CASE Pending # {} \/ i \in injecting
            <4>1. held[i] + Rest' <= StatusPeriod \/ held[i] + Rest' <= config[i].delay
                <5>1. Pending # {} => Rest' = 0
                    BY <1>4, <1>9, <2>5
                <5>2. i \in injecting => held[i] = 0
                    BY <1>0, <2>1 DEF StateInv, ClockInv
                <5>3. Rest' \in Nat /\ Rest' <= StatusPeriod
                    BY <1>9, <1>11
                <5> QED
                    BY <2>2, <2>5, <3>1, <5>1, <5>2, <5>3
            <4> QED
                BY <2>1, <4>1 DEF InputWatched
        <3>2. CASE Pending = {} /\ i \notin injecting
            <4>1. ActiveDuration(i) = held[i]
                BY <1>0, <2>1, <2>2, <3>2 DEF StateInv, ClockInv
            <4>2. i \in Waiting
                BY <2>1, <2>5, <3>2, <4>1 DEF Waiting
            <4>3. Rest' <= config[i].delay - held[i]
                BY <1>4, <1>9, <2>5, <3>2, <4>1, <4>2
            <4>4. held[i] + Rest' <= config[i].delay
                BY <1>11, <2>2, <4>3
            <4> QED
                BY <2>1, <4>4 DEF InputWatched
        <3> QED
            BY <3>1, <3>2
    <2> QED
        BY <2>2, <2>3, <2>4, <2>5
<1>15. ExactInv'
    <2> SUFFICES ASSUME Checked("inputs")', \A i \in Slots : active'[i] => held'[i] < Wrap
                 PROVE  calm' + Rest' <= StatusPeriod \/ InputsExact'
        BY DEF ExactInv
    <2>1. \A i \in Slots : active[i] => held[i] < Wrap
        BY <1>0, <1>1
    <2>2. StatusPeriod \in Nat /\ Watched \subseteq Slots /\ Waiting \subseteq Watched
        BY <1>0, Numbers
    <2>3. CASE calm = 0
        <3>1. calm' = 0 /\ Rest' \in 0..StatusPeriod
            BY <1>9, <1>11, <2>3
        <3> QED
            BY <3>1, Fresh, Zenon
    <2>4. CASE calm # 0
        <3>1. Pending = {} /\ injecting = {}
            BY <2>4 DEF EmergencyInv, PendingInv, StateInv, ClockInv
        <3>2. TimedOut' = TimedOut /\ Waiting' = Waiting
            BY <1>0, <1>5, <3>1 DEF TimedOut, Waiting
        <3>3. Promised' \cap CheckedInputReasons = UNION {config[i].reason \ {"LATCH"} : i \in TimedOut}
            BY <1>1, <1>2, <3>1
        <3>4. CASE t = "emergency"
            <4>1. ASSUME NEW i \in Waiting PROVE held[i] + Rest' <= config[i].delay
                <5>1. /\ i \in Slots /\ active[i] /\ held[i] \in Nat /\ config[i].delay \in Nat
                      /\ held[i] < Wrap
                    BY <1>0, <2>1, <2>2, Numbers DEF Waiting
                <5>2. ActiveDuration(i) = held[i]
                    BY <1>0, <3>1, <5>1 DEF StateInv, ClockInv
                <5>3. Rest' <= config[i].delay - held[i]
                    BY <1>4, <1>9, <3>1, <3>4, <5>2
                <5> QED
                    BY <1>11, <5>1, <5>3
            <4> QED
                BY <1>0, <1>1, <3>2, <3>3, <4>1 DEF InputsExact
        <3>5. CASE t # "emergency"
            <4>1. Checked("inputs")
                BY <1>10, <3>5
            <4>2. calm + Rest <= StatusPeriod \/ InputsExact
                BY <2>1, <4>1 DEF EmergencyInv, ExactInv
            <4>3. CASE calm + Rest <= StatusPeriod
                BY <1>9, <1>11, <2>2, <4>3, Shorter, Zenon
            <4>4. CASE InputsExact
                <5>1. ASSUME NEW i \in Waiting PROVE held[i] + Rest' <= config[i].delay
                    <6>1. held[i] + Rest <= config[i].delay
                        BY <4>4, Zenon DEF InputsExact
                    <6>2. held[i] \in Nat /\ config[i].delay \in Nat
                        BY <1>0, <2>2, Numbers
                    <6> QED
                        BY <1>9, <1>11, <6>1, <6>2
                <5> QED
                    BY <1>0, <1>1, <3>2, <3>3, <5>1 DEF InputsExact
            <4> QED
                BY <4>2, <4>3, <4>4
        <3> QED
            BY <3>4, <3>5
    <2> QED
        BY <2>3, <2>4
<1> QED
    BY <1>6, <1>7, <1>8, <1>12, <1>13, <1>14, <1>15 DEF EmergencyInv

-----------------------------------------------------------------------------
(* The rounds of the emergency service's thread.                           *)

\* After a step that leaves no check made, nothing is claimed of the checks.
LEMMA NothingChecked ==
    ASSUME \A c \in AllChecks : ~Checked(c)', ~running' => "TIMEOUT_HIGH_LEVEL" \in Promised'
    PROVE  ReportInv' /\ ExactInv' /\ TimeoutInv' /\ ReadyInv'
<1>1. "inputs" \in AllChecks /\ "timeouts" \in AllChecks /\ "services" \in AllChecks
    BY DEF AllChecks
<1> QED
    BY <1>1 DEF ReportInv, ExactInv, TimeoutInv, ReadyInv

\* What a call that enters promises, by its kind.
LEMMA EnterUpdate ==
    ASSUME CallsOK, NEW t \in Threads, NEW add \in SUBSET EmergencyReasons,
           NEW clear \in SUBSET EmergencyReasons, Enter(t, UpdateCall(add, clear)), reasons' = reasons
    PROVE  CallsOK' /\ Promised' = (Promised \ clear) \cup add
<1> DEFINE uc == UpdateCall(add, clear)
<1>1. uc \in Calls \ {NoCall} /\ uc.at = "update" /\ uc.add = add /\ uc.clear = clear
    BY DEF UpdateCall, Calls, NoCall
<1>2. Enter(t, uc)
    OBVIOUS
<1> HIDE DEF uc
<1> QED
    BY <1>1, <1>2, EnterPromises

LEMMA EnterStatus ==
    ASSUME CallsOK, NEW t \in Threads, Enter(t, StatusCall), reasons' = reasons
    PROVE  CallsOK' /\ Promised' = Promised
<1>1. StatusCall \in Calls \ {NoCall} /\ StatusCall.at = "status"
    BY DEF StatusCall, Calls, NoCall
<1> QED
    BY <1>1, EnterPromises

LEMMA WakeStep ==
    ASSUME EmergencyInv, NEW b \in BOOLEAN, Wake(b) PROVE EmergencyInv'
<1>0. StateInv /\ TypeOK /\ CallsOK /\ UNCHANGED inputVars
    BY StateFacts DEF EmergencyInv, Wake
<1>1. /\ running /\ asleep' = FALSE /\ block_time' = StatusPeriod
      /\ checks' = [checks EXCEPT !["emergency"] = AllChecks]
      /\ UNCHANGED <<reasons, last_message, running, others_healthy, sleep, held, silence, calm,
                     latch_owed>>
    BY DEF Wake, emergencyVars, historyVars
<1>2. CallsOK' /\ Promised' = Promised
    <2>1. CASE b
        <3>1. Enter("emergency", StatusCall) /\ reasons' = reasons
            BY <2>1 DEF Wake, emergencyVars
        <3> QED
            BY <1>0, <3>1, EnterStatus DEF Threads
    <2>2. CASE ~b
        <3>1. UNCHANGED <<call, mtx_queue, reasons>>
            BY <2>2 DEF Wake, emergencyVars
        <3> QED
            BY <1>0, <3>1 DEF CallsOK, QueueInv, Promised, After
    <2> QED
        BY <2>1, <2>2
<1>3. /\ checks' \in [Threads -> SUBSET AllChecks]
      /\ checks'["emergency"] = AllChecks /\ checks'["main"] = checks["main"]
    BY <1>0, <1>1, TypeParts DEF Threads
<1>4. StateInv'
    <2>1. InputInv' /\ SlotsInv' /\ ClockInv'
        BY <1>0, <1>1, InputPart, ClockPart
    <2>2. block_time' \in 0..StatusPeriod
        BY <1>1, EmergencyConstantsAssumption
    <2>3. TypeOK'
        BY <1>0, <1>1, <1>2, <1>3, <2>1, <2>2, TypeParts, TypePartsNext DEF InputInv, CallsOK
    <2>4. ThreadInv'
        BY <1>0, <1>1, <1>3 DEF StateInv, ThreadInv
    <2> QED
        BY <1>2, <2>1, <2>3, <2>4 DEF StateInv, InputInv, CallsOK
<1>5. PendingInv' /\ LatchInv'
    BY <1>0, <1>1, <1>2, <1>3, InputsFrame, InputVarsFrame DEF EmergencyInv, PendingInv, LatchInv
<1>6. \A c \in AllChecks : ~Checked(c)'
    BY <1>1, <1>3 DEF Checked
<1>7. ReportInv' /\ ExactInv' /\ TimeoutInv' /\ ReadyInv'
    BY <1>1, <1>6, NothingChecked
<1> QED
    BY <1>4, <1>5, <1>7 DEF EmergencyInv

\* A message of the high level interrupts the sleep: a new round begins.
LEMMA HighLevelStep ==
    ASSUME EmergencyInv, NEW v \in HighLevelValues, OnHighLevelEmergencyChanged(v[1], v[2])
    PROVE  EmergencyInv'
<1> DEFINE add == v[1]
           clear == v[2] \ {"SERVICE_NOT_READY"}
<1>0. StateInv /\ TypeOK /\ CallsOK /\ UNCHANGED inputVars
    BY StateFacts DEF EmergencyInv, OnHighLevelEmergencyChanged
<1>1. /\ running /\ asleep' = FALSE /\ block_time' = StatusPeriod /\ silence' = 0
      /\ checks' = [checks EXCEPT !["emergency"] = AllChecks]
      /\ last_message' = micros
      /\ UNCHANGED <<reasons, running, others_healthy, sleep, held, calm>>
      /\ latch_owed' = IF "LATCH" \in v[2] THEN \E i \in Pending : "LATCH" \in config[i].reason
                       ELSE latch_owed
    BY DEF OnHighLevelEmergencyChanged
<1>2. add \in SUBSET EmergencyReasons /\ clear \in SUBSET EmergencyReasons
    BY EmergencyConstantsAssumption
<1>3. CallsOK' /\ Promised' = (Promised \ clear) \cup add
    <2>1. Enter("emergency", UpdateCall(add, clear)) /\ reasons' = reasons
        BY DEF OnHighLevelEmergencyChanged
    <2> HIDE DEF add, clear
    <2> QED
        BY <1>0, <1>2, <2>1, EnterUpdate DEF Threads
<1>4. /\ checks' \in [Threads -> SUBSET AllChecks]
      /\ checks'["emergency"] = AllChecks /\ checks'["main"] = checks["main"]
    BY <1>0, <1>1, TypeParts DEF Threads
<1>5. StateInv'
    <2>1. InputInv' /\ SlotsInv'
        BY <1>0, InputPart
    <2>2. block_time' \in 0..StatusPeriod /\ silence' \in 0..Wrap /\ micros \in 0..(Wrap - 1)
        BY <1>0, <1>1, EmergencyConstantsAssumption, InputConstantsAssumption, TypeParts DEF InputTypeOK
    <2>3. latch_owed' \in BOOLEAN
        BY <1>0, <1>1, TypeParts
    <2>4. TypeOK'
        BY <1>0, <1>1, <1>3, <1>4, <2>1, <2>2, <2>3, TypeParts, TypePartsNext DEF InputInv, CallsOK
    <2>5. ThreadInv'
        BY <1>0, <1>1, <1>4 DEF StateInv, ThreadInv
    <2>6. ClockInv'
        <3>1. MessageAge' = 0
            BY <1>0, <1>1, <2>2, InputsFrame, InputVarsFrame, ModDiff DEF MessageAge
        <3> HIDE DEF MessageAge
        <3> QED
            BY <1>0, <1>1, <3>1, InputsFrame, InputVarsFrame DEF StateInv, ClockInv
    <2> QED
        BY <1>3, <2>1, <2>4, <2>5, <2>6 DEF StateInv, InputInv, CallsOK
<1>6. PendingInv'
    BY <1>0, <1>1, <1>4, InputsFrame, InputVarsFrame DEF EmergencyInv, PendingInv
<1>7. LatchInv'
    <2>1. Pending' = Pending /\ config' = config
        BY <1>0, InputsFrame, InputVarsFrame
    <2>2. CASE "LATCH" \in v[2]
        BY <1>1, <2>1, <2>2 DEF LatchInv
    <2>3. CASE "LATCH" \notin v[2]
        BY <1>1, <1>3, <2>1, <2>3 DEF EmergencyInv, LatchInv
    <2> QED
        BY <2>2, <2>3
<1>8. \A c \in AllChecks : ~Checked(c)'
    BY <1>1, <1>4 DEF Checked
<1>9. ReportInv' /\ ExactInv' /\ TimeoutInv' /\ ReadyInv'
    BY <1>1, <1>8, NothingChecked
<1> QED
    BY <1>5, <1>6, <1>7, <1>9 DEF EmergencyInv

\* OnStop promises TIMEOUT_HIGH_LEVEL; OnStart lets the service run at once.
LEMMA StartStopStep ==
    ASSUME EmergencyInv, OnStart \/ OnStop PROVE EmergencyInv'
<1>0. StateInv /\ TypeOK /\ CallsOK /\ UNCHANGED inputVars
    BY StateFacts DEF EmergencyInv, OnStart, OnStop
<1>1. /\ UNCHANGED <<reasons, last_message, others_healthy, checks, block_time, asleep>>
      /\ UNCHANGED <<held, silence, calm, latch_owed>>
      /\ sleep' \in {0, sleep} /\ running' \in BOOLEAN /\ asleep
    BY <1>0 DEF OnStart, OnStop, historyVars, StateInv, ThreadInv
<1>2. CallsOK' /\ Promised' \in {Promised, Promised \cup {"TIMEOUT_HIGH_LEVEL"}}
      /\ (~running' => "TIMEOUT_HIGH_LEVEL" \in Promised')
    <2>1. CASE OnStart
        <3>1. UNCHANGED <<call, mtx_queue, reasons>> /\ running'
            BY <2>1 DEF OnStart
        <3> QED
            BY <1>0, <3>1 DEF CallsOK, QueueInv, Promised, After
    <2>2. CASE OnStop
        <3>1. Enter("emergency", UpdateCall({"TIMEOUT_HIGH_LEVEL"}, {})) /\ reasons' = reasons
            BY <2>2 DEF OnStop
        <3>2. {"TIMEOUT_HIGH_LEVEL"} \in SUBSET EmergencyReasons /\ {} \in SUBSET EmergencyReasons
            BY DEF EmergencyReasons
        <3>3. CallsOK' /\ Promised' = (Promised \ {}) \cup {"TIMEOUT_HIGH_LEVEL"}
            BY <1>0, <3>1, <3>2, EnterUpdate DEF Threads
        <3> QED
            BY <3>3
    <2> QED
        BY <2>1, <2>2
<1>3. StateInv'
    <2>1. InputInv' /\ SlotsInv' /\ ClockInv'
        BY <1>0, <1>1, InputPart, ClockPart
    <2>2. sleep' \in 0..StatusPeriod
        BY <1>0, <1>1, TypeParts, EmergencyConstantsAssumption
    <2>3. TypeOK'
        BY <1>0, <1>1, <1>2, <2>1, <2>2, TypeParts, TypePartsNext DEF InputInv, CallsOK
    <2>4. ThreadInv'
        BY <1>0, <1>1 DEF StateInv, ThreadInv
    <2> QED
        BY <1>2, <2>1, <2>3, <2>4 DEF StateInv, InputInv, CallsOK
<1>4. PendingInv' /\ LatchInv'
    BY <1>0, <1>1, <1>2, InputsFrame, InputVarsFrame DEF EmergencyInv, PendingInv, LatchInv
<1>5. \A c \in AllChecks : ~Checked(c)'
    BY <1>1 DEF Checked, OnStart, OnStop
<1>6. ReportInv' /\ ExactInv' /\ TimeoutInv' /\ ReadyInv'
    BY <1>2, <1>5, NothingChecked
<1> QED
    BY <1>3, <1>4, <1>6 DEF EmergencyInv

\* Going to sleep, and main fetching INPUTS_CHANGED.
LEMMA SleepStep ==
    ASSUME EmergencyInv, Sleep PROVE EmergencyInv'
<1>0. StateInv /\ TypeOK /\ CallsOK /\ UNCHANGED inputVars
    BY StateFacts DEF EmergencyInv, Sleep
<1>1. /\ UNCHANGED <<reasons, last_message, running, others_healthy, checks, block_time>>
      /\ UNCHANGED <<held, silence, calm, latch_owed, call, mtx_queue>>
      /\ ~asleep /\ asleep' = TRUE /\ sleep' = block_time /\ checks["emergency"] = {}
    BY DEF Sleep, historyVars, emergencyVars, Idle
<1>2. CallsOK' /\ Promised' = Promised
    BY <1>0, <1>1 DEF CallsOK, QueueInv, Promised, After
<1>3. StateInv'
    <2>1. InputInv' /\ SlotsInv' /\ ClockInv'
        BY <1>0, <1>1, InputPart, ClockPart
    <2>2. TypeOK'
        BY <1>0, <1>1, <1>2, <2>1, TypeParts, TypePartsNext DEF InputInv, CallsOK
    <2>3. ThreadInv'
        BY <1>0, <1>1 DEF StateInv, ThreadInv
    <2> QED
        BY <1>2, <2>1, <2>2, <2>3 DEF StateInv, InputInv, CallsOK
<1>4. PendingInv' /\ LatchInv'
    BY <1>0, <1>1, <1>2, InputsFrame, InputVarsFrame DEF EmergencyInv, PendingInv, LatchInv
<1>5. /\ \A c \in AllChecks : Checked(c)' => Checked(c)
      /\ "inputs" \in AllChecks /\ "timeouts" \in AllChecks /\ "services" \in AllChecks
    BY <1>1 DEF Checked, AllChecks
<1>6. Rest' \in Nat /\ Rest' <= Rest
    BY <1>0, <1>1, TypeParts, EmergencyConstantsAssumption DEF Rest
<1>7. calm \in Nat /\ calm' = calm /\ silence' = silence /\ calm' <= calm /\ AllReady' = AllReady
      /\ held' = held
    BY <1>0, <1>1, Numbers, InputsFrame, InputVarsFrame DEF AllReady
<1>8. ReportInv' /\ ExactInv'
    BY <1>0, <1>2, <1>5, <1>6, <1>7, InputsKept, InputVarsFrame
<1>9. TimeoutInv'
    <2>1. ~running' => "TIMEOUT_HIGH_LEVEL" \in Promised'
        BY <1>1, <1>2 DEF EmergencyInv, TimeoutInv
    <2> QED
        BY <1>2, <1>5, <1>6, <1>7, <2>1, TimeoutKept
<1>10. ReadyInv'
    BY <1>2, <1>5, <1>6, <1>7, ReadyKept
<1> QED
    BY <1>3, <1>4, <1>8, <1>9, <1>10 DEF EmergencyInv

\* DispatchEvents: main fetches INPUTS_CHANGED and has the inputs to check.
LEMMA MainStep ==
    ASSUME EmergencyInv, MainOnInputsChanged PROVE EmergencyInv'
<1>0. StateInv /\ TypeOK /\ CallsOK /\ InputInv /\ SameInputs
    BY StateFacts DEF EmergencyInv, MainOnInputsChanged, SameInputs, configVars, stateVars
<1>1. /\ UNCHANGED <<reasons, last_message, running, others_healthy, block_time, asleep, sleep>>
      /\ UNCHANGED <<held, silence, calm, latch_owed, call, mtx_queue>>
      /\ inputs_changed' = FALSE /\ checks' = [checks EXCEPT !["main"] = {"inputs"}]
    BY DEF MainOnInputsChanged, historyVars, emergencyVars
<1>2. CallsOK' /\ Promised' = Promised
    BY <1>0, <1>1 DEF CallsOK, QueueInv, Promised, After
<1>3. /\ checks' \in [Threads -> SUBSET AllChecks]
      /\ checks'["main"] = {"inputs"} /\ checks'["emergency"] = checks["emergency"]
    BY <1>0, <1>1, TypeParts DEF Threads, AllChecks
<1>4. StateInv'
    <2>1. CountersAgree' /\ MultipleNeedsTwo'
        BY <1>0, FrameKeepsCounters DEF MainOnInputsChanged, configVars, stateVars
    <2>2. InputTypeOK'
        BY <1>0, <1>1 DEF MainOnInputsChanged, SameInputs, InputInv, InputTypeOK, counterVars
    <2>3. TypeOK'
        BY <1>0, <1>1, <1>2, <1>3, <2>2, TypeParts, TypePartsNext DEF CallsOK
    <2>4. ThreadInv'
        BY <1>0, <1>1, <1>3 DEF StateInv, ThreadInv
    <2>5. SlotsInv'
        BY <1>0, InputsFrame DEF StateInv, SlotsInv
    <2>6. ClockInv'
        <3>1. MessageAge' = MessageAge /\ \A i : ActiveDuration(i)' = ActiveDuration(i)
            BY <1>0, <1>1, InputsFrame DEF MessageAge
        <3> HIDE DEF MessageAge, ActiveDuration
        <3> QED
            BY <1>0, <1>1, <3>1, InputsFrame DEF StateInv, ClockInv
    <2> QED
        BY <1>2, <2>1, <2>3, <2>4, <2>5, <2>6 DEF StateInv, CallsOK
<1>5. PendingInv' /\ LatchInv'
    BY <1>0, <1>1, <1>2, <1>3, InputsFrame DEF EmergencyInv, PendingInv, LatchInv
<1>6. /\ \A c \in AllChecks : Checked(c)' => Checked(c)
      /\ "inputs" \in AllChecks /\ "timeouts" \in AllChecks /\ "services" \in AllChecks
    BY <1>1, <1>3 DEF Checked, AllChecks
<1>7. Rest' \in Nat /\ Rest' <= Rest
    BY <1>0, <1>1, TypeParts, EmergencyConstantsAssumption DEF Rest
<1>8. calm \in Nat /\ calm' = calm /\ silence' = silence /\ calm' <= calm /\ AllReady' = AllReady
      /\ held' = held
    BY <1>0, <1>1, Numbers, InputsFrame DEF AllReady
<1>9. ReportInv' /\ ExactInv'
    BY <1>0, <1>2, <1>6, <1>7, <1>8, InputsKept
<1>10. TimeoutInv'
    <2>1. ~running' => "TIMEOUT_HIGH_LEVEL" \in Promised'
        BY <1>1, <1>2 DEF EmergencyInv, TimeoutInv
    <2> QED
        BY <1>2, <1>6, <1>7, <1>8, <2>1, TimeoutKept
<1>11. ReadyInv'
    BY <1>2, <1>6, <1>7, <1>8, ReadyKept
<1> QED
    BY <1>4, <1>5, <1>9, <1>10, <1>11 DEF EmergencyInv

-----------------------------------------------------------------------------
(* The environment and the clock.                                          *)

\* The health of a required service changes.
LEMMA OthersStep ==
    ASSUME EmergencyInv, OthersChange PROVE EmergencyInv'
<1>0. StateInv /\ TypeOK /\ CallsOK /\ UNCHANGED inputVars /\ SameInputs
    BY StateFacts, InputVarsFrame DEF EmergencyInv, OthersChange
<1>1. /\ UNCHANGED <<reasons, last_message, running, checks, block_time, asleep, sleep>>
      /\ UNCHANGED <<held, silence, latch_owed, call, mtx_queue>>
      /\ others_healthy' = ~others_healthy /\ calm' = 0
    BY DEF OthersChange, threadVars
<1>2. CallsOK' /\ Promised' = Promised
    BY <1>0, <1>1 DEF CallsOK, QueueInv, Promised, After
<1>3. StateInv'
    <2>1. InputInv' /\ SlotsInv'
        BY <1>0, InputPart
    <2>2. calm' \in 0..StatusPeriod
        BY <1>1, EmergencyConstantsAssumption
    <2>3. TypeOK'
        BY <1>0, <1>1, <1>2, <2>1, <2>2, TypeParts, TypePartsNext DEF InputInv, CallsOK
    <2>4. ThreadInv'
        BY <1>0, <1>1 DEF StateInv, ThreadInv
    <2>5. ClockInv'
        <3>1. MessageAge' = MessageAge /\ \A i : ActiveDuration(i)' = ActiveDuration(i)
            BY <1>0, <1>1, InputsFrame DEF MessageAge
        <3> HIDE DEF MessageAge, ActiveDuration
        <3> QED
            BY <1>0, <1>1, <3>1, InputsFrame DEF StateInv, ClockInv
    <2> QED
        BY <1>2, <2>1, <2>3, <2>4, <2>5 DEF StateInv, InputInv, CallsOK
<1>4. PendingInv' /\ LatchInv'
    BY <1>0, <1>1, <1>2, InputsFrame, InputVarsFrame DEF EmergencyInv, PendingInv, LatchInv
<1>5. /\ \A c \in AllChecks : Checked(c)' => Checked(c)
      /\ "inputs" \in AllChecks /\ "timeouts" \in AllChecks
    BY <1>1 DEF Checked, AllChecks
<1>6. Rest' \in Nat /\ Rest' <= Rest /\ Rest' \in 0..StatusPeriod
    BY <1>0, <1>1, TypeParts, EmergencyConstantsAssumption DEF Rest
<1>7. calm' \in Nat /\ calm' <= calm
    BY <1>0, <1>1, Numbers
<1>8. ReportInv' /\ ExactInv'
    BY <1>0, <1>1, <1>2, <1>5, <1>6, <1>7, InputsKept
<1>9. TimeoutInv'
    <2>1. (~running' => "TIMEOUT_HIGH_LEVEL" \in Promised') /\ silence' = silence
        BY <1>1, <1>2 DEF EmergencyInv, TimeoutInv
    <2> QED
        BY <1>2, <1>5, <1>6, <2>1, TimeoutKept
<1>10. calm' + Rest' <= StatusPeriod
    BY <1>1, <1>6, Fresh, Zenon
<1>11. ReadyInv'
    BY <1>10, Zenon DEF ReadyInv
<1> QED
    BY <1>3, <1>4, <1>8, <1>9, <1>11 DEF EmergencyInv

\* Input::Update: activations are dated, releases after the delay are kept as
\* pending, and no other input but the virtual ones changes.
LEMMA UpdateFacts ==
    ASSUME StateInv, NEW i \in RealInputs, NEW b \in BOOLEAN, NEW predate \in 0..(Wrap - 1),
           Update(i, b, predate)
    PROVE  /\ active'[i] = b /\ active[i] # b /\ inputs_changed' = TRUE
           /\ \A j \in RealInputs \ {i} : active'[j] = active[j]
           /\ \A j \in Slots : emergency_pending[j] => emergency_pending'[j]
           /\ \A j \in Slots : /\ active[j] /\ ~active'[j] /\ config[j].reason # {}
                               /\ ActiveDuration(j) >= config[j].delay
                               => emergency_pending'[j]
           /\ \A j \in Slots : active'[j] /\ ~active[j] =>
                 j \in all_inputs /\ ((j = i /\ predate # 0) \/ active_since'[j] = micros)
           /\ \A j \in Slots : active'[j] /\ active[j] => active_since'[j] = active_since[j]
<1> DEFINE level == NewActive(i, b)
<1>1. i \in Slots /\ RealInputs \subseteq Slots
    BY InputConstantsAssumption DEF RealInputs, Slots
<1>2. /\ i \in all_inputs /\ active[i] # b /\ active' = level /\ inputs_changed' = TRUE
      /\ active_since' = [j \in Slots |->
           IF level[j] /\ ~active[j] THEN (micros - (IF j = i THEN predate ELSE 0)) % Wrap
           ELSE active_since[j]]
      /\ emergency_pending' = [j \in Slots |->
           \/ emergency_pending[j]
           \/ /\ active[j] /\ ~level[j]
              /\ config[j].reason # {}
              /\ ActiveDuration(j) >= config[j].delay]
    BY DEF Update
<1>3. level[i] = b /\ \A j \in Slots \ {i, lift_multiple_input, collision_multiple_input} : level[j] = active[j]
    BY <1>1 DEF NewActive
<1> HIDE DEF level, ActiveDuration
<1>4. \A j \in RealInputs \ {i} : active'[j] = active[j]
    <2>1. \A j \in RealInputs : j # lift_multiple_input /\ j # collision_multiple_input
        BY DEF RealInputs, lift_multiple_input, collision_multiple_input
    <2> QED
        BY <1>1, <1>2, <1>3, <2>1
<1>5. {lift_multiple_input, collision_multiple_input} \subseteq all_inputs
    BY <1>2 DEF StateInv, SlotsInv
<1>6. ASSUME NEW j \in Slots, active'[j], ~active[j]
      PROVE  j \in all_inputs /\ ((j = i /\ predate # 0) \/ active_since'[j] = micros)
    <2>1. j \in all_inputs
        BY <1>2, <1>3, <1>5, <1>6
    <2>2. active_since'[j] = (micros - (IF j = i THEN predate ELSE 0)) % Wrap
        BY <1>2, <1>6
    <2>3. micros \in 0..(Wrap - 1) /\ 0 \in 0..(Wrap - 1)
        BY TypeParts, InputConstantsAssumption DEF StateInv, InputTypeOK
    <2>4. (micros - 0) % Wrap = micros
        <3>1. (micros - 0) % Wrap = IF micros >= 0 THEN micros - 0 ELSE micros - 0 + Wrap
            BY <2>3, ModDiff
        <3> QED
            BY <2>3, <3>1
    <2>5. CASE j = i /\ predate # 0
        BY <2>1, <2>5
    <2>6. CASE ~(j = i /\ predate # 0)
        <3>1. active_since'[j] = (micros - 0) % Wrap
            BY <2>2, <2>6
        <3> QED
            BY <2>1, <2>4, <3>1
    <2> QED
        BY <2>5, <2>6
<1>7. \A j \in Slots : active'[j] /\ active[j] => active_since'[j] = active_since[j]
    BY <1>2
<1>8. \A j \in Slots : emergency_pending[j] => emergency_pending'[j]
    BY <1>2
<1>9. \A j \in Slots : /\ active[j] /\ ~active'[j] /\ config[j].reason # {}
                       /\ ActiveDuration(j) >= config[j].delay
                       => emergency_pending'[j]
    BY <1>2
<1> QED
    BY <1>1, <1>2, <1>3, <1>4, <1>6, <1>7, <1>8, <1>9

\* The same for every event of the inputs.
EventFacts ==
    /\ UNCHANGED <<micros, config, all_inputs>>
    /\ \/ inputs_changed'
       \/ inputs_changed' = inputs_changed /\ emergency_pending' = emergency_pending
    /\ \A j \in Slots : emergency_pending[j] => emergency_pending'[j]
    /\ \A j \in Slots : /\ active[j] /\ ~active'[j] /\ config[j].reason # {}
                        /\ ActiveDuration(j) >= config[j].delay
                        => emergency_pending'[j]
    /\ \A j \in Slots : active'[j] /\ ~active[j] =>
          j \in all_inputs /\ (j \in injecting' \/ active_since'[j] = micros)
    /\ \A j \in Slots : active'[j] /\ active[j] => active_since'[j] = active_since[j]
    /\ \A j \in injecting' : j \in injecting \/ ~active[j]
    /\ \A j \in injecting \ injecting' : ~active'[j]
    /\ \A j, k \in injecting' : j = k

LEMMA EventsAre ==
    ASSUME StateInv, InputEvent PROVE EventFacts
<1>1. /\ RealInputs \subseteq Slots /\ injecting \subseteq RealInputs /\ 0 \in 0..(Wrap - 1)
      /\ \A j, k \in injecting : j = k
    BY TypeParts, InputConstantsAssumption DEF RealInputs, Slots, StateInv, InputTypeOK, ClockInv
<1>2. CASE InputOnStart \/ InputOnStop
    BY <1>1, <1>2 DEF InputOnStart, InputOnStop, EventFacts, configVars, stateVars
<1>3. ASSUME NEW i \in RealInputs, NEW b \in BOOLEAN, DriverUpdate(i, b) PROVE EventFacts
    <2>1. /\ Update(i, b, 0) /\ i \notin injecting /\ injecting' = injecting
          /\ UNCHANGED <<micros, config, all_inputs>>
        BY <1>3 DEF DriverUpdate, configVars
    <2>2. /\ active'[i] = b /\ active[i] # b /\ inputs_changed' = TRUE
          /\ \A j \in RealInputs \ {i} : active'[j] = active[j]
          /\ \A j \in Slots : emergency_pending[j] => emergency_pending'[j]
          /\ \A j \in Slots : /\ active[j] /\ ~active'[j] /\ config[j].reason # {}
                              /\ ActiveDuration(j) >= config[j].delay
                              => emergency_pending'[j]
          /\ \A j \in Slots : active'[j] /\ ~active[j] => j \in all_inputs /\ active_since'[j] = micros
          /\ \A j \in Slots : active'[j] /\ active[j] => active_since'[j] = active_since[j]
        BY <1>1, <2>1, UpdateFacts
    <2> HIDE DEF ActiveDuration
    <2> QED
        BY <1>1, <2>1, <2>2 DEF EventFacts
<1>4. ASSUME NEW i \in RealInputs, NEW d \in PressDelays, InjectPress(i, d) PROVE EventFacts
    <2>1. /\ Update(i, TRUE, d) /\ injecting = {} /\ injecting' = {i} /\ d \in 0..(Wrap - 1)
          /\ UNCHANGED <<micros, config, all_inputs>>
        BY <1>4, InputConstantsAssumption DEF InjectPress, configVars
    <2>2. /\ active'[i] /\ ~active[i] /\ inputs_changed' = TRUE
          /\ \A j \in RealInputs \ {i} : active'[j] = active[j]
          /\ \A j \in Slots : emergency_pending[j] => emergency_pending'[j]
          /\ \A j \in Slots : /\ active[j] /\ ~active'[j] /\ config[j].reason # {}
                              /\ ActiveDuration(j) >= config[j].delay
                              => emergency_pending'[j]
          /\ \A j \in Slots : active'[j] /\ ~active[j] =>
                j \in all_inputs /\ (j = i \/ active_since'[j] = micros)
          /\ \A j \in Slots : active'[j] /\ active[j] => active_since'[j] = active_since[j]
        BY <1>1, <2>1, UpdateFacts
    <2> HIDE DEF ActiveDuration
    <2> QED
        BY <1>1, <2>1, <2>2 DEF EventFacts
<1>5. ASSUME NEW i \in RealInputs, InjectRelease(i) PROVE EventFacts
    <2>1. i \in injecting /\ injecting' = {} /\ UNCHANGED <<micros, config, all_inputs>>
          /\ \A j \in injecting : j = i
        BY <1>1, <1>5 DEF InjectRelease, configVars
    <2>2. CASE i \in all_inputs /\ active[i]
        <3>1. Update(i, FALSE, 0)
            BY <1>5, <2>2 DEF InjectRelease
        <3>2. /\ ~active'[i] /\ inputs_changed' = TRUE
              /\ \A j \in Slots : emergency_pending[j] => emergency_pending'[j]
              /\ \A j \in Slots : /\ active[j] /\ ~active'[j] /\ config[j].reason # {}
                                  /\ ActiveDuration(j) >= config[j].delay
                                  => emergency_pending'[j]
              /\ \A j \in Slots : active'[j] /\ ~active[j] => j \in all_inputs /\ active_since'[j] = micros
              /\ \A j \in Slots : active'[j] /\ active[j] => active_since'[j] = active_since[j]
            BY <1>1, <3>1, UpdateFacts
        <3> HIDE DEF ActiveDuration
        <3> QED
            BY <1>1, <2>1, <3>2 DEF EventFacts
    <2>3. CASE ~(i \in all_inputs /\ active[i])
        <3>1. UNCHANGED <<active, active_since, emergency_pending, inputs_changed>>
            BY <1>5, <2>3 DEF InjectRelease, stateVars
        <3>2. ~active[i]
            BY <1>1, <2>3 DEF StateInv, SlotsInv
        <3> HIDE DEF ActiveDuration
        <3> QED
            BY <1>1, <2>1, <3>1, <3>2 DEF EventFacts
    <2> QED
        BY <2>2, <2>3
<1> QED
    BY <1>2, <1>3, <1>4, <1>5 DEF InputEvent

\* A step of the inputs: releases become pending, activations start the clock.
LEMMA InputsStepKeeps ==
    ASSUME EmergencyInv, InputsStep PROVE EmergencyInv'
<1>0. StateInv /\ TypeOK /\ CallsOK /\ InputInv /\ InputTypeOK
    BY StateFacts, TypeParts DEF EmergencyInv
<1>1. /\ UNCHANGED <<reasons, last_message, running, others_healthy, silence>>
      /\ UNCHANGED <<checks, call, mtx_queue, block_time, asleep, sleep>>
      /\ calm' = 0
      /\ held' = [i \in Slots |-> IF active'[i] /\ active[i] THEN held[i] ELSE 0]
    BY DEF InputsStep, emergencyVars, threadVars
<1>2. CallsOK' /\ Promised' = Promised
    BY <1>0, <1>1 DEF CallsOK, QueueInv, Promised, After
<1>3. InputInv' /\ Watched' \subseteq Slots
    <2>1. InputNext
        BY DEF InputsStep, InputNext, InputStep
    <2>2. InputInv'
        BY <1>0, <2>1, InputInvStep
    <2> QED
        BY <2>2 DEF InputInv, InputTypeOK, Watched
<1>4. Rest' = Rest /\ Rest' \in 0..StatusPeriod /\ Rest' \in Nat /\ \A c : Checked(c)' = Checked(c)
    BY <1>0, <1>1, TypeParts, EmergencyConstantsAssumption DEF Rest, Checked
<1>5. \A i \in Slots : ~active[i] => held'[i] + Rest' <= StatusPeriod
    <2> SUFFICES ASSUME NEW i \in Slots, ~active[i] PROVE held'[i] + Rest' <= StatusPeriod
        OBVIOUS
    <2>1. held'[i] = 0
        BY <1>1
    <2> QED
        BY <1>4, <2>1, Fresh, Zenon
<1>6. ASSUME Reload, latch_owed' = FALSE
      PROVE  SlotsInv' /\ ClockInv' /\ PendingInv' /\ LatchInv' /\ ReportInv' /\ latch_owed' \in BOOLEAN
    <2>1. /\ micros' = micros /\ injecting' = injecting
          /\ \A i \in Slots : ~active'[i] /\ ~emergency_pending'[i]
          /\ {lift_multiple_input, collision_multiple_input} \subseteq all_inputs'
        BY <1>6 DEF Reload, OnRegisterInputConfigsChanged
    <2>2. Pending' = {}
        BY <1>3, <2>1 DEF Pending
    <2>3. SlotsInv'
        BY <2>1 DEF SlotsInv
    <2>4. ClockInv'
        <3>1. MessageAge' = MessageAge
            BY <1>1, <2>1 DEF MessageAge
        <3>2. injecting \subseteq Slots
            BY <1>0, InputConstantsAssumption DEF InputTypeOK, RealInputs, Slots
        <3> HIDE DEF MessageAge
        <3> QED
            BY <1>0, <1>1, <2>1, <3>1, <3>2 DEF StateInv, ClockInv
    <2>5. PendingInv'
        BY <2>2 DEF PendingInv
    <2>6. LatchInv'
        BY <1>6 DEF LatchInv
    <2>7. ReportInv'
        BY <1>3, <2>1 DEF ReportInv
    <2> QED
        BY <1>6, <2>3, <2>4, <2>5, <2>6, <2>7
<1>7. ASSUME InputEvent, latch_owed' = (latch_owed \/ \E i \in Fired : "LATCH" \in config[i].reason)
      PROVE  SlotsInv' /\ ClockInv' /\ PendingInv' /\ LatchInv' /\ ReportInv' /\ latch_owed' \in BOOLEAN
    <2>1. EventFacts
        BY <1>0, <1>7, EventsAre
    <2>2. Watched' = Watched /\ micros' = micros /\ config' = config /\ all_inputs' = all_inputs
        BY <2>1 DEF EventFacts, Watched
    <2>3. SlotsInv'
        BY <1>0, <2>1 DEF EventFacts, StateInv, SlotsInv
    <2>4. ClockInv'
        <3>1. MessageAge' = MessageAge
            BY <1>1, <2>2 DEF MessageAge
        <3>2. ASSUME NEW i \in Slots, active'[i], i \notin injecting', held'[i] < Wrap
              PROVE  ActiveDuration(i)' = held'[i]
            <4>1. CASE active[i]
                <5>1. held'[i] = held[i] /\ active_since'[i] = active_since[i] /\ i \notin injecting
                    BY <1>1, <2>1, <3>2, <4>1 DEF EventFacts
                <5>2. ActiveDuration(i) = held[i]
                    BY <1>0, <3>2, <4>1, <5>1 DEF StateInv, ClockInv
                <5>3. ActiveDuration(i)' = ActiveDuration(i)
                    BY <2>2, <5>1 DEF ActiveDuration
                <5> QED
                    BY <5>1, <5>2, <5>3
            <4>2. CASE ~active[i]
                <5>1. held'[i] = 0 /\ active_since'[i] = micros
                    BY <1>1, <2>1, <3>2, <4>2 DEF EventFacts
                <5>2. (micros - micros) % Wrap = 0
                    BY <1>0, ModDiff DEF InputTypeOK
                <5> QED
                    BY <2>2, <5>1, <5>2 DEF ActiveDuration
            <4> QED
                BY <4>1, <4>2
        <3>3. ASSUME NEW i \in injecting', active'[i] PROVE held'[i] = 0
            <4>1. i \in Slots
                BY <1>3, InputConstantsAssumption DEF InputInv, InputTypeOK, RealInputs, Slots
            <4>2. i \in injecting \/ ~active[i]
                BY <2>1 DEF EventFacts
            <4> QED
                BY <1>0, <1>1, <4>1, <4>2 DEF StateInv, ClockInv
        <3>4. \A i, j \in injecting' : i = j
            BY <2>1 DEF EventFacts
        <3> HIDE DEF MessageAge, ActiveDuration
        <3>5. silence' < Wrap => MessageAge' = silence'
            BY <1>0, <1>1, <3>1 DEF StateInv, ClockInv
        <3> QED
            BY <1>1, <3>2, <3>3, <3>4, <3>5 DEF ClockInv
    <2>5. \A i \in Pending : i \in Pending'
        <3>1. Watched \subseteq Slots
            BY <1>0, Numbers
        <3> QED
            BY <2>1, <2>2, <3>1 DEF EventFacts, Pending
    <2>6. PendingInv'
        <3>1. inputs_changed' \/ (inputs_changed' = inputs_changed /\ Pending' = Pending)
            BY <2>1, <2>2 DEF EventFacts, Pending
        <3> QED
            BY <1>1, <3>1 DEF EmergencyInv, PendingInv
    <2>7. LatchInv'
        <3>1. ASSUME NEW i \in Fired, "LATCH" \in config[i].reason PROVE i \in Pending'
            <4>1. i \in Slots /\ active[i] /\ ~active'[i] /\ held[i] \in config[i].delay..(Wrap - 1)
                BY DEF Fired
            <4>2. /\ held[i] \in Nat /\ config[i].delay \in Nat /\ Wrap \in Nat
                  /\ ActiveDuration(i) \in 0..(Wrap - 1)
                BY <1>0, <4>1, Numbers, InputReasonsFacts
            <4>3. i \notin injecting => ActiveDuration(i) = held[i]
                BY <1>0, <4>1, <4>2 DEF StateInv, ClockInv
            <4>4. i \in injecting => held[i] = 0
                BY <1>0, <4>1 DEF StateInv, ClockInv
            <4>5. ActiveDuration(i) >= config[i].delay
                <5> HIDE DEF ActiveDuration
                <5> QED
                    BY <4>1, <4>2, <4>3, <4>4
            <4>6. config[i].reason # {} /\ i \in all_inputs
                BY <1>0, <3>1, <4>1 DEF StateInv, SlotsInv
            <4>7. emergency_pending'[i]
                <5> HIDE DEF ActiveDuration
                <5> QED
                    BY <2>1, <4>1, <4>5, <4>6 DEF EventFacts
            <4> QED
                BY <2>2, <4>6, <4>7 DEF Pending, Watched
        <3>2. CASE latch_owed
            BY <1>2, <2>2, <2>5, <3>2 DEF EmergencyInv, LatchInv
        <3>3. CASE \E i \in Fired : "LATCH" \in config[i].reason
            BY <2>2, <3>1, <3>3 DEF LatchInv
        <3> QED
            BY <1>7, <3>2, <3>3 DEF LatchInv
    <2>8. ReportInv'
        <3> SUFFICES ASSUME Checked("inputs")', NEW i \in Watched', active'[i], held'[i] < Wrap
                     PROVE  InputWatched(i)'
            BY DEF ReportInv
        <3>1. i \in Slots /\ i \in Watched /\ config'[i] = config[i]
            BY <1>3, <2>2
        <3>2. CASE active[i]
            <4>1. held'[i] = held[i]
                BY <1>1, <3>1, <3>2
            <4>2. InputWatched(i)
                BY <1>4, <3>1, <3>2, <4>1 DEF EmergencyInv, ReportInv
            <4> QED
                BY <1>2, <1>4, <3>1, <4>1, <4>2 DEF InputWatched
        <3>3. CASE ~active[i]
            <4>1. held'[i] + Rest' <= StatusPeriod
                BY <1>5, <3>1, <3>3
            <4> QED
                BY <4>1, Zenon DEF InputWatched
        <3> QED
            BY <3>2, <3>3
    <2>9. latch_owed' \in BOOLEAN
        BY <1>7
    <2> QED
        BY <2>3, <2>4, <2>6, <2>7, <2>8, <2>9
<1>8. SlotsInv' /\ ClockInv' /\ PendingInv' /\ LatchInv' /\ ReportInv' /\ latch_owed' \in BOOLEAN
    BY <1>6, <1>7 DEF InputsStep
<1>9. StateInv'
    <2>1. calm' \in 0..StatusPeriod
        BY <1>1, EmergencyConstantsAssumption
    <2>2. held' \in [Slots -> 0..Wrap]
        BY <1>0, <1>1, TypeParts, InputConstantsAssumption
    <2>3. TypeOK'
        BY <1>0, <1>1, <1>2, <1>3, <1>8, <2>1, <2>2, TypeParts, TypePartsNext DEF InputInv, CallsOK
    <2>4. ThreadInv'
        BY <1>0, <1>1 DEF StateInv, ThreadInv
    <2> QED
        BY <1>2, <1>3, <1>8, <2>3, <2>4 DEF StateInv, InputInv, CallsOK
<1>10. calm' + Rest' <= StatusPeriod
    BY <1>1, <1>4, Fresh, Zenon
<1>11. ExactInv' /\ ReadyInv'
    BY <1>10, Zenon DEF ExactInv, ReadyInv
<1>12. TimeoutInv'
    <2>1. (~running' => "TIMEOUT_HIGH_LEVEL" \in Promised') /\ silence' = silence
        BY <1>1, <1>2 DEF EmergencyInv, TimeoutInv
    <2>2. Rest' <= Rest
        BY <1>4
    <2> QED
        BY <1>2, <1>4, <2>1, <2>2, TimeoutKept
<1> QED
    BY <1>8, <1>9, <1>11, <1>12 DEF EmergencyInv

LEMMA Balance ==
    ASSUME NEW x \in Nat, NEW n \in Nat, NEW r, NEW q \in Nat \ {0}, r = q + 1, x + r <= n
    PROVE  (x + 1) + q <= n /\ x + 1 < n
OBVIOUS

\* A tick: what is counted up and what is counted down balance.
LEMMA TickStep ==
    ASSUME EmergencyInv, Tick PROVE EmergencyInv'
<1>0. StateInv /\ TypeOK /\ CallsOK /\ InputInv /\ InputTypeOK
    BY StateFacts, TypeParts DEF EmergencyInv
<1>1. /\ UNCHANGED <<reasons, last_message, running, others_healthy, checks, call, mtx_queue>>
      /\ UNCHANGED <<block_time, asleep, latch_owed>>
      /\ UNCHANGED <<input_running, inputs_configured, all_inputs, config, active, active_since,
                     emergency_pending, injecting, inputs_changed>>
      /\ asleep /\ ~inputs_changed /\ injecting = {} /\ checks["main"] = {}
      /\ micros' = (micros + 1) % Wrap
      /\ sleep' = IF sleep > 0 THEN sleep - 1 ELSE 0
      /\ held' = [i \in Slots |-> IF active[i] THEN Minimum(held[i] + 1, Wrap) ELSE 0]
      /\ silence' = Minimum(silence + 1, Wrap) /\ calm' = Minimum(calm + 1, StatusPeriod)
    BY DEF Tick, ClockTick, emergencyVars, configVars, stateVars, Idle, Threads
<1>2. CallsOK' /\ Promised' = Promised
    BY <1>0, <1>1 DEF CallsOK, QueueInv, Promised, After
<1>3. /\ sleep \in 0..StatusPeriod /\ calm \in 0..StatusPeriod /\ silence \in 0..Wrap
      /\ StatusPeriod \in Nat \ {0} /\ Wrap \in Nat \ {0} /\ HlTimeout \in Nat
      /\ \A i \in Slots : held[i] \in 0..Wrap /\ config[i].delay \in Nat
      /\ Watched \subseteq Slots
    BY <1>0, TypeParts, Numbers, EmergencyConstantsAssumption, InputConstantsAssumption
<1>4. InputInv' /\ Watched' = Watched
    <2>1. InputNext
        BY DEF Tick, InputNext
    <2> QED
        BY <1>0, <1>1, <2>1, InputInvStep DEF Watched
<1>5. Pending = {} /\ Pending' = {}
    <2>1. Pending = {}
        BY <1>1 DEF EmergencyInv, PendingInv
    <2> QED
        BY <1>1, <1>4, <2>1 DEF Pending
<1>6. ASSUME NEW i \in Slots, active[i], held'[i] < Wrap
      PROVE  /\ held'[i] = held[i] + 1 /\ held[i] < Wrap
             /\ ActiveDuration(i) = held[i] /\ ActiveDuration(i)' = held[i] + 1
    <2>1. held'[i] = Minimum(held[i] + 1, Wrap)
        BY <1>1, <1>6
    <2>2. held'[i] = held[i] + 1 /\ held[i] < Wrap /\ held[i] + 1 < Wrap
        BY <1>3, <1>6, <2>1 DEF Minimum
    <2>3. ActiveDuration(i) = held[i]
        BY <1>0, <1>1, <1>6, <2>2 DEF StateInv, ClockInv
    <2>4. micros \in 0..(Wrap - 1) /\ active_since[i] \in 0..(Wrap - 1)
        BY <1>0 DEF InputTypeOK
    <2>5. (((micros + 1) % Wrap) - active_since[i]) % Wrap = ((micros - active_since[i]) % Wrap) + 1
        BY <2>2, <2>3, <2>4, ModTick DEF ActiveDuration
    <2> QED
        BY <1>1, <2>2, <2>3, <2>5 DEF ActiveDuration
<1>7. silence' < Wrap => /\ silence' = silence + 1 /\ silence < Wrap
                         /\ MessageAge' = silence'
    <2> SUFFICES ASSUME silence' < Wrap
                 PROVE  silence' = silence + 1 /\ silence < Wrap /\ MessageAge' = silence'
        OBVIOUS
    <2>1. silence' = silence + 1 /\ silence < Wrap /\ silence + 1 < Wrap
        BY <1>1, <1>3 DEF Minimum
    <2>2. MessageAge = silence
        BY <1>0, <2>1 DEF StateInv, ClockInv
    <2>3. micros \in 0..(Wrap - 1) /\ last_message \in 0..(Wrap - 1)
        BY <1>0, TypeParts DEF InputTypeOK
    <2>4. (((micros + 1) % Wrap) - last_message) % Wrap = ((micros - last_message) % Wrap) + 1
        BY <2>1, <2>2, <2>3, ModTick DEF MessageAge
    <2> QED
        BY <1>1, <2>1, <2>2, <2>4 DEF MessageAge
<1> HIDE DEF ActiveDuration, MessageAge
<1>8. StateInv'
    <2>1. /\ sleep' \in 0..StatusPeriod /\ calm' \in 0..StatusPeriod /\ silence' \in 0..Wrap
          /\ held' \in [Slots -> 0..Wrap]
        BY <1>1, <1>3 DEF Minimum
    <2>2. TypeOK'
        BY <1>0, <1>1, <1>2, <1>4, <2>1, TypeParts, TypePartsNext DEF InputInv, CallsOK
    <2>3. ThreadInv'
        BY <1>0, <1>1 DEF StateInv, ThreadInv
    <2>4. SlotsInv'
        BY <1>0, <1>1 DEF StateInv, SlotsInv
    <2>5. ClockInv'
        <3>1. \A i \in Slots : active'[i] /\ held'[i] < Wrap => ActiveDuration(i)' = held'[i]
            BY <1>1, <1>6
        <3>2. injecting' = {}
            BY <1>1
        <3> QED
            BY <1>7, <3>1, <3>2 DEF ClockInv
    <2> QED
        BY <1>2, <1>4, <2>2, <2>3, <2>4, <2>5 DEF StateInv, InputInv, CallsOK
<1>9. PendingInv'
    BY <1>5 DEF PendingInv
<1>10. LatchInv'
    BY <1>1, <1>2, <1>5 DEF EmergencyInv, LatchInv
<1>11. \A c : Checked(c)' => /\ Checked(c) /\ running
                            /\ Rest = Rest' + 1 /\ Rest' \in Nat \ {0} /\ Rest' <= StatusPeriod
    <2> SUFFICES ASSUME NEW c, Checked(c)'
                 PROVE  Checked(c) /\ running /\ Rest = Rest' + 1 /\ Rest' \in Nat \ {0}
                        /\ Rest' <= StatusPeriod
        OBVIOUS
    <2>1. running /\ sleep' > 0 /\ Rest = sleep /\ Rest' = sleep'
        BY <1>1 DEF Checked, Rest
    <2>2. sleep > 0 /\ sleep' = sleep - 1
        BY <1>1, <1>3, <2>1
    <2> QED
        BY <1>1, <1>3, <2>1, <2>2 DEF Checked
<1> HIDE DEF Checked, Rest
\* A sum of something counted up and the rest of the sleep.
<1>12. ASSUME NEW c, Checked(c)', NEW x \in Nat, NEW n \in Nat, x + Rest <= n
       PROVE  (x + 1) + Rest' <= n /\ x + 1 < n
    <2>1. Rest = Rest' + 1 /\ Rest' \in Nat \ {0}
        BY <1>11, <1>12
    <2> QED
        BY <1>12, <2>1, Balance, Zenon
<1>13. ReportInv'
    <2> SUFFICES ASSUME Checked("inputs")', NEW i \in Watched', active'[i], held'[i] < Wrap
                 PROVE  InputWatched(i)'
        BY DEF ReportInv
    <2>1. /\ i \in Watched /\ i \in Slots /\ active[i] /\ config'[i] = config[i]
          /\ held'[i] = held[i] + 1 /\ held[i] < Wrap
        BY <1>1, <1>3, <1>4, <1>6
    <2>2. InputWatched(i) /\ held[i] \in Nat /\ config[i].delay \in Nat /\ StatusPeriod \in Nat
        BY <1>3, <1>11, <2>1 DEF EmergencyInv, ReportInv
    <2>3. CASE held[i] >= config[i].delay /\ config[i].reason \subseteq Promised
        <3>1. held'[i] >= config[i].delay
            BY <2>1, <2>2, <2>3
        <3> QED
            BY <1>2, <2>1, <2>3, <3>1 DEF InputWatched
    <2>4. CASE held[i] + Rest <= StatusPeriod
        <3>1. (held[i] + 1) + Rest' <= StatusPeriod
            BY <1>12, <2>2, <2>4
        <3> QED
            BY <2>1, <3>1 DEF InputWatched
    <2>5. CASE held[i] + Rest <= config[i].delay
        <3>1. (held[i] + 1) + Rest' <= config[i].delay
            BY <1>12, <2>2, <2>5
        <3> QED
            BY <2>1, <3>1 DEF InputWatched
    <2> QED
        BY <2>2, <2>3, <2>4, <2>5 DEF InputWatched
<1>14. ASSUME NEW c, Checked(c)', calm + Rest <= StatusPeriod
       PROVE  calm' + Rest' <= StatusPeriod
    <2>1. (calm + 1) + Rest' <= StatusPeriod /\ calm + 1 < StatusPeriod
        BY <1>3, <1>12, <1>14
    <2>2. calm' = calm + 1
        BY <1>1, <2>1 DEF Minimum
    <2> QED
        BY <2>1, <2>2
<1>15. ExactInv'
    <2> SUFFICES ASSUME Checked("inputs")', \A i \in Slots : active'[i] => held'[i] < Wrap
                 PROVE  calm' + Rest' <= StatusPeriod \/ InputsExact'
        BY DEF ExactInv
    <2>1. \A i \in Slots : active[i] => /\ held'[i] = held[i] + 1 /\ held[i] < Wrap
                                       /\ ActiveDuration(i) = held[i]
                                       /\ ActiveDuration(i)' = held[i] + 1
        BY <1>1, <1>6
    <2>2. calm + Rest <= StatusPeriod \/ InputsExact
        BY <1>11, <2>1 DEF EmergencyInv, ExactInv
    <2>3. CASE calm + Rest <= StatusPeriod
        BY <1>14, <2>3
    <2>4. CASE InputsExact
        <3>1. ASSUME NEW i \in Watched, active[i]
              PROVE  /\ i \in Slots /\ held[i] \in Nat /\ config[i].delay \in Nat
                     /\ i \in TimedOut <=> held[i] >= config[i].delay
                     /\ i \in TimedOut' <=> held[i] + 1 >= config[i].delay
                     /\ i \in Waiting <=> held[i] < config[i].delay
                     /\ i \in Waiting' <=> held[i] + 1 < config[i].delay
            <4>1. i \in Slots /\ held[i] \in Nat /\ config[i].delay \in Nat
                BY <1>3
            <4>2. ActiveDuration(i) = held[i] /\ ActiveDuration(i)' = held[i] + 1
                BY <2>1, <3>1, <4>1
            <4> QED
                BY <1>1, <1>4, <1>5, <3>1, <4>1, <4>2 DEF TimedOut, Waiting
        <3>2. ASSUME NEW i \in Waiting
              PROVE  /\ i \in Watched /\ active[i]
                     /\ (held[i] + 1) + Rest' <= config[i].delay /\ held[i] + 1 < config[i].delay
            <4>1. i \in Watched /\ active[i] /\ held[i] + Rest <= config[i].delay
                BY <2>4 DEF InputsExact, Waiting
            <4>2. held[i] \in Nat /\ config[i].delay \in Nat
                BY <3>1, <4>1
            <4> QED
                BY <1>12, <4>1, <4>2
        <3>3. TimedOut' = TimedOut /\ Waiting' = Waiting
            <4>1. ASSUME NEW i \in Watched, active[i]
                  PROVE  (i \in TimedOut <=> i \in TimedOut') /\ (i \in Waiting <=> i \in Waiting')
                <5>1. CASE i \in Waiting
                    BY <3>1, <3>2, <4>1, <5>1
                <5>2. CASE i \notin Waiting
                    BY <3>1, <4>1, <5>2
                <5> QED
                    BY <5>1, <5>2
            <4>2. \A i : i \in TimedOut \/ i \in Waiting => i \in Watched /\ active[i]
                BY DEF TimedOut, Waiting
            <4>3. \A i : i \in TimedOut' \/ i \in Waiting' => i \in Watched /\ active[i]
                BY <1>1, <1>4 DEF TimedOut, Waiting
            <4> QED
                BY <4>1, <4>2, <4>3
        <3>4. ASSUME NEW i \in Waiting' PROVE held'[i] + Rest' <= config'[i].delay
            <4>1. i \in Waiting
                BY <3>3
            <4>2. held'[i] = held[i] + 1 /\ (held[i] + 1) + Rest' <= config[i].delay
                BY <1>3, <2>1, <3>2, <4>1
            <4> QED
                BY <1>1, <4>2
        <3>5. Promised' \cap CheckedInputReasons =
                UNION {config'[i].reason \ {"LATCH"} : i \in TimedOut'}
            BY <1>1, <1>2, <2>4, <3>3 DEF InputsExact
        <3> QED
            BY <3>4, <3>5 DEF InputsExact
    <2> QED
        BY <2>2, <2>3, <2>4
<1>16. TimeoutInv'
    <2>1. ~running' => "TIMEOUT_HIGH_LEVEL" \in Promised'
        BY <1>1, <1>2 DEF EmergencyInv, TimeoutInv
    <2>2. ASSUME Checked("timeouts")', silence' < Wrap
          PROVE  /\ "TIMEOUT_HIGH_LEVEL" \in Promised' <=> silence' >= HlTimeout
                 /\ "TIMEOUT_INPUTS" \notin Promised'
                 /\ silence' < HlTimeout => silence' + Rest' <= HlTimeout
        <3>1. silence' = silence + 1 /\ silence < Wrap /\ silence \in Nat /\ HlTimeout \in Nat
            BY <1>3, <1>7, <2>2
        <3>2. /\ "TIMEOUT_HIGH_LEVEL" \in Promised <=> silence >= HlTimeout
              /\ "TIMEOUT_INPUTS" \notin Promised
              /\ silence < HlTimeout => silence + Rest <= HlTimeout
            BY <1>11, <2>2, <3>1 DEF EmergencyInv, TimeoutInv
        <3>3. silence < HlTimeout => (silence + 1) + Rest' <= HlTimeout /\ silence + 1 < HlTimeout
            BY <1>12, <2>2, <3>1, <3>2
        <3>4. silence' >= HlTimeout <=> silence >= HlTimeout
            BY <3>1, <3>3
        <3>5. silence' < HlTimeout => silence' + Rest' <= HlTimeout
            BY <3>1, <3>3, <3>4
        <3> QED
            BY <1>2, <3>2, <3>4, <3>5
    <2> QED
        BY <2>1, <2>2 DEF TimeoutInv
<1>17. ReadyInv'
    <2>1. AllReady' = AllReady
        BY <1>1 DEF AllReady
    <2>2. Checked("services")' => calm + Rest <= StatusPeriod \/ ("SERVICE_NOT_READY" \in Promised <=> ~AllReady)
        BY <1>11 DEF EmergencyInv, ReadyInv
    <2> QED
        BY <1>2, <1>14, <2>1, <2>2 DEF ReadyInv
<1> QED
    BY <1>8, <1>9, <1>10, <1>13, <1>15, <1>16, <1>17 DEF EmergencyInv

-----------------------------------------------------------------------------
(* The theorems.                                                           *)

LEMMA InitInv == Init => EmergencyInv
<1> SUFFICES ASSUME Init PROVE EmergencyInv
    OBVIOUS
<1>1. InputInv
    <2>1. CountersAgree /\ MultipleNeedsTwo
        BY NothingActive DEF Init, InputInit
    <2>2. Unconfigured \in InputConfig /\ 0 \in 0..(Wrap - 1)
        BY InputConstantsAssumption DEF Unconfigured, InputConfig
    <2>3. InputTypeOK
        BY <2>2 DEF Init, InputInit, InputTypeOK
    <2> QED
        BY <2>1, <2>3 DEF InputInv
<1>2. TypeOK
    <2>1. /\ 0 \in 0..(Wrap - 1) /\ 0 \in 0..Wrap /\ 0 \in 0..StatusPeriod
        BY InputConstantsAssumption, EmergencyConstantsAssumption
    <2>2. NoCall \in Calls
        BY DEF NoCall, Calls
    <2>3. call \in [Threads -> Calls] /\ mtx_queue \in Queues /\ checks \in [Threads -> SUBSET AllChecks]
        BY <2>2 DEF Init, Queues
    <2>4. reasons \subseteq EmergencyReasons
        BY DEF Init, EmergencyReasons
    <2>5. held \in [Slots -> 0..Wrap]
        BY <2>1 DEF Init
    <2> QED
        BY <1>1, <2>1, <2>3, <2>4, <2>5, TypeParts DEF Init, InputInv
<1>3. QueueInv
    BY DEF Init, QueueInv, Threads
<1>4. ThreadInv
    BY DEF Init, ThreadInv, Threads
<1>5. ClockInv
    <2>1. MessageAge = 0
        <3>1. micros = 0 /\ last_message = 0 /\ 0 \in 0..(Wrap - 1)
            BY InputConstantsAssumption DEF Init, InputInit
        <3> QED
            BY <3>1, ModDiff DEF MessageAge
    <2>2. \A i \in Slots : ~active[i]
        BY DEF Init, InputInit
    <2>3. injecting = {} /\ silence = 0
        BY DEF Init, InputInit
    <2> HIDE DEF MessageAge
    <2> QED
        BY <2>1, <2>2, <2>3 DEF ClockInv
<1>6. SlotsInv
    BY DEF Init, InputInit, SlotsInv
<1>7. Pending = {} /\ Watched = {}
    BY DEF Init, InputInit, Pending, Watched
<1>8. PendingInv /\ LatchInv
    BY <1>7 DEF Init, PendingInv, LatchInv
<1>9. ~running /\ Promised = reasons /\ "TIMEOUT_HIGH_LEVEL" \in reasons
    BY DEF Init, Promised
<1>10. ReportInv /\ ExactInv /\ TimeoutInv /\ ReadyInv
    BY <1>9 DEF ReportInv, ExactInv, TimeoutInv, ReadyInv, Checked
<1> QED
    BY <1>1, <1>2, <1>3, <1>4, <1>5, <1>6, <1>8, <1>10 DEF EmergencyInv, StateInv, InputInv

\* The inductive invariant of the emergency service holds whatever the inputs,
\* the high level, the other services, the two threads and the clock do.
THEOREM EmergencyInvariant == Spec => []EmergencyInv
<1>1. Init => EmergencyInv
    BY InitInv
<1>2. EmergencyInv /\ [Next]_vars => EmergencyInv'
    <2> SUFFICES ASSUME EmergencyInv, [Next]_vars PROVE EmergencyInv'
        OBVIOUS
    <2>1. ASSUME NEW t \in Threads, CheckInputs(t) PROVE EmergencyInv'
        BY <2>1, CheckInputsStep
    <2>2. ASSUME NEW t \in Threads, UpdateEmergency(t) \/ SendStatus(t) PROVE EmergencyInv'
        BY <2>2, ServeStep
    <2>3. CASE CheckTimeouts
        BY <2>3, TimeoutsStep
    <2>4. CASE CheckRequiredServices
        BY <2>4, ServicesStep
    <2>5. ASSUME NEW b \in BOOLEAN, Wake(b) PROVE EmergencyInv'
        BY <2>5, WakeStep
    <2>6. CASE Sleep
        BY <2>6, SleepStep
    <2>7. CASE MainOnInputsChanged
        BY <2>7, MainStep
    <2>8. ASSUME NEW v \in HighLevelValues, OnHighLevelEmergencyChanged(v[1], v[2])
          PROVE  EmergencyInv'
        BY <2>8, HighLevelStep
    <2>9. CASE OnStart \/ OnStop
        BY <2>9, StartStopStep
    <2>10. CASE InputsStep
        BY <2>10, InputsStepKeeps
    <2>11. CASE OthersChange
        BY <2>11, OthersStep
    <2>12. CASE Tick
        BY <2>12, TickStep
    <2>13. CASE UNCHANGED vars
        BY <2>13, StutterStep
    <2> QED
        BY <2>1, <2>2, <2>3, <2>4, <2>5, <2>6, <2>7, <2>8, <2>9, <2>10, <2>11, <2>12, <2>13
        DEF Next, ThreadStep, Environment
<1> QED
    BY <1>1, <1>2, PTL DEF Spec

\* The state of the service keeps its types: the block time and the sleep never
\* exceed the status period, and mtx_ is never taken twice by one thread.
THEOREM EmergencyTypeCorrect == Spec => []TypeOK
<1>1. EmergencyInv => TypeOK
    BY DEF EmergencyInv, StateInv
<1> QED
    BY EmergencyInvariant, <1>1, PTL

\* When every thread waits, every promise is kept.
LEMMA SettledFacts ==
    ASSUME EmergencyInv, Settled
    PROVE  /\ Promised = reasons /\ Pending = {}
           /\ running => Rest \in Nat \ {0} /\ \A c : Checked(c)
<1>1. mtx_queue = << >> /\ asleep /\ (running => sleep > 0) /\ ~inputs_changed /\ checks["main"] = {}
    BY DEF Settled, Idle, Threads
<1>2. sleep \in Nat
    BY TypeParts, EmergencyConstantsAssumption DEF EmergencyInv, StateInv
<1> QED
    BY <1>1, <1>2 DEF Promised, EmergencyInv, PendingInv, Rest, Checked

\* LATCH stays set until the high level clears it or the inputs are reloaded,
\* however short the press was and whichever thread looked at the input
\* (emergency_pending, CheckInputs, UpdateEmergency).
THEOREM LatchIsHeld == Spec => []LatchHolds
<1>1. EmergencyInv => LatchHolds
    <2> SUFFICES ASSUME EmergencyInv, Settled, latch_owed PROVE "LATCH" \in reasons
        BY DEF LatchHolds
    <2> QED
        BY SettledFacts DEF EmergencyInv, LatchInv
<1> QED
    BY EmergencyInvariant, <1>1, PTL

\* CheckTimeouts and OnStop: a high level that is silent for HlTimeout, or a
\* service that is stopped, always ends in TIMEOUT_HIGH_LEVEL.
THEOREM SilenceIsNoticed == Spec => []SilenceEngages
<1>1. EmergencyInv => SilenceEngages
    <2> SUFFICES ASSUME EmergencyInv, Settled, running => silence \in HlTimeout..(Wrap - 1)
                 PROVE  "TIMEOUT_HIGH_LEVEL" \in reasons
        BY DEF SilenceEngages
    <2>1. running \in BOOLEAN /\ HlTimeout \in Nat /\ Wrap \in Nat
        BY TypeParts, Numbers DEF EmergencyInv, StateInv
    <2>2. CASE running
        <3>1. silence < Wrap /\ silence >= HlTimeout
            BY <2>1, <2>2
        <3>2. Checked("timeouts")
            BY <2>2, SettledFacts
        <3> QED
            BY <3>1, <3>2, SettledFacts DEF EmergencyInv, TimeoutInv
    <2>3. CASE ~running
        BY <2>3, SettledFacts DEF EmergencyInv, TimeoutInv
    <2> QED
        BY <2>2, <2>3
<1> QED
    BY EmergencyInvariant, <1>1, PTL

\* An input that stays active is reported once its delay and one status period
\* are over, although main's CheckInputs drops the block time (OnLoop).
THEOREM InputsAreReported == Spec => []ReportedInTime
<1>1. EmergencyInv => ReportedInTime
    <2> SUFFICES ASSUME EmergencyInv, Settled, running, NEW i \in Watched, active[i],
                        held[i] \in 0..(Wrap - 1), held[i] >= config[i].delay,
                        held[i] >= StatusPeriod
                 PROVE  config[i].reason \subseteq reasons
        BY DEF ReportedInTime
    <2>1. Promised = reasons /\ Rest \in Nat \ {0} /\ Checked("inputs")
        BY SettledFacts
    <2>2. i \in Slots /\ held[i] \in Nat /\ config[i].delay \in Nat /\ StatusPeriod \in Nat /\ Wrap \in Nat
        BY Numbers DEF EmergencyInv, StateInv
    <2>3. held[i] < Wrap
        BY <2>2
    <2>4. InputWatched(i)
        BY <2>1, <2>3 DEF EmergencyInv, ReportInv
    <2> HIDE DEF Rest
    <2>5. ~(held[i] + Rest <= StatusPeriod) /\ ~(held[i] + Rest <= config[i].delay)
        BY <2>1, <2>2
    <2> QED
        BY <2>1, <2>4, <2>5 DEF InputWatched
<1> QED
    BY EmergencyInvariant, <1>1, PTL

\* reasons_ is exactly what the inputs, the silence and the services give once
\* nothing changed for a status period: of the checks the two threads make in
\* any order, no older result survives a newer one.
THEOREM ReasonsAreExact == Spec => []ReasonsExact
<1>1. EmergencyInv => ReasonsExact
    <2> SUFFICES ASSUME EmergencyInv, Settled, running, calm = StatusPeriod, silence < Wrap,
                        \A i \in Slots : held[i] < Wrap
                 PROVE  reasons \ (HighLevelReasons \cup {"LATCH"}) =
                          (UNION {config[i].reason \ {"LATCH"} : i \in TimedOut})
                          \cup (IF silence >= HlTimeout THEN {"TIMEOUT_HIGH_LEVEL"} ELSE {})
                          \cup (IF AllReady THEN {} ELSE {"SERVICE_NOT_READY"})
        BY DEF ReasonsExact
    <2>1. Promised = reasons /\ Rest \in Nat \ {0} /\ \A c : Checked(c)
        BY SettledFacts
    <2>2. StatusPeriod \in Nat /\ reasons \subseteq EmergencyReasons
        BY Numbers, TypeParts DEF EmergencyInv, StateInv
    <2> HIDE DEF Rest, Checked, AllReady
    <2>3. ~(calm + Rest <= StatusPeriod)
        BY <2>1, <2>2
    <2>4. reasons \cap CheckedInputReasons = UNION {config[i].reason \ {"LATCH"} : i \in TimedOut}
        BY <2>1, <2>3 DEF EmergencyInv, ExactInv, InputsExact
    <2>5. /\ "TIMEOUT_HIGH_LEVEL" \in reasons <=> silence >= HlTimeout
          /\ "TIMEOUT_INPUTS" \notin reasons
        BY <2>1 DEF EmergencyInv, TimeoutInv
    <2>6. "SERVICE_NOT_READY" \in reasons <=> ~AllReady
        BY <2>1, <2>3 DEF EmergencyInv, ReadyInv
    <2>7. reasons \ (HighLevelReasons \cup {"LATCH"}) =
            (reasons \cap CheckedInputReasons)
            \cup (reasons \cap {"TIMEOUT_HIGH_LEVEL"}) \cup (reasons \cap {"SERVICE_NOT_READY"})
        BY <2>2, <2>5 DEF EmergencyReasons, CheckedInputReasons, HighLevelReasons
    <2>8. /\ reasons \cap {"TIMEOUT_HIGH_LEVEL"} =
               IF silence >= HlTimeout THEN {"TIMEOUT_HIGH_LEVEL"} ELSE {}
          /\ reasons \cap {"SERVICE_NOT_READY"} = IF AllReady THEN {} ELSE {"SERVICE_NOT_READY"}
        BY <2>5, <2>6
    <2> QED
        BY <2>4, <2>7, <2>8
<1> QED
    BY EmergencyInvariant, <1>1, PTL
=============================================================================
