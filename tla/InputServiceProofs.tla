------------------------- MODULE InputServiceProofs -------------------------
(***************************************************************************)
(* The lift and collision counters agree with the inputs, and the virtual  *)
(* inputs with the counters, for every configuration and every number of   *)
(* inputs and redundancy groups.                                           *)
(***************************************************************************)
EXTENDS InputService, FiniteSetTheorems, TLAPS

\* The slots, and with them every set of inputs, are finite.
LEMMA SlotsFinite ==
    /\ IsFiniteSet(RealInputs)
    /\ IsFiniteSet(Groups)
    /\ \A S \in SUBSET RealInputs : IsFiniteSet(S)
    /\ \A S \in SUBSET Groups : IsFiniteSet(S)
<1>1. IsFiniteSet(RealInputs) /\ IsFiniteSet(Groups)
    BY InputConstantsAssumption, FS_Interval DEF RealInputs, Groups
<1> QED
    BY <1>1, FS_Subset

\* The size of a finite set is a natural number, zero only for the empty set.
LEMMA CountNat ==
    ASSUME NEW S, IsFiniteSet(S)
    PROVE  Cardinality(S) \in Nat /\ (Cardinality(S) = 0 <=> S = {})
BY FS_CardinalityType, FS_EmptySet

\* Adding an element to a set counts one more, removing one counts one less.
LEMMA CountOne ==
    ASSUME NEW S, IsFiniteSet(S), NEW x
    PROVE  /\ x \notin S => Cardinality(S \cup {x}) = Cardinality(S) + 1
           /\ x \in S => Cardinality(S \ {x}) = Cardinality(S) - 1
           /\ x \in S => (Cardinality(S) = 1 <=> S \ {x} = {})
<1>1. x \notin S => Cardinality(S \cup {x}) = Cardinality(S) + 1
    BY FS_AddElement
<1>2. x \in S => Cardinality(S \ {x}) = Cardinality(S) - 1
    BY FS_RemoveElement
<1>3. IsFiniteSet(S \ {x})
    BY FS_RemoveElement
<1>4. Cardinality(S) \in Nat /\ (Cardinality(S \ {x}) = 0 <=> S \ {x} = {})
    BY <1>3, CountNat
<1> QED
    BY <1>1, <1>2, <1>4

\* A parsed entry has a group id that redundancy_group_refcount_ can hold.
LEMMA GroupIdType ==
    ASSUME NEW request \in Requests, NEW k \in Parsed(request)
    PROVE  GroupId(request, k) \in 0..MaxGroups
<1> DEFINE names == GroupNames(request, k)
           met == {n \in names : \A j \in 1..k :
                      request[j].group = request[k].group => n \in GroupNames(request, j)}
<1>1. k \in Nat /\ k >= 1 /\ ~ParseFails(request, k)
    BY InputConstantsAssumption DEF Parsed
<1>2. IsFiniteSet(names) /\ Cardinality(names) \in Nat
    <2> DEFINE f == [j \in 1..k |-> request[j].group]
               T == {request[j].group : j \in 1..k}
    <2>1. IsFiniteSet(1..k)
        BY <1>1, FS_Interval
    <2>2. f \in Surjection(1..k, T)
        BY DEF Surjection
    <2>3. IsFiniteSet(T)
        BY <2>1, <2>2, FS_Surjection
    <2>4. names \in SUBSET T
        BY DEF GroupNames
    <2> QED
        BY <2>3, <2>4, FS_Subset, FS_CardinalityType
<1>3. Cardinality(names) <= MaxGroups
    BY <1>1, <1>2, InputConstantsAssumption DEF ParseFails
<1>4. Cardinality(met) \in Nat /\ Cardinality(met) <= Cardinality(names)
    BY <1>2, FS_Subset, FS_CardinalityType
<1> QED
    BY <1>2, <1>3, <1>4, InputConstantsAssumption DEF GroupId

\* One update of an input keeps the counters in step with the inputs.
LEMMA UpdateKeepsCounters ==
    ASSUME InputInv, NEW i \in RealInputs, NEW b \in BOOLEAN, NEW predate \in 0..(Wrap - 1),
           Update(i, b, predate), config' = config
    PROVE  /\ CountersAgree' /\ MultipleNeedsTwo'
           /\ num_active_lift' \in Nat /\ num_active_collision' \in Nat
           /\ group_refcount' \in [Groups -> Nat]
<1> DEFINE g == config[i].group
           lift == "LIFT" \in config[i].reason
           collision == "COLLISION" \in config[i].reason
<1>1. /\ active[i] = ~b /\ active'[i] = b
      /\ \A j \in RealInputs \ {i} : active'[j] = active[j]
      /\ active \in [Slots -> BOOLEAN] /\ config[i] \in InputConfig
      /\ i \in Slots /\ g \in 0..MaxGroups
    <2>1. /\ active \in [Slots -> BOOLEAN] /\ config \in [Slots -> InputConfig]
          /\ i \in Slots /\ RealInputs \subseteq Slots
        BY InputConstantsAssumption DEF InputInv, InputTypeOK, Slots, RealInputs
    <2>2. config[i] \in InputConfig /\ g \in 0..MaxGroups
        BY <2>1 DEF InputConfig
    <2>3. /\ active[i] = ~b /\ active'[i] = b
          /\ \A j \in RealInputs \ {i} : active'[j] = active[j]
        BY <2>1 DEF Update, NewActive, RealInputs, lift_multiple_input, collision_multiple_input
    <2> QED
        BY <2>1, <2>2, <2>3
<1>2. ASSUME NEW r
      PROVE  /\ r \notin config[i].reason => ActiveWith(r)' = ActiveWith(r)
             /\ r \in config[i].reason /\ b => /\ i \notin ActiveWith(r)
                                                /\ ActiveWith(r)' = ActiveWith(r) \cup {i}
             /\ r \in config[i].reason /\ ~b => /\ i \in ActiveWith(r)
                                                 /\ ActiveWith(r)' = ActiveWith(r) \ {i}
    BY <1>1 DEF ActiveWith
<1>3. /\ CountersAgree /\ MultipleNeedsTwo
      /\ num_active_lift \in Nat /\ num_active_collision \in Nat
      /\ group_refcount \in [Groups -> Nat]
    BY DEF InputInv, InputTypeOK
<1>4. num_active_collision' = Cardinality(ActiveWith("COLLISION")')
    <2>1. ActiveWith("COLLISION") \in SUBSET RealInputs
        BY DEF ActiveWith
    <2> QED
        BY <1>1, <1>2, <1>3, <2>1, SlotsFinite, CountOne
        DEF Update, CollisionCount, CountersAgree
<1>5. \A h \in Groups : group_refcount'[h] = Cardinality(LiftsInGroup(h)')
    <2> SUFFICES ASSUME NEW h \in Groups
                 PROVE  group_refcount'[h] = Cardinality(LiftsInGroup(h)')
        OBVIOUS
    <2>1. /\ LiftsInGroup(h) \in SUBSET RealInputs
          /\ group_refcount[h] = Cardinality(LiftsInGroup(h))
          /\ h # 0
        BY <1>3, InputConstantsAssumption DEF LiftsInGroup, ActiveWith, CountersAgree, Groups
    <2>2. CASE lift /\ g = h
        <3>1. IF b THEN i \notin LiftsInGroup(h) /\ LiftsInGroup(h)' = LiftsInGroup(h) \cup {i}
                   ELSE i \in LiftsInGroup(h) /\ LiftsInGroup(h)' = LiftsInGroup(h) \ {i}
            BY <1>1, <1>2, <2>2 DEF LiftsInGroup
        <3>2. group_refcount'[h] = IF b THEN group_refcount[h] + 1 ELSE group_refcount[h] - 1
            BY <1>3, <2>1, <2>2 DEF Update
        <3> QED
            BY <2>1, <3>1, <3>2, SlotsFinite, CountOne
    <2>3. CASE ~(lift /\ g = h)
        <3>1. LiftsInGroup(h)' = LiftsInGroup(h)
            BY <1>1, <1>2, <2>3 DEF LiftsInGroup
        <3>2. group_refcount'[h] = group_refcount[h]
            BY <1>3, <2>1, <2>3 DEF Update
        <3> QED
            BY <2>1, <3>1, <3>2
    <2> QED
        BY <2>2, <2>3
<1>6. num_active_lift' = Cardinality(UngroupedLifts') + Cardinality(LiftedGroups')
    <2>1. /\ UngroupedLifts \in SUBSET RealInputs /\ LiftedGroups \in SUBSET Groups
          /\ IsFiniteSet(UngroupedLifts) /\ IsFiniteSet(LiftedGroups)
        BY SlotsFinite DEF UngroupedLifts, LiftedGroups, ActiveWith
    <2>2. num_active_lift = Cardinality(UngroupedLifts) + Cardinality(LiftedGroups)
        BY <1>3 DEF CountersAgree
    <2>3. CASE ~lift
        <3>1. UngroupedLifts' = UngroupedLifts /\ LiftedGroups' = LiftedGroups
            BY <1>2, <2>3 DEF UngroupedLifts, LiftedGroups, LiftsInGroup
        <3> QED
            BY <1>3, <2>2, <2>3, <3>1 DEF Update, LiftCount
    <2>4. CASE lift /\ g = 0
        <3>1. IF b THEN i \notin UngroupedLifts /\ UngroupedLifts' = UngroupedLifts \cup {i}
                   ELSE i \in UngroupedLifts /\ UngroupedLifts' = UngroupedLifts \ {i}
            BY <1>1, <1>2, <2>4 DEF UngroupedLifts
        <3>2. \A h \in Groups : LiftsInGroup(h)' = LiftsInGroup(h)
            BY <1>1, <1>2, <2>4, InputConstantsAssumption DEF LiftsInGroup, Groups
        <3>3. LiftedGroups' = LiftedGroups
            BY <3>2 DEF LiftedGroups
        <3>4. num_active_lift' = IF b THEN num_active_lift + 1 ELSE num_active_lift - 1
            BY <1>3, <2>4 DEF Update, LiftCount
        <3>5. Cardinality(UngroupedLifts') = Cardinality(UngroupedLifts) + (IF b THEN 1 ELSE -1)
            BY <2>1, <3>1, CountOne, CountNat
        <3> QED
            BY <2>1, <2>2, <3>3, <3>4, <3>5, CountNat
    <2>5. CASE lift /\ g # 0
        <3>1. g \in Groups
            BY <1>1, <2>5, InputConstantsAssumption DEF Groups
        <3>2. UngroupedLifts' = UngroupedLifts
            BY <1>1, <1>2, <2>5 DEF UngroupedLifts
        <3>3. \A h \in Groups \ {g} : LiftsInGroup(h)' = LiftsInGroup(h)
            BY <1>1, <1>2, <2>5 DEF LiftsInGroup
        <3>4. IF b THEN i \notin LiftsInGroup(g) /\ LiftsInGroup(g)' = LiftsInGroup(g) \cup {i}
                   ELSE i \in LiftsInGroup(g) /\ LiftsInGroup(g)' = LiftsInGroup(g) \ {i}
            BY <1>1, <1>2, <2>5 DEF LiftsInGroup
        <3>5. /\ IsFiniteSet(LiftsInGroup(g))
              /\ group_refcount[g] = Cardinality(LiftsInGroup(g))
            BY <1>3, <3>1, SlotsFinite DEF CountersAgree, LiftsInGroup, ActiveWith
        <3>6. CASE b
            <4>1. group_refcount[g] = 0 <=> g \notin LiftedGroups
                BY <3>1, <3>5, CountNat DEF LiftedGroups
            <4>2. LiftedGroups' = LiftedGroups \cup {g}
                BY <3>1, <3>3, <3>4, <3>6 DEF LiftedGroups
            <4>3. num_active_lift' = num_active_lift + (IF group_refcount[g] = 0 THEN 1 ELSE 0)
                BY <2>5, <3>6 DEF Update, LiftCount
            <4>4. g \in LiftedGroups => LiftedGroups' = LiftedGroups
                BY <4>2
            <4>5. Cardinality(LiftedGroups') =
                    Cardinality(LiftedGroups) + (IF group_refcount[g] = 0 THEN 1 ELSE 0)
                <5>1. CASE g \in LiftedGroups
                    BY <2>1, <4>1, <4>4, <5>1, CountNat
                <5>2. CASE g \notin LiftedGroups
                    BY <2>1, <4>1, <4>2, <5>2, CountOne
                <5> QED
                    BY <5>1, <5>2
            <4> QED
                BY <2>1, <2>2, <3>2, <4>3, <4>5, CountNat
        <3>7. CASE ~b
            <4>1. group_refcount[g] = 1 <=> LiftsInGroup(g)' = {}
                <5>1. i \in LiftsInGroup(g) /\ LiftsInGroup(g)' = LiftsInGroup(g) \ {i}
                    BY <3>4, <3>7
                <5>2. Cardinality(LiftsInGroup(g)) = 1 <=> LiftsInGroup(g) \ {i} = {}
                    BY <3>5, <5>1, CountOne
                <5> QED
                    BY <3>5, <5>1, <5>2
            <4>2. g \in LiftedGroups
                BY <3>1, <3>4, <3>7 DEF LiftedGroups
            <4>3. LiftedGroups' = IF group_refcount[g] = 1 THEN LiftedGroups \ {g} ELSE LiftedGroups
                BY <3>1, <3>3, <4>1, <4>2 DEF LiftedGroups
            <4>4. num_active_lift' = num_active_lift - (IF group_refcount[g] = 1 THEN 1 ELSE 0)
                BY <1>3, <2>5, <3>7 DEF Update, LiftCount
            <4>5. Cardinality(LiftedGroups') =
                    Cardinality(LiftedGroups) - (IF group_refcount[g] = 1 THEN 1 ELSE 0)
                BY <2>1, <4>2, <4>3, CountOne, CountNat
            <4> QED
                BY <2>1, <2>2, <3>2, <4>4, <4>5, CountNat
        <3> QED
            BY <3>6, <3>7
    <2> QED
        BY <2>3, <2>4, <2>5
<1>7. num_active_lift' \in Nat /\ num_active_collision' \in Nat
    <2>1. /\ UngroupedLifts' \in SUBSET RealInputs /\ LiftedGroups' \in SUBSET Groups
          /\ ActiveWith("COLLISION")' \in SUBSET RealInputs
        BY DEF UngroupedLifts, LiftedGroups, ActiveWith
    <2>2. /\ IsFiniteSet(UngroupedLifts') /\ IsFiniteSet(LiftedGroups')
          /\ IsFiniteSet(ActiveWith("COLLISION")')
        BY <2>1, SlotsFinite
    <2> QED
        BY <1>4, <1>6, <2>2, CountNat
<1>8. group_refcount' \in [Groups -> Nat]
    <2>1. \A h \in Groups : LiftsInGroup(h)' \in SUBSET RealInputs
        BY DEF LiftsInGroup, ActiveWith
    <2>2. \A h \in Groups : group_refcount'[h] \in Nat
        BY <1>5, <2>1, SlotsFinite, CountNat
    <2>3. group_refcount' = [h \in Groups |-> group_refcount'[h]]
        BY <1>3 DEF Update
    <2> QED
        BY <2>2, <2>3
<1>9. MultipleNeedsTwo'
    <2>1. lift_multiple_input \in Slots /\ collision_multiple_input \in Slots
        BY InputConstantsAssumption DEF Slots, lift_multiple_input, collision_multiple_input
    <2>2. i # lift_multiple_input /\ i # collision_multiple_input
        BY DEF RealInputs, lift_multiple_input, collision_multiple_input
    <2>3. active'[lift_multiple_input] <=> num_active_lift' >= 2
        <3>1. CASE lift
            BY <2>1, <2>2, <3>1 DEF Update, NewActive
        <3>2. CASE ~lift
            <4>1. num_active_lift' = num_active_lift
                BY <1>3, <3>2 DEF Update, LiftCount
            <4>2. active'[lift_multiple_input] = active[lift_multiple_input]
                BY <2>1, <2>2, <3>2 DEF Update, NewActive, lift_multiple_input,
                   collision_multiple_input
            <4> QED
                BY <1>3, <4>1, <4>2 DEF MultipleNeedsTwo
        <3> QED
            BY <3>1, <3>2
    <2>4. active'[collision_multiple_input] <=> num_active_collision' >= 2
        <3>1. CASE collision
            <4>1. collision_multiple_input # lift_multiple_input
                BY DEF lift_multiple_input, collision_multiple_input
            <4> QED
                BY <2>1, <2>2, <3>1, <4>1 DEF Update, NewActive
        <3>2. CASE ~collision
            <4>1. num_active_collision' = num_active_collision
                BY <1>3, <3>2 DEF Update, CollisionCount
            <4>2. active'[collision_multiple_input] = active[collision_multiple_input]
                BY <2>1, <2>2, <3>2 DEF Update, NewActive, lift_multiple_input,
                   collision_multiple_input
            <4> QED
                BY <1>3, <4>1, <4>2 DEF MultipleNeedsTwo
        <3> QED
            BY <3>1, <3>2
    <2> QED
        BY <2>3, <2>4 DEF MultipleNeedsTwo
<1> QED
    BY <1>4, <1>5, <1>6, <1>7, <1>8, <1>9 DEF CountersAgree

\* What a failing entry leaves in its slot is a configuration.
LEMMA PartialType ==
    ASSUME NEW request \in Requests, NEW partial \in PartialConfigs(request)
    PROVE  partial \in InputConfig
<1>1. CASE PartialEntry(request) = {}
    <2>1. partial = Unconfigured
        BY <1>1, Zenon DEF PartialConfigs
    <2> QED
        BY <2>1, InputConstantsAssumption DEF Unconfigured, InputConfig
<1>2. CASE PartialEntry(request) # {}
    <2>1. PICK k \in PartialEntry(request) :
             partial \in [reason : SUBSET (request[k].reason \cup {"LATCH"}),
                         delay : {0, request[k].delay},
                         group : {0, GroupId(request, k)} \cap 0..MaxGroups,
                         own_thread : {request[k].own_thread}]
        BY <1>2 DEF PartialConfigs
    <2>2. k \in 1..Len(request)
        BY DEF PartialEntry
    <2>3. request[k] \in RequestEntry
        BY <2>2, InputConstantsAssumption
    <2> QED
        BY <2>1, <2>3, InputConstantsAssumption DEF RequestEntry, InputConfig, InputReasons
<1> QED
    BY <1>1, <1>2

\* A parsed, failed or partial configuration leaves well-typed inputs behind.
LEMMA ReloadTypes ==
    ASSUME NEW request \in Requests, NEW partial \in InputConfig,
           OnRegisterInputConfigsChanged(request, partial)
    PROVE  config' \in [Slots -> InputConfig] /\ all_inputs' \in SUBSET Slots
<1>1. ASSUME NEW k \in 1..Len(request) PROVE request[k] \in RequestEntry
    BY InputConstantsAssumption
<1>2. Parsed(request) \subseteq 1..Len(request) /\ PartialEntry(request) \subseteq 1..Len(request)
    BY DEF Parsed, PartialEntry
<1>3. ASSUME NEW k \in Parsed(request) \cup PartialEntry(request) PROVE k + 1 \in Slots
    <2>1. k \in Nat /\ k <= MaxInputs
        BY InputConstantsAssumption DEF Parsed, PartialEntry, ParseFails
    <2> QED
        BY <2>1, InputConstantsAssumption DEF Slots
<1>4. all_inputs' \in SUBSET Slots
    <2>1. lift_multiple_input \in Slots /\ collision_multiple_input \in Slots
        BY InputConstantsAssumption DEF Slots, lift_multiple_input, collision_multiple_input
    <2> QED
        BY <1>3, <2>1 DEF OnRegisterInputConfigsChanged
<1>5. ASSUME NEW i \in Slots PROVE SlotConfig(request, partial, i) \in InputConfig
    <2>1. /\ VirtualInput("LIFT_MULTIPLE", LiftMultipleDelay) \in InputConfig
          /\ VirtualInput("COLLISION_MULTIPLE", CollisionMultipleDelay) \in InputConfig
          /\ Unconfigured \in InputConfig
        BY InputConstantsAssumption DEF VirtualInput, Unconfigured, InputConfig, InputReasons
    <2>2. ASSUME i - 1 \in Parsed(request)
          PROVE  [reason |-> request[i - 1].reason, delay |-> request[i - 1].delay,
                  group |-> GroupId(request, i - 1), own_thread |-> request[i - 1].own_thread]
                 \in InputConfig
        <3>1. request[i - 1] \in RequestEntry /\ GroupId(request, i - 1) \in 0..MaxGroups
            BY <1>1, <1>2, <2>2, GroupIdType
        <3> QED
            BY <3>1 DEF InputConfig, RequestEntry
    <2> QED
        BY <2>1, <2>2 DEF SlotConfig
<1> QED
    BY <1>4, <1>5 DEF OnRegisterInputConfigsChanged

\* With every input inactive the counters are zero.
LEMMA NothingActive ==
    ASSUME active = [i \in Slots |-> FALSE], num_active_lift = 0, num_active_collision = 0,
           group_refcount = [g \in Groups |-> 0]
    PROVE  CountersAgree /\ MultipleNeedsTwo
<1>1. \A r : ActiveWith(r) = {}
    BY InputConstantsAssumption DEF ActiveWith, RealInputs, Slots
<1>2. UngroupedLifts = {} /\ LiftedGroups = {} /\ \A g \in Groups : LiftsInGroup(g) = {}
    BY <1>1 DEF UngroupedLifts, LiftedGroups, LiftsInGroup
<1>3. CountersAgree
    BY <1>1, <1>2, FS_EmptySet DEF CountersAgree
<1>4. MultipleNeedsTwo
    BY InputConstantsAssumption DEF MultipleNeedsTwo, Slots, lift_multiple_input,
       collision_multiple_input
<1> QED
    BY <1>3, <1>4

\* One update keeps the inputs well typed and the counters in step with them.
LEMMA UpdateKeepsInv ==
    ASSUME InputInv, NEW i \in RealInputs, NEW b \in BOOLEAN, NEW predate \in 0..(Wrap - 1),
           Update(i, b, predate), injecting' \in SUBSET RealInputs,
           UNCHANGED <<micros, input_running, configVars>>
    PROVE  InputInv'
<1>1. CountersAgree' /\ MultipleNeedsTwo' /\ num_active_lift' \in Nat
      /\ num_active_collision' \in Nat /\ group_refcount' \in [Groups -> Nat]
    BY UpdateKeepsCounters DEF configVars
<1>2. active' \in [Slots -> BOOLEAN]
    <2>1. active \in [Slots -> BOOLEAN]
        BY DEF InputInv, InputTypeOK
    <2>2. /\ (LiftCount(i, b) >= 2) \in BOOLEAN
          /\ (CollisionCount(i, b) >= 2) \in BOOLEAN
        OBVIOUS
    <2>3. NewActive(i, b) \in [Slots -> BOOLEAN]
        BY <2>1, <2>2 DEF NewActive
    <2> QED
        BY <2>3 DEF Update
<1>3. active_since' \in [Slots -> 0..(Wrap - 1)]
    <2>1. \A n \in Int : n % Wrap \in 0..(Wrap - 1)
        BY InputConstantsAssumption
    <2>2. micros \in Int /\ predate \in Int
        BY InputConstantsAssumption DEF InputInv, InputTypeOK
    <2> QED
        BY <2>1, <2>2 DEF Update, InputInv, InputTypeOK
<1>4. emergency_pending' \in [Slots -> BOOLEAN]
    BY DEF Update
<1>5. inputs_changed' = TRUE
    BY DEF Update
<1> QED
    BY <1>1, <1>2, <1>3, <1>4, <1>5 DEF InputInv, InputTypeOK, configVars

\* A step that leaves inputs, configuration and counters alone keeps their
\* relation.
LEMMA FrameKeepsCounters ==
    ASSUME InputInv, UNCHANGED <<config, active, counterVars>>
    PROVE  CountersAgree' /\ MultipleNeedsTwo'
BY DEF InputInv, CountersAgree, MultipleNeedsTwo, counterVars, ActiveWith, UngroupedLifts,
       LiftedGroups, LiftsInGroup

\* Every step of the input service keeps the inductive invariant.
LEMMA InputInvStep ==
    ASSUME InputInv, [InputNext]_inputVars PROVE InputInv'
<1> USE DEF configVars, stateVars, counterVars
<1>1. ASSUME NEW request \in Requests, NEW partial \in PartialConfigs(request),
             OnRegisterInputConfigsChanged(request, partial)
      PROVE  InputInv'
    <2>1. config' \in [Slots -> InputConfig] /\ all_inputs' \in SUBSET Slots
        BY <1>1, PartialType, ReloadTypes
    <2>2. CountersAgree' /\ MultipleNeedsTwo'
        <3>1. \A q : ActiveWith(q)' = {}
            BY <1>1, InputConstantsAssumption
            DEF OnRegisterInputConfigsChanged, ActiveWith, RealInputs, Slots
        <3>2. /\ UngroupedLifts' = {} /\ LiftedGroups' = {}
              /\ \A g \in Groups : LiftsInGroup(g)' = {}
            BY <3>1 DEF UngroupedLifts, LiftedGroups, LiftsInGroup
        <3>3. CountersAgree'
            <4>1. /\ num_active_lift' = 0 /\ num_active_collision' = 0
                  /\ \A g \in Groups : group_refcount'[g] = 0
                BY <1>1 DEF OnRegisterInputConfigsChanged
            <4>2. /\ Cardinality(UngroupedLifts') = 0 /\ Cardinality(LiftedGroups') = 0
                  /\ Cardinality(ActiveWith("COLLISION")') = 0
                  /\ \A g \in Groups : Cardinality(LiftsInGroup(g)') = 0
                BY <3>1, <3>2, FS_EmptySet
            <4> QED
                BY <4>1, <4>2 DEF CountersAgree
        <3>4. MultipleNeedsTwo'
            BY <1>1, InputConstantsAssumption DEF OnRegisterInputConfigsChanged,
               MultipleNeedsTwo, Slots, lift_multiple_input, collision_multiple_input
        <3> QED
            BY <3>3, <3>4
    <2>3. InputTypeOK'
        BY <1>1, <2>1, InputConstantsAssumption
        DEF OnRegisterInputConfigsChanged, InputInv, InputTypeOK
    <2> QED
        BY <2>2, <2>3 DEF InputInv
<1>2. ASSUME InputOnStart \/ InputOnStop PROVE InputInv'
    BY <1>2, FrameKeepsCounters DEF InputOnStart, InputOnStop, InputInv, InputTypeOK
<1>3. ASSUME NEW i \in RealInputs, NEW b \in BOOLEAN, DriverUpdate(i, b) PROVE InputInv'
    <2>1. 0 \in 0..(Wrap - 1)
        BY InputConstantsAssumption
    <2>2. injecting' \in SUBSET RealInputs
        BY <1>3 DEF DriverUpdate, InputInv, InputTypeOK
    <2> QED
        BY <1>3, <2>1, <2>2, UpdateKeepsInv DEF DriverUpdate
<1>4. ASSUME NEW i \in RealInputs, NEW d \in PressDelays, InjectPress(i, d) PROVE InputInv'
    <2>1. d \in 0..(Wrap - 1)
        BY InputConstantsAssumption
    <2> QED
        BY <1>4, <2>1, UpdateKeepsInv DEF InjectPress
<1>5. ASSUME NEW i \in RealInputs, InjectRelease(i) PROVE InputInv'
    <2>1. 0 \in 0..(Wrap - 1)
        BY InputConstantsAssumption
    <2>2. CASE i \in all_inputs /\ active[i]
        BY <1>5, <2>1, <2>2, UpdateKeepsInv DEF InjectRelease
    <2>3. CASE ~(i \in all_inputs /\ active[i])
        BY <1>5, <2>3, FrameKeepsCounters DEF InjectRelease, InputInv, InputTypeOK
    <2> QED
        BY <2>2, <2>3
<1>6. ASSUME Poll PROVE InputInv'
    <2>1. emergency_pending' \in [Slots -> BOOLEAN]
        BY <1>6 DEF Poll, ClearPending, InputInv, InputTypeOK
    <2> QED
        BY <1>6, <2>1, FrameKeepsCounters DEF Poll, InputInv, InputTypeOK
<1>7. ASSUME ClockTick PROVE InputInv'
    <2>1. micros' \in 0..(Wrap - 1)
        BY <1>7, InputConstantsAssumption DEF ClockTick, InputInv, InputTypeOK
    <2> QED
        BY <1>7, <2>1, FrameKeepsCounters DEF ClockTick, InputInv, InputTypeOK
<1>8. CASE UNCHANGED inputVars
    BY <1>8, FrameKeepsCounters DEF inputVars, InputInv, InputTypeOK
<1> QED
    BY <1>1, <1>2, <1>3, <1>4, <1>5, <1>6, <1>7, <1>8 DEF InputNext, InputStep, Reload, InputEvent

\* The counters agree with the inputs and the virtual inputs with the counters,
\* whatever is configured, updated, injected, reloaded or polled.
THEOREM InputInvariant == InputSpec => []InputInv
<1>1. InputInit => InputInv
    <2> SUFFICES ASSUME InputInit PROVE InputInv
        OBVIOUS
    <2>1. CountersAgree /\ MultipleNeedsTwo
        BY NothingActive DEF InputInit
    <2>2. Unconfigured \in InputConfig
        BY InputConstantsAssumption DEF Unconfigured, InputConfig
    <2>3. 0 \in 0..(Wrap - 1)
        BY InputConstantsAssumption
    <2>4. InputTypeOK
        BY <2>2, <2>3 DEF InputInit, InputTypeOK
    <2> QED
        BY <2>1, <2>4 DEF InputInv
<1>2. InputInv /\ [InputNext]_inputVars => InputInv'
    BY InputInvStep
<1> QED
    BY <1>1, <1>2, PTL DEF InputSpec

\* num_active_lift_, num_active_collision_ and the refcounts always say how many
\* sensors are active, a redundancy group counting as one (OnInputChanged).
THEOREM CountersCorrect == InputSpec => []CountersAgree
<1>1. InputInv => CountersAgree
    BY DEF InputInv
<1> QED
    BY InputInvariant, <1>1, PTL

\* LIFT_MULTIPLE and COLLISION_MULTIPLE take two sensors (OnInputChanged).
THEOREM MultipleCorrect == InputSpec => []MultipleNeedsTwo
<1>1. InputInv => MultipleNeedsTwo
    BY DEF InputInv
<1> QED
    BY InputInvariant, <1>1, PTL
=============================================================================
