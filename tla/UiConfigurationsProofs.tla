------------------------- MODULE UiConfigurationsProofs -------------------------
(***************************************************************************)
(* That the stored configuration survives (HeldSurvives): the manager of   *)
(* UiConfigurations implements DurableConfiguration.  That what it took is *)
(* what the unit shows (AcceptedIsBuilt): what a document is read as can   *)
(* be written and read again, and what a valid configuration makes of the  *)
(* widgets, and events of them, can be drawn.  That a widget whose record  *)
(* was changed in place is as one built from the record (EditedIsAsBuilt), *)
(* for every editor of a widget of any type, any records and any           *)
(* properties that events drive.                                           *)
(***************************************************************************)
EXTENDS UiConfigurations, FiniteSetTheorems, SequenceTheorems, WellFoundedInduction, TLAPS

\* What a unit holds is what its file has, and it has none where nothing is uploaded.
HeldIsLoaded ==
    IF unit = NoUnit THEN held = NoUnit ELSE unit \in Units /\ held = Stored!Loaded(file)

\* The configuration of the first boot is a valid one.
LEMMA DefaultIsValid == Stored!Validate(Stored!DefaultConfiguration)
<1> DEFINE conf == Stored!DefaultConfiguration
<1>1. conf.screens = <<>>
  BY DEF Stored!DefaultConfiguration
<1>2. Len(conf.screens) <= MAX_SCREEN_COUNT
  BY <1>1, LimitsAssumption
<1>3. Stored!Cardinality(Stored!Composition!Ids(conf.screens)) = Len(conf.screens)
  <2>1. Stored!Composition!Ids(conf.screens) = {}
    BY <1>1 DEF Stored!Composition!Ids
  <2>2. Stored!Cardinality({}) = Cardinality({})
    BY Zenon DEF Cardinality, Stored!Cardinality
  <2> QED
    BY <2>1, <2>2, <1>1, FS_EmptySet
<1>4. Stored!ValidateActiveScreenGroupId(conf)
  BY <1>1 DEF Stored!ValidateActiveScreenGroupId
<1>5. Stored!ToSet(conf.screens) = {}
  BY <1>1 DEF Stored!ToSet
<1> HIDE DEF conf
<1> QED
  BY <1>2, <1>3, <1>4, <1>5
  DEF Stored!Validate, Stored!ValidateScreenCount, Stored!ValidateScreenId, Stored!ValidateScreenType,
      Stored!ValidateScreenGrid, Stored!ValidateScreens, conf

\* Whatever the file has, what it gives is valid.
LEMMA LoadedIsValid ==
    ASSUME NEW stored
    PROVE  Stored!Validate(Stored!Loaded(stored))
<1>1. CASE Stored!Deserializes(stored)
  BY <1>1 DEF Stored!Loaded, Stored!Deserializes, Stored!Deserialize
<1>2. CASE ~Stored!Deserializes(stored)
  BY <1>2, DefaultIsValid DEF Stored!Loaded
<1> QED
  BY <1>1, <1>2

\* Built screens are of the configuration they were built from.
LEMMA ConfiguredIsOf ==
    ASSUME NEW conf
    PROVE  Stored!Configured(conf).conf = conf
BY DEF Stored!Configured

-----------------------------------------------------------------------------

LEMMA HeldIsLoadedInitially == ConfigurationsInit => HeldIsLoaded
BY UnitAssumption DEF ConfigurationsInit, NothingStored, HeldIsLoaded, Stored!Init

LEMMA HeldIsLoadedNext == HeldIsLoaded /\ [ConfigurationsNext]_allVars => HeldIsLoaded'
<1> SUFFICES ASSUME HeldIsLoaded, [ConfigurationsNext]_allVars PROVE HeldIsLoaded'
  OBVIOUS
<1>1. CASE PatchScene
  BY <1>1 DEF PatchScene, HeldIsLoaded, storedVars
<1>4. CASE EditScene
  BY <1>4 DEF EditScene, HeldIsLoaded, storedVars
<1>2. CASE StoreScene
  <2>1. unit # NoUnit /\ held = Stored!Loaded(file)
    BY <1>2 DEF StoreScene, HeldIsLoaded
  <2>0. unit \in Units
    BY <2>1 DEF HeldIsLoaded
  <2>2. CASE Stored!Restart
    BY <2>0, <2>1, <2>2 DEF Stored!Restart, HeldIsLoaded
  <2>3. ASSUME NEW document \in unit.documents, Stored!Upload(document) PROVE HeldIsLoaded'
    BY <2>0, <2>1, <2>3 DEF Stored!Upload, Stored!IsTaken, Stored!Loaded, HeldIsLoaded
  <2>4. CASE Stored!Rebuild
    BY <2>0, <2>1, <2>4 DEF Stored!Rebuild, HeldIsLoaded
  <2>5. ASSUME NEW data \in unit.data, Stored!Event(data) PROVE HeldIsLoaded'
    BY <2>0, <2>1, <2>5 DEF Stored!Event, HeldIsLoaded
  <2>6. CASE Stored!SensorsChange
    BY <2>0, <2>1, <2>6 DEF Stored!SensorsChange, HeldIsLoaded
  <2>7. ASSUME NEW document \in unit.documents, Stored!Refuse(document) PROVE HeldIsLoaded'
    BY <2>0, <2>1, <2>7 DEF Stored!Refuse, HeldIsLoaded
  <2> QED
    BY <1>2, <2>2, <2>3, <2>4, <2>5, <2>6, <2>7 DEF StoreScene, Stored!Next
<1>3. CASE UNCHANGED allVars
  BY <1>3 DEF allVars, storedVars, HeldIsLoaded
<1> QED
  BY <1>1, <1>2, <1>3, <1>4 DEF ConfigurationsNext

-----------------------------------------------------------------------------

\* The configuration whose screens are shown, as DurableConfiguration sees it.
ShownConf == IF unit = NoUnit THEN NoUnit ELSE live.conf

LEMMA SurvivesInitially == ConfigurationsInit => Durable!Init
<1> SUFFICES ASSUME ConfigurationsInit PROVE IsValid(held) /\ ShownConf = held /\ taken = NoUnit
  BY DEF Durable!Init, ShownConf
<1>1. CASE unit = NoUnit
  BY <1>1, UnitAssumption, HeldIsLoadedInitially
  DEF ConfigurationsInit, NothingStored, Stored!Init, HeldIsLoaded, IsValid, ShownConf
<1>2. CASE unit # NoUnit
  <2>1. held = Stored!Loaded(file) /\ live = Stored!Configured(held) /\ taken = NoUnit
    BY <1>2 DEF ConfigurationsInit, NothingStored, Stored!Init
  <2> QED
    BY <1>2, <2>1, LoadedIsValid, ConfiguredIsOf DEF IsValid, ShownConf
<1> QED
  BY <1>1, <1>2

\* The stored configuration changes with an upload that is taken, to what it is; the
\* screens change to what is stored.
LEMMA SurvivesNext ==
    HeldIsLoaded /\ [ConfigurationsNext]_allVars => [Durable!Next]_<<held, ShownConf, taken>>
<1> SUFFICES ASSUME HeldIsLoaded, [ConfigurationsNext]_allVars
             PROVE  [Durable!Next]_<<held, ShownConf, taken>>
  OBVIOUS
<1> USE DEF ShownConf
<1>1. CASE PatchScene
  BY <1>1 DEF PatchScene, storedVars
<1>4. CASE EditScene
  BY <1>4 DEF EditScene, storedVars
<1>2. CASE StoreScene
  <2>1. unit \in Units /\ unit # NoUnit /\ held = Stored!Loaded(file)
    BY <1>2 DEF StoreScene, HeldIsLoaded
  <2>2. CASE Stored!Restart
    <3>1. held' = held /\ ShownConf' = held /\ taken' = NoUnit
      BY <2>1, <2>2, ConfiguredIsOf DEF Stored!Restart, Stored!NothingTaken
    <3> QED
      BY <3>1 DEF Durable!Next, Durable!Keep
  <2>3. ASSUME NEW document \in unit.documents, Stored!Upload(document) PROVE Durable!Replace
    <3>1. Stored!Validate(held')
      BY <2>3 DEF Stored!Upload, Stored!IsTaken, Stored!Deserializes, Stored!Deserialize
    <3>2. ShownConf' = ShownConf
      BY <2>3 DEF Stored!Upload
    <3>3. taken' # NoUnit /\ held' = Decoded(taken')
      BY <2>1, <2>3, UnitAssumption DEF Stored!Upload, Decoded
    <3> QED
      BY <3>1, <3>2, <3>3 DEF Durable!Replace, IsValid
  <2>4. CASE Stored!Rebuild
    <3>1. held' = held /\ ShownConf' = held /\ taken' = NoUnit
      BY <2>1, <2>4, ConfiguredIsOf DEF Stored!Rebuild, Stored!NothingTaken
    <3> QED
      BY <3>1 DEF Durable!Next, Durable!Keep
  <2>5. ASSUME NEW data \in unit.data, Stored!Event(data) PROVE Durable!Keep
    <3>1. live'.conf = live.conf
      BY <2>5 DEF Stored!Event, Stored!AfterEvent
    <3> QED
      BY <2>1, <2>5, <3>1 DEF Stored!Event, Stored!NothingTaken, Durable!Keep
  <2>6. CASE Stored!SensorsChange
    BY <2>1, <2>6 DEF Stored!SensorsChange, Stored!NothingTaken, Durable!Next, Durable!Keep
  <2>7. ASSUME NEW document \in unit.documents, Stored!Refuse(document) PROVE Durable!Keep
    BY <2>1, <2>7 DEF Stored!Refuse, Stored!NothingTaken, Durable!Keep
  <2> QED
    BY <1>2, <2>2, <2>3, <2>4, <2>5, <2>6, <2>7 DEF StoreScene, Stored!Next, Durable!Next
<1>3. CASE UNCHANGED allVars
  BY <1>3 DEF allVars, storedVars
<1> QED
  BY <1>1, <1>2, <1>3, <1>4 DEF ConfigurationsNext

\* What is held changes only as an upload is taken, and to what that upload is: no
\* restart, refused upload, event, rebuild or change of the sensors takes it away, and
\* the screens change to what is held alone: ui_configuration_manager.cpp implements
\* DurableConfiguration.
THEOREM Survival == ConfigurationsSpec => HeldSurvives
<1>1. ConfigurationsInit => HeldIsLoaded /\ Durable!Init
  BY HeldIsLoadedInitially, SurvivesInitially
<1>2. HeldIsLoaded /\ [ConfigurationsNext]_allVars
        => HeldIsLoaded' /\ [Durable!Next]_<<held, ShownConf, taken>>
  BY HeldIsLoadedNext, SurvivesNext
<1> QED
  BY <1>1, <1>2, PTL DEF ConfigurationsSpec, HeldSurvives, Durable!Spec, ShownConf

-----------------------------------------------------------------------------
\* A set of numbers with 0 that has the successor of each of its numbers has them all.
LEMMA AllNumbers ==
    ASSUME NEW T, T \subseteq Nat, 0 \in T, \A n \in T : n + 1 \in T
    PROVE  T = Nat
<1> DEFINE Less == {p \in Nat \X Nat : p[1] < p[2]}
           Missing == Nat \ T
<1>1. IsWellFoundedOn(Less, Nat)
  BY NatLessThanWellFounded DEF OpToRel
<1> SUFFICES ASSUME Missing # {} PROVE FALSE
  OBVIOUS
<1>2. PICK n \in Missing : \A m \in Missing : <<m, n>> \notin Less
  <2>1. Missing \subseteq Nat
    OBVIOUS
  <2> HIDE DEF Less, Missing
  <2> QED
    BY <1>1, <2>1, WFMin
<1>3. n # 0 /\ n - 1 \in Nat /\ n - 1 \notin Missing
  <2>1. <<n - 1, n>> \in Less <=> n - 1 \in Nat
    OBVIOUS
  <2> QED
    BY <2>1, <1>2
<1> QED
  BY <1>2, <1>3

\* A set of numbers that is not empty has a first.
LEMMA LeastExists ==
    ASSUME NEW T, T \subseteq Nat, T # {}
    PROVE  \E n \in T : \A m \in T : n <= m
<1> DEFINE Less == {p \in Nat \X Nat : p[1] < p[2]}
<1>1. IsWellFoundedOn(Less, Nat)
  BY NatLessThanWellFounded DEF OpToRel
<1>2. PICK n \in T : \A m \in T : <<m, n>> \notin Less
  <2> HIDE DEF Less
  <2> QED
    BY <1>1, WFMin
<1>3. \A m \in T : n <= m
  <2> SUFFICES ASSUME NEW m \in T PROVE ~(m < n)
    BY <1>2
  <2>1. m < n => <<m, n>> \in Less
    BY <1>2
  <2> QED
    BY <2>1, <1>2
<1> QED
  BY <1>3

LEMMA LeastIsThere ==
    ASSUME NEW T, T \subseteq Nat, T # {}
    PROVE  Stored!Composition!Min(T) \in T
BY LeastExists DEF Stored!Composition!Min

\* A list has a length, and what it lists at each place of it.
LEMMA ListIsNumbered ==
    ASSUME NEW list, Stored!IsList(list)
    PROVE  /\ Len(list) \in Nat /\ DOMAIN list = 1 .. Len(list)
           /\ \A i \in 1 .. Len(list) : list[i] \in Stored!ToSet(list)
BY DEF Stored!IsList, Stored!ToSet

\* What has an id of a list is found in it.
LEMMA FindsIt ==
    ASSUME NEW list, Stored!IsList(list), NEW id \in Stored!Composition!Ids(list)
    PROVE  /\ Stored!Composition!Find(list, id) \in Stored!ToSet(list)
           /\ Stored!Composition!Find(list, id).id = id
<1> DEFINE at == {i \in 1 .. Len(list) : list[i].id = id}
<1>1. at # {} /\ at \subseteq Nat
  BY ListIsNumbered DEF Stored!Composition!Ids
<1>2. Stored!Composition!IndexOf(list, id) \in at
  <2>1. Stored!Composition!IndexOf(list, id) = Stored!Composition!Min(at)
    BY <1>1 DEF Stored!Composition!IndexOf, Stored!Composition!SelectInSeq
  <2> HIDE DEF at
  <2> QED
    BY <1>1, <2>1, LeastIsThere
<1> QED
  BY <1>2, ListIsNumbered DEF Stored!Composition!Find

\* Ids that are as many as the list is long are told apart.
LEMMA IdsAreToldApart ==
    ASSUME NEW list, Stored!IsList(list), Stored!Cardinality(Stored!Composition!Ids(list)) = Len(list)
    PROVE  /\ \A i, j \in 1 .. Len(list) : list[i].id = list[j].id => i = j
           /\ \A r, s \in Stored!ToSet(list) : r.id = s.id => r = s
<1> DEFINE ids == [i \in 1 .. Len(list) |-> list[i].id]
<1>1. Len(list) \in Nat /\ DOMAIN list = 1 .. Len(list)
  BY ListIsNumbered
<1>2. Cardinality(Stored!Composition!Ids(list)) = Len(list)
  BY Zenon DEF Cardinality, Stored!Cardinality
<1>3. ids \in Surjection(1 .. Len(list), Stored!Composition!Ids(list))
  BY <1>1 DEF Surjection, Stored!Composition!Ids
<1>4. IsFiniteSet(1 .. Len(list)) /\ Cardinality(1 .. Len(list)) = Len(list)
  <2>1. IsFiniteSet(1 .. Len(list))
    BY <1>1, FS_Interval
  <2>2. Cardinality(1 .. Len(list)) = IF 1 > Len(list) THEN 0 ELSE Len(list) - 1 + 1
    <3>1. 1 \in Int /\ Len(list) \in Int
      BY <1>1
    <3> QED
      BY <3>1, FS_Interval, Zenon
  <2> QED
    BY <1>1, <2>1, <2>2
<1>5. ids \in Injection(1 .. Len(list), Stored!Composition!Ids(list))
  <2> HIDE DEF ids
  <2> QED
    BY <1>2, <1>3, <1>4, FS_SurjSameCardinalityImpliesInj
<1>6. \A i, j \in 1 .. Len(list) : list[i].id = list[j].id => i = j
  <2> SUFFICES ASSUME NEW i \in 1 .. Len(list), NEW j \in 1 .. Len(list), list[i].id = list[j].id PROVE i = j
    OBVIOUS
  <2>1. ids[i] = ids[j]
    OBVIOUS
  <2> HIDE DEF ids
  <2> QED
    BY <1>5, <2>1 DEF Injection, IsInjective
<1> QED
  BY <1>1, <1>6 DEF Stored!ToSet

\* The greatest of the numbers up to one.
LEMMA GreatestIsLast ==
    ASSUME NEW n \in Nat, NEW s \in SUBSET (1 .. n), n \in s
    PROVE  Stored!Max(s) = n
<1>1. \A x \in s : (\A y \in s : x >= y) <=> x = n
  OBVIOUS
<1> QED
  BY <1>1 DEF Stored!Max

\* The greatest of the numbers of a set that is not larger than one.
LEMMA GreatestIsThere ==
    ASSUME NEW n \in Nat, NEW s \in SUBSET (1 .. n), s # {}
    PROVE  Stored!Max(s) \in s
<1> DEFINE T == {k \in Nat : \A r \in SUBSET (1 .. k) : r # {} => \E x \in r : \A y \in r : x >= y}
<1>1. 0 \in T
  <2>1. 1 .. 0 = {}
    OBVIOUS
  <2> QED
    BY <2>1
<1>2. ASSUME NEW k \in T PROVE k + 1 \in T
  <2> SUFFICES ASSUME NEW r \in SUBSET (1 .. k + 1), r # {} PROVE \E x \in r : \A y \in r : x >= y
    OBVIOUS
  <2>1. CASE k + 1 \in r
    BY <2>1
  <2>2. CASE k + 1 \notin r
    <3>1. r \in SUBSET (1 .. k)
      BY <2>2
    <3> QED
      BY <3>1
  <2> QED
    BY <2>1, <2>2
<1> HIDE DEF T
<1>3. T = Nat
  BY <1>1, <1>2, AllNumbers DEF T
<1>4. \E x \in s : \A y \in s : x >= y
  BY <1>3 DEF T
<1> QED
  BY <1>4 DEF Stored!Max

\* The folds of the sets of places up to n.
IsFold(list, fold, n) ==
    fold = [s \in SUBSET (1 .. n) |->
                IF s = {} THEN <<>>
                ELSE Stored!AddWidget(fold[s \ {Stored!Max(s)}],
                                      Stored!ToWidgetConfiguration(list[Stored!Max(s)]))]

LEMMA FoldsThere ==
    ASSUME NEW list, NEW n \in Nat
    PROVE  \E fold : IsFold(list, fold, n)
<1> DEFINE T == {m \in Nat : \E fold : IsFold(list, fold, m)}
<1>1. 0 \in T
  <2> DEFINE fold == [s \in SUBSET (1 .. 0) |-> <<>>]
  <2>1. \A s \in SUBSET (1 .. 0) : s = {}
    OBVIOUS
  <2>2. fold = [s \in SUBSET (1 .. 0) |->
                IF s = {} THEN <<>>
                ELSE Stored!AddWidget(fold[s \ {Stored!Max(s)}],
                                      Stored!ToWidgetConfiguration(list[Stored!Max(s)]))]
    BY <2>1, Zenon
  <2>3. IsFold(list, fold, 0)
    BY <2>2, Zenon DEF IsFold
  <2> QED
    BY <2>3
<1>2. ASSUME NEW m \in T PROVE m + 1 \in T
  <2>1. PICK before : IsFold(list, before, m)
    OBVIOUS
  <2> DEFINE k == m + 1
             fold == [s \in SUBSET (1 .. k) |->
                        IF k \in s THEN Stored!AddWidget(before[s \ {k}], Stored!ToWidgetConfiguration(list[k]))
                        ELSE before[s]]
  <2>2. k \in Nat
    OBVIOUS
  <2>3. ASSUME NEW s \in SUBSET (1 .. k)
        PROVE  fold[s] = IF s = {} THEN <<>>
                         ELSE Stored!AddWidget(fold[s \ {Stored!Max(s)}],
                                               Stored!ToWidgetConfiguration(list[Stored!Max(s)]))
    <3>1. CASE k \in s
      <4>1. Stored!Max(s) = k /\ s # {}
        <5> HIDE DEF k
        <5> QED
          BY <3>1, <2>2, GreatestIsLast
      <4>2. s \ {k} \in SUBSET (1 .. k) /\ k \notin s \ {k}
        OBVIOUS
      <4>3. fold[s \ {k}] = before[s \ {k}]
        BY <4>2, Zenon
      <4> QED
        BY <3>1, <4>1, <4>3, Zenon
    <3>2. CASE k \notin s
      <4>1. s \in SUBSET (1 .. m)
        BY <3>2
      <4>2. s # {} => Stored!Max(s) \in s
        <5> SUFFICES ASSUME s # {} PROVE Stored!Max(s) \in s
          OBVIOUS
        <5> QED
          BY <4>1, GreatestIsThere
      <4>3. fold[s] = before[s]
        BY <3>2, Zenon
      <4>4. s \ {Stored!Max(s)} \in SUBSET (1 .. k) /\ k \notin s \ {Stored!Max(s)}
        BY <3>2
      <4>5. fold[s \ {Stored!Max(s)}] = before[s \ {Stored!Max(s)}]
        BY <4>4, Zenon
      <4>6. before[s] = IF s = {} THEN <<>>
                         ELSE Stored!AddWidget(before[s \ {Stored!Max(s)}],
                                               Stored!ToWidgetConfiguration(list[Stored!Max(s)]))
        BY <2>1, <4>1, Zenon DEF IsFold
      <4> QED
        BY <4>3, <4>5, <4>6, Zenon
    <3> QED
      BY <3>1, <3>2
  <2>4. IsFold(list, fold, k)
    <3> DEFINE step(s) == IF s = {} THEN <<>>
                         ELSE Stored!AddWidget(fold[s \ {Stored!Max(s)}],
                                               Stored!ToWidgetConfiguration(list[Stored!Max(s)]))
    <3>1. \A s \in SUBSET (1 .. k) : fold[s] = step(s)
      BY <2>3, Zenon
    <3>2. fold = [s \in SUBSET (1 .. k) |-> fold[s]]
      BY Zenon
    <3>3. [s \in SUBSET (1 .. k) |-> fold[s]] = [s \in SUBSET (1 .. k) |-> step(s)]
      <4> HIDE DEF step, fold
      <4> QED
        BY <3>1, Zenon
    <3>4. fold = [s \in SUBSET (1 .. k) |-> step(s)]
      BY <3>2, <3>3, Zenon
    <3> QED
      BY <3>4, Zenon DEF IsFold
  <2> HIDE DEF fold, k
  <2> QED
    BY <2>4, <2>2 DEF k
<1> HIDE DEF T
<1>3. T = Nat
  BY <1>1, <1>2, AllNumbers DEF T
<1> QED
  BY <1>3 DEF T

\* The widgets of a document are added in turn.
LEMMA AddsInTurn ==
    ASSUME NEW list, Stored!IsList(list)
    PROVE  \E added :
               /\ added[0] = <<>>
               /\ \A i \in 1 .. Len(list) :
                     added[i] = Stored!AddWidget(added[i - 1], Stored!ToWidgetConfiguration(list[i]))
               /\ Stored!ToWidgets(list) = added[Len(list)]
<1> DEFINE n == Len(list)
           fold == CHOOSE fold : IsFold(list, fold, n)
           added == [i \in 0 .. n |-> fold[1 .. i]]
<1>1. n \in Nat /\ DOMAIN list = 1 .. n
  BY ListIsNumbered
<1>2. IsFold(list, fold, n)
  <2> HIDE DEF n
  <2> QED
    BY <1>1, FoldsThere
<1>3. Stored!ToWidgets(list) = fold[1 .. n]
  <2>1. Stored!ToWidgets(list) = (CHOOSE f : IsFold(list, f, n))[1 .. n]
    BY <1>1, Zenon DEF Stored!ToWidgets, Stored!FoldLeft, Stored!MapThenFoldSet, IsFold
  <2> QED
    BY <2>1
<1> HIDE DEF fold, n
<1>4. ASSUME NEW s \in SUBSET (1 .. n), s # {}
      PROVE  fold[s] = Stored!AddWidget(fold[s \ {Stored!Max(s)}], Stored!ToWidgetConfiguration(list[Stored!Max(s)]))
  BY <1>2, <1>4, Zenon DEF IsFold
<1>5. fold[{}] = <<>>
  <2>1. {} \in SUBSET (1 .. n)
    OBVIOUS
  <2> QED
    BY <1>2, <2>1, Zenon DEF IsFold
<1>6. added[0] = <<>>
  <2>1. 1 .. 0 = {} /\ 0 \in 0 .. n
    BY <1>1
  <2> QED
    BY <2>1, <1>5, Zenon
<1>7. ASSUME NEW i \in 1 .. n
      PROVE  added[i] = Stored!AddWidget(added[i - 1], Stored!ToWidgetConfiguration(list[i]))
  <2>1. i \in Nat /\ i \in 0 .. n /\ i - 1 \in 0 .. n /\ 1 .. i \in SUBSET (1 .. n) /\ 1 .. i # {}
    BY <1>1
  <2>2. Stored!Max(1 .. i) = i
    BY <2>1, GreatestIsLast
  <2>3. (1 .. i) \ {i} = 1 .. (i - 1)
    BY <2>1
  <2>4. fold[1 .. i] = Stored!AddWidget(fold[1 .. (i - 1)], Stored!ToWidgetConfiguration(list[i]))
    BY <1>4, <2>1, <2>2, <2>3, Zenon
  <2> QED
    BY <2>1, <2>4, Zenon
<1>8. added[n] = fold[1 .. n]
  <2>1. n \in 0 .. n
    BY <1>1
  <2> QED
    BY <2>1, Zenon
<1> HIDE DEF added
<1> QED
  BY <1>3, <1>6, <1>7, <1>8, Zenon DEF n

-----------------------------------------------------------------------------
LEMMA InsertsAt ==
    ASSUME NEW S, NEW list \in Seq(S), NEW w \in S, NEW place \in 1 .. Len(list) + 1
    PROVE  LET longer == Stored!Composition!InsertAt(list, place, w)
           IN  /\ longer \in Seq(S) /\ Len(longer) = Len(list) + 1
               /\ \A i \in 1 .. Len(list) + 1 :
                     longer[i] = IF i < place THEN list[i] ELSE IF i = place THEN w ELSE list[i - 1]
<1> DEFINE front == SubSeq(list, 1, place - 1)
           back == SubSeq(list, place, Len(list))
           longer == front \o <<w>> \o back
<1>1. Len(list) \in Nat /\ place \in Nat
  OBVIOUS
<1>2. front \in Seq(S) /\ Len(front) = place - 1 /\ \A i \in 1 .. place - 1 : front[i] = list[i]
  BY <1>1
<1>3. back \in Seq(S) /\ Len(back) = Len(list) - place + 1
      /\ \A i \in 1 .. Len(list) - place + 1 : back[i] = list[place + i - 1]
  BY <1>1
<1>4. Stored!Composition!InsertAt(list, place, w) = longer
  BY Zenon DEF Stored!Composition!InsertAt
<1> HIDE DEF front, back
<1>5. front \o <<w>> \in Seq(S) /\ Len(front \o <<w>>) = place
      /\ \A i \in 1 .. place : (front \o <<w>>)[i] = IF i < place THEN list[i] ELSE w
  BY <1>1, <1>2
<1> DEFINE most == front \o <<w>>
<1> HIDE DEF most
<1>6. most \o back \in Seq(S) /\ Len(most \o back) = Len(list) + 1
      /\ \A i \in 1 .. Len(list) + 1 : (most \o back)[i] = IF i <= place THEN most[i] ELSE back[i - place]
  BY <1>1, <1>3, <1>5 DEF most
<1>7. \A i \in 1 .. Len(list) + 1 :
         (most \o back)[i] = IF i < place THEN list[i] ELSE IF i = place THEN w ELSE list[i - 1]
  <2> SUFFICES ASSUME NEW i \in 1 .. Len(list) + 1
      PROVE (most \o back)[i] = IF i < place THEN list[i] ELSE IF i = place THEN w ELSE list[i - 1]
    OBVIOUS
  <2>1. CASE i <= place
    BY <2>1, <1>1, <1>5, <1>6 DEF most
  <2>2. CASE i > place
    <3>1. i - place \in 1 .. Len(list) - place + 1 /\ place + (i - place) - 1 = i - 1
      BY <2>2, <1>1
    <3> QED
      BY <2>2, <3>1, <1>1, <1>3, <1>6
  <2>3. i <= place \/ i > place
    BY <1>1
  <2> QED
    BY <2>1, <2>2, <2>3, Zenon
<1> QED
  BY <1>4, <1>6, <1>7 DEF most

\* A widget is added after those of its z-index.
LEMMA AddKeepsOrder ==
    ASSUME NEW S, \A r \in S : r.z \in Int, NEW list \in Seq(S), InOrderOfZ(list), NEW w \in S
    PROVE  LET longer == Stored!AddWidget(list, w)
           IN  /\ longer \in Seq(S) /\ InOrderOfZ(longer)
               /\ (\A i \in 1 .. Len(list) : list[i].z <= w.z) => longer = Append(list, w)
<1> DEFINE above == {i \in DOMAIN list : list[i].z > w.z}
           place == IF above = {} THEN Len(list) + 1 ELSE CHOOSE i \in above : \A j \in above : i <= j
           longer == Stored!Composition!InsertAt(list, place, w)
<1>1. Stored!AddWidget(list, w) = longer
  BY Zenon DEF Stored!AddWidget, Stored!Composition!AddByZ
<1>2. Len(list) \in Nat /\ DOMAIN list = 1 .. Len(list) /\ w.z \in Int
      /\ \A i \in 1 .. Len(list) : list[i] \in S /\ list[i].z \in Int
  OBVIOUS
<1>3. above \subseteq Nat
  BY <1>2
<1>4. above # {} => place \in above /\ \A j \in above : place <= j
  <2> SUFFICES ASSUME above # {} PROVE \E i \in above : \A j \in above : i <= j
    OBVIOUS
  <2> HIDE DEF above
  <2> QED
    BY <1>3, LeastExists
<1>5. place \in 1 .. Len(list) + 1
  BY <1>2, <1>4
<1>6. \A i \in 1 .. Len(list) : (i < place => list[i].z <= w.z) /\ (i >= place => list[i].z > w.z)
  <2> SUFFICES ASSUME NEW i \in 1 .. Len(list)
      PROVE (i < place => list[i].z <= w.z) /\ (i >= place => list[i].z > w.z)
    OBVIOUS
  <2>1. CASE above = {}
    BY <2>1, <1>2
  <2>2. CASE above # {}
    <3>0. place \in above /\ \A j \in above : place <= j
      BY <2>2, <1>4
    <3> HIDE DEF place
    <3>1. place \in 1 .. Len(list) /\ list[place].z > w.z /\ (i < place => i \notin above)
      BY <3>0, <1>2
    <3>2. i >= place => list[place].z <= list[i].z
      BY <3>1 DEF InOrderOfZ
    <3>3. i < place => list[i].z <= w.z
      BY <3>1, <1>2
    <3> QED
      BY <3>1, <3>2, <3>3, <1>2
  <2> QED
    BY <2>1, <2>2
<1>7. (\A i \in 1 .. Len(list) : list[i].z <= w.z) => place = Len(list) + 1
  BY <1>2
<1> HIDE DEF place
<1>8. longer \in Seq(S) /\ Len(longer) = Len(list) + 1
      /\ \A i \in 1 .. Len(list) + 1 :
            longer[i] = IF i < place THEN list[i] ELSE IF i = place THEN w ELSE list[i - 1]
  BY <1>5, InsertsAt
<1> HIDE DEF longer
<1>9. InOrderOfZ(longer)
  <2> SUFFICES ASSUME NEW i \in 1 .. Len(list) + 1, NEW j \in 1 .. Len(list) + 1, i <= j
      PROVE longer[i].z <= longer[j].z
    BY <1>8 DEF InOrderOfZ
  <2>1. CASE j < place
    <3>1. i \in 1 .. Len(list) /\ j \in 1 .. Len(list) /\ longer[i] = list[i] /\ longer[j] = list[j]
      BY <2>1, <1>2, <1>5, <1>8
    <3> QED
      BY <3>1 DEF InOrderOfZ
  <2>2. CASE j = place
    <3>1. longer[j] = w /\ (i < j => i \in 1 .. Len(list) /\ longer[i] = list[i])
      BY <2>2, <1>2, <1>5, <1>8
    <3> QED
      BY <2>2, <3>1, <1>2, <1>6
  <2>3. CASE j > place
    <3>1. j - 1 \in 1 .. Len(list) /\ longer[j] = list[j - 1] /\ j - 1 >= place
      BY <2>3, <1>2, <1>5, <1>8
    <3>2. CASE i < place
      <4>1. i \in 1 .. Len(list) /\ longer[i] = list[i]
        BY <3>2, <1>2, <1>5, <1>8
      <4> QED
        BY <3>1, <3>2, <4>1, <1>2, <1>6
    <3>3. CASE i = place
      BY <3>1, <3>3, <1>2, <1>6, <1>8
    <3>4. CASE i > place
      <4>1. i - 1 \in 1 .. Len(list) /\ longer[i] = list[i - 1] /\ i - 1 <= j - 1
        BY <3>4, <1>2, <1>5, <1>8
      <4> QED
        BY <3>1, <4>1 DEF InOrderOfZ
    <3> QED
      BY <3>2, <3>3, <3>4, <1>5
  <2> QED
    BY <2>1, <2>2, <2>3, <1>5
<1>10. place = Len(list) + 1 => longer = Append(list, w)
  <2> SUFFICES ASSUME place = Len(list) + 1 PROVE longer = Append(list, w)
    OBVIOUS
  <2>1. Append(list, w) \in Seq(S) /\ Len(Append(list, w)) = Len(list) + 1
    OBVIOUS
  <2>2. \A i \in 1 .. Len(list) + 1 : longer[i] = Append(list, w)[i]
    BY <1>2, <1>8
  <2> QED
    BY <1>8, <2>1, <2>2, SeqEqual
<1> QED
  BY <1>1, <1>7, <1>8, <1>9, <1>10

\* The widgets of a document, read, are in the order of their z-index.
LEMMA ReadInOrder ==
    ASSUME NEW list, Stored!IsList(list), NEW S,
           \A r \in S : r.z \in Int,
           \A w \in Stored!ToSet(list) : Stored!ToWidgetConfiguration(w) \in S
    PROVE  Stored!ToWidgets(list) \in Seq(S) /\ InOrderOfZ(Stored!ToWidgets(list))
<1>1. PICK added :
         /\ added[0] = <<>>
         /\ \A i \in 1 .. Len(list) :
               added[i] = Stored!AddWidget(added[i - 1], Stored!ToWidgetConfiguration(list[i]))
         /\ Stored!ToWidgets(list) = added[Len(list)]
  BY AddsInTurn
<1>2. Len(list) \in Nat /\ \A i \in 1 .. Len(list) : Stored!ToWidgetConfiguration(list[i]) \in S
  BY ListIsNumbered
<1> DEFINE T == {n \in Nat : n <= Len(list) => added[n] \in Seq(S) /\ InOrderOfZ(added[n])}
<1>3. 0 \in T
  <2>1. <<>> \in Seq(S) /\ 1 .. Len(<<>>) = {}
    OBVIOUS
  <2> QED
    BY <1>1, <2>1 DEF InOrderOfZ
<1>4. ASSUME NEW n \in T PROVE n + 1 \in T
  <2> SUFFICES ASSUME n + 1 <= Len(list) PROVE added[n + 1] \in Seq(S) /\ InOrderOfZ(added[n + 1])
    OBVIOUS
  <2>1. n + 1 \in 1 .. Len(list) /\ (n + 1) - 1 = n /\ n <= Len(list)
    BY <1>2
  <2>2. added[n + 1] = Stored!AddWidget(added[n], Stored!ToWidgetConfiguration(list[n + 1]))
    BY <1>1, <2>1
  <2>3. added[n] \in Seq(S) /\ InOrderOfZ(added[n])
    BY <2>1
  <2>4. Stored!ToWidgetConfiguration(list[n + 1]) \in S
    BY <1>2, <2>1
  <2> QED
    BY <2>2, <2>3, <2>4, AddKeepsOrder
<1> HIDE DEF T
<1>5. T = Nat
  BY <1>3, <1>4, AllNumbers DEF T
<1> QED
  BY <1>1, <1>2, <1>5 DEF T

\* Widgets in the order of their z-index that are written and read again are the same.
LEMMA ReadsInOrderAgain ==
    ASSUME NEW S, \A r \in S : r.z \in Int, NEW list \in Seq(S), InOrderOfZ(list),
           \A w \in S : Stored!ToWidgetConfiguration(Stored!FromWidget(w)) = w
    PROVE  Stored!ToWidgets([i \in DOMAIN list |-> Stored!FromWidget(list[i])]) = list
<1> DEFINE written == [i \in DOMAIN list |-> Stored!FromWidget(list[i])]
<1>1. Len(list) \in Nat /\ DOMAIN list = 1 .. Len(list) /\ \A i \in 1 .. Len(list) : list[i] \in S /\ list[i].z \in Int
  OBVIOUS
<1>2. Stored!IsList(written) /\ Len(written) = Len(list)
  <2>1. written \in [1 .. Len(list) -> Stored!ToSet(written)]
    BY <1>1 DEF Stored!ToSet
  <2> HIDE DEF written
  <2>2. written \in Seq(Stored!ToSet(written)) /\ Len(written) = Len(list)
    BY <1>1, <2>1
  <2> QED
    BY <2>2 DEF Stored!IsList
<1>3. PICK added :
         /\ added[0] = <<>>
         /\ \A i \in 1 .. Len(written) :
               added[i] = Stored!AddWidget(added[i - 1], Stored!ToWidgetConfiguration(written[i]))
         /\ Stored!ToWidgets(written) = added[Len(written)]
  <2> HIDE DEF written
  <2> QED
    BY <1>2, AddsInTurn
<1>4. \A i \in 1 .. Len(list) : Stored!ToWidgetConfiguration(written[i]) = list[i]
  BY <1>1
<1> HIDE DEF written
<1> DEFINE T == {n \in Nat : n <= Len(list) => added[n] = SubSeq(list, 1, n)}
<1>5. 0 \in T
  <2>1. SubSeq(list, 1, 0) = <<>>
    BY SubSeqEmpty
  <2> QED
    BY <1>3, <2>1
<1>6. ASSUME NEW n \in T PROVE n + 1 \in T
  <2> SUFFICES ASSUME n + 1 <= Len(list) PROVE added[n + 1] = SubSeq(list, 1, n + 1)
    OBVIOUS
  <2>1. n + 1 \in 1 .. Len(list) /\ (n + 1) - 1 = n /\ n <= Len(list) /\ n \in Nat
    BY <1>1
  <2> DEFINE before == SubSeq(list, 1, n)
  <2>2. added[n + 1] = Stored!AddWidget(before, list[n + 1])
    BY <1>2, <1>3, <1>4, <2>1
  <2>3. before \in Seq(S) /\ Len(before) = n /\ \A i \in 1 .. n : before[i] = list[i]
    BY <2>1, <1>1
  <2>4. InOrderOfZ(before) /\ \A i \in 1 .. n : before[i].z <= list[n + 1].z
    BY <2>1, <2>3, <1>1 DEF InOrderOfZ
  <2>5. SubSeq(list, 1, n + 1) = Append(before, list[n + 1])
    <3>1. SubSeq(list, 1, n + 1) \in Seq(S) /\ Len(SubSeq(list, 1, n + 1)) = n + 1
          /\ \A i \in 1 .. n + 1 : SubSeq(list, 1, n + 1)[i] = list[i]
      BY <2>1, <1>1
    <3> HIDE DEF before
    <3>2. Append(before, list[n + 1]) \in Seq(S) /\ Len(Append(before, list[n + 1])) = n + 1
          /\ \A i \in 1 .. n + 1 : Append(before, list[n + 1])[i] = list[i]
      BY <2>1, <2>3, <1>1
    <3> QED
      BY <3>1, <3>2, SeqEqual
  <2> HIDE DEF before
  <2>6. list[n + 1] \in S
    BY <1>1, <2>1
  <2>7. Stored!AddWidget(before, list[n + 1]) = Append(before, list[n + 1])
    BY <2>3, <2>4, <2>6, AddKeepsOrder
  <2> QED
    BY <2>2, <2>5, <2>7
<1> HIDE DEF T
<1>7. T = Nat
  BY <1>5, <1>6, AllNumbers DEF T
<1>8. SubSeq(list, 1, Len(list)) = list
  OBVIOUS
<1>9. added[Len(list)] = list
  BY <1>1, <1>7, <1>8 DEF T
<1>10. Stored!ToWidgets(written) = list
  BY <1>2, <1>3, <1>9
<1> QED
  BY <1>10 DEF written

-----------------------------------------------------------------------------
\* A value that was read is written, and read again, as it is; it is no missing selector.
LEMMA ValuesReadAgain ==
    ASSUME NEW value, Stored!IsCborValue(value)
    PROVE  LET read == Stored!FromCborPropertyValue(value)
           IN  /\ read # Stored!NoSelector
               /\ Stored!FromCborPropertyValue(Stored!ToCborPropertyValue(read)) = read
<1> DEFINE Kinds == {"int", "real", "no_number", "text", "bool", "list", "texts", "map"}
<1>1. DOMAIN Stored!CborKinds = Kinds /\ "none" \notin Kinds
      /\ \A k, l \in Kinds : Stored!CborKinds[k] = Stored!CborKinds[l] => k = l
  BY DEF Stored!CborKinds
<1>2. PICK kind \in Kinds : Stored!CborKinds[kind] = value.kind
  BY <1>1 DEF Stored!IsCborValue
<1> HIDE DEF Kinds
<1>3. ASSUME NEW v, v.kind = Stored!CborKinds[kind]
      PROVE  Stored!FromCborPropertyValue(v) = [kind |-> kind, number |-> v.number]
  BY <1>1, <1>2, <1>3 DEF Stored!FromCborPropertyValue, Stored!Value
<1>4. Stored!FromCborPropertyValue(value) = [kind |-> kind, number |-> value.number]
  BY <1>2, <1>3
<1>5. Stored!ToCborPropertyValue(Stored!FromCborPropertyValue(value))
        = [kind |-> Stored!CborKinds[kind], number |-> value.number]
  BY <1>4 DEF Stored!ToCborPropertyValue, Stored!Value
<1>6. Stored!FromCborPropertyValue(Stored!ToCborPropertyValue(Stored!FromCborPropertyValue(value)))
        = [kind |-> kind, number |-> value.number]
  BY <1>3, <1>5
<1>7. Stored!FromCborPropertyValue(value) # Stored!NoSelector
  BY <1>1, <1>2, <1>4 DEF Stored!NoSelector, Stored!Value
<1> QED
  BY <1>4, <1>6, <1>7

LEMMA BindingsReadAgain ==
    ASSUME NEW binding, Stored!IsCborBinding(binding)
    PROVE  LET read == Stored!FromCborBinding(binding)
           IN  Stored!FromCborBinding(Stored!ToCborBinding(read)) = read
<1> DEFINE read == Stored!FromCborBinding(binding)
           written == Stored!ToCborBinding(read)
<1>1. DOMAIN read = DOMAIN binding \ {"has_selector"} /\ "selector" \in DOMAIN read
  BY DEF Stored!FromCborBinding, Stored!IsCborBinding
<1>2. read = [field \in DOMAIN read |-> read[field]]
  BY DEF Stored!FromCborBinding
<1>3. read.selector = Stored!NoSelector \/ read.selector = Stored!FromCborPropertyValue(binding.selector)
  BY <1>1 DEF Stored!FromCborBinding
<1> HIDE DEF read
<1>4. DOMAIN written = DOMAIN read \union {"has_selector"}
      /\ written.has_selector = Stored!HasSelector(read)
      /\ written.selector = Stored!ToCborPropertyValue(IF Stored!HasSelector(read) THEN read.selector ELSE Stored!IntOf(0))
      /\ \A field \in DOMAIN read \ {"selector"} : written[field] = read[field]
  <2>1. DOMAIN written = DOMAIN read \union {"has_selector"}
    BY DEF Stored!ToCborBinding
  <2>2. written.has_selector = Stored!HasSelector(read)
    BY <2>1 DEF Stored!ToCborBinding
  <2>3. written.selector = Stored!ToCborPropertyValue(IF Stored!HasSelector(read) THEN read.selector ELSE Stored!IntOf(0))
    BY <1>1 DEF Stored!ToCborBinding
  <2>4. ASSUME NEW field \in DOMAIN read \ {"selector"} PROVE written[field] = read[field]
    <3>1. field # "has_selector"
      BY <1>1
    <3> QED
      BY <3>1 DEF Stored!ToCborBinding
  <2> QED
    BY <2>1, <2>2, <2>3, <2>4
<1>5. Stored!FromCborBinding(written).selector = read.selector
  <2>1. Stored!FromCborBinding(written).selector =
          IF written.has_selector THEN Stored!FromCborPropertyValue(written.selector) ELSE Stored!NoSelector
    BY <1>1, <1>4 DEF Stored!FromCborBinding, Stored!HasSelector
  <2>2. CASE read.selector = Stored!NoSelector
    BY <1>4, <2>1, <2>2 DEF Stored!HasSelector
  <2>3. CASE read.selector # Stored!NoSelector
    <3>1. read.selector = Stored!FromCborPropertyValue(binding.selector)
      BY <1>3, <2>3
    <3>2. Stored!FromCborPropertyValue(Stored!ToCborPropertyValue(read.selector)) = read.selector
      BY <3>1, ValuesReadAgain DEF Stored!IsCborBinding
    <3> QED
      BY <1>4, <2>1, <2>3, <3>2 DEF Stored!HasSelector
  <2> QED
    BY <2>2, <2>3
<1> HIDE DEF written
<1>6. DOMAIN Stored!FromCborBinding(written) = DOMAIN read
  BY <1>1, <1>4 DEF Stored!FromCborBinding
<1>7. \A field \in DOMAIN read : Stored!FromCborBinding(written)[field] = read[field]
  <2> SUFFICES ASSUME NEW field \in DOMAIN read PROVE Stored!FromCborBinding(written)[field] = read[field]
    OBVIOUS
  <2>1. CASE field = "selector"
    BY <1>5, <2>1
  <2>2. CASE field # "selector"
    BY <1>1, <1>4, <2>2 DEF Stored!FromCborBinding
  <2> QED
    BY <2>1, <2>2
<1>8. Stored!FromCborBinding(written) = [field \in DOMAIN read |-> Stored!FromCborBinding(written)[field]]
  BY <1>6 DEF Stored!FromCborBinding
<1>9. Stored!FromCborBinding(written) = read
  BY <1>2, <1>7, <1>8
<1> QED
  BY <1>9 DEF written, read

-----------------------------------------------------------------------------
\* A list of what is in a set is a list.
LEMMA SequencesAreLists ==
    ASSUME NEW S, NEW list \in Seq(S)
    PROVE  Stored!IsList(list) /\ Stored!ToSet(list) \subseteq S
<1>1. list \in [1 .. Len(list) -> S] /\ Len(list) \in Nat
  OBVIOUS
<1>2. list \in [1 .. Len(list) -> Stored!ToSet(list)]
  BY <1>1 DEF Stored!ToSet
<1>3. list \in Seq(Stored!ToSet(list))
  <2> DEFINE R == Stored!ToSet(list)
  <2>1. list \in [1 .. Len(list) -> R]
    BY <1>2
  <2> HIDE DEF R
  <2>2. list \in Seq(R)
    BY <1>1, <2>1
  <2> QED
    BY <2>2 DEF R
<1> QED
  BY <1>1, <1>3 DEF Stored!IsList, Stored!ToSet

\* What the rest of the unit has of a widget that was read.
IsReadWidget(widget) ==
    /\ widget.z \in Int
    /\ Stored!IsList(widget.kids)
    /\ \A binding \in Stored!Bindings(widget) : "target" \in DOMAIN binding
    /\ {"bindings", "properties"} \subseteq DOMAIN widget /\ "repeats" \notin DOMAIN widget
    /\ Stored!ToWidgetConfiguration(Stored!FromWidget(widget)) = widget

LEMMA WidgetsAreRead ==
    ASSUME NEW widget, Stored!IsCborWidget(widget)
    PROVE  IsReadWidget(Stored!ToWidgetConfiguration(widget))
<1> DEFINE read == Stored!ToWidgetConfiguration(widget)
           written == Stored!FromWidget(read)
<1>1. /\ DOMAIN read = DOMAIN widget \ {"repeats"}
      /\ {"z", "kids", "bindings", "properties"} \subseteq DOMAIN read /\ "repeats" \notin DOMAIN read
      /\ read = [field \in DOMAIN read |-> read[field]]
  BY DEF Stored!ToWidgetConfiguration, Stored!IsCborWidget
<1>2. /\ read.z = widget.z /\ read.kids = widget.kids
      /\ read.bindings = [i \in DOMAIN widget.bindings |-> Stored!FromCborBinding(widget.bindings[i])]
      /\ read.properties = Stored!FromCborProperties(widget.properties)
  BY <1>1 DEF Stored!ToWidgetConfiguration
<1> HIDE DEF read
<1>3. \A binding \in Stored!Bindings(read) :
         "target" \in DOMAIN binding /\ Stored!FromCborBinding(Stored!ToCborBinding(binding)) = binding
  <2> SUFFICES ASSUME NEW i \in DOMAIN widget.bindings
      PROVE LET binding == Stored!FromCborBinding(widget.bindings[i])
            IN "target" \in DOMAIN binding /\ Stored!FromCborBinding(Stored!ToCborBinding(binding)) = binding
    BY <1>2 DEF Stored!Bindings, Stored!ToSet
  <2>1. Stored!IsCborBinding(widget.bindings[i])
    BY DEF Stored!IsCborWidget, Stored!Bindings, Stored!ToSet
  <2>2. "target" \in DOMAIN Stored!FromCborBinding(widget.bindings[i])
    BY <2>1 DEF Stored!FromCborBinding, Stored!IsCborBinding
  <2> QED
    BY <2>1, <2>2, BindingsReadAgain
<1>4. /\ DOMAIN written = DOMAIN read \union {"repeats"}
      /\ written.bindings = [i \in DOMAIN read.bindings |-> Stored!ToCborBinding(read.bindings[i])]
      /\ written.properties = Stored!ToCborProperties(read.properties)
      /\ \A field \in DOMAIN read \ {"bindings", "properties"} : written[field] = read[field]
  BY <1>1 DEF Stored!FromWidget
<1> HIDE DEF written
<1>5. [i \in DOMAIN written.bindings |-> Stored!FromCborBinding(written.bindings[i])] = read.bindings
  <2>1. DOMAIN written.bindings = DOMAIN read.bindings /\ DOMAIN read.bindings = DOMAIN widget.bindings
    BY <1>2, <1>4
  <2>2. \A i \in DOMAIN read.bindings : Stored!FromCborBinding(written.bindings[i]) = read.bindings[i]
    BY <1>3, <1>4 DEF Stored!Bindings, Stored!ToSet
  <2>3. read.bindings = [i \in DOMAIN read.bindings |-> read.bindings[i]]
    BY <1>2
  <2> QED
    BY <2>1, <2>2, <2>3
<1>6. Stored!FromCborProperties(written.properties) = read.properties
  <2>1. DOMAIN written.properties = DOMAIN read.properties /\ DOMAIN read.properties = DOMAIN widget.properties
    BY <1>2, <1>4 DEF Stored!ToCborProperties, Stored!FromCborProperties
  <2>2. \A type \in DOMAIN read.properties :
           Stored!FromCborPropertyValue(written.properties[type]) = read.properties[type]
    <3> SUFFICES ASSUME NEW type \in DOMAIN read.properties
        PROVE Stored!FromCborPropertyValue(written.properties[type]) = read.properties[type]
      OBVIOUS
    <3>1. written.properties[type] = Stored!ToCborPropertyValue(read.properties[type])
      BY <1>4 DEF Stored!ToCborProperties
    <3>2. read.properties[type] = Stored!FromCborPropertyValue(widget.properties[type])
      BY <1>2, <2>1 DEF Stored!FromCborProperties
    <3>3. Stored!IsCborValue(widget.properties[type])
      BY <2>1 DEF Stored!IsCborWidget
    <3> QED
      BY <3>1, <3>2, <3>3, ValuesReadAgain
  <2>3. read.properties = [type \in DOMAIN read.properties |-> read.properties[type]]
    BY <1>2 DEF Stored!FromCborProperties
  <2> QED
    BY <2>1, <2>2, <2>3 DEF Stored!FromCborProperties
<1>7. Stored!ToWidgetConfiguration(written) = read
  <2>1. Stored!ToWidgetConfiguration(written) = [field \in DOMAIN read |-> Stored!ToWidgetConfiguration(written)[field]]
    BY <1>1, <1>4 DEF Stored!ToWidgetConfiguration
  <2>2. \A field \in DOMAIN read : Stored!ToWidgetConfiguration(written)[field] = read[field]
    <3> SUFFICES ASSUME NEW field \in DOMAIN read PROVE Stored!ToWidgetConfiguration(written)[field] = read[field]
      OBVIOUS
    <3>1. field \in DOMAIN written \ {"repeats"}
      BY <1>1, <1>4
    <3>2. CASE field = "bindings"
      BY <1>5, <3>1, <3>2 DEF Stored!ToWidgetConfiguration
    <3>3. CASE field = "properties"
      BY <1>6, <3>1, <3>3 DEF Stored!ToWidgetConfiguration
    <3>4. CASE field \notin {"bindings", "properties"}
      BY <1>4, <3>1, <3>4 DEF Stored!ToWidgetConfiguration
    <3> QED
      BY <3>2, <3>3, <3>4
  <2> QED
    BY <1>1, <2>1, <2>2
<1>8. read.z \in Int /\ Stored!IsList(read.kids)
  BY <1>2 DEF Stored!IsCborWidget
<1> QED
  BY <1>1, <1>3, <1>7, <1>8 DEF IsReadWidget, written, read

\* What the rest of the unit has of a screen that was read.
IsReadScreen(screen) ==
    /\ Stored!IsList(screen.widgets)
    /\ \A w \in Stored!Widgets(screen) : IsReadWidget(w)
    /\ "widgets" \in DOMAIN screen
    /\ screen.group \in Nat
    /\ Stored!ToScreenConfiguration(Stored!FromScreen(screen)) = screen

LEMMA ScreensAreRead ==
    ASSUME NEW screen, Stored!IsCborScreen(screen)
    PROVE  IsReadScreen(Stored!ToScreenConfiguration(screen))
<1> DEFINE S == {Stored!ToWidgetConfiguration(w) : w \in Stored!Widgets(screen)}
           read == Stored!ToScreenConfiguration(screen)
           list == Stored!ToWidgets(screen.widgets)
           again == [i \in DOMAIN list |-> Stored!FromWidget(list[i])]
<1>1. \A r \in S : IsReadWidget(r)
  BY WidgetsAreRead DEF Stored!IsCborScreen
<1>2. (\A r \in S : r.z \in Int) /\ \A w \in S : Stored!ToWidgetConfiguration(Stored!FromWidget(w)) = w
  BY <1>1 DEF IsReadWidget
<1>3. Stored!IsList(screen.widgets) /\ \A w \in Stored!ToSet(screen.widgets) : Stored!ToWidgetConfiguration(w) \in S
  BY DEF Stored!IsCborScreen, Stored!Widgets
<1> HIDE DEF S
<1>4. list \in Seq(S) /\ InOrderOfZ(list)
  BY <1>2, <1>3, ReadInOrder
<1> HIDE DEF list
<1>5. Stored!ToWidgets(again) = list
  BY <1>2, <1>4, ReadsInOrderAgain
<1>6. /\ DOMAIN read = DOMAIN screen /\ "widgets" \in DOMAIN screen /\ read.group \in Nat
      /\ read.widgets = list
      /\ read = [screen EXCEPT !.widgets = list]
      /\ screen = [field \in DOMAIN screen |-> screen[field]]
  BY DEF Stored!ToScreenConfiguration, Stored!IsCborScreen, list
<1> HIDE DEF read
<1>7. Stored!ToScreenConfiguration(Stored!FromScreen(read)) = read
  <2>1. Stored!FromScreen(read) = [read EXCEPT !.widgets = again]
    BY <1>6 DEF Stored!FromScreen
  <2>2. Stored!FromScreen(read).widgets = again
    BY <2>1, <1>6
  <2>3. Stored!ToScreenConfiguration(Stored!FromScreen(read)) = [[read EXCEPT !.widgets = again] EXCEPT !.widgets = list]
    BY <1>5, <2>1, <2>2 DEF Stored!ToScreenConfiguration
  <2> HIDE DEF again
  <2> QED
    BY <2>3, <1>6
<1>8. Stored!IsList(read.widgets) /\ \A w \in Stored!Widgets(read) : IsReadWidget(w)
  BY <1>1, <1>4, <1>6, SequencesAreLists DEF Stored!Widgets, S
<1> QED
  BY <1>6, <1>7, <1>8 DEF IsReadScreen, read

-----------------------------------------------------------------------------
\* What the rest of the unit has of a configuration that was read.
IsReadConfiguration(conf) ==
    /\ conf = [active |-> conf.active, screens |-> conf.screens]
    /\ Stored!IsList(conf.screens)
    /\ \A screen \in Stored!ToSet(conf.screens) : IsReadScreen(screen)

LEMMA DocumentsAreRead ==
    ASSUME NEW document, Stored!IsDocument(document)
    PROVE  IsReadConfiguration(Stored!ToConfiguration(document))
<1> DEFINE list == document.screens
           S == {Stored!ToScreenConfiguration(screen) : screen \in Stored!ToSet(list)}
           conf == Stored!ToConfiguration(document)
<1>1. Len(list) \in Nat /\ DOMAIN list = 1 .. Len(list) /\ \A i \in 1 .. Len(list) : list[i] \in Stored!ToSet(list)
  BY ListIsNumbered DEF Stored!IsDocument
<1>2. /\ conf.active = document.active
      /\ conf.screens = [i \in DOMAIN list |-> Stored!ToScreenConfiguration(list[i])]
      /\ conf = [active |-> conf.active, screens |-> conf.screens]
  BY DEF Stored!ToConfiguration
<1> HIDE DEF conf
<1>3. \A screen \in S : IsReadScreen(screen)
  BY ScreensAreRead DEF Stored!IsDocument
<1>4. conf.screens \in Seq(S)
  <2>1. \A i \in 1 .. Len(list) : Stored!ToScreenConfiguration(list[i]) \in S
    BY <1>1
  <2> HIDE DEF S
  <2> QED
    BY <1>1, <1>2, <2>1
<1> HIDE DEF S
<1> QED
  BY <1>2, <1>3, <1>4, SequencesAreLists DEF IsReadConfiguration, conf

LEMMA DefaultIsRead ==
    /\ IsReadConfiguration(Stored!DefaultConfiguration)
    /\ Stored!IsDocument(Stored!Serialize(Stored!DefaultConfiguration))
<1> DEFINE conf == Stored!DefaultConfiguration
           document == Stored!Serialize(conf)
<1>1. conf = [active |-> 0, screens |-> <<>>]
  BY DEF Stored!DefaultConfiguration
<1>2. document.screens = <<>>
  BY <1>1 DEF Stored!Serialize
<1>3. Stored!IsList(<<>>) /\ Stored!ToSet(<<>>) = {}
  BY DEF Stored!IsList, Stored!ToSet
<1> HIDE DEF document
<1> QED
  BY <1>1, <1>2, <1>3 DEF IsReadConfiguration, Stored!IsDocument, document

LEMMA LoadedIsRead ==
    ASSUME NEW document, Stored!IsDocument(document)
    PROVE  IsReadConfiguration(Stored!Loaded(document))
BY DocumentsAreRead, DefaultIsRead DEF Stored!Loaded, Stored!Deserialize

\* A widget of a valid screen is one that the decoder takes, once it is encoded.
LEMMA WidgetsAreReadable ==
    ASSUME NEW widget, IsReadWidget(widget), Stored!ValidateWidgetProperties(widget),
           \A binding \in Stored!Bindings(widget) : Stored!ValidateWidgetBinding(binding)
    PROVE  Stored!IsReadableWidget(Stored!FromWidget(widget))
<1> DEFINE written == Stored!FromWidget(widget)
<1>1. /\ written.repeats = FALSE
      /\ written.bindings = [i \in DOMAIN widget.bindings |-> Stored!ToCborBinding(widget.bindings[i])]
      /\ written.properties = Stored!ToCborProperties(widget.properties)
  BY DEF Stored!FromWidget, IsReadWidget
<1> HIDE DEF written
<1>2. DOMAIN written.properties \subseteq Stored!WidgetPropertyTypes
  BY <1>1 DEF Stored!ToCborProperties, Stored!ValidateWidgetProperties, Stored!IsValidWidgetProperty
<1>3. \A binding \in Stored!Bindings(written) : binding.target \in Stored!WidgetPropertyTypes
  <2> SUFFICES ASSUME NEW i \in DOMAIN widget.bindings
      PROVE Stored!ToCborBinding(widget.bindings[i]).target \in Stored!WidgetPropertyTypes
    BY <1>1 DEF Stored!Bindings, Stored!ToSet
  <2>1. widget.bindings[i] \in Stored!Bindings(widget)
    BY DEF Stored!Bindings, Stored!ToSet
  <2>2. "target" \in DOMAIN widget.bindings[i] /\ widget.bindings[i].target \in Stored!WidgetPropertyTypes
    BY <2>1 DEF IsReadWidget, Stored!ValidateWidgetBinding
  <2> QED
    BY <2>2 DEF Stored!ToCborBinding
<1> QED
  BY <1>1, <1>2, <1>3 DEF Stored!IsReadableWidget, written

\* A valid configuration that was read encodes to a document that decodes to it.
LEMMA ReadAgain ==
    ASSUME NEW conf, IsReadConfiguration(conf), Stored!Validate(conf)
    PROVE  Stored!EncodesToItself(conf)
<1> DEFINE document == Stored!Serialize(conf)
<1>1. /\ document.version = CONFIGURATION_VERSION /\ document.properties = <<>> /\ document.active = conf.active
      /\ document.screens = [i \in DOMAIN conf.screens |-> Stored!FromScreen(conf.screens[i])]
  BY DEF Stored!Serialize
<1> HIDE DEF document
<1>2. Stored!ToConfiguration(document) = conf
  <2>1. \A i \in DOMAIN conf.screens : Stored!ToScreenConfiguration(document.screens[i]) = conf.screens[i]
    BY <1>1 DEF IsReadConfiguration, IsReadScreen, Stored!ToSet
  <2>2. [i \in DOMAIN document.screens |-> Stored!ToScreenConfiguration(document.screens[i])]
          = [i \in DOMAIN conf.screens |-> conf.screens[i]]
    BY <1>1, <2>1
  <2>3. conf.screens = [i \in DOMAIN conf.screens |-> conf.screens[i]]
    <3>1. conf.screens \in [1 .. Len(conf.screens) -> Stored!ToSet(conf.screens)]
      BY DEF IsReadConfiguration, Stored!IsList
    <3> QED
      BY <3>1
  <2> QED
    BY <1>1, <2>2, <2>3 DEF Stored!ToConfiguration, IsReadConfiguration
<1>3. Stored!IsReadable(document)
  <2> SUFFICES ASSUME NEW i \in DOMAIN conf.screens, NEW w \in Stored!Widgets(Stored!FromScreen(conf.screens[i]))
      PROVE Stored!IsReadableWidget(w)
    BY <1>1 DEF Stored!IsReadable, Stored!AreReadableUiProperties, Stored!ToSet
  <2> DEFINE screen == conf.screens[i]
  <2>1. screen \in Stored!ToSet(conf.screens)
    BY DEF Stored!ToSet
  <2>2. IsReadScreen(screen) /\ Stored!ValidateScreen(screen)
    BY <2>1 DEF IsReadConfiguration, Stored!Validate, Stored!ValidateScreens
  <2> HIDE DEF screen
  <2>3. Stored!FromScreen(screen).widgets = [j \in DOMAIN screen.widgets |-> Stored!FromWidget(screen.widgets[j])]
    BY <2>2 DEF Stored!FromScreen, IsReadScreen
  <2>4. PICK widget \in Stored!Widgets(screen) : w = Stored!FromWidget(widget)
    BY <2>3 DEF screen, Stored!Widgets, Stored!ToSet
  <2> QED
    BY <2>2, <2>4, WidgetsAreReadable DEF IsReadScreen, Stored!ValidateScreen
<1> QED
  BY <1>2, <1>3 DEF Stored!EncodesToItself, Stored!Serializes, Stored!Deserializes, Stored!Deserialize, document

-----------------------------------------------------------------------------
\* What a widget registers: values it can read, and no rotation unless it is asked for one.
IsGoodValue(type, value) ==
    Stored!IsReadableValue(type, value) /\ (type = "ANIMATION_TYPE" => value = Stored!IntOf(0))

IsGoodTable(table) == \A type \in DOMAIN table : IsGoodValue(type, table[type])

LEMMA EachIsGood ==
    ASSUME NEW types, NEW value, \A type \in types : IsGoodValue(type, value)
    PROVE  IsGoodTable(Stored!Each(types, value))
BY DEF IsGoodTable, Stored!Each

\* The table of a whole widget.
IsWidgetTable(table) == IsGoodTable(table) /\ "ANIMATION_TYPE" \in DOMAIN table

LEMMA LaterHolds ==
    ASSUME NEW late, NEW early
    PROVE  \A type : type \in DOMAIN late \/ type \in DOMAIN early => type \in DOMAIN Stored!++(late, early)
BY DEF Stored!++

LEMMA LaterIsGood ==
    ASSUME NEW late, IsGoodTable(late), NEW early, IsGoodTable(early)
    PROVE  /\ IsGoodTable(Stored!++(late, early))
           /\ IsWidgetTable(late) \/ IsWidgetTable(early) => IsWidgetTable(Stored!++(late, early))
BY DEF IsGoodTable, IsWidgetTable, Stored!++

\* The types of what a widget reads without looking.
LEMMA TypesToldApart ==
    /\ \A type \in Stored!ColorTypes \union Stored!TextTypes : IsGoodValue(type, Stored!TextOf(Stored!EmptyText))
    /\ \A type \in Stored!NumberTypes \ {"ANIMATION_TYPE", "ANIMATION_DURATION_MS"} :
          \A n : IsGoodValue(type, Stored!IntOf(n))
    /\ \A type \in {"MIN_VALUE", "VALUE", "MAX_VALUE", "STEP", "POSITION_ANGLE"} : \A n : IsGoodValue(type, Stored!RealOf(n))
    /\ \A type \in Stored!FlagTypes \union {"VALUE"} : \A n : IsGoodValue(type, Stored!FlagOf(n))
    /\ IsGoodValue("ANIMATION_TYPE", Stored!IntOf(0)) /\ IsGoodValue("ANIMATION_DURATION_MS", Stored!IntOf(1000))
<1> USE DEF IsGoodValue, Stored!IsReadableValue, Stored!ColorTypes, Stored!TextTypes, Stored!NumberTypes, Stored!FlagTypes,
            Stored!AnchorTypes, Stored!LayoutTypes, Stored!Value, Stored!TextOf, Stored!IntOf, Stored!RealOf,
            Stored!FlagOf, Stored!EmptyText
<1>1. \A type \in Stored!ColorTypes \union Stored!TextTypes : IsGoodValue(type, Stored!TextOf(Stored!EmptyText))
  OBVIOUS
<1>2. \A type \in Stored!NumberTypes \ {"ANIMATION_TYPE", "ANIMATION_DURATION_MS"} :
          \A n : IsGoodValue(type, Stored!IntOf(n))
  OBVIOUS
<1>3. \A type \in {"MIN_VALUE", "VALUE", "MAX_VALUE", "STEP", "POSITION_ANGLE"} : \A n : IsGoodValue(type, Stored!RealOf(n))
  OBVIOUS
<1>4. \A type \in Stored!FlagTypes \union {"VALUE"} : \A n : IsGoodValue(type, Stored!FlagOf(n))
  OBVIOUS
<1>5. IsGoodValue("ANIMATION_TYPE", Stored!IntOf(0)) /\ IsGoodValue("ANIMATION_DURATION_MS", Stored!IntOf(1000))
  OBVIOUS
<1> QED
  BY <1>1, <1>2, <1>3, <1>4, <1>5

\* A table of one value, by the kind of the value.
LEMMA TextsAreGood ==
    ASSUME NEW types, types \subseteq Stored!ColorTypes \union Stored!TextTypes
    PROVE  IsGoodTable(Stored!Each(types, Stored!TextOf(Stored!EmptyText)))
<1>1. \A type \in types : IsGoodValue(type, Stored!TextOf(Stored!EmptyText))
  BY TypesToldApart
<1> QED
  BY <1>1, EachIsGood

LEMMA NumbersAreGood ==
    ASSUME NEW types, types \subseteq Stored!NumberTypes \ {"ANIMATION_TYPE", "ANIMATION_DURATION_MS"}, NEW n
    PROVE  IsGoodTable(Stored!Each(types, Stored!IntOf(n)))
<1>1. \A type \in types : IsGoodValue(type, Stored!IntOf(n))
  BY TypesToldApart
<1> QED
  BY <1>1, EachIsGood

LEMMA RealsAreGood ==
    ASSUME NEW types, types \subseteq {"MIN_VALUE", "VALUE", "MAX_VALUE", "STEP", "POSITION_ANGLE"}, NEW n
    PROVE  IsGoodTable(Stored!Each(types, Stored!RealOf(n)))
<1>1. \A type \in types : IsGoodValue(type, Stored!RealOf(n))
  BY TypesToldApart
<1> QED
  BY <1>1, EachIsGood

LEMMA FlagsAreGood ==
    ASSUME NEW types, types \subseteq Stored!FlagTypes \union {"VALUE"}, NEW n
    PROVE  IsGoodTable(Stored!Each(types, Stored!FlagOf(n)))
<1>1. \A type \in types : IsGoodValue(type, Stored!FlagOf(n))
  BY TypesToldApart
<1> QED
  BY <1>1, EachIsGood

\* What every widget registers, and what each class adds.
LEMMA WidgetIsGood == IsWidgetTable(Stored!RegisterWidget)
<1> DEFINE a == Stored!Each({"IS_ACTIVE", "IS_VISIBLE"}, Stored!FlagOf(1))
           b == Stored!Each({"IS_SMOOTHED", "IS_ANIMATION_ACTIVE"}, Stored!FlagOf(0))
           c1 == Stored!Each({"OPACITY"}, Stored!IntOf(255))
           d == Stored!Each(Stored!AnchorTypes, Stored!IntOf(-1))
           e1 == Stored!Each({"ANIMATION_TYPE"}, Stored!IntOf(0))
           f == Stored!Each({"ANIMATION_DURATION_MS"}, Stored!IntOf(1000))
<1>1. IsGoodTable(a) /\ IsGoodTable(b)
  BY FlagsAreGood DEF Stored!FlagTypes
<1>2. IsGoodTable(c1) /\ IsGoodTable(d)
  BY NumbersAreGood DEF Stored!NumberTypes, Stored!AnchorTypes
<1>3. IsWidgetTable(e1) /\ IsGoodTable(e1) /\ IsGoodTable(f)
  <2>1. \A type \in {"ANIMATION_TYPE"} : IsGoodValue(type, Stored!IntOf(0))
    BY TypesToldApart
  <2>2. \A type \in {"ANIMATION_DURATION_MS"} : IsGoodValue(type, Stored!IntOf(1000))
    BY TypesToldApart
  <2>3. IsGoodTable(e1) /\ IsGoodTable(f)
    BY <2>1, <2>2, EachIsGood
  <2>4. "ANIMATION_TYPE" \in DOMAIN e1
    BY DEF Stored!Each
  <2> QED
    BY <2>3, <2>4 DEF IsWidgetTable
<1>4. Stored!RegisterWidget = Stored!++(Stored!++(Stored!++(Stored!++(Stored!++(a, b), c1), d), e1), f)
  BY DEF Stored!RegisterWidget
<1> HIDE DEF a, b, c1, d, e1, f
<1> QED
  BY <1>1, <1>2, <1>3, <1>4, LaterIsGood, Zenon

\* The tables that the classes put theirs together from.
LEMMA TextTablesAreGood ==
    /\ IsGoodTable(Stored!Each({"FONT_FILE_PATH"}, Stored!TextOf(Stored!EmptyText)))
    /\ IsGoodTable(Stored!Each({"SETTING_ID"}, Stored!TextOf(Stored!EmptyText)))
    /\ IsGoodTable(Stored!Each({"LABEL", "UNIT"}, Stored!TextOf(Stored!EmptyText)))
    /\ IsGoodTable(Stored!Each({"LABEL"}, Stored!TextOf(Stored!EmptyText)))
    /\ IsGoodTable(Stored!Each({"FILE_PATH"}, Stored!TextOf(Stored!EmptyText)))
BY TextsAreGood DEF Stored!TextTypes

LEMMA NumberTablesAreGood ==
    /\ \A size : IsGoodTable(Stored!Each({"FONT_SIZE_PX"}, Stored!IntOf(size)))
    /\ IsGoodTable(Stored!Each({"START_ANGLE"}, Stored!IntOf(45)))
    /\ IsGoodTable(Stored!Each({"END_ANGLE"}, Stored!IntOf(315)))
    /\ IsGoodTable(Stored!Each({"VALUE_PRECISION"}, Stored!IntOf(0)))
    /\ IsGoodTable(Stored!Each({"CHART_POINT_COUNT"}, Stored!IntOf(30)))
    /\ IsGoodTable(Stored!Each({"CHART_TYPE"}, Stored!IntOf(1)))
    /\ IsGoodTable(Stored!Each({"DIRECTION"}, Stored!IntOf(1)))
    /\ IsGoodTable(Stored!Each({"TARGET_SCREEN_GROUP"}, Stored!IntOf(-1)))
    /\ IsGoodTable(Stored!Each({"NAVIGATION_INTENT"}, Stored!IntOf(0)))
    /\ IsGoodTable(Stored!Each({"WIDTH_PX", "HEIGHT_PX"}, Stored!IntOf(32)))
    /\ IsGoodTable(Stored!Each({"STROKE_PX"}, Stored!IntOf(2)))
    /\ IsGoodTable(Stored!Each({"FILL_MODE"}, Stored!IntOf(0)))
    /\ IsGoodTable(Stored!Each({"CORNER_RAD_PX"}, Stored!IntOf(0)))
    /\ IsGoodTable(Stored!Each({"IMG_WIDTH", "IMG_HEIGHT"}, Stored!IntOf(0)))
    /\ IsGoodTable(Stored!Each({"WIDTH_PX", "HEIGHT_PX"}, Stored!IntOf(0)))
    /\ IsGoodTable(Stored!Each({"ICON_TYPE", "POSITION_X", "POSITION_Y"}, Stored!IntOf(0)))
    /\ IsGoodTable(Stored!Each({"EDGE_OFFSET"}, Stored!IntOf(0)))
BY NumbersAreGood DEF Stored!NumberTypes

LEMMA RealTablesAreGood ==
    /\ IsGoodTable(Stored!Each({"MIN_VALUE", "VALUE"}, Stored!RealOf(0)))
    /\ IsGoodTable(Stored!Each({"MAX_VALUE"}, Stored!RealOf(200)))
    /\ IsGoodTable(Stored!Each({"VALUE", "MIN_VALUE", "MAX_VALUE", "STEP"}, Stored!RealOf(0)))
    /\ IsGoodTable(Stored!Each({"POSITION_ANGLE"}, Stored!RealOf(-180)))
BY RealsAreGood

LEMMA FlagTableIsGood == IsGoodTable(Stored!Each({"VALUE"}, Stored!FlagOf(0)))
BY FlagsAreGood

LEMMA ColorTablesAreGood ==
    \A types \in {Stored!Primary, Stored!Actives, Stored!PrimaryPair, Stored!TwoPairs, Stored!ColorTypes} :
        IsGoodTable(Stored!RegisterColors(types))
<1> SUFFICES ASSUME NEW types \in {Stored!Primary, Stored!Actives, Stored!PrimaryPair, Stored!TwoPairs, Stored!ColorTypes}
    PROVE types \subseteq Stored!ColorTypes
  BY TextsAreGood DEF Stored!RegisterColors
<1> QED
  BY DEF Stored!ColorTypes, Stored!Primary, Stored!Actives, Stored!PrimaryPair, Stored!TwoPairs

\* What each class registers, of the tables it puts its own together from.
LEMMA BasesAreGood ==
    /\ \A size : IsGoodTable(Stored!RegisterText(size))
    /\ IsWidgetTable(Stored!RegisterIndicator)
    /\ IsWidgetTable(Stored!RegisterSetting)
    /\ IsGoodTable(Stored!RegisterAngles)
<1>1. \A size : IsGoodTable(Stored!RegisterText(size))
  BY TextTablesAreGood, NumberTablesAreGood, LaterIsGood, Zenon DEF Stored!RegisterText
<1>2. IsWidgetTable(Stored!RegisterIndicator)
  BY WidgetIsGood, RealTablesAreGood, LaterIsGood, Zenon DEF Stored!RegisterIndicator, IsWidgetTable
<1>3. IsWidgetTable(Stored!RegisterSetting)
  BY WidgetIsGood, TextTablesAreGood, RealTablesAreGood, LaterIsGood, Zenon DEF Stored!RegisterSetting, IsWidgetTable
<1>4. IsGoodTable(Stored!RegisterAngles)
  BY NumberTablesAreGood, LaterIsGood, Zenon DEF Stored!RegisterAngles
<1> QED
  BY <1>1, <1>2, <1>3, <1>4

LEMMA IndicatorsAreGood ==
    /\ IsWidgetTable(Stored!RegisterArcFill)
    /\ IsWidgetTable(Stored!RegisterSegmentArc)
    /\ IsWidgetTable(Stored!RegisterDial)
    /\ IsWidgetTable(Stored!RegisterDigital)
    /\ IsWidgetTable(Stored!RegisterChart)
    /\ IsWidgetTable(Stored!RegisterBar)
    /\ IsWidgetTable(Stored!RegisterSettingIndicator)
<1>1. IsWidgetTable(Stored!RegisterArcFill)
  BY BasesAreGood, ColorTablesAreGood, LaterIsGood, Zenon DEF Stored!RegisterArcFill, IsWidgetTable
<1>2. IsWidgetTable(Stored!RegisterSegmentArc)
  BY BasesAreGood, ColorTablesAreGood, LaterIsGood, Zenon DEF Stored!RegisterSegmentArc, IsWidgetTable
<1>3. IsWidgetTable(Stored!RegisterDial)
  BY BasesAreGood, LaterIsGood, Zenon DEF Stored!RegisterDial, IsWidgetTable
<1>4. IsWidgetTable(Stored!RegisterDigital)
  BY BasesAreGood, ColorTablesAreGood, NumberTablesAreGood, LaterIsGood, Zenon DEF Stored!RegisterDigital, IsWidgetTable
<1>5. IsWidgetTable(Stored!RegisterChart)
  BY BasesAreGood, ColorTablesAreGood, NumberTablesAreGood, LaterIsGood, Zenon DEF Stored!RegisterChart, IsWidgetTable
<1>6. IsWidgetTable(Stored!RegisterBar)
  BY BasesAreGood, ColorTablesAreGood, NumberTablesAreGood, LaterIsGood, Zenon DEF Stored!RegisterBar, IsWidgetTable
<1>7. IsWidgetTable(Stored!RegisterSettingIndicator)
  BY BasesAreGood, ColorTablesAreGood, TextTablesAreGood, NumberTablesAreGood, LaterIsGood, Zenon DEF Stored!RegisterSettingIndicator, IsWidgetTable
<1> QED
  BY <1>1, <1>2, <1>3, <1>4, <1>5, <1>6, <1>7

LEMMA ControlsAreGood ==
    /\ IsWidgetTable(Stored!RegisterSlider)
    /\ IsWidgetTable(Stored!RegisterToggle)
    /\ IsWidgetTable(Stored!RegisterButton)
<1>1. IsWidgetTable(Stored!RegisterSlider)
  BY BasesAreGood, ColorTablesAreGood, LaterIsGood, Zenon DEF Stored!RegisterSlider, IsWidgetTable
<1>2. IsWidgetTable(Stored!RegisterToggle)
  BY BasesAreGood, ColorTablesAreGood, FlagTableIsGood, LaterIsGood, Zenon DEF Stored!RegisterToggle, IsWidgetTable
<1>3. IsWidgetTable(Stored!RegisterButton)
  BY BasesAreGood, ColorTablesAreGood, TextTablesAreGood, NumberTablesAreGood, LaterIsGood, Zenon DEF Stored!RegisterButton, IsWidgetTable
<1> QED
  BY <1>1, <1>2, <1>3

LEMMA PlainAreGood ==
    /\ IsGoodTable(Stored!RegisterShape)
    /\ IsGoodTable(Stored!RegisterClosedShape)
    /\ IsGoodTable(Stored!RegisterPolygon)
    /\ IsGoodTable(Stored!RegisterLine)
    /\ IsGoodTable(Stored!RegisterLabel)
    /\ IsGoodTable(Stored!RegisterImage)
    /\ IsGoodTable(Stored!RegisterSvg)
    /\ IsWidgetTable(Stored!RegisterLottie)
<1>1. IsGoodTable(Stored!RegisterShape)
  BY ColorTablesAreGood, NumberTablesAreGood, LaterIsGood, Zenon DEF Stored!RegisterShape
<1>2. IsGoodTable(Stored!RegisterClosedShape)
  BY <1>1, NumberTablesAreGood, LaterIsGood, Zenon DEF Stored!RegisterClosedShape
<1>3. IsGoodTable(Stored!RegisterPolygon)
  BY <1>2, NumberTablesAreGood, LaterIsGood, Zenon DEF Stored!RegisterPolygon
<1>4. IsGoodTable(Stored!RegisterLine)
  BY <1>1, NumberTablesAreGood, LaterIsGood, Zenon DEF Stored!RegisterLine
<1>5. IsGoodTable(Stored!RegisterLabel)
  BY BasesAreGood, ColorTablesAreGood, TextTablesAreGood, LaterIsGood, Zenon DEF Stored!RegisterLabel
<1>6. IsGoodTable(Stored!RegisterImage)
  BY TextTablesAreGood, NumberTablesAreGood, LaterIsGood, Zenon DEF Stored!RegisterImage
<1>7. IsGoodTable(Stored!RegisterSvg)
  BY TextTablesAreGood, NumberTablesAreGood, LaterIsGood, Zenon DEF Stored!RegisterSvg
<1>8. IsWidgetTable(Stored!RegisterLottie)
  BY WidgetIsGood, TextTablesAreGood, NumberTablesAreGood, LaterIsGood, Zenon DEF Stored!RegisterLottie, IsWidgetTable
<1> QED
  BY <1>1, <1>2, <1>3, <1>4, <1>5, <1>6, <1>7, <1>8

\* An icon also has its number, an animation its file.
LEMMA IconsAreGood ==
    ASSUME NEW icon
    PROVE  /\ IsWidgetTable(Stored!RegisterIconWidget(icon)) /\ "ICON_TYPE" \in DOMAIN Stored!RegisterIconWidget(icon)
           /\ IsWidgetTable(Stored!RegisterArcIcon(icon)) /\ "ICON_TYPE" \in DOMAIN Stored!RegisterArcIcon(icon)
<1> DEFINE own == Stored!Each({"ICON_TYPE", "POSITION_X", "POSITION_Y"}, Stored!IntOf(0))
<1>1. IsGoodTable(Stored!RegisterIcon(icon))
  <2>1. IsGoodTable(<<>>)
    BY DEF IsGoodTable
  <2> QED
    BY <2>1, PlainAreGood DEF Stored!RegisterIcon
<1>2. IsGoodTable(own) /\ IsWidgetTable(Stored!++(Stored!RegisterWidget, own))
  BY NumberTablesAreGood, WidgetIsGood, LaterIsGood, Zenon DEF IsWidgetTable
<1>3. IsWidgetTable(Stored!RegisterIconWidget(icon))
  BY <1>1, <1>2, LaterIsGood, Zenon DEF Stored!RegisterIconWidget, IsWidgetTable
<1>4. "ICON_TYPE" \in DOMAIN own
  BY DEF Stored!Each
<1> HIDE DEF own
<1>5. "ICON_TYPE" \in DOMAIN Stored!RegisterIconWidget(icon)
  <2>1. "ICON_TYPE" \in DOMAIN Stored!++(Stored!RegisterWidget, own)
    BY <1>4, LaterHolds, Zenon
  <2> QED
    BY <2>1, LaterHolds, Zenon DEF Stored!RegisterIconWidget, own
<1>6. IsWidgetTable(Stored!RegisterArcIcon(icon))
  BY <1>3, NumberTablesAreGood, RealTablesAreGood, LaterIsGood, Zenon DEF Stored!RegisterArcIcon, IsWidgetTable
<1>7. "ICON_TYPE" \in DOMAIN Stored!RegisterArcIcon(icon)
  <2> DEFINE inner == Stored!RegisterIconWidget(icon)
             outer == Stored!++(Stored!Each({"POSITION_ANGLE"}, Stored!RealOf(-180)),
                                Stored!Each({"EDGE_OFFSET"}, Stored!IntOf(0)))
  <2>1. Stored!RegisterArcIcon(icon) = Stored!++(outer, inner)
    BY Zenon DEF Stored!RegisterArcIcon
  <2>2. "ICON_TYPE" \in DOMAIN inner
    BY <1>5
  <2> HIDE DEF inner, outer
  <2> QED
    BY <2>1, <2>2, LaterHolds, Zenon
<1> QED
  BY <1>3, <1>5, <1>6, <1>7

LEMMA LottieHasFile == "FILE_PATH" \in DOMAIN Stored!RegisterLottie
<1> DEFINE own == Stored!Each({"FILE_PATH"}, Stored!TextOf(Stored!EmptyText))
           size == Stored!Each({"WIDTH_PX", "HEIGHT_PX"}, Stored!IntOf(0))
<1>1. "FILE_PATH" \in DOMAIN own
  BY DEF Stored!Each
<1>2. Stored!RegisterLottie = Stored!++(Stored!++(own, size), Stored!RegisterWidget)
  BY DEF Stored!RegisterLottie
<1> HIDE DEF own, size
<1>3. "FILE_PATH" \in DOMAIN Stored!++(own, size)
  BY <1>1, LaterHolds, Zenon
<1> QED
  BY <1>2, <1>3, LaterHolds, Zenon

LEMMA ClassesAreGood ==
    ASSUME NEW type \in Stored!WidgetTypes, NEW icon
    PROVE  LET table == Stored!RegisterProperties(type, icon)
           IN  /\ IsWidgetTable(table)
               /\ type \in {"icon", "arc_icon"} => "ICON_TYPE" \in DOMAIN table
               /\ type = "lottie" => "FILE_PATH" \in DOMAIN table
<1>1. CASE type \in {"icon", "arc_icon"}
  BY <1>1, IconsAreGood DEF Stored!RegisterProperties
<1>2. CASE type \in {"lottie", "arc_fill", "segment_arc", "dial", "digital", "chart", "bar", "setting"}
  BY <1>2, IndicatorsAreGood, PlainAreGood, LottieHasFile DEF Stored!RegisterProperties
<1>3. CASE type \in {"slider", "toggle", "button"}
  BY <1>3, ControlsAreGood DEF Stored!RegisterProperties
<1> QED
  BY <1>1, <1>2, <1>3 DEF Stored!WidgetTypes

\* A root also registers its box.
LEMMA RegisteredIsGood ==
    ASSUME NEW screen, NEW widget, widget.type \in Stored!WidgetTypes
    PROVE  LET table == Stored!Registered(screen, widget)
           IN  /\ IsWidgetTable(table)
               /\ widget.type \in {"icon", "arc_icon"} => "ICON_TYPE" \in DOMAIN table
               /\ widget.type = "lottie" => "FILE_PATH" \in DOMAIN table
<1> DEFINE icon == IF "ICON_TYPE" \in DOMAIN widget.properties
                   THEN Stored!IconNumber(widget.properties["ICON_TYPE"]) ELSE 0
           own == Stored!RegisterProperties(widget.type, icon)
           x == Stored!Each({"LAYOUT_X"}, Stored!IntOf(widget.box.x))
           y == Stored!Each({"LAYOUT_Y"}, Stored!IntOf(widget.box.y))
           w == Stored!Each({"LAYOUT_WIDTH"}, Stored!IntOf(widget.box.width))
           h == Stored!Each({"LAYOUT_HEIGHT"}, Stored!IntOf(widget.box.height))
           box == Stored!++(Stored!++(Stored!++(x, y), w), h)
           added == IF Stored!IsRoot(screen, widget) THEN box ELSE <<>>
<1>1. Stored!Registered(screen, widget) = Stored!++(own, added)
  BY Zenon DEF Stored!Registered
<1>2. /\ IsWidgetTable(own)
      /\ widget.type \in {"icon", "arc_icon"} => "ICON_TYPE" \in DOMAIN own
      /\ widget.type = "lottie" => "FILE_PATH" \in DOMAIN own
  BY ClassesAreGood
<1>3. IsGoodTable(x) /\ IsGoodTable(y) /\ IsGoodTable(w) /\ IsGoodTable(h)
  BY NumbersAreGood DEF Stored!NumberTypes, Stored!LayoutTypes
<1> HIDE DEF own, x, y, w, h
<1>4. IsGoodTable(added)
  <2>1. IsGoodTable(box)
    BY <1>3, LaterIsGood, Zenon
  <2>2. IsGoodTable(<<>>)
    BY DEF IsGoodTable
  <2> HIDE DEF box
  <2> QED
    BY <2>1, <2>2
<1> HIDE DEF added
<1>5. IsWidgetTable(Stored!++(own, added))
  BY <1>2, <1>4, LaterIsGood, Zenon DEF IsWidgetTable
<1>6. \A type \in DOMAIN own : type \in DOMAIN Stored!++(own, added)
  BY LaterHolds, Zenon
<1> DEFINE table == Stored!Registered(screen, widget)
<1>7. IsWidgetTable(table) /\ \A type \in DOMAIN own : type \in DOMAIN table
  BY <1>1, <1>5, <1>6, Zenon
<1> HIDE DEF table
<1> QED
  BY <1>2, <1>7 DEF table

-----------------------------------------------------------------------------
\* What the store takes can be read.
LEMMA RulesMakeReadable ==
    ASSUME NEW type, NEW value, Stored!KeepsRules(type, value)
    PROVE  Stored!IsReadableValue(type, value)
<1>1. type \in Stored!AnchorTypes => value.kind = "int"
  BY DEF Stored!KeepsRules, Stored!IsValidAnchorValue, Stored!IsInt
<1>2. type \in {"ANIMATION_TYPE", "ANIMATION_DURATION_MS"} => value.kind = "int"
  BY DEF Stored!KeepsRules, Stored!AnimationTypes, Stored!IsValidAnimationValue, Stored!IsInt
<1>3. type = "ANIMATION_DURATION_MS" => value.number > 0
  <2>1. ASSUME NEW n \in 2 .. Stored!IntMax PROVE n > 0
    OBVIOUS
  <2> QED
    BY <2>1 DEF Stored!KeepsRules, Stored!AnimationTypes, Stored!IsValidAnimationValue, Stored!IsInt
<1>4. type = "OPACITY" => value.kind = "int"
  BY DEF Stored!KeepsRules, Stored!ManagementTypes, Stored!ColorTypes, Stored!IsValidAppearanceValue, Stored!IsInt
<1>5. type \in {"IS_ACTIVE", "IS_VISIBLE"} => value.kind = "bool"
  BY DEF Stored!KeepsRules, Stored!ManagementTypes, Stored!ColorTypes, Stored!IsValidAppearanceValue
<1>6. type = "IS_ANIMATION_ACTIVE" => value.kind = "bool"
  BY DEF Stored!KeepsRules, Stored!AnimationTypes, Stored!IsValidAnimationValue
<1>7. type \in Stored!ColorTypes => value # Stored!TextOf(2)
  <2> SUFFICES ASSUME type \in Stored!ColorTypes PROVE value # Stored!TextOf(2)
    OBVIOUS
  <2>1. Stored!Parses(value)
    BY DEF Stored!KeepsRules, Stored!IsValidAppearanceValue, Stored!ColorTypes
  <2> QED
    BY <2>1 DEF Stored!Parses, Stored!TextOf, Stored!Value, Stored!EmptyText, Stored!ColorText
<1> QED
  BY <1>1, <1>2, <1>3, <1>4, <1>5, <1>6, <1>7 DEF Stored!IsReadableValue

LEMMA SetKeepsReadable ==
    ASSUME NEW store, Stored!IsReadableStore(store), NEW type, NEW value
    PROVE  LET after == Stored!Set(store, type, value)
           IN  /\ DOMAIN after = DOMAIN store /\ Stored!IsReadableStore(after)
               /\ \A other \in DOMAIN store \ {type} : after[other] = store[other]
BY RulesMakeReadable DEF Stored!Set, Stored!Accepts, Stored!IsReadableStore

\* A seeded store has what is registered, and of the record what the rules let in.
LEMMA SeededHolds ==
    ASSUME NEW registered, IsGoodTable(registered), NEW record
    PROVE  LET store == Stored!Seeded(registered, record)
           IN  /\ DOMAIN store = DOMAIN registered /\ Stored!IsReadableStore(store)
               /\ \A type \in DOMAIN registered :
                     \/ store[type] = registered[type]
                     \/ type \in DOMAIN record /\ store[type] = record[type]
               /\ \A type \in (DOMAIN registered \intersect DOMAIN record) \ Stored!LayoutTypes :
                     ~Stored!IsStructuralProperty(type) /\ Stored!KeepsRules(type, record[type])
                         => store[type] = record[type]
<1> DEFINE store == Stored!Seeded(registered, record)
<1>1. DOMAIN store = DOMAIN registered
  BY DEF Stored!Seeded
<1>2. ASSUME NEW type \in DOMAIN registered
      PROVE  /\ \/ store[type] = registered[type]
                \/ /\ type \in DOMAIN record /\ Stored!KeepsRules(type, record[type])
                   /\ store[type] = record[type]
             /\ (/\ type \in DOMAIN record \ Stored!LayoutTypes
                 /\ ~Stored!IsStructuralProperty(type) /\ Stored!KeepsRules(type, record[type]))
                    => store[type] = record[type]
  <2>1. store[type] = IF type \in DOMAIN record \ Stored!LayoutTypes
                      THEN Stored!Set(registered, type, record[type])[type] ELSE registered[type]
    BY DEF Stored!Seeded
  <2>2. Stored!Set(registered, type, record[type])[type] =
            IF Stored!Accepts(registered, type, record[type]) THEN record[type] ELSE registered[type]
    BY DEF Stored!Set
  <2> QED
    BY <2>1, <2>2 DEF Stored!Accepts
<1> HIDE DEF store
<1>3. Stored!IsReadableStore(store)
  BY <1>1, <1>2, RulesMakeReadable DEF Stored!IsReadableStore, IsGoodTable, IsGoodValue
<1> QED
  BY <1>1, <1>2, <1>3 DEF store

-----------------------------------------------------------------------------
\* A live widget: it can be drawn and read, and a needle is its dial's to turn.
IsLiveWidget(widget, shown) ==
    /\ {"store", "is_ready"} \subseteq DOMAIN shown
    /\ Stored!IsReadableStore(shown.store)
    /\ shown.is_ready \/ widget.type = "chart"
    /\ "ANIMATION_TYPE" \in DOMAIN shown.store
    /\ Stored!CanSetRotation(widget) => shown.store["ANIMATION_TYPE"] # Stored!IntOf(2)

LEMMA NewWidgetIsLive ==
    ASSUME NEW screen, Stored!ValidateScreen(screen), NEW widget \in Stored!Widgets(screen)
    PROVE  IsLiveWidget(widget, Stored!NewWidget(screen, widget))
<1> DEFINE registered == Stored!Registered(screen, widget)
           store == Stored!Seeded(registered, widget.properties)
<1>1. widget.type \in Stored!WidgetTypes /\ Stored!ValidateChildren(screen, widget)
  BY DEF Stored!ValidateScreen, Stored!ValidateWidgetType
<1>2. /\ IsWidgetTable(registered)
      /\ widget.type \in {"icon", "arc_icon"} => "ICON_TYPE" \in DOMAIN registered
      /\ widget.type = "lottie" => "FILE_PATH" \in DOMAIN registered
  BY <1>1, RegisteredIsGood
<1>3. Stored!NewWidget(screen, widget) =
          [store |-> store, is_ready |-> Stored!IsReadyToRender(widget, store)]
  BY Zenon DEF Stored!NewWidget
<1> HIDE DEF registered
<1>4. /\ DOMAIN store = DOMAIN registered /\ Stored!IsReadableStore(store)
      /\ \A type \in DOMAIN registered :
            \/ store[type] = registered[type]
            \/ type \in DOMAIN widget.properties /\ store[type] = widget.properties[type]
      /\ \A type \in (DOMAIN registered \intersect DOMAIN widget.properties) \ Stored!LayoutTypes :
            ~Stored!IsStructuralProperty(type) /\ Stored!KeepsRules(type, widget.properties[type])
                => store[type] = widget.properties[type]
  BY <1>2, SeededHolds DEF IsWidgetTable
<1> HIDE DEF store
<1>5. \A type \in {"ICON_TYPE", "FILE_PATH"} :
         type \in DOMAIN registered /\ type \in DOMAIN widget.properties => store[type] = widget.properties[type]
  <2> SUFFICES ASSUME NEW type \in {"ICON_TYPE", "FILE_PATH"}, NEW value
      PROVE ~Stored!IsStructuralProperty(type) /\ Stored!KeepsRules(type, value) /\ type \notin Stored!LayoutTypes
    BY <1>4
  <2> QED
    BY DEF Stored!IsStructuralProperty, Stored!KeepsRules, Stored!ManagementTypes, Stored!ColorTypes,
           Stored!AnimationTypes, Stored!AnchorTypes, Stored!LayoutTypes
<1>6. widget.type # "chart" => Stored!IsReadyToRender(widget, store)
  <2>1. widget.type \in {"icon", "arc_icon"} => Stored!RendersIcon(store)
    BY <1>1, <1>2, <1>5 DEF Stored!ValidateChildren, Stored!HasIcon, Stored!RendersIcon
  <2>2. widget.type = "lottie" => Stored!RendersLottie(store)
    BY <1>1, <1>2, <1>5 DEF Stored!ValidateChildren, Stored!HasFile, Stored!RendersLottie
  <2>3. widget.type = "dial" => Stored!RendersDial(widget)
    BY <1>1 DEF Stored!ValidateChildren, Stored!ValidateNeedle, Stored!RendersDial
  <2> QED
    BY <2>1, <2>2, <2>3 DEF Stored!IsReadyToRender
<1>7. ASSUME Stored!CanSetRotation(widget) PROVE store["ANIMATION_TYPE"] # Stored!IntOf(2)
  <2>1. CASE store["ANIMATION_TYPE"] = registered["ANIMATION_TYPE"]
    <3>1. registered["ANIMATION_TYPE"] = Stored!IntOf(0)
      BY <1>2 DEF IsWidgetTable, IsGoodTable, IsGoodValue
    <3> QED
      BY <2>1, <3>1 DEF Stored!IntOf, Stored!Value
  <2>2. CASE /\ "ANIMATION_TYPE" \in DOMAIN widget.properties
             /\ store["ANIMATION_TYPE"] = widget.properties["ANIMATION_TYPE"]
    BY <1>7, <2>2 DEF Stored!CanSetRotation, Stored!IntOf, Stored!Value
  <2> QED
    BY <1>2, <1>4, <2>1, <2>2 DEF IsWidgetTable
<1> DEFINE shown == Stored!NewWidget(screen, widget)
<1>8. {"store", "is_ready"} \subseteq DOMAIN shown /\ shown.store = store
      /\ (widget.type # "chart" => shown.is_ready)
  BY <1>3, <1>6
<1> HIDE DEF shown
<1> QED
  BY <1>2, <1>4, <1>7, <1>8 DEF IsLiveWidget, IsWidgetTable, shown

-----------------------------------------------------------------------------
\* What is in a list whose ids are told apart is found by its id.
LEMMA FindsNoOther ==
    ASSUME NEW list, Stored!IsList(list), Stored!Cardinality(Stored!Composition!Ids(list)) = Len(list),
           NEW record \in Stored!ToSet(list)
    PROVE  /\ record.id \in Stored!Composition!Ids(list)
           /\ Stored!Composition!Find(list, record.id) = record
<1>1. record.id \in Stored!Composition!Ids(list)
  BY DEF Stored!Composition!Ids, Stored!ToSet
<1> QED
  BY <1>1, FindsIt, IdsAreToldApart

LEMMA ScreensAreFound ==
    ASSUME NEW conf, IsReadConfiguration(conf), Stored!Validate(conf), NEW screen \in Stored!ToSet(conf.screens)
    PROVE  /\ Stored!Composition!Find(conf.screens, screen.id) = screen
           /\ IsReadScreen(screen) /\ Stored!ValidateScreen(screen) /\ screen.type \in Stored!ScreenTypes
BY FindsNoOther
DEF IsReadConfiguration, Stored!Validate, Stored!ValidateScreenId, Stored!ValidateScreens, Stored!ValidateScreenType

LEMMA WidgetsAreFound ==
    ASSUME NEW screen, IsReadScreen(screen), Stored!ValidateScreen(screen), NEW widget \in Stored!Widgets(screen)
    PROVE  /\ widget.id \in Stored!Composition!Ids(screen.widgets)
           /\ Stored!Composition!Find(screen.widgets, widget.id) = widget
BY FindsNoOther DEF IsReadScreen, Stored!ValidateScreen, Stored!ValidateComposition, Stored!Widgets

\* A valid screen that fits the display is built.
LEMMA ValidScreensAreBuilt ==
    ASSUME NEW screen, Stored!ValidateScreen(screen), screen.type \in Stored!ScreenTypes, Stored!HasRoom(screen)
    PROVE  Stored!CanCreateScreen(screen)
<1> SUFFICES ASSUME NEW w \in Stored!Widgets(screen)
    PROVE /\ Stored!CreatesWidget(w)
          /\ Stored!IsRoot(screen, w) => w.box.width # 0 /\ w.box.height # 0
          /\ Stored!ToSet(w.kids) \subseteq Stored!Composition!Ids(screen.widgets)
          /\ Stored!ResolvesBindings(w)
  BY DEF Stored!CanCreateScreen, Stored!CreatesScreen
<1>1. Stored!CreatesWidget(w)
  BY DEF Stored!ValidateScreen, Stored!ValidateWidgetType, Stored!CreatesWidget
<1>2. Stored!IsRoot(screen, w) => w.box.width # 0 /\ w.box.height # 0
  BY DEF Stored!ValidateScreen, Stored!ValidateBox
<1>3. Stored!ToSet(w.kids) \subseteq Stored!Composition!Ids(screen.widgets)
  <2>1. Stored!Composition!IsLinked(screen.widgets)
    BY DEF Stored!ValidateScreen, Stored!ValidateComposition
  <2>2. w \in Stored!Composition!ToSet(screen.widgets)
    BY DEF Stored!Widgets, Stored!ToSet, Stored!Composition!ToSet
  <2>3. Stored!Composition!ToSet(w.kids) \subseteq Stored!Composition!Ids(screen.widgets)
    BY <2>1, <2>2 DEF Stored!Composition!IsLinked
  <2> QED
    BY <2>3 DEF Stored!ToSet, Stored!Composition!ToSet
<1>4. Stored!ResolvesBindings(w)
  BY DEF Stored!ValidateScreen, Stored!ValidateWidgetBinding, Stored!ResolvesBindings
<1> QED
  BY <1>1, <1>2, <1>3, <1>4

IsLiveScreen(screen, shown) ==
    /\ DOMAIN shown = Stored!Composition!Ids(screen.widgets)
    /\ \A w \in Stored!Widgets(screen) : IsLiveWidget(w, shown[w.id])

\* The screens of a configuration, built and changed by events.
IsLive(shown) ==
    /\ IsReadConfiguration(shown.conf) /\ Stored!Validate(shown.conf)
    /\ DOMAIN shown.screens = {s.id : s \in Stored!BuiltScreens(shown.conf)}
    /\ \A screen \in Stored!BuiltScreens(shown.conf) : IsLiveScreen(screen, shown.screens[screen.id])
    /\ shown.active = Stored!StartGroup(shown.conf, {s.group : s \in Stored!BuiltScreens(shown.conf)})

LEMMA ConfiguredIsLive ==
    ASSUME NEW conf, IsReadConfiguration(conf), Stored!Validate(conf)
    PROVE  IsLive(Stored!Configured(conf))
<1> DEFINE shown == Stored!Configured(conf)
           built == Stored!BuiltScreens(conf)
           New(screen) == [w \in Stored!Composition!Ids(screen.widgets) |->
                              Stored!NewWidget(screen, Stored!Composition!Find(screen.widgets, w))]
<1>1. /\ shown.conf = conf
      /\ shown.screens = [id \in {s.id : s \in built} |-> New(Stored!Composition!Find(conf.screens, id))]
      /\ shown.active = Stored!StartGroup(conf, {s.group : s \in built})
  BY DEF Stored!Configured
<1> HIDE DEF shown
<1>2. ASSUME NEW screen \in built PROVE IsLiveScreen(screen, shown.screens[screen.id])
  <2>1. screen \in Stored!ToSet(conf.screens)
    BY DEF Stored!BuiltScreens
  <2>2. IsReadScreen(screen) /\ Stored!ValidateScreen(screen) /\ Stored!Composition!Find(conf.screens, screen.id) = screen
    BY <2>1, ScreensAreFound
  <2>3. shown.screens[screen.id] = New(screen)
    BY <1>1, <2>2
  <2>4. ASSUME NEW w \in Stored!Widgets(screen) PROVE IsLiveWidget(w, New(screen)[w.id])
    <3>1. New(screen)[w.id] = Stored!NewWidget(screen, w)
      BY <2>2, WidgetsAreFound
    <3> QED
      BY <2>2, <3>1, NewWidgetIsLive
  <2>5. DOMAIN New(screen) = Stored!Composition!Ids(screen.widgets)
    OBVIOUS
  <2> HIDE DEF New
  <2> QED
    BY <2>3, <2>4, <2>5 DEF IsLiveScreen
<1>3. DOMAIN shown.screens = {s.id : s \in built}
  BY <1>1
<1> HIDE DEF built, New
<1> QED
  BY <1>1, <1>2, <1>3 DEF IsLive, built, shown

\* An event sets no property that nothing lets in.
LEMMA EventKeepsWidget ==
    ASSUME NEW screen, NEW widget, NEW shown, IsLiveWidget(widget, shown),
           NEW target \in Stored!BoundTargets(screen, widget), NEW value
    PROVE  IsLiveWidget(widget, [shown EXCEPT !.store = Stored!Set(shown.store, target, value)])
<1> DEFINE store == Stored!Set(shown.store, target, value)
           after == [shown EXCEPT !.store = store]
<1>1. /\ DOMAIN store = DOMAIN shown.store /\ Stored!IsReadableStore(store)
      /\ \A other \in DOMAIN shown.store \ {target} : store[other] = shown.store[other]
  BY SetKeepsReadable DEF IsLiveWidget
<1>2. target = "ANIMATION_TYPE" => ~Stored!CanSetRotation(widget)
  BY DEF Stored!BoundTargets, Stored!CanSetRotation, Stored!HasRotationBinding
<1> HIDE DEF store
<1>3. DOMAIN after = DOMAIN shown /\ after.store = store /\ after.is_ready = shown.is_ready
  BY DEF IsLiveWidget
<1> HIDE DEF after
<1> QED
  BY <1>1, <1>2, <1>3 DEF IsLiveWidget, after, store

LEMMA EventKeepsLive ==
    ASSUME NEW shown, IsLive(shown), NEW screen \in Stored!BuiltScreens(shown.conf), NEW widget \in Stored!Widgets(screen),
           NEW target \in Stored!BoundTargets(screen, widget), NEW data,
           NEW after \in Stored!AfterEvent(shown, screen, widget, target, data)
    PROVE  IsLive(after) /\ after.conf = shown.conf
<1> DEFINE old == shown.screens[screen.id][widget.id].store
<1>1. PICK value :
         after = [conf |-> shown.conf, active |-> shown.active,
                  screens |-> Stored!WithStore(shown, screen, widget, Stored!Set(old, target, value))]
  BY DEF Stored!AfterEvent, Stored!StoredEvent
<1> DEFINE store == Stored!Set(old, target, value)
           new == [shown.screens[screen.id][widget.id] EXCEPT !.store = store]
<1>2. screen \in Stored!ToSet(shown.conf.screens) /\ screen.id \in DOMAIN shown.screens
  BY DEF IsLive, Stored!BuiltScreens
<1>3. IsReadScreen(screen) /\ Stored!ValidateScreen(screen)
  BY <1>2, ScreensAreFound DEF IsLive
<1>4. IsLiveScreen(screen, shown.screens[screen.id])
  BY DEF IsLive
<1>5. widget.id \in DOMAIN shown.screens[screen.id]
  BY <1>3, <1>4, WidgetsAreFound DEF IsLiveScreen
<1>6. /\ after.conf = shown.conf /\ after.active = shown.active
      /\ after.screens = [shown.screens EXCEPT ![screen.id] = [shown.screens[screen.id] EXCEPT ![widget.id] = new]]
  BY <1>1, <1>2, <1>5 DEF Stored!WithStore
<1>7. IsLiveWidget(widget, new)
  BY <1>4, EventKeepsWidget DEF IsLiveScreen
<1> HIDE DEF new
<1>8. DOMAIN after.screens = DOMAIN shown.screens
  BY <1>6
<1>9. after.screens[screen.id] = [shown.screens[screen.id] EXCEPT ![widget.id] = new]
  BY <1>2, <1>6
<1>10. IsLiveScreen(screen, after.screens[screen.id])
  <2>1. ASSUME NEW w \in Stored!Widgets(screen) PROVE IsLiveWidget(w, after.screens[screen.id][w.id])
    <3>1. CASE w.id = widget.id
      <4>1. w = widget
        BY <1>3, <3>1, WidgetsAreFound
      <4> QED
        BY <1>5, <1>7, <1>9, <4>1
    <3>2. CASE w.id # widget.id
      <4>1. w.id \in DOMAIN shown.screens[screen.id]
        BY <1>3, <1>4, WidgetsAreFound DEF IsLiveScreen
      <4>2. after.screens[screen.id][w.id] = shown.screens[screen.id][w.id]
        BY <1>9, <3>2, <4>1
      <4> QED
        BY <1>4, <4>2 DEF IsLiveScreen
    <3> QED
      BY <3>1, <3>2
  <2> QED
    BY <1>4, <1>9, <2>1 DEF IsLiveScreen
<1>11. ASSUME NEW s \in Stored!BuiltScreens(shown.conf) PROVE IsLiveScreen(s, after.screens[s.id])
  <2>1. CASE s.id = screen.id
    <3>1. s \in Stored!ToSet(shown.conf.screens)
      BY DEF Stored!BuiltScreens
    <3>2. s = screen
      BY <1>2, <2>1, <3>1, ScreensAreFound DEF IsLive
    <3> QED
      BY <1>10, <3>2
  <2>2. CASE s.id # screen.id
    <3>1. s.id \in DOMAIN shown.screens
      BY DEF IsLive
    <3>2. after.screens[s.id] = shown.screens[s.id]
      BY <1>6, <2>2, <3>1
    <3> QED
      BY <3>2 DEF IsLive
  <2> QED
    BY <2>1, <2>2
<1> QED
  BY <1>6, <1>8, <1>11 DEF IsLive

-----------------------------------------------------------------------------
\* The group that is started with is one there is.
LEMMA StartsThere ==
    ASSUME NEW conf, NEW numbers, numbers \subseteq Nat, numbers # {}
    PROVE  Stored!StartGroup(conf, numbers) \in numbers
BY LeastExists DEF Stored!StartGroup

\* A needle is a widget that its dial alone may turn.
LEMMA NeedlesAreThere ==
    ASSUME NEW screen, IsReadScreen(screen), Stored!ValidateScreen(screen),
           NEW dial \in Stored!Widgets(screen), dial.type = "dial"
    PROVE  \E needle \in Stored!Widgets(screen) : needle.id = dial.kids[1] /\ Stored!CanSetRotation(needle)
<1> DEFINE needle == Stored!Composition!Find(screen.widgets, dial.kids[1])
<1>1. Stored!ValidateNeedle(screen, dial)
  BY DEF Stored!ValidateScreen, Stored!ValidateChildren
<1>2. dial.kids[1] \in Stored!Composition!Ids(screen.widgets)
  <2>1. Stored!IsList(dial.kids)
    BY DEF IsReadScreen, IsReadWidget
  <2>2. dial.kids[1] \in Stored!Composition!ToSet(dial.kids)
    BY <1>1, <2>1, ListIsNumbered DEF Stored!ValidateNeedle, Stored!ToSet, Stored!Composition!ToSet
  <2>3. Stored!Composition!IsLinked(screen.widgets) /\ dial \in Stored!Composition!ToSet(screen.widgets)
    BY DEF Stored!ValidateScreen, Stored!ValidateComposition, Stored!Widgets, Stored!ToSet, Stored!Composition!ToSet
  <2> QED
    BY <2>2, <2>3 DEF Stored!Composition!IsLinked
<1>3. needle \in Stored!Widgets(screen) /\ needle.id = dial.kids[1]
  BY <1>2, FindsIt DEF IsReadScreen, Stored!Widgets
<1>4. Stored!CanSetRotation(needle)
  BY <1>1 DEF Stored!ValidateNeedle
<1> QED
  BY <1>3, <1>4

-----------------------------------------------------------------------------
\* What the unit was given it has read, checked and built.
BuiltInv ==
    unit # NoUnit =>
        /\ unit \in Units
        /\ Stored!IsDocument(file)
        /\ ~is_rebuild_queued => live.conf = held
        /\ IsLive(live)

LEMMA BuiltInitially == ConfigurationsInit => BuiltInv
<1> SUFFICES ASSUME ConfigurationsInit, unit # NoUnit
    PROVE unit \in Units /\ Stored!IsDocument(file) /\ live.conf = held /\ IsLive(live)
  BY DEF BuiltInv
<1>1. Stored!Init
  BY DEF ConfigurationsInit, NothingStored
<1>2. unit \in Units /\ Stored!IsDocument(file)
  BY <1>1, DocumentsAssumption, DefaultIsRead DEF Stored!Init
<1>3. held = Stored!Loaded(file) /\ live = Stored!Configured(held)
  BY <1>1 DEF Stored!Init
<1> QED
  BY <1>2, <1>3, LoadedIsRead, LoadedIsValid, ConfiguredIsLive, ConfiguredIsOf

LEMMA BuiltNext == HeldIsLoaded /\ BuiltInv /\ [ConfigurationsNext]_allVars => BuiltInv'
<1> SUFFICES ASSUME HeldIsLoaded, BuiltInv, [ConfigurationsNext]_allVars PROVE BuiltInv'
  OBVIOUS
<1>1. CASE UNCHANGED storedVars
  BY <1>1 DEF storedVars, BuiltInv
<1>2. CASE StoreScene
  <2>1. /\ unit # NoUnit /\ unit \in Units /\ Stored!IsDocument(file) /\ held = Stored!Loaded(file)
        /\ ~is_rebuild_queued => live.conf = held
        /\ IsLive(live)
    BY <1>2 DEF StoreScene, BuiltInv, HeldIsLoaded
  <2>2. ASSUME NEW document, Stored!IsDocument(document)
        PROVE  LET shown == Stored!Configured(Stored!Loaded(document))
               IN IsLive(shown) /\ shown.conf = Stored!Loaded(document)
    BY <2>2, LoadedIsRead, LoadedIsValid, ConfiguredIsLive, ConfiguredIsOf
  <2>3. CASE Stored!Restart
    BY <2>1, <2>2, <2>3 DEF Stored!Restart, BuiltInv
  <2>4. ASSUME NEW document \in unit.documents, Stored!Upload(document) PROVE BuiltInv'
    BY <2>1, <2>4, DocumentsAssumption DEF Stored!Upload, BuiltInv
  <2>5. CASE Stored!Rebuild
    BY <2>1, <2>2, <2>5 DEF Stored!Rebuild, BuiltInv
  <2>6. ASSUME NEW data \in unit.data, Stored!Event(data) PROVE BuiltInv'
    <3>1. PICK id \in DOMAIN live.screens :
            LET screen == Stored!Composition!Find(live.conf.screens, id)
            IN \E widget \in Stored!Widgets(screen) :
                  \E target \in Stored!BoundTargets(screen, widget) :
                      live' \in Stored!AfterEvent(live, screen, widget, target, data)
      BY <2>6 DEF Stored!Event
    <3>2. Stored!Composition!Find(live.conf.screens, id) \in Stored!BuiltScreens(live.conf)
      BY <2>1, ScreensAreFound DEF IsLive, Stored!BuiltScreens
    <3>3. IsLive(live') /\ live'.conf = live.conf
      BY <2>1, <3>1, <3>2, EventKeepsLive
    <3> QED
      BY <2>1, <2>6, <3>3 DEF Stored!Event, BuiltInv
  <2>7. CASE Stored!SensorsChange
    BY <2>1, <2>7 DEF Stored!SensorsChange, BuiltInv
  <2>8. ASSUME NEW document \in unit.documents, Stored!Refuse(document) PROVE BuiltInv'
    BY <2>1, <2>8 DEF Stored!Refuse, BuiltInv
  <2> QED
    BY <1>2, <2>3, <2>4, <2>5, <2>6, <2>7, <2>8 DEF StoreScene, Stored!Next
<1> QED
  BY <1>1, <1>2 DEF ConfigurationsNext, PatchScene, EditScene, allVars, storedVars

\* What is live and of what is held is what was accepted.
LEMMA LiveIsBuilt ==
    ASSUME HeldIsLoaded, BuiltInv, unit # NoUnit
    PROVE  Stored!AcceptedIsBuilt
<1> DEFINE conf == live.conf
           built == Stored!BuiltScreens(conf)
<1>1. /\ Stored!IsDocument(file) /\ held = Stored!Loaded(file)
      /\ ~is_rebuild_queued => conf = held
      /\ IsLive(live) /\ IsReadConfiguration(conf) /\ Stored!Validate(conf)
  BY DEF BuiltInv, HeldIsLoaded, IsLive
<1>2. DOMAIN live.screens = {s.id : s \in built} /\ \A screen \in built : IsLiveScreen(screen, live.screens[screen.id])
  BY <1>1 DEF IsLive
<1>3. \A screen \in built :
         /\ Stored!Composition!Find(conf.screens, screen.id) = screen
         /\ IsReadScreen(screen) /\ Stored!ValidateScreen(screen)
  BY <1>1, ScreensAreFound DEF Stored!BuiltScreens
<1>4. ASSUME NEW screen \in Stored!ToSet(conf.screens), ~screen.overlay, Stored!HasRoom(screen)
      PROVE  screen.id \in DOMAIN live.screens
  BY <1>1, <1>2, <1>4, ScreensAreFound, ValidScreensAreBuilt DEF Stored!BuiltScreens
<1>5. ASSUME NEW screen \in built
      PROVE  /\ Stored!IsComplete(screen) /\ Stored!NeedlesAreFree(screen)
             /\ \A w \in Stored!Widgets(screen) : Stored!IsReadableStore(live.screens[screen.id][w.id].store)
  <2>1. IsLiveScreen(screen, live.screens[screen.id])
    BY <1>2
  <2>2. Stored!IsComplete(screen)
    BY <2>1 DEF IsLiveScreen, IsLiveWidget, Stored!IsComplete
  <2>3. Stored!NeedlesAreFree(screen)
    <3> SUFFICES ASSUME NEW dial \in Stored!Widgets(screen), dial.type = "dial"
        PROVE live.screens[screen.id][dial.kids[1]].store["ANIMATION_TYPE"] # Stored!IntOf(2)
      BY DEF Stored!NeedlesAreFree
    <3>1. PICK needle \in Stored!Widgets(screen) : needle.id = dial.kids[1] /\ Stored!CanSetRotation(needle)
      BY <1>3, NeedlesAreThere
    <3> QED
      BY <2>1, <3>1 DEF IsLiveScreen, IsLiveWidget
  <2> QED
    BY <2>1, <2>2, <2>3 DEF IsLiveScreen, IsLiveWidget
<1>6. ASSUME NEW id \in DOMAIN live.screens
      PROVE  LET screen == Stored!Composition!Find(conf.screens, id)
             IN  /\ Stored!IsComplete(screen) /\ Stored!NeedlesAreFree(screen)
                 /\ \A w \in Stored!Widgets(screen) : Stored!IsReadableStore(live.screens[id][w.id].store)
  <2>1. PICK screen \in built : screen.id = id
    BY <1>2
  <2>2. Stored!Composition!Find(conf.screens, id) = screen
    BY <1>3, <2>1
  <2> QED
    BY <1>5, <2>1, <2>2
<1>7. ASSUME DOMAIN live.screens # {}
      PROVE  \E id \in DOMAIN live.screens : Stored!Composition!Find(conf.screens, id).group = live.active
  <2> DEFINE numbers == {s.group : s \in built}
  <2>1. numbers # {} /\ numbers \subseteq Nat
    BY <1>2, <1>3, <1>7 DEF IsReadScreen
  <2>2. live.active = Stored!StartGroup(conf, numbers)
    BY <1>1 DEF IsLive
  <2> HIDE DEF numbers
  <2>3. live.active \in numbers
    <3>1. Stored!StartGroup(conf, numbers) \in numbers
      BY <2>1, StartsThere
    <3> QED
      BY <2>2, <3>1
  <2> QED
    BY <1>2, <1>3, <2>3 DEF numbers
<1>8. Stored!EncodesToItself(held)
  BY <1>1, LoadedIsRead, LoadedIsValid, ReadAgain
<1> QED
  BY <1>1, <1>4, <1>6, <1>7, <1>8 DEF Stored!AcceptedIsBuilt

\* What the manager took is what the unit shows, for any documents, sensors,
\* display and channels: every screen that fits is there, whole and drawn, in a
\* group of it; no record or event makes a value one that a widget cannot read,
\* or turns a needle; and what is held reads back as itself
\* (ui_configuration_validator.cpp, ui_configuration_cbor_parser.cpp,
\* widget_property_store.cpp, ui_configuration_manager.cpp).
THEOREM AcceptedIsBuiltHolds == ConfigurationsSpec => []AcceptedIsBuilt
<1>1. ConfigurationsInit => HeldIsLoaded /\ BuiltInv
  BY HeldIsLoadedInitially, BuiltInitially
<1>2. HeldIsLoaded /\ BuiltInv /\ [ConfigurationsNext]_allVars => (HeldIsLoaded /\ BuiltInv)'
  BY HeldIsLoadedNext, BuiltNext
<1>3. HeldIsLoaded /\ BuiltInv => AcceptedIsBuilt
  BY LiveIsBuilt DEF AcceptedIsBuilt
<1> QED
  BY <1>1, <1>2, <1>3, PTL DEF ConfigurationsSpec

-----------------------------------------------------------------------------
(* Widgets that are edited in place. *)

\* A property that an empty set has, and a set if every set of one less has it, is of all finite sets.
LEMMA FinitelyMany ==
    ASSUME NEW S, IsFiniteSet(S), NEW Q, {} \in Q,
           \A s \in SUBSET S : (s # {} /\ \A x \in s : s \ {x} \in Q) => s \in Q
    PROVE  SUBSET S \subseteq Q
<1> DEFINE T == {n \in Nat : \A s \in SUBSET S : Cardinality(s) = n => s \in Q}
<1>0. \A s \in SUBSET S : IsFiniteSet(s) /\ Cardinality(s) \in Nat
  BY FS_Subset, FS_CardinalityType
<1>1. 0 \in T
  <2>1. \A s \in SUBSET S : Cardinality(s) = 0 => s = {}
    BY <1>0, FS_EmptySet
  <2> QED
    BY <2>1
<1>2. ASSUME NEW n \in T PROVE n + 1 \in T
  <2> SUFFICES ASSUME NEW s \in SUBSET S, Cardinality(s) = n + 1 PROVE s \in Q
    OBVIOUS
  <2>1. s # {}
    <3>1. n \in Nat /\ Cardinality({}) = 0
      BY FS_EmptySet
    <3> QED
      BY <3>1
  <2>2. ASSUME NEW x \in s PROVE s \ {x} \in Q
    <3>1. Cardinality(s \ {x}) = n
      BY <1>0, FS_RemoveElement
    <3> QED
      BY <3>1
  <2> QED
    BY <2>1, <2>2
<1> HIDE DEF T
<1>3. T = Nat
  BY <1>1, <1>2, AllNumbers DEF T
<1> QED
  BY <1>0, <1>3 DEF T

-----------------------------------------------------------------------------
\* The folds of the sets of types, of which one is chosen at a time.
FirstOf(s) == CHOOSE x \in s : TRUE

AppliedTo(fold, widget, previous, s) ==
    IF s = {} THEN widget
    ELSE Edits!ApplyEditorProperty(fold[s \ {FirstOf(s)}], previous, FirstOf(s))

IsFoldOf(fold, widget, previous, types) ==
    fold = [s \in SUBSET types |-> AppliedTo(fold, widget, previous, s)]

LEMMA FirstIsThere ==
    ASSUME NEW s, s # {}
    PROVE  FirstOf(s) \in s
BY DEF FirstOf

\* Of the sets of no more than n types.
IsFoldUpTo(n, fold, widget, previous, types) ==
    /\ fold = [s \in SUBSET types |-> fold[s]]
    /\ \A s \in SUBSET types : Cardinality(s) <= n => fold[s] = AppliedTo(fold, widget, previous, s)

LEMMA FoldsUpTo ==
    ASSUME NEW widget, NEW previous, NEW types, IsFiniteSet(types), NEW n \in Nat
    PROVE  \E fold : IsFoldUpTo(n, fold, widget, previous, types)
<1> DEFINE T == {m \in Nat : \E fold : IsFoldUpTo(m, fold, widget, previous, types)}
<1>0. \A s \in SUBSET types : IsFiniteSet(s) /\ Cardinality(s) \in Nat
  BY FS_Subset, FS_CardinalityType
<1>1. 0 \in T
  <2> DEFINE fold == [s \in SUBSET types |-> widget]
  <2>1. \A s \in SUBSET types : Cardinality(s) <= 0 => s = {}
    BY <1>0, FS_EmptySet
  <2>2. \A s \in SUBSET types : Cardinality(s) <= 0 => fold[s] = AppliedTo(fold, widget, previous, s)
    BY <2>1, Zenon DEF AppliedTo
  <2>3. fold = [s \in SUBSET types |-> fold[s]]
    BY Zenon
  <2>4. IsFoldUpTo(0, fold, widget, previous, types)
    BY <2>2, <2>3, Zenon DEF IsFoldUpTo
  <2> HIDE DEF fold
  <2> QED
    BY <2>4
<1>2. ASSUME NEW m \in T PROVE m + 1 \in T
  <2>1. PICK before : IsFoldUpTo(m, before, widget, previous, types)
    OBVIOUS
  <2> DEFINE k == m + 1
             fold == [s \in SUBSET types |->
                        IF Cardinality(s) <= m THEN before[s] ELSE AppliedTo(before, widget, previous, s)]
  <2>2. k \in Nat /\ m \in Nat
    OBVIOUS
  <2>3. ASSUME NEW s \in SUBSET types, Cardinality(s) <= k
        PROVE  fold[s] = AppliedTo(fold, widget, previous, s)
    <3>1. CASE s = {}
      <4>1. AppliedTo(fold, widget, previous, s) = widget /\ AppliedTo(before, widget, previous, s) = widget
        BY <3>1, Zenon DEF AppliedTo
      <4>2. Cardinality(s) <= m => before[s] = widget
        BY <2>1, <4>1, Zenon DEF IsFoldUpTo
      <4>3. fold[s] = IF Cardinality(s) <= m THEN before[s] ELSE AppliedTo(before, widget, previous, s)
        BY Zenon
      <4> QED
        BY <4>1, <4>2, <4>3, Zenon
    <3>2. CASE s # {}
      <4> DEFINE less == s \ {FirstOf(s)}
      <4>1. less \in SUBSET types /\ Cardinality(less) <= m
        <5>1. FirstOf(s) \in s
          BY <3>2, FirstIsThere
        <5>2. Cardinality(less) = Cardinality(s) - 1
          BY <5>1, <1>0, FS_RemoveElement
        <5> QED
          BY <5>2, <2>2, <2>3, <1>0
      <4>2. fold[less] = before[less]
        BY <4>1, Zenon
      <4>3. AppliedTo(fold, widget, previous, s) = AppliedTo(before, widget, previous, s)
        BY <4>2, <3>2, Zenon DEF AppliedTo
      <4>4. Cardinality(s) <= m => before[s] = AppliedTo(before, widget, previous, s)
        BY <2>1, Zenon DEF IsFoldUpTo
      <4>5. fold[s] = IF Cardinality(s) <= m THEN before[s] ELSE AppliedTo(before, widget, previous, s)
        BY Zenon
      <4> QED
        BY <4>3, <4>4, <4>5, Zenon
    <3> QED
      BY <3>1, <3>2
  <2>4. fold = [s \in SUBSET types |-> fold[s]]
    BY Zenon
  <2>5. IsFoldUpTo(k, fold, widget, previous, types)
    BY <2>3, <2>4, Zenon DEF IsFoldUpTo
  <2> HIDE DEF fold
  <2> QED
    BY <2>5, <2>2
<1> HIDE DEF T
<1>3. T = Nat
  BY <1>1, <1>2, AllNumbers DEF T
<1>4. n \in T
  BY <1>3
<1> QED
  BY <1>4, Zenon DEF T

LEMMA FoldsOfTypes ==
    ASSUME NEW widget, NEW previous, NEW types, IsFiniteSet(types)
    PROVE  \E fold : IsFoldOf(fold, widget, previous, types)
<1>1. \A s \in SUBSET types : Cardinality(s) <= Cardinality(types)
  BY FS_Subset
<1>2. PICK fold : IsFoldUpTo(Cardinality(types), fold, widget, previous, types)
  BY FS_CardinalityType, FoldsUpTo
<1>3. \A s \in SUBSET types : fold[s] = AppliedTo(fold, widget, previous, s)
  BY <1>1, <1>2 DEF IsFoldUpTo
<1>4. [s \in SUBSET types |-> fold[s]] = [s \in SUBSET types |-> AppliedTo(fold, widget, previous, s)]
  BY <1>3, Zenon
<1>5. fold = [s \in SUBSET types |-> AppliedTo(fold, widget, previous, s)]
  BY <1>2, <1>4, Zenon DEF IsFoldUpTo
<1>6. IsFoldOf(fold, widget, previous, types)
  BY <1>5, Zenon DEF IsFoldOf
<1> QED
  BY <1>6, Zenon

\* A widget to which the properties of a set are applied, one after the other.
IsApplied(fold, widget, previous, types) ==
    /\ fold[{}] = widget
    /\ \A s \in SUBSET types : s # {} =>
          \E type \in s : fold[s] = Edits!ApplyEditorProperty(fold[s \ {type}], previous, type)
    /\ Edits!ApplyEach(widget, previous, types) = fold[types]

LEMMA EachApplies ==
    ASSUME NEW widget, NEW previous, NEW types, IsFiniteSet(types)
    PROVE  \E fold : IsApplied(fold, widget, previous, types)
<1> DEFINE fold == CHOOSE f : IsFoldOf(f, widget, previous, types)
<1>1. IsFoldOf(fold, widget, previous, types)
  BY FoldsOfTypes
<1>2. Edits!ApplyEach(widget, previous, types) = fold[types]
  <2>1. Edits!ApplyEach(widget, previous, types) = (CHOOSE f : IsFoldOf(f, widget, previous, types))[types]
    BY Zenon DEF Edits!ApplyEach, Edits!FoldSet, Edits!MapThenFoldSet, IsFoldOf, AppliedTo, FirstOf
  <2> QED
    BY <2>1
<1> HIDE DEF fold
<1>3. fold[{}] = widget
  <2>1. {} \in SUBSET types
    OBVIOUS
  <2> QED
    BY <2>1, <1>1, Zenon DEF IsFoldOf, AppliedTo
<1>4. ASSUME NEW s \in SUBSET types, s # {}
      PROVE  \E type \in s : fold[s] = Edits!ApplyEditorProperty(fold[s \ {type}], previous, type)
  <2>1. FirstOf(s) \in s
    BY <1>4, FirstIsThere
  <2>2. fold[s] = Edits!ApplyEditorProperty(fold[s \ {FirstOf(s)}], previous, FirstOf(s))
    BY <1>1, <1>4, Zenon DEF IsFoldOf, AppliedTo
  <2> QED
    BY <2>1, <2>2, Zenon
<1>5. IsApplied(fold, widget, previous, types)
  BY <1>2, <1>3, <1>4, Zenon DEF IsApplied
<1> QED
  BY <1>5, Zenon

-----------------------------------------------------------------------------
\* What a widget of an editor registers has types that are properties.
IsWithin(table, types) == DOMAIN table \subseteq types

LEMMA EachIsWithin ==
    ASSUME NEW some, NEW types, some \subseteq types, NEW value
    PROVE  IsWithin(Edits!Each(some, value), types)
BY DEF IsWithin, Edits!Each

LEMMA LaterIsWithin ==
    ASSUME NEW types, NEW late, IsWithin(late, types), NEW early, IsWithin(early, types)
    PROVE  IsWithin(Edits!++(late, early), types)
BY DEF IsWithin, Edits!++

\* What only shapes have, and not all of them.
ShapeOnly == {"CORNER_RAD_PX", "FILL_MODE", "DIRECTION"}

\* The tables of one value that the classes put theirs together from.
LEMMA PartsAreWithin ==
    ASSUME NEW types, Edits!WidgetPropertyTypes \ ShapeOnly \subseteq types, NEW v
    PROVE  /\ IsWithin(Edits!Each({"IS_ACTIVE", "IS_VISIBLE"}, v), types)
           /\ IsWithin(Edits!Each({"IS_SMOOTHED", "IS_ANIMATION_ACTIVE"}, v), types)
           /\ IsWithin(Edits!Each({"OPACITY"}, v), types)
           /\ IsWithin(Edits!Each(Edits!AnchorTypes, v), types)
           /\ IsWithin(Edits!Each({"ANIMATION_TYPE"}, v), types)
           /\ IsWithin(Edits!Each({"ANIMATION_DURATION_MS"}, v), types)
           /\ IsWithin(Edits!Each({"ICON_TYPE", "POSITION_X", "POSITION_Y"}, v), types)
           /\ IsWithin(Edits!Each({"WIDTH_PX", "HEIGHT_PX"}, v), types)
           /\ IsWithin(Edits!Each({"STROKE_PX"}, v), types)
           /\ IsWithin(Edits!Each({"MIN_VALUE", "VALUE"}, v), types)
           /\ IsWithin(Edits!Each({"MAX_VALUE"}, v), types)
           /\ IsWithin(Edits!Each({"SETTING_ID"}, v), types)
           /\ IsWithin(Edits!Each({"VALUE", "MIN_VALUE", "MAX_VALUE", "STEP"}, v), types)
           /\ IsWithin(Edits!Each({"FONT_FILE_PATH"}, v), types)
           /\ IsWithin(Edits!Each({"FONT_SIZE_PX"}, v), types)
           /\ IsWithin(Edits!Each({"START_ANGLE"}, v), types)
           /\ IsWithin(Edits!Each({"END_ANGLE"}, v), types)
           /\ IsWithin(Edits!Each({"VALUE_PRECISION"}, v), types)
           /\ IsWithin(Edits!Each({"CHART_POINT_COUNT"}, v), types)
           /\ IsWithin(Edits!Each({"CHART_TYPE"}, v), types)
           /\ IsWithin(Edits!Each({"LABEL", "UNIT"}, v), types)
           /\ IsWithin(Edits!Each({"VALUE"}, v), types)
           /\ IsWithin(Edits!Each({"LABEL"}, v), types)
           /\ IsWithin(Edits!Each({"TARGET_SCREEN_GROUP"}, v), types)
           /\ IsWithin(Edits!Each({"NAVIGATION_INTENT"}, v), types)
           /\ IsWithin(Edits!Each({"FILE_PATH"}, v), types)
           /\ IsWithin(Edits!Each({"IMG_WIDTH", "IMG_HEIGHT"}, v), types)
           /\ IsWithin(Edits!Each({"POSITION_ANGLE"}, v), types)
           /\ IsWithin(Edits!Each({"EDGE_OFFSET"}, v), types)
BY EachIsWithin DEF Edits!WidgetPropertyTypes, ShapeOnly, Edits!NumberTypes, Edits!FlagTypes, Edits!TextTypes,
                    Edits!AnchorTypes

LEMMA ShapePartsAreWithin ==
    ASSUME NEW v
    PROVE  /\ IsWithin(Edits!Each({"FILL_MODE"}, v), Edits!WidgetPropertyTypes \ {"CORNER_RAD_PX", "DIRECTION"})
           /\ IsWithin(Edits!Each({"FILL_MODE"}, v), Edits!WidgetPropertyTypes \ {"DIRECTION"})
           /\ IsWithin(Edits!Each({"CORNER_RAD_PX"}, v), Edits!WidgetPropertyTypes \ {"DIRECTION"})
           /\ IsWithin(Edits!Each({"DIRECTION"}, v), Edits!WidgetPropertyTypes \ {"CORNER_RAD_PX", "FILL_MODE"})
           /\ IsWithin(Edits!Each({"DIRECTION"}, v), Edits!WidgetPropertyTypes)
BY EachIsWithin DEF Edits!WidgetPropertyTypes, Edits!NumberTypes

LEMMA ColorsAreWithin ==
    ASSUME NEW types, Edits!ColorTypes \subseteq types
    PROVE  \A some \in {Edits!Primary, Edits!Actives, Edits!PrimaryPair, Edits!TwoPairs, Edits!ColorTypes} :
              IsWithin(Edits!RegisterColors(some), types)
<1> SUFFICES ASSUME NEW some \in {Edits!Primary, Edits!Actives, Edits!PrimaryPair, Edits!TwoPairs, Edits!ColorTypes}
    PROVE some \subseteq types
  BY EachIsWithin DEF Edits!RegisterColors
<1> QED
  BY DEF Edits!ColorTypes, Edits!Primary, Edits!Actives, Edits!PrimaryPair, Edits!TwoPairs

LEMMA WidgetIsWithin ==
    ASSUME NEW types, Edits!WidgetPropertyTypes \ ShapeOnly \subseteq types
    PROVE  IsWithin(Edits!RegisterWidget, types) /\ IsWithin(Edits!RegisterShape, types)
<1>1. IsWithin(Edits!RegisterWidget, types)
  <2> DEFINE a1 == Edits!Each({"IS_ACTIVE", "IS_VISIBLE"}, Edits!FlagOf(1))
             a2 == Edits!Each({"IS_SMOOTHED", "IS_ANIMATION_ACTIVE"}, Edits!FlagOf(0))
             a3 == Edits!Each({"OPACITY"}, Edits!IntOf(255))
             a4 == Edits!Each(Edits!AnchorTypes, Edits!IntOf(-1))
             a5 == Edits!Each({"ANIMATION_TYPE"}, Edits!IntOf(0))
             a6 == Edits!Each({"ANIMATION_DURATION_MS"}, Edits!IntOf(1000))
  <2>1. IsWithin(a1, types) /\ IsWithin(a2, types) /\ IsWithin(a3, types)
    BY PartsAreWithin
  <2>2. IsWithin(a4, types) /\ IsWithin(a5, types) /\ IsWithin(a6, types)
    BY PartsAreWithin
  <2>3. Edits!RegisterWidget = Edits!++(Edits!++(Edits!++(Edits!++(Edits!++(a1, a2), a3), a4), a5), a6)
    BY DEF Edits!RegisterWidget
  <2> HIDE DEF a1, a2, a3, a4, a5, a6
  <2> QED
    BY <2>1, <2>2, <2>3, LaterIsWithin, Zenon
<1>2. IsWithin(Edits!RegisterShape, types)
  <2>1. Edits!ColorTypes \subseteq types
    BY DEF Edits!WidgetPropertyTypes, ShapeOnly, Edits!ColorTypes
  <2> QED
    BY <2>1, PartsAreWithin, ColorsAreWithin, LaterIsWithin, Zenon DEF Edits!RegisterShape
<1> QED
  BY <1>1, <1>2

\* Every class of widgets.
LEMMA BasesAreWithin ==
    ASSUME NEW types, types = Edits!WidgetPropertyTypes
    PROVE  /\ \A size : IsWithin(Edits!RegisterText(size), types)
           /\ IsWithin(Edits!RegisterIndicator, types) /\ IsWithin(Edits!RegisterSetting, types)
           /\ IsWithin(Edits!RegisterAngles, types)
<1>0. Edits!WidgetPropertyTypes \ ShapeOnly \subseteq types
  OBVIOUS
<1>1. IsWithin(Edits!RegisterWidget, types) /\ \A v : IsWithin(Edits!Each({"FONT_SIZE_PX"}, v), types)
  BY WidgetIsWithin, PartsAreWithin
<1>2. \A size : IsWithin(Edits!RegisterText(size), types)
  BY <1>1, PartsAreWithin, LaterIsWithin, Zenon DEF Edits!RegisterText
<1>3. IsWithin(Edits!RegisterIndicator, types)
  BY <1>1, PartsAreWithin, LaterIsWithin, ZenonT(30) DEF Edits!RegisterIndicator
<1>4. IsWithin(Edits!RegisterSetting, types)
  BY <1>1, PartsAreWithin, LaterIsWithin, Zenon DEF Edits!RegisterSetting
<1>5. IsWithin(Edits!RegisterAngles, types)
  <2>1. \A v : IsWithin(Edits!Each({"START_ANGLE"}, v), types) /\ IsWithin(Edits!Each({"END_ANGLE"}, v), types)
    BY PartsAreWithin
  <2> QED
    BY <2>1, LaterIsWithin, Zenon DEF Edits!RegisterAngles
<1> QED
  BY <1>2, <1>3, <1>4, <1>5

LEMMA ClassesAreWithin ==
    ASSUME NEW types, types = Edits!WidgetPropertyTypes
    PROVE  /\ IsWithin(Edits!RegisterLottie, types) /\ IsWithin(Edits!RegisterArcFill, types)
           /\ IsWithin(Edits!RegisterSegmentArc, types) /\ IsWithin(Edits!RegisterDial, types)
           /\ IsWithin(Edits!RegisterDigital, types) /\ IsWithin(Edits!RegisterChart, types)
           /\ IsWithin(Edits!RegisterBar, types) /\ IsWithin(Edits!RegisterSettingIndicator, types)
           /\ IsWithin(Edits!RegisterSlider, types) /\ IsWithin(Edits!RegisterToggle, types)
           /\ IsWithin(Edits!RegisterButton, types)
<1>0. Edits!WidgetPropertyTypes \ ShapeOnly \subseteq types /\ Edits!ColorTypes \subseteq types
  BY DEF Edits!WidgetPropertyTypes
<1>1. /\ IsWithin(Edits!RegisterColors(Edits!Primary), types) /\ IsWithin(Edits!RegisterColors(Edits!Actives), types)
      /\ IsWithin(Edits!RegisterColors(Edits!PrimaryPair), types)
      /\ IsWithin(Edits!RegisterColors(Edits!TwoPairs), types)
      /\ IsWithin(Edits!RegisterColors(Edits!ColorTypes), types)
  BY <1>0, ColorsAreWithin
<1>2. /\ \A size : IsWithin(Edits!RegisterText(size), types)
      /\ IsWithin(Edits!RegisterIndicator, types) /\ IsWithin(Edits!RegisterSetting, types)
      /\ IsWithin(Edits!RegisterAngles, types)
      /\ IsWithin(Edits!RegisterWidget, types)
  BY <1>0, BasesAreWithin, WidgetIsWithin
<1>3. /\ \A v : IsWithin(Edits!Each({"VALUE_PRECISION"}, v), types)
      /\ \A v : IsWithin(Edits!Each({"CHART_POINT_COUNT"}, v), types)
      /\ \A v : IsWithin(Edits!Each({"CHART_TYPE"}, v), types)
      /\ \A v : IsWithin(Edits!Each({"DIRECTION"}, v), types)
      /\ \A v : IsWithin(Edits!Each({"LABEL", "UNIT"}, v), types)
      /\ \A v : IsWithin(Edits!Each({"VALUE"}, v), types)
      /\ \A v : IsWithin(Edits!Each({"LABEL"}, v), types)
      /\ \A v : IsWithin(Edits!Each({"TARGET_SCREEN_GROUP"}, v), types)
      /\ \A v : IsWithin(Edits!Each({"NAVIGATION_INTENT"}, v), types)
      /\ \A v : IsWithin(Edits!Each({"FILE_PATH"}, v), types)
      /\ \A v : IsWithin(Edits!Each({"WIDTH_PX", "HEIGHT_PX"}, v), types)
  BY <1>0, PartsAreWithin, ShapePartsAreWithin
<1>4. IsWithin(Edits!RegisterLottie, types)
  BY <1>2, <1>3, LaterIsWithin, Zenon DEF Edits!RegisterLottie
<1>5. IsWithin(Edits!RegisterArcFill, types)
  BY <1>1, <1>2, LaterIsWithin, Zenon DEF Edits!RegisterArcFill
<1>6. IsWithin(Edits!RegisterSegmentArc, types)
  BY <1>1, <1>2, LaterIsWithin, Zenon DEF Edits!RegisterSegmentArc
<1>7. IsWithin(Edits!RegisterDial, types)
  BY <1>2, LaterIsWithin, Zenon DEF Edits!RegisterDial
<1>8. IsWithin(Edits!RegisterDigital, types)
  BY <1>1, <1>2, <1>3, LaterIsWithin, Zenon DEF Edits!RegisterDigital
<1>9. IsWithin(Edits!RegisterChart, types)
  BY <1>1, <1>2, <1>3, LaterIsWithin, Zenon DEF Edits!RegisterChart
<1>10. IsWithin(Edits!RegisterBar, types)
  BY <1>1, <1>2, <1>3, LaterIsWithin, Zenon DEF Edits!RegisterBar
<1>11. IsWithin(Edits!RegisterSettingIndicator, types)
  BY <1>1, <1>2, <1>3, LaterIsWithin, Zenon DEF Edits!RegisterSettingIndicator
<1>12. IsWithin(Edits!RegisterSlider, types)
  BY <1>1, <1>2, LaterIsWithin, Zenon DEF Edits!RegisterSlider
<1>13. IsWithin(Edits!RegisterToggle, types)
  BY <1>1, <1>2, <1>3, LaterIsWithin, Zenon DEF Edits!RegisterToggle
<1>14. IsWithin(Edits!RegisterButton, types)
  BY <1>1, <1>2, <1>3, LaterIsWithin, Zenon DEF Edits!RegisterButton
<1> QED
  BY <1>4, <1>5, <1>6, <1>7, <1>8, <1>9, <1>10, <1>11, <1>12, <1>13, <1>14

\* A property of shapes that an icon registers is one that its shape has.
LEMMA IconsAreWithin ==
    ASSUME NEW icon
    PROVE  /\ IsWithin(Edits!RegisterIconWidget(icon), Edits!WidgetPropertyTypes)
           /\ IsWithin(Edits!RegisterArcIcon(icon), Edits!WidgetPropertyTypes)
           /\ icon \in 4 .. 6 => IsWithin(Edits!RegisterIconWidget(icon), Edits!WidgetPropertyTypes \ {"DIRECTION"})
           /\ icon = 7 =>
                 IsWithin(Edits!RegisterIconWidget(icon), Edits!WidgetPropertyTypes \ {"CORNER_RAD_PX", "DIRECTION"})
           /\ icon = 8 =>
                 IsWithin(Edits!RegisterIconWidget(icon), Edits!WidgetPropertyTypes \ {"CORNER_RAD_PX", "FILL_MODE"})
<1> DEFINE all == Edits!WidgetPropertyTypes
           closed == all \ {"CORNER_RAD_PX", "DIRECTION"}
           polygon == all \ {"DIRECTION"}
           line == all \ {"CORNER_RAD_PX", "FILL_MODE"}
<1>1. \A types \in {all, closed, polygon, line} : Edits!WidgetPropertyTypes \ ShapeOnly \subseteq types
  BY DEF ShapeOnly
<1>2. \A types \in {all, closed, polygon, line} :
          IsWithin(Edits!RegisterWidget, types) /\ IsWithin(Edits!RegisterShape, types)
  BY <1>1, WidgetIsWithin
<1>3. \A types \in {all, closed, polygon, line} :
          \A v : IsWithin(Edits!Each({"ICON_TYPE", "POSITION_X", "POSITION_Y"}, v), types)
  BY <1>1, PartsAreWithin
<1>4. \A v : /\ IsWithin(Edits!Each({"FILL_MODE"}, v), closed) /\ IsWithin(Edits!Each({"FILL_MODE"}, v), polygon)
             /\ IsWithin(Edits!Each({"CORNER_RAD_PX"}, v), polygon) /\ IsWithin(Edits!Each({"DIRECTION"}, v), line)
  BY ShapePartsAreWithin
<1>5. /\ \A v : IsWithin(Edits!Each({"FILE_PATH"}, v), all) /\ IsWithin(Edits!Each({"IMG_WIDTH", "IMG_HEIGHT"}, v), all)
      /\ \A v : IsWithin(Edits!Each({"WIDTH_PX", "HEIGHT_PX"}, v), all) /\ IsWithin(Edits!Each({"LABEL"}, v), all)
      /\ \A v : IsWithin(Edits!Each({"POSITION_ANGLE"}, v), all) /\ IsWithin(Edits!Each({"EDGE_OFFSET"}, v), all)
  BY <1>1, PartsAreWithin
<1>6. IsWithin(Edits!RegisterColors(Edits!Primary), all) /\ \A size : IsWithin(Edits!RegisterText(size), all)
  <2>1. Edits!ColorTypes \subseteq all
    BY DEF Edits!WidgetPropertyTypes
  <2> QED
    BY <2>1, ColorsAreWithin, BasesAreWithin
<1>7. \A types \in {all, polygon, closed, line} : \A table : IsWithin(table, types) => IsWithin(table, all)
  BY DEF IsWithin
<1> HIDE DEF all, closed, polygon, line
<1>8. IsWithin(Edits!RegisterClosedShape, closed) /\ IsWithin(Edits!RegisterClosedShape, polygon)
  BY <1>2, <1>4, LaterIsWithin, Zenon DEF Edits!RegisterClosedShape
<1>9. IsWithin(Edits!RegisterPolygon, polygon)
  BY <1>4, <1>8, LaterIsWithin, Zenon DEF Edits!RegisterPolygon
<1>10. IsWithin(Edits!RegisterLine, line)
  BY <1>2, <1>4, LaterIsWithin, Zenon DEF Edits!RegisterLine
<1>11. IsWithin(Edits!RegisterLabel, all)
  BY <1>5, <1>6, LaterIsWithin, Zenon DEF Edits!RegisterLabel
<1>12. IsWithin(Edits!RegisterImage, all)
  BY <1>5, LaterIsWithin, Zenon DEF Edits!RegisterImage
<1>13. IsWithin(Edits!RegisterSvg, all)
  BY <1>5, LaterIsWithin, Zenon DEF Edits!RegisterSvg
<1>14. /\ IsWithin(Edits!RegisterIcon(icon), all)
       /\ icon \in 4 .. 6 => IsWithin(Edits!RegisterIcon(icon), polygon)
       /\ icon = 7 => IsWithin(Edits!RegisterIcon(icon), closed)
       /\ icon = 8 => IsWithin(Edits!RegisterIcon(icon), line)
  <2>1. IsWithin(<<>>, all)
    BY DEF IsWithin
  <2>2. /\ IsWithin(Edits!RegisterPolygon, all) /\ IsWithin(Edits!RegisterClosedShape, all)
        /\ IsWithin(Edits!RegisterLine, all)
    BY <1>7, <1>8, <1>9, <1>10
  <2>3. icon \in 4 .. 6 => Edits!RegisterIcon(icon) = Edits!RegisterPolygon
    BY DEF Edits!RegisterIcon
  <2>4. icon = 7 => Edits!RegisterIcon(icon) = Edits!RegisterClosedShape
    BY DEF Edits!RegisterIcon
  <2>5. icon = 8 => Edits!RegisterIcon(icon) = Edits!RegisterLine
    BY DEF Edits!RegisterIcon
  <2>6. Edits!RegisterIcon(icon) \in {<<>>, Edits!RegisterLabel, Edits!RegisterImage, Edits!RegisterSvg,
                                     Edits!RegisterPolygon, Edits!RegisterClosedShape, Edits!RegisterLine}
    BY DEF Edits!RegisterIcon
  <2>7. IsWithin(Edits!RegisterIcon(icon), all)
    BY <2>1, <2>2, <2>6, <1>11, <1>12, <1>13
  <2> QED
    BY <2>3, <2>4, <2>5, <2>7, <1>8, <1>9, <1>10
<1>15. ASSUME NEW types \in {all, closed, polygon, line}, IsWithin(Edits!RegisterIcon(icon), types)
       PROVE  IsWithin(Edits!RegisterIconWidget(icon), types)
  BY <1>2, <1>3, <1>15, LaterIsWithin, Zenon DEF Edits!RegisterIconWidget
<1>16. IsWithin(Edits!RegisterIconWidget(icon), all)
  BY <1>14, <1>15
<1>17. IsWithin(Edits!RegisterArcIcon(icon), all)
  BY <1>5, <1>16, LaterIsWithin, Zenon DEF Edits!RegisterArcIcon
<1> QED
  BY <1>14, <1>15, <1>16, <1>17 DEF all, closed, polygon, line

LEMMA RegisteredIsWithin ==
    ASSUME NEW type \in Edits!WidgetTypes, NEW icon
    PROVE  DOMAIN Edits!RegisterProperties(type, icon) \subseteq Edits!WidgetPropertyTypes
<1>1. CASE type \in {"icon", "arc_icon"}
  BY <1>1, IconsAreWithin DEF Edits!RegisterProperties, IsWithin
<1>2. CASE type \in {"lottie", "arc_fill", "segment_arc", "dial", "digital", "chart", "bar", "setting"}
  BY <1>2, ClassesAreWithin DEF Edits!RegisterProperties, IsWithin
<1>3. CASE type \in {"slider", "toggle", "button"}
  BY <1>3, ClassesAreWithin DEF Edits!RegisterProperties, IsWithin
<1> QED
  BY <1>1, <1>2, <1>3 DEF Edits!WidgetTypes

-----------------------------------------------------------------------------
\* The properties are finitely many.
LEMMA SevenAreFinite ==
    ASSUME NEW x1, NEW x2, NEW x3, NEW x4, NEW x5, NEW x6, NEW x7
    PROVE  IsFiniteSet({x1, x2, x3, x4, x5, x6, x7})
<1>1. IsFiniteSet({})
  BY FS_EmptySet
<1>2. IsFiniteSet({} \union {x1})
  BY <1>1, FS_AddElement
<1>3. IsFiniteSet(({} \union {x1}) \union {x2})
  BY <1>2, FS_AddElement
<1>4. IsFiniteSet((({} \union {x1}) \union {x2}) \union {x3})
  BY <1>3, FS_AddElement
<1>5. IsFiniteSet(((({} \union {x1}) \union {x2}) \union {x3}) \union {x4})
  BY <1>4, FS_AddElement
<1>6. IsFiniteSet((((({} \union {x1}) \union {x2}) \union {x3}) \union {x4}) \union {x5})
  BY <1>5, FS_AddElement
<1>7. IsFiniteSet(((((({} \union {x1}) \union {x2}) \union {x3}) \union {x4}) \union {x5}) \union {x6})
  BY <1>6, FS_AddElement
<1>8. IsFiniteSet((((((({} \union {x1}) \union {x2}) \union {x3}) \union {x4}) \union {x5}) \union {x6}) \union {x7})
  BY <1>7, FS_AddElement
<1>9. (((((({} \union {x1}) \union {x2}) \union {x3}) \union {x4}) \union {x5}) \union {x6}) \union {x7}
          = {x1, x2, x3, x4, x5, x6, x7}
  OBVIOUS
<1> QED
  BY <1>8, <1>9

LEMMA TypesAreFinite == IsFiniteSet(Edits!WidgetPropertyTypes)
<1> DEFINE t1 == {"MIN_VALUE", "MAX_VALUE", "CHART_POINT_COUNT", "CHART_TYPE", "VALUE_PRECISION", "EDGE_OFFSET",
                  "POSITION_X"}
           t2 == {"POSITION_Y", "POSITION_ANGLE", "ICON_TYPE", "START_ANGLE", "END_ANGLE", "IMG_WIDTH", "IMG_HEIGHT"}
           t3 == {"DIRECTION", "STEP", "TARGET_SCREEN_GROUP", "VALUE", "NAVIGATION_INTENT", "WIDTH_PX", "HEIGHT_PX"}
           t4 == {"STROKE_PX", "CORNER_RAD_PX", "FILL_MODE", "FONT_SIZE_PX", "OPACITY", "ANIMATION_TYPE",
                  "ANIMATION_DURATION_MS"}
           t5 == {"LAYOUT_X", "LAYOUT_Y", "LAYOUT_WIDTH", "LAYOUT_HEIGHT", "ANCHOR_POINT_X", "ANCHOR_POINT_Y",
                  "CHILD_WIDGET_IDS"}
           t6 == {"IS_ACTIVE", "IS_SMOOTHED", "IS_VISIBLE", "IS_ANIMATION_ACTIVE", "LABEL", "FILE_PATH",
                  "FONT_FILE_PATH"}
           t7 == {"SETTING_ID", "UNIT", "COLOR_PRIMARY_ACTIVE", "COLOR_PRIMARY_INACTIVE", "COLOR_SECONDARY_ACTIVE",
                  "COLOR_SECONDARY_INACTIVE", "COLOR_TERTIARY_ACTIVE"}
           t8 == {"COLOR_TERTIARY_INACTIVE"}
<1>1. IsFiniteSet(t1) /\ IsFiniteSet(t2) /\ IsFiniteSet(t3) /\ IsFiniteSet(t4)
  BY SevenAreFinite
<1>2. IsFiniteSet(t5) /\ IsFiniteSet(t6) /\ IsFiniteSet(t7) /\ IsFiniteSet(t8)
  BY SevenAreFinite, FS_Singleton
<1>3. Edits!WidgetPropertyTypes = (t1 \union t2) \union (t3 \union t4) \union ((t5 \union t6) \union (t7 \union t8))
  BY DEF Edits!WidgetPropertyTypes, Edits!NumberTypes, Edits!FlagTypes, Edits!TextTypes, Edits!ColorTypes,
         Edits!AnchorTypes, Edits!LayoutTypes
<1> HIDE DEF t1, t2, t3, t4, t5, t6, t7, t8
<1>4. IsFiniteSet(t1 \union t2) /\ IsFiniteSet(t3 \union t4) /\ IsFiniteSet(t5 \union t6) /\ IsFiniteSet(t7 \union t8)
  BY <1>1, <1>2, FS_Union
<1>5. IsFiniteSet((t1 \union t2) \union (t3 \union t4)) /\ IsFiniteSet((t5 \union t6) \union (t7 \union t8))
  BY <1>4, FS_Union
<1> QED
  BY <1>3, <1>5, FS_Union

-----------------------------------------------------------------------------
\* What the table lets through, and the widget has, is what its class applies.
LEMMA CommonIsShown ==
    ASSUME NEW widget_type \in Edits!WidgetTypes, NEW icon, NEW type, Edits!IsCommonInPlaceProperty(type)
    PROVE  Edits!Shows(widget_type, icon, type)
<1>1. type \in {"IS_VISIBLE", "OPACITY", "ANCHOR_POINT_X", "ANCHOR_POINT_Y", "ANIMATION_TYPE", "IS_ANIMATION_ACTIVE",
                "ANIMATION_DURATION_MS", "COLOR_PRIMARY_ACTIVE", "COLOR_PRIMARY_INACTIVE", "COLOR_SECONDARY_ACTIVE",
                "COLOR_SECONDARY_INACTIVE", "COLOR_TERTIARY_ACTIVE", "COLOR_TERTIARY_INACTIVE"}
  BY DEF Edits!IsCommonInPlaceProperty, Edits!ColorTypes, Edits!AnchorTypes, Edits!AnimationTypes
<1>2. Edits!WidgetShows(type)
  BY DEF Edits!WidgetShows
<1>3. type \notin {"START_ANGLE", "END_ANGLE", "MIN_VALUE", "MAX_VALUE", "VALUE_PRECISION", "DIRECTION",
                   "CHART_POINT_COUNT", "CHART_TYPE", "VALUE", "SETTING_ID", "LABEL", "POSITION_ANGLE", "EDGE_OFFSET",
                   "FILE_PATH", "WIDTH_PX", "HEIGHT_PX"}
  BY <1>1
<1>4. Edits!IndicatorShows(type) /\ Edits!SettingShows(type) /\ Edits!IconWidgetShows(icon, type)
  BY <1>2, <1>3 DEF Edits!IndicatorShows, Edits!SettingShows, Edits!IconWidgetShows
<1>5. /\ Edits!ArcFillShows(type) /\ Edits!SegmentArcShows(type) /\ Edits!DialShows(type) /\ Edits!DigitalShows(type)
      /\ Edits!BarShows(type) /\ Edits!ChartShows(type) /\ Edits!ArcIconShows(icon, type) /\ Edits!LottieShows(type)
  BY <1>2, <1>3, <1>4
  DEF Edits!ArcFillShows, Edits!SegmentArcShows, Edits!DialShows, Edits!DigitalShows, Edits!BarShows, Edits!ChartShows,
      Edits!ArcIconShows, Edits!LottieShows
<1>6. /\ Edits!SettingIndicatorShows(type) /\ Edits!SliderShows(type)
      /\ Edits!ToggleShows(type) /\ Edits!ButtonShows(type)
  BY <1>3, <1>4 DEF Edits!SettingIndicatorShows, Edits!SliderShows, Edits!ToggleShows, Edits!ButtonShows
<1> QED
  BY <1>4, <1>5, <1>6 DEF Edits!Shows, Edits!WidgetTypes

LEMMA InPlaceIsShown ==
    ASSUME NEW widget_type \in Edits!WidgetTypes, NEW properties, NEW type,
           Edits!AppliesInPlace(widget_type, properties, type),
           type \in DOMAIN Edits!RegisterProperties(widget_type, Edits!IconTypeOf(properties))
    PROVE  Edits!Shows(widget_type, Edits!IconTypeOf(properties), type)
<1> DEFINE icon == Edits!IconTypeOf(properties)
<1>1. CASE Edits!IsCommonInPlaceProperty(type)
  BY <1>1, CommonIsShown
<1>2. CASE type = "VALUE" /\ Edits!IsEasedValueIndicator(widget_type)
  BY <1>2 DEF Edits!IsEasedValueIndicator, Edits!Shows, Edits!ArcFillShows, Edits!SegmentArcShows, Edits!DialShows,
              Edits!DigitalShows, Edits!BarShows, Edits!IndicatorShows
<1>3. CASE widget_type = "icon" /\ Edits!IsShapeIcon(icon) /\ type \in Edits!ShapeTypes
  <2> HIDE DEF icon
  <2>0. SUFFICES Edits!Shows(widget_type, icon, type)
    BY DEF icon
  <2>1. icon \in 4 .. 6 \/ icon = 7 \/ icon = 8
    BY <1>3 DEF Edits!IsShapeIcon
  <2>2. Edits!Shows(widget_type, icon, type) = Edits!IconWidgetShows(icon, type)
    BY <1>3 DEF Edits!Shows
  <2>3. DOMAIN Edits!RegisterProperties(widget_type, icon) = DOMAIN Edits!RegisterIconWidget(icon)
    BY <1>3 DEF Edits!RegisterProperties
  <2>4. type \in DOMAIN Edits!RegisterIconWidget(icon)
    BY <2>3 DEF icon
  <2>5. CASE icon \in 4 .. 6
    <3>1. type # "DIRECTION"
      BY <2>4, <2>5, IconsAreWithin DEF IsWithin
    <3>2. Edits!IconShows(icon, type) = Edits!PolygonShows(type)
      <4>1. icon # 7 /\ icon # 8
        BY <2>5
      <4> QED
        BY <2>5, <4>1, Zenon DEF Edits!IconShows
    <3> QED
      BY <1>3, <2>2, <3>1, <3>2
      DEF Edits!ShapeTypes, Edits!IconWidgetShows, Edits!PolygonShows, Edits!ClosedShapeShows, Edits!ShapeShows
  <2>6. CASE icon = 7
    <3>1. type \notin {"DIRECTION", "CORNER_RAD_PX"}
      BY <2>4, <2>6, IconsAreWithin DEF IsWithin
    <3>2. Edits!IconShows(icon, type) = Edits!ClosedShapeShows(type)
      BY <2>6 DEF Edits!IconShows
    <3> QED
      BY <1>3, <2>2, <3>1, <3>2 DEF Edits!ShapeTypes, Edits!IconWidgetShows, Edits!ClosedShapeShows, Edits!ShapeShows
  <2>7. CASE icon = 8
    <3>1. type \notin {"FILL_MODE", "CORNER_RAD_PX"}
      BY <2>4, <2>7, IconsAreWithin DEF IsWithin
    <3>2. Edits!IconShows(icon, type) = Edits!LineShows(type)
      BY <2>7 DEF Edits!IconShows
    <3> QED
      BY <1>3, <2>2, <3>1, <3>2 DEF Edits!ShapeTypes, Edits!IconWidgetShows, Edits!LineShows, Edits!ShapeShows
  <2> QED
    BY <2>1, <2>5, <2>6, <2>7
<1> QED
  BY <1>1, <1>2, <1>3 DEF Edits!AppliesInPlace

-----------------------------------------------------------------------------
\* What a widget of a record registers, and what one that is built from it holds.
RegisteredFor(editor, properties) == Edits!RegisterProperties(editor.type, Edits!IconTypeOf(properties))

SeededFor(editor, properties) == Edits!Seeded(RegisteredFor(editor, properties), properties)

\* A property is shown as it is stored, or waits to be.
IsTold(widget, type) ==
    \/ widget.shown[type] = widget.store[type]
    \/ /\ type \in widget.pending
       /\ Edits!Shows(widget.editor.type, Edits!IconTypeOf(widget.properties), type)

\* The widget of an editor with a record, where nothing waits that could be shown.
IsWidgetOf(widget, editor, properties) ==
    /\ {"editor", "properties", "store", "shown", "pending"} \subseteq DOMAIN widget
    /\ widget.editor = editor /\ widget.properties = properties
    /\ DOMAIN widget.store = DOMAIN RegisteredFor(editor, properties)
    /\ DOMAIN widget.shown = DOMAIN RegisteredFor(editor, properties)
    /\ Edits!IsProcessingEligible(widget.store) => widget.pending = {}

\* What it has of each property that no event drives, where some have been applied of the record and others not yet.
IsHalfEdited(widget, editor, previous, properties, done) ==
    /\ IsWidgetOf(widget, editor, properties)
    /\ \A type \in DOMAIN RegisteredFor(editor, properties) \ editor.bound :
          /\ widget.store[type] = SeededFor(editor, IF type \in done THEN properties ELSE previous)[type]
          /\ IsTold(widget, type)

\* The widget has its record, but for what events drive.
EditedInv ==
    edited # NoEditor =>
        /\ edited.editor \in Editors
        /\ IsHalfEdited(edited, edited.editor, edited.properties, edited.properties, {})

LEMMA StoresTells ==
    ASSUME NEW widget, NEW editor, NEW properties, IsWidgetOf(widget, editor, properties),
           NEW type \in DOMAIN RegisteredFor(editor, properties), NEW value
    PROVE  /\ IsWidgetOf(Edits!Stores(widget, type, value), editor, properties)
           /\ \A t \in DOMAIN RegisteredFor(editor, properties) :
                 Edits!Stores(widget, type, value).store[t] = IF t = type THEN value ELSE widget.store[t]
           /\ \A t \in DOMAIN RegisteredFor(editor, properties) \ {type} :
                 IsTold(widget, t) => IsTold(Edits!Stores(widget, type, value), t)
           /\ Edits!Shows(editor.type, Edits!IconTypeOf(properties), type) =>
                 IsTold(Edits!Stores(widget, type, value), type)
<1> DEFINE kept == [widget EXCEPT !.store[type] = value]
           eligible == Edits!IsProcessingEligible(kept.store)
           waiting == IF type \in Edits!ManagementTypes THEN kept.pending ELSE kept.pending \union {type}
           applied == IF eligible THEN waiting \union {type} ELSE {type} \intersect Edits!ManagementTypes
           shows(t) == Edits!Shows(kept.editor.type, Edits!IconTypeOf(kept.properties), t)
           types == DOMAIN RegisteredFor(editor, properties)
           after == Edits!Stores(widget, type, value)
<1>1. /\ {"editor", "properties", "store", "shown", "pending"} \subseteq DOMAIN kept
      /\ kept.editor = editor /\ kept.properties = properties
      /\ kept.shown = widget.shown /\ kept.pending = widget.pending
      /\ kept.store = [widget.store EXCEPT ![type] = value]
  BY DEF IsWidgetOf
<1>2. after = [kept EXCEPT
            !.shown = [t \in DOMAIN @ |->
                IF t \in applied /\ shows(t) THEN kept.store[t] ELSE @[t]],
            !.pending = waiting \ applied]
  BY Zenon DEF Edits!Stores, Edits!NotifyPropertyChanged
<1>10. \A t : shows(t) <=> Edits!Shows(editor.type, Edits!IconTypeOf(properties), t)
  <2> HIDE DEF kept
  <2> QED
    BY <1>1
<1>3. DOMAIN widget.store = types /\ DOMAIN widget.shown = types /\ type \in types
  BY DEF IsWidgetOf
<1>4. DOMAIN kept.store = types /\ \A t \in types : kept.store[t] = IF t = type THEN value ELSE widget.store[t]
  BY <1>1, <1>3
<1> HIDE DEF kept, types, shows
<1>5. /\ {"editor", "properties", "store", "shown", "pending"} \subseteq DOMAIN after
      /\ after.editor = editor /\ after.properties = properties /\ after.store = kept.store
      /\ after.pending = waiting \ applied
      /\ after.shown = [t \in types |-> IF t \in applied /\ shows(t) THEN kept.store[t] ELSE widget.shown[t]]
  <2> HIDE DEF after, applied, waiting
  <2> QED
    BY <1>1, <1>2, <1>3
<1> HIDE DEF after
<1>6. eligible => after.pending = {}
  BY <1>5
<1>7. IsWidgetOf(after, editor, properties)
  BY <1>4, <1>5, <1>6 DEF IsWidgetOf, types
<1>8. ASSUME NEW t \in types \ {type}, IsTold(widget, t) PROVE IsTold(after, t)
  <2>1. widget.shown[t] = widget.store[t] \/ (t \in widget.pending /\ shows(t))
    BY <1>8, <1>10 DEF IsTold, IsWidgetOf
  <2>2. after.shown[t] = IF t \in applied /\ shows(t) THEN kept.store[t] ELSE widget.shown[t]
    BY <1>5
  <2>3. IsTold(after, t) <=> after.shown[t] = after.store[t] \/ (t \in after.pending /\ shows(t))
    BY <1>5, <1>10 DEF IsTold
  <2>4. t \in widget.pending => t \in applied \/ t \in after.pending
    BY <1>1, <1>5
  <2> QED
    BY <2>1, <2>2, <2>3, <2>4, <1>4, <1>5
<1>9. ASSUME shows(type) PROVE IsTold(after, type)
  <2>1. after.shown[type] = IF type \in applied THEN kept.store[type] ELSE widget.shown[type]
    BY <1>3, <1>5, <1>9
  <2>2. IsTold(after, type) <=> after.shown[type] = after.store[type] \/ type \in after.pending
    BY <1>5, <1>9, <1>10 DEF IsTold
  <2>3. type \in applied \/ type \in after.pending
    BY <1>5
  <2> QED
    BY <2>1, <2>2, <2>3, <1>5
<1> QED
  BY <1>4, <1>5, <1>7, <1>8, <1>9, <1>10 DEF after, types

\* A record that is applied in place registers what the one before it did.
LEMMA InPlaceKeepsRegistered ==
    ASSUME NEW editor, NEW previous, NEW properties, Edits!IsInPlace(editor.type, previous, properties)
    PROVE  /\ Edits!IconTypeOf(properties) = Edits!IconTypeOf(previous)
           /\ RegisteredFor(editor, properties) = RegisteredFor(editor, previous)
<1>1. ~Edits!AppliesInPlace(editor.type, properties, "ICON_TYPE")
  BY DEF Edits!AppliesInPlace, Edits!IsCommonInPlaceProperty, Edits!ColorTypes, Edits!AnchorTypes, Edits!AnimationTypes,
         Edits!ShapeTypes
<1>2. ~Edits!IsChanged(previous, properties, "ICON_TYPE")
  BY <1>1 DEF Edits!IsInPlace, Edits!IsChanged
<1>3. Edits!IconTypeOf(properties) = Edits!IconTypeOf(previous)
  BY <1>2 DEF Edits!IconTypeOf, Edits!IsChanged
<1> QED
  BY <1>3 DEF RegisteredFor

\* What is stored of a property that a record changes.
StoredOf(store, editor, properties, type) ==
    IF type \in DOMAIN properties /\ Edits!Accepts(store, type, properties[type])
    THEN properties[type] ELSE RegisteredFor(editor, properties)[type]

\* What is stored of a property that is applied in place is what a widget that is built anew would hold.
LEMMA AppliedIsSeeded ==
    ASSUME NEW editor, NEW previous, NEW properties, Edits!IsInPlace(editor.type, previous, properties),
           NEW type \in DOMAIN RegisteredFor(editor, properties),
           NEW store, DOMAIN store = DOMAIN RegisteredFor(editor, properties)
    PROVE  /\ ~Edits!IsChanged(previous, properties, type) =>
                 SeededFor(editor, previous)[type] = SeededFor(editor, properties)[type]
           /\ Edits!IsChanged(previous, properties, type) =>
                 /\ Edits!AppliesInPlace(editor.type, properties, type)
                 /\ SeededFor(editor, properties)[type] = StoredOf(store, editor, properties, type)
<1> DEFINE registered == RegisteredFor(editor, properties)
<1>1. registered = RegisteredFor(editor, previous)
  BY InPlaceKeepsRegistered
<1> HIDE DEF registered
<1>2. \A record : Edits!Seeded(registered, record)[type] =
          IF type \in DOMAIN record \ Edits!LayoutTypes /\ Edits!Accepts(registered, type, record[type])
          THEN record[type] ELSE registered[type]
  BY DEF Edits!Seeded, Edits!Set, registered
<1>3. \A value : Edits!Accepts(store, type, value) <=> Edits!Accepts(registered, type, value)
  BY DEF Edits!Accepts, registered
<1>4. Edits!IsChanged(previous, properties, type) => Edits!AppliesInPlace(editor.type, properties, type)
  BY DEF Edits!IsInPlace, Edits!IsChanged
<1>5. Edits!AppliesInPlace(editor.type, properties, type) => type \notin Edits!LayoutTypes
  BY DEF Edits!AppliesInPlace, Edits!IsCommonInPlaceProperty, Edits!ColorTypes, Edits!AnchorTypes, Edits!AnimationTypes,
         Edits!ShapeTypes, Edits!LayoutTypes
<1>6. ~Edits!IsChanged(previous, properties, type) =>
          /\ type \in DOMAIN previous <=> type \in DOMAIN properties
          /\ type \in DOMAIN previous => previous[type] = properties[type]
  BY DEF Edits!IsChanged
<1>7. /\ SeededFor(editor, previous) = Edits!Seeded(registered, previous)
      /\ SeededFor(editor, properties) = Edits!Seeded(registered, properties)
  BY <1>1 DEF SeededFor, registered
<1>8. ~Edits!IsChanged(previous, properties, type) =>
          SeededFor(editor, previous)[type] = SeededFor(editor, properties)[type]
  BY <1>2, <1>6, <1>7
<1> QED
  BY <1>2, <1>3, <1>4, <1>5, <1>7, <1>8 DEF registered, StoredOf

LEMMA PropertyApplies ==
    ASSUME NEW editor \in Editors, NEW previous, NEW properties, Edits!IsInPlace(editor.type, previous, properties),
           NEW widget, NEW done, IsHalfEdited(widget, editor, previous, properties, done),
           NEW type \in DOMAIN RegisteredFor(editor, properties)
    PROVE  IsHalfEdited(Edits!ApplyEditorProperty(widget, previous, type), editor, previous, properties,
                        done \union {type})
<1> DEFINE types == DOMAIN RegisteredFor(editor, properties)
           after == Edits!ApplyEditorProperty(widget, previous, type)
           seeded(t, some) == SeededFor(editor, IF t \in some THEN properties ELSE previous)[t]
           more == done \union {type}
<1>1. IsWidgetOf(widget, editor, properties)
  BY DEF IsHalfEdited
<1>2. \A t \in types \ editor.bound : widget.store[t] = seeded(t, done) /\ IsTold(widget, t)
  BY DEF IsHalfEdited
<1>3. CASE type \in editor.bound \/ ~Edits!IsChanged(previous, properties, type)
  <2>1. after = widget
    BY <1>1, <1>3 DEF Edits!ApplyEditorProperty, IsWidgetOf
  <2>2. \A t \in types \ editor.bound : seeded(t, more) = seeded(t, done)
    <3>1. type \notin editor.bound => SeededFor(editor, previous)[type] = SeededFor(editor, properties)[type]
      BY <1>1, <1>3, AppliedIsSeeded DEF IsWidgetOf
    <3> QED
      BY <3>1
  <2> QED
    BY <1>1, <1>2, <2>1, <2>2 DEF IsHalfEdited
<1>4. CASE type \notin editor.bound /\ Edits!IsChanged(previous, properties, type)
  <2> DEFINE value == StoredOf(widget.store, editor, properties, type)
  <2>1. after = Edits!Stores(widget, type, value)
    BY <1>1, <1>4 DEF Edits!ApplyEditorProperty, Edits!Registered, RegisteredFor, IsWidgetOf, StoredOf
  <2>2. SeededFor(editor, properties)[type] = value /\ Edits!AppliesInPlace(editor.type, properties, type)
    <3>1. DOMAIN widget.store = DOMAIN RegisteredFor(editor, properties)
      BY <1>1 DEF IsWidgetOf
    <3> QED
      <4> DEFINE kept == widget.store
      <4>1. DOMAIN kept = DOMAIN RegisteredFor(editor, properties)
        BY <3>1
      <4>2. Edits!IsChanged(previous, properties, type)
        BY <1>4
      <4>3. value = StoredOf(kept, editor, properties, type)
        OBVIOUS
      <4> HIDE DEF kept, value
      <4>4. SeededFor(editor, properties)[type] = StoredOf(kept, editor, properties, type)
        BY <4>1, <4>2, AppliedIsSeeded, ZenonT(30) DEF StoredOf
      <4> QED
        BY <4>1, <4>2, <4>3, <4>4, AppliedIsSeeded
  <2>3. Edits!Shows(editor.type, Edits!IconTypeOf(properties), type)
    BY <2>2, InPlaceIsShown, EditorsAssumption DEF RegisteredFor, WidgetTypes, Edits!WidgetTypes
  <2> HIDE DEF value, types, after
  <2>4. IsWidgetOf(after, editor, properties)
    BY <1>1, <2>1, StoresTells
  <2>5. \A t \in types : after.store[t] = IF t = type THEN value ELSE widget.store[t]
    BY <1>1, <2>1, StoresTells DEF types
  <2>6. \A t \in types \ {type} : IsTold(widget, t) => IsTold(after, t)
    BY <1>1, <2>1, StoresTells DEF types
  <2>7. IsTold(after, type)
    BY <1>1, <2>1, <2>3, StoresTells
  <2>8. ASSUME NEW t \in types \ editor.bound PROVE after.store[t] = seeded(t, more) /\ IsTold(after, t)
    BY <1>2, <2>2, <2>5, <2>6, <2>7
  <2> HIDE DEF more
  <2> QED
    BY <2>4, <2>8 DEF IsHalfEdited, types, after, more
<1> QED
  BY <1>3, <1>4

\* And so of every property in turn, in whatever order.
LEMMA PropertiesApply ==
    ASSUME NEW editor \in Editors, NEW previous, NEW properties, Edits!IsInPlace(editor.type, previous, properties),
           NEW widget, NEW done, IsHalfEdited(widget, editor, previous, properties, done),
           NEW types, types \subseteq DOMAIN RegisteredFor(editor, properties)
    PROVE  IsHalfEdited(Edits!ApplyEach(widget, previous, types), editor, previous, properties, done \union types)
<1>1. IsFiniteSet(types)
  <2>1. editor.type \in Edits!WidgetTypes
    BY EditorsAssumption DEF WidgetTypes, Edits!WidgetTypes
  <2>2. types \in SUBSET Edits!WidgetPropertyTypes
    BY <2>1, RegisteredIsWithin DEF RegisteredFor
  <2> QED
    BY <2>2, TypesAreFinite, FS_Subset
<1>2. PICK fold : IsApplied(fold, widget, previous, types)
  BY <1>1, EachApplies
<1> DEFINE Good(s) == IsHalfEdited(fold[s], editor, previous, properties, done \union s)
           Q == {s \in SUBSET types : Good(s)}
<1>3. {} \in Q
  <2>1. done \union {} = done /\ {} \in SUBSET types
    OBVIOUS
  <2>2. Good({})
    BY <1>2, <2>1, Zenon DEF IsApplied
  <2> QED
    BY <2>1, <2>2
<1>4. ASSUME NEW s \in SUBSET types, s # {}, \A x \in s : s \ {x} \in Q PROVE s \in Q
  <2>1. PICK type \in s : fold[s] = Edits!ApplyEditorProperty(fold[s \ {type}], previous, type)
    BY <1>2, <1>4 DEF IsApplied
  <2>2. Good(s \ {type})
    BY <1>4
  <2>3. type \in DOMAIN RegisteredFor(editor, properties)
    OBVIOUS
  <2>4. IsHalfEdited(fold[s], editor, previous, properties, (done \union (s \ {type})) \union {type})
    <3> DEFINE before == fold[s \ {type}]
               less == done \union (s \ {type})
    <3>1. IsHalfEdited(before, editor, previous, properties, less)
      BY <2>2
    <3> HIDE DEF before, less
    <3>2. IsHalfEdited(Edits!ApplyEditorProperty(before, previous, type), editor, previous, properties,
                       less \union {type})
      BY <2>3, <3>1, PropertyApplies
    <3> QED
      BY <2>1, <3>2 DEF before, less
  <2>5. (done \union (s \ {type})) \union {type} = done \union s
    OBVIOUS
  <2>6. Good(s)
    BY <2>4, <2>5, Zenon
  <2> HIDE DEF Good
  <2> QED
    BY <2>6
<1> HIDE DEF Q
<1>5. SUBSET types \subseteq Q
  BY <1>1, <1>3, <1>4, FinitelyMany
<1>6. types \in Q
  BY <1>5
<1>7. IsHalfEdited(fold[types], editor, previous, properties, done \union types)
  BY <1>6, Zenon DEF Q
<1> QED
  BY <1>2, <1>7, Zenon DEF IsApplied

\* Where all are applied, the record before does not matter.
LEMMA AllAreApplied ==
    ASSUME NEW editor, NEW previous, NEW properties, NEW widget, NEW done,
           IsHalfEdited(widget, editor, previous, properties, done),
           DOMAIN RegisteredFor(editor, properties) \subseteq done
    PROVE  IsHalfEdited(widget, editor, properties, properties, {})
BY DEF IsHalfEdited

LEMMA ConfigurationApplies ==
    ASSUME NEW editor \in Editors, NEW previous, NEW properties, Edits!IsInPlace(editor.type, previous, properties),
           NEW widget, IsHalfEdited(widget, editor, previous, previous, {})
    PROVE  IsHalfEdited(Edits!ApplyEditorConfiguration(widget, properties), editor, properties, properties, {})
<1> DEFINE given == [widget EXCEPT !.properties = properties]
           types == DOMAIN widget.store
           first == types \intersect Edits!ManagementTypes
           second == types \ (Edits!ManagementTypes \union {"VALUE"})
           last == types \intersect {"VALUE"}
           managed == Edits!ApplyEach(given, previous, first)
           drawn == Edits!ApplyEach(managed, previous, second)
           after == Edits!ApplyEach(drawn, previous, last)
<1>1. IsWidgetOf(widget, editor, previous)
  BY DEF IsHalfEdited
<1>2. types = DOMAIN RegisteredFor(editor, properties)
  BY <1>1, InPlaceKeepsRegistered DEF IsWidgetOf
<1>3. IsHalfEdited(given, editor, previous, properties, {})
  <2>1. /\ {"editor", "properties", "store", "shown", "pending"} \subseteq DOMAIN given
        /\ given.editor = editor /\ given.properties = properties /\ given.store = widget.store
        /\ given.shown = widget.shown /\ given.pending = widget.pending
    BY <1>1 DEF IsWidgetOf
  <2> HIDE DEF given
  <2>2. IsWidgetOf(given, editor, properties)
    BY <1>1, <2>1, InPlaceKeepsRegistered DEF IsWidgetOf
  <2>3. ASSUME NEW type \in types \ editor.bound
        PROVE  given.store[type] = SeededFor(editor, previous)[type] /\ IsTold(given, type)
    <3>1. widget.store[type] = SeededFor(editor, previous)[type] /\ IsTold(widget, type)
      BY <1>1 DEF IsHalfEdited, IsWidgetOf
    <3>2. /\ Edits!IconTypeOf(properties) = Edits!IconTypeOf(previous)
          /\ widget.properties = previous /\ widget.editor = editor
      BY <1>1, InPlaceKeepsRegistered DEF IsWidgetOf
    <3> QED
      BY <2>1, <3>1, <3>2 DEF IsTold
  <2> HIDE DEF types
  <2> QED
    BY <1>2, <2>2, <2>3 DEF IsHalfEdited
<1>4. first \subseteq types /\ second \subseteq types /\ last \subseteq types
  OBVIOUS
<1>5. Edits!ApplyEditorConfiguration(widget, properties) = after
  <2>1. widget.properties = previous
    BY <1>1 DEF IsWidgetOf
  <2> QED
    BY <2>1, Zenon DEF Edits!ApplyEditorConfiguration
<1>6. types \subseteq (({} \union first) \union second) \union last
  OBVIOUS
<1> HIDE DEF given, types, first, second, last, managed, drawn, after
<1>7. IsHalfEdited(managed, editor, previous, properties, {} \union first)
  BY <1>2, <1>3, <1>4, PropertiesApply, Zenon DEF managed
<1>8. IsHalfEdited(drawn, editor, previous, properties, ({} \union first) \union second)
  BY <1>2, <1>4, <1>7, PropertiesApply, Zenon DEF drawn
<1>9. IsHalfEdited(after, editor, previous, properties, (({} \union first) \union second) \union last)
  BY <1>2, <1>4, <1>8, PropertiesApply, Zenon DEF after
<1>10. IsHalfEdited(after, editor, properties, properties, {})
  BY <1>2, <1>6, <1>9, AllAreApplied, Zenon
<1> QED
  BY <1>5, <1>10, Zenon

LEMMA NewIsEdited ==
    ASSUME NEW editor, NEW properties
    PROVE  /\ Edits!Built(editor, properties).editor = editor
           /\ Edits!Built(editor, properties).properties = properties
           /\ IsHalfEdited(Edits!Built(editor, properties), editor, properties, properties, {})
<1> DEFINE built == Edits!Built(editor, properties)
           store == SeededFor(editor, properties)
<1>1. /\ {"editor", "properties", "store", "shown", "pending"} \subseteq DOMAIN built
      /\ built.editor = editor /\ built.properties = properties /\ built.store = store /\ built.shown = store
      /\ Edits!IsProcessingEligible(store) => built.pending = {}
  BY DEF Edits!Built, SeededFor, RegisteredFor
<1>2. DOMAIN store = DOMAIN RegisteredFor(editor, properties)
  BY DEF SeededFor, Edits!Seeded
<1> HIDE DEF built, store
<1>3. IsWidgetOf(built, editor, properties)
  BY <1>1, <1>2 DEF IsWidgetOf
<1>4. \A type : IsTold(built, type)
  BY <1>1 DEF IsTold
<1>5. IsHalfEdited(built, editor, properties, properties, {})
  BY <1>1, <1>3, <1>4 DEF IsHalfEdited, store
<1> QED
  BY <1>1, <1>5 DEF built

\* An event is of a property that it drives.
LEMMA EventIsEdited ==
    ASSUME NEW editor, NEW properties, NEW widget, IsHalfEdited(widget, editor, properties, properties, {}),
           NEW type \in editor.bound \intersect DOMAIN RegisteredFor(editor, properties), NEW value
    PROVE  IsHalfEdited(Edits!Stores(widget, type, value), editor, properties, properties, {})
<1>1. IsWidgetOf(widget, editor, properties)
  BY DEF IsHalfEdited
<1>2. IsWidgetOf(Edits!Stores(widget, type, value), editor, properties)
  BY <1>1, StoresTells
<1>3. ASSUME NEW t \in DOMAIN RegisteredFor(editor, properties) \ editor.bound
      PROVE  /\ Edits!Stores(widget, type, value).store[t] = SeededFor(editor, properties)[t]
             /\ IsTold(Edits!Stores(widget, type, value), t)
  <2>1. widget.store[t] = SeededFor(editor, properties)[t] /\ IsTold(widget, t) /\ t # type
    BY DEF IsHalfEdited
  <2>2. Edits!Stores(widget, type, value).store[t] = widget.store[t]
    BY <1>1, <2>1, StoresTells
  <2>3. IsTold(Edits!Stores(widget, type, value), t)
    BY <1>1, <2>1, StoresTells
  <2> QED
    BY <2>1, <2>2, <2>3
<1> QED
  BY <1>2, <1>3 DEF IsHalfEdited

-----------------------------------------------------------------------------
LEMMA EditedInitially == ConfigurationsInit => EditedInv
<1> SUFFICES ASSUME ConfigurationsInit, edited # NoEditor
    PROVE /\ edited.editor \in Editors
          /\ IsHalfEdited(edited, edited.editor, edited.properties, edited.properties, {})
  BY DEF EditedInv
<1>1. Edits!Init
  BY DEF ConfigurationsInit
<1>2. PICK editor \in Editors : \E properties \in editor.records : edited = Edits!Built(editor, properties)
  BY <1>1 DEF Edits!Init
<1> QED
  BY <1>2, NewIsEdited

LEMMA EditedNext == EditedInv /\ [ConfigurationsNext]_allVars => EditedInv'
<1> SUFFICES ASSUME EditedInv, [ConfigurationsNext]_allVars PROVE EditedInv'
  OBVIOUS
<1>1. CASE UNCHANGED edited
  BY <1>1 DEF EditedInv, IsHalfEdited, IsWidgetOf, IsTold
<1>2. CASE EditScene
  <2> DEFINE editor == edited.editor
             properties == edited.properties
  <2>1. editor \in Editors /\ IsHalfEdited(edited, editor, properties, properties, {})
    BY <1>2 DEF EditScene, EditedInv
  <2>2. ASSUME NEW record, edited'.editor = editor, edited'.properties = record,
               IsHalfEdited(edited', editor, record, record, {})
        PROVE  EditedInv'
    <3> HIDE DEF editor, properties
    <3>1. /\ edited'.editor \in Editors
          /\ IsHalfEdited(edited', edited'.editor, edited'.properties, edited'.properties, {})
      BY <2>1, <2>2
    <3> QED
      BY <3>1 DEF EditedInv
  <2>3. ASSUME NEW record, Edits!Edit(record) PROVE EditedInv'
    <3>1. CASE Edits!IsInPlace(editor.type, properties, record)
      <4>1. edited' = Edits!ApplyEditorConfiguration(edited, record)
        BY <2>3, <3>1 DEF Edits!Edit
      <4>2. IsHalfEdited(edited', editor, record, record, {})
        BY <2>1, <3>1, <4>1, ConfigurationApplies
      <4>3. edited'.editor = editor /\ edited'.properties = record
        BY <4>2 DEF IsHalfEdited, IsWidgetOf
      <4> QED
        BY <2>2, <4>2, <4>3
    <3>2. CASE ~Edits!IsInPlace(editor.type, properties, record)
      <4>1. edited' = Edits!Built(editor, record)
        BY <2>3, <3>2 DEF Edits!Edit
      <4> QED
        BY <2>2, <4>1, NewIsEdited
    <3> QED
      BY <3>1, <3>2
  <2>4. ASSUME NEW type \in editor.bound, NEW data, Edits!Event(type, data) PROVE EditedInv'
    <3>1. PICK value : Edits!Accepts(edited.store, type, value) /\ edited' = Edits!Stores(edited, type, value)
      BY <2>4 DEF Edits!Event
    <3>2. type \in DOMAIN RegisteredFor(editor, properties)
      BY <2>1, <3>1 DEF Edits!Accepts, IsHalfEdited, IsWidgetOf
    <3>3. IsHalfEdited(edited', editor, properties, properties, {})
      BY <2>1, <3>1, <3>2, EventIsEdited
    <3>4. edited'.editor = editor /\ edited'.properties = properties
      BY <3>3 DEF IsHalfEdited, IsWidgetOf
    <3> QED
      BY <2>2, <3>3, <3>4
  <2> QED
    BY <1>2, <2>3, <2>4 DEF EditScene, Edits!Next
<1> QED
  BY <1>1, <1>2 DEF ConfigurationsNext, PatchScene, StoreScene, allVars

LEMMA EditedIsRight == EditedInv => EditedIsAsBuilt
<1> SUFFICES ASSUME EditedInv, edited # NoEditor, Edits!IsProcessingEligible(edited.store)
    PROVE  LET built == Edits!Built(edited.editor, edited.properties)
           IN  /\ edited.pending = {}
               /\ \A type \in DOMAIN edited.store \ edited.editor.bound :
                     edited.store[type] = built.store[type] /\ edited.shown[type] = built.shown[type]
  BY DEF EditedIsAsBuilt, Edits!EditedIsAsBuilt
<1> DEFINE editor == edited.editor
           properties == edited.properties
<1>1. IsHalfEdited(edited, editor, properties, properties, {})
  BY DEF EditedInv
<1>2. IsWidgetOf(edited, editor, properties)
  BY <1>1 DEF IsHalfEdited
<1>3. edited.pending = {} /\ DOMAIN edited.store = DOMAIN RegisteredFor(editor, properties)
  BY <1>2 DEF IsWidgetOf
<1>4. /\ Edits!Built(editor, properties).store = SeededFor(editor, properties)
      /\ Edits!Built(editor, properties).shown = SeededFor(editor, properties)
  BY DEF Edits!Built, SeededFor, RegisteredFor
<1>5. ASSUME NEW type \in DOMAIN edited.store \ editor.bound
      PROVE  /\ edited.store[type] = SeededFor(editor, properties)[type]
             /\ edited.shown[type] = SeededFor(editor, properties)[type]
  <2>1. edited.store[type] = SeededFor(editor, properties)[type] /\ IsTold(edited, type)
    BY <1>1, <1>3 DEF IsHalfEdited
  <2> QED
    BY <1>3, <2>1 DEF IsTold
<1> QED
  BY <1>3, <1>4, <1>5

\* A widget that can be seen holds and shows of its record, but for what
\* events drive, what one built from the record would, whatever an editor
\* changed in whatever order (ui_patch.cpp: AppliesInPlace; widget_base.cpp:
\* ApplyEditorConfiguration).
THEOREM EditedIsAsBuiltHolds == ConfigurationsSpec => []EditedIsAsBuilt
<1>1. ConfigurationsInit => EditedInv
  BY EditedInitially
<1>2. EditedInv /\ [ConfigurationsNext]_allVars => EditedInv'
  BY EditedNext
<1>3. EditedInv => EditedIsAsBuilt
  BY EditedIsRight
<1> QED
  BY <1>1, <1>2, <1>3, PTL DEF ConfigurationsSpec
=============================================================================
