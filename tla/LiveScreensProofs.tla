-------------------------- MODULE LiveScreensProofs --------------------------
(***************************************************************************)
(* That patches arrive where a whole show does (LiveIsAsBuilt), for every  *)
(* set of clients.  The plan has at most one patch of each screen, and of  *)
(* each root of one.  While it is worked off, in either, what had its      *)
(* patch is as the new configuration has it and what had none yet as the   *)
(* old one; at the end what never had one is the same in both, and the     *)
(* order that is put last is the one a whole show has.                     *)
(*                                                                         *)
(* And that the client is told what became of the widgets (BuiltIsTold and *)
(* EffectsAreTrue).  What the plan makes anew differs in the two           *)
(* configurations, what differs was asked for by an operation on its       *)
(* screen, and that one reports what the plan makes of its root.  Nothing  *)
(* else on the screens is built.                                           *)
(***************************************************************************)
EXTENDS ScreensProofs

-----------------------------------------------------------------------------
(* A screen, patched. *)

\* A screen that is not rebuilt is where it was.
LEMMA FrameStays ==
    ASSUME NEW old, IsGoodScreen(old), NEW new, IsGoodScreen(new), ClassifyScreenChange(old, new) # "rebuild"
    PROVE  old.id = new.id /\ old.group = new.group /\ old.z = new.z /\ old.overlay = new.overlay
<1>1. [old EXCEPT !.widgets = <<>>] = [new EXCEPT !.widgets = <<>>]
  BY Zenon DEF ClassifyScreenChange
<1>2. /\ old = [id |-> old.id, group |-> old.group, z |-> old.z, overlay |-> old.overlay, frame |-> old.frame,
                widgets |-> old.widgets]
      /\ new = [id |-> new.id, group |-> new.group, z |-> new.z, overlay |-> new.overlay, frame |-> new.frame,
                widgets |-> new.widgets]
  BY DEF IsGoodScreen, IsScreen
<1>3. /\ [old EXCEPT !.widgets = <<>>].id = old.id /\ [old EXCEPT !.widgets = <<>>].z = old.z
      /\ [old EXCEPT !.widgets = <<>>].group = old.group /\ [old EXCEPT !.widgets = <<>>].overlay = old.overlay
  BY <1>2
<1>4. /\ [new EXCEPT !.widgets = <<>>].id = new.id /\ [new EXCEPT !.widgets = <<>>].z = new.z
      /\ [new EXCEPT !.widgets = <<>>].group = new.group /\ [new EXCEPT !.widgets = <<>>].overlay = new.overlay
  BY <1>2
<1> QED
  BY <1>1, <1>3, <1>4

\* The lists of the roots of two screens with the same roots in the same order.
LEMMA RootsAsListed ==
    ASSUME NEW before, NEW after, IdsInOrder(Roots(before)) = IdsInOrder(Roots(after))
    PROVE  /\ DOMAIN Roots(before) = DOMAIN Roots(after)
           /\ \A i \in DOMAIN Roots(after) : Roots(before)[i].id = Roots(after)[i].id
<1>1. ASSUME NEW list
      PROVE  /\ DOMAIN IdsInOrder(list) = DOMAIN list
             /\ \A i \in DOMAIN list : IdsInOrder(list)[i] = list[i].id
  BY DEF IdsInOrder
<1> QED
  BY <1>1, Zenon

\* A screen without a patch draws what it did, in the order it did.
LEMMA UnplannedIsSame ==
    ASSUME NEW old, IsGoodScreen(old), NEW new, IsGoodScreen(new), PlanScreen(old, new) = <<>>
    PROVE  /\ old.id = new.id /\ old.group = new.group /\ old.z = new.z /\ old.overlay = new.overlay
           /\ \A id \in RootIds(new.widgets) :
                 /\ OwnedIds(old.widgets, id) = OwnedIds(new.widgets, id)
                 /\ \A k \in OwnedIds(new.widgets, id) : Find(old.widgets, k) = Find(new.widgets, k)
           /\ DOMAIN Roots(old.widgets) = DOMAIN Roots(new.widgets)
           /\ \A i \in DOMAIN Roots(new.widgets) : Roots(old.widgets)[i].id = Roots(new.widgets)[i].id
<1>1. CASE old = new
  BY <1>1
<1>2. CASE old # new
  <2> DEFINE before == old.widgets
             after == new.widgets
  <2>1. old # NoScreen
    BY ScreenIsRecord DEF IsGoodScreen
  <2>2. /\ ClassifyScreenChange(old, new) # "rebuild"
        /\ PlanWidgets(before, after) = <<>> /\ ~Reorders(before, after)
    <3>1. \A action, widgets : <<PatchOf(old, new, action, widgets)>> # <<>>
      OBVIOUS
    <3> QED
      BY <1>2, <2>1, <3>1, ScreenIsPlanned, Zenon
  <2>3. /\ RootIds(before) = RootIds(after)
        /\ \A id \in RootIds(after) :
              /\ OwnedIds(before, id) = OwnedIds(after, id)
              /\ \A k \in OwnedIds(after, id) : Find(before, k) = Find(after, k)
    BY <2>2, NothingPlanned
  <2>4. IdsInOrder(Roots(before)) = IdsInOrder(Roots(after))
    <3>1. KeptRoots(before, after) = KeptRoots(after, before)
      BY <2>2 DEF Reorders
    <3>2. KeptRoots(before, after) = IdsInOrder(Roots(before)) /\ KeptRoots(after, before) = IdsInOrder(Roots(after))
      BY <2>3, RootsInOrder
    <3> QED
      BY <3>1, <3>2
  <2> QED
    <3>1. old.id = new.id /\ old.group = new.group /\ old.z = new.z /\ old.overlay = new.overlay
      BY <2>2, FrameStays
    <3>2. /\ DOMAIN Roots(before) = DOMAIN Roots(after)
          /\ \A i \in DOMAIN Roots(after) : Roots(before)[i].id = Roots(after)[i].id
      BY <2>4, RootsAsListed, Zenon
    <3> QED
      BY <2>3, <3>1, <3>2, Zenon
<1> QED
  BY <1>1, <1>2

\* What there is of a list of roots.
LEMMA RootsHaveLength ==
    ASSUME NEW s, IsGoodScreen(s)
    PROVE  Len(Roots(s.widgets)) \in Nat /\ DOMAIN Roots(s.widgets) = 1 .. Len(Roots(s.widgets))
<1> DEFINE roots == Roots(s.widgets)
<1>1. roots \in Seq(ToSet(s.widgets))
  BY RootsAreThere
<1> HIDE DEF roots
<1>2. Len(roots) \in Nat /\ DOMAIN roots = 1 .. Len(roots)
  BY <1>1
<1> QED
  BY <1>2 DEF roots

\* What showed the old screen shows a new one that has no patch.
LEMMA UnplannedShows ==
    ASSUME NEW old, IsGoodScreen(old), NEW new, IsGoodScreen(new), PlanScreen(old, new) = <<>>,
           NEW s, ShowsScreen(s, old)
    PROVE  ShowsScreen(s, new)
<1> DEFINE n == Len(Roots(new.widgets))
<1>1. /\ old.id = new.id /\ old.z = new.z
      /\ \A id \in RootIds(new.widgets) :
            /\ OwnedIds(old.widgets, id) = OwnedIds(new.widgets, id)
            /\ \A k \in OwnedIds(new.widgets, id) : Find(old.widgets, k) = Find(new.widgets, k)
      /\ DOMAIN Roots(old.widgets) = DOMAIN Roots(new.widgets)
      /\ \A i \in DOMAIN Roots(new.widgets) : Roots(old.widgets)[i].id = Roots(new.widgets)[i].id
  <2>1. old.id = new.id /\ old.z = new.z
    BY UnplannedIsSame
  <2>2. \A id \in RootIds(new.widgets) :
            /\ OwnedIds(old.widgets, id) = OwnedIds(new.widgets, id)
            /\ \A k \in OwnedIds(new.widgets, id) : Find(old.widgets, k) = Find(new.widgets, k)
    BY UnplannedIsSame
  <2>3. /\ DOMAIN Roots(old.widgets) = DOMAIN Roots(new.widgets)
        /\ \A i \in DOMAIN Roots(new.widgets) : Roots(old.widgets)[i].id = Roots(new.widgets)[i].id
    BY UnplannedIsSame
  <2> QED
    BY <2>1, <2>2, <2>3, Zenon
<1>2. n \in Nat /\ DOMAIN Roots(new.widgets) = 1 .. n /\ Len(Roots(old.widgets)) = n
  <2>1. /\ n \in Nat /\ DOMAIN Roots(new.widgets) = 1 .. n
        /\ Len(Roots(old.widgets)) \in Nat /\ DOMAIN Roots(old.widgets) = 1 .. Len(Roots(old.widgets))
    BY RootsHaveLength
  <2>2. \A i, j \in Nat : 1 .. i = 1 .. j => i = j
    <3> SUFFICES ASSUME NEW i \in Nat, NEW j \in Nat, 1 .. i = 1 .. j PROVE i = j
      OBVIOUS
    <3>1. i > 0 => i \in 1 .. j
      OBVIOUS
    <3>2. j > 0 => j \in 1 .. i
      OBVIOUS
    <3> QED
      BY <3>1, <3>2
  <2> HIDE DEF n
  <2> QED
    BY <1>1, <2>1, <2>2
<1>3. /\ s = [id |-> old.id, z |-> old.z, roots |-> s.roots] /\ IsList(s.roots) /\ Len(s.roots) = n
      /\ \A r \in 1 .. n : s.roots[r].id = Roots(old.widgets)[r].id /\ ShowsRoot(s.roots[r], old.widgets)
  BY <1>2, Zenon DEF ShowsScreen
<1> HIDE DEF n
<1>4. ASSUME NEW r \in 1 .. n
      PROVE  s.roots[r].id = Roots(new.widgets)[r].id /\ ShowsRoot(s.roots[r], new.widgets)
  <2> DEFINE root == s.roots[r]
  <2>1. root.id = Roots(new.widgets)[r].id /\ ShowsRoot(root, old.widgets)
    BY <1>1, <1>2, <1>3
  <2>2. root.id \in RootIds(new.widgets)
    BY <2>1, RootsAreThere DEF n
  <2>3. /\ OwnedIds(old.widgets, root.id) = OwnedIds(new.widgets, root.id)
        /\ \A k \in OwnedIds(new.widgets, root.id) : Find(old.widgets, k) = Find(new.widgets, k)
    BY <1>1, <2>2
  <2> HIDE DEF root
  <2>4. ShowsRoot(root, new.widgets)
    BY <2>1, <2>3, RootStays
  <2> QED
    BY <2>1, <2>4 DEF root
<1>5. s = [id |-> new.id, z |-> new.z, roots |-> s.roots]
  BY <1>1, <1>3
<1> QED
  BY <1>3, <1>4, <1>5, Zenon DEF ShowsScreen, n

\* The roots of a screen that shows a configuration's are those of that configuration.
LEMMA RootsBefore ==
    ASSUME NEW old, IsGoodScreen(old), NEW after, NEW s, ShowsScreen(s, old)
    PROVE  RootsAreAt(s.roots, old.widgets, after, {})
<1> DEFINE roots == s.roots
           listed == Roots(old.widgets)
           n == Len(listed)
<1>1. /\ IsList(roots) /\ Len(roots) = n
      /\ \A r \in 1 .. n : roots[r].id = listed[r].id /\ ShowsRoot(roots[r], old.widgets)
  BY Zenon DEF ShowsScreen
<1>2. listed \in Seq(ToSet(old.widgets)) /\ IsUnique(listed) /\ Ids(listed) = RootIds(old.widgets)
  BY RootsAreThere
<1>3. roots \in Seq(ToSet(roots))
  BY <1>1 DEF IsList
<1> HIDE DEF roots, listed, n
<1>4. IsUnique(roots)
  BY <1>1, <1>2 DEF IsUnique, n
<1>5. Ids(roots) = RootIds(old.widgets)
  <2>1. /\ \A id : id \in Ids(roots) <=> \E i \in 1 .. Len(roots) : roots[i].id = id
        /\ \A id : id \in Ids(listed) <=> \E i \in 1 .. n : listed[i].id = id
    BY <1>2, <1>3, IdsOfPlaces DEF n
  <2> QED
    BY <1>1, <1>2, <2>1
<1> QED
  BY <1>1, <1>4, <1>5 DEF RootsAreAt, roots

\* Once all patches are done, the roots in their order are those the new screen has.
LEMMA RootsAfter ==
    ASSUME NEW old, IsGoodScreen(old), NEW new, IsGoodScreen(new),
           NEW roots, RootsAreAt(roots, old.widgets, new.widgets, Ids(PlanWidgets(old.widgets, new.widgets)))
    PROVE  /\ IsList(ApplyRootOrder(roots, new))
           /\ Len(ApplyRootOrder(roots, new)) = Len(Roots(new.widgets))
           /\ \A r \in 1 .. Len(Roots(new.widgets)) :
                 /\ ApplyRootOrder(roots, new)[r].id = Roots(new.widgets)[r].id
                 /\ ShowsRoot(ApplyRootOrder(roots, new)[r], new.widgets)
<1> DEFINE before == old.widgets
           after == new.widgets
           planned == Ids(PlanWidgets(before, after))
           listed == Roots(after)
           ordered == ApplyRootOrder(roots, new)
<1>1. /\ listed \in Seq(ToSet(after)) /\ InOrderOfZ(listed) /\ Ids(listed) = RootIds(after)
  BY RootsAreThere
<1>2. InZOrder(listed) = listed
  <2>1. \A w \in ToSet(after) : w.z \in Int
    BY GoodWidgets
  <2> HIDE DEF listed
  <2> QED
    BY <1>1, <2>1, OrderedStays
<1>3. ordered = InOrderOf(roots, listed)
  <2>1. ordered = InOrderOf(roots, InZOrder(listed))
    BY Zenon DEF ApplyRootOrder, InOrderOf
  <2> QED
    BY <1>2, <2>1
<1>4. /\ RootIds(before) \ RootIds(after) \subseteq planned
      /\ \A id \in RootIds(after) \ planned : RootChange(before, after, Find(after, id)) = <<>>
  BY WidgetsArePlanned, Zenon
<1> HIDE DEF planned, listed, ordered
<1>5. /\ roots \in Seq(ToSet(roots))
      /\ Ids(roots) = (RootIds(before) \ planned) \cup (RootIds(after) \cap planned)
      /\ \A i \in 1 .. Len(roots) : ShowsRoot(roots[i], IF roots[i].id \in planned THEN after ELSE before)
  BY DEF RootsAreAt, IsList, planned
<1>6. ASSUME NEW id \in RootIds(after) \ planned
      PROVE  /\ id \in RootIds(before)
             /\ OwnedIds(before, id) = OwnedIds(after, id)
             /\ \A k \in OwnedIds(after, id) : Find(before, k) = Find(after, k)
  <2> DEFINE w == Find(after, id)
  <2>1. w.id = id
    <3>1. id \in Ids(after)
      BY RootsAreThere
    <3>2. after \in Seq(ToSet(after))
      BY GoodWidgets
    <3> HIDE DEF after
    <3> QED
      BY <3>1, <3>2, FindsRecord
  <2>2. RootChange(before, after, w) = <<>>
    BY <1>4
  <2>3. id \in RootIds(before) /\ ~IsSubtreeChanged(before, after, id) /\ Find(before, id) = w
    <3>1. \/ /\ RootChange(before, after, w) = <<>>
             /\ w.id \in RootIds(before) /\ ~IsSubtreeChanged(before, after, w.id) /\ Find(before, w.id) = w
          \/ \E x : RootChange(before, after, w) = <<x>>
      BY RootIsPlanned
    <3>2. \A x : <<x>> # <<>>
      OBVIOUS
    <3> HIDE DEF w, before, after
    <3> QED
      BY <2>1, <2>2, <3>1, <3>2, Zenon
  <2>4. /\ OwnedIds(before, id) = OwnedIds(after, id)
        /\ \A k \in OwnedIds(after, id) \ {id} : Find(before, k) = Find(after, k)
    BY <2>3 DEF IsSubtreeChanged
  <2> QED
    BY <2>3, <2>4
<1>7. Ids(roots) = Ids(listed)
  <2>1. \A id \in RootIds(after) \ planned : id \in RootIds(before)
    BY <1>6
  <2> QED
    BY <1>1, <1>4, <1>5, <2>1
<1>8. ASSUME NEW k \in 1 .. Len(roots) PROVE ShowsRoot(roots[k], after)
  <2> DEFINE root == roots[k]
  <2>1. ShowsRoot(root, IF root.id \in planned THEN after ELSE before)
    BY <1>5
  <2>2. root.id \in RootIds(after)
    BY <1>1, <1>5, <1>7, IdsOfPlaces
  <2> HIDE DEF root
  <2>3. CASE root.id \in planned
    BY <2>1, <2>3 DEF root
  <2>4. CASE root.id \notin planned
    <3>1. ShowsRoot(root, before)
      BY <2>1, <2>4
    <3>2. /\ OwnedIds(before, root.id) = OwnedIds(after, root.id)
          /\ \A l \in OwnedIds(after, root.id) : Find(before, l) = Find(after, l)
      BY <1>6, <2>2, <2>4
    <3> QED
      BY <3>1, <3>2, RootStays DEF root
  <2> QED
    BY <2>3, <2>4
<1> HIDE DEF before, after
<1>9. /\ ordered \in Seq(ToSet(roots)) /\ Len(ordered) = Len(listed)
      /\ \A i \in 1 .. Len(listed) : ordered[i].id = listed[i].id /\ \E k \in 1 .. Len(roots) : ordered[i] = roots[k]
  <2>1. roots \in Seq(ToSet(roots)) /\ Ids(roots) = Ids(listed)
    BY <1>5, <1>7
  <2>2. listed \in Seq(ToSet(after))
    BY <1>1
  <2>3. InOrderOf(roots, listed) \in Seq(ToSet(roots)) /\ Len(InOrderOf(roots, listed)) = Len(listed)
    BY <2>1, <2>2, Reordered
  <2>4. ASSUME NEW i \in 1 .. Len(listed)
        PROVE  /\ InOrderOf(roots, listed)[i].id = listed[i].id
               /\ \E k \in 1 .. Len(roots) : InOrderOf(roots, listed)[i] = roots[k]
    BY <2>1, <2>2, Reordered
  <2> QED
    BY <1>3, <2>3, <2>4, Zenon
<1>10. \A r \in 1 .. Len(listed) : ordered[r].id = listed[r].id /\ ShowsRoot(ordered[r], after)
  BY <1>8, <1>9
<1>11. IsList(ordered)
  BY <1>9, SequenceIsList
<1> QED
  BY <1>9, <1>10, <1>11 DEF ordered, listed, after

\* A screen whose widgets are patched shows the screen the patch is for.
LEMMA WidgetsPatched ==
    ASSUME NEW old, IsGoodScreen(old), NEW new, IsGoodScreen(new), ClassifyScreenChange(old, new) # "rebuild",
           NEW patch, patch.new = new, patch.widgets = PlanWidgets(old.widgets, new.widgets),
           NEW s, ShowsScreen(s, old)
    PROVE  ShowsScreen(ApplyWidgetPatches(s, patch), new)
<1> DEFINE plan == PlanWidgets(old.widgets, new.widgets)
           reached == PatchRoots(s.roots, new, plan)
           ordered == ApplyRootOrder(reached, new)
           now == ApplyWidgetPatches(s, patch)
<1>1. s = [id |-> old.id, z |-> old.z, roots |-> s.roots]
  BY Zenon DEF ShowsScreen
<1>2. old.id = new.id /\ old.z = new.z
  BY FrameStays
<1>3. RootsAreAt(s.roots, old.widgets, new.widgets, {})
  BY RootsBefore
<1>4. RootsAreAt(reached, old.widgets, new.widgets, Ids(plan))
  BY <1>3, RootsArePatched
<1> HIDE DEF reached
<1>5. /\ IsList(ordered) /\ Len(ordered) = Len(Roots(new.widgets))
      /\ \A r \in 1 .. Len(ordered) : ordered[r].id = Roots(new.widgets)[r].id /\ ShowsRoot(ordered[r], new.widgets)
  BY <1>4, RootsAfter
<1>6. now = [s EXCEPT !.roots = ordered]
  BY Zenon DEF ApplyWidgetPatches, reached
<1> HIDE DEF ordered
<1>7. [s EXCEPT !.roots = ordered] = [id |-> new.id, z |-> new.z, roots |-> ordered]
  BY <1>1, <1>2
<1> HIDE DEF now
<1>8. now.roots = ordered /\ now = [id |-> new.id, z |-> new.z, roots |-> now.roots]
  BY <1>6, <1>7
<1>9. ShowsScreen(now, new)
  BY <1>5, <1>8, Zenon DEF ShowsScreen
<1> QED
  BY <1>9 DEF now

-----------------------------------------------------------------------------
(* The screens of a configuration, and the plan for them. *)

IsGoodConfiguration(conf) == IsConfiguration(conf) /\ Validate(conf)

LEMMA ScreensAreThere ==
    ASSUME NEW conf, IsGoodConfiguration(conf)
    PROVE  /\ conf.screens \in Seq(ToSet(conf.screens)) /\ IsUnique(conf.screens)
           /\ \A s \in ToSet(conf.screens) :
                 /\ IsGoodScreen(s) /\ s # NoScreen /\ s.overlay \in BOOLEAN
                 /\ s.id \in Ids(conf.screens) /\ Find(conf.screens, s.id) = s /\ ScreenOf(conf, s.id) = s
           /\ \A id \in Ids(conf.screens) :
                 /\ Find(conf.screens, id) \in ToSet(conf.screens) /\ Find(conf.screens, id).id = id
                 /\ ScreenOf(conf, id) = Find(conf.screens, id)
           /\ \A id : id \notin Ids(conf.screens) => ScreenOf(conf, id) = NoScreen
<1>1. conf.screens \in Seq(ToSet(conf.screens)) /\ IsUnique(conf.screens)
  BY GoodScreens DEF IsGoodConfiguration, IsConfiguration, IsList
<1>2. ASSUME NEW s \in ToSet(conf.screens)
      PROVE  /\ IsGoodScreen(s) /\ s # NoScreen /\ s.overlay \in BOOLEAN
             /\ s.id \in Ids(conf.screens) /\ Find(conf.screens, s.id) = s /\ ScreenOf(conf, s.id) = s
  <2>1. IsGoodScreen(s)
    BY GoodScreens DEF IsGoodConfiguration
  <2>2. s # NoScreen /\ s.overlay \in BOOLEAN
    BY <2>1, ScreenIsRecord DEF IsGoodScreen
  <2>3. PICK i \in 1 .. Len(conf.screens) : conf.screens[i] = s
    BY ListIsThere DEF IsGoodConfiguration, IsConfiguration
  <2>4. s.id \in Ids(conf.screens) /\ Find(conf.screens, s.id) = s /\ Has(conf.screens, s.id)
    BY <1>1, <2>3, FindsItself
  <2> QED
    BY <2>1, <2>2, <2>4 DEF ScreenOf
<1>3. ASSUME NEW id \in Ids(conf.screens)
      PROVE  /\ Find(conf.screens, id) \in ToSet(conf.screens) /\ Find(conf.screens, id).id = id
             /\ ScreenOf(conf, id) = Find(conf.screens, id)
  BY <1>1, FindsRecord DEF ScreenOf
<1>4. ASSUME NEW id, id \notin Ids(conf.screens) PROVE ScreenOf(conf, id) = NoScreen
  BY <1>1, <1>4, FindsRecord DEF ScreenOf
<1> QED
  BY <1>1, <1>2, <1>3, <1>4

\* The screens a configuration has in a group.
IdsOn(conf, group) == {s.id : s \in {t \in ToSet(conf.screens) : ~t.overlay /\ t.group = group}}

LEMMA IdsOfGroup ==
    ASSUME NEW conf, IsGoodConfiguration(conf), NEW group
    PROVE  /\ \A id : id \in IdsOn(conf, group) <=>
                 /\ id \in Ids(conf.screens)
                 /\ ~Find(conf.screens, id).overlay /\ Find(conf.screens, id).group = group
           /\ group \in GroupIds(conf) <=> IdsOn(conf, group) # {}
<1>1. \A s \in ToSet(conf.screens) : s.id \in Ids(conf.screens) /\ Find(conf.screens, s.id) = s
  BY ScreensAreThere
<1>2. \A id \in Ids(conf.screens) : Find(conf.screens, id) \in ToSet(conf.screens) /\ Find(conf.screens, id).id = id
  BY ScreensAreThere
<1>3. ASSUME NEW id
      PROVE  id \in IdsOn(conf, group) <=>
                 /\ id \in Ids(conf.screens)
                 /\ ~Find(conf.screens, id).overlay /\ Find(conf.screens, id).group = group
  <2>1. id \in IdsOn(conf, group) <=> \E s \in ToSet(conf.screens) : s.id = id /\ ~s.overlay /\ s.group = group
    BY DEF IdsOn
  <2> QED
    BY <1>1, <1>2, <2>1, Zenon
<1>4. group \in GroupIds(conf) <=> IdsOn(conf, group) # {}
  BY DEF GroupIds, IdsOn
<1> QED
  BY <1>3, <1>4

LEMMA ScreensOfGroup ==
    ASSUME NEW conf, IsGoodConfiguration(conf), NEW group
    PROVE  /\ ScreensOf(conf, group) \in Seq(ToSet(conf.screens))
           /\ IsUnique(ScreensOf(conf, group))
           /\ Ids(ScreensOf(conf, group)) = IdsOn(conf, group)
           /\ \A i \in 1 .. Len(ScreensOf(conf, group)) :
                 /\ ScreensOf(conf, group)[i].id \in Ids(conf.screens)
                 /\ Find(conf.screens, ScreensOf(conf, group)[i].id) = ScreensOf(conf, group)[i]
<1> DEFINE S == ToSet(conf.screens)
           on == IdsOn(conf, group)
           part == Only(conf.screens, on)
           listed == ScreensOf(conf, group)
<1>1. conf.screens \in Seq(S) /\ IsUnique(conf.screens)
      /\ \A s \in S : IsGoodScreen(s) /\ s.id \in Ids(conf.screens) /\ Find(conf.screens, s.id) = s
  BY ScreensAreThere
<1>2. \A s \in S : s.z \in Int
  BY <1>1, ScreenIsRecord DEF IsGoodScreen
<1>3. listed = InZOrder(part)
  BY Zenon DEF ScreensOf, IdsOn
<1>4. on \subseteq Ids(conf.screens)
  BY IdsOfGroup
<1> HIDE DEF S, on, listed
<1>5. part \in Seq(S) /\ Ids(part) = Ids(conf.screens) \cap on /\ IsUnique(part)
  BY <1>1, OnlyKeeps
<1> HIDE DEF part
<1>6. listed \in Seq(S) /\ Ids(listed) = Ids(part) /\ IsUnique(listed)
  BY <1>2, <1>3, <1>5, OrderedHas
<1>7. \A i \in 1 .. Len(listed) : listed[i] \in S
  BY <1>6
<1> QED
  BY <1>1, <1>4, <1>5, <1>6, <1>7 DEF S, on, listed

\* A patch of a screen that goes, or of one that is there afterwards.
IsScreenPatch(p, base, conf) ==
    \/ \E s \in ToSet(base.screens) : s.id \notin Ids(conf.screens) /\ p = RemovalOf(s)
    \/ \E s \in ToSet(conf.screens) : PlanScreen(ScreenOf(base, s.id), s) = <<p>>

\* The patches are of different screens, and those without one go on as they are.
LEMMA ScreensArePlanned ==
    ASSUME NEW base, IsGoodConfiguration(base), NEW conf, IsGoodConfiguration(conf)
    PROVE  /\ \E S : PlanPatch(base, conf) \in Seq(S)
           /\ IsUnique(PlanPatch(base, conf))
           /\ \A k \in 1 .. Len(PlanPatch(base, conf)) : IsScreenPatch(PlanPatch(base, conf)[k], base, conf)
           /\ Ids(base.screens) \ Ids(conf.screens) \subseteq Ids(PlanPatch(base, conf))
           /\ \A id \in Ids(conf.screens) \ Ids(PlanPatch(base, conf)) :
                 PlanScreen(ScreenOf(base, id), Find(conf.screens, id)) = <<>>
<1> DEFINE gone == Without(base.screens, Ids(conf.screens))
           screens == conf.screens
           n == Len(screens)
           removals == PlanRemovals(gone)
           lists == PlanLists(base, screens)
           plan == PlanPatch(base, conf)
<1>1. plan = removals \o FlattenSeq(lists)
  BY PlanIsOf
<1>2. screens \in Seq(ToSet(screens)) /\ IsUnique(screens)
  BY ScreensAreThere
<1>3. /\ gone \in Seq(ToSet(base.screens)) /\ IsUnique(gone)
      /\ Ids(gone) = Ids(base.screens) \cap (Ids(base.screens) \ Ids(screens))
  <2>1. base.screens \in Seq(ToSet(base.screens)) /\ IsUnique(base.screens)
    BY ScreensAreThere
  <2> QED
    BY <2>1, OnlyKeeps DEF Without
<1>4. n \in Nat /\ DOMAIN screens = 1 .. n
  BY <1>2
<1>5. DOMAIN lists = 1 .. n /\ \A i \in 1 .. n : lists[i] = PlanScreen(ScreenOf(base, screens[i].id), screens[i])
  BY <1>4 DEF PlanLists
<1>6. lists = [i \in 1 .. n |-> lists[i]]
  BY <1>4 DEF PlanLists
<1> HIDE DEF lists, n, gone
<1>7. \A i \in 1 .. n : lists[i] = <<>> \/ \E x : lists[i] = <<x>> /\ x.id = screens[i].id
  <2> SUFFICES ASSUME NEW i \in 1 .. n PROVE lists[i] = <<>> \/ \E x : lists[i] = <<x>> /\ x.id = screens[i].id
    OBVIOUS
  <2> DEFINE was == ScreenOf(base, screens[i].id)
  <2>1. lists[i] = PlanScreen(was, screens[i])
    BY <1>5
  <2>2. \/ PlanScreen(was, screens[i]) = <<>>
        \/ \E x : PlanScreen(was, screens[i]) = <<x>> /\ x.id = screens[i].id
    BY ScreenHasOnePatch
  <2> QED
    BY <2>1, <2>2, Zenon
<1>8. (\E S : lists \in Seq(Seq(S))) /\ Len(lists) = n
  <2>1. \A i \in 1 .. n : lists[i] = <<>> \/ \E x : lists[i] = <<x>>
    BY <1>7
  <2> QED
    BY <1>4, <1>5, <1>6, <2>1, ShortLists
<1>9. PICK S : lists \in Seq(Seq(S))
  BY <1>8
<1>10. /\ \E R : removals \in Seq(R)
       /\ Len(removals) = Len(gone)
       /\ \A i \in 1 .. Len(gone) : removals[i] = RemovalOf(gone[i]) /\ removals[i].id = gone[i].id
  <2> DEFINE R == {RemovalOf(gone[i]) : i \in 1 .. Len(gone)}
  <2>1. Len(gone) \in Nat /\ DOMAIN gone = 1 .. Len(gone)
    BY <1>3
  <2>2. removals \in [1 .. Len(gone) -> R] /\ \A i \in 1 .. Len(gone) : removals[i] = RemovalOf(gone[i])
    BY <2>1 DEF PlanRemovals
  <2>3. \A s : RemovalOf(s).id = s.id
    BY DEF RemovalOf
  <2> HIDE DEF R, removals
  <2>4. removals \in Seq(R) /\ Len(removals) = Len(gone)
    BY <2>1, <2>2
  <2> QED
    BY <2>2, <2>3, <2>4
<1>11. PICK R : removals \in Seq(R)
  BY <1>10
<1> HIDE DEF removals, plan
<1>12. plan \in Seq(R \cup S) /\ IsPlanned(plan, removals, lists, n)
  <2>1. Ids(gone) \cap Ids(screens) = {}
    BY <1>3
  <2>2. /\ removals \o FlattenSeq(lists) \in Seq(R \cup S)
        /\ IsPlanned(removals \o FlattenSeq(lists), removals, lists, Len(screens))
    <3>1. AreRemovals(removals, gone) /\ AreChanges(lists, screens)
      BY <1>7, <1>8, <1>10 DEF AreRemovals, AreChanges, n
    <3> QED
      BY <1>2, <1>3, <1>9, <1>11, <2>1, <3>1, PlansAreMade
  <2> QED
    BY <1>1, <2>2 DEF n
<1>13. \A id : id \in Ids(plan) <=> \E k \in 1 .. Len(plan) : plan[k].id = id
  BY <1>12, IdsOfPlaces
<1>14. ASSUME NEW k \in 1 .. Len(plan) PROVE IsScreenPatch(plan[k], base, conf)
  <2>1. CASE \E i \in 1 .. Len(removals) : plan[k] = removals[i]
    <3>1. PICK i \in 1 .. Len(gone) : plan[k] = removals[i]
      BY <1>10, <2>1
    <3>2. gone[i].id \in Ids(gone) /\ gone[i] \in ToSet(base.screens)
      BY <1>3, IdsOfPlaces
    <3> QED
      BY <1>3, <1>10, <3>1, <3>2 DEF IsScreenPatch
  <2>2. CASE \E i \in 1 .. n : lists[i] = <<plan[k]>>
    <3>1. PICK i \in 1 .. n : lists[i] = <<plan[k]>>
      BY <2>2
    <3>2. screens[i] \in ToSet(screens)
      BY <1>2 DEF n
    <3> QED
      BY <1>5, <3>1, <3>2 DEF IsScreenPatch
  <2> QED
    BY <1>12, <2>1, <2>2 DEF IsPlanned
<1>15. Ids(base.screens) \ Ids(screens) \subseteq Ids(plan)
  <2> SUFFICES ASSUME NEW id \in Ids(base.screens) \ Ids(screens) PROVE id \in Ids(plan)
    OBVIOUS
  <2>1. PICK i \in 1 .. Len(gone) : gone[i].id = id
    BY <1>3, IdsOfPlaces
  <2>2. PICK k \in 1 .. Len(plan) : plan[k] = removals[i]
    BY <1>10, <1>12 DEF IsPlanned
  <2> QED
    BY <1>10, <1>13, <2>1, <2>2
<1>16. ASSUME NEW id \in Ids(screens) \ Ids(plan) PROVE PlanScreen(ScreenOf(base, id), Find(screens, id)) = <<>>
  <2>1. PICK i \in 1 .. n : screens[i].id = id
    BY <1>2, IdsOfPlaces DEF n
  <2>2. Find(screens, id) = screens[i]
    BY <1>2, <2>1, FindsItself DEF n
  <2>3. lists[i] = PlanScreen(ScreenOf(base, id), Find(screens, id))
    BY <1>5, <2>1, <2>2
  <2>4. ASSUME NEW x, lists[i] = <<x>>, x.id = screens[i].id PROVE FALSE
    <3>1. PICK k \in 1 .. Len(plan) : plan[k] = x
      BY <1>12, <2>4 DEF IsPlanned
    <3> QED
      BY <1>13, <2>1, <2>4, <3>1
  <2> QED
    BY <1>7, <2>3, <2>4
<1> QED
  BY <1>12, <1>14, <1>15, <1>16, Zenon DEF IsPlanned, plan

\* What a patch is: of a screen that goes, of one that comes or is rebuilt, or of the widgets of one.
LEMMA PatchKinds ==
    ASSUME NEW base, IsGoodConfiguration(base), NEW conf, IsGoodConfiguration(conf),
           NEW p, IsScreenPatch(p, base, conf)
    PROVE  \/ /\ p.action = "remove" /\ p.new = NoScreen /\ p.id \notin Ids(conf.screens)
              /\ p.id \in Ids(base.screens) /\ p.old = Find(base.screens, p.id)
           \/ /\ p.action \in {"add", "rebuild", "widgets"}
              /\ p.id \in Ids(conf.screens) /\ p.new = Find(conf.screens, p.id) /\ p.old = ScreenOf(base, p.id)
              /\ p.action = "widgets" =>
                    /\ p.old # NoScreen /\ ClassifyScreenChange(p.old, p.new) # "rebuild"
                    /\ p.widgets = PlanWidgets(p.old.widgets, p.new.widgets)
<1>1. ASSUME NEW s \in ToSet(base.screens), s.id \notin Ids(conf.screens), p = RemovalOf(s)
      PROVE  /\ p.action = "remove" /\ p.new = NoScreen /\ p.id \notin Ids(conf.screens)
             /\ p.id \in Ids(base.screens) /\ p.old = Find(base.screens, p.id)
  <2>1. p.action = "remove" /\ p.new = NoScreen /\ p.id = s.id /\ p.old = s
    BY <1>1 DEF RemovalOf
  <2>2. s.id \in Ids(base.screens) /\ Find(base.screens, s.id) = s
    BY ScreensAreThere
  <2> QED
    BY <1>1, <2>1, <2>2
<1>2. ASSUME NEW new \in ToSet(conf.screens), PlanScreen(ScreenOf(base, new.id), new) = <<p>>
      PROVE  /\ p.action \in {"add", "rebuild", "widgets"}
             /\ p.id \in Ids(conf.screens) /\ p.new = Find(conf.screens, p.id) /\ p.old = ScreenOf(base, p.id)
             /\ p.action = "widgets" =>
                   /\ p.old # NoScreen /\ ClassifyScreenChange(p.old, p.new) # "rebuild"
                   /\ p.widgets = PlanWidgets(p.old.widgets, p.new.widgets)
  <2> DEFINE old == ScreenOf(base, new.id)
             widgets == PlanWidgets(old.widgets, new.widgets)
  <2>1. PlanScreen(old, new) = <<p>>
    BY <1>2
  <2>2. \A action, list : /\ PatchOf(old, new, action, list).action = action
                          /\ PatchOf(old, new, action, list).id = new.id
                          /\ PatchOf(old, new, action, list).old = old
                          /\ PatchOf(old, new, action, list).new = new
                          /\ PatchOf(old, new, action, list).widgets = list
    BY DEF PatchOf
  <2>3. <<>> # <<p>> /\ \A x : <<x>> = <<p>> => x = p
    OBVIOUS
  <2>4. new.id \in Ids(conf.screens) /\ Find(conf.screens, new.id) = new
    BY ScreensAreThere
  <2> HIDE DEF old, widgets
  <2>5. /\ old = NoScreen => PlanScreen(old, new) = <<PatchOf(old, new, "add", <<>>)>>
        /\ old # NoScreen /\ old = new => PlanScreen(old, new) = <<>>
        /\ old # NoScreen /\ old # new /\ ClassifyScreenChange(old, new) = "rebuild" =>
              PlanScreen(old, new) = <<PatchOf(old, new, "rebuild", <<>>)>>
        /\ old # NoScreen /\ old # new /\ ClassifyScreenChange(old, new) # "rebuild" =>
              PlanScreen(old, new) = <<PatchOf(old, new, "widgets", widgets)>> \/ PlanScreen(old, new) = <<>>
    BY ScreenIsPlanned, Zenon DEF widgets
  <2>6. \/ p = PatchOf(old, new, "add", <<>>)
        \/ p = PatchOf(old, new, "rebuild", <<>>)
        \/ /\ p = PatchOf(old, new, "widgets", widgets)
           /\ old # NoScreen /\ ClassifyScreenChange(old, new) # "rebuild"
    BY <2>1, <2>3, <2>5, Zenon
  <2>7. p.id = new.id /\ p.old = old /\ p.new = new
    BY <2>2, <2>6
  <2>8. \/ p.action = "add"
        \/ p.action = "rebuild"
        \/ /\ p.action = "widgets" /\ p.widgets = widgets
           /\ old # NoScreen /\ ClassifyScreenChange(old, new) # "rebuild"
    BY <2>2, <2>6
  <2>9. p.action \in {"add", "rebuild", "widgets"} /\ (p.action = "widgets" =>
           p.widgets = widgets /\ old # NoScreen /\ ClassifyScreenChange(old, new) # "rebuild")
    BY <2>8
  <2> QED
    BY <2>4, <2>7, <2>9 DEF old, widgets
<1> QED
  BY <1>1, <1>2, Zenon DEF IsScreenPatch

-----------------------------------------------------------------------------
(* The groups of the main view, patched. *)

\* A group on its way from one configuration to the other, some of the patches done; it is never empty.
GroupIsAt(screens, group, base, conf, done) ==
    /\ IsList(screens) /\ IsUnique(screens) /\ Ids(screens) # {}
    /\ Ids(screens) = (IdsOn(base, group) \ done) \cup (IdsOn(conf, group) \cap done)
    /\ \A i \in 1 .. Len(screens) :
          ShowsScreen(screens[i], Find((IF screens[i].id \in done THEN conf ELSE base).screens, screens[i].id))

GroupsAreAt(views, base, conf, done) ==
    /\ views = [g \in GroupIds(base) |-> views[g]]
    /\ \A g \in GroupIds(base) : GroupIsAt(views[g], g, base, conf, done)
    /\ \A s \in ToSet(conf.screens) : s.id \in done /\ ~s.overlay => s.group \in GroupIds(base)

LEMMA GroupStays ==
    ASSUME NEW base, NEW conf, NEW group, NEW done, NEW screens, GroupIsAt(screens, group, base, conf, done),
           NEW id, id \notin Ids(screens), id \notin IdsOn(conf, group)
    PROVE  GroupIsAt(screens, group, base, conf, done \cup {id})
<1>1. /\ IsList(screens) /\ IsUnique(screens) /\ Ids(screens) # {}
      /\ Ids(screens) = (IdsOn(base, group) \ done) \cup (IdsOn(conf, group) \cap done)
  BY DEF GroupIsAt
<1>2. Ids(screens) = (IdsOn(base, group) \ (done \cup {id})) \cup (IdsOn(conf, group) \cap (done \cup {id}))
  BY <1>1
<1>3. \A i \in 1 .. Len(screens) : screens[i].id # id
  BY <1>1, IdsOfPlaces DEF IsList
<1>4. ASSUME NEW i \in 1 .. Len(screens)
      PROVE  ShowsScreen(screens[i],
                 Find((IF screens[i].id \in done \cup {id} THEN conf ELSE base).screens, screens[i].id))
  <2>1. ShowsScreen(screens[i], Find((IF screens[i].id \in done THEN conf ELSE base).screens, screens[i].id))
    BY DEF GroupIsAt
  <2>2. screens[i].id \in done \cup {id} <=> screens[i].id \in done
    BY <1>3
  <2> QED
    BY <2>1, <2>2, Zenon
<1> QED
  BY <1>1, <1>2, <1>4 DEF GroupIsAt

LEMMA GroupLoses ==
    ASSUME NEW base, NEW conf, NEW group, NEW done, NEW screens, GroupIsAt(screens, group, base, conf, done),
           NEW id, id \notin IdsOn(conf, group), Len(screens) > 1
    PROVE  GroupIsAt(Without(screens, {id}), group, base, conf, done \cup {id})
<1> DEFINE shorter == Without(screens, {id})
           S == ToSet(screens)
<1>1. /\ screens \in Seq(S) /\ IsUnique(screens)
      /\ Ids(screens) = (IdsOn(base, group) \ done) \cup (IdsOn(conf, group) \cap done)
  BY DEF GroupIsAt, IsList
<1>2. shorter \in Seq(S) /\ IsTaken(shorter, screens, id)
  BY <1>1, TakesRecord
<1> HIDE DEF shorter, S
<1>3. Ids(shorter) = Ids(screens) \ {id}
  BY <1>2 DEF IsTaken
<1>4. Ids(shorter) = (IdsOn(base, group) \ (done \cup {id})) \cup (IdsOn(conf, group) \cap (done \cup {id}))
  BY <1>1, <1>3
<1>5. Ids(shorter) # {}
  <2>1. 1 \in 1 .. Len(screens) /\ 2 \in 1 .. Len(screens)
    BY <1>1
  <2>2. screens[1].id \in Ids(screens) /\ screens[2].id \in Ids(screens)
    BY <1>1, <2>1, IdsOfPlaces
  <2>3. screens[1].id # screens[2].id
    BY <1>1, <2>1 DEF IsUnique
  <2> QED
    BY <1>3, <2>2, <2>3
<1>6. ASSUME NEW i \in 1 .. Len(shorter)
      PROVE  ShowsScreen(shorter[i],
                 Find((IF shorter[i].id \in done \cup {id} THEN conf ELSE base).screens, shorter[i].id))
  <2>1. PICK k \in 1 .. Len(screens) : shorter[i] = screens[k] /\ screens[k].id # id
    BY <1>2 DEF IsTaken
  <2>2. ShowsScreen(screens[k], Find((IF screens[k].id \in done THEN conf ELSE base).screens, screens[k].id))
    BY DEF GroupIsAt
  <2>3. shorter[i].id \in done \cup {id} <=> screens[k].id \in done
    BY <2>1
  <2> QED
    BY <2>1, <2>2, <2>3, Zenon
<1>7. IsList(shorter) /\ IsUnique(shorter)
  BY <1>2, SequenceIsList DEF IsTaken
<1> QED
  BY <1>4, <1>5, <1>6, <1>7 DEF GroupIsAt, shorter

LEMMA GroupTakes ==
    ASSUME NEW base, NEW conf, NEW group, NEW done, NEW screens, GroupIsAt(screens, group, base, conf, done),
           NEW s, s.id \in IdsOn(conf, group), ShowsScreen(s, Find(conf.screens, s.id)),
           NEW longer, IsList(longer), IsPut(longer, screens, s)
    PROVE  GroupIsAt(longer, group, base, conf, done \cup {s.id})
<1>1. /\ Ids(longer) = Ids(screens) \cup {s.id}
      /\ Ids(screens) = (IdsOn(base, group) \ done) \cup (IdsOn(conf, group) \cap done)
  BY DEF IsPut, GroupIsAt
<1>2. Ids(longer) = (IdsOn(base, group) \ (done \cup {s.id})) \cup (IdsOn(conf, group) \cap (done \cup {s.id}))
  BY <1>1
<1>3. Ids(longer) # {}
  BY <1>1
<1>4. ASSUME NEW i \in 1 .. Len(longer)
      PROVE  ShowsScreen(longer[i],
                 Find((IF longer[i].id \in done \cup {s.id} THEN conf ELSE base).screens, longer[i].id))
  <2>1. CASE longer[i] = s
    <3>1. longer[i].id \in done \cup {s.id}
      BY <2>1
    <3> QED
      BY <2>1, <3>1, Zenon
  <2>2. CASE \E k \in 1 .. Len(screens) : longer[i] = screens[k] /\ screens[k].id # s.id
    <3>1. PICK k \in 1 .. Len(screens) : longer[i] = screens[k] /\ screens[k].id # s.id
      BY <2>2
    <3>2. ShowsScreen(screens[k], Find((IF screens[k].id \in done THEN conf ELSE base).screens, screens[k].id))
      BY DEF GroupIsAt
    <3>3. longer[i].id \in done \cup {s.id} <=> screens[k].id \in done
      BY <3>1
    <3> QED
      BY <3>1, <3>2, <3>3, Zenon
  <2> QED
    BY <2>1, <2>2 DEF IsPut
<1> QED
  BY <1>2, <1>3, <1>4 DEF GroupIsAt, IsPut

\* The screens of a group have a z-index to be sorted by.
LEMMA GroupHasZ ==
    ASSUME NEW base, IsGoodConfiguration(base), NEW conf, IsGoodConfiguration(conf),
           NEW group, NEW done, NEW screens, GroupIsAt(screens, group, base, conf, done)
    PROVE  \A s \in ToSet(screens) : s.z \in Int
<1> SUFFICES ASSUME NEW s \in ToSet(screens) PROVE s.z \in Int
  OBVIOUS
<1>1. IsList(screens) /\ Ids(screens) = (IdsOn(base, group) \ done) \cup (IdsOn(conf, group) \cap done)
  BY DEF GroupIsAt
<1>2. PICK i \in 1 .. Len(screens) : screens[i] = s
  BY <1>1, ListIsThere
<1>3. s.id \in Ids(screens)
  BY <1>1, <1>2, IdsOfPlaces DEF IsList
<1> DEFINE side == IF s.id \in done THEN conf ELSE base
           screen == Find(side.screens, s.id)
<1>4. ShowsScreen(s, screen)
  BY <1>2, Zenon DEF GroupIsAt
<1>5. s.id \in Ids(side.screens) /\ IsGoodConfiguration(side)
  BY <1>1, <1>3, IdsOfGroup
<1> HIDE DEF side
<1>6. IsGoodScreen(screen)
  BY <1>5, ScreensAreThere
<1>7. screen.z \in Int
  BY <1>6, ScreenIsRecord DEF IsGoodScreen
<1> HIDE DEF screen
<1>8. s = [id |-> screen.id, z |-> screen.z, roots |-> s.roots]
  BY <1>4, Zenon DEF ShowsScreen
<1>9. s.z = screen.z
  BY <1>8
<1> QED
  BY <1>7, <1>9

\* One group after another.
LEMMA GroupsTakeOne ==
    ASSUME NEW base, NEW conf, NEW done, NEW views, GroupsAreAt(views, base, conf, done),
           NEW group \in GroupIds(base), NEW id, NEW screens,
           GroupIsAt(screens, group, base, conf, done \cup {id}),
           \A g \in GroupIds(base) \ {group} : id \notin Ids(views[g]) /\ id \notin IdsOn(conf, g),
           \A s \in ToSet(conf.screens) : s.id = id /\ ~s.overlay => s.group \in GroupIds(base)
    PROVE  GroupsAreAt([views EXCEPT ![group] = screens], base, conf, done \cup {id})
<1> DEFINE now == [views EXCEPT ![group] = screens]
<1>1. /\ views = [g \in GroupIds(base) |-> views[g]]
      /\ \A g \in GroupIds(base) : GroupIsAt(views[g], g, base, conf, done)
      /\ \A s \in ToSet(conf.screens) : s.id \in done /\ ~s.overlay => s.group \in GroupIds(base)
  BY DEF GroupsAreAt
<1>2. /\ now = [g \in GroupIds(base) |-> now[g]]
      /\ now[group] = screens /\ \A g \in GroupIds(base) \ {group} : now[g] = views[g]
  BY <1>1
<1> HIDE DEF now
<1>3. ASSUME NEW g \in GroupIds(base) PROVE GroupIsAt(now[g], g, base, conf, done \cup {id})
  <2>1. CASE g = group
    BY <1>2, <2>1
  <2>2. CASE g # group
    <3>1. GroupIsAt(views[g], g, base, conf, done) /\ id \notin Ids(views[g]) /\ id \notin IdsOn(conf, g)
      BY <1>1, <2>2
    <3>2. GroupIsAt(views[g], g, base, conf, done \cup {id})
      BY <3>1, GroupStays
    <3> QED
      BY <1>2, <2>2, <3>2
  <2> QED
    BY <2>1, <2>2
<1>4. \A s \in ToSet(conf.screens) : s.id \in done \cup {id} /\ ~s.overlay => s.group \in GroupIds(base)
  BY <1>1
<1> QED
  BY <1>2, <1>3, <1>4 DEF GroupsAreAt, now

\* What of a screen can be there before its patch.
LEMMA NotDoneIsBase ==
    ASSUME NEW base, NEW conf, NEW done, NEW views, GroupsAreAt(views, base, conf, done), NEW id, id \notin done
    PROVE  /\ views = [g \in GroupIds(base) |-> views[g]] /\ DOMAIN views = GroupIds(base)
           /\ \A g \in GroupIds(base) : GroupIsAt(views[g], g, base, conf, done)
           /\ \A g \in GroupIds(base) : views[g] \in Seq(ToSet(views[g])) /\ IsUnique(views[g])
           /\ \A g \in GroupIds(base) : id \in Ids(views[g]) <=> id \in IdsOn(base, g)
           /\ \A g \in GroupIds(base) : HoldsScreen(views, g, id) <=> id \in IdsOn(base, g)
<1>1. /\ views = [g \in GroupIds(base) |-> views[g]]
      /\ \A g \in GroupIds(base) : GroupIsAt(views[g], g, base, conf, done)
  BY DEF GroupsAreAt
<1>2. DOMAIN views = GroupIds(base)
  BY <1>1
<1>3. ASSUME NEW g \in GroupIds(base)
      PROVE  /\ views[g] \in Seq(ToSet(views[g])) /\ IsUnique(views[g])
             /\ id \in Ids(views[g]) <=> id \in IdsOn(base, g)
             /\ HoldsScreen(views, g, id) <=> id \in IdsOn(base, g)
  <2> DEFINE screens == views[g]
  <2>1. /\ screens \in Seq(ToSet(screens)) /\ IsUnique(screens)
        /\ Ids(screens) = (IdsOn(base, g) \ done) \cup (IdsOn(conf, g) \cap done)
    BY <1>1 DEF GroupIsAt, IsList
  <2> HIDE DEF screens
  <2>2. Has(screens, id) <=> id \in Ids(screens)
    BY <2>1, FindsRecord
  <2>3. id \in Ids(screens) <=> id \in IdsOn(base, g)
    BY <2>1
  <2>4. HoldsScreen(views, g, id) <=> Has(screens, id)
    BY Zenon DEF HoldsScreen, screens
  <2> QED
    BY <2>1, <2>2, <2>3, <2>4 DEF screens
<1> QED
  BY <1>1, <1>2, <1>3

-----------------------------------------------------------------------------
(* A patch of the plan, on the groups. *)

LEMMA OverlayPatched ==
    ASSUME NEW base, IsGoodConfiguration(base), NEW conf, IsGoodConfiguration(conf),
           NEW done, NEW views, GroupsAreAt(views, base, conf, done),
           NEW p, p.id \notin done, p.id \in Ids(base.screens), p.id \in Ids(conf.screens),
           Find(base.screens, p.id).overlay, Find(conf.screens, p.id).overlay
    PROVE  GroupsAreAt(views, base, conf, done \cup {p.id})
<1>1. \A g : p.id \notin IdsOn(base, g) /\ p.id \notin IdsOn(conf, g)
  BY IdsOfGroup
<1>2. /\ views = [g \in GroupIds(base) |-> views[g]]
      /\ \A g \in GroupIds(base) : GroupIsAt(views[g], g, base, conf, done)
      /\ \A g \in GroupIds(base) : p.id \in Ids(views[g]) <=> p.id \in IdsOn(base, g)
  BY NotDoneIsBase
<1>3. ASSUME NEW g \in GroupIds(base) PROVE GroupIsAt(views[g], g, base, conf, done \cup {p.id})
  <2>1. GroupIsAt(views[g], g, base, conf, done) /\ p.id \notin Ids(views[g]) /\ p.id \notin IdsOn(conf, g)
    BY <1>1, <1>2
  <2> QED
    BY <2>1, GroupStays
<1>4. \A s \in ToSet(conf.screens) : s.id \in done \cup {p.id} /\ ~s.overlay => s.group \in GroupIds(base)
  <2>1. \A s \in ToSet(conf.screens) : s.id = p.id => s.overlay
    BY ScreensAreThere
  <2>2. \A s \in ToSet(conf.screens) : s.id \in done /\ ~s.overlay => s.group \in GroupIds(base)
    BY DEF GroupsAreAt
  <2> QED
    BY <2>1, <2>2
<1> QED
  BY <1>2, <1>3, <1>4 DEF GroupsAreAt

LEMMA FoundIsGood ==
    ASSUME NEW conf, IsGoodConfiguration(conf), NEW id \in Ids(conf.screens)
    PROVE  IsGoodScreen(Find(conf.screens, id)) /\ Find(conf.screens, id).id = id
<1>1. Find(conf.screens, id) \in ToSet(conf.screens) /\ Find(conf.screens, id).id = id
  BY ScreensAreThere
<1> QED
  BY <1>1, ScreensAreThere

LEMMA WidgetsStepped ==
    ASSUME NEW base, IsGoodConfiguration(base), NEW conf, IsGoodConfiguration(conf),
           NEW done, NEW views, GroupsAreAt(views, base, conf, done),
           NEW p, p.id \notin done, p.id \in Ids(conf.screens),
           p.new = Find(conf.screens, p.id), p.old = ScreenOf(base, p.id),
           p.old # NoScreen, ClassifyScreenChange(p.old, p.new) # "rebuild",
           p.widgets = PlanWidgets(p.old.widgets, p.new.widgets),
           NEW now \in PatchWidgets(views, p)
    PROVE  GroupsAreAt(now, base, conf, done \cup {p.id})
<1> DEFINE id == p.id
           old == p.old
           new == p.new
<1>1. /\ DOMAIN views = GroupIds(base)
      /\ \A g \in GroupIds(base) : GroupIsAt(views[g], g, base, conf, done)
      /\ \A g \in GroupIds(base) : views[g] \in Seq(ToSet(views[g])) /\ IsUnique(views[g])
      /\ \A g \in GroupIds(base) : id \in Ids(views[g]) <=> id \in IdsOn(base, g)
      /\ \A g \in GroupIds(base) : HoldsScreen(views, g, id) <=> id \in IdsOn(base, g)
  BY NotDoneIsBase, Zenon
<1>2. PICK group \in DOMAIN views :
         /\ HoldsScreen(views, group, id)
         /\ now = [views EXCEPT ![group] =
                      ReplaceAt(@, IndexOf(@, id), ApplyWidgetPatches(Find(@, id), p))]
  BY Zenon DEF PatchWidgets
<1> DEFINE screens == views[group]
           s == ApplyWidgetPatches(Find(screens, id), p)
           longer == ReplaceAt(screens, IndexOf(screens, id), s)
<1>3. group \in GroupIds(base) /\ id \in IdsOn(base, group) /\ id \in Ids(screens) /\ GroupIsAt(screens, group, base, conf, done)
  BY <1>1, <1>2
<1>4. id \in Ids(base.screens) /\ old = Find(base.screens, id) /\ ~old.overlay /\ old.group = group
  <2>1. id \in Ids(base.screens) /\ ~Find(base.screens, id).overlay /\ Find(base.screens, id).group = group
    BY <1>3, IdsOfGroup
  <2>2. ScreenOf(base, id) = Find(base.screens, id)
    BY <2>1, ScreensAreThere
  <2> QED
    BY <2>1, <2>2
<1>5. IsGoodScreen(old) /\ IsGoodScreen(new) /\ new.id = id
  BY <1>4, FoundIsGood
<1>6. ~new.overlay /\ new.group = group
  BY <1>4, <1>5, FrameStays
<1>7. id \in IdsOn(conf, group) /\ \A g \in GroupIds(base) \ {group} : id \notin IdsOn(base, g) /\ id \notin IdsOn(conf, g)
  BY <1>4, <1>6, IdsOfGroup
<1>8. screens \in Seq(ToSet(screens)) /\ IsUnique(screens)
  BY <1>1, <1>3
<1>9. ShowsScreen(Find(screens, id), old)
  <2>1. PICK k \in 1 .. Len(screens) : Find(screens, id) = screens[k] /\ screens[k].id = id
    BY <1>3, <1>8, FindsRecord
  <2>2. ShowsScreen(screens[k], Find((IF screens[k].id \in done THEN conf ELSE base).screens, screens[k].id))
    BY <1>3 DEF GroupIsAt
  <2>3. ShowsScreen(screens[k], Find(base.screens, id))
    BY <2>1, <2>2
  <2> QED
    BY <1>4, <2>1, <2>3
<1>10. ShowsScreen(s, new)
  BY <1>5, <1>9, WidgetsPatched
<1> HIDE DEF s
<1>11. s.id = id /\ ShowsScreen(s, Find(conf.screens, s.id))
  <2>1. s = [id |-> new.id, z |-> new.z, roots |-> s.roots]
    BY <1>10, Zenon DEF ShowsScreen
  <2>2. s.id = new.id
    BY <2>1
  <2> QED
    BY <1>5, <1>10, <2>2
<1> HIDE DEF screens
<1> DEFINE S == ToSet(screens) \cup {s}
<1>12. screens \in Seq(S) /\ s \in S
  BY <1>8
<1> HIDE DEF S
<1>13. longer \in Seq(S) /\ IsPut(longer, screens, s)
  BY <1>3, <1>8, <1>11, <1>12, PutsInPlace
<1> HIDE DEF longer
<1>14. IsList(longer)
  BY <1>13, SequenceIsList
<1>15. GroupIsAt(longer, group, base, conf, done \cup {id})
  BY <1>3, <1>7, <1>11, <1>13, <1>14, GroupTakes
<1>16. now = [views EXCEPT ![group] = longer]
  BY <1>2, Zenon DEF longer, s, screens
<1>17. \A g \in GroupIds(base) \ {group} : id \notin Ids(views[g]) /\ id \notin IdsOn(conf, g)
  BY <1>1, <1>7
<1>18. \A t \in ToSet(conf.screens) : t.id = id /\ ~t.overlay => t.group \in GroupIds(base)
  <2>1. \A t \in ToSet(conf.screens) : t.id = id => t = new
    BY ScreensAreThere
  <2> QED
    BY <1>3, <1>6, <2>1
<1> HIDE DEF id
<1> QED
  BY <1>3, <1>15, <1>16, <1>17, <1>18, GroupsTakeOne DEF id

LEMMA RemovalStepped ==
    ASSUME NEW base, IsGoodConfiguration(base), NEW conf, IsGoodConfiguration(conf),
           NEW done, NEW views, GroupsAreAt(views, base, conf, done),
           NEW id, id \notin done, id \notin Ids(conf.screens),
           NEW now \in RemoveScreen(views, id)
    PROVE  GroupsAreAt(now, base, conf, done \cup {id})
<1>1. /\ DOMAIN views = GroupIds(base)
      /\ \A g \in GroupIds(base) : GroupIsAt(views[g], g, base, conf, done)
      /\ \A g \in GroupIds(base) : id \in Ids(views[g]) <=> id \in IdsOn(base, g)
      /\ \A g \in GroupIds(base) : HoldsScreen(views, g, id) <=> id \in IdsOn(base, g)
  BY NotDoneIsBase, Zenon
<1>2. PICK group \in DOMAIN views :
         /\ HoldsScreen(views, group, id) /\ Len(views[group]) > 1
         /\ now = [views EXCEPT ![group] = GroupRemoveScreen(@, id)]
  BY Zenon DEF RemoveScreen
<1> DEFINE screens == views[group]
<1>3. group \in GroupIds(base) /\ id \in IdsOn(base, group) /\ GroupIsAt(screens, group, base, conf, done)
  BY <1>1, <1>2
<1>4. \A g : id \notin IdsOn(conf, g)
  BY IdsOfGroup
<1>5. \A g \in GroupIds(base) \ {group} : id \notin Ids(views[g])
  <2>1. Find(base.screens, id).group = group
    BY <1>3, IdsOfGroup
  <2>2. \A g \in GroupIds(base) \ {group} : id \notin IdsOn(base, g)
    BY <2>1, IdsOfGroup
  <2> QED
    BY <1>1, <2>2
<1>6. now = [views EXCEPT ![group] = Without(screens, {id})]
  BY <1>2, Zenon DEF GroupRemoveScreen
<1>7. Len(screens) > 1
  BY <1>2
<1> HIDE DEF screens
<1>8. GroupIsAt(Without(screens, {id}), group, base, conf, done \cup {id})
  BY <1>3, <1>4, <1>7, GroupLoses
<1>9. \A s \in ToSet(conf.screens) : s.id # id
  BY ScreensAreThere
<1> QED
  BY <1>3, <1>4, <1>5, <1>6, <1>8, <1>9, GroupsTakeOne

LEMMA PutStepped ==
    ASSUME NEW base, IsGoodConfiguration(base), NEW conf, IsGoodConfiguration(conf),
           NEW done, NEW views, GroupsAreAt(views, base, conf, done),
           NEW p, p.id \notin done, p.id \in Ids(conf.screens), p.new = Find(conf.screens, p.id), ~p.new.overlay,
           NEW now \in PutScreen(views, p)
    PROVE  GroupsAreAt(now, base, conf, done \cup {p.id})
<1> DEFINE id == p.id
           new == p.new
           group == new.group
           s == Assemble(new)
           screens == views[group]
           longer == AddByZ(Without(screens, {s.id}), s)
<1>1. /\ DOMAIN views = GroupIds(base)
      /\ \A g \in GroupIds(base) : GroupIsAt(views[g], g, base, conf, done)
      /\ \A g \in GroupIds(base) : views[g] \in Seq(ToSet(views[g])) /\ IsUnique(views[g])
      /\ \A g \in GroupIds(base) : id \in Ids(views[g]) <=> id \in IdsOn(base, g)
      /\ \A g \in GroupIds(base) : HoldsScreen(views, g, id) <=> id \in IdsOn(base, g)
  BY NotDoneIsBase, Zenon
<1>2. /\ group \in DOMAIN views
      /\ \A g \in DOMAIN views \ {group} : ~HoldsScreen(views, g, id)
      /\ now = [views EXCEPT ![group] = GroupPutScreen(@, s)]
  BY Zenon DEF PutScreen
<1>3. IsGoodScreen(new) /\ new.id = id
  BY FoundIsGood
<1>4. group \in GroupIds(base) /\ GroupIsAt(screens, group, base, conf, done)
      /\ screens \in Seq(ToSet(screens)) /\ IsUnique(screens)
  BY <1>1, <1>2
<1>5. id \in IdsOn(conf, group) /\ \A g : g # group => id \notin IdsOn(conf, g)
  BY IdsOfGroup
<1>6. now = [views EXCEPT ![group] = longer]
  BY <1>2, Zenon DEF GroupPutScreen
<1>7. ShowsScreen(s, new)
  BY <1>3, AssembledShows
<1> HIDE DEF s, screens
<1>8. s.id = id /\ s.z \in Int /\ ShowsScreen(s, Find(conf.screens, s.id))
  <2>1. s = [id |-> new.id, z |-> new.z, roots |-> s.roots]
    BY <1>7, Zenon DEF ShowsScreen
  <2>2. s.id = new.id /\ s.z = new.z
    BY <2>1
  <2>3. new.z \in Int
    BY <1>3, ScreenIsRecord DEF IsGoodScreen
  <2> QED
    BY <1>3, <1>7, <2>2, <2>3
<1> DEFINE S == ToSet(screens) \cup {s}
<1>9. screens \in Seq(S) /\ s \in S /\ \A r \in S : r.z \in Int
  <2>1. \A r \in ToSet(screens) : r.z \in Int
    BY <1>4, GroupHasZ
  <2> QED
    BY <1>4, <1>8, <2>1
<1> HIDE DEF S
<1>10. longer \in Seq(S) /\ IsPut(longer, screens, s)
  BY <1>4, <1>9, PutsByZ
<1> HIDE DEF longer
<1>11. IsList(longer)
  BY <1>10, SequenceIsList
<1>12. GroupIsAt(longer, group, base, conf, done \cup {id})
  BY <1>4, <1>5, <1>8, <1>10, <1>11, GroupTakes
<1>13. \A g \in GroupIds(base) \ {group} : id \notin Ids(views[g]) /\ id \notin IdsOn(conf, g)
  BY <1>1, <1>2, <1>5
<1>14. \A t \in ToSet(conf.screens) : t.id = id /\ ~t.overlay => t.group \in GroupIds(base)
  <2>1. \A t \in ToSet(conf.screens) : t.id = id => t = new
    BY ScreensAreThere
  <2> QED
    BY <1>4, <2>1
<1> HIDE DEF id, group
<1> QED
  BY <1>4, <1>6, <1>12, <1>13, <1>14, GroupsTakeOne DEF id

\* A patch that the groups take makes the screen the configuration's.
LEMMA ScreenIsPatched ==
    ASSUME NEW base, IsGoodConfiguration(base), NEW conf, IsGoodConfiguration(conf),
           NEW done, NEW views, GroupsAreAt(views, base, conf, done),
           NEW p, IsScreenPatch(p, base, conf), p.id \notin done,
           NEW now \in PatchScreen(views, p)
    PROVE  GroupsAreAt(now, base, conf, done \cup {p.id})
<1>1. \/ /\ p.action = "remove" /\ p.new = NoScreen /\ p.id \notin Ids(conf.screens)
         /\ p.id \in Ids(base.screens) /\ p.old = Find(base.screens, p.id)
      \/ /\ p.action \in {"add", "rebuild", "widgets"}
         /\ p.id \in Ids(conf.screens) /\ p.new = Find(conf.screens, p.id) /\ p.old = ScreenOf(base, p.id)
         /\ p.action = "widgets" =>
               /\ p.old # NoScreen /\ ClassifyScreenChange(p.old, p.new) # "rebuild"
               /\ p.widgets = PlanWidgets(p.old.widgets, p.new.widgets)
  BY PatchKinds
<1>2. PatchScreen(views, p) =
        CASE IsOnOverlay(p) -> IF StaysOverlay(p) THEN {views} ELSE {}
          [] ~IsOnOverlay(p) /\ p.action = "widgets" -> PatchWidgets(views, p)
          [] ~IsOnOverlay(p) /\ p.action = "remove" -> RemoveScreen(views, p.id)
          [] ~IsOnOverlay(p) /\ p.action \in {"add", "rebuild"} -> PutScreen(views, p)
  BY Zenon DEF PatchScreen
<1>3. CASE IsOnOverlay(p)
  <2>1. StaysOverlay(p) /\ now = views
    BY <1>2, <1>3, Zenon
  <2>2. p.old # NoScreen /\ p.new # NoScreen /\ p.old.overlay = p.new.overlay
    BY <2>1 DEF StaysOverlay
  <2>3. p.id \in Ids(conf.screens) /\ p.new = Find(conf.screens, p.id) /\ p.old = ScreenOf(base, p.id)
    BY <1>1, <2>2, Zenon
  <2>4. p.id \in Ids(base.screens) /\ p.old = Find(base.screens, p.id)
    BY <2>2, <2>3, ScreensAreThere
  <2>5. p.old.overlay /\ p.new.overlay
    <3>1. p.old.overlay \/ p.new.overlay
      BY <1>3 DEF IsOnOverlay
    <3> QED
      BY <2>2, <3>1, Zenon
  <2> QED
    BY <2>1, <2>3, <2>4, <2>5, OverlayPatched
<1>4. CASE ~IsOnOverlay(p) /\ p.action = "widgets"
  <2>1. now \in PatchWidgets(views, p)
    BY <1>2, <1>4, Zenon
  <2>2. p.action # "remove"
    BY <1>4
  <2> QED
    BY <1>1, <1>4, <2>1, <2>2, WidgetsStepped
<1>5. CASE ~IsOnOverlay(p) /\ p.action = "remove"
  <2>1. p.action # "widgets"
    BY <1>5
  <2>2. now \in RemoveScreen(views, p.id)
    BY <1>2, <1>5, <2>1, Zenon
  <2>3. p.id \notin Ids(conf.screens)
    BY <1>1, <1>5
  <2> QED
    BY <2>2, <2>3, RemovalStepped
<1>6. CASE ~IsOnOverlay(p) /\ p.action \in {"add", "rebuild"}
  <2>1. p.action # "widgets" /\ p.action # "remove"
    BY <1>6
  <2>2. now \in PutScreen(views, p)
    BY <1>2, <1>6, <2>1, Zenon
  <2>3. p.id \in Ids(conf.screens) /\ p.new = Find(conf.screens, p.id)
    BY <1>1, <2>1, Zenon
  <2>4. ~p.new.overlay
    <3>1. p.new # NoScreen
      BY <2>3, ScreensAreThere
    <3> QED
      BY <1>6, <3>1 DEF IsOnOverlay
  <2> QED
    BY <2>2, <2>3, <2>4, PutStepped
<1> QED
  <2>1. p.action \in {"remove", "add", "rebuild", "widgets"}
    BY <1>1
  <2> QED
    BY <1>3, <1>4, <1>5, <1>6, <2>1

LEMMA ScreensArePatched ==
    ASSUME NEW base, IsGoodConfiguration(base), NEW conf, IsGoodConfiguration(conf),
           NEW views, GroupsAreAt(views, base, conf, {}),
           NEW now \in PatchScreens(views, PlanPatch(base, conf))
    PROVE  GroupsAreAt(now, base, conf, Ids(PlanPatch(base, conf)))
<1> DEFINE plan == PlanPatch(base, conf)
           n == Len(plan)
<1>1. /\ \E S : plan \in Seq(S)
      /\ IsUnique(plan) /\ \A k \in 1 .. n : IsScreenPatch(plan[k], base, conf)
  BY ScreensArePlanned, Zenon
<1> HIDE DEF plan
<1>2. PICK S : plan \in Seq(S)
  BY <1>1
<1>3. PICK steps : /\ steps[0] = {views}
                   /\ \A i \in 1 .. n : steps[i] = PatchEach(steps[i - 1], plan[i])
                   /\ PatchScreens(views, plan) = steps[n]
  BY <1>2, ScreenFoldsInTurn
<1>4. /\ DoneIds(plan, 0) = {} /\ DoneIds(plan, n) = Ids(plan)
      /\ \A k \in 1 .. n : /\ plan[k].id \notin DoneIds(plan, k - 1)
                           /\ DoneIds(plan, k) = DoneIds(plan, k - 1) \cup {plan[k].id}
  BY <1>1, <1>2, DoneInTurn
<1>5. n \in Nat
  BY <1>2
<1> HIDE DEF n
<1> DEFINE Good(m) == \A v \in steps[m] : GroupsAreAt(v, base, conf, DoneIds(plan, m))
           T == {m \in Nat : m <= n => Good(m)}
<1> HIDE DEF Good
<1>6. 0 \in T
  BY <1>3, <1>4 DEF Good
<1>7. ASSUME NEW m \in T PROVE m + 1 \in T
  <2> SUFFICES ASSUME m + 1 <= n PROVE Good(m + 1)
    OBVIOUS
  <2>1. m \in Nat /\ m + 1 \in 1 .. n /\ m <= n /\ (m + 1) - 1 = m
    BY <1>5
  <2>2. \A v \in steps[m] : GroupsAreAt(v, base, conf, DoneIds(plan, m))
    BY <2>1 DEF Good
  <2> DEFINE p == plan[m + 1]
             done == DoneIds(plan, m)
  <2>3. /\ steps[m + 1] = PatchEach(steps[m], p)
        /\ IsScreenPatch(p, base, conf) /\ p.id \notin done /\ DoneIds(plan, m + 1) = done \cup {p.id}
    BY <1>1, <1>3, <1>4, <2>1 DEF n
  <2> HIDE DEF p
  <2>4. ASSUME NEW v \in steps[m + 1] PROVE GroupsAreAt(v, base, conf, done \cup {p.id})
    <3>1. PICK before \in steps[m] : v \in PatchScreen(before, p)
      BY <2>3, Zenon DEF PatchEach
    <3>2. GroupsAreAt(before, base, conf, done)
      BY <2>2
    <3> HIDE DEF done
    <3> QED
      BY <2>3, <3>1, <3>2, ScreenIsPatched
  <2> QED
    BY <2>3, <2>4, Zenon DEF Good
<1> HIDE DEF T
<1>8. T = Nat
  BY <1>6, <1>7, AllNumbers DEF T
<1>9. Good(n)
  BY <1>5, <1>8 DEF T
<1> QED
  <2>1. PatchScreens(views, plan) = steps[n] /\ DoneIds(plan, n) = Ids(plan)
    BY <1>3, <1>4
  <2>2. now \in steps[n]
    BY <2>1 DEF plan
  <2>3. GroupsAreAt(now, base, conf, Ids(plan))
    BY <1>9, <2>1, <2>2, Zenon DEF Good
  <2> QED
    BY <2>3 DEF plan

-----------------------------------------------------------------------------
(* The groups as a configuration has them. *)

\* The groups show a configuration: its groups, and their screens in its order.
GroupsShow(views, conf) ==
    /\ views = [g \in GroupIds(conf) |-> views[g]]
    /\ \A g \in GroupIds(conf) :
          /\ IsList(views[g]) /\ Len(views[g]) = Len(ScreensOf(conf, g))
          /\ \A i \in 1 .. Len(ScreensOf(conf, g)) : ShowsScreen(views[g][i], ScreensOf(conf, g)[i])

LEMMA ListOfGroup ==
    ASSUME NEW conf, IsGoodConfiguration(conf), NEW group
    PROVE  /\ Len(ScreensOf(conf, group)) \in Nat
           /\ DOMAIN ScreensOf(conf, group) = 1 .. Len(ScreensOf(conf, group))
           /\ \A i \in 1 .. Len(ScreensOf(conf, group)) : IsGoodScreen(ScreensOf(conf, group)[i])
<1> DEFINE listed == ScreensOf(conf, group)
<1>1. listed \in Seq(ToSet(conf.screens))
  BY ScreensOfGroup
<1>2. \A s \in ToSet(conf.screens) : IsGoodScreen(s)
  BY ScreensAreThere
<1> HIDE DEF listed
<1>3. Len(listed) \in Nat /\ DOMAIN listed = 1 .. Len(listed) /\ \A i \in 1 .. Len(listed) : IsGoodScreen(listed[i])
  BY <1>1, <1>2
<1> QED
  BY <1>3 DEF listed

LEMMA BuiltShows ==
    ASSUME NEW conf, IsGoodConfiguration(conf)
    PROVE  GroupsShow(BuildGroups(conf), conf)
<1> DEFINE views == BuildGroups(conf)
           listed(g) == ScreensOf(conf, g)
<1>1. views = [g \in GroupIds(conf) |-> [i \in DOMAIN listed(g) |-> Assemble(listed(g)[i])]]
  BY Zenon DEF BuildGroups
<1> HIDE DEF views
<1>2. /\ views = [g \in GroupIds(conf) |-> views[g]]
      /\ \A g \in GroupIds(conf) : views[g] = [i \in DOMAIN listed(g) |-> Assemble(listed(g)[i])]
  BY <1>1
<1>3. ASSUME NEW g \in GroupIds(conf)
      PROVE  /\ IsList(views[g]) /\ Len(views[g]) = Len(listed(g))
             /\ \A i \in 1 .. Len(listed(g)) : ShowsScreen(views[g][i], listed(g)[i])
  <2> DEFINE screens == views[g]
             places == listed(g)
             n == Len(places)
             S == {screens[i] : i \in 1 .. n}
  <2>1. n \in Nat /\ DOMAIN places = 1 .. n /\ \A i \in 1 .. n : IsGoodScreen(places[i])
    BY ListOfGroup
  <2>2. screens = [i \in DOMAIN places |-> Assemble(places[i])]
    BY <1>2
  <2> HIDE DEF screens, places, n
  <2>3. screens \in [1 .. n -> S] /\ \A i \in 1 .. n : screens[i] = Assemble(places[i])
    BY <2>1, <2>2
  <2> HIDE DEF S
  <2>4. screens \in Seq(S) /\ Len(screens) = n
    BY <2>1, <2>3
  <2>5. IsList(screens)
    BY <2>4, SequenceIsList
  <2>6. \A i \in 1 .. n : ShowsScreen(screens[i], places[i])
    BY <2>1, <2>3, AssembledShows
  <2> QED
    BY <2>4, <2>5, <2>6 DEF screens, places, n
<1>4. GroupsShow(views, conf)
  BY <1>2, <1>3, Zenon DEF GroupsShow
<1> QED
  BY <1>4 DEF views

LEMMA ShapesOfShown ==
    ASSUME NEW conf, IsGoodConfiguration(conf), NEW views, GroupsShow(views, conf)
    PROVE  Shapes(views) = [g \in GroupIds(conf) |->
                               [i \in 1 .. Len(ScreensOf(conf, g)) |-> Shape(Assemble(ScreensOf(conf, g)[i]))]]
<1> DEFINE built(g) == [i \in 1 .. Len(ScreensOf(conf, g)) |-> Shape(Assemble(ScreensOf(conf, g)[i]))]
           shown(g) == [i \in DOMAIN views[g] |-> Shape(views[g][i])]
<1>1. /\ views = [g \in GroupIds(conf) |-> views[g]]
      /\ \A g \in GroupIds(conf) :
            /\ IsList(views[g]) /\ Len(views[g]) = Len(ScreensOf(conf, g))
            /\ \A i \in 1 .. Len(ScreensOf(conf, g)) : ShowsScreen(views[g][i], ScreensOf(conf, g)[i])
  BY Zenon DEF GroupsShow
<1>2. DOMAIN views = GroupIds(conf)
  BY <1>1
<1>3. ASSUME NEW g \in GroupIds(conf) PROVE shown(g) = built(g)
  <2> DEFINE screens == views[g]
             places == ScreensOf(conf, g)
             n == Len(places)
  <2>1. IsList(screens) /\ Len(screens) = n /\ \A i \in 1 .. n : ShowsScreen(screens[i], places[i])
    BY <1>1
  <2>2. DOMAIN screens = 1 .. n
    BY <2>1, ListIsThere
  <2>3. \A i \in 1 .. n : IsGoodScreen(places[i])
    BY ListOfGroup
  <2> HIDE DEF screens, places, n
  <2>4. \A i \in 1 .. n : Shape(screens[i]) = Shape(Assemble(places[i]))
    BY <2>1, <2>3, ShownShape
  <2>5. [i \in DOMAIN screens |-> Shape(screens[i])] = [i \in 1 .. n |-> Shape(Assemble(places[i]))]
    BY <2>2, <2>4, Zenon
  <2> QED
    BY <2>5, Zenon DEF screens, places, n
<1>4. Shapes(views) = [g \in DOMAIN views |-> shown(g)]
  BY Zenon DEF Shapes
<1> HIDE DEF shown, built
<1>5. [g \in DOMAIN views |-> shown(g)] = [g \in GroupIds(conf) |-> built(g)]
  BY <1>2, <1>3, Zenon
<1> QED
  BY <1>4, <1>5, Zenon DEF built

LEMMA GroupsBefore ==
    ASSUME NEW base, IsGoodConfiguration(base), NEW conf, NEW views, GroupsShow(views, base)
    PROVE  GroupsAreAt(views, base, conf, {})
<1>1. views = [g \in GroupIds(base) |-> views[g]]
  BY Zenon DEF GroupsShow
<1>2. ASSUME NEW g \in GroupIds(base) PROVE GroupIsAt(views[g], g, base, conf, {})
  <2> DEFINE screens == views[g]
             listed == ScreensOf(base, g)
             n == Len(listed)
  <2>1. IsList(screens) /\ Len(screens) = n /\ \A i \in 1 .. n : ShowsScreen(screens[i], listed[i])
    BY Zenon DEF GroupsShow
  <2>2. /\ listed \in Seq(ToSet(base.screens)) /\ IsUnique(listed) /\ Ids(listed) = IdsOn(base, g)
        /\ \A i \in 1 .. n : Find(base.screens, listed[i].id) = listed[i]
    BY ScreensOfGroup
  <2>3. IdsOn(base, g) # {}
    BY IdsOfGroup
  <2> HIDE DEF screens, listed, n
  <2>4. \A i \in 1 .. n : screens[i].id = listed[i].id
    <3> SUFFICES ASSUME NEW i \in 1 .. n PROVE screens[i].id = listed[i].id
      OBVIOUS
    <3>1. screens[i] = [id |-> listed[i].id, z |-> listed[i].z, roots |-> screens[i].roots]
      BY <2>1, Zenon DEF ShowsScreen
    <3> QED
      BY <3>1
  <2>5. IsUnique(screens)
    BY <2>1, <2>2, <2>4 DEF IsUnique, n
  <2>6. Ids(screens) = IdsOn(base, g)
    <3>1. screens \in Seq(ToSet(screens))
      BY <2>1 DEF IsList
    <3>2. /\ \A id : id \in Ids(screens) <=> \E i \in 1 .. Len(screens) : screens[i].id = id
          /\ \A id : id \in Ids(listed) <=> \E i \in 1 .. n : listed[i].id = id
      BY <2>2, <3>1, IdsOfPlaces DEF n
    <3>3. Len(screens) = n
      BY <2>1
    <3>4. ASSUME NEW id PROVE id \in Ids(screens) <=> id \in Ids(listed)
      BY <2>4, <3>2, <3>3
    <3>5. Ids(listed) = IdsOn(base, g)
      BY <2>2
    <3> QED
      BY <3>4, <3>5
  <2>7. ASSUME NEW i \in 1 .. Len(screens)
        PROVE  ShowsScreen(screens[i], Find((IF screens[i].id \in {} THEN conf ELSE base).screens, screens[i].id))
    <3>1. ShowsScreen(screens[i], Find(base.screens, screens[i].id))
      BY <2>1, <2>2, <2>4
    <3> QED
      BY <3>1
  <2>8. GroupIsAt(screens, g, base, conf, {})
    BY <2>1, <2>3, <2>5, <2>6, <2>7 DEF GroupIsAt
  <2> QED
    BY <2>8 DEF screens
<1> QED
  BY <1>1, <1>2 DEF GroupsAreAt

\* A group once all patches are done, before its screens are put in the list's order.
LEMMA GroupIsDone ==
    ASSUME NEW base, IsGoodConfiguration(base), NEW conf, IsGoodConfiguration(conf),
           NEW group, NEW screens, GroupIsAt(screens, group, base, conf, Ids(PlanPatch(base, conf)))
    PROVE  /\ Ids(screens) = IdsOn(conf, group)
           /\ \A i \in 1 .. Len(screens) : ShowsScreen(screens[i], Find(conf.screens, screens[i].id))
<1> DEFINE planned == Ids(PlanPatch(base, conf))
<1>1. /\ Ids(base.screens) \ Ids(conf.screens) \subseteq planned
      /\ \A id \in Ids(conf.screens) \ planned : PlanScreen(ScreenOf(base, id), Find(conf.screens, id)) = <<>>
  BY ScreensArePlanned, Zenon
<1> HIDE DEF planned
<1>2. ASSUME NEW id \in Ids(conf.screens) \ planned
      PROVE  /\ id \in Ids(base.screens)
             /\ PlanScreen(Find(base.screens, id), Find(conf.screens, id)) = <<>>
             /\ IsGoodScreen(Find(base.screens, id)) /\ IsGoodScreen(Find(conf.screens, id))
  <2> DEFINE new == Find(conf.screens, id)
  <2>1. PlanScreen(ScreenOf(base, id), new) = <<>>
    BY <1>1
  <2>2. id \in Ids(base.screens)
    <3> SUFFICES ASSUME id \notin Ids(base.screens) PROVE FALSE
      OBVIOUS
    <3>1. PlanScreen(NoScreen, new) = <<>>
      BY <2>1, ScreensAreThere
    <3>2. PlanScreen(NoScreen, new) = <<PatchOf(NoScreen, new, "add", <<>>)>>
      BY ScreenIsPlanned, Zenon
    <3>3. \A x : <<x>> # <<>>
      OBVIOUS
    <3> HIDE DEF new
    <3> QED
      BY <3>1, <3>2, <3>3, Zenon
  <2>3. ScreenOf(base, id) = Find(base.screens, id)
    BY <2>2, ScreensAreThere
  <2>4. IsGoodScreen(Find(base.screens, id)) /\ IsGoodScreen(new)
    BY <2>2, ScreensAreThere
  <2> QED
    BY <2>1, <2>2, <2>3, <2>4
<1>3. ASSUME NEW id, id \notin planned PROVE id \in IdsOn(base, group) <=> id \in IdsOn(conf, group)
  <2> DEFINE old == Find(base.screens, id)
             new == Find(conf.screens, id)
  <2>1. id \in IdsOn(base, group) <=> id \in Ids(base.screens) /\ ~old.overlay /\ old.group = group
    BY IdsOfGroup
  <2>2. id \in IdsOn(conf, group) <=> id \in Ids(conf.screens) /\ ~new.overlay /\ new.group = group
    BY IdsOfGroup
  <2>3. id \in Ids(base.screens) => id \in Ids(conf.screens)
    BY <1>1, <1>3
  <2>4. id \in Ids(conf.screens) => /\ id \in Ids(base.screens) /\ PlanScreen(old, new) = <<>>
                                    /\ IsGoodScreen(old) /\ IsGoodScreen(new)
    BY <1>2, <1>3
  <2> HIDE DEF old, new
  <2>5. id \in Ids(conf.screens) => old.group = new.group /\ old.overlay = new.overlay
    BY <2>4, UnplannedIsSame
  <2> QED
    BY <2>1, <2>2, <2>3, <2>4, <2>5
<1>4. /\ IsList(screens)
      /\ Ids(screens) = (IdsOn(base, group) \ planned) \cup (IdsOn(conf, group) \cap planned)
      /\ \A i \in 1 .. Len(screens) :
            ShowsScreen(screens[i], Find((IF screens[i].id \in planned THEN conf ELSE base).screens, screens[i].id))
  BY DEF GroupIsAt, planned
<1>5. Ids(screens) = IdsOn(conf, group)
  BY <1>3, <1>4
<1>6. ASSUME NEW i \in 1 .. Len(screens) PROVE ShowsScreen(screens[i], Find(conf.screens, screens[i].id))
  <2> DEFINE s == screens[i]
             id == s.id
  <2>1. ShowsScreen(s, Find((IF id \in planned THEN conf ELSE base).screens, id))
    BY <1>4
  <2>2. id \in Ids(conf.screens)
    <3>1. id \in Ids(screens)
      BY <1>4, IdsOfPlaces DEF IsList
    <3> QED
      BY <1>5, <3>1, IdsOfGroup
  <2> HIDE DEF id, s
  <2>3. CASE id \in planned
    BY <2>1, <2>3 DEF id, s
  <2>4. CASE id \notin planned
    <3>1. ShowsScreen(s, Find(base.screens, id))
      BY <2>1, <2>4
    <3>2. ShowsScreen(s, Find(conf.screens, id))
      BY <1>2, <2>2, <2>4, <3>1, UnplannedShows
    <3> QED
      BY <3>2 DEF id, s
  <2> QED
    BY <2>3, <2>4
<1> QED
  BY <1>5, <1>6

LEMMA GroupsAfter ==
    ASSUME NEW base, IsGoodConfiguration(base), NEW conf, IsGoodConfiguration(conf),
           NEW views, GroupsAreAt(views, base, conf, Ids(PlanPatch(base, conf)))
    PROVE  GroupsShow(OrderPatchedGroups(views, conf), conf)
<1> DEFINE planned == Ids(PlanPatch(base, conf))
           now == OrderPatchedGroups(views, conf)
<1>1. /\ views = [g \in GroupIds(base) |-> views[g]]
      /\ \A g \in GroupIds(base) : GroupIsAt(views[g], g, base, conf, planned)
      /\ \A s \in ToSet(conf.screens) : s.id \in planned /\ ~s.overlay => s.group \in GroupIds(base)
  BY DEF GroupsAreAt
<1>2. DOMAIN views = GroupIds(base)
  BY <1>1
<1>3. ASSUME NEW g \in GroupIds(base)
      PROVE  /\ Ids(views[g]) = IdsOn(conf, g) /\ IsList(views[g]) /\ IdsOn(conf, g) # {}
             /\ \A i \in 1 .. Len(views[g]) : ShowsScreen(views[g][i], Find(conf.screens, views[g][i].id))
  <2>1. GroupIsAt(views[g], g, base, conf, planned)
    BY <1>1
  <2>2. /\ Ids(views[g]) = IdsOn(conf, g)
        /\ \A i \in 1 .. Len(views[g]) : ShowsScreen(views[g][i], Find(conf.screens, views[g][i].id))
    BY <2>1, GroupIsDone
  <2>3. IsList(views[g]) /\ Ids(views[g]) # {}
    BY <2>1 DEF GroupIsAt
  <2> QED
    BY <2>2, <2>3
<1>4. GroupIds(conf) = GroupIds(base)
  <2>1. ASSUME NEW g \in GroupIds(base) PROVE g \in GroupIds(conf)
    BY <1>3, IdsOfGroup
  <2>2. ASSUME NEW g \in GroupIds(conf) PROVE g \in GroupIds(base)
    <3>1. PICK id : id \in IdsOn(conf, g)
      BY IdsOfGroup
    <3> DEFINE new == Find(conf.screens, id)
               old == Find(base.screens, id)
    <3>2. id \in Ids(conf.screens) /\ ~new.overlay /\ new.group = g
      BY <3>1, IdsOfGroup
    <3>3. new \in ToSet(conf.screens) /\ new.id = id /\ IsGoodScreen(new)
      BY <3>2, ScreensAreThere
    <3>4. CASE id \in planned
      BY <1>1, <3>2, <3>3, <3>4
    <3>5. CASE id \notin planned
      <4>1. PlanScreen(ScreenOf(base, id), new) = <<>>
        BY <3>2, <3>5, ScreensArePlanned
      <4>2. id \in Ids(base.screens)
        <5> SUFFICES ASSUME id \notin Ids(base.screens) PROVE FALSE
          OBVIOUS
        <5>1. PlanScreen(NoScreen, new) = <<>>
          BY <4>1, ScreensAreThere
        <5>2. PlanScreen(NoScreen, new) = <<PatchOf(NoScreen, new, "add", <<>>)>>
          BY ScreenIsPlanned, Zenon
        <5>3. \A x : <<x>> # <<>>
          OBVIOUS
        <5> HIDE DEF new
        <5> QED
          BY <5>1, <5>2, <5>3, Zenon
      <4>3. ScreenOf(base, id) = old /\ old \in ToSet(base.screens) /\ IsGoodScreen(old)
        BY <4>2, ScreensAreThere
      <4> HIDE DEF new, old
      <4>4. old.group = new.group /\ old.overlay = new.overlay
        BY <3>3, <4>1, <4>3, UnplannedIsSame
      <4>5. id \in IdsOn(base, g)
        BY <3>2, <4>2, <4>4, IdsOfGroup DEF old
      <4> QED
        BY <4>5, IdsOfGroup
    <3> QED
      BY <3>4, <3>5
  <2> QED
    BY <2>1, <2>2
<1>5. now = [g \in DOMAIN views |->
                IF ScreensOf(conf, g) = <<>> THEN views[g] ELSE GroupOrderScreens(views[g], ScreensOf(conf, g))]
  BY Zenon DEF OrderPatchedGroups
<1> HIDE DEF now, planned
<1>6. /\ now = [g \in GroupIds(conf) |-> now[g]]
      /\ \A g \in GroupIds(conf) : now[g] =
            IF ScreensOf(conf, g) = <<>> THEN views[g] ELSE GroupOrderScreens(views[g], ScreensOf(conf, g))
  BY <1>2, <1>4, <1>5
<1>7. ASSUME NEW g \in GroupIds(conf)
      PROVE  /\ IsList(now[g]) /\ Len(now[g]) = Len(ScreensOf(conf, g))
             /\ \A i \in 1 .. Len(ScreensOf(conf, g)) : ShowsScreen(now[g][i], ScreensOf(conf, g)[i])
  <2> DEFINE screens == views[g]
             listed == ScreensOf(conf, g)
             n == Len(listed)
             ordered == InOrderOf(screens, listed)
  <2>1. /\ Ids(screens) = IdsOn(conf, g) /\ IsList(screens) /\ IdsOn(conf, g) # {}
        /\ \A i \in 1 .. Len(screens) : ShowsScreen(screens[i], Find(conf.screens, screens[i].id))
    BY <1>3, <1>4
  <2>2. /\ listed \in Seq(ToSet(conf.screens)) /\ Ids(listed) = IdsOn(conf, g)
        /\ \A i \in 1 .. n : Find(conf.screens, listed[i].id) = listed[i]
    BY ScreensOfGroup
  <2>3. listed # <<>>
    <3>1. Ids(<<>>) = {}
      BY DEF Ids
    <3> QED
      BY <2>1, <2>2, <3>1
  <2>4. now[g] = ordered
    <3>1. now[g] = GroupOrderScreens(screens, listed)
      BY <1>6, <2>3
    <3> QED
      BY <3>1, Zenon DEF GroupOrderScreens, InOrderOf
  <2> HIDE DEF screens, listed, n, ordered
  <2>5. screens \in Seq(ToSet(screens))
    BY <2>1 DEF IsList
  <2>6. /\ ordered \in Seq(ToSet(screens)) /\ Len(ordered) = n
        /\ \A i \in 1 .. n : ordered[i].id = listed[i].id /\ \E k \in 1 .. Len(screens) : ordered[i] = screens[k]
    BY <2>1, <2>2, <2>5, Reordered DEF ordered, n
  <2>7. \A i \in 1 .. n : ShowsScreen(ordered[i], listed[i])
    <3> SUFFICES ASSUME NEW i \in 1 .. n PROVE ShowsScreen(ordered[i], listed[i])
      OBVIOUS
    <3>1. PICK k \in 1 .. Len(screens) : ordered[i] = screens[k]
      BY <2>6
    <3>2. ShowsScreen(ordered[i], Find(conf.screens, ordered[i].id))
      BY <2>1, <3>1
    <3>3. Find(conf.screens, ordered[i].id) = listed[i]
      BY <2>2, <2>6
    <3> QED
      BY <3>2, <3>3
  <2>8. IsList(ordered)
    BY <2>6, SequenceIsList
  <2> QED
    BY <2>4, <2>6, <2>7, <2>8 DEF listed, n
<1>8. GroupsShow(now, conf)
  BY <1>6, <1>7, Zenon DEF GroupsShow
<1> QED
  BY <1>8 DEF now

-----------------------------------------------------------------------------
(* The marks of the widgets are no part of what is shown. *)

LEMMA MarkedRootShows ==
    ASSUME NEW root, NEW widgets, ShowsRoot(root, widgets), NEW mark \in {"told", "built"}, NEW value
    PROVE  ShowsRoot(MarkedRoot(root, mark, value), widgets) /\ MarkedRoot(root, mark, value).id = root.id
<1> DEFINE owned == OwnedIds(widgets, root.id)
           tree == root.tree
           made == [id \in owned |-> [tree[id] EXCEPT ![mark] = value]]
           root_now == MarkedRoot(root, mark, value)
<1>1. /\ root = [id |-> root.id, tree |-> tree]
      /\ tree = [id \in owned |-> tree[id]]
      /\ \A id \in owned : /\ DOMAIN tree[id] = {"rec", "kids", "told", "built"}
                           /\ tree[id].rec = Find(widgets, id)
                           /\ tree[id].kids = Drawn(widgets, Find(widgets, id))
  BY Zenon DEF ShowsRoot
<1>2. root_now = [root EXCEPT !.tree = [id \in DOMAIN tree |-> [tree[id] EXCEPT ![mark] = value]]]
  BY Zenon DEF MarkedRoot
<1> HIDE DEF tree, owned, root_now
<1>3. DOMAIN tree = owned
  BY <1>1
<1>4. root_now = [root EXCEPT !.tree = made]
  BY <1>2, <1>3, Zenon
<1>5. \A id \in owned : made[id] = [tree[id] EXCEPT ![mark] = value]
  OBVIOUS
<1>6. made = [id \in owned |-> made[id]]
  OBVIOUS
<1> HIDE DEF made
<1>7. ASSUME NEW id \in owned
      PROVE  /\ DOMAIN made[id] = {"rec", "kids", "told", "built"}
             /\ made[id].rec = Find(widgets, id) /\ made[id].kids = Drawn(widgets, Find(widgets, id))
  <2> DEFINE node == tree[id]
  <2>1. DOMAIN node = {"rec", "kids", "told", "built"}
        /\ node.rec = Find(widgets, id) /\ node.kids = Drawn(widgets, Find(widgets, id))
    BY <1>1
  <2>2. made[id] = [node EXCEPT ![mark] = value]
    BY <1>5
  <2> HIDE DEF node
  <2>3. mark # "rec" /\ mark # "kids"
    OBVIOUS
  <2> QED
    BY <2>1, <2>2, <2>3
<1>8. root_now = [id |-> root.id, tree |-> made]
  BY <1>1, <1>4
<1>9. root_now.id = root.id /\ root_now.tree = made /\ root_now = [id |-> root_now.id, tree |-> root_now.tree]
  BY <1>8
<1>10. ShowsRoot(root_now, widgets)
  BY <1>6, <1>7, <1>9, Zenon DEF ShowsRoot, owned
<1> QED
  BY <1>9, <1>10 DEF root_now

LEMMA MarkedScreenShows ==
    ASSUME NEW s, NEW screen, ShowsScreen(s, screen), NEW mark \in {"told", "built"}, NEW value
    PROVE  ShowsScreen(MarkedScreen(s, mark, value), screen)
<1> DEFINE roots == s.roots
           n == Len(roots)
           made == [r \in 1 .. n |-> MarkedRoot(roots[r], mark, value)]
           now == MarkedScreen(s, mark, value)
           S == {made[r] : r \in 1 .. n}
<1>1. /\ s = [id |-> screen.id, z |-> screen.z, roots |-> roots]
      /\ IsList(roots) /\ n = Len(Roots(screen.widgets))
      /\ \A r \in 1 .. n : roots[r].id = Roots(screen.widgets)[r].id /\ ShowsRoot(roots[r], screen.widgets)
  BY Zenon DEF ShowsScreen
<1>2. now = [s EXCEPT !.roots = [r \in DOMAIN roots |-> MarkedRoot(roots[r], mark, value)]]
  BY Zenon DEF MarkedScreen
<1>3. DOMAIN roots = 1 .. n /\ n \in Nat
  BY <1>1, ListIsThere
<1> HIDE DEF roots, n, now
<1>4. now = [s EXCEPT !.roots = made]
  BY <1>2, <1>3, Zenon
<1>5. \A r \in 1 .. n : made[r] = MarkedRoot(roots[r], mark, value)
  OBVIOUS
<1>6. made \in [1 .. n -> S]
  OBVIOUS
<1> HIDE DEF S, made
<1>7. made \in Seq(S) /\ Len(made) = n
  BY <1>3, <1>6
<1>8. IsList(made)
  BY <1>7, SequenceIsList
<1>9. \A r \in 1 .. n : made[r].id = Roots(screen.widgets)[r].id /\ ShowsRoot(made[r], screen.widgets)
  BY <1>1, <1>5, MarkedRootShows
<1>10. now = [id |-> screen.id, z |-> screen.z, roots |-> made]
  BY <1>1, <1>4
<1>11. now.roots = made /\ now = [id |-> screen.id, z |-> screen.z, roots |-> now.roots]
  BY <1>10
<1>12. ShowsScreen(now, screen)
  BY <1>1, <1>7, <1>8, <1>9, <1>11, Zenon DEF ShowsScreen
<1> QED
  BY <1>12 DEF now

LEMMA MarkedShows ==
    ASSUME NEW conf, IsGoodConfiguration(conf), NEW views, GroupsShow(views, conf),
           NEW mark \in {"told", "built"}, NEW value
    PROVE  GroupsShow(Marked(views, mark, value), conf)
<1> DEFINE now == Marked(views, mark, value)
<1>1. /\ views = [g \in GroupIds(conf) |-> views[g]]
      /\ \A g \in GroupIds(conf) :
            /\ IsList(views[g]) /\ Len(views[g]) = Len(ScreensOf(conf, g))
            /\ \A i \in 1 .. Len(ScreensOf(conf, g)) : ShowsScreen(views[g][i], ScreensOf(conf, g)[i])
  BY Zenon DEF GroupsShow
<1>2. DOMAIN views = GroupIds(conf)
  BY <1>1
<1>3. now = [g \in DOMAIN views |-> [i \in DOMAIN views[g] |-> MarkedScreen(views[g][i], mark, value)]]
  BY Zenon DEF Marked
<1> HIDE DEF now
<1>4. /\ now = [g \in GroupIds(conf) |-> now[g]]
      /\ \A g \in GroupIds(conf) : now[g] = [i \in DOMAIN views[g] |-> MarkedScreen(views[g][i], mark, value)]
  BY <1>2, <1>3
<1>5. ASSUME NEW g \in GroupIds(conf)
      PROVE  /\ IsList(now[g]) /\ Len(now[g]) = Len(ScreensOf(conf, g))
             /\ \A i \in 1 .. Len(ScreensOf(conf, g)) : ShowsScreen(now[g][i], ScreensOf(conf, g)[i])
  <2> DEFINE screens == views[g]
             listed == ScreensOf(conf, g)
             n == Len(listed)
             made == now[g]
             S == {made[i] : i \in 1 .. n}
  <2>1. IsList(screens) /\ Len(screens) = n /\ \A i \in 1 .. n : ShowsScreen(screens[i], listed[i])
    BY <1>1
  <2>2. DOMAIN screens = 1 .. n /\ n \in Nat
    BY <2>1, ListIsThere
  <2>3. made = [i \in DOMAIN screens |-> MarkedScreen(screens[i], mark, value)]
    BY <1>4
  <2> HIDE DEF screens, listed, n, made
  <2>4. made \in [1 .. n -> S] /\ \A i \in 1 .. n : made[i] = MarkedScreen(screens[i], mark, value)
    BY <2>2, <2>3
  <2> HIDE DEF S
  <2>5. made \in Seq(S) /\ Len(made) = n
    BY <2>2, <2>4
  <2>6. IsList(made)
    BY <2>5, SequenceIsList
  <2>7. \A i \in 1 .. n : ShowsScreen(made[i], listed[i])
    BY <2>1, <2>4, MarkedScreenShows
  <2> QED
    BY <2>5, <2>6, <2>7 DEF made, listed, n
<1>6. GroupsShow(now, conf)
  BY <1>4, <1>5, Zenon DEF GroupsShow
<1> QED
  BY <1>6 DEF now

LEMMA MarksAside ==
    ASSUME NEW conf, IsGoodConfiguration(conf), NEW views, GroupsShow(views, conf)
    PROVE  GroupsShow(Settled(views), conf) /\ GroupsShow(Told(views), conf)
<1>1. Settled(views) = Marked(views, "built", FALSE)
  BY Zenon DEF Settled
<1>2. Told(views) = Marked(views, "told", TRUE)
  BY Zenon DEF Told
<1>3. GroupsShow(Marked(views, "built", FALSE), conf) /\ GroupsShow(Marked(views, "told", TRUE), conf)
  BY MarkedShows
<1> QED
  BY <1>1, <1>2, <1>3

-----------------------------------------------------------------------------
(* The screens, however they were patched. *)

LiveInv == pc # "failed" => GroupsShow(groups, staged)

LEMMA LiveNext ==
    ASSUME FormInv, LiveInv, Next
    PROVE  LiveInv'
<1>1. IsGoodConfiguration(staged)
  BY DEF FormInv, IsGoodConfiguration
<1>2. ASSUME NEW conf, IsGoodConfiguration(conf), Show(conf), staged' = conf PROVE LiveInv'
  <2>1. groups' = BuildGroups(conf)
    BY <1>2 DEF Show
  <2> QED
    BY <1>2, <2>1, BuiltShows DEF LiveInv
<1>3. ASSUME UNCHANGED <<staged, groups, pc>> PROVE LiveInv'
  BY <1>3 DEF LiveInv
<1>4. ASSUME NEW op \in client.ops, ApplyPatchOps(op) PROVE LiveInv'
  <2>1. pc = "idle" /\ groups' = Settled(groups) /\ staged' = staged
    BY <1>4 DEF ApplyPatchOps
  <2>2. GroupsShow(groups, staged)
    BY <2>1 DEF LiveInv
  <2> QED
    BY <1>1, <2>1, <2>2, MarksAside DEF LiveInv
<1>5. CASE RefuseInvalid
  BY <1>3, <1>5 DEF RefuseInvalid
<1>6. CASE ApplyPatch
  <2>1. PICK views \in PatchScreens(Settled(groups), Plan) : groups' = OrderPatchedGroups(views, patched)
    BY <1>6 DEF ApplyPatch
  <2>2. pc = "idle" /\ Validate(patched) /\ staged' = patched
    BY <1>6 DEF ApplyPatch, TakePatched
  <2>3. IsGoodConfiguration(patched)
    BY <2>2 DEF FormInv, IsGoodConfiguration
  <2>4. GroupsShow(Settled(groups), staged)
    BY <1>1, <2>2, MarksAside DEF LiveInv
  <2>5. GroupsAreAt(Settled(groups), staged, patched, {})
    BY <1>1, <2>4, GroupsBefore
  <2>6. GroupsAreAt(views, staged, patched, Ids(PlanPatch(staged, patched)))
    BY <1>1, <2>1, <2>3, <2>5, ScreensArePatched DEF Plan
  <2>7. GroupsShow(OrderPatchedGroups(views, patched), patched)
    BY <1>1, <2>3, <2>6, GroupsAfter
  <2> QED
    BY <2>1, <2>2, <2>7 DEF LiveInv
<1>7. CASE ApplyByRebuild
  <2>1. Validate(patched) /\ Show(patched) /\ staged' = patched
    BY <1>7 DEF ApplyByRebuild, TakePatched
  <2>2. IsGoodConfiguration(patched)
    BY <2>1 DEF FormInv, IsGoodConfiguration
  <2> QED
    BY <1>2, <2>1, <2>2
<1>8. CASE ApplyFails
  BY <1>8 DEF ApplyFails, LiveInv
<1>9. CASE ShowStagedAgain
  BY <1>1, <1>2, <1>9 DEF ShowStagedAgain
<1>10. CASE Replay
  <2>1. pc = "replaying" /\ groups' = Told(groups) /\ staged' = staged
    BY <1>10 DEF Replay, requestVars
  <2>2. GroupsShow(groups, staged)
    BY <2>1 DEF LiveInv
  <2> QED
    BY <1>1, <2>1, <2>2, MarksAside DEF LiveInv
<1>11. ASSUME NEW id \in Overlays(staged) \union {NoOverlay}, UserMovesOverlay(id) PROVE LiveInv'
  BY <1>3, <1>11 DEF UserMovesOverlay, requestVars
<1>12. CASE ViewShowsOverlay
  BY <1>3, <1>12 DEF ViewShowsOverlay, requestVars
<1> QED
  BY <1>4, <1>5, <1>6, <1>7, <1>8, <1>9, <1>10, <1>11, <1>12 DEF Next

\* However they were patched, the screens are those that a whole show of the
\* staged configuration builds: the same groups, screens, widgets and records,
\* drawn in the same order (UiController::ApplyPatchLocked and PatchScreen,
\* Screen::ApplyWidgetPatches).
THEOREM LiveHolds == ConfigurationsSpec => []LiveIsAsBuilt
<1>1. ConfigurationsInit => FormInv /\ LiveInv
  <2> SUFFICES ASSUME Init PROVE FormInv /\ LiveInv
    BY DEF ConfigurationsInit
  <2>1. FormInv /\ groups = Settled(Told(BuildGroups(staged)))
    BY ClientsAssumption DEF Init, FormInv
  <2>2. IsGoodConfiguration(staged)
    BY <2>1 DEF FormInv, IsGoodConfiguration
  <2>3. GroupsShow(Told(BuildGroups(staged)), staged)
    BY <2>2, BuiltShows, MarksAside
  <2>4. GroupsShow(groups, staged)
    BY <2>1, <2>2, <2>3, MarksAside
  <2> QED
    BY <2>1, <2>4 DEF LiveInv
<1>2. FormInv /\ LiveInv /\ [ConfigurationsNext]_allVars => FormInv' /\ LiveInv'
  <2>1. ASSUME FormInv, LiveInv, UNCHANGED vars PROVE FormInv' /\ LiveInv'
    BY <2>1 DEF FormInv, LiveInv, vars, requestVars, overlayVars
  <2>2. ASSUME FormInv, LiveInv, Next PROVE FormInv' /\ LiveInv'
    BY <2>2, FormNext, LiveNext
  <2>3. [ConfigurationsNext]_allVars => Next \/ UNCHANGED vars
    BY DEF ConfigurationsNext, PatchScene, EditScene, StoreScene, allVars
  <2> QED
    BY <2>1, <2>2, <2>3
<1>3. FormInv /\ LiveInv => LiveIsAsBuilt
  <2> SUFFICES ASSUME FormInv, LiveInv, pc # "failed" PROVE Shapes(groups) = Shapes(BuildGroups(staged))
    BY DEF LiveIsAsBuilt
  <2>1. IsGoodConfiguration(staged) /\ GroupsShow(groups, staged)
    BY DEF FormInv, LiveInv, IsGoodConfiguration
  <2>2. GroupsShow(BuildGroups(staged), staged)
    BY <2>1, BuiltShows
  <2> QED
    BY <2>1, <2>2, ShapesOfShown
<1> QED
  BY <1>1, <1>2, <1>3, PTL DEF ConfigurationsSpec

-----------------------------------------------------------------------------
(* What a widget owns, level by level. *)

\* What is on the levels from a widget down to one of them, as the first steps of Below.
IsLevels(f, widgets, id, top) ==
    f = [n \in 0 .. top |-> IF n = 0 THEN {id} ELSE f[n - 1] \cup UNION {Kids(widgets, k) : k \in f[n - 1]}]

\* There are levels as deep as one likes, and the deeper ones agree with the others.
LEMMA LevelsThere ==
    ASSUME NEW widgets, NEW id
    PROVE  \A top \in Nat :
              /\ \E f : IsLevels(f, widgets, id, top)
              /\ \A m \in 0 .. top : \A f, h :
                    IsLevels(f, widgets, id, top) /\ IsLevels(h, widgets, id, m) => f[m] = h[m]
<1> DEFINE T == {top \in Nat : \E f : IsLevels(f, widgets, id, top)}
<1>1. 0 \in T
  <2> DEFINE f == [n \in 0 .. 0 |-> {id}]
  <2>1. IsLevels(f, widgets, id, 0)
    <3>1. \A n \in 0 .. 0 : n = 0
      OBVIOUS
    <3>2. f = [n \in 0 .. 0 |-> IF n = 0 THEN {id} ELSE f[n - 1] \cup UNION {Kids(widgets, k) : k \in f[n - 1]}]
      BY <3>1, Zenon
    <3> QED
      BY <3>2, Zenon DEF IsLevels
  <2> QED
    BY <2>1
<1>2. ASSUME NEW m \in T PROVE m + 1 \in T
  <2>1. PICK before : IsLevels(before, widgets, id, m)
    OBVIOUS
  <2> DEFINE level(g, n) == IF n = 0 THEN {id} ELSE g[n - 1] \cup UNION {Kids(widgets, k) : k \in g[n - 1]}
             f == [n \in 0 .. (m + 1) |-> level(before, n)]
  <2>2. m \in Nat /\ before = [n \in 0 .. m |-> level(before, n)]
    BY <2>1 DEF IsLevels
  <2> HIDE DEF level
  <2>3. \A n \in 0 .. m : f[n] = before[n]
    <3>1. ASSUME NEW n \in 0 .. m PROVE f[n] = before[n]
      <4>1. n \in 0 .. (m + 1)
        BY <2>2
      <4>2. f[n] = level(before, n)
        BY <4>1
      <4>3. before[n] = level(before, n)
        BY <2>2
      <4> QED
        BY <4>2, <4>3
    <3> QED
      BY <3>1
  <2>4. ASSUME NEW n \in 0 .. (m + 1) PROVE f[n] = level(f, n)
    <3>1. n # 0 => n - 1 \in 0 .. m
      BY <2>2
    <3>2. n # 0 => f[n - 1] = before[n - 1]
      BY <2>3, <3>1
    <3>3. level(f, n) = level(before, n)
      <4> HIDE DEF f
      <4> QED
        BY <3>2, Zenon DEF level
    <3> QED
      BY <3>3
  <2>5. f = [n \in 0 .. (m + 1) |-> level(f, n)]
    <3>1. f = [n \in 0 .. (m + 1) |-> f[n]]
      OBVIOUS
    <3> HIDE DEF f
    <3> QED
      BY <2>4, <3>1, Zenon
  <2>6. IsLevels(f, widgets, id, m + 1)
    <3> HIDE DEF f
    <3> QED
      BY <2>5, Zenon DEF IsLevels, level
  <2> QED
    BY <2>2, <2>6
<1>3. T = Nat
  <2> HIDE DEF T
  <2> QED
    BY <1>1, <1>2, AllNumbers DEF T
<1>4. ASSUME NEW top \in Nat, NEW f, IsLevels(f, widgets, id, top)
      PROVE  /\ f[0] = {id}
             /\ \A n \in Nat : n + 1 <= top => f[n + 1] = f[n] \cup UNION {Kids(widgets, k) : k \in f[n]}
  <2> DEFINE level(n) == IF n = 0 THEN {id} ELSE f[n - 1] \cup UNION {Kids(widgets, k) : k \in f[n - 1]}
  <2>1. f = [n \in 0 .. top |-> level(n)]
    BY <1>4, Zenon DEF IsLevels
  <2> HIDE DEF level
  <2>2. \A n \in 0 .. top : f[n] = level(n)
    BY <2>1
  <2>3. f[0] = level(0)
    BY <2>2
  <2>4. ASSUME NEW n \in Nat, n + 1 <= top
        PROVE  f[n + 1] = f[n] \cup UNION {Kids(widgets, k) : k \in f[n]}
    <3>1. n + 1 \in 0 .. top /\ n + 1 # 0 /\ (n + 1) - 1 = n
      BY <2>4
    <3>2. f[n + 1] = level(n + 1)
      BY <2>2, <3>1
    <3> QED
      BY <3>1, <3>2 DEF level
  <2> QED
    BY <2>3, <2>4 DEF level
<1>5. ASSUME NEW top \in Nat, NEW m \in 0 .. top, NEW f, NEW h,
             IsLevels(f, widgets, id, top), IsLevels(h, widgets, id, m)
      PROVE  f[m] = h[m]
  <2> DEFINE U == {n \in Nat : n <= m => f[n] = h[n]}
  <2>1. m \in Nat /\ m <= top
    OBVIOUS
  <2>2. f[0] = h[0]
    <3>1. f[0] = {id}
      BY <1>4, <1>5
    <3>2. h[0] = {id}
      BY <1>4, <1>5, <2>1
    <3> QED
      BY <3>1, <3>2
  <2>3. ASSUME NEW n \in U PROVE n + 1 \in U
    <3> SUFFICES ASSUME n + 1 <= m PROVE f[n + 1] = h[n + 1]
      OBVIOUS
    <3>1. n \in Nat /\ n <= m /\ n + 1 <= top
      BY <2>1
    <3>2. f[n] = h[n]
      BY <3>1
    <3>3. f[n + 1] = f[n] \cup UNION {Kids(widgets, k) : k \in f[n]}
      BY <1>4, <1>5, <3>1
    <3>4. h[n + 1] = h[n] \cup UNION {Kids(widgets, k) : k \in h[n]}
      BY <1>4, <1>5, <2>1, <3>1
    <3> QED
      BY <3>2, <3>3, <3>4
  <2>4. 0 \in U
    BY <2>2
  <2>5. U = Nat
    <3> HIDE DEF U
    <3> QED
      BY <2>3, <2>4, AllNumbers DEF U
  <2>6. m \in U
    BY <2>1, <2>5
  <2> QED
    BY <2>6
<1> QED
  BY <1>3, <1>5

\* Each level of what is below a widget has what the level before has, and what that owns.
LEMMA BelowInTurn ==
    ASSUME NEW widgets, NEW id
    PROVE  /\ Below(widgets, id, 0) = {id}
           /\ \A n \in Nat : Below(widgets, id, n + 1) =
                 Below(widgets, id, n) \cup UNION {Kids(widgets, k) : k \in Below(widgets, id, n)}
<1> DEFINE level(f, n) == IF n = 0 THEN {id} ELSE f[n - 1] \cup UNION {Kids(widgets, k) : k \in f[n - 1]}
           IsAll(f) == f = [n \in Nat |-> level(f, n)]
           part(n) == CHOOSE f : IsLevels(f, widgets, id, n)
           all == [n \in Nat |-> part(n)[n]]
           below == CHOOSE f : IsAll(f)
<1>1. \A n \in Nat : IsLevels(part(n), widgets, id, n)
  BY LevelsThere, Zenon
<1>2. \A n \in Nat : \A m \in 0 .. n : part(n)[m] = part(m)[m]
  <2>1. ASSUME NEW n \in Nat, NEW m \in 0 .. n PROVE part(n)[m] = part(m)[m]
    <3>1. m \in Nat
      OBVIOUS
    <3>2. IsLevels(part(n), widgets, id, n) /\ IsLevels(part(m), widgets, id, m)
      BY <1>1, <3>1
    <3> HIDE DEF part
    <3> QED
      BY <3>2, LevelsThere
  <2> QED
    BY <2>1
<1> HIDE DEF part
<1>3. ASSUME NEW n \in Nat PROVE all[n] = level(all, n)
  <2>1. part(n) = [m \in 0 .. n |-> level(part(n), m)]
    BY <1>1, Zenon DEF IsLevels
  <2>2. part(n)[n] = level(part(n), n)
    <3> HIDE DEF level
    <3>1. n \in 0 .. n
      OBVIOUS
    <3> QED
      BY <2>1, <3>1
  <2>3. n # 0 => part(n)[n - 1] = all[n - 1]
    <3> SUFFICES ASSUME n # 0 PROVE part(n)[n - 1] = all[n - 1]
      OBVIOUS
    <3>1. n - 1 \in 0 .. n /\ n - 1 \in Nat
      OBVIOUS
    <3>2. part(n)[n - 1] = part(n - 1)[n - 1]
      BY <1>2, <3>1
    <3> QED
      BY <3>1, <3>2
  <2>4. all[n] = part(n)[n]
    OBVIOUS
  <2> HIDE DEF all
  <2> QED
    BY <2>2, <2>3, <2>4, Zenon
<1>4. IsAll(all)
  <2>1. all = [n \in Nat |-> all[n]]
    OBVIOUS
  <2> HIDE DEF all, level
  <2> QED
    BY <1>3, <2>1, Zenon
<1>5. IsAll(below)
  <2> HIDE DEF IsAll, all
  <2> QED
    BY <1>4, Zenon
<1>6. \A n : Below(widgets, id, n) = below[n]
  BY Zenon DEF Below
<1>7. \A n \in Nat : below[n] = level(below, n)
  <2> HIDE DEF below, level
  <2> QED
    BY <1>5
<1> HIDE DEF below
<1>8. below[0] = {id}
  BY <1>7
<1>9. ASSUME NEW n \in Nat PROVE below[n + 1] = below[n] \cup UNION {Kids(widgets, k) : k \in below[n]}
  <2>1. n + 1 \in Nat /\ n + 1 # 0 /\ (n + 1) - 1 = n
    OBVIOUS
  <2>2. below[n + 1] = level(below, n + 1)
    BY <1>7, <2>1
  <2> QED
    BY <2>1, <2>2
<1> QED
  BY <1>6, <1>8, <1>9

-----------------------------------------------------------------------------
(* What a widget owns is closed, and the least that is. *)

\* There are no more ids than places.
LEMMA IdsAreFew ==
    ASSUME NEW S, NEW list \in Seq(S)
    PROVE  IsFiniteSet(Ids(list)) /\ Cardinality(Ids(list)) <= Len(list)
<1> DEFINE n == Len(list)
           f == [i \in 1 .. n |-> list[i].id]
<1>1. n \in Nat /\ \A id : id \in Ids(list) <=> \E i \in 1 .. n : list[i].id = id
  BY IdsOfPlaces
<1> HIDE DEF n
<1>2. f \in Surjection(1 .. n, Ids(list))
  BY <1>1 DEF Surjection
<1>3. IsFiniteSet(1 .. n) /\ Cardinality(1 .. n) = n
  BY <1>1, FS_Interval
<1> HIDE DEF f
<1>4. IsFiniteSet(Ids(list)) /\ Cardinality(Ids(list)) <= Cardinality(1 .. n)
  BY <1>2, <1>3, FS_Surjection
<1> QED
  BY <1>3, <1>4 DEF n

\* The widgets of a list that some ids own, themselves included.
Reached(widgets, ids) == ids \cup ((UNION {Kids(widgets, k) : k \in ids}) \cap Ids(widgets))

\* One step further down: the least that has the ids and what they own.
LEMMA ReachedIsLeast ==
    ASSUME NEW widgets, NEW ids
    PROVE  /\ ids \subseteq Reached(widgets, ids)
           /\ \A k \in ids : Kids(widgets, k) \cap Ids(widgets) \subseteq Reached(widgets, ids)
           /\ \A C : ids \subseteq C /\ (\A k \in ids : Kids(widgets, k) \cap Ids(widgets) \subseteq C)
                    => Reached(widgets, ids) \subseteq C
<1> DEFINE owned == UNION {Kids(widgets, k) : k \in ids}
<1>1. \A x : x \in owned <=> \E k \in ids : x \in Kids(widgets, k)
  OBVIOUS
<1>2. Reached(widgets, ids) = ids \cup (owned \cap Ids(widgets))
  BY Zenon DEF Reached
<1> HIDE DEF owned
<1> QED
  BY <1>1, <1>2

\* What is below a widget and in the list.
BelowThere(widgets, id, n) == Below(widgets, id, n) \cap Ids(widgets)

\* What a widget owns is reached from itself in as many steps as there are widgets.
LEMMA ReachedInTurn ==
    ASSUME NEW S, NEW widgets \in Seq(S), NEW id \in Ids(widgets)
    PROVE  /\ BelowThere(widgets, id, 0) = {id}
           /\ \A n \in Nat : BelowThere(widgets, id, n + 1) = Reached(widgets, BelowThere(widgets, id, n))
           /\ OwnedIds(widgets, id) = BelowThere(widgets, id, Len(widgets))
<1>1. BelowThere(widgets, id, 0) = {id}
  BY BelowInTurn DEF BelowThere
<1>2. ASSUME NEW n \in Nat PROVE BelowThere(widgets, id, n + 1) = Reached(widgets, BelowThere(widgets, id, n))
  <2> DEFINE level == Below(widgets, id, n)
  <2>0. \A m \in Nat : Below(widgets, id, m + 1) =
           Below(widgets, id, m) \cup UNION {Kids(widgets, k) : k \in Below(widgets, id, m)}
    BY BelowInTurn
  <2>1. Below(widgets, id, n + 1) = level \cup UNION {Kids(widgets, k) : k \in level}
    BY <2>0, Zenon
  <2> HIDE DEF level
  <2>2. \A k : k \notin Ids(widgets) => Kids(widgets, k) = {}
    BY FindsRecord DEF Kids
  <2>3. UNION {Kids(widgets, k) : k \in level} = UNION {Kids(widgets, k) : k \in level \cap Ids(widgets)}
    BY <2>2
  <2> DEFINE U == UNION {Kids(widgets, k) : k \in level \cap Ids(widgets)}
  <2>4. Below(widgets, id, n + 1) = level \cup U
    BY <2>1, <2>3, Zenon
  <2>5. Reached(widgets, level \cap Ids(widgets)) = (level \cap Ids(widgets)) \cup (U \cap Ids(widgets))
    BY Zenon DEF Reached
  <2> HIDE DEF U
  <2>6. (level \cup U) \cap Ids(widgets) = (level \cap Ids(widgets)) \cup (U \cap Ids(widgets))
    OBVIOUS
  <2> QED
    BY <2>4, <2>5, <2>6, Zenon DEF BelowThere, level
<1>3. OwnedIds(widgets, id) = BelowThere(widgets, id, Len(widgets))
  BY DEF OwnedIds, BelowThere
<1> QED
  BY <1>1, <1>2, <1>3

\* A widget is among what it owns, and so is what those own.
LEMMA OwnedIsClosed ==
    ASSUME NEW S, NEW widgets \in Seq(S), NEW id \in Ids(widgets)
    PROVE  /\ id \in OwnedIds(widgets, id)
           /\ \A k \in OwnedIds(widgets, id) : Kids(widgets, k) \cap Ids(widgets) \subseteq OwnedIds(widgets, id)
<1> DEFINE reach(n) == BelowThere(widgets, id, n)
           top == Len(widgets)
<1>1. /\ reach(0) = {id} /\ \A n \in Nat : reach(n + 1) = Reached(widgets, reach(n))
      /\ OwnedIds(widgets, id) = reach(top)
  BY ReachedInTurn
<1>2. \A n : reach(n) \subseteq Ids(widgets)
  BY DEF BelowThere
<1>3. top \in Nat /\ IsFiniteSet(Ids(widgets)) /\ Cardinality(Ids(widgets)) \in Nat /\ Cardinality(Ids(widgets)) <= top
  BY IdsAreFew, FS_CardinalityType
<1>4. \A n : IsFiniteSet(reach(n)) /\ Cardinality(reach(n)) \in Nat /\ Cardinality(reach(n)) <= top
  <2>1. ASSUME NEW n PROVE IsFiniteSet(reach(n)) /\ Cardinality(reach(n)) <= Cardinality(Ids(widgets))
    <3>1. reach(n) \in SUBSET Ids(widgets)
      BY <1>2
    <3> HIDE DEF reach
    <3> QED
      BY <1>3, <3>1, FS_Subset
  <2>2. \A n : IsFiniteSet(reach(n)) => Cardinality(reach(n)) \in Nat
    BY FS_CardinalityType
  <2> HIDE DEF reach, top
  <2> QED
    BY <1>3, <2>1, <2>2
<1> HIDE DEF reach, top
<1>5. ASSUME NEW n \in Nat PROVE reach(n) \subseteq reach(n + 1)
  BY <1>1, ReachedIsLeast
<1>6. PICK m \in Nat : m <= top /\ reach(m + 1) = reach(m)
  <2> SUFFICES ASSUME \A m \in Nat : m <= top => reach(m + 1) # reach(m) PROVE FALSE
    OBVIOUS
  <2> DEFINE T == {n \in Nat : n <= top + 1 => Cardinality(reach(n)) >= n}
  <2>1. 0 \in T
    BY <1>4
  <2>2. ASSUME NEW n \in T PROVE n + 1 \in T
    <3> SUFFICES ASSUME n + 1 <= top + 1 PROVE Cardinality(reach(n + 1)) >= n + 1
      OBVIOUS
    <3>1. n \in Nat /\ n <= top /\ n <= top + 1
      BY <1>3
    <3>2. Cardinality(reach(n)) >= n
      BY <3>1
    <3>3. reach(n) \in SUBSET reach(n + 1) /\ reach(n + 1) # reach(n)
      BY <1>5, <3>1
    <3>4. Cardinality(reach(n)) <= Cardinality(reach(n + 1)) /\ Cardinality(reach(n + 1)) # Cardinality(reach(n))
      BY <1>4, <3>3, FS_Subset
    <3>5. Cardinality(reach(n)) \in Nat /\ Cardinality(reach(n + 1)) \in Nat
      BY <1>4
    <3> QED
      BY <3>1, <3>2, <3>4, <3>5
  <2>3. T = Nat
    <3> HIDE DEF T
    <3> QED
      BY <2>1, <2>2, AllNumbers DEF T
  <2>4. top + 1 \in T
    BY <1>3, <2>3
  <2>5. Cardinality(reach(top + 1)) >= top + 1
    BY <1>3, <2>4
  <2> QED
    BY <1>3, <1>4, <2>5
<1>7. Reached(widgets, reach(m)) = reach(m)
  BY <1>1, <1>6
<1>8. \A n \in Nat : reach(m + n) = reach(m)
  <2> DEFINE T == {n \in Nat : reach(m + n) = reach(m)}
  <2>1. 0 \in T
    OBVIOUS
  <2>2. ASSUME NEW n \in T PROVE n + 1 \in T
    <3>1. m + n \in Nat /\ m + (n + 1) = (m + n) + 1
      OBVIOUS
    <3>2. reach((m + n) + 1) = Reached(widgets, reach(m + n))
      BY <1>1, <3>1
    <3>3. reach(m + (n + 1)) = reach(m)
      BY <1>7, <3>1, <3>2
    <3> QED
      BY <3>3
  <2>3. T = Nat
    <3> HIDE DEF T
    <3> QED
      BY <2>1, <2>2, AllNumbers DEF T
  <2> QED
    BY <2>3
<1>9. reach(top) = reach(m)
  <2>1. top - m \in Nat /\ m + (top - m) = top
    BY <1>3, <1>6
  <2> QED
    BY <1>8, <2>1
<1>10. id \in reach(m)
  <2> DEFINE T == {n \in Nat : id \in reach(n)}
  <2>2. 0 \in T
    BY <1>1
  <2>3. \A n \in T : n + 1 \in T
    BY <1>5
  <2>4. T = Nat
    <3> HIDE DEF T
    <3> QED
      BY <2>2, <2>3, AllNumbers DEF T
  <2> QED
    BY <2>4
<1>11. \A k \in reach(m) : Kids(widgets, k) \cap Ids(widgets) \subseteq reach(m)
  BY <1>7, ReachedIsLeast
<1> QED
  BY <1>1, <1>9, <1>10, <1>11

\* Nothing is owned that a closed set with the widget does without.
LEMMA OwnedIsLeast ==
    ASSUME NEW S, NEW widgets \in Seq(S), NEW id \in Ids(widgets),
           NEW C, id \in C, \A k \in C : Kids(widgets, k) \cap Ids(widgets) \subseteq C
    PROVE  OwnedIds(widgets, id) \subseteq C
<1> DEFINE reach(n) == BelowThere(widgets, id, n)
<1>1. /\ reach(0) = {id} /\ \A n \in Nat : reach(n + 1) = Reached(widgets, reach(n))
      /\ OwnedIds(widgets, id) = reach(Len(widgets))
  BY ReachedInTurn
<1> HIDE DEF reach
<1> DEFINE T == {n \in Nat : reach(n) \subseteq C}
<1>2. 0 \in T
  BY <1>1
<1>3. ASSUME NEW n \in T PROVE n + 1 \in T
  <2>1. reach(n + 1) = Reached(widgets, reach(n)) /\ reach(n) \subseteq C
    BY <1>1
  <2>2. Reached(widgets, reach(n)) \subseteq C
    BY <2>1, ReachedIsLeast
  <2> QED
    BY <2>1, <2>2
<1>4. T = Nat
  <2> HIDE DEF T
  <2> QED
    BY <1>2, <1>3, AllNumbers DEF T
<1>5. Len(widgets) \in T
  BY <1>4
<1> QED
  BY <1>1, <1>5

\* The children of a widget of a screen are widgets of the screen.
LEMMA KidsAreThere ==
    ASSUME NEW s, IsGoodScreen(s), NEW id \in Ids(s.widgets)
    PROVE  /\ Find(s.widgets, id) \in ToSet(s.widgets) /\ Find(s.widgets, id).id = id
           /\ Kids(s.widgets, id) = ToSet(Find(s.widgets, id).kids) /\ Kids(s.widgets, id) \subseteq Ids(s.widgets)
<1>1. s.widgets \in Seq(ToSet(s.widgets)) /\ \A w \in ToSet(s.widgets) : ToSet(w.kids) \subseteq Ids(s.widgets)
  BY GoodWidgets
<1>2. Has(s.widgets, id) /\ Find(s.widgets, id) \in ToSet(s.widgets) /\ Find(s.widgets, id).id = id
  BY <1>1, FindsRecord
<1> QED
  BY <1>1, <1>2 DEF Kids

\* Where none of its widgets changed, a subtree has the widgets it had.
LEMMA SameIsOwned ==
    ASSUME NEW old, IsGoodScreen(old), NEW new, IsGoodScreen(new), NEW root \in Ids(new.widgets),
           \A k \in OwnedIds(new.widgets, root) :
              k \in Ids(old.widgets) /\ Find(old.widgets, k) = Find(new.widgets, k)
    PROVE  OwnedIds(old.widgets, root) = OwnedIds(new.widgets, root)
<1> DEFINE before == old.widgets
           after == new.widgets
<1>1. before \in Seq(ToSet(before)) /\ after \in Seq(ToSet(after))
  BY GoodWidgets
<1>2. /\ root \in OwnedIds(after, root) /\ OwnedIds(after, root) \subseteq Ids(after)
      /\ \A k \in OwnedIds(after, root) : Kids(after, k) \cap Ids(after) \subseteq OwnedIds(after, root)
  BY <1>1, OwnedIsClosed DEF OwnedIds
<1>3. root \in Ids(before)
  BY <1>2
<1>4. /\ root \in OwnedIds(before, root) /\ OwnedIds(before, root) \subseteq Ids(before)
      /\ \A k \in OwnedIds(before, root) : Kids(before, k) \cap Ids(before) \subseteq OwnedIds(before, root)
  BY <1>1, <1>3, OwnedIsClosed DEF OwnedIds
<1>5. \A k \in OwnedIds(after, root) :
         Kids(before, k) = Kids(after, k) /\ Kids(after, k) \subseteq Ids(after) /\ Kids(before, k) \subseteq Ids(before)
  BY <1>2, KidsAreThere
<1>6. \A k \in OwnedIds(after, root) : Kids(before, k) \cap Ids(before) \subseteq OwnedIds(after, root)
  BY <1>2, <1>5
<1> DEFINE was == OwnedIds(before, root)
           is == OwnedIds(after, root)
<1> HIDE DEF before, after, was, is
<1>7. was \subseteq is
  BY <1>1, <1>2, <1>3, <1>6, OwnedIsLeast DEF was, is
<1>8. \A k \in was : Kids(after, k) \cap Ids(after) \subseteq was
  BY <1>4, <1>5, <1>7 DEF was, is
<1>9. is \subseteq was
  BY <1>1, <1>4, <1>8, OwnedIsLeast DEF was, is, after
<1> QED
  BY <1>7, <1>9 DEF was, is, before, after

\* Nothing owns itself: going up from a widget ends at a root.
LEMMA RootIsAbove ==
    ASSUME NEW s, IsGoodScreen(s), NEW id \in Ids(s.widgets)
    PROVE  \E root \in RootIds(s.widgets) : id \in OwnedIds(s.widgets, root)
<1> DEFINE list == s.widgets
           owned(x) == OwnedIds(list, x)
           up == {x \in Ids(list) : id \in owned(x)}
           size(x) == Cardinality(owned(x))
           free == {Len(list) - size(x) : x \in up}
<1>1. list \in Seq(ToSet(list))
  BY GoodWidgets
<1>2. \A x \in Ids(list) : x \in owned(x) /\ owned(x) \in SUBSET Ids(list)
                           /\ \A k \in owned(x) : Kids(list, k) \cap Ids(list) \subseteq owned(x)
  BY <1>1, OwnedIsClosed DEF OwnedIds
<1>3. Len(list) \in Nat /\ IsFiniteSet(Ids(list)) /\ Cardinality(Ids(list)) \in Nat /\ Cardinality(Ids(list)) <= Len(list)
  BY <1>1, IdsAreFew, FS_CardinalityType
<1>4. \A x \in Ids(list) : IsFiniteSet(owned(x)) /\ size(x) \in Nat /\ size(x) <= Len(list)
  <2> SUFFICES ASSUME NEW x \in Ids(list) PROVE IsFiniteSet(owned(x)) /\ size(x) \in Nat /\ size(x) <= Len(list)
    OBVIOUS
  <2>1. IsFiniteSet(owned(x)) /\ size(x) <= Cardinality(Ids(list))
    <3>1. owned(x) \in SUBSET Ids(list)
      BY <1>2
    <3> HIDE DEF owned
    <3> QED
      BY <1>3, <3>1, FS_Subset
  <2>2. size(x) \in Nat
    BY <2>1, FS_CardinalityType
  <2> HIDE DEF size
  <2> QED
    BY <1>3, <2>1, <2>2
<1>5. id \in up
  BY <1>2
<1>6. \A w \in ToSet(list) : w.id \in Ids(list) /\ ToSet(w.kids) \subseteq Ids(list) /\ Kids(list, w.id) = ToSet(w.kids)
  <2> SUFFICES ASSUME NEW w \in ToSet(list)
      PROVE  w.id \in Ids(list) /\ ToSet(w.kids) \subseteq Ids(list) /\ Kids(list, w.id) = ToSet(w.kids)
    OBVIOUS
  <2>1. IsUnique(list) /\ IsList(list) /\ ToSet(w.kids) \subseteq Ids(list)
    BY GoodWidgets DEF IsList
  <2>2. PICK i \in 1 .. Len(list) : list[i] = w
    BY <2>1, ListIsThere
  <2>3. w.id \in Ids(list) /\ Find(list, w.id) = w /\ Has(list, w.id)
    BY <1>1, <2>1, <2>2, FindsItself
  <2> QED
    BY <2>1, <2>3 DEF Kids
<1>7. \A w \in ToSet(list) : \A k \in ToSet(w.kids) : w.id \notin owned(k)
  BY DEF IsGoodScreen, ValidateScreen, IsShallow
<1> HIDE DEF list, owned
<1>8. free \subseteq Nat /\ free # {}
  <2>1. \A x \in up : Len(list) - size(x) \in Nat
    BY <1>3, <1>4
  <2> HIDE DEF size
  <2> QED
    BY <1>5, <2>1
<1>9. PICK n \in free : \A m \in free : n <= m
  <2> HIDE DEF free
  <2> QED
    BY <1>8, LeastExists
<1>10. PICK root \in up : n = Len(list) - size(root)
  BY <1>9
<1>11. ASSUME NEW w \in ToSet(list), root \in ToSet(w.kids) PROVE FALSE
  <2>1. w.id \in Ids(list) /\ root \in Ids(list) /\ Kids(list, w.id) = ToSet(w.kids)
    BY <1>6, <1>10
  <2>2. w.id \in owned(w.id) /\ root \in owned(w.id)
    BY <1>2, <1>11, <2>1
  <2>3. owned(root) \in SUBSET owned(w.id)
    <3>1. \A k \in owned(w.id) : Kids(list, k) \cap Ids(list) \subseteq owned(w.id)
      BY <1>2, <2>1
    <3> QED
      BY <1>1, <2>1, <2>2, <3>1, OwnedIsLeast DEF owned
  <2>4. owned(root) # owned(w.id)
    BY <1>7, <1>11, <2>2
  <2>5. size(root) <= size(w.id) /\ size(root) # size(w.id)
    BY <1>4, <2>1, <2>3, <2>4, FS_Subset
  <2>6. w.id \in up
    BY <1>10, <2>1, <2>3
  <2>7. n <= Len(list) - size(w.id)
    BY <1>9, <2>6
  <2>8. size(root) \in Nat /\ size(w.id) \in Nat
    BY <1>4, <2>1
  <2> HIDE DEF size
  <2> QED
    BY <1>3, <1>10, <2>5, <2>7, <2>8
<1>12. root \in RootIds(list)
  BY <1>10, <1>11 DEF RootIds, Owners
<1> QED
  BY <1>10, <1>12 DEF list, owned

-----------------------------------------------------------------------------
(* What a request asks for. *)

\* A list that got a record in place of the one of its id, or besides the others, finds it and them.
LEMMA PutFinds ==
    ASSUME NEW S, NEW list \in Seq(S), IsUnique(list), NEW x,
           NEW R, NEW longer \in Seq(R), IsPut(longer, list, x)
    PROVE  /\ Find(longer, x.id) = x
           /\ \A id \in Ids(list) : id # x.id => Find(longer, id) = Find(list, id)
<1>1. ASSUME NEW id \in Ids(longer)
      PROVE  Find(longer, id).id = id /\ (Find(longer, id) = x \/ (id # x.id /\ id \in Ids(list) /\ Find(longer, id) = Find(list, id)))
  <2>1. PICK k \in 1 .. Len(longer) : Find(longer, id) = longer[k] /\ longer[k].id = id
    BY FindsRecord
  <2>2. CASE longer[k] = x
    <3>1. Find(longer, id) = x /\ Find(longer, id).id = id
      BY <2>1, <2>2, Zenon
    <3> QED
      BY <3>1, Zenon
  <2>3. CASE \E i \in 1 .. Len(list) : longer[k] = list[i] /\ list[i].id # x.id
    <3>1. PICK i \in 1 .. Len(list) : longer[k] = list[i] /\ list[i].id # x.id
      BY <2>3
    <3>2. Find(list, list[i].id) = list[i] /\ list[i].id \in Ids(list)
      BY FindsItself
    <3> QED
      BY <2>1, <3>1, <3>2
  <2> QED
    BY <2>2, <2>3 DEF IsPut
<1>2. Ids(longer) = Ids(list) \cup {x.id}
  BY DEF IsPut
<1> QED
  BY <1>1, <1>2

\* What stays of a list is found as before.
LEMMA StayingFinds ==
    ASSUME NEW S, NEW list \in Seq(S), IsUnique(list),
           NEW R, NEW part \in Seq(R), \A k \in 1 .. Len(part) : \E i \in 1 .. Len(list) : part[k] = list[i]
    PROVE  \A id \in Ids(part) : id \in Ids(list) /\ Find(part, id) = Find(list, id)
<1> SUFFICES ASSUME NEW id \in Ids(part) PROVE id \in Ids(list) /\ Find(part, id) = Find(list, id)
  OBVIOUS
<1>1. PICK k \in 1 .. Len(part) : Find(part, id) = part[k] /\ part[k].id = id
  BY FindsRecord
<1>2. PICK i \in 1 .. Len(list) : part[k] = list[i]
  OBVIOUS
<1>3. Find(list, list[i].id) = list[i] /\ list[i].id \in Ids(list)
  BY FindsItself
<1> QED
  BY <1>1, <1>2, <1>3

\* A widget is put in place of the one of its id, or besides the others.
LEMMA WidgetIsPut ==
    ASSUME NEW list, IsWidgets(list), IsUnique(list), NEW w, IsWidget(w)
    PROVE  IsPut(PutWidget(list, w), list, w)
<1> DEFINE S == ToSet(list) \cup {w}
           at == IndexOf(list, w.id)
           n == Len(list)
<1>1. list \in Seq(S) /\ (\A v \in S : v.z \in Int) /\ w \in S
  <2>1. list \in Seq(ToSet(list)) /\ \A v \in ToSet(list) : v.z \in Int
    BY WidgetsHaveZ
  <2> QED
    BY <2>1 DEF IsWidget
<1> HIDE DEF S
<1>2. Has(list, w.id) <=> w.id \in Ids(list)
  BY <1>1, FindsRecord
<1>3. CASE ~Has(list, w.id)
  <2> DEFINE longer == AddByZ(list, w)
  <2>1. PutWidget(list, w) = longer
    BY <1>3 DEF PutWidget
  <2>2. longer \in Seq(S) /\ IsAdded(longer, list, w)
    BY <1>1, AddsRecord
  <2> HIDE DEF longer
  <2>3. \A i \in 1 .. Len(list) : list[i].id # w.id
    BY <1>1, <1>2, <1>3, IdsOfPlaces
  <2> QED
    BY <1>2, <1>3, <2>1, <2>2, <2>3 DEF IsAdded, IsPut
<1>4. CASE Has(list, w.id) /\ Find(list, w.id).z = w.z
  <2>1. PutWidget(list, w) = ReplaceAt(list, at, w)
    BY <1>4, Zenon DEF PutWidget
  <2> QED
    BY <1>1, <1>2, <1>4, <2>1, PutsInPlace
<1>5. CASE Has(list, w.id) /\ Find(list, w.id).z # w.z
  <2> DEFINE less == RemoveAt(list, at)
             longer == AddByZ(less, w)
  <2>1. PutWidget(list, w) = longer
    BY <1>5, Zenon DEF PutWidget
  <2>2. at \in 1 .. n /\ list[at].id = w.id /\ n \in Nat
    BY <1>1, <1>2, <1>5, FindsRecord
  <2>3. less \in Seq(S) /\ Len(less) = n - 1 /\ \A i \in 1 .. n - 1 : less[i] = list[IF i < at THEN i ELSE i + 1]
    BY <1>1, <2>2, RemovesThere
  <2> HIDE DEF less, at
  <2>4. \A i \in 1 .. n - 1 : \E j \in 1 .. n : j # at /\ less[i] = list[j]
    <3> SUFFICES ASSUME NEW i \in 1 .. n - 1 PROVE \E j \in 1 .. n : j # at /\ less[i] = list[j]
      OBVIOUS
    <3>1. CASE i < at
      BY <2>2, <2>3, <3>1
    <3>2. CASE ~(i < at)
      <4>1. i + 1 \in 1 .. n /\ i + 1 # at
        BY <2>2, <3>2
      <4> QED
        BY <2>3, <3>2, <4>1
    <3> QED
      BY <3>1, <3>2
  <2>5. \A j \in 1 .. n : j # at => \E i \in 1 .. n - 1 : less[i] = list[j]
    <3> SUFFICES ASSUME NEW j \in 1 .. n, j # at PROVE \E i \in 1 .. n - 1 : less[i] = list[j]
      OBVIOUS
    <3>1. CASE j < at
      <4>1. j \in 1 .. n - 1
        BY <2>2, <3>1
      <4> QED
        BY <2>3, <3>1, <4>1
    <3>2. CASE ~(j < at)
      <4>1. j - 1 \in 1 .. n - 1 /\ ~(j - 1 < at) /\ (j - 1) + 1 = j
        BY <2>2, <3>2
      <4> QED
        BY <2>3, <4>1
    <3> QED
      BY <3>1, <3>2
  <2>6. \A i, j \in 1 .. n - 1 : (IF i < at THEN i ELSE i + 1) = (IF j < at THEN j ELSE j + 1) => i = j
    BY <2>2
  <2>7. IsUnique(less)
    <3> SUFFICES ASSUME NEW i \in 1 .. n - 1, NEW j \in 1 .. n - 1, less[i].id = less[j].id PROVE i = j
      BY <2>3 DEF IsUnique
    <3> DEFINE k == IF i < at THEN i ELSE i + 1
               l == IF j < at THEN j ELSE j + 1
    <3>1. k \in 1 .. n /\ l \in 1 .. n
      BY <2>2
    <3>2. less[i] = list[k] /\ less[j] = list[l]
      BY <2>3
    <3>3. k = l => i = j
      BY <2>6
    <3> HIDE DEF k, l
    <3>4. k = l
      BY <3>1, <3>2 DEF IsUnique
    <3> QED
      BY <3>3, <3>4
  <2>8. \A j \in 1 .. n : j # at => list[j].id # w.id
    BY <2>2 DEF IsUnique
  <2>9. \A id : id \in Ids(less) <=> id \in Ids(list) /\ id # w.id
    <3>1. \A id : id \in Ids(less) <=> \E i \in 1 .. n - 1 : less[i].id = id
      BY <2>3, IdsOfPlaces
    <3>2. \A id : id \in Ids(list) <=> \E j \in 1 .. n : list[j].id = id
      BY <1>1, IdsOfPlaces
    <3> HIDE DEF n
    <3> QED
      BY <2>2, <2>4, <2>5, <2>8, <3>1, <3>2
  <2>10. longer \in Seq(S) /\ IsAdded(longer, less, w)
    BY <1>1, <2>3, AddsRecord
  <2> HIDE DEF longer
  <2>11. IsUnique(longer) /\ Ids(longer) = Ids(list) \cup {w.id}
    <3>1. w.id \in Ids(list) /\ w.id \notin Ids(less)
      BY <1>2, <1>5, <2>9
    <3> QED
      BY <2>7, <2>9, <2>10, <3>1 DEF IsAdded
  <2>12. ASSUME NEW k \in 1 .. Len(longer)
         PROVE  longer[k] = w \/ \E i \in 1 .. Len(list) : longer[k] = list[i] /\ list[i].id # w.id
    <3>1. longer[k] = w \/ \E i \in 1 .. Len(less) : longer[k] = less[i]
      BY <2>10 DEF IsAdded
    <3>2. ASSUME NEW i \in 1 .. Len(less), longer[k] = less[i]
          PROVE  \E j \in 1 .. Len(list) : longer[k] = list[j] /\ list[j].id # w.id
      <4>1. i \in 1 .. n - 1
        BY <2>3
      <4>2. PICK j \in 1 .. n : j # at /\ less[i] = list[j]
        BY <2>4, <4>1
      <4> QED
        BY <2>8, <3>2, <4>2
    <3> QED
      BY <3>1, <3>2
  <2> QED
    BY <2>1, <2>11, <2>12 DEF IsPut
<1> QED
  BY <1>3, <1>4, <1>5

\* The operations of a request that put a widget, and those that put or remove a whole screen.
PutsWidget(asked, screen, id) ==
    \E i \in 1 .. Len(asked) : asked[i].kind = "put_widget" /\ asked[i].screen_id = screen /\ asked[i].widget.id = id

\* An operation of the request puts the screen or removes it.
PutsScreen(asked, screen) ==
    \E i \in 1 .. Len(asked) : asked[i].kind \in {"put_screen", "remove_screen"} /\ OpScreen(asked[i]) = screen

\* A screen became another by operations on its widgets: every widget that is new or another was put, and where an
\* owner went and what it owned stayed, one of them was put.
IsAsked(asked, id, old, new) ==
    /\ ClassifyScreenChange(old, new) = "in_place"
    /\ IsUnique(new.widgets)
    /\ \A k \in Ids(new.widgets) :
          \/ PutsWidget(asked, id, k)
          \/ k \in Ids(old.widgets) /\ Find(old.widgets, k) = Find(new.widgets, k)
    /\ \A k \in Ids(old.widgets) : \A l \in Kids(old.widgets, k) :
          l \in Ids(new.widgets) =>
             k \in Ids(new.widgets) \/ PutsWidget(asked, id, k) \/ PutsWidget(asked, id, l)

\* A configuration became another by the operations of a request.
AsksFor(asked, base, conf) ==
    /\ IsUnique(conf.screens)
    /\ \A id : ~PutsScreen(asked, id) =>
          /\ id \in Ids(base.screens) <=> id \in Ids(conf.screens)
          /\ id \in Ids(base.screens) => IsAsked(asked, id, Find(base.screens, id), Find(conf.screens, id))

\* A request that grows by an operation puts what it did, and what that one puts.
LEMMA AskedGrows ==
    ASSUME NEW S, NEW asked \in Seq(S), NEW op
    PROVE  /\ \A screen, id : PutsWidget(Append(asked, op), screen, id) <=>
                 \/ PutsWidget(asked, screen, id)
                 \/ op.kind = "put_widget" /\ op.screen_id = screen /\ op.widget.id = id
           /\ \A screen : PutsScreen(Append(asked, op), screen) <=>
                 \/ PutsScreen(asked, screen)
                 \/ op.kind \in {"put_screen", "remove_screen"} /\ OpScreen(op) = screen
<1> DEFINE longer == Append(asked, op)
           n == Len(asked)
<1>1. /\ n \in Nat /\ Len(longer) = n + 1 /\ longer[n + 1] = op /\ \A i \in 1 .. n : longer[i] = asked[i]
  OBVIOUS
<1> HIDE DEF longer, n
<1>2. \A i : i \in 1 .. (n + 1) <=> i \in 1 .. n \/ i = n + 1
  BY <1>1
<1>3. ASSUME NEW screen, NEW id
      PROVE  PutsWidget(longer, screen, id) <=>
                 \/ PutsWidget(asked, screen, id)
                 \/ op.kind = "put_widget" /\ op.screen_id = screen /\ op.widget.id = id
  BY <1>1, <1>2, Zenon DEF PutsWidget, n
<1>4. ASSUME NEW screen
      PROVE  PutsScreen(longer, screen) <=>
                 \/ PutsScreen(asked, screen)
                 \/ op.kind \in {"put_screen", "remove_screen"} /\ OpScreen(op) = screen
  BY <1>1, <1>2, Zenon DEF PutsScreen, n
<1> QED
  BY <1>3, <1>4 DEF longer

\* Nothing is asked for, and nothing changed.
LEMMA NothingAsked ==
    ASSUME NEW base, IsGoodConfiguration(base)
    PROVE  AsksFor(<<>>, base, base)
<1>1. IsUnique(base.screens)
  BY ScreensAreThere
<1>2. ASSUME NEW id \in Ids(base.screens) PROVE IsAsked(<<>>, id, Find(base.screens, id), Find(base.screens, id))
  <2> DEFINE s == Find(base.screens, id)
  <2>1. IsGoodScreen(s)
    BY FoundIsGood
  <2> HIDE DEF s
  <2>2. IsUnique(s.widgets)
    BY <2>1, GoodWidgets
  <2>3. ClassifyScreenChange(s, s) = "in_place"
    BY DEF ClassifyScreenChange
  <2>4. IsAsked(<<>>, id, s, s)
    BY <2>2, <2>3 DEF IsAsked
  <2> QED
    BY <2>4 DEF s
<1> QED
  BY <1>1, <1>2 DEF AsksFor

\* A configuration that takes a screen finds it, and the others as before.
LEMMA ScreenIsPut ==
    ASSUME NEW conf, IsConfiguration(conf), IsUnique(conf.screens), NEW screen, IsScreen(screen)
    PROVE  LET now == WithScreen(conf, screen)
           IN  /\ IsUnique(now.screens) /\ Ids(now.screens) = Ids(conf.screens) \cup {screen.id}
               /\ Find(now.screens, screen.id) = screen
               /\ \A id \in Ids(conf.screens) : id # screen.id => Find(now.screens, id) = Find(conf.screens, id)
<1> DEFINE list == conf.screens
           S == ToSet(list) \cup {screen}
           longer == IF Has(list, screen.id) THEN ReplaceAt(list, IndexOf(list, screen.id), screen)
                     ELSE Append(list, screen)
<1>1. list \in Seq(S) /\ screen \in S /\ (Has(list, screen.id) <=> screen.id \in Ids(list))
  <2>1. list \in Seq(ToSet(list)) /\ (Has(list, screen.id) <=> screen.id \in Ids(list))
    BY FindsScreen
  <2> QED
    BY <2>1
<1>2. WithScreen(conf, screen).screens = longer
  <2>1. DOMAIN conf = {"active", "screens"}
    <3>1. conf = [active |-> conf.active, screens |-> conf.screens]
      BY DEF IsConfiguration
    <3> QED
      BY <3>1
  <2> DEFINE x == longer
  <2>2. WithScreen(conf, screen) = [conf EXCEPT !.screens = x]
    BY Zenon DEF WithScreen
  <2> HIDE DEF x
  <2>3. [conf EXCEPT !.screens = x].screens = x
    BY <2>1
  <2> QED
    BY <2>2, <2>3 DEF x
<1> HIDE DEF S
<1>3. longer \in Seq(S) /\ IsPut(longer, list, screen)
  <2>1. CASE screen.id \in Ids(list)
    <3>1. longer = ReplaceAt(list, IndexOf(list, screen.id), screen)
      BY <1>1, <2>1
    <3> QED
      BY <1>1, <2>1, <3>1, PutsInPlace
  <2>2. CASE screen.id \notin Ids(list)
    <3>1. longer = Append(list, screen)
      BY <1>1, <2>2
    <3> QED
      BY <1>1, <2>2, <3>1, PutsLast
  <2> QED
    BY <2>1, <2>2
<1> HIDE DEF longer
<1>4. /\ Find(longer, screen.id) = screen
      /\ \A id \in Ids(list) : id # screen.id => Find(longer, id) = Find(list, id)
  BY <1>1, <1>3, PutFinds
<1> QED
  BY <1>2, <1>3, <1>4 DEF IsPut

\* More was asked of a screen that stays as it was.
LEMMA StillAsked ==
    ASSUME NEW S, NEW asked \in Seq(S), NEW op, NEW id, NEW old, NEW new, IsAsked(asked, id, old, new)
    PROVE  IsAsked(Append(asked, op), id, old, new)
<1> DEFINE more == Append(asked, op)
<1>1. \A k : PutsWidget(asked, id, k) => PutsWidget(more, id, k)
  BY AskedGrows
<1> HIDE DEF more
<1>2. IsAsked(more, id, old, new)
  BY <1>1 DEF IsAsked
<1> QED
  BY <1>2 DEF more

\* Other widgets change nothing of how the screens themselves compare.
LEMMA FrameIsKept ==
    ASSUME NEW old, NEW new, ClassifyScreenChange(old, new) = "in_place", NEW list
    PROVE  ClassifyScreenChange(old, [new EXCEPT !.widgets = list]) = "in_place"
<1>1. [[new EXCEPT !.widgets = list] EXCEPT !.widgets = <<>>] = [new EXCEPT !.widgets = <<>>]
  OBVIOUS
<1> QED
  BY <1>1, Zenon DEF ClassifyScreenChange

\* A widget that is put is asked for, and the others stay so.
LEMMA PutIsAsked ==
    ASSUME NEW S, NEW asked \in Seq(S), NEW id, NEW old, NEW new, IsScreen(new), IsAsked(asked, id, old, new),
           NEW op, op.kind = "put_widget", op.screen_id = id, IsWidget(op.widget)
    PROVE  IsAsked(Append(asked, op), id, old, [new EXCEPT !.widgets = PutWidget(new.widgets, op.widget)])
<1> DEFINE more == Append(asked, op)
           w == op.widget
           list == PutWidget(new.widgets, w)
           now == [new EXCEPT !.widgets = list]
<1>1. \A k : PutsWidget(more, id, k) <=> PutsWidget(asked, id, k) \/ k = w.id
  BY AskedGrows
<1>2. now.widgets = list /\ IsWidgets(new.widgets)
  BY ScreenIsRecord
<1>3. new.widgets \in Seq(ToSet(new.widgets)) /\ IsUnique(new.widgets)
  BY <1>2, WidgetsHaveZ DEF IsAsked
<1>4. IsPut(list, new.widgets, w) /\ list \in Seq(ToSet(list))
  BY <1>2, <1>3, WidgetIsPut, PutIsWidgets, WidgetsHaveZ
<1>5. ClassifyScreenChange(old, now) = "in_place"
  BY FrameIsKept DEF IsAsked
<1> HIDE DEF more, list
<1>6. /\ IsUnique(list) /\ Ids(list) = Ids(new.widgets) \cup {w.id}
      /\ \A k \in Ids(new.widgets) : k # w.id => Find(list, k) = Find(new.widgets, k)
  <2>1. \A k \in Ids(new.widgets) : k # w.id => Find(list, k) = Find(new.widgets, k)
    BY <1>3, <1>4, PutFinds
  <2>2. IsUnique(list) /\ Ids(list) = Ids(new.widgets) \cup {w.id}
    BY <1>4 DEF IsPut
  <2> QED
    BY <2>1, <2>2
<1> HIDE DEF now
<1>7. ASSUME NEW k \in Ids(list)
      PROVE  PutsWidget(more, id, k) \/ (k \in Ids(old.widgets) /\ Find(old.widgets, k) = Find(list, k))
  BY <1>1, <1>6 DEF IsAsked
<1>8. ASSUME NEW k \in Ids(old.widgets), NEW l \in Kids(old.widgets, k), l \in Ids(list)
      PROVE  k \in Ids(list) \/ PutsWidget(more, id, k) \/ PutsWidget(more, id, l)
  BY <1>1, <1>6, <1>8 DEF IsAsked
<1>9. IsAsked(more, id, old, now)
  BY <1>2, <1>5, <1>6, <1>7, <1>8 DEF IsAsked
<1> QED
  BY <1>9 DEF more, now, list

\* What stays after a widget went with all that it owns is as it was asked for.
LEMMA RemovalIsAsked ==
    ASSUME NEW S, NEW asked \in Seq(S), NEW id, NEW old, NEW new, IsScreen(new), IsAsked(asked, id, old, new),
           NEW op, NEW root \in Ids(new.widgets)
    PROVE  IsAsked(Append(asked, op), id, old,
                   [new EXCEPT !.widgets = Without(new.widgets, OwnedIds(new.widgets, root))])
<1> DEFINE more == Append(asked, op)
           gone == OwnedIds(new.widgets, root)
           list == Without(new.widgets, gone)
           now == [new EXCEPT !.widgets = list]
<1>1. \A k : PutsWidget(asked, id, k) => PutsWidget(more, id, k)
  BY AskedGrows
<1>2. now.widgets = list /\ IsWidgets(new.widgets)
  BY ScreenIsRecord
<1>3. new.widgets \in Seq(ToSet(new.widgets)) /\ IsUnique(new.widgets)
  BY <1>2, WidgetsHaveZ DEF IsAsked
<1>4. /\ list \in Seq(ToSet(new.widgets)) /\ IsUnique(list)
      /\ \A k : k \in Ids(list) <=> k \in Ids(new.widgets) /\ k \notin gone
      /\ \A k \in 1 .. Len(list) : \E i \in 1 .. Len(new.widgets) : list[k] = new.widgets[i]
  <2> DEFINE ids == Ids(new.widgets) \ gone
  <2>1. list = Only(new.widgets, ids)
    BY DEF Without
  <2> HIDE DEF list, ids
  <2>2. /\ list \in Seq(ToSet(new.widgets)) /\ IsUnique(list) /\ Ids(list) = Ids(new.widgets) \cap ids
        /\ \A k \in 1 .. Len(list) : \E i \in 1 .. Len(new.widgets) : list[k] = new.widgets[i]
    <3> DEFINE part == Only(new.widgets, ids)
    <3>1. /\ part \in Seq(ToSet(new.widgets)) /\ Ids(part) = Ids(new.widgets) \cap ids
          /\ \A k \in 1 .. Len(part) : \E i \in 1 .. Len(new.widgets) : part[k] = new.widgets[i]
          /\ IsUnique(new.widgets) => IsUnique(part)
      BY <1>3, OnlyKeeps
    <3> HIDE DEF part
    <3> QED
      BY <1>3, <2>1, <3>1, Zenon DEF part
  <2> QED
    BY <2>2 DEF ids
<1>5. ClassifyScreenChange(old, now) = "in_place"
  BY FrameIsKept DEF IsAsked
<1>6. \A k \in gone : Kids(new.widgets, k) \cap Ids(new.widgets) \subseteq gone
  BY <1>3, OwnedIsClosed
<1> HIDE DEF more, list, gone
<1>7. \A k \in Ids(list) : Find(list, k) = Find(new.widgets, k)
  BY <1>3, <1>4, StayingFinds
<1> HIDE DEF now
<1>8. ASSUME NEW k \in Ids(list)
      PROVE  PutsWidget(more, id, k) \/ (k \in Ids(old.widgets) /\ Find(old.widgets, k) = Find(list, k))
  BY <1>1, <1>4, <1>7 DEF IsAsked
<1>9. ASSUME NEW k \in Ids(old.widgets), NEW l \in Kids(old.widgets, k), l \in Ids(list)
      PROVE  k \in Ids(list) \/ PutsWidget(more, id, k) \/ PutsWidget(more, id, l)
  <2> SUFFICES ASSUME ~PutsWidget(more, id, k), ~PutsWidget(more, id, l) PROVE k \in Ids(list)
    OBVIOUS
  <2>1. l \in Ids(new.widgets) /\ l \notin gone
    BY <1>4, <1>9
  <2>2. k \in Ids(new.widgets)
    BY <1>1, <2>1 DEF IsAsked
  <2>3. Find(old.widgets, k) = Find(new.widgets, k)
    BY <1>1, <2>2 DEF IsAsked
  <2>4. Has(new.widgets, k)
    BY <1>3, <2>2, FindsRecord
  <2>5. l \in Kids(new.widgets, k)
    BY <2>3, <2>4, Zenon DEF Kids
  <2>6. k \notin gone
    BY <1>6, <2>1, <2>5
  <2> QED
    BY <1>4, <2>2, <2>6
<1>10. IsAsked(more, id, old, now)
  BY <1>2, <1>4, <1>5, <1>8, <1>9 DEF IsAsked
<1> QED
  BY <1>10 DEF more, now, list, gone

\* What an operation makes of a configuration is asked for, with it.
LEMMA OpIsAsked ==
    ASSUME NEW base, NEW conf, IsConfiguration(conf),
           NEW S, NEW asked \in Seq(S), AsksFor(asked, base, conf),
           NEW op, IsOp(op), FitsBase(conf, op)
    PROVE  AsksFor(Append(asked, op), base, ApplyPatchOp(conf, op))
<1> DEFINE here == OpScreen(op)
           more == Append(asked, op)
           now == ApplyPatchOp(conf, op)
           screen == Find(conf.screens, here)
           touched == op.kind \in {"put_widget", "remove_widget"}
           ItsWidgets(list) == IsWidgets(list) /\ now = WithScreen(conf, [screen EXCEPT !.widgets = list])
<1>1. IsUnique(conf.screens) /\ conf.screens \in Seq(ToSet(conf.screens))
  BY FindsScreen DEF AsksFor
<1>2. op.kind # "put_screen" => here = op.screen_id /\ here \in Ids(conf.screens)
  BY FindsScreen DEF FitsBase, OpScreen
<1>3. here \in Ids(conf.screens) => ScreenOf(conf, here) = screen /\ screen.id = here /\ IsScreen(screen)
  BY FindsScreen
<1>4. \A id : /\ PutsScreen(more, id) <=> PutsScreen(asked, id) \/ (~touched /\ here = id)
  BY AskedGrows DEF IsOp
<1>5. ASSUME touched
      PROVE  /\ here \in Ids(conf.screens)
             /\ \E list : /\ IsWidgets(list) /\ now = WithScreen(conf, [screen EXCEPT !.widgets = list])
                          /\ \A old : IsAsked(asked, here, old, screen)
                                => IsAsked(more, here, old, [screen EXCEPT !.widgets = list])
  <2>1. here = op.screen_id /\ here \in Ids(conf.screens) /\ ScreenOf(conf, here) = screen /\ IsScreen(screen)
    BY <1>2, <1>3, <1>5
  <2>2. IsWidgets(screen.widgets) /\ screen.widgets \in Seq(ToSet(screen.widgets))
    BY <2>1, ScreenIsRecord, WidgetsHaveZ
  <2>3. CASE op.kind = "put_widget"
    <3> DEFINE list == PutWidget(screen.widgets, op.widget)
    <3>1. now = WithScreen(conf, [screen EXCEPT !.widgets = list])
      BY <2>1, <2>3, Zenon DEF ApplyPatchOp
    <3>2. IsWidget(op.widget)
      BY <2>3 DEF IsOp
    <3>3. IsWidgets(list)
      BY <2>2, <3>2, PutIsWidgets
    <3>4. \A old : IsAsked(asked, here, old, screen) => IsAsked(more, here, old, [screen EXCEPT !.widgets = list])
      BY <2>1, <2>3, <3>2, PutIsAsked
    <3> HIDE DEF now, list, more, here, screen
    <3> QED
      BY <2>1, <3>1, <3>3, <3>4
  <2>4. CASE op.kind = "remove_widget"
    <3> DEFINE root == op.widget_id
               list == Without(screen.widgets, OwnedIds(screen.widgets, root))
    <3>1. now = WithScreen(conf, [screen EXCEPT !.widgets = list])
      BY <2>1, <2>4, Zenon DEF ApplyPatchOp
    <3>2. root \in Ids(screen.widgets)
      BY <2>1, <2>2, <2>4, FindsRecord DEF FitsBase
    <3>3. IsWidgets(list)
      BY <2>2, OnlyIsWidgets DEF Without
    <3>4. \A old : IsAsked(asked, here, old, screen) => IsAsked(more, here, old, [screen EXCEPT !.widgets = list])
      BY <2>1, <3>2, RemovalIsAsked
    <3> HIDE DEF now, list, more, here, screen
    <3> QED
      BY <2>1, <3>1, <3>3, <3>4
  <2> QED
    BY <1>5, <2>3, <2>4
<1>6. ASSUME touched
      PROVE  /\ IsUnique(now.screens) /\ Ids(now.screens) = Ids(conf.screens)
             /\ \A id \in Ids(conf.screens) : id # here => Find(now.screens, id) = Find(conf.screens, id)
             /\ \A old : IsAsked(asked, here, old, screen) => IsAsked(more, here, old, Find(now.screens, here))
  <2>1. PICK list : /\ IsWidgets(list) /\ now = WithScreen(conf, [screen EXCEPT !.widgets = list])
                    /\ \A old : IsAsked(asked, here, old, screen)
                          => IsAsked(more, here, old, [screen EXCEPT !.widgets = list])
    BY <1>5, <1>6
  <2> DEFINE s == [screen EXCEPT !.widgets = list]
  <2>2. here \in Ids(conf.screens) /\ screen.id = here /\ IsScreen(screen)
    BY <1>3, <1>5, <1>6
  <2>3. IsScreen(s)
    BY <2>1, <2>2, ScreenTakesWidgets
  <2>4. s.id = here
    BY <2>2
  <2>5. now = WithScreen(conf, s)
    BY <2>1
  <2>6. \A old : IsAsked(asked, here, old, screen) => IsAsked(more, here, old, s)
    BY <2>1
  <2> HIDE DEF s, now, more, here, screen
  <2>7. /\ IsUnique(now.screens) /\ Ids(now.screens) = Ids(conf.screens) \cup {s.id}
        /\ Find(now.screens, s.id) = s
        /\ \A id \in Ids(conf.screens) : id # s.id => Find(now.screens, id) = Find(conf.screens, id)
    <3>1. LET x == WithScreen(conf, s)
          IN  /\ IsUnique(x.screens) /\ Ids(x.screens) = Ids(conf.screens) \cup {s.id}
              /\ Find(x.screens, s.id) = s
              /\ \A id \in Ids(conf.screens) : id # s.id => Find(x.screens, id) = Find(conf.screens, id)
      BY <1>1, <2>3, ScreenIsPut, Zenon
    <3> QED
      BY <2>5, <3>1, Zenon
  <2> QED
    BY <2>2, <2>4, <2>6, <2>7
<1>7. ASSUME ~touched
      PROVE  /\ IsUnique(now.screens)
             /\ \A id : id # here => (id \in Ids(now.screens) <=> id \in Ids(conf.screens))
             /\ \A id \in Ids(conf.screens) : id # here => Find(now.screens, id) = Find(conf.screens, id)
  <2>1. CASE op.kind = "put_screen"
    <3>1. now = WithScreen(conf, op.screen) /\ here = op.screen.id /\ IsScreen(op.screen)
      BY <2>1, Zenon DEF ApplyPatchOp, OpScreen, IsOp
    <3> HIDE DEF now, here
    <3>2. /\ IsUnique(now.screens) /\ Ids(now.screens) = Ids(conf.screens) \cup {here}
          /\ \A id \in Ids(conf.screens) : id # here => Find(now.screens, id) = Find(conf.screens, id)
      <4> DEFINE s == op.screen
      <4>1. IsScreen(s) /\ now = WithScreen(conf, s) /\ here = s.id
        BY <3>1
      <4> HIDE DEF s
      <4>2. LET x == WithScreen(conf, s)
            IN  /\ IsUnique(x.screens) /\ Ids(x.screens) = Ids(conf.screens) \cup {s.id}
                /\ \A id \in Ids(conf.screens) : id # s.id => Find(x.screens, id) = Find(conf.screens, id)
        BY <1>1, <4>1, ScreenIsPut, Zenon
      <4> QED
        BY <4>1, <4>2, Zenon
    <3> QED
      BY <3>2
  <2>2. CASE op.kind = "remove_screen"
    <3> DEFINE list == Without(conf.screens, {here})
    <3>1. now = [conf EXCEPT !.screens = list]
      BY <1>2, <2>2, Zenon DEF ApplyPatchOp
    <3>2. list \in Seq(ToSet(conf.screens)) /\ IsTaken(list, conf.screens, here)
      BY <1>1, TakesRecord
    <3> HIDE DEF now, here, list
    <3>3. now.screens = list
      <4>1. conf = [active |-> conf.active, screens |-> conf.screens]
        BY DEF IsConfiguration
      <4>2. DOMAIN conf = {"active", "screens"}
        BY <4>1
      <4> QED
        BY <3>1, <4>2
    <3>4. \A id \in Ids(list) : Find(list, id) = Find(conf.screens, id)
      BY <1>1, <3>2, StayingFinds DEF IsTaken
    <3> QED
      BY <3>2, <3>3, <3>4 DEF IsTaken
  <2> QED
    BY <1>7, <2>1, <2>2 DEF IsOp
<1> HIDE DEF now, more, here, screen, touched
<1>8. IsUnique(now.screens)
  BY <1>6, <1>7
<1>9. ASSUME NEW id, ~PutsScreen(more, id)
      PROVE  /\ id \in Ids(base.screens) <=> id \in Ids(now.screens)
             /\ id \in Ids(base.screens) => IsAsked(more, id, Find(base.screens, id), Find(now.screens, id))
  <2>1. ~PutsScreen(asked, id) /\ (id = here => touched)
    BY <1>4, <1>9
  <2>2. /\ id \in Ids(base.screens) <=> id \in Ids(conf.screens)
        /\ id \in Ids(base.screens) => IsAsked(asked, id, Find(base.screens, id), Find(conf.screens, id))
    BY <2>1 DEF AsksFor
  <2>3. id \in Ids(now.screens) <=> id \in Ids(conf.screens)
    BY <1>6, <1>7, <2>1
  <2>4. CASE id = here
    BY <1>6, <2>1, <2>2, <2>3, <2>4 DEF screen
  <2>5. CASE id # here
    <3>1. id \in Ids(conf.screens) => Find(now.screens, id) = Find(conf.screens, id)
      BY <1>6, <1>7, <2>5
    <3> QED
      BY <2>2, <2>3, <3>1, StillAsked DEF more
  <2> QED
    BY <2>4, <2>5
<1>10. AsksFor(more, base, now)
  BY <1>8, <1>9 DEF AsksFor
<1> QED
  BY <1>10 DEF more, now

-----------------------------------------------------------------------------
(* Whatever is built again was asked for. *)

\* The root has a patch that builds it anew.
IsMade(plan, root) == \E j \in 1 .. Len(plan) : plan[j].id = root /\ plan[j].action \in {"add", "replace"}

\* The root is new, or it or something that it owns became another.
Differs(before, after, root) ==
    \/ root \notin RootIds(before)
    \/ IsSubtreeChanged(before, after, root)
    \/ Find(before, root) # Find(after, root)

\* A root is made where something of its subtree changed, unless it is but the look of its own record.
LEMMA MadeDiffers ==
    ASSUME NEW old, IsGoodScreen(old), NEW new, IsGoodScreen(new), NEW root
    PROVE  LET plan == PlanWidgets(old.widgets, new.widgets)
           IN  /\ IsMade(plan, root) => root \in RootIds(new.widgets) /\ Differs(old.widgets, new.widgets, root)
               /\ root \in RootIds(new.widgets)
                  /\ (root \in RootIds(old.widgets) /\ ~IsSubtreeChanged(old.widgets, new.widgets, root) =>
                        ClassifyWidgetChange(Find(old.widgets, root), Find(new.widgets, root)) # "in_place")
                  => IsMade(plan, root)
<1> DEFINE before == old.widgets
           after == new.widgets
           plan == PlanWidgets(before, after)
           w == Find(after, root)
<1>1. /\ \A k \in 1 .. Len(plan) : IsRootPatch(plan[k], before, after)
      /\ \A id \in RootIds(after) \ Ids(plan) : RootChange(before, after, Find(after, id)) = <<>>
      /\ \E S : plan \in Seq(S)
  BY WidgetsArePlanned
<1>2. root \in RootIds(after) => w.id = root
  <2>1. after \in Seq(ToSet(after)) /\ RootIds(after) \subseteq Ids(after)
    BY GoodWidgets, RootsAreThere
  <2> QED
    BY <2>1, FindsRecord
<1>3. \/ /\ RootChange(before, after, w) = <<>>
         /\ w.id \in RootIds(before) /\ ~IsSubtreeChanged(before, after, w.id) /\ Find(before, w.id) = w
      \/ \E x : /\ RootChange(before, after, w) = <<x>>
                /\ x.id = w.id /\ x.widget = w /\ x.action \in {"add", "replace", "update"}
                /\ x.action = "update" =>
                      /\ w.id \in RootIds(before) /\ ~IsSubtreeChanged(before, after, w.id)
                      /\ ClassifyWidgetChange(Find(before, w.id), w) = "in_place"
  BY RootIsPlanned
<1> HIDE DEF plan
<1>4. ASSUME IsMade(plan, root) PROVE root \in RootIds(after) /\ Differs(before, after, root)
  <2>1. PICK j \in 1 .. Len(plan) : plan[j].id = root /\ plan[j].action \in {"add", "replace"}
    BY <1>4 DEF IsMade
  <2>2. root \in RootIds(after) /\ RootChange(before, after, w) = <<plan[j]>>
    BY <1>1, <2>1 DEF IsRootPatch
  <2>3. ASSUME ~Differs(before, after, root) PROVE FALSE
    <3>1. /\ w.id = root /\ root \in RootIds(before) /\ ~IsSubtreeChanged(before, after, root)
          /\ Find(before, root) = w
      BY <1>2, <2>2, <2>3 DEF Differs
    <3>2. RootChange(before, after, w) = <<>>
      <4> HIDE DEF before, after, w
      <4> QED
        BY <3>1, Zenon DEF RootChange
    <3> QED
      BY <2>2, <3>2
  <2> QED
    BY <2>2, <2>3
<1>5. ASSUME root \in RootIds(after),
             root \in RootIds(before) /\ ~IsSubtreeChanged(before, after, root) =>
                ClassifyWidgetChange(Find(before, root), w) # "in_place"
      PROVE  IsMade(plan, root)
  <2>1. w.id = root
    BY <1>2, <1>5
  <2>2. ClassifyWidgetChange(w, w) = "in_place"
    BY DEF ClassifyWidgetChange
  <2>3. PICK x : RootChange(before, after, w) = <<x>> /\ x.id = root /\ x.action \in {"add", "replace"}
    <3> HIDE DEF before, after, w
    <3> QED
      BY <1>3, <1>5, <2>1, <2>2
  <2>4. root \in Ids(plan)
    <3>1. root \notin Ids(plan) => RootChange(before, after, w) = <<>>
      BY <1>1, <1>5, Zenon
    <3>2. <<x>> # <<>>
      OBVIOUS
    <3> QED
      BY <2>3, <3>1, <3>2, Zenon
  <2>5. PICK j \in 1 .. Len(plan) : plan[j].id = root
    BY <1>1, <2>4, IdsOfPlaces
  <2>6. <<plan[j]>> = <<x>>
    BY <1>1, <1>5, <2>3, <2>5 DEF IsRootPatch
  <2> QED
    BY <2>3, <2>5, <2>6 DEF IsMade
<1> QED
  BY <1>4, <1>5 DEF plan

\* Every root that is made has an operation on a widget of such a root, or on one that is gone again.
LEMMA MadeIsAsked ==
    ASSUME NEW old, IsGoodScreen(old), NEW new, IsGoodScreen(new),
           NEW asked, NEW screen, IsAsked(asked, screen, old, new),
           NEW root, IsMade(PlanWidgets(old.widgets, new.widgets), root)
    PROVE  \E id : /\ PutsWidget(asked, screen, id)
                   /\ \/ id \notin Ids(new.widgets)
                      \/ \E r \in RootOf(new.widgets, id) : IsMade(PlanWidgets(old.widgets, new.widgets), r)
<1> DEFINE before == old.widgets
           after == new.widgets
           plan == PlanWidgets(before, after)
<1>1. /\ before \in Seq(ToSet(before)) /\ after \in Seq(ToSet(after))
      /\ RootIds(before) \subseteq Ids(before) /\ RootIds(after) \subseteq Ids(after)
  BY GoodWidgets, RootsAreThere
<1>2. root \in RootIds(after) /\ Differs(before, after, root)
  BY MadeDiffers
<1>3. /\ root \in OwnedIds(after, root)
      /\ \A id \in OwnedIds(after, root) : root \in RootOf(after, id) /\ id \in Ids(after)
  BY <1>1, <1>2, OwnedIsClosed DEF RootOf, OwnedIds
<1>4. CASE \E id \in OwnedIds(after, root) : PutsWidget(asked, screen, id)
  <2> HIDE DEF before, after
  <2> QED
    BY <1>3, <1>4 DEF before, after
<1>5. CASE \A id \in OwnedIds(after, root) : ~PutsWidget(asked, screen, id)
  <2>1. \A id \in OwnedIds(after, root) : id \in Ids(before) /\ Find(before, id) = Find(after, id)
    BY <1>3, <1>5 DEF IsAsked
  <2>2. OwnedIds(before, root) = OwnedIds(after, root)
    BY <1>1, <1>2, <2>1, SameIsOwned
  <2>3. ~IsSubtreeChanged(before, after, root) /\ Find(before, root) = Find(after, root)
    BY <1>3, <2>1, <2>2 DEF IsSubtreeChanged
  <2>4. root \notin RootIds(before) /\ root \in Ids(before)
    BY <1>2, <1>3, <2>1, <2>3 DEF Differs
  <2>5. PICK q \in ToSet(before) : root \in ToSet(q.kids)
    BY <2>4 DEF RootIds, Owners
  <2>6. q.id \in Ids(before) /\ Find(before, q.id) = q /\ root \in Kids(before, q.id)
    <3>1. IsUnique(before) /\ IsList(before)
      BY GoodWidgets DEF IsList
    <3>2. PICK i \in 1 .. Len(before) : before[i] = q
      BY <3>1, ListIsThere
    <3>3. q.id \in Ids(before) /\ Find(before, q.id) = q /\ Has(before, q.id)
      BY <1>1, <3>1, <3>2, FindsItself
    <3> QED
      BY <2>5, <3>3 DEF Kids
  <2>7. q.id \in Ids(after) \/ PutsWidget(asked, screen, q.id)
    BY <1>2, <1>3, <1>5, <2>6 DEF IsAsked
  <2>8. ASSUME q.id \in Ids(after)
        PROVE  /\ PutsWidget(asked, screen, q.id)
               /\ \E r \in RootOf(after, q.id) : IsMade(plan, r)
    <3>1. /\ Find(after, q.id) \in ToSet(after) /\ Find(after, q.id).id = q.id
          /\ root \notin ToSet(Find(after, q.id).kids)
      <4>1. Find(after, q.id) \in ToSet(after) /\ Find(after, q.id).id = q.id
        BY <2>8, KidsAreThere
      <4> QED
        BY <1>2, <4>1 DEF RootIds, Owners
    <3>2. Find(before, q.id).kids # Find(after, q.id).kids
      BY <2>5, <2>6, <3>1
    <3>3. PutsWidget(asked, screen, q.id)
      BY <2>8, <3>2 DEF IsAsked
    <3>4. PICK r \in RootIds(after) : q.id \in OwnedIds(after, r)
      BY <2>8, RootIsAbove
    <3>5. ASSUME r \in RootIds(before), ~IsSubtreeChanged(before, after, r)
          PROVE  ClassifyWidgetChange(Find(before, r), Find(after, r)) # "in_place"
      <4>1. q.id = r
        BY <3>2, <3>4, <3>5 DEF IsSubtreeChanged
      <4> QED
        BY <3>2, <4>1 DEF ClassifyWidgetChange
    <3>6. IsMade(plan, r)
      BY <3>4, <3>5, MadeDiffers
    <3> QED
      BY <3>3, <3>4, <3>6 DEF RootOf
  <2> QED
    BY <2>7, <2>8
<1> QED
  BY <1>4, <1>5

\* A patch builds a root of its screen anew.
Makes(p, root) == p.action \in {"add", "rebuild"} \/ (p.action = "widgets" /\ IsMade(p.widgets, root))

\* The effect of an operation on a screen that is built anew, or of which such a root is.
LEMMA EffectOfMade ==
    ASSUME NEW S, NEW plan \in Seq(S), IsUnique(plan), NEW k \in 1 .. Len(plan),
           NEW op, IsOp(op), OpScreen(op) = plan[k].id
    PROVE  /\ plan[k].action # "widgets" => Effect(plan, op) = GroupRebuilt
           /\ op.kind = "remove_screen" => Effect(plan, op) = GroupRebuilt
           /\ \A T, root : plan[k].widgets \in Seq(T) /\ IsMade(plan[k].widgets, root) =>
                 /\ op.kind = "put_screen" => Effect(plan, op) \in {WidgetRebuilt, GroupRebuilt}
                 /\ op.kind = "put_widget" /\ root \in RootOf(plan[k].new.widgets, op.widget.id) =>
                       Effect(plan, op) \in {WidgetRebuilt, GroupRebuilt}
<1> DEFINE p == plan[k]
<1>1. Has(plan, OpScreen(op)) /\ Find(plan, OpScreen(op)) = p
  BY FindsItself
<1> HIDE DEF p
<1>2. p.action # "widgets" => Effect(plan, op) = GroupRebuilt
  BY <1>1, Zenon DEF Effect
<1>3. CASE p.action # "widgets"
  <2>1. plan[k].action # "widgets"
    BY <1>3 DEF p
  <2> QED
    BY <1>2, <2>1, <1>3
<1>4. CASE p.action = "widgets"
  <2>1. /\ op.kind = "put_widget" => Effect(plan, op) = EffectOnRoot(p, RootOf(p.new.widgets, op.widget.id))
        /\ op.kind = "put_screen" => Effect(plan, op) = WorstEffect(p.widgets)
        /\ op.kind = "remove_screen" => Effect(plan, op) = GroupRebuilt
    BY <1>1, <1>4, Zenon DEF Effect
  <2>2. ASSUME NEW T, NEW root, p.widgets \in Seq(T), IsMade(p.widgets, root)
        PROVE  /\ WorstEffect(p.widgets) = WidgetRebuilt
               /\ \A roots : root \in roots => EffectOnRoot(p, roots) = WidgetRebuilt
    <3>1. PICK j \in 1 .. Len(p.widgets) : p.widgets[j].id = root /\ p.widgets[j].action \in {"add", "replace"}
      BY <2>2 DEF IsMade
    <3>2. j \in DOMAIN p.widgets /\ EffectOf(p.widgets[j].action) = WidgetRebuilt
      BY <2>2, <3>1 DEF EffectOf
    <3>3. WorstEffect(p.widgets) = WidgetRebuilt
      BY <3>2, Zenon DEF WorstEffect
    <3>4. ASSUME NEW roots, root \in roots PROVE EffectOnRoot(p, roots) = WidgetRebuilt
      BY <3>1, <3>2, <3>4, Zenon DEF EffectOnRoot
    <3> QED
      BY <3>3, <3>4
  <2>3. p = plan[k]
    BY DEF p
  <2> QED
    BY <1>2, <2>1, <2>2, <2>3
<1> QED
  BY <1>3, <1>4

\* An operation is told to have built something anew, or the widget that it put is gone again.
Admits(plan, conf, op) ==
    \/ Effect(plan, op) \in {WidgetRebuilt, GroupRebuilt}
    \/ op.kind = "put_widget" /\ op.widget.id \notin WidgetIds(conf, op.screen_id)

\* A patch that builds a screen or a root anew has an operation on its screen that says so, or the request put a
\* widget there that is gone again.
LEMMA MakesIsAsked ==
    ASSUME NEW base, IsGoodConfiguration(base), NEW conf, IsGoodConfiguration(conf),
           NEW S, NEW asked \in Seq(S), \A i \in 1 .. Len(asked) : IsOp(asked[i]), AsksFor(asked, base, conf),
           NEW k \in 1 .. Len(PlanPatch(base, conf)), NEW root, Makes(PlanPatch(base, conf)[k], root)
    PROVE  \E i \in 1 .. Len(asked) :
              OpScreen(asked[i]) = PlanPatch(base, conf)[k].id /\ Admits(PlanPatch(base, conf), conf, asked[i])
<1> DEFINE plan == PlanPatch(base, conf)
           p == plan[k]
           new == Find(conf.screens, p.id)
           old == ScreenOf(base, p.id)
<1>1. IsUnique(plan) /\ (\E R : plan \in Seq(R)) /\ IsScreenPatch(p, base, conf)
  BY ScreensArePlanned
<1>2. /\ p.action \in {"add", "rebuild", "widgets"}
      /\ p.id \in Ids(conf.screens) /\ p.new = new /\ p.old = old
      /\ p.action = "widgets" => p.old # NoScreen /\ p.widgets = PlanWidgets(p.old.widgets, p.new.widgets)
  BY <1>1, PatchKinds DEF Makes
<1>3. IsGoodScreen(new) /\ new.id = p.id
  BY <1>2, FoundIsGood
<1>4. \A op : IsOp(op) /\ OpScreen(op) = p.id =>
         /\ p.action # "widgets" => Effect(plan, op) = GroupRebuilt
         /\ op.kind = "remove_screen" => Effect(plan, op) = GroupRebuilt
         /\ \A T, r : p.widgets \in Seq(T) /\ IsMade(p.widgets, r) =>
               /\ op.kind = "put_screen" => Effect(plan, op) \in {WidgetRebuilt, GroupRebuilt}
               /\ op.kind = "put_widget" /\ r \in RootOf(p.new.widgets, op.widget.id) =>
                     Effect(plan, op) \in {WidgetRebuilt, GroupRebuilt}
  BY <1>1, EffectOfMade
<1>5. CASE PutsScreen(asked, p.id)
  <2>1. PICK i \in 1 .. Len(asked) : asked[i].kind \in {"put_screen", "remove_screen"} /\ OpScreen(asked[i]) = p.id
    BY <1>5 DEF PutsScreen
  <2>2. p.action = "widgets" => IsMade(p.widgets, root) /\ \E T : p.widgets \in Seq(T)
    <3> SUFFICES ASSUME p.action = "widgets" PROVE IsMade(p.widgets, root) /\ \E T : p.widgets \in Seq(T)
      OBVIOUS
    <3>1. old # NoScreen
      BY <1>2
    <3>2. IsGoodScreen(old)
      BY <3>1, ScreensAreThere
    <3> QED
      BY <1>2, <1>3, <3>2, WidgetsArePlanned DEF Makes
  <2>3. Effect(plan, asked[i]) \in {WidgetRebuilt, GroupRebuilt}
    BY <1>4, <2>1, <2>2
  <2> QED
    BY <2>1, <2>3 DEF Admits
<1>6. CASE ~PutsScreen(asked, p.id)
  <2>1. p.id \in Ids(base.screens) /\ IsAsked(asked, p.id, Find(base.screens, p.id), new)
    BY <1>2, <1>6 DEF AsksFor
  <2>2. IsGoodScreen(old) /\ old # NoScreen /\ IsAsked(asked, p.id, old, new)
    BY <2>1, FoundIsGood, ScreensAreThere
  <2>3. ClassifyScreenChange(old, new) = "in_place"
    BY <2>2 DEF IsAsked
  <2>4. p.action = "widgets"
    <3>1. PICK s \in ToSet(conf.screens) : s.id = p.id /\ PlanScreen(ScreenOf(base, s.id), s) = <<p>>
      <4>1. \A s \in ToSet(base.screens) : s.id \notin Ids(conf.screens) => RemovalOf(s).id \notin Ids(conf.screens)
        BY DEF RemovalOf
      <4>2. PICK s \in ToSet(conf.screens) : PlanScreen(ScreenOf(base, s.id), s) = <<p>>
        BY <1>1, <1>2, <4>1 DEF IsScreenPatch
      <4>3. PICK x : PlanScreen(ScreenOf(base, s.id), s) = <<x>> /\ x.id = s.id
        <5> DEFINE plans == PlanScreen(ScreenOf(base, s.id), s)
        <5>1. plans = <<>> \/ \E x : plans = <<x>> /\ x.id = s.id
          BY ScreenHasOnePatch
        <5>2. plans # <<>>
          <6> HIDE DEF p
          <6>1. plans = <<p>>
            BY <4>2
          <6> QED
            BY <6>1
        <5> QED
          BY <5>1, <5>2
      <4>4. <<x>> = <<p>> => x = p
        OBVIOUS
      <4> QED
        BY <4>2, <4>3, <4>4
    <3>2. s = new
      BY <1>2, <3>1, ScreensAreThere
    <3>3. PlanScreen(old, new) = <<p>>
      BY <3>1, <3>2
    <3>4. PlanScreen(old, new) = <<>> \/ PlanScreen(old, new) = <<PatchOf(old, new, "widgets", PlanWidgets(old.widgets, new.widgets))>>
      BY <2>2, <2>3, ScreenIsPlanned
    <3>5. PatchOf(old, new, "widgets", PlanWidgets(old.widgets, new.widgets)).action = "widgets"
      BY DEF PatchOf
    <3> HIDE DEF p, old, new
    <3> QED
      BY <3>3, <3>4, <3>5
  <2>5. IsMade(PlanWidgets(old.widgets, new.widgets), root) /\ \E T : p.widgets \in Seq(T)
    BY <1>2, <1>3, <2>2, <2>4, WidgetsArePlanned DEF Makes
  <2>6. PICK id : /\ PutsWidget(asked, p.id, id)
                  /\ \/ id \notin Ids(new.widgets)
                     \/ \E r \in RootOf(new.widgets, id) : IsMade(PlanWidgets(old.widgets, new.widgets), r)
    BY <1>3, <2>2, <2>5, MadeIsAsked
  <2>7. PICK i \in 1 .. Len(asked) :
           asked[i].kind = "put_widget" /\ asked[i].screen_id = p.id /\ asked[i].widget.id = id
    BY <2>6 DEF PutsWidget
  <2>8. OpScreen(asked[i]) = p.id
    BY <2>7 DEF OpScreen
  <2>9. CASE id \notin Ids(new.widgets)
    <3>1. \A s \in ToSet(conf.screens) : s.id = p.id => s = new
      BY <1>2, ScreensAreThere
    <3>2. id \notin WidgetIds(conf, p.id)
      BY <2>9, <3>1 DEF WidgetIds
    <3> QED
      BY <2>7, <2>8, <3>2 DEF Admits
  <2>10. CASE \E r \in RootOf(new.widgets, id) : IsMade(PlanWidgets(old.widgets, new.widgets), r)
    <3>1. PICK r : r \in RootOf(p.new.widgets, id) /\ IsMade(p.widgets, r)
      BY <1>2, <2>4, <2>10
    <3>2. Effect(plan, asked[i]) \in {WidgetRebuilt, GroupRebuilt}
      BY <1>4, <2>5, <2>7, <2>8, <3>1
    <3> QED
      BY <2>8, <3>2 DEF Admits
  <2> QED
    BY <2>6, <2>9, <2>10
<1> QED
  BY <1>5, <1>6

-----------------------------------------------------------------------------
(* Nothing but what is made is built. *)

\* Some widget of the root was built by the last patch.
RootBuilt(root) == \E id \in DOMAIN root.tree : root.tree[id].built

\* The root is one that a patch of a screen in a group builds anew.
IsBuilt(plan, screen, root) ==
    \E k \in 1 .. Len(plan) : plan[k].id = screen /\ ~IsOnOverlay(plan[k]) /\ Makes(plan[k], root)

\* Of the roots of a screen only those were built that the plan makes.
RootsBuilt(roots, plan, screen) ==
    \A i \in 1 .. Len(roots) : RootBuilt(roots[i]) => IsBuilt(plan, screen, roots[i].id)

\* A root that takes a record is not built by that.
LEMMA UpdateBuilds ==
    ASSUME NEW root, NEW widgets, ShowsRoot(root, widgets), NEW w
    PROVE  Update(root, w).id = root.id /\ (RootBuilt(Update(root, w)) => RootBuilt(root))
<1> DEFINE tree == root.tree
           now == [tree EXCEPT ![w.id].rec = w]
<1>1. root = [id |-> root.id, tree |-> tree]
  BY DEF ShowsRoot
<1>2. tree = [k \in OwnedIds(widgets, root.id) |-> tree[k]]
  BY DEF ShowsRoot
<1>3. DOMAIN tree = OwnedIds(widgets, root.id)
  BY <1>2, Zenon
<1>4. \A k \in DOMAIN tree : DOMAIN tree[k] = {"rec", "kids", "told", "built"}
  BY <1>3 DEF ShowsRoot
<1> HIDE DEF tree
<1>5. Update(root, w) = [id |-> root.id, tree |-> now]
  <2>1. [root EXCEPT !.tree[w.id].rec = w] = [id |-> root.id, tree |-> now]
    BY <1>1, ChangesTree
  <2> QED
    BY <2>1, Zenon DEF Update
<1>6. DOMAIN now = DOMAIN tree
  OBVIOUS
<1>7. ASSUME NEW k \in DOMAIN tree PROVE now[k].built = tree[k].built
  <2>1. CASE k = w.id
    <3>1. now[k] = [tree[k] EXCEPT !.rec = w]
      BY <2>1
    <3>2. DOMAIN tree[k] = {"rec", "kids", "told", "built"}
      BY <1>4
    <3> HIDE DEF now
    <3> QED
      BY <3>1, <3>2
  <2>2. CASE k # w.id
    BY <2>2
  <2> QED
    BY <2>1, <2>2
<1> HIDE DEF now
<1>8. Update(root, w).tree = now /\ Update(root, w).id = root.id
  BY <1>5
<1> QED
  BY <1>6, <1>7, <1>8 DEF RootBuilt, tree

\* Roots of a list are built as they are there; a list that got one is built where that one may be.
LEMMA PartIsBuilt ==
    ASSUME NEW roots, NEW part, NEW plan, NEW screen, RootsBuilt(roots, plan, screen),
           \A k \in 1 .. Len(part) : \E i \in 1 .. Len(roots) : part[k] = roots[i]
    PROVE  RootsBuilt(part, plan, screen)
<1> SUFFICES ASSUME NEW k \in 1 .. Len(part), RootBuilt(part[k]) PROVE IsBuilt(plan, screen, part[k].id)
  BY DEF RootsBuilt
<1>1. PICK i \in 1 .. Len(roots) : part[k] = roots[i]
  OBVIOUS
<1> QED
  BY <1>1 DEF RootsBuilt

\* A root that is put keeps that so if it was to be made.
LEMMA PutIsBuilt ==
    ASSUME NEW roots, NEW longer, NEW plan, NEW screen, RootsBuilt(roots, plan, screen),
           NEW root, IsPut(longer, roots, root), RootBuilt(root) => IsBuilt(plan, screen, root.id)
    PROVE  RootsBuilt(longer, plan, screen)
<1> SUFFICES ASSUME NEW k \in 1 .. Len(longer), RootBuilt(longer[k]) PROVE IsBuilt(plan, screen, longer[k].id)
  BY DEF RootsBuilt
<1>1. CASE longer[k] = root
  BY <1>1
<1>2. CASE \E i \in 1 .. Len(roots) : longer[k] = roots[i]
  <2>1. PICK i \in 1 .. Len(roots) : longer[k] = roots[i]
    BY <1>2
  <2> QED
    BY <2>1 DEF RootsBuilt
<1> QED
  BY <1>1, <1>2 DEF IsPut

\* Each change of a root builds that root at most.
LEMMA RootPatchBuilds ==
    ASSUME NEW before, NEW after, NEW done, NEW roots, RootsAreAt(roots, before, after, done), NEW new,
           NEW plan, NEW screen, RootsBuilt(roots, plan, screen),
           NEW p, p.action \in {"remove", "update", "add", "replace"},
           p.action \in {"add", "replace"} => IsBuilt(plan, screen, p.id)
    PROVE  RootsBuilt(ApplyWidgetPatch(roots, new, p), plan, screen)
<1> DEFINE at == IndexOf(roots, p.id)
           successor == [id |-> p.id, tree |-> AssembleRoot(new, p.id)]
           reached == ApplyWidgetPatch(roots, new, p)
<1>1. reached =
         CASE p.action = "remove" -> Without(roots, {p.id})
           [] p.action = "update" /\ at = 0 -> roots
           [] p.action = "update" /\ at # 0 -> [roots EXCEPT ![at] = Update(@, p.widget)]
           [] p.action \in {"replace", "add"} /\ at = 0 -> Append(roots, successor)
           [] p.action \in {"replace", "add"} /\ at # 0 -> ReplaceAt(roots, at, successor)
  BY Zenon DEF ApplyWidgetPatch
<1>2. roots \in Seq(ToSet(roots)) /\ IsUnique(roots)
  BY DEF RootsAreAt, IsList
<1>3. (at # 0 <=> p.id \in Ids(roots))
      /\ (at # 0 => at \in 1 .. Len(roots) /\ roots[at].id = p.id)
  BY <1>2, FindsRecord DEF Has
<1> HIDE DEF reached, at
<1>4. CASE p.action = "remove"
  <2>1. reached = Without(roots, {p.id})
    BY <1>1, <1>4
  <2>2. IsTaken(Without(roots, {p.id}), roots, p.id)
    BY <1>2, TakesRecord
  <2>3. RootsBuilt(Without(roots, {p.id}), plan, screen)
    BY <2>2, PartIsBuilt DEF IsTaken
  <2> QED
    BY <2>1, <2>3 DEF reached
<1>5. CASE p.action = "update" /\ at = 0
  <2>1. reached = roots
    BY <1>1, <1>5
  <2> QED
    BY <2>1 DEF reached
<1>6. CASE p.action = "update" /\ at # 0
  <2> DEFINE root == Update(roots[at], p.widget)
             S == ToSet(roots) \cup {root}
  <2>1. at \in 1 .. Len(roots) /\ roots[at].id = p.id /\ p.id \in Ids(roots)
    BY <1>3, <1>6
  <2>2. root.id = p.id /\ (RootBuilt(root) => RootBuilt(roots[at]))
    <3>1. ShowsRoot(roots[at], IF roots[at].id \in done THEN after ELSE before)
      BY <2>1 DEF RootsAreAt
    <3> QED
      BY <2>1, <3>1, UpdateBuilds
  <2>3. reached = ReplaceAt(roots, at, root)
    <3>1. reached = [roots EXCEPT ![at] = Update(@, p.widget)]
      BY <1>1, <1>6
    <3> QED
      BY <3>1, Zenon DEF ReplaceAt
  <2> HIDE DEF root
  <2>4. roots \in Seq(S) /\ root \in S
    BY <1>2
  <2> HIDE DEF S
  <2>5. IsPut(reached, roots, root)
    BY <1>2, <2>1, <2>2, <2>3, <2>4, PutsInPlace DEF at
  <2>6. RootBuilt(root) => IsBuilt(plan, screen, root.id)
    BY <2>1, <2>2 DEF RootsBuilt
  <2> QED
    BY <2>5, <2>6, PutIsBuilt DEF reached
<1>7. CASE p.action \in {"replace", "add"}
  <2> DEFINE S == ToSet(roots) \cup {successor}
  <2>1. successor.id = p.id
    OBVIOUS
  <2> HIDE DEF successor
  <2>2. roots \in Seq(S) /\ successor \in S
    BY <1>2
  <2> HIDE DEF S
  <2>3. IsPut(reached, roots, successor)
    <3>1. CASE at = 0
      <4>1. reached = Append(roots, successor)
        BY <1>1, <1>7, <3>1
      <4> QED
        BY <1>2, <1>3, <2>1, <2>2, <3>1, <4>1, PutsLast
    <3>2. CASE at # 0
      <4>1. reached = ReplaceAt(roots, at, successor)
        BY <1>1, <1>7, <3>2
      <4> QED
        BY <1>2, <1>3, <2>1, <2>2, <3>2, <4>1, PutsInPlace DEF at
    <3> QED
      BY <3>1, <3>2
  <2>4. IsBuilt(plan, screen, successor.id)
    BY <1>7, <2>1
  <2> QED
    BY <2>3, <2>4, PutIsBuilt DEF reached
<1> QED
  BY <1>4, <1>5, <1>6, <1>7

\* The patches of a screen's roots build those that the plan says.
LEMMA RootsAreBuilt ==
    ASSUME NEW old, IsGoodScreen(old), NEW new, IsGoodScreen(new),
           NEW roots, RootsAreAt(roots, old.widgets, new.widgets, {}),
           NEW whole, NEW screen, RootsBuilt(roots, whole, screen),
           \A root : IsMade(PlanWidgets(old.widgets, new.widgets), root) => IsBuilt(whole, screen, root)
    PROVE  RootsBuilt(PatchRoots(roots, new, PlanWidgets(old.widgets, new.widgets)), whole, screen)
<1> DEFINE before == old.widgets
           after == new.widgets
           plan == PlanWidgets(before, after)
           n == Len(plan)
<1>1. /\ \E S : plan \in Seq(S)
      /\ IsUnique(plan) /\ \A k \in 1 .. n : IsRootPatch(plan[k], before, after)
  BY WidgetsArePlanned, Zenon
<1>0. \A root : IsMade(plan, root) => IsBuilt(whole, screen, root)
  OBVIOUS
<1> HIDE DEF plan
<1>2. PICK S : plan \in Seq(S)
  BY <1>1
<1>3. PICK steps : /\ steps[0] = roots
                   /\ \A i \in 1 .. n : steps[i] = ApplyWidgetPatch(steps[i - 1], new, plan[i])
                   /\ PatchRoots(roots, new, plan) = steps[n]
  BY <1>2, RootFoldsInTurn
<1>4. /\ DoneIds(plan, 0) = {} /\ DoneIds(plan, n) = Ids(plan)
      /\ \A k \in 1 .. n : /\ plan[k].id \notin DoneIds(plan, k - 1)
                           /\ DoneIds(plan, k) = DoneIds(plan, k - 1) \cup {plan[k].id}
  BY <1>1, <1>2, DoneInTurn
<1>5. n \in Nat
  BY <1>2
<1>55. \A k \in 1 .. n : plan[k].action \in {"add", "replace"} => IsBuilt(whole, screen, plan[k].id)
  BY <1>0 DEF IsMade
<1>56. \A k \in 1 .. n : plan[k].action \in {"remove", "update", "add", "replace"}
  <2> SUFFICES ASSUME NEW k \in 1 .. n PROVE plan[k].action \in {"remove", "update", "add", "replace"}
    OBVIOUS
  <2> DEFINE p == plan[k]
             w == Find(after, p.id)
  <2>1. p.action = "remove" \/ RootChange(before, after, w) = <<p>>
    BY <1>1 DEF IsRootPatch
  <2>2. RootChange(before, after, w) = <<>>
        \/ \E x : RootChange(before, after, w) = <<x>> /\ x.action \in {"add", "replace", "update"}
    BY RootIsPlanned
  <2> HIDE DEF p, w
  <2>3. p.action \in {"remove", "update", "add", "replace"}
    BY <2>1, <2>2
  <2> QED
    BY <2>3 DEF p
<1> HIDE DEF n
<1> DEFINE Good(m) == /\ RootsAreAt(steps[m], before, after, DoneIds(plan, m))
                      /\ RootsBuilt(steps[m], whole, screen)
           T == {m \in Nat : m <= n => Good(m)}
<1> HIDE DEF Good
<1>6. 0 \in T
  BY <1>3, <1>4 DEF Good
<1>7. ASSUME NEW m \in T PROVE m + 1 \in T
  <2> SUFFICES ASSUME m + 1 <= n PROVE Good(m + 1)
    OBVIOUS
  <2>1. m \in Nat /\ m + 1 \in 1 .. n /\ m <= n /\ (m + 1) - 1 = m
    BY <1>5
  <2>2. RootsAreAt(steps[m], before, after, DoneIds(plan, m)) /\ RootsBuilt(steps[m], whole, screen)
    BY <2>1 DEF Good
  <2> DEFINE p == plan[m + 1]
             done == DoneIds(plan, m)
  <2>3. /\ steps[m + 1] = ApplyWidgetPatch(steps[m], new, p)
        /\ IsRootPatch(p, before, after) /\ p.id \notin done /\ DoneIds(plan, m + 1) = done \cup {p.id}
        /\ p.action \in {"remove", "update", "add", "replace"}
        /\ p.action \in {"add", "replace"} => IsBuilt(whole, screen, p.id)
    BY <1>1, <1>3, <1>4, <1>55, <1>56, <2>1 DEF n
  <2> HIDE DEF p, done
  <2>4. RootsAreAt(ApplyWidgetPatch(steps[m], new, p), before, after, done \cup {p.id})
    BY <2>2, <2>3, RootIsPatched DEF done
  <2>5. RootsBuilt(ApplyWidgetPatch(steps[m], new, p), whole, screen)
    BY <2>2, <2>3, RootPatchBuilds
  <2> QED
    BY <2>3, <2>4, <2>5 DEF Good
<1> HIDE DEF T
<1>8. T = Nat
  BY <1>6, <1>7, AllNumbers DEF T
<1>9. Good(n)
  BY <1>5, <1>8 DEF T
<1> QED
  BY <1>3, <1>9 DEF Good, plan

\* What is put in the order of another list was in the list.
LEMMA OrderedFrom ==
    ASSUME NEW S, NEW list \in Seq(S), NEW R, NEW listed \in Seq(R)
    PROVE  \A i \in 1 .. Len(InOrderOf(list, listed)) : \E k \in 1 .. Len(list) : InOrderOf(list, listed)[i] = list[k]
<1> DEFINE stay == Only(listed, Ids(list))
           first == [i \in DOMAIN stay |-> Find(list, stay[i].id)]
           rest == Without(list, Ids(listed))
           n == Len(stay)
<1>1. InOrderOf(list, listed) = first \o rest
  BY Zenon DEF InOrderOf
<1>2. stay \in Seq(R) /\ Ids(stay) = Ids(listed) \cap Ids(list)
  BY OnlyKeeps
<1>3. rest \in Seq(S) /\ \A k \in 1 .. Len(rest) : \E i \in 1 .. Len(list) : rest[k] = list[i]
  <2> DEFINE ids == Ids(list) \ Ids(listed)
             part == Only(list, ids)
  <2> HIDE DEF ids
  <2>1. part \in Seq(S) /\ \A k \in 1 .. Len(part) : \E i \in 1 .. Len(list) : part[k] = list[i]
    BY OnlyKeeps
  <2>2. rest = part
    BY DEF Without, ids
  <2> HIDE DEF rest, part
  <2> QED
    BY <2>1, <2>2
<1> HIDE DEF stay, rest
<1>4. n \in Nat /\ DOMAIN stay = 1 .. n
  BY <1>2
<1> HIDE DEF n
<1>5. ASSUME NEW i \in 1 .. n PROVE first[i] \in S /\ \E k \in 1 .. Len(list) : first[i] = list[k]
  <2>1. stay[i].id \in Ids(list)
    BY <1>2, <1>4, IdsOfPlaces DEF n
  <2>2. /\ IndexOf(list, stay[i].id) \in 1 .. Len(list)
        /\ Find(list, stay[i].id) = list[IndexOf(list, stay[i].id)] /\ Find(list, stay[i].id) \in S
    BY <2>1, FindsRecord
  <2>3. first[i] = Find(list, stay[i].id)
    BY <1>4
  <2> HIDE DEF first
  <2> QED
    BY <2>2, <2>3
<1>6. first = [i \in 1 .. n |-> first[i]]
  BY <1>4
<1> HIDE DEF first
<1>7. first \in Seq(S) /\ Len(first) = n
  <2>1. \A i \in 1 .. n : first[i] \in S
    BY <1>5
  <2>2. n \in Nat
    BY <1>4
  <2> QED
    BY <1>6, <2>1, <2>2
<1>8. /\ Len(first \o rest) = n + Len(rest) /\ Len(rest) \in Nat
      /\ \A k \in 1 .. n : (first \o rest)[k] = first[k]
      /\ \A k \in 1 .. Len(rest) : (first \o rest)[n + k] = rest[k]
  <2>1. /\ first \o rest \in Seq(S) /\ Len(first \o rest) = Len(first) + Len(rest)
        /\ Len(first) \in Nat /\ Len(rest) \in Nat
        /\ \A k \in 1 .. Len(first) : (first \o rest)[k] = first[k]
        /\ \A k \in 1 .. Len(rest) : (first \o rest)[Len(first) + k] = rest[k]
    <3>1. first \in Seq(S) /\ rest \in Seq(S)
      BY <1>3, <1>7
    <3> QED
      BY <3>1, ListsJoin
  <2> HIDE DEF n
  <2> QED
    BY <1>7, <2>1, Zenon
<1>9. ASSUME NEW i \in 1 .. Len(first \o rest) PROVE \E k \in 1 .. Len(list) : (first \o rest)[i] = list[k]
  <2>1. CASE i \in 1 .. n
    BY <1>5, <1>8, <2>1
  <2>2. CASE i \notin 1 .. n
    <3>1. i - n \in 1 .. Len(rest) /\ i = n + (i - n)
      BY <1>4, <1>8, <2>2
    <3>2. (first \o rest)[i] = rest[i - n]
      BY <1>8, <3>1
    <3> QED
      BY <1>3, <3>1, <3>2
  <2> QED
    BY <2>1, <2>2
<1> QED
  BY <1>1, <1>9

\* The same of a screen, of the screens of a group, and of all groups.
ScreenBuilt(s, plan) == RootsBuilt(s.roots, plan, s.id)

GroupBuilt(screens, plan) == \A i \in 1 .. Len(screens) : ScreenBuilt(screens[i], plan)

GroupsBuilt(views, plan) == \A g \in DOMAIN views : GroupBuilt(views[g], plan)

\* A screen whose widgets are patched is built where the plan says.
LEMMA WidgetsAreBuilt ==
    ASSUME NEW old, IsGoodScreen(old), NEW new, IsGoodScreen(new), ClassifyScreenChange(old, new) # "rebuild",
           NEW patch, patch.new = new, patch.widgets = PlanWidgets(old.widgets, new.widgets),
           NEW s, ShowsScreen(s, old), NEW plan, ScreenBuilt(s, plan),
           \A root : IsMade(patch.widgets, root) => IsBuilt(plan, old.id, root)
    PROVE  ScreenBuilt(ApplyWidgetPatches(s, patch), plan)
<1> DEFINE reached == PatchRoots(s.roots, new, PlanWidgets(old.widgets, new.widgets))
           listed == InZOrder(Roots(new.widgets))
           ordered == ApplyRootOrder(reached, new)
           now == ApplyWidgetPatches(s, patch)
<1>1. s = [id |-> old.id, z |-> old.z, roots |-> s.roots]
  BY Zenon DEF ShowsScreen
<1>2. s.id = old.id
  BY <1>1
<1>3. RootsAreAt(s.roots, old.widgets, new.widgets, {})
  BY RootsBefore
<1>4. RootsBuilt(reached, plan, old.id)
  BY <1>2, <1>3, RootsAreBuilt DEF ScreenBuilt
<1>5. IsList(reached)
  BY <1>3, RootsArePatched DEF RootsAreAt
<1>6. ordered = InOrderOf(reached, listed)
  BY Zenon DEF ApplyRootOrder, InOrderOf
<1>7. listed \in Seq(ToSet(new.widgets))
  <2>1. Roots(new.widgets) \in Seq(ToSet(new.widgets)) /\ \A w \in ToSet(new.widgets) : w.z \in Int
    BY GoodWidgets, RootsAreThere
  <2> QED
    BY <2>1, OrderedHas
<1>8. now = [s EXCEPT !.roots = ordered]
  BY Zenon DEF ApplyWidgetPatches
<1> HIDE DEF reached, listed, ordered, now
<1>9. \A i \in 1 .. Len(ordered) : \E k \in 1 .. Len(reached) : ordered[i] = reached[k]
  <2>1. reached \in Seq(ToSet(reached))
    BY <1>5 DEF IsList
  <2> QED
    BY <1>6, <1>7, <2>1, OrderedFrom
<1>10. RootsBuilt(ordered, plan, old.id)
  BY <1>4, <1>9, PartIsBuilt
<1>11. now.id = old.id /\ now.roots = ordered
  BY <1>1, <1>8
<1>12. ScreenBuilt(now, plan)
  BY <1>10, <1>11 DEF ScreenBuilt
<1> QED
  BY <1>12 DEF now

\* The same holds of a part of a group, of one that got a screen, and of groups one of which changed.
LEMMA GroupPartBuilt ==
    ASSUME NEW plan, NEW screens, GroupBuilt(screens, plan),
           NEW part, \A k \in 1 .. Len(part) : \E i \in 1 .. Len(screens) : part[k] = screens[i]
    PROVE  GroupBuilt(part, plan)
<1> SUFFICES ASSUME NEW k \in 1 .. Len(part) PROVE ScreenBuilt(part[k], plan)
  BY DEF GroupBuilt
<1>1. PICK i \in 1 .. Len(screens) : part[k] = screens[i]
  OBVIOUS
<1> QED
  BY <1>1 DEF GroupBuilt

LEMMA GroupPutBuilt ==
    ASSUME NEW plan, NEW screens, GroupBuilt(screens, plan),
           NEW s, ScreenBuilt(s, plan), NEW longer, IsPut(longer, screens, s)
    PROVE  GroupBuilt(longer, plan)
<1> SUFFICES ASSUME NEW k \in 1 .. Len(longer) PROVE ScreenBuilt(longer[k], plan)
  BY DEF GroupBuilt
<1>1. CASE longer[k] = s
  BY <1>1
<1>2. CASE \E i \in 1 .. Len(screens) : longer[k] = screens[i]
  <2>1. PICK i \in 1 .. Len(screens) : longer[k] = screens[i]
    BY <1>2
  <2> QED
    BY <2>1 DEF GroupBuilt
<1> QED
  BY <1>1, <1>2 DEF IsPut

LEMMA GroupsOneBuilt ==
    ASSUME NEW plan, NEW views, GroupsBuilt(views, plan),
           NEW group, NEW screens, GroupBuilt(screens, plan)
    PROVE  GroupsBuilt([views EXCEPT ![group] = screens], plan)
<1> DEFINE now == [views EXCEPT ![group] = screens]
<1>1. \A g \in DOMAIN now : g \in DOMAIN views /\ (now[g] = screens \/ now[g] = views[g])
  OBVIOUS
<1> HIDE DEF now
<1>2. ASSUME NEW g \in DOMAIN now PROVE GroupBuilt(now[g], plan)
  <2>1. GroupBuilt(views[g], plan)
    BY <1>1 DEF GroupsBuilt
  <2>2. CASE now[g] = screens
    BY <2>2
  <2>3. CASE now[g] = views[g]
    BY <2>1, <2>3
  <2> QED
    BY <1>1, <2>2, <2>3
<1>3. GroupsBuilt(now, plan)
  BY <1>2 DEF GroupsBuilt
<1> QED
  BY <1>3 DEF now

\* A screen whose widgets are patched is in one group, and the others stay as they were.
LEMMA WidgetsBuildThere ==
    ASSUME NEW base, IsGoodConfiguration(base), NEW conf, IsGoodConfiguration(conf),
           NEW done, NEW views, GroupsAreAt(views, base, conf, done),
           NEW p, p.id \notin done, p.id \in Ids(conf.screens),
           p.new = Find(conf.screens, p.id), p.old = ScreenOf(base, p.id),
           p.old # NoScreen, ClassifyScreenChange(p.old, p.new) # "rebuild",
           p.widgets = PlanWidgets(p.old.widgets, p.new.widgets),
           NEW now \in PatchWidgets(views, p),
           NEW plan, GroupsBuilt(views, plan), \A root : IsMade(p.widgets, root) => IsBuilt(plan, p.id, root)
    PROVE  GroupsBuilt(now, plan)
<1> DEFINE id == p.id
           old == p.old
           new == p.new
<1>1. /\ DOMAIN views = GroupIds(base)
      /\ \A g \in GroupIds(base) : GroupIsAt(views[g], g, base, conf, done)
      /\ \A g \in GroupIds(base) : views[g] \in Seq(ToSet(views[g])) /\ IsUnique(views[g])
      /\ \A g \in GroupIds(base) : id \in Ids(views[g]) <=> id \in IdsOn(base, g)
      /\ \A g \in GroupIds(base) : HoldsScreen(views, g, id) <=> id \in IdsOn(base, g)
  BY NotDoneIsBase, Zenon
<1>2. PICK group \in DOMAIN views :
         /\ HoldsScreen(views, group, id)
         /\ now = [views EXCEPT ![group] =
                      ReplaceAt(@, IndexOf(@, id), ApplyWidgetPatches(Find(@, id), p))]
  BY Zenon DEF PatchWidgets
<1> DEFINE screens == views[group]
           was == Find(screens, id)
           s == ApplyWidgetPatches(was, p)
           longer == ReplaceAt(screens, IndexOf(screens, id), s)
<1>3. group \in GroupIds(base) /\ id \in IdsOn(base, group) /\ id \in Ids(screens) /\ GroupIsAt(screens, group, base, conf, done)
  BY <1>1, <1>2
<1>4. id \in Ids(base.screens) /\ old = Find(base.screens, id)
  <2>1. id \in Ids(base.screens)
    BY <1>3, IdsOfGroup
  <2> QED
    BY <2>1, ScreensAreThere
<1>5. IsGoodScreen(old) /\ IsGoodScreen(new) /\ new.id = id /\ old.id = id
  BY <1>4, FoundIsGood
<1>6. screens \in Seq(ToSet(screens)) /\ IsUnique(screens) /\ GroupBuilt(screens, plan)
  BY <1>1, <1>2, <1>3 DEF GroupsBuilt
<1>7. PICK k \in 1 .. Len(screens) : was = screens[k] /\ screens[k].id = id
  BY <1>3, <1>6, FindsRecord
<1>8. ShowsScreen(was, old)
  <2>1. ShowsScreen(screens[k], Find((IF screens[k].id \in done THEN conf ELSE base).screens, screens[k].id))
    BY <1>3, <1>7 DEF GroupIsAt
  <2>2. ShowsScreen(screens[k], Find(base.screens, id))
    BY <1>7, <2>1
  <2> QED
    BY <1>4, <1>7, <2>2
<1>9. ScreenBuilt(was, plan)
  BY <1>6, <1>7 DEF GroupBuilt
<1>10. ShowsScreen(s, new)
  BY <1>5, <1>8, WidgetsPatched
<1> HIDE DEF was
<1>11. ScreenBuilt(s, plan)
  BY <1>5, <1>8, <1>9, WidgetsAreBuilt
<1> HIDE DEF s
<1>12. s.id = id
  <2>1. s = [id |-> new.id, z |-> new.z, roots |-> s.roots]
    BY <1>10, Zenon DEF ShowsScreen
  <2>2. s.id = new.id
    BY <2>1
  <2> QED
    BY <1>5, <2>2
<1> HIDE DEF screens
<1> DEFINE S == ToSet(screens) \cup {s}
<1>13. screens \in Seq(S) /\ s \in S
  BY <1>6
<1> HIDE DEF S
<1>14. IsPut(longer, screens, s)
  BY <1>3, <1>6, <1>12, <1>13, PutsInPlace
<1> HIDE DEF longer
<1>15. GroupBuilt(longer, plan)
  BY <1>6, <1>11, <1>14, GroupPutBuilt
<1>16. now = [views EXCEPT ![group] = longer]
  BY <1>2, Zenon DEF longer, s, was, screens
<1> QED
  BY <1>15, <1>16, GroupsOneBuilt

\* A screen that is put is built as a whole.
LEMMA PutBuildsThere ==
    ASSUME NEW base, IsGoodConfiguration(base), NEW conf, IsGoodConfiguration(conf),
           NEW done, NEW views, GroupsAreAt(views, base, conf, done),
           NEW p, p.id \notin done, p.id \in Ids(conf.screens), p.new = Find(conf.screens, p.id),
           NEW now \in PutScreen(views, p),
           NEW plan, GroupsBuilt(views, plan), \A root : IsBuilt(plan, p.id, root)
    PROVE  GroupsBuilt(now, plan)
<1> DEFINE id == p.id
           new == p.new
           group == new.group
           s == Assemble(new)
           screens == views[group]
           longer == AddByZ(Without(screens, {s.id}), s)
<1>1. /\ DOMAIN views = GroupIds(base)
      /\ \A g \in GroupIds(base) : GroupIsAt(views[g], g, base, conf, done)
      /\ \A g \in GroupIds(base) : views[g] \in Seq(ToSet(views[g])) /\ IsUnique(views[g])
  BY NotDoneIsBase, Zenon
<1>2. group \in DOMAIN views /\ now = [views EXCEPT ![group] = GroupPutScreen(@, s)]
  BY Zenon DEF PutScreen
<1>3. IsGoodScreen(new) /\ new.id = id
  BY FoundIsGood
<1>4. /\ GroupIsAt(screens, group, base, conf, done)
      /\ screens \in Seq(ToSet(screens)) /\ IsUnique(screens) /\ GroupBuilt(screens, plan)
  BY <1>1, <1>2 DEF GroupsBuilt
<1>5. now = [views EXCEPT ![group] = longer]
  BY <1>2, Zenon DEF GroupPutScreen
<1>6. ShowsScreen(s, new)
  BY <1>3, AssembledShows
<1> HIDE DEF s, screens
<1>7. s.id = id /\ s.z \in Int
  <2>1. s = [id |-> new.id, z |-> new.z, roots |-> s.roots]
    BY <1>6, Zenon DEF ShowsScreen
  <2>2. s.id = new.id /\ s.z = new.z
    BY <2>1
  <2>3. new.z \in Int
    BY <1>3, ScreenIsRecord DEF IsGoodScreen
  <2> QED
    BY <1>3, <2>2, <2>3
<1>8. ScreenBuilt(s, plan)
  BY <1>7 DEF ScreenBuilt, RootsBuilt
<1> DEFINE S == ToSet(screens) \cup {s}
<1>9. screens \in Seq(S) /\ s \in S /\ \A r \in S : r.z \in Int
  <2>1. \A r \in ToSet(screens) : r.z \in Int
    BY <1>4, GroupHasZ
  <2> QED
    BY <1>4, <1>7, <2>1
<1> HIDE DEF S
<1>10. IsPut(longer, screens, s)
  BY <1>4, <1>9, PutsByZ
<1> HIDE DEF longer
<1>11. GroupBuilt(longer, plan)
  BY <1>4, <1>8, <1>10, GroupPutBuilt
<1> QED
  BY <1>5, <1>11, GroupsOneBuilt

\* Whatever a patch of a screen does, it builds nothing besides what it makes.
LEMMA ScreenPatchBuilds ==
    ASSUME NEW base, IsGoodConfiguration(base), NEW conf, IsGoodConfiguration(conf),
           NEW done, NEW views, GroupsAreAt(views, base, conf, done),
           NEW p, IsScreenPatch(p, base, conf), p.id \notin done,
           NEW now \in PatchScreen(views, p),
           NEW plan, GroupsBuilt(views, plan),
           \A root : ~IsOnOverlay(p) /\ Makes(p, root) => IsBuilt(plan, p.id, root)
    PROVE  GroupsBuilt(now, plan)
<1>1. \/ /\ p.action = "remove" /\ p.new = NoScreen /\ p.id \notin Ids(conf.screens)
         /\ p.id \in Ids(base.screens) /\ p.old = Find(base.screens, p.id)
      \/ /\ p.action \in {"add", "rebuild", "widgets"}
         /\ p.id \in Ids(conf.screens) /\ p.new = Find(conf.screens, p.id) /\ p.old = ScreenOf(base, p.id)
         /\ p.action = "widgets" =>
               /\ p.old # NoScreen /\ ClassifyScreenChange(p.old, p.new) # "rebuild"
               /\ p.widgets = PlanWidgets(p.old.widgets, p.new.widgets)
  BY PatchKinds
<1>2. PatchScreen(views, p) =
        CASE IsOnOverlay(p) -> IF StaysOverlay(p) THEN {views} ELSE {}
          [] ~IsOnOverlay(p) /\ p.action = "widgets" -> PatchWidgets(views, p)
          [] ~IsOnOverlay(p) /\ p.action = "remove" -> RemoveScreen(views, p.id)
          [] ~IsOnOverlay(p) /\ p.action \in {"add", "rebuild"} -> PutScreen(views, p)
  BY Zenon DEF PatchScreen
<1>3. CASE IsOnOverlay(p)
  <2>1. now = views
    BY <1>2, <1>3, Zenon
  <2> QED
    BY <2>1
<1>4. CASE ~IsOnOverlay(p) /\ p.action = "widgets"
  <2>1. now \in PatchWidgets(views, p)
    BY <1>2, <1>4, Zenon
  <2>2. p.action # "remove"
    BY <1>4
  <2>3. \A root : IsMade(p.widgets, root) => IsBuilt(plan, p.id, root)
    BY <1>4 DEF Makes
  <2> QED
    BY <1>1, <1>4, <2>1, <2>2, <2>3, WidgetsBuildThere
<1>5. CASE ~IsOnOverlay(p) /\ p.action = "remove"
  <2>1. p.action # "widgets"
    BY <1>5
  <2>2. now \in RemoveScreen(views, p.id)
    BY <1>2, <1>5, <2>1, Zenon
  <2>3. PICK group \in DOMAIN views :
           /\ HoldsScreen(views, group, p.id)
           /\ now = [views EXCEPT ![group] = GroupRemoveScreen(@, p.id)]
    BY <2>2, Zenon DEF RemoveScreen
  <2> DEFINE screens == views[group]
             less == Without(screens, {p.id})
  <2>4. now = [views EXCEPT ![group] = less]
    BY <2>3, Zenon DEF GroupRemoveScreen
  <2>5. screens \in Seq(ToSet(screens)) /\ IsUnique(screens) /\ GroupBuilt(screens, plan)
    BY NotDoneIsBase DEF GroupsBuilt
  <2> HIDE DEF screens
  <2>6. IsTaken(less, screens, p.id)
    BY <2>5, TakesRecord
  <2> HIDE DEF less
  <2>7. GroupBuilt(less, plan)
    BY <2>5, <2>6, GroupPartBuilt DEF IsTaken
  <2> QED
    BY <2>4, <2>7, GroupsOneBuilt
<1>6. CASE ~IsOnOverlay(p) /\ p.action \in {"add", "rebuild"}
  <2>1. p.action # "widgets" /\ p.action # "remove"
    BY <1>6
  <2>2. now \in PutScreen(views, p)
    BY <1>2, <1>6, <2>1, Zenon
  <2>3. p.id \in Ids(conf.screens) /\ p.new = Find(conf.screens, p.id)
    BY <1>1, <2>1, Zenon
  <2>4. \A root : IsBuilt(plan, p.id, root)
    BY <1>6 DEF Makes
  <2> QED
    BY <2>2, <2>3, <2>4, PutBuildsThere
<1> QED
  <2>1. p.action \in {"remove", "add", "rebuild", "widgets"}
    BY <1>1
  <2> QED
    BY <1>3, <1>4, <1>5, <1>6, <2>1

\* The patches of a plan build what the plan says.
LEMMA ScreensAreBuilt ==
    ASSUME NEW base, IsGoodConfiguration(base), NEW conf, IsGoodConfiguration(conf),
           NEW views, GroupsAreAt(views, base, conf, {}), GroupsBuilt(views, PlanPatch(base, conf)),
           NEW now \in PatchScreens(views, PlanPatch(base, conf))
    PROVE  GroupsBuilt(now, PlanPatch(base, conf))
<1> DEFINE plan == PlanPatch(base, conf)
           n == Len(plan)
<1>1. /\ \E S : plan \in Seq(S)
      /\ IsUnique(plan) /\ \A k \in 1 .. n : IsScreenPatch(plan[k], base, conf)
  BY ScreensArePlanned, Zenon
<1>0. GroupsBuilt(views, plan)
  OBVIOUS
<1> HIDE DEF plan
<1>2. PICK S : plan \in Seq(S)
  BY <1>1
<1>3. PICK steps : /\ steps[0] = {views}
                   /\ \A i \in 1 .. n : steps[i] = PatchEach(steps[i - 1], plan[i])
                   /\ PatchScreens(views, plan) = steps[n]
  BY <1>2, ScreenFoldsInTurn
<1>4. /\ DoneIds(plan, 0) = {} /\ DoneIds(plan, n) = Ids(plan)
      /\ \A k \in 1 .. n : /\ plan[k].id \notin DoneIds(plan, k - 1)
                           /\ DoneIds(plan, k) = DoneIds(plan, k - 1) \cup {plan[k].id}
  BY <1>1, <1>2, DoneInTurn
<1>5. n \in Nat
  BY <1>2
<1>55. \A k \in 1 .. n : \A root : ~IsOnOverlay(plan[k]) /\ Makes(plan[k], root) => IsBuilt(plan, plan[k].id, root)
  BY DEF IsBuilt
<1> HIDE DEF n
<1> DEFINE Good(m) == \A v \in steps[m] : GroupsAreAt(v, base, conf, DoneIds(plan, m)) /\ GroupsBuilt(v, plan)
           T == {m \in Nat : m <= n => Good(m)}
<1> HIDE DEF Good
<1>6. 0 \in T
  BY <1>0, <1>3, <1>4 DEF Good
<1>7. ASSUME NEW m \in T PROVE m + 1 \in T
  <2> SUFFICES ASSUME m + 1 <= n PROVE Good(m + 1)
    OBVIOUS
  <2>1. m \in Nat /\ m + 1 \in 1 .. n /\ m <= n /\ (m + 1) - 1 = m
    BY <1>5
  <2>2. \A v \in steps[m] : GroupsAreAt(v, base, conf, DoneIds(plan, m)) /\ GroupsBuilt(v, plan)
    BY <2>1 DEF Good
  <2> DEFINE p == plan[m + 1]
             done == DoneIds(plan, m)
  <2>3. /\ steps[m + 1] = PatchEach(steps[m], p)
        /\ IsScreenPatch(p, base, conf) /\ p.id \notin done /\ DoneIds(plan, m + 1) = done \cup {p.id}
        /\ \A root : ~IsOnOverlay(p) /\ Makes(p, root) => IsBuilt(plan, p.id, root)
    BY <1>1, <1>3, <1>4, <1>55, <2>1 DEF n
  <2> HIDE DEF p
  <2>4. ASSUME NEW v \in steps[m + 1] PROVE GroupsAreAt(v, base, conf, done \cup {p.id}) /\ GroupsBuilt(v, plan)
    <3>1. PICK before \in steps[m] : v \in PatchScreen(before, p)
      BY <2>3, Zenon DEF PatchEach
    <3>2. GroupsAreAt(before, base, conf, done) /\ GroupsBuilt(before, plan)
      BY <2>2
    <3> HIDE DEF done
    <3>3. GroupsAreAt(v, base, conf, done \cup {p.id})
      BY <2>3, <3>1, <3>2, ScreenIsPatched
    <3>4. GroupsBuilt(v, plan)
      BY <2>3, <3>1, <3>2, ScreenPatchBuilds
    <3> QED
      BY <3>3, <3>4
  <2> QED
    BY <2>3, <2>4, Zenon DEF Good
<1> HIDE DEF T
<1>8. T = Nat
  BY <1>6, <1>7, AllNumbers DEF T
<1>9. Good(n)
  BY <1>5, <1>8 DEF T
<1> QED
  <2>1. PatchScreens(views, plan) = steps[n]
    BY <1>3
  <2>2. now \in steps[n]
    BY <2>1 DEF plan
  <2>3. GroupsBuilt(now, plan)
    BY <1>9, <2>2, Zenon DEF Good
  <2> QED
    BY <2>3 DEF plan

\* Their order builds nothing.
LEMMA OrderBuilds ==
    ASSUME NEW conf, IsGoodConfiguration(conf), NEW plan, NEW views, GroupsBuilt(views, plan),
           \A g \in DOMAIN views : IsList(views[g])
    PROVE  GroupsBuilt(OrderPatchedGroups(views, conf), plan)
<1> DEFINE now == OrderPatchedGroups(views, conf)
<1>1. now = [g \in DOMAIN views |->
                IF ScreensOf(conf, g) = <<>> THEN views[g] ELSE InOrderOf(views[g], ScreensOf(conf, g))]
  BY Zenon DEF OrderPatchedGroups, GroupOrderScreens, InOrderOf
<1>2. ASSUME NEW g \in DOMAIN views PROVE GroupBuilt(InOrderOf(views[g], ScreensOf(conf, g)), plan)
  <2> DEFINE list == views[g]
             listed == ScreensOf(conf, g)
  <2>1. list \in Seq(ToSet(list)) /\ GroupBuilt(list, plan)
    BY DEF IsList, GroupsBuilt
  <2>2. listed \in Seq(ToSet(conf.screens))
    BY ScreensOfGroup
  <2> HIDE DEF list, listed
  <2>3. \A i \in 1 .. Len(InOrderOf(list, listed)) : \E k \in 1 .. Len(list) : InOrderOf(list, listed)[i] = list[k]
    <3>1. \A S, R : list \in Seq(S) /\ listed \in Seq(R) =>
             \A i \in 1 .. Len(InOrderOf(list, listed)) :
                \E k \in 1 .. Len(list) : InOrderOf(list, listed)[i] = list[k]
      BY OrderedFrom
    <3> QED
      BY <2>1, <2>2, <3>1, Zenon
  <2>4. GroupBuilt(InOrderOf(list, listed), plan)
    BY <2>1, <2>3, GroupPartBuilt
  <2> QED
    BY <2>4 DEF list, listed
<1> HIDE DEF now
<1>3. ASSUME NEW g \in DOMAIN views PROVE GroupBuilt(now[g], plan)
  <2>1. now[g] = IF ScreensOf(conf, g) = <<>> THEN views[g] ELSE InOrderOf(views[g], ScreensOf(conf, g))
    BY <1>1
  <2>2. GroupBuilt(views[g], plan)
    BY DEF GroupsBuilt
  <2> QED
    BY <1>2, <2>1, <2>2
<1>4. DOMAIN now = DOMAIN views
  BY <1>1
<1>5. GroupsBuilt(now, plan)
  BY <1>3, <1>4 DEF GroupsBuilt
<1> QED
  BY <1>5 DEF now

-----------------------------------------------------------------------------
(* The roots of the screens that are shown. *)

\* The root is on a screen of some group.
IsShown(views, s, root) ==
    \E g \in DOMAIN views : \E i \in 1 .. Len(views[g]) :
        s = views[g][i] /\ \E r \in 1 .. Len(s.roots) : root = s.roots[r]

\* A root that is shown is one of the configuration's, with the widgets that it owns.
LEMMA ShownRoots ==
    ASSUME NEW conf, IsGoodConfiguration(conf), NEW views, GroupsShow(views, conf),
           NEW s, NEW root, IsShown(views, s, root)
    PROVE  /\ s.id \in Ids(conf.screens)
           /\ ShowsRoot(root, Find(conf.screens, s.id).widgets)
           /\ root.id \in RootIds(Find(conf.screens, s.id).widgets) /\ root.id \in DOMAIN root.tree
<1>01. PICK g \in DOMAIN views :
          \E i \in 1 .. Len(views[g]) : s = views[g][i] /\ \E r \in 1 .. Len(s.roots) : root = s.roots[r]
  BY DEF IsShown
<1>1. PICK i \in 1 .. Len(views[g]) : s = views[g][i] /\ \E r \in 1 .. Len(s.roots) : root = s.roots[r]
  BY <1>01
<1>2. PICK r \in 1 .. Len(s.roots) : root = s.roots[r]
  BY <1>1
<1> DEFINE listed == ScreensOf(conf, g)
           screen == listed[i]
<1>3. g \in GroupIds(conf)
  <2>1. views = [h \in GroupIds(conf) |-> views[h]]
    BY Zenon DEF GroupsShow
  <2> QED
    BY <2>1
<1>4. i \in 1 .. Len(listed) /\ ShowsScreen(s, screen)
  <2>1. Len(views[g]) = Len(listed) /\ \A j \in 1 .. Len(listed) : ShowsScreen(views[g][j], listed[j])
    BY <1>3, Zenon DEF GroupsShow
  <2> QED
    BY <1>1, <2>1
<1>5. screen.id \in Ids(conf.screens) /\ Find(conf.screens, screen.id) = screen
  BY <1>4, ScreensOfGroup
<1>6. IsGoodScreen(screen)
  BY <1>4, ListOfGroup
<1> HIDE DEF screen
<1>7. /\ s = [id |-> screen.id, z |-> screen.z, roots |-> s.roots] /\ Len(s.roots) = Len(Roots(screen.widgets))
      /\ \A k \in 1 .. Len(s.roots) :
            s.roots[k].id = Roots(screen.widgets)[k].id /\ ShowsRoot(s.roots[k], screen.widgets)
  BY <1>4, Zenon DEF ShowsScreen
<1>8. s.id = screen.id
  BY <1>7
<1>9. root.id \in RootIds(screen.widgets) /\ ShowsRoot(root, screen.widgets)
  BY <1>2, <1>6, <1>7, RootsAreThere
<1>10. root.id \in DOMAIN root.tree
  <2>1. screen.widgets \in Seq(ToSet(screen.widgets)) /\ root.id \in Ids(screen.widgets)
    BY <1>6, <1>9, GoodWidgets, RootsAreThere
  <2>2. root.id \in OwnedIds(screen.widgets, root.id)
    BY <2>1, OwnedIsClosed
  <2>3. root.tree = [k \in OwnedIds(screen.widgets, root.id) |-> root.tree[k]]
    BY <1>9 DEF ShowsRoot
  <2> QED
    BY <2>2, <2>3
<1> QED
  BY <1>5, <1>8, <1>9, <1>10

\* The roots of the screens are those that are shown.
LEMMA ShownScreens ==
    ASSUME NEW conf, NEW views, GroupsShow(views, conf),
           NEW s \in UNION {ToSet(views[g]) : g \in DOMAIN views}
    PROVE  /\ \A r \in DOMAIN s.roots : IsShown(views, s, s.roots[r])
           /\ \A root \in ToSet(s.roots) : IsShown(views, s, root)
<1>1. PICK g \in DOMAIN views : s \in ToSet(views[g])
  OBVIOUS
<1>2. g \in GroupIds(conf)
  <2>1. views = [h \in GroupIds(conf) |-> views[h]]
    BY Zenon DEF GroupsShow
  <2> QED
    BY <2>1
<1>3. IsList(views[g]) /\ Len(views[g]) = Len(ScreensOf(conf, g))
      /\ \A i \in 1 .. Len(ScreensOf(conf, g)) : ShowsScreen(views[g][i], ScreensOf(conf, g)[i])
  BY <1>2, Zenon DEF GroupsShow
<1>4. PICK i \in 1 .. Len(views[g]) : s = views[g][i]
  BY <1>1, <1>3, ListIsThere
<1>5. IsList(s.roots)
  <2>1. ShowsScreen(s, ScreensOf(conf, g)[i])
    BY <1>3, <1>4
  <2> QED
    BY <2>1, Zenon DEF ShowsScreen
<1>6. \A r \in 1 .. Len(s.roots) : IsShown(views, s, s.roots[r])
  BY <1>4 DEF IsShown
<1>7. DOMAIN s.roots = 1 .. Len(s.roots) /\ \A root \in ToSet(s.roots) : \E r \in 1 .. Len(s.roots) : s.roots[r] = root
  BY <1>5, ListIsThere
<1> QED
  BY <1>6, <1>7

\* A mark is set on every widget, and changes nothing else of it.
LEMMA MarkedNodes ==
    ASSUME NEW root, NEW widgets, ShowsRoot(root, widgets), NEW mark \in {"told", "built"}, NEW value
    PROVE  /\ MarkedRoot(root, mark, value).id = root.id
           /\ DOMAIN MarkedRoot(root, mark, value).tree = DOMAIN root.tree
           /\ \A k \in DOMAIN root.tree :
                 /\ MarkedRoot(root, mark, value).tree[k][mark] = value
                 /\ mark # "built" => MarkedRoot(root, mark, value).tree[k].built = root.tree[k].built
<1> DEFINE tree == root.tree
           made == [k \in DOMAIN tree |-> [tree[k] EXCEPT ![mark] = value]]
           now == MarkedRoot(root, mark, value)
<1>1. root = [id |-> root.id, tree |-> tree]
  BY DEF ShowsRoot
<1>2. tree = [k \in OwnedIds(widgets, root.id) |-> tree[k]]
  BY DEF ShowsRoot
<1>3. DOMAIN tree = OwnedIds(widgets, root.id)
  BY <1>2, Zenon
<1>4. \A k \in DOMAIN tree : DOMAIN tree[k] = {"rec", "kids", "told", "built"}
  BY <1>3 DEF ShowsRoot
<1>5. now = [root EXCEPT !.tree = made]
  BY Zenon DEF MarkedRoot
<1> HIDE DEF tree, now
<1>6. DOMAIN made = DOMAIN tree /\ \A k \in DOMAIN tree : made[k] = [tree[k] EXCEPT ![mark] = value]
  OBVIOUS
<1> HIDE DEF made
<1>7. now.id = root.id /\ now.tree = made
  BY <1>1, <1>5
<1>8. ASSUME NEW k \in DOMAIN tree
      PROVE  made[k][mark] = value /\ (mark # "built" => made[k].built = tree[k].built)
  <2> DEFINE node == tree[k]
  <2>1. DOMAIN node = {"rec", "kids", "told", "built"} /\ made[k] = [node EXCEPT ![mark] = value]
    BY <1>4, <1>6
  <2> HIDE DEF node
  <2>2. made[k][mark] = value /\ (mark # "built" => made[k].built = node.built)
    BY <2>1
  <2> QED
    BY <2>2 DEF node
<1> QED
  BY <1>6, <1>7, <1>8 DEF now, tree

\* A root of the marked screens was one before, without the mark.
LEMMA MarkedBack ==
    ASSUME NEW conf, NEW views, GroupsShow(views, conf), NEW mark \in {"told", "built"}, NEW value,
           NEW s, NEW root, IsShown(Marked(views, mark, value), s, root)
    PROVE  \E t, old, widgets : /\ IsShown(views, t, old) /\ s.id = t.id
                                /\ root = MarkedRoot(old, mark, value) /\ ShowsRoot(old, widgets)
<1> DEFINE now == Marked(views, mark, value)
<1>01. PICK g \in DOMAIN now :
          \E i \in 1 .. Len(now[g]) : s = now[g][i] /\ \E r \in 1 .. Len(s.roots) : root = s.roots[r]
  BY DEF IsShown
<1>1. PICK i \in 1 .. Len(now[g]) : s = now[g][i] /\ \E r \in 1 .. Len(s.roots) : root = s.roots[r]
  BY <1>01
<1>2. PICK r \in 1 .. Len(s.roots) : root = s.roots[r]
  BY <1>1
<1>3. now = [h \in DOMAIN views |-> [j \in DOMAIN views[h] |-> MarkedScreen(views[h][j], mark, value)]]
  BY Zenon DEF Marked
<1> HIDE DEF now
<1>4. g \in DOMAIN views /\ now[g] = [j \in DOMAIN views[g] |-> MarkedScreen(views[g][j], mark, value)]
  BY <1>3
<1>5. g \in GroupIds(conf)
  <2>1. views = [h \in GroupIds(conf) |-> views[h]]
    BY Zenon DEF GroupsShow
  <2> QED
    BY <1>4, <2>1
<1>6. IsList(views[g]) /\ Len(views[g]) = Len(ScreensOf(conf, g))
      /\ \A j \in 1 .. Len(ScreensOf(conf, g)) : ShowsScreen(views[g][j], ScreensOf(conf, g)[j])
  BY <1>5, Zenon DEF GroupsShow
<1>7. DOMAIN views[g] = 1 .. Len(views[g]) /\ Len(views[g]) \in Nat
  BY <1>6, ListIsThere
<1> DEFINE t == views[g][i]
<1>8. i \in 1 .. Len(views[g]) /\ s = MarkedScreen(t, mark, value)
  <2>1. DOMAIN now[g] = 1 .. Len(views[g])
    BY <1>4, <1>7
  <2>2. Len(now[g]) = Len(views[g])
    BY <1>7, <2>1
  <2> QED
    BY <1>1, <1>4, <1>7, <2>2
<1>9. ShowsScreen(t, ScreensOf(conf, g)[i])
  BY <1>6, <1>8
<1> HIDE DEF t
<1> DEFINE screen == ScreensOf(conf, g)[i]
<1> HIDE DEF screen
<1>10. /\ t = [id |-> screen.id, z |-> screen.z, roots |-> t.roots] /\ IsList(t.roots)
       /\ \A k \in 1 .. Len(t.roots) : ShowsRoot(t.roots[k], screen.widgets)
  BY <1>9, Zenon DEF ShowsScreen, screen
<1>11. DOMAIN t.roots = 1 .. Len(t.roots) /\ Len(t.roots) \in Nat
  BY <1>10, ListIsThere
<1> DEFINE roots == [k \in DOMAIN t.roots |-> MarkedRoot(t.roots[k], mark, value)]
<1>12. s = [t EXCEPT !.roots = roots]
  BY <1>8, Zenon DEF MarkedScreen
<1>13. DOMAIN roots = 1 .. Len(t.roots) /\ \A k \in 1 .. Len(t.roots) : roots[k] = MarkedRoot(t.roots[k], mark, value)
  BY <1>11
<1> HIDE DEF roots
<1>14. s.id = t.id /\ s.roots = roots
  BY <1>10, <1>12
<1>15. Len(roots) = Len(t.roots)
  BY <1>11, <1>13
<1>16. r \in 1 .. Len(t.roots) /\ root = MarkedRoot(t.roots[r], mark, value)
  BY <1>2, <1>13, <1>14, <1>15
<1>17. IsShown(views, t, t.roots[r])
  BY <1>4, <1>8, <1>16 DEF IsShown, t
<1> QED
  BY <1>10, <1>14, <1>16, <1>17

\* Nothing is built on screens that settled.
LEMMA SettledBuilds ==
    ASSUME NEW conf, NEW views, GroupsShow(views, conf), NEW plan
    PROVE  GroupsBuilt(Settled(views), plan)
<1> DEFINE now == Settled(views)
           no == FALSE
<1>1. now = Marked(views, "built", no)
  BY Zenon DEF Settled
<1>0. ~no
  OBVIOUS
<1> HIDE DEF now, no
<1>2. ASSUME NEW s, NEW root, IsShown(now, s, root) PROVE ~RootBuilt(root)
  <2>1. IsShown(Marked(views, "built", no), s, root)
    BY <1>1, <1>2
  <2>2. "built" \in {"told", "built"}
    OBVIOUS
  <2>3. PICK t, old, widgets : /\ IsShown(views, t, old) /\ s.id = t.id
                               /\ root = MarkedRoot(old, "built", no) /\ ShowsRoot(old, widgets)
    BY <2>1, <2>2, MarkedBack
  <2>4. /\ DOMAIN MarkedRoot(old, "built", no).tree = DOMAIN old.tree
        /\ \A k \in DOMAIN old.tree : MarkedRoot(old, "built", no).tree[k]["built"] = no
    BY <2>2, <2>3, MarkedNodes
  <2>5. ASSUME NEW k \in DOMAIN root.tree PROVE ~root.tree[k].built
    BY <1>0, <2>3, <2>4
  <2> QED
    BY <2>5 DEF RootBuilt
<1>3. ASSUME NEW g \in DOMAIN now, NEW i \in 1 .. Len(now[g]), NEW r \in 1 .. Len(now[g][i].roots)
      PROVE  ~RootBuilt(now[g][i].roots[r])
  <2>1. IsShown(now, now[g][i], now[g][i].roots[r])
    BY DEF IsShown
  <2> QED
    BY <1>2, <2>1
<1>4. GroupsBuilt(now, plan)
  BY <1>3 DEF GroupsBuilt, GroupBuilt, ScreenBuilt, RootsBuilt
<1> QED
  BY <1>4 DEF now

\* What was built and is shown is what the plan makes.
LEMMA ShownIsBuilt ==
    ASSUME NEW views, NEW plan, GroupsBuilt(views, plan), NEW s, NEW root, IsShown(views, s, root), RootBuilt(root)
    PROVE  IsBuilt(plan, s.id, root.id)
BY DEF IsShown, GroupsBuilt, GroupBuilt, ScreenBuilt, RootsBuilt

-----------------------------------------------------------------------------
(* What the client asked for, and what it is told. *)

\* A root that was built anew is of a screen of the groups; an operation on that screen says so, or the request put
\* a widget there that is gone again, and so does every operation that put a widget of the root.
LEMMA EffectsOfBuilt ==
    ASSUME NEW base, IsGoodConfiguration(base), NEW conf, IsGoodConfiguration(conf),
           NEW S, NEW asked \in Seq(S), \A i \in 1 .. Len(asked) : IsOp(asked[i]), AsksFor(asked, base, conf),
           NEW views, GroupsShow(views, conf), GroupsBuilt(views, PlanPatch(base, conf)),
           NEW s, NEW root, IsShown(views, s, root), RootBuilt(root)
    PROVE  /\ \A p \in ToSet(PlanPatch(base, conf)) : IsOnOverlay(p) => p.id # s.id
           /\ \E i \in 1 .. Len(asked) : OpScreen(asked[i]) = s.id /\ Admits(PlanPatch(base, conf), conf, asked[i])
           /\ \A i \in 1 .. Len(asked) :
                 OpScreen(asked[i]) = s.id /\ asked[i].kind = "put_widget"
                 /\ asked[i].widget.id \in DOMAIN root.tree
                 => Effect(PlanPatch(base, conf), asked[i]) \in {WidgetRebuilt, GroupRebuilt}
<1> DEFINE plan == PlanPatch(base, conf)
           new == Find(conf.screens, s.id)
<1>1. IsUnique(plan) /\ \A k \in 1 .. Len(plan) : IsScreenPatch(plan[k], base, conf)
  BY ScreensArePlanned
<1>2. PICK R : plan \in Seq(R)
  BY ScreensArePlanned
<1>3. PICK k \in 1 .. Len(plan) : plan[k].id = s.id /\ ~IsOnOverlay(plan[k]) /\ Makes(plan[k], root.id)
  BY ShownIsBuilt DEF IsBuilt
<1>4. /\ s.id \in Ids(conf.screens) /\ ShowsRoot(root, new.widgets)
      /\ root.id \in RootIds(new.widgets)
  BY ShownRoots
<1>5. \A p \in ToSet(plan) : IsOnOverlay(p) => p.id # s.id
  <2>1. ToSet(plan) = {plan[j] : j \in 1 .. Len(plan)}
    BY <1>2 DEF ToSet
  <2> HIDE DEF plan
  <2> QED
    BY <1>1, <1>3, <2>1 DEF IsUnique
<1>6. \E i \in 1 .. Len(asked) : OpScreen(asked[i]) = s.id /\ Admits(plan, conf, asked[i])
  <2>1. k \in 1 .. Len(PlanPatch(base, conf)) /\ Makes(PlanPatch(base, conf)[k], root.id)
    BY <1>3
  <2>2. \E i \in 1 .. Len(asked) :
           OpScreen(asked[i]) = PlanPatch(base, conf)[k].id /\ Admits(PlanPatch(base, conf), conf, asked[i])
    BY <2>1, MakesIsAsked
  <2> QED
    BY <1>3, <2>2
<1>7. ASSUME NEW i \in 1 .. Len(asked), OpScreen(asked[i]) = s.id, asked[i].kind = "put_widget",
             asked[i].widget.id \in DOMAIN root.tree
      PROVE  Effect(plan, asked[i]) \in {WidgetRebuilt, GroupRebuilt}
  <2> DEFINE op == asked[i]
             p == plan[k]
  <2>1. IsOp(op) /\ OpScreen(op) = plan[k].id
    BY <1>3, <1>7
  <2>2. /\ p.action # "widgets" => Effect(plan, op) = GroupRebuilt
        /\ \A T, r : p.widgets \in Seq(T) /\ IsMade(p.widgets, r) =>
              (op.kind = "put_widget" /\ r \in RootOf(p.new.widgets, op.widget.id) =>
                  Effect(plan, op) \in {WidgetRebuilt, GroupRebuilt})
    BY <1>1, <1>2, <2>1, EffectOfMade
  <2>3. CASE p.action # "widgets"
    BY <2>2, <2>3
  <2>4. CASE p.action = "widgets"
    <3>1. /\ p.new = new /\ p.old # NoScreen /\ p.old = ScreenOf(base, p.id)
          /\ p.widgets = PlanWidgets(p.old.widgets, p.new.widgets)
      BY <1>1, <1>3, <2>4, PatchKinds
    <3>2. IsGoodScreen(p.old) /\ IsGoodScreen(p.new)
      <4>1. IsGoodScreen(p.new)
        BY <1>4, <3>1, FoundIsGood
      <4>2. p.id \in Ids(base.screens)
        BY <3>1, ScreensAreThere
      <4>3. IsGoodScreen(Find(base.screens, p.id)) /\ ScreenOf(base, p.id) = Find(base.screens, p.id)
        BY <4>2, FoundIsGood, ScreensAreThere
      <4> QED
        BY <3>1, <4>1, <4>3
    <3>3. PICK T : p.widgets \in Seq(T)
      BY <3>1, <3>2, WidgetsArePlanned
    <3>4. IsMade(p.widgets, root.id)
      BY <1>3, <2>4 DEF Makes
    <3>5. root.tree = [id \in OwnedIds(new.widgets, root.id) |-> root.tree[id]]
      BY <1>4 DEF ShowsRoot
    <3>6. op.widget.id \in OwnedIds(new.widgets, root.id)
      BY <1>7, <3>5
    <3>7. root.id \in RootOf(p.new.widgets, op.widget.id)
      BY <1>4, <3>1, <3>6 DEF RootOf
    <3> QED
      BY <1>7, <2>2, <3>3, <3>4, <3>7
  <2> QED
    BY <2>3, <2>4
<1> QED
  BY <1>5, <1>6, <1>7

\* The operations of the request made the patched configuration of the staged one.
OpsInv == ops \in Seq(client.ops) /\ AsksFor(ops, staged, patched)

\* Every operation that a request gathers goes on with what the request asked for.
LEMMA OpsNext ==
    ASSUME FormInv, OpsInv, Next
    PROVE  OpsInv'
<1>1. IsGoodConfiguration(staged) /\ (Validate(patched) => IsGoodConfiguration(patched))
  BY DEF FormInv, IsGoodConfiguration
<1>2. <<>> \in Seq(client.ops)
  OBVIOUS
<1>3. ASSUME IsGoodConfiguration(staged'), client' = client, ops' = <<>>, patched' = staged' PROVE OpsInv'
  BY <1>2, <1>3, NothingAsked DEF OpsInv
<1>4. ASSUME UNCHANGED <<client, staged, patched, ops>> PROVE OpsInv'
  BY <1>4 DEF OpsInv
<1>5. ASSUME NEW op \in client.ops, ApplyPatchOps(op) PROVE OpsInv'
  <2>1. client' = client /\ staged' = staged
    BY <1>5 DEF ApplyPatchOps
  <2>2. CASE FitsBase(patched, op)
    <3>1. patched' = ApplyPatchOp(patched, op) /\ ops' = Append(ops, op)
      BY <1>5, <2>2 DEF ApplyPatchOps
    <3>2. IsOp(op) /\ IsConfiguration(patched)
      BY <1>5, ClientsAssumption DEF FormInv
    <3>3. AsksFor(Append(ops, op), staged, ApplyPatchOp(patched, op))
      BY <2>2, <3>2, OpIsAsked DEF OpsInv
    <3>4. Append(ops, op) \in Seq(client.ops)
      BY <1>5 DEF OpsInv
    <3> QED
      BY <2>1, <3>1, <3>3, <3>4 DEF OpsInv
  <2>3. CASE ~FitsBase(patched, op)
    <3>1. patched' = staged /\ ops' = <<>>
      BY <1>5, <2>3 DEF ApplyPatchOps
    <3> QED
      BY <1>1, <1>3, <2>1, <3>1
  <2> QED
    BY <2>2, <2>3
<1>6. CASE RefuseInvalid
  BY <1>1, <1>3, <1>6 DEF RefuseInvalid
<1>7. CASE ApplyPatch
  BY <1>1, <1>3, <1>7 DEF ApplyPatch, TakePatched
<1>8. CASE ApplyByRebuild
  BY <1>1, <1>3, <1>8 DEF ApplyByRebuild, TakePatched
<1>9. CASE ApplyFails
  BY <1>4, <1>9 DEF ApplyFails, requestVars
<1>10. CASE ShowStagedAgain
  BY <1>1, <1>3, <1>10 DEF ShowStagedAgain
<1>11. CASE Replay
  BY <1>4, <1>11 DEF Replay, requestVars
<1>12. ASSUME NEW id \in Overlays(staged) \union {NoOverlay}, UserMovesOverlay(id) PROVE OpsInv'
  BY <1>4, <1>12 DEF UserMovesOverlay, requestVars
<1>13. CASE ViewShowsOverlay
  BY <1>4, <1>13 DEF ViewShowsOverlay, requestVars
<1> QED
  BY <1>5, <1>6, <1>7, <1>8, <1>9, <1>10, <1>11, <1>12, <1>13 DEF Next

\* A patch leaves the groups as the patched configuration has them, and builds what it plans to and nothing else.
LEMMA PatchBuilds ==
    ASSUME FormInv, LiveInv, ApplyPatch
    PROVE  /\ IsGoodConfiguration(staged) /\ IsGoodConfiguration(patched)
           /\ GroupsShow(groups', patched) /\ GroupsBuilt(groups', PlanPatch(staged, patched))
<1>1. PICK views \in PatchScreens(Settled(groups), Plan) : groups' = OrderPatchedGroups(views, patched)
  BY DEF ApplyPatch
<1>2. pc = "idle" /\ Validate(patched) /\ staged' = patched /\ pc' \in {"idle", "replaying"}
  BY DEF ApplyPatch, TakePatched
<1>3. IsGoodConfiguration(staged) /\ IsGoodConfiguration(patched)
  BY <1>2 DEF FormInv, IsGoodConfiguration
<1>4. GroupsShow(groups, staged)
  BY <1>2 DEF LiveInv
<1>5. GroupsShow(Settled(groups), staged)
  BY <1>3, <1>4, MarksAside
<1>6. GroupsAreAt(Settled(groups), staged, patched, {})
  BY <1>3, <1>5, GroupsBefore
<1>7. views \in PatchScreens(Settled(groups), PlanPatch(staged, patched))
  BY <1>1 DEF Plan
<1>8. GroupsAreAt(views, staged, patched, Ids(PlanPatch(staged, patched)))
  BY <1>3, <1>6, <1>7, ScreensArePatched
<1>9. GroupsShow(OrderPatchedGroups(views, patched), patched)
  BY <1>3, <1>8, GroupsAfter
<1>10. GroupsBuilt(Settled(groups), PlanPatch(staged, patched))
  BY <1>4, SettledBuilds
<1>11. GroupsBuilt(views, PlanPatch(staged, patched))
  BY <1>3, <1>6, <1>7, <1>10, ScreensAreBuilt
<1>12. \A g \in DOMAIN views : IsList(views[g])
  <2>1. views = [g \in GroupIds(staged) |-> views[g]]
        /\ \A g \in GroupIds(staged) : GroupIsAt(views[g], g, staged, patched, Ids(PlanPatch(staged, patched)))
    BY <1>8, Zenon DEF GroupsAreAt
  <2>2. DOMAIN views = GroupIds(staged)
    BY <2>1
  <2>3. \A g \in GroupIds(staged) : IsList(views[g])
    BY <2>1, Zenon DEF GroupIsAt
  <2> QED
    BY <2>2, <2>3
<1>13. GroupsBuilt(OrderPatchedGroups(views, patched), PlanPatch(staged, patched))
  BY <1>3, <1>11, <1>12, OrderBuilds
<1> QED
  BY <1>1, <1>3, <1>9, <1>13

\* The last patch took no widget away again that it had put, and its screens are there.
IsToldOfAll == effects # <<>> /\ ~TakesBack

\* What was built of a root has been told.
RootIsTold(root) == \A id \in DOMAIN root.tree : root.tree[id].built => root.tree[id].told

\* What is told of the operations on its screen is true of a root.
RootIsTrue(told, screen, root) ==
    /\ root.tree[root.id].built =>
          \E e \in ToSet(told) : (OpScreen(e.op) = screen \/ e.effect = GroupRebuilt) /\ e.effect # InPlace
    /\ \A e \in ToSet(told) :
          /\ OpScreen(e.op) = screen /\ e.op.kind = "put_widget" /\ e.effect = InPlace
          /\ e.op.widget.id \in DOMAIN root.tree
          => ~root.tree[root.id].built

\* When the patch is over, what it built is told; what is told of the operations is true of every root.
ToldInv == pc = "idle" /\ IsToldOfAll => \A s, root : IsShown(groups, s, root) => RootIsTold(root)

EffectsInv == pc # "failed" /\ IsToldOfAll => \A s, root : IsShown(groups, s, root) => RootIsTrue(effects, s.id, root)

\* What a patch tells of the operations, one after the other.
LEMMA ToldInTurn ==
    ASSUME NEW S, ops \in Seq(S), NEW told, effects' = Tell(told)
    PROVE  /\ DOMAIN effects' = 1 .. Len(ops)
           /\ \A i \in 1 .. Len(ops) : effects'[i] = [op |-> ops[i], effect |-> told[i]]
           /\ \A i \in 1 .. Len(ops) : effects'[i] \in ToSet(effects')
           /\ \A e \in ToSet(effects') : \E i \in 1 .. Len(ops) : e = [op |-> ops[i], effect |-> told[i]]
<1>1. effects' = [i \in DOMAIN ops |-> [op |-> ops[i], effect |-> told[i]]]
  BY Zenon DEF Tell
<1>2. DOMAIN ops = 1 .. Len(ops)
  OBVIOUS
<1>3. DOMAIN effects' = 1 .. Len(ops)
      /\ \A i \in 1 .. Len(ops) : effects'[i] = [op |-> ops[i], effect |-> told[i]]
  BY <1>1, <1>2
<1>4. ToSet(effects') = {effects'[i] : i \in DOMAIN effects'}
  BY DEF ToSet
<1> QED
  BY <1>3, <1>4

\* A patch that could be carried out in place is told as it was.
LEMMA PatchIsTold ==
    ASSUME FormInv, LiveInv, OpsInv, ApplyPatch, ~TakesBack',
           NEW s, NEW root, IsShown(groups', s, root)
    PROVE  /\ RootIsTrue(effects', s.id, root)
           /\ RootBuilt(root) => pc' = "replaying"
<1> DEFINE plan == PlanPatch(staged, patched)
<1>1. /\ IsGoodConfiguration(staged) /\ IsGoodConfiguration(patched)
      /\ GroupsShow(groups', patched) /\ GroupsBuilt(groups', plan)
  BY PatchBuilds
<1>2. ops \in Seq(client.ops) /\ AsksFor(ops, staged, patched)
  BY DEF OpsInv
<1>3. \A i \in 1 .. Len(ops) : IsOp(ops[i])
  BY <1>2, ClientsAssumption DEF FormInv
<1>4. /\ effects' = Tell([i \in DOMAIN ops |-> EffectOfOp(ops[i])])
      /\ pc' = IF IsReplayNeeded THEN "replaying" ELSE "idle"
      /\ staged' = patched
  BY DEF ApplyPatch, TakePatched
<1>5. DOMAIN ops = 1 .. Len(ops)
  BY <1>2
<1>6. /\ DOMAIN effects' = 1 .. Len(ops)
      /\ \A i \in 1 .. Len(ops) : /\ effects'[i] \in ToSet(effects')
                                  /\ effects'[i].op = ops[i] /\ effects'[i].effect = EffectOfOp(ops[i])
      /\ \A e \in ToSet(effects') : \E i \in 1 .. Len(ops) : e.op = ops[i] /\ e.effect = EffectOfOp(ops[i])
  <2> DEFINE told == [i \in DOMAIN ops |-> EffectOfOp(ops[i])]
  <2>1. \A i \in 1 .. Len(ops) : told[i] = EffectOfOp(ops[i])
    BY <1>5
  <2>2. effects' = Tell(told)
    BY <1>4
  <2> HIDE DEF told
  <2>3. /\ DOMAIN effects' = 1 .. Len(ops)
        /\ \A i \in 1 .. Len(ops) : effects'[i] = [op |-> ops[i], effect |-> told[i]]
        /\ \A i \in 1 .. Len(ops) : effects'[i] \in ToSet(effects')
        /\ \A e \in ToSet(effects') : \E i \in 1 .. Len(ops) : e = [op |-> ops[i], effect |-> told[i]]
    BY <1>2, <2>2, ToldInTurn
  <2> QED
    BY <2>1, <2>3
<1>7. \A i \in 1 .. Len(ops) :
         ~(ops[i].kind = "put_widget" /\ ops[i].widget.id \notin WidgetIds(patched, ops[i].screen_id))
  <2>1. \A i \in DOMAIN effects' :
           ~(effects'[i].op.kind = "put_widget"
             /\ effects'[i].op.widget.id \notin WidgetIds(staged', effects'[i].op.screen_id))
    BY DEF TakesBack
  <2> QED
    BY <1>4, <1>6, <2>1
<1>8. CASE ~RootBuilt(root)
  <2>1. IsShown(groups', s, root)
    OBVIOUS
  <2>2. root.id \in DOMAIN root.tree
    BY <1>1, <2>1, ShownRoots
  <2>3. ~root.tree[root.id].built
    BY <1>8, <2>2 DEF RootBuilt
  <2> QED
    BY <1>8, <2>3 DEF RootIsTrue
<1>9. CASE RootBuilt(root)
  <2>1. /\ \A p \in ToSet(plan) : IsOnOverlay(p) => p.id # s.id
        /\ \E i \in 1 .. Len(ops) : OpScreen(ops[i]) = s.id /\ Admits(plan, patched, ops[i])
        /\ \A i \in 1 .. Len(ops) :
              OpScreen(ops[i]) = s.id /\ ops[i].kind = "put_widget" /\ ops[i].widget.id \in DOMAIN root.tree
              => Effect(plan, ops[i]) \in {WidgetRebuilt, GroupRebuilt}
    BY <1>1, <1>2, <1>3, <1>9, EffectsOfBuilt
  <2>2. s.id \notin OverlaysToReshow
    BY <2>1 DEF OverlaysToReshow, Plan
  <2>3. \A op : OpScreen(op) = s.id => EffectOfOp(op) = Effect(plan, op)
    BY <2>2 DEF EffectOfOp, Plan
  <2>4. InPlace \notin {WidgetRebuilt, GroupRebuilt}
    BY DEF InPlace, WidgetRebuilt, GroupRebuilt
  <2> HIDE DEF plan
  <2>5. PICK i \in 1 .. Len(ops) : OpScreen(ops[i]) = s.id /\ Effect(plan, ops[i]) \in {WidgetRebuilt, GroupRebuilt}
    BY <1>7, <2>1 DEF Admits
  <2>6. /\ effects'[i] \in ToSet(effects') /\ OpScreen(effects'[i].op) = s.id /\ effects'[i].effect # InPlace
    BY <1>6, <2>3, <2>4, <2>5
  <2>7. ASSUME NEW e \in ToSet(effects'), OpScreen(e.op) = s.id, e.op.kind = "put_widget", e.effect = InPlace,
               e.op.widget.id \in DOMAIN root.tree
        PROVE  FALSE
    <3>1. PICK j \in 1 .. Len(ops) : e.op = ops[j] /\ e.effect = EffectOfOp(ops[j])
      BY <1>6
    <3>2. Effect(plan, ops[j]) \in {WidgetRebuilt, GroupRebuilt}
      BY <2>1, <2>7, <3>1
    <3> QED
      BY <2>3, <2>4, <2>7, <3>1, <3>2
  <2>8. RootIsTrue(effects', s.id, root)
    BY <2>6, <2>7 DEF RootIsTrue
  <2>9. IsReplayNeeded
    BY <1>5, <2>5, Zenon DEF IsReplayNeeded, Plan, plan
  <2> QED
    BY <1>4, <2>8, <2>9
<1> QED
  BY <1>8, <1>9

\* Whoever is told the state is told all of it.
LEMMA ReplayTells ==
    ASSUME IsGoodConfiguration(staged), GroupsShow(groups, staged), groups' = Told(groups),
           NEW s, NEW root, IsShown(groups', s, root)
    PROVE  /\ RootIsTold(root)
           /\ \A told : (\A t, old : IsShown(groups, t, old) => RootIsTrue(told, t.id, old))
                        => RootIsTrue(told, s.id, root)
<1> DEFINE yes == TRUE
<1>1. groups' = Marked(groups, "told", yes)
  BY Zenon DEF Told
<1>2. yes
  OBVIOUS
<1> HIDE DEF yes
<1>3. IsShown(Marked(groups, "told", yes), s, root) /\ "told" \in {"told", "built"}
  BY <1>1
<1>4. PICK t, old, widgets : /\ IsShown(groups, t, old) /\ s.id = t.id
                             /\ root = MarkedRoot(old, "told", yes) /\ ShowsRoot(old, widgets)
  BY <1>3, MarkedBack
<1>5. /\ MarkedRoot(old, "told", yes).id = old.id
      /\ DOMAIN MarkedRoot(old, "told", yes).tree = DOMAIN old.tree
      /\ \A k \in DOMAIN old.tree :
            /\ MarkedRoot(old, "told", yes).tree[k]["told"] = yes
            /\ "told" # "built" => MarkedRoot(old, "told", yes).tree[k].built = old.tree[k].built
  BY <1>3, <1>4, MarkedNodes
<1>6. /\ root.id = old.id /\ DOMAIN root.tree = DOMAIN old.tree
      /\ \A k \in DOMAIN old.tree : root.tree[k].told = yes /\ root.tree[k].built = old.tree[k].built
  BY <1>4, <1>5
<1>7. RootIsTold(root)
  BY <1>2, <1>6 DEF RootIsTold
<1>8. old.id \in DOMAIN old.tree
  BY <1>4, ShownRoots
<1>9. ASSUME NEW told, \A u, r : IsShown(groups, u, r) => RootIsTrue(told, u.id, r)
      PROVE  RootIsTrue(told, s.id, root)
  <2>1. RootIsTrue(told, t.id, old)
    BY <1>4, <1>9
  <2>2. root.tree[root.id].built = old.tree[old.id].built
    BY <1>6, <1>8
  <2> QED
    BY <1>4, <1>6, <2>1, <2>2 DEF RootIsTrue
<1> QED
  BY <1>7, <1>9

\* What is told stays true, of every root that is shown.
LEMMA ToldNext ==
    ASSUME FormInv, LiveInv, OpsInv, ToldInv, EffectsInv, Next
    PROVE  ToldInv' /\ EffectsInv'
<1>1. ASSUME UNCHANGED <<staged, groups, effects>>, pc' = pc \/ pc' = "failed" PROVE ToldInv' /\ EffectsInv'
  <2>1. IsToldOfAll' <=> IsToldOfAll
    BY <1>1 DEF IsToldOfAll, TakesBack
  <2>2. pc' = "idle" => pc = "idle"
    BY <1>1
  <2> QED
    BY <1>1, <2>1, <2>2 DEF ToldInv, EffectsInv
<1>2. ASSUME effects' = <<>> PROVE ToldInv' /\ EffectsInv'
  BY <1>2 DEF ToldInv, EffectsInv, IsToldOfAll
<1>3. ASSUME NEW op \in client.ops, ApplyPatchOps(op) PROVE ToldInv' /\ EffectsInv'
  BY <1>2, <1>3 DEF ApplyPatchOps
<1>4. CASE RefuseInvalid
  BY <1>1, <1>4 DEF RefuseInvalid
<1>5. CASE ApplyPatch
  <2> SUFFICES ASSUME ~TakesBack', NEW s, NEW root, IsShown(groups', s, root)
               PROVE  (pc' = "idle" => RootIsTold(root)) /\ RootIsTrue(effects', s.id, root)
    BY DEF ToldInv, EffectsInv, IsToldOfAll
  <2>1. RootIsTrue(effects', s.id, root) /\ (RootBuilt(root) => pc' = "replaying")
    BY <1>5, PatchIsTold
  <2>2. ~RootBuilt(root) => RootIsTold(root)
    BY DEF RootBuilt, RootIsTold
  <2>3. "replaying" # "idle"
    OBVIOUS
  <2> QED
    BY <2>1, <2>2, <2>3
<1>6. CASE ApplyByRebuild
  <2>1. pc' = "replaying" /\ ops # <<>> /\ effects' = Tell([i \in DOMAIN ops |-> GroupRebuilt])
    BY <1>6 DEF ApplyByRebuild, Show
  <2>2. ops \in Seq(client.ops)
    BY DEF OpsInv
  <2>3. DOMAIN ops = 1 .. Len(ops) /\ 1 \in 1 .. Len(ops)
    BY <2>1, <2>2
  <2> DEFINE told == [i \in DOMAIN ops |-> GroupRebuilt]
  <2>4. (\A i \in 1 .. Len(ops) : told[i] = GroupRebuilt) /\ effects' = Tell(told)
    BY <2>1, <2>3
  <2> HIDE DEF told
  <2>5. /\ \A i \in 1 .. Len(ops) : effects'[i] = [op |-> ops[i], effect |-> told[i]]
        /\ \A i \in 1 .. Len(ops) : effects'[i] \in ToSet(effects')
        /\ \A e \in ToSet(effects') : \E i \in 1 .. Len(ops) : e = [op |-> ops[i], effect |-> told[i]]
    BY <2>2, <2>4, ToldInTurn
  <2>6. effects'[1] \in ToSet(effects') /\ \A e \in ToSet(effects') : e.effect = GroupRebuilt
    BY <2>3, <2>4, <2>5
  <2>7. GroupRebuilt # InPlace
    BY DEF GroupRebuilt, InPlace
  <2>8. \A s, root : RootIsTrue(effects', s.id, root)
    BY <2>6, <2>7 DEF RootIsTrue
  <2> QED
    BY <2>1, <2>8 DEF ToldInv, EffectsInv
<1>7. CASE ApplyFails
  BY <1>7 DEF ApplyFails, ToldInv, EffectsInv
<1>8. CASE ShowStagedAgain
  BY <1>2, <1>8 DEF ShowStagedAgain
<1>9. CASE Replay
  <2>1. pc = "replaying" /\ groups' = Told(groups) /\ staged' = staged /\ effects' = effects
    BY <1>9 DEF Replay, requestVars
  <2>2. IsGoodConfiguration(staged) /\ GroupsShow(groups, staged)
    BY <2>1 DEF FormInv, LiveInv, IsGoodConfiguration
  <2>3. IsToldOfAll' <=> IsToldOfAll
    BY <2>1 DEF IsToldOfAll, TakesBack
  <2>4. \A s, root : IsShown(groups', s, root) => RootIsTold(root)
    BY <2>1, <2>2, ReplayTells
  <2>5. ASSUME IsToldOfAll, NEW s, NEW root, IsShown(groups', s, root) PROVE RootIsTrue(effects', s.id, root)
    <3>1. \A t, old : IsShown(groups, t, old) => RootIsTrue(effects, t.id, old)
      BY <2>1, <2>5 DEF EffectsInv
    <3>2. RootIsTrue(effects, s.id, root)
      BY <2>1, <2>2, <2>5, <3>1, ReplayTells
    <3> QED
      BY <2>1, <3>2
  <2> QED
    BY <2>3, <2>4, <2>5 DEF ToldInv, EffectsInv
<1>10. ASSUME NEW id \in Overlays(staged) \union {NoOverlay}, UserMovesOverlay(id) PROVE ToldInv' /\ EffectsInv'
  BY <1>1, <1>10 DEF UserMovesOverlay, requestVars
<1>11. CASE ViewShowsOverlay
  BY <1>1, <1>11 DEF ViewShowsOverlay, requestVars
<1> QED
  BY <1>3, <1>4, <1>5, <1>6, <1>7, <1>8, <1>9, <1>10, <1>11 DEF Next

\* The invariant that what the client is told rests on.
PatchInv == FormInv /\ LiveInv /\ OpsInv /\ ToldInv /\ EffectsInv

\* It holds at first, and every step keeps it.
LEMMA EffectsKept ==
    /\ ConfigurationsInit => PatchInv
    /\ PatchInv /\ [ConfigurationsNext]_allVars => PatchInv'
<1>1. ConfigurationsInit => PatchInv
  <2> SUFFICES ASSUME Init PROVE PatchInv
    BY DEF ConfigurationsInit
  <2>1. FormInv /\ groups = Settled(Told(BuildGroups(staged)))
        /\ ops = <<>> /\ patched = staged /\ effects = <<>>
    BY ClientsAssumption DEF Init, FormInv
  <2>2. IsGoodConfiguration(staged)
    BY <2>1 DEF FormInv, IsGoodConfiguration
  <2>3. GroupsShow(Told(BuildGroups(staged)), staged)
    BY <2>2, BuiltShows, MarksAside
  <2>4. GroupsShow(groups, staged)
    BY <2>1, <2>2, <2>3, MarksAside
  <2>5. OpsInv
    BY <2>1, <2>2, NothingAsked DEF OpsInv
  <2>6. ToldInv /\ EffectsInv
    BY <2>1 DEF ToldInv, EffectsInv, IsToldOfAll
  <2> QED
    BY <2>1, <2>4, <2>5, <2>6 DEF LiveInv, PatchInv
<1>2. ASSUME PatchInv, [ConfigurationsNext]_allVars PROVE PatchInv'
  <2>1. CASE UNCHANGED vars
    <3>1. UNCHANGED <<client, staged, patched, ops, pc, groups, effects>>
      BY <2>1 DEF vars, requestVars
    <3>2. FormInv' /\ LiveInv' /\ OpsInv'
      BY <1>2, <3>1 DEF PatchInv, FormInv, LiveInv, OpsInv
    <3>3. IsToldOfAll' <=> IsToldOfAll
      BY <3>1 DEF IsToldOfAll, TakesBack
    <3>4. ToldInv' /\ EffectsInv'
      BY <1>2, <3>1, <3>3 DEF PatchInv, ToldInv, EffectsInv
    <3> QED
      BY <3>2, <3>4 DEF PatchInv
  <2>2. CASE Next
    BY <1>2, <2>2, FormNext, LiveNext, OpsNext, ToldNext DEF PatchInv
  <2>3. Next \/ UNCHANGED vars
    BY <1>2 DEF ConfigurationsNext, PatchScene, EditScene, StoreScene, allVars
  <2> QED
    BY <2>1, <2>2, <2>3
<1> QED
  BY <1>1, <1>2

\* A widget that an event drives and that a patch built has been given its
\* value when the patch is over (UiController::ApplyPatchLocked): what the
\* operations report is what decides whether the state is published again.
THEOREM ToldHolds == ConfigurationsSpec => []BuiltIsTold
<1>1. PatchInv => BuiltIsTold
  <2> SUFFICES ASSUME PatchInv, pc = "idle", effects # <<>>, ~TakesBack, NEW root \in LiveRoots
               PROVE  RootIsTold(root)
    BY DEF BuiltIsTold, RootIsTold
  <2>1. GroupsShow(groups, staged) /\ \A s, r : IsShown(groups, s, r) => RootIsTold(r)
    BY DEF PatchInv, LiveInv, ToldInv, IsToldOfAll
  <2>2. PICK s \in UNION {ToSet(groups[g]) : g \in DOMAIN groups} : root \in ToSet(s.roots)
    BY DEF LiveRoots, Screens
  <2>3. IsShown(groups, s, root)
    BY <2>1, <2>2, ShownScreens
  <2> QED
    BY <2>1, <2>3
<1> QED
  BY <1>1, EffectsKept, PTL DEF ConfigurationsSpec

\* What the client is told is what became of the widgets: one it put that was
\* reported in place was not built again, and a screen with a root that was
\* built has an operation that says so (UiController::ApplyPatchLocked,
\* the effects of the operations).
THEOREM EffectsHold == ConfigurationsSpec => []EffectsAreTrue
<1>1. PatchInv => EffectsAreTrue
  <2> SUFFICES ASSUME PatchInv, pc # "failed", effects # <<>>, ~TakesBack PROVE EffectsAreTrue
    BY DEF EffectsAreTrue
  <2>1. GroupsShow(groups, staged) /\ \A s, r : IsShown(groups, s, r) => RootIsTrue(effects, s.id, r)
    BY DEF PatchInv, LiveInv, EffectsInv, IsToldOfAll
  <2>2. ASSUME NEW s \in Screens, NEW r \in DOMAIN s.roots PROVE RootIsTrue(effects, s.id, s.roots[r])
    <3>1. s \in UNION {ToSet(groups[g]) : g \in DOMAIN groups}
      BY DEF Screens
    <3>2. IsShown(groups, s, s.roots[r])
      BY <2>1, <3>1, ShownScreens
    <3> QED
      BY <2>1, <3>2
  <2>3. ASSUME NEW s \in Screens, NEW r \in DOMAIN s.roots
        PROVE  LET root == s.roots[r]
                   on == {e \in ToSet(effects) : OpScreen(e.op) = s.id}
                   isBuilt == root.tree[root.id].built
               IN /\ isBuilt =>
                        \E e \in on \union {f \in ToSet(effects) : f.effect = GroupRebuilt} : e.effect # InPlace
                  /\ \A e \in on : e.op.kind = "put_widget" /\ e.effect = InPlace /\ e.op.widget.id \in DOMAIN root.tree
                                   => ~isBuilt
    <3> DEFINE root == s.roots[r]
    <3>1. RootIsTrue(effects, s.id, root)
      BY <2>2
    <3> HIDE DEF root
    <3>2. LET on == {e \in ToSet(effects) : OpScreen(e.op) = s.id}
              isBuilt == root.tree[root.id].built
          IN /\ isBuilt =>
                   \E e \in on \union {f \in ToSet(effects) : f.effect = GroupRebuilt} : e.effect # InPlace
             /\ \A e \in on : e.op.kind = "put_widget" /\ e.effect = InPlace /\ e.op.widget.id \in DOMAIN root.tree
                              => ~isBuilt
      BY <3>1 DEF RootIsTrue
    <3> QED
      BY <3>2 DEF root
  <2> QED
    BY <2>3 DEF EffectsAreTrue
<1> QED
  BY <1>1, EffectsKept, PTL DEF ConfigurationsSpec
=============================================================================
