--------------------------- MODULE Dashboard_proofs ---------------------------
(*****************************************************************************)
(* The strategy page for any tickers, techniques, presets and findings, a    *)
(* list of any length and any number of gestures: the requests of the quant  *)
(* tab (ShownHonest, SentHonest), the list and what stands beside it         *)
(* (PageOK), and the saving of a strategy (SavingOK).                        *)
(*****************************************************************************)
EXTENDS Dashboard, FiniteSetTheorems, FunctionTheorems, TLAPS

(* The filters that are shown, and those of a request that was sent.         *)
ShownHonest == strategy # 1 => body = Preset(strategy)
SentHonest  == \A r \in asked : r.strategy # 1 => r.body = Preset(r.strategy)

LEMMA PresetSplit == ShownHonest /\ SentHonest <=> PresetIsItsFilters
<1> DEFINE now == [strategy |-> strategy, body |-> body]
<1>1. ShownHonest <=> (now.strategy # 1 => now.body = Preset(now.strategy))
  BY DEF ShownHonest
<1> QED BY <1>1 DEF PresetIsItsFilters, SentHonest

LEMMA PresetInit == Init => ShownHonest /\ SentHonest
<1> SUFFICES ASSUME Init PROVE ShownHonest /\ SentHonest
  OBVIOUS
<1>1. strategy = 0 /\ body = AllOff /\ asked = {}
  BY DEF Init, QuantInit
<1>2. Preset(0) = AllOff
  BY DEF Preset
<1> QED BY <1>1, <1>2 DEF ShownHonest, SentHonest

(* A step of the quant tab.                                                  *)
LEMMA PresetQuant ==
  ASSUME ShownHonest, SentHonest, QuantStep
  PROVE  ShownHonest' /\ SentHonest'
<1>1. ASSUME NEW p \in Offered, PressPreset(p) PROVE ShownHonest' /\ SentHonest'
  <2>1. strategy' = p /\ body' = Preset(p) /\ asked' = asked
    BY <1>1 DEF PressPreset
  <2> QED BY <2>1 DEF ShownHonest, SentHonest, Preset
<1>2. ASSUME NEW f \in Toggled, ToggleFilter(f) PROVE ShownHonest' /\ SentHonest'
  <2>1. strategy' = 1 /\ asked' = asked
    BY <1>2 DEF ToggleFilter
  <2> QED BY <2>1 DEF ShownHonest, SentHonest, Preset
<1>3. ASSUME NEW f \in Toggled, ToggleOperator(f) PROVE ShownHonest' /\ SentHonest'
  <2>1. strategy = 1 /\ strategy' = strategy /\ asked' = asked
    BY <1>3 DEF ToggleOperator, HasOperatorButton
  <2> QED BY <2>1 DEF ShownHonest, SentHonest, Preset
<1>4. ASSUME Request PROVE ShownHonest' /\ SentHonest'
  <2> DEFINE q == [at |-> gestures, strategy |-> strategy, body |-> body,
                   list |-> selected]
  <2>1. strategy' = strategy /\ body' = body /\ asked' = asked \union {q}
    BY <1>4 DEF Request
  <2>2. q.strategy # 1 => q.body = Preset(q.strategy)
    BY DEF ShownHonest
  <2>3. ASSUME NEW r \in asked', r.strategy # 1 PROVE r.body = Preset(r.strategy)
    BY <2>1, <2>2, <2>3 DEF SentHonest
  <2>4. SentHonest'
    BY <2>3 DEF SentHonest, Preset
  <2> QED BY <2>1, <2>4 DEF ShownHonest, Preset
<1>5. ASSUME NEW q \in asked,
             RequestFails(q) \/ \E found \in Findings : Answered(q, found)
      PROVE  ShownHonest' /\ SentHonest'
  <2>1. strategy' = strategy /\ body' = body /\ asked' \subseteq asked
    BY <1>5 DEF RequestFails, Answered
  <2> QED BY <2>1 DEF ShownHonest, SentHonest, Preset
<1> QED BY <1>1, <1>2, <1>3, <1>4, <1>5 DEF QuantStep

LEMMA PresetStep ==
  ASSUME ShownHonest, SentHonest, [Next]_vars
  PROVE  ShownHonest' /\ SentHonest'
<1>1. CASE QuantStep
  BY <1>1, PresetQuant
<1>2. CASE UNCHANGED quantVars
  BY <1>2 DEF quantVars, ShownHonest, SentHonest, Preset
<1> QED BY <1>1, <1>2 DEF Next, vars

(* A request that goes by the number of a preset sends its filters           *)
(* (handleToggleQSBodyValue, UniversalSettingTabQuantSearchVM.tsx:159).      *)
THEOREM PresetsAreTheirFilters == Spec => []PresetIsItsFilters
<1>1. Init => ShownHonest /\ SentHonest
  BY PresetInit
<1>2. ShownHonest /\ SentHonest /\ [Next]_vars => (ShownHonest /\ SentHonest)'
  BY PresetStep
<1>3. ShownHonest /\ SentHonest => PresetIsItsFilters
  BY PresetSplit
<1> QED BY <1>1, <1>2, <1>3, PTL DEF Spec


-----------------------------------------------------------------------------
(* The list: its positions and its settings                                  *)

(* What a step makes of the list has its settings from the list as it was,   *)
(* or new ones.                                                              *)
Carried ==
  \A i \in DOMAIN selected', j \in DOMAIN selected :
    selected'[i].ref = selected[j].ref => selected'[i].val = selected[j].val

ListOK ==
  /\ selected \in Seq(Items) /\ KnowsSettings(selected)
  /\ submits \in Nat /\ \A i \in DOMAIN selected : selected[i].ref <= submits

PlaceOK ==
  /\ panel \in Panels
  /\ panel \in Panels \ ButtonPanels => idx \in DOMAIN selected

LEMMA TypeParts ==
  TypeOK <=> /\ ListOK /\ PlaceOK /\ search \in Searches
             /\ entered \in Tickers \union {None}
             /\ tile \in [DOMAIN selected -> Tiles]
BY DEF TypeOK, ListOK, PlaceOK

LEMMA Positions ==
  ASSUME ListOK
  PROVE  /\ DOMAIN selected = 1 .. Len(selected) /\ Len(selected) \in Nat
         /\ \A i \in DOMAIN selected : selected[i] \in Items
BY DEF ListOK

LEMMA BareItem ==
  ASSUME NEW t \in Tickers
  PROVE  /\ Bare(t) \in Items /\ Bare(t).ref = 0 /\ Bare(t).val = "default"
         /\ Bare(t).tech = None /\ Bare(t).ticker = t
BY DEF Bare, Items

(* A list made of items of the old one and of items without settings.        *)
LEMMA FromTheList ==
  ASSUME ListOK, selected' \in Seq(Items), submits' = submits,
         \A i \in DOMAIN selected' :
           \/ \E j \in DOMAIN selected : selected'[i].ref = selected[j].ref
                                         /\ selected'[i].val = selected[j].val
           \/ selected'[i].ref = 0 /\ selected'[i].val = "default"
  PROVE  ListOK' /\ Carried
<1>1. \A i, j \in DOMAIN selected :
        /\ selected[i].ref = 0 => selected[i].val = "default"
        /\ selected[i].ref = selected[j].ref => selected[i].val = selected[j].val
  BY DEF ListOK, KnowsSettings
<1>2. Carried
  BY <1>1 DEF Carried
<1>3. KnowsSettings(selected')
  BY <1>1 DEF KnowsSettings
<1>4. \A i \in DOMAIN selected' : selected'[i].ref <= submits'
  <2> TAKE i \in DOMAIN selected'
  <2>1. CASE \E j \in DOMAIN selected : selected'[i].ref = selected[j].ref
    BY <2>1 DEF ListOK
  <2>2. CASE selected'[i].ref = 0
    BY <2>2 DEF ListOK
  <2> QED
    BY <2>1, <2>2
<1>5. ListOK'
  BY <1>3, <1>4 DEF ListOK, KnowsSettings
<1> QED
  BY <1>2, <1>5

LEMMA ListStays ==
  ASSUME ListOK, selected' = selected, submits' = submits
  PROVE  ListOK' /\ Carried /\ AddedTo
<1>1. ListOK' /\ Carried
  BY FromTheList DEF ListOK
<1> QED
  BY <1>1 DEF AddedTo

(* Tickers join the list at its end.                                         *)
LEMMA ListGrows ==
  ASSUME ListOK, submits' = submits, NEW more \in Seq(Tickers),
         selected' = selected \o Listed(more)
  PROVE  ListOK' /\ Carried /\ AddedTo
<1>1. Listed(more) \in Seq(Items)
  <2>1. \A k \in 1 .. Len(more) : Bare(more[k]) \in Items
    BY BareItem
  <2>2. DOMAIN more = 1 .. Len(more) /\ Len(more) \in Nat
    OBVIOUS
  <2>3. Listed(more) \in [1 .. Len(more) -> Items]
    BY <2>1, <2>2 DEF Listed
  <2> QED
    BY <2>2, <2>3
<1>2. /\ Len(Listed(more)) = Len(more)
      /\ \A k \in 1 .. Len(more) : Listed(more)[k] = Bare(more[k])
  BY <1>1 DEF Listed
<1>3. /\ selected \in Seq(Items) /\ selected' \in Seq(Items)
      /\ Len(selected') = Len(selected) + Len(more)
      /\ \A i \in 1 .. Len(selected) : selected'[i] = selected[i]
      /\ \A i \in 1 .. Len(selected') :
           i > Len(selected) => selected'[i] = Listed(more)[i - Len(selected)]
  <2>1. PICK s \in Seq(Items) : s = selected
    BY DEF ListOK
  <2>2. PICK l \in Seq(Items) : l = Listed(more)
    BY <1>1
  <2>3. selected' = s \o l
    BY <2>1, <2>2
  <2>4. /\ s \o l \in Seq(Items) /\ Len(s \o l) = Len(s) + Len(l)
        /\ \A i \in 1 .. Len(s) : (s \o l)[i] = s[i]
        /\ \A i \in 1 .. Len(s \o l) : i > Len(s) => (s \o l)[i] = l[i - Len(s)]
    OBVIOUS
  <2> QED
    BY <1>2, <2>1, <2>2, <2>3, <2>4
<1>4. ASSUME NEW i \in DOMAIN selected', i \notin DOMAIN selected
      PROVE  selected'[i].ref = 0 /\ selected'[i].val = "default"
  <2>1. i \in 1 .. Len(selected') /\ i > Len(selected)
    BY <1>3, <1>4
  <2>2. i - Len(selected) \in 1 .. Len(more)
    BY <1>3, <2>1
  <2>3. more[i - Len(selected)] \in Tickers
    BY <2>2
  <2>4. selected'[i] = Bare(more[i - Len(selected)])
    BY <1>2, <1>3, <2>1, <2>2
  <2> QED
    BY <2>3, <2>4, BareItem
<1>5. \A i \in DOMAIN selected : i \in DOMAIN selected' /\ selected'[i] = selected[i]
  BY <1>3
<1>6. ListOK' /\ Carried
  BY <1>3, <1>4, <1>5, FromTheList
<1> QED
  BY <1>5, <1>6 DEF AddedTo

LEMMA ListAppends ==
  ASSUME ListOK, submits' = submits, NEW t \in Tickers,
         selected' = Append(selected, Bare(t))
  PROVE  ListOK' /\ Carried /\ AddedTo
<1>1. /\ selected \in Seq(Items) /\ selected' \in Seq(Items)
      /\ Len(selected') = Len(selected) + 1
      /\ \A i \in 1 .. Len(selected) : selected'[i] = selected[i]
      /\ selected'[Len(selected) + 1] = Bare(t)
  BY BareItem DEF ListOK
<1>2. \A i \in DOMAIN selected : i \in DOMAIN selected' /\ selected'[i] = selected[i]
  BY <1>1
<1>3. ASSUME NEW i \in DOMAIN selected', i \notin DOMAIN selected
      PROVE  selected'[i] = Bare(t)
  <2>1. i = Len(selected) + 1
    BY <1>1, <1>3
  <2> QED
    BY <1>1, <2>1
<1>4. ListOK' /\ Carried
  BY <1>1, <1>2, <1>3, BareItem, FromTheList
<1> QED
  BY <1>2, <1>4 DEF AddedTo


-----------------------------------------------------------------------------
(* What is left when positions are taken out                                 *)

(* The places of some positions number them from 1, in their order.          *)
LEMMA Places ==
  ASSUME NEW n \in Nat, NEW kept \in SUBSET (1 .. n)
  PROVE  /\ IsFiniteSet(kept) /\ Cardinality(kept) \in Nat
         /\ \A i \in kept : Place(kept, i) \in 1 .. Cardinality(kept)
         /\ \A i, j \in kept : i < j => Place(kept, i) < Place(kept, j)
         /\ \A k \in 1 .. Cardinality(kept) : \E i \in kept : Place(kept, i) = k
<1> DEFINE c     == Cardinality(kept)
           UpTo(i) == {k \in kept : k <= i}
<1>1. IsFiniteSet(kept) /\ c \in Nat
  <2>1. IsFiniteSet(1 .. n)
    BY FS_Interval
  <2>2. IsFiniteSet(kept)
    BY <2>1, FS_Subset
  <2> QED
    BY <2>2, FS_CardinalityType
<1>2. \A i \in kept : IsFiniteSet(UpTo(i)) /\ Cardinality(UpTo(i)) \in Nat
                      /\ Cardinality(UpTo(i)) <= c
  <2> TAKE i \in kept
  <2>1. UpTo(i) \in SUBSET kept
    OBVIOUS
  <2> QED
    BY <1>1, <2>1, FS_Subset, FS_CardinalityType
<1>3. \A i \in kept : Place(kept, i) = Cardinality(UpTo(i))
  BY DEF Place
<1>4. \A i \in kept : Place(kept, i) \in 1 .. c
  <2> TAKE i \in kept
  <2>1. i \in UpTo(i)
    OBVIOUS
  <2>2. Cardinality(UpTo(i)) # 0
    BY <1>2, <2>1, FS_EmptySet
  <2> QED
    BY <1>1, <1>2, <1>3, <2>2
<1>5. ASSUME NEW i \in kept, NEW j \in kept, i < j
      PROVE  Place(kept, i) < Place(kept, j)
  <2>1. i \in Int /\ j \in Int /\ kept \subseteq Int
    OBVIOUS
  <2>2. UpTo(i) \subseteq UpTo(j) /\ j \in UpTo(j) /\ j \notin UpTo(i)
    <3>1. \A k \in kept : k <= i => k <= j
      BY <1>5, <2>1
    <3>2. j <= j /\ ~(j <= i)
      BY <1>5, <2>1
    <3> QED
      BY <3>1, <3>2
  <2>3. /\ Cardinality(UpTo(i)) <= Cardinality(UpTo(j))
        /\ Cardinality(UpTo(j)) = Cardinality(UpTo(i)) => UpTo(j) = UpTo(i)
    BY <1>2, <2>2, FS_Subset
  <2>4. Cardinality(UpTo(i)) # Cardinality(UpTo(j))
    BY <2>2, <2>3
  <2> HIDE DEF Up
  <2> QED
    BY <1>2, <1>3, <2>3, <2>4
<1> HIDE DEF Up
<1>6. ASSUME NEW k \in 1 .. c PROVE \E i \in kept : Place(kept, i) = k
  <2> DEFINE f == [i \in kept |-> Place(kept, i)]
             T == 1 .. c
  <2>1. f \in [kept -> T]
    BY <1>4
  <2>2. ASSUME NEW i \in kept, NEW j \in kept, f[i] = f[j] PROVE i = j
    <3>1. Place(kept, i) = Place(kept, j) /\ i \in Int /\ j \in Int
      BY <2>2
    <3>2. Place(kept, i) \in Int /\ Place(kept, j) \in Int
      BY <1>1, <1>4
    <3>3. ~(i < j) /\ ~(j < i)
      BY <1>5, <3>1, <3>2
    <3> QED
      BY <3>1, <3>3
  <2>3. f \in Injection(kept, T)
    BY <2>1, <2>2 DEF Injection, IsInjective
  <2>4. IsFiniteSet(T) /\ Cardinality(T) = c
    BY <1>1, FS_Interval
  <2> HIDE DEF f, T
  <2>5. f \in Surjection(kept, T)
    BY <2>3, <2>4, FS_Injection
  <2>6. \A t \in T : \E i \in kept : f[i] = t
    BY <2>5 DEF Surjection
  <2> QED
    BY <2>6 DEF f, T
<1> QED
  BY <1>1, <1>4, <1>5, <1>6

(* RemoveMultipleElements leaves the items of the other positions, each once *)
(* and in their order.                                                       *)
LEMMA WhatIsLeft ==
  ASSUME NEW S, NEW s \in Seq(S), NEW is
  PROVE  LET t == RemoveMultipleElements(s, is) IN
         /\ t \in Seq(S)
         /\ \E at \in [DOMAIN t -> DOMAIN s \ is] :
              /\ \A j, k \in DOMAIN t : j < k => at[j] < at[k]
              /\ \A i \in DOMAIN s \ is : \E k \in DOMAIN t : at[k] = i
              /\ \A k \in DOMAIN t : t[k] = s[at[k]]
<1> DEFINE t    == RemoveMultipleElements(s, is)
           kept == DOMAIN s \ is
           c    == Cardinality(kept)
           at   == [k \in 1 .. c |-> CHOOSE i \in kept : Place(kept, i) = k]
<1>1. DOMAIN s = 1 .. Len(s) /\ Len(s) \in Nat
  OBVIOUS
<1>2. /\ kept \in SUBSET (1 .. Len(s))
      /\ \A i \in kept : i \in 1 .. Len(s) /\ i \in Int
  BY <1>1
<1>3. /\ c \in Nat
      /\ \A i \in kept : Place(kept, i) \in 1 .. c
      /\ \A i, j \in kept : i < j => Place(kept, i) < Place(kept, j)
      /\ \A k \in 1 .. c : \E i \in kept : Place(kept, i) = k
  BY <1>1, <1>2, Places
<1>4. t = [k \in 1 .. c |-> s[at[k]]]
  BY DEF RemoveMultipleElements
<1> HIDE DEF t, kept
<1>5. \A k \in 1 .. c : at[k] \in kept /\ Place(kept, at[k]) = k
  BY <1>3
<1> HIDE DEF at
<1>6. at \in [1 .. c -> kept]
  BY <1>5 DEF at
<1> HIDE DEF c
<1>7. ASSUME NEW k \in 1 .. c PROVE s[at[k]] \in S
  <2>1. PICK i \in 1 .. Len(s) : i = at[k]
    BY <1>2, <1>5
  <2> QED
    BY <2>1
<1>8. t \in Seq(S) /\ DOMAIN t = 1 .. c
  <2>1. t \in [1 .. c -> S]
    BY <1>4, <1>7
  <2> QED
    BY <1>3, <2>1
<1>9. ASSUME NEW j \in 1 .. c, NEW k \in 1 .. c, j < k PROVE at[j] < at[k]
  <2>1. at[j] \in Int /\ at[k] \in Int /\ at[j] \in kept /\ at[k] \in kept
    BY <1>2, <1>5
  <2>2. Place(kept, at[j]) = j /\ Place(kept, at[k]) = k
    BY <1>5
  <2>3. at[j] # at[k] /\ ~(at[k] < at[j])
    BY <1>3, <1>9, <2>1, <2>2
  <2> QED
    BY <2>1, <2>3
<1>10. ASSUME NEW i \in kept PROVE \E k \in 1 .. c : at[k] = i
  <2>1. PICK k \in 1 .. c : k = Place(kept, i)
    BY <1>3
  <2>2. at[k] \in kept /\ Place(kept, at[k]) = Place(kept, i)
    BY <1>5, <2>1
  <2>3. at[k] \in Int /\ i \in Int /\ Place(kept, i) \in Int
    <3>1. at[k] \in Int /\ i \in Int
      BY <1>2, <2>2
    <3>2. Place(kept, i) \in Int
      BY <2>1
    <3> QED
      BY <3>1, <3>2
  <2>4. ~(at[k] < i) /\ ~(i < at[k])
    BY <1>3, <2>2, <2>3
  <2> QED
    BY <2>3, <2>4
<1>11. \A k \in 1 .. c : t[k] = s[at[k]]
  BY <1>4
<1>12. /\ at \in [DOMAIN t -> kept]
       /\ \A j, k \in DOMAIN t : j < k => at[j] < at[k]
       /\ \A i \in kept : \E k \in DOMAIN t : at[k] = i
       /\ \A k \in DOMAIN t : t[k] = s[at[k]]
  BY <1>6, <1>8, <1>9, <1>10, <1>11
<1> QED
  BY <1>8, <1>12 DEF t, kept


LEMMA ListThins ==
  ASSUME ListOK, submits' = submits,
         selected' = RemoveMultipleElements(selected, chosen)
  PROVE  ListOK' /\ Carried /\ ThinnedOut
<1>1. PICK s \in Seq(Items) : s = selected
  BY DEF ListOK
<1>2. selected' = RemoveMultipleElements(s, chosen)
  BY <1>1
<1>3. /\ selected' \in Seq(Items)
      /\ \E at \in [DOMAIN selected' -> DOMAIN s \ chosen] :
           /\ \A j, k \in DOMAIN selected' : j < k => at[j] < at[k]
           /\ \A i \in DOMAIN s \ chosen : \E k \in DOMAIN selected' : at[k] = i
           /\ \A k \in DOMAIN selected' : selected'[k] = s[at[k]]
  BY <1>2, WhatIsLeft
<1>4. ThinnedOut
  BY <1>1, <1>3 DEF ThinnedOut
<1>5. \A k \in DOMAIN selected' : \E j \in DOMAIN selected : selected'[k] = selected[j]
  <2> TAKE k \in DOMAIN selected'
  <2>1. PICK at \in [DOMAIN selected' -> DOMAIN s \ chosen] :
          \A m \in DOMAIN selected' : selected'[m] = s[at[m]]
    BY <1>3
  <2>2. at[k] \in DOMAIN selected /\ selected'[k] = selected[at[k]]
    BY <1>1, <2>1
  <2> QED
    BY <2>2
<1> QED
  BY <1>3, <1>4, <1>5, FromTheList

LEMMA ListApplies ==
  ASSUME ListOK, submits' = submits, idx \in DOMAIN selected, NEW t \in Techs,
         selected' = [selected EXCEPT ![idx] = [Bare(@.ticker) EXCEPT !.tech = t]]
  PROVE  ListOK' /\ Carried /\ AddedTo
<1> DEFINE new == [Bare(selected[idx].ticker) EXCEPT !.tech = t]
<1>1. /\ selected \in Seq(Items) /\ selected[idx] \in Items
      /\ selected' = [selected EXCEPT ![idx] = new]
  BY Positions DEF ListOK
<1>2. /\ new \in Items /\ new.ref = 0 /\ new.val = "default"
      /\ new.ticker = selected[idx].ticker
  BY <1>1 DEF Bare, Items
<1> HIDE DEF new
<1>3. selected' \in Seq(Items) /\ DOMAIN selected' = DOMAIN selected
  BY <1>1, <1>2
<1>4. \A i \in DOMAIN selected : selected'[i] = IF i = idx THEN new ELSE selected[i]
  BY <1>1
<1>5. ListOK' /\ Carried
  BY <1>2, <1>3, <1>4, FromTheList
<1> QED
  BY <1>2, <1>3, <1>4, <1>5 DEF AddedTo

LEMMA ListSubmits ==
  ASSUME ListOK, submits' = submits + 1, idx \in DOMAIN selected,
         NEW v \in {"default", "zero", "own"},
         selected' = [selected EXCEPT ![idx].val = v, ![idx].ref = submits']
  PROVE  ListOK' /\ Carried /\ AddedTo
<1>0. PICK r \in Nat : submits \in Nat /\ r = submits + 1 /\ r = submits'
  BY DEF ListOK
<1>1. /\ selected \in Seq(Items) /\ selected[idx] \in Items
      /\ selected' = [selected EXCEPT ![idx] =
                        [selected[idx] EXCEPT !.val = v, !.ref = r]]
  <2>1. selected \in Seq(Items) /\ selected[idx] \in Items
    BY Positions DEF ListOK
  <2>2. selected' = [selected EXCEPT ![idx].val = v, ![idx].ref = r]
    BY <1>0
  <2>3. PICK s \in Seq(Items) : s = selected
    BY <2>1
  <2>4. [s EXCEPT ![idx].val = v, ![idx].ref = r]
          = [s EXCEPT ![idx] = [s[idx] EXCEPT !.val = v, !.ref = r]]
    BY <2>1, <2>3 DEF Items
  <2> QED
    BY <2>1, <2>2, <2>3, <2>4
<1>2. PICK new \in Items : new = [selected[idx] EXCEPT !.val = v, !.ref = r]
  BY <1>0, <1>1 DEF Items
<1>3. /\ new.ref = r /\ new.val = v /\ new.ticker = selected[idx].ticker
  BY <1>1, <1>2 DEF Items
<1>4. /\ selected' \in Seq(Items) /\ DOMAIN selected' = DOMAIN selected
      /\ \A i \in DOMAIN selected :
           selected'[i] = IF i = idx THEN new ELSE selected[i]
  <2>1. PICK s \in Seq(Items) : s = selected
    BY <1>1
  <2>2. selected' = [s EXCEPT ![idx] = new] /\ idx \in DOMAIN s
    BY <1>1, <1>2, <2>1
  <2>3. /\ [s EXCEPT ![idx] = new] \in Seq(Items)
        /\ DOMAIN [s EXCEPT ![idx] = new] = DOMAIN s
        /\ \A i \in DOMAIN s :
             [s EXCEPT ![idx] = new][i] = IF i = idx THEN new ELSE s[i]
    BY <2>2
  <2> QED
    BY <2>1, <2>2, <2>3
<1>5. \A i \in DOMAIN selected : selected'[i] = IF i = idx THEN new ELSE selected[i]
  BY <1>4
<1>6. \A i \in DOMAIN selected : selected[i].ref \in Nat /\ selected[i].ref < r
  <2> TAKE i \in DOMAIN selected
  <2>1. selected[i].ref \in Nat /\ selected[i].ref <= submits
    BY Positions DEF ListOK, Items
  <2> QED
    BY <1>0, <2>1
<1>7. /\ new.ref # 0
      /\ \A i \in DOMAIN selected : new.ref # selected[i].ref
  BY <1>0, <1>3, <1>6
<1>8. \A i, j \in DOMAIN selected :
        /\ selected[i].ref = 0 => selected[i].val = "default"
        /\ selected[i].ref = selected[j].ref => selected[i].val = selected[j].val
  BY DEF ListOK, KnowsSettings
<1>9. ASSUME NEW i \in DOMAIN selected, NEW j \in DOMAIN selected
      PROVE  /\ selected'[i].ref = 0 => selected'[i].val = "default"
             /\ selected'[i].ref = selected'[j].ref
                  => selected'[i].val = selected'[j].val
             /\ selected'[i].ref = selected[j].ref
                  => selected'[i].val = selected[j].val
  <2>1. CASE i = idx
    <3>1. selected'[i] = new
      BY <1>5, <2>1
    <3>2. selected'[j] = new \/ selected'[j] = selected[j]
      BY <1>5
    <3> QED
      BY <1>7, <3>1, <3>2
  <2>2. CASE i # idx
    <3>1. selected'[i] = selected[i]
      BY <1>5, <2>2
    <3>2. CASE j = idx
      <4>1. selected'[j] = new
        BY <1>5, <3>2
      <4> QED
        BY <1>7, <1>8, <3>1, <4>1
    <3>3. CASE j # idx
      <4>1. selected'[j] = selected[j]
        BY <1>5, <3>3
      <4>2. selected[i].ref = 0 => selected[i].val = "default"
        BY <1>8
      <4>3. selected[i].ref = selected[j].ref
              => selected[i].val = selected[j].val
        BY <1>8
      <4> QED
        BY <3>1, <4>1, <4>2, <4>3
    <3> QED
      BY <3>2, <3>3
  <2> QED
    BY <2>1, <2>2
<1>10. \A i \in DOMAIN selected' : selected'[i].ref <= submits'
  <2> TAKE i \in DOMAIN selected'
  <2>1. selected'[i] = new \/ selected'[i] = selected[i]
    BY <1>4, <1>5
  <2> QED
    BY <1>0, <1>3, <1>4, <1>6, <2>1
<1>11. KnowsSettings(selected')
  BY <1>4, <1>9 DEF KnowsSettings
<1>12. ListOK'
  BY <1>0, <1>4, <1>10, <1>11 DEF ListOK, KnowsSettings
<1>13. Carried
  BY <1>4, <1>9 DEF Carried
<1>14. AddedTo
  BY <1>3, <1>4, <1>5 DEF AddedTo
<1> QED
  BY <1>12, <1>13, <1>14

-----------------------------------------------------------------------------
(* What stands beside the list                                               *)

(* A tile of a ticker with a technique is about that technique and those     *)
(* settings.                                                                 *)
TileOK(i) ==
  selected[i].tech # None =>
    /\ tile[i].of \in Items
    /\ [tile[i].of EXCEPT !.ticker = selected[i].ticker] = selected[i]
    /\ i \notin moved => tile[i].of = selected[i]

Advices ==
  [ticker : Tickers,
   of     : [Techs -> [ticker : Tickers, status : {"loading", "success", "error"}]]]

AdviceOK ==
  /\ panel # "trading" => advice = NoAdvice
  /\ advice # NoAdvice =>
       /\ advice \in Advices
       /\ advice.ticker = Current.ticker
       /\ \A t \in Techs : advice.of[t].ticker = advice.ticker

Forms == [tech : Techs, ref : Nat, val : {"default", "zero", "own", "bad"},
          typed : BOOLEAN]

(* The form is that of the ticker the panel is about.                        *)
FormOK ==
  /\ panel # "property" => form = NoForm
  /\ form # NoForm =>
       /\ form \in Forms /\ form.tech = Current.tech /\ form.ref = Current.ref
       /\ ~form.typed /\ form.tech \in Refreshed => form.val = Shown(Current.val)

Beside == (\A i \in DOMAIN selected : TileOK(i)) /\ AdviceOK /\ FormOK

LEMMA SameItem ==
  ASSUME NEW a \in Items, NEW b \in Items,
         a.tech = b.tech, a.val = b.val, a.ref = b.ref
  PROVE  [a EXCEPT !.ticker = b.ticker] = b
<1>1. a = [ticker |-> a.ticker, tech |-> a.tech, val |-> a.val, ref |-> a.ref]
  BY DEF Items
<1>2. b = [ticker |-> b.ticker, tech |-> b.tech, val |-> b.val, ref |-> b.ref]
  BY DEF Items
<1>3. [a EXCEPT !.ticker = b.ticker]
        = [ticker |-> b.ticker, tech |-> a.tech, val |-> a.val, ref |-> a.ref]
  BY <1>1
<1> QED
  BY <1>2, <1>3

LEMMA TilesFollow ==
  ASSUME ListOK, ListOK', Carried, tile \in [DOMAIN selected -> Tiles],
         \A i \in DOMAIN selected : TileOK(i),
         NEW ch, NEW ti, NEW se, Rerender(ch, ti, se)
  PROVE  /\ tile' \in [DOMAIN selected' -> Tiles]
         /\ \A i \in DOMAIN selected' : TileOK(i)'
<1>1. /\ tile' = [i \in DOMAIN selected' |-> IF Stays(i) THEN tile[i]
                                             ELSE Asks(selected'[i])]
      /\ moved' = {i \in DOMAIN selected' :
                     /\ Stays(i)
                     /\ i \in moved \/ selected'[i].ticker # selected[i].ticker}
  BY DEF Rerender
<1>2. \A i \in DOMAIN selected' : selected'[i] \in Items
  BY DEF ListOK
<1>3. \A i \in DOMAIN selected : selected[i] \in Items
  BY DEF ListOK
<1>4. \A x \in Items : Asks(x) \in Tiles /\ (x.tech # None => Asks(x).of = x)
  BY DEF Asks, Idle, Tiles
<1>5. tile' \in [DOMAIN selected' -> Tiles]
  BY <1>1, <1>2, <1>4 DEF Stays
<1>6. ASSUME NEW i \in DOMAIN selected', selected'[i].tech # None
      PROVE  /\ tile'[i].of \in Items
             /\ [tile'[i].of EXCEPT !.ticker = selected'[i].ticker] = selected'[i]
             /\ i \notin moved' => tile'[i].of = selected'[i]
  <2>1. CASE Stays(i)
    <3>1. /\ i \in DOMAIN selected /\ tile'[i] = tile[i]
          /\ selected[i].tech = selected'[i].tech
          /\ selected[i].ref = selected'[i].ref
      BY <1>1, <1>6, <2>1 DEF Stays, Reasked
    <3>2. selected[i].val = selected'[i].val
      BY <3>1 DEF Carried
    <3>3. /\ tile[i].of \in Items
          /\ [tile[i].of EXCEPT !.ticker = selected[i].ticker] = selected[i]
          /\ i \notin moved => tile[i].of = selected[i]
      BY <1>6, <3>1 DEF TileOK
    <3>4. /\ tile[i].of.tech = selected[i].tech
          /\ tile[i].of.val = selected[i].val
          /\ tile[i].of.ref = selected[i].ref
      <4>1. PICK o \in Items : o = tile[i].of
        BY <3>3
      <4>2. PICK t : t = selected[i].ticker
        OBVIOUS
      <4>3. /\ [o EXCEPT !.ticker = t].tech = o.tech
            /\ [o EXCEPT !.ticker = t].val = o.val
            /\ [o EXCEPT !.ticker = t].ref = o.ref
        BY DEF Items
      <4> QED
        BY <3>3, <4>1, <4>2, <4>3
    <3>5. [tile[i].of EXCEPT !.ticker = selected'[i].ticker] = selected'[i]
      BY <1>2, <3>1, <3>2, <3>3, <3>4, SameItem
    <3>6. ASSUME i \notin moved' PROVE tile'[i].of = selected'[i]
      <4>1. i \notin moved /\ selected'[i].ticker = selected[i].ticker
        BY <1>1, <2>1, <3>6
      <4>2. tile[i].of.ticker = selected'[i].ticker
        BY <3>3, <4>1
      <4>3. tile[i].of = [tile[i].of EXCEPT !.ticker = selected'[i].ticker]
        BY <3>3, <4>2 DEF Items
      <4> QED
        BY <3>1, <3>5, <4>3
    <3> QED
      BY <3>1, <3>3, <3>5, <3>6
  <2>2. CASE ~Stays(i)
    <3>1. tile'[i].of = selected'[i]
      BY <1>1, <1>2, <1>4, <1>6, <2>2
    <3> QED
      BY <1>2, <3>1, SameItem
  <2> QED
    BY <2>1, <2>2
<1>7. \A i \in DOMAIN selected' : TileOK(i)'
  BY <1>6 DEF TileOK
<1> QED
  BY <1>5, <1>7

LEMMA AdviceFollows ==
  ASSUME ListOK', PlaceOK', AdviceOK, NEW ch, NEW ti, NEW se, Rerender(ch, ti, se)
  PROVE  AdviceOK'
<1>1. advice' = IF panel' = "trading" THEN AdviceFor(Current'.ticker)
                                      ELSE NoAdvice
  BY DEF Rerender
<1>2. CASE panel' # "trading"
  BY <1>1, <1>2 DEF AdviceOK
<1>3. CASE panel' = "trading"
  <2>1. PICK x \in Items : x = Current'
    <3>1. idx' \in DOMAIN selected'
      BY <1>3 DEF PlaceOK, Panels, ButtonPanels
    <3>2. Current' = selected'[idx']
      BY <3>1 DEF Current
    <3> QED
      BY <3>1, <3>2 DEF ListOK
  <2>2. x.ticker \in Tickers /\ x.ticker # None
    BY EditorAssumption DEF Items
  <2>3. advice' = AdviceFor(x.ticker)
    BY <1>1, <1>3, <2>1
  <2>4. CASE x.ticker = advice.ticker
    <3>1. advice' = advice
      BY <2>3, <2>4 DEF AdviceFor
    <3>2. advice # NoAdvice
      BY <2>2, <2>4 DEF NoAdvice
    <3>3. /\ advice \in Advices
          /\ \A t \in Techs : advice.of[t].ticker = advice.ticker
      BY <3>2 DEF AdviceOK
    <3> QED
      BY <1>3, <2>1, <2>4, <3>1, <3>3 DEF AdviceOK, Advices
  <2>5. CASE x.ticker # advice.ticker
    <3>1. advice' = [ticker |-> x.ticker,
                     of |-> [t \in Techs |-> [ticker |-> x.ticker,
                                              status |-> "loading"]]]
      BY <2>2, <2>3, <2>5 DEF AdviceFor
    <3>2. /\ advice' \in Advices /\ advice'.ticker = x.ticker
          /\ \A t \in Techs : advice'.of[t].ticker = x.ticker
      BY <2>2, <3>1 DEF Advices
    <3> QED
      BY <1>3, <2>1, <3>2 DEF AdviceOK, Advices
  <2> QED
    BY <2>4, <2>5
<1> QED
  BY <1>2, <1>3

(* A form that is mounted shows the ticker's settings; one that stays is of  *)
(* the same settings object, which still has the value the form shows.       *)
LEMMA FormFollows ==
  ASSUME ListOK, PlaceOK, ListOK', PlaceOK', Carried, FormOK,
         NEW ch, NEW ti, NEW se, Rerender(ch, ti, se)
  PROVE  FormOK'
<1>1. form' = IF panel' = "property" THEN FormFor(Current') ELSE NoForm
  BY DEF Rerender
<1>2. CASE panel' # "property"
  BY <1>1, <1>2 DEF FormOK
<1>3. CASE panel' = "property"
  <2>1. idx' \in DOMAIN selected' /\ Current' = selected'[idx']
    <3>1. idx' \in DOMAIN selected'
      BY <1>3 DEF PlaceOK, Panels, ButtonPanels
    <3> QED
      BY <3>1 DEF Current
  <2>2. PICK x \in Items : x = Current'
    BY <2>1 DEF ListOK
  <2>3. form' = FormFor(x)
    BY <1>1, <1>3, <2>2
  <2>4. /\ x.tech \in Techs \union {None} /\ x.ref \in Nat
        /\ Shown(x.val) \in {"default", "zero", "own", "bad"}
    BY DEF Items, Shown
  <2>5. CASE x.tech = None
    <3>1. form' = NoForm
      BY <2>3, <2>5, EditorAssumption DEF FormFor, Refreshed, Techniques
    <3> QED
      BY <1>3, <3>1 DEF FormOK, NoForm
  <2>6. CASE x.tech # None /\ form' = Mounted(x)
    <3>1. /\ form' \in Forms /\ form'.tech = x.tech /\ form'.ref = x.ref
          /\ form'.val = Shown(x.val)
      BY <2>4, <2>6 DEF Mounted, Forms
    <3> QED
      BY <1>3, <2>2, <3>1 DEF FormOK, Forms, Refreshed, Shown
  <2>7. CASE /\ x.tech # None /\ form' # Mounted(x)
    <3>1. /\ form' = [form EXCEPT !.ref = x.ref] /\ form.tech = x.tech
          /\ x.tech \in Refreshed => x.ref = form.ref
      BY <2>3, <2>7 DEF FormFor
    <3>2. form # NoForm
      BY <2>7, <3>1 DEF NoForm
    <3>3. /\ form \in Forms /\ form.tech = Current.tech /\ form.ref = Current.ref
          /\ ~form.typed /\ form.tech \in Refreshed
               => form.val = Shown(Current.val)
          /\ panel = "property"
      BY <3>2 DEF FormOK
    <3>4. idx \in DOMAIN selected /\ Current = selected[idx]
      BY <3>3 DEF PlaceOK, Panels, ButtonPanels, Current
    <3>5. /\ form' \in Forms /\ form'.tech = x.tech /\ form'.ref = x.ref
          /\ form'.val = form.val /\ form'.typed = form.typed
      <4>1. PICK f \in Forms : f = form
        BY <3>3
      <4>2. form' = [f EXCEPT !.ref = x.ref] /\ f.tech = x.tech
        BY <3>1, <4>1
      <4> QED
        BY <2>4, <4>1, <4>2 DEF Forms
    <3>6. ASSUME ~form'.typed, form'.tech \in Refreshed
          PROVE  form'.val = Shown(x.val)
      <4>1. x.ref = selected[idx].ref /\ form.val = Shown(selected[idx].val)
        BY <3>1, <3>3, <3>4, <3>5, <3>6
      <4>2. x.val = selected[idx].val
        BY <2>1, <2>2, <3>4, <4>1 DEF Carried
      <4> QED
        BY <3>5, <4>1, <4>2
    <3> QED
      BY <1>3, <2>2, <3>5, <3>6 DEF FormOK, Forms, Refreshed, Shown
  <2> QED
    BY <2>5, <2>6, <2>7
<1> QED
  BY <1>2, <1>3

-----------------------------------------------------------------------------
(* The steps of the page                                                     *)

(* The inductive invariant of the page.                                      *)
PageOK == TypeOK /\ Beside /\ DeletesOnlyTicked

(* What is left to show of a step after which the page is drawn again.       *)
LEMMA Redrawn ==
  ASSUME PageOK, ListOK', PlaceOK', Carried,
         entered' \in Tickers \union {None},
         NEW ch, NEW ti, NEW se \in Searches, Rerender(ch, ti, se),
         \A i \in ch : i \in DOMAIN selected' /\ <<i, selected'[i].ticker>> \in ti
  PROVE  PageOK'
<1>1. /\ ListOK /\ PlaceOK /\ AdviceOK /\ FormOK
      /\ tile \in [DOMAIN selected -> Tiles]
      /\ \A i \in DOMAIN selected : TileOK(i)
  BY TypeParts DEF PageOK, Beside
<1>2. Beside' /\ tile' \in [DOMAIN selected' -> Tiles]
  BY <1>1, TilesFollow, AdviceFollows, FormFollows DEF Beside
<1>3. search' \in Searches
  <2>1. FreshSearch \in Searches
    BY EditorAssumption DEF FreshSearch, Searches
  <2> QED
    BY <2>1 DEF Rerender
<1>4. TypeOK'
  BY <1>2, <1>3 DEF TypeOK, ListOK, PlaceOK, KnowsSettings, Searches, Tiles,
     Items, Panels, ButtonPanels, Techniques
<1>5. DeletesOnlyTicked'
  <2>1. CASE panel' = "universal" /\ tab' = "search"
    <3>1. /\ chosen' = ch
          /\ ticked' = ti \intersect
                         {<<i, selected'[i].ticker>> : i \in DOMAIN selected'}
      BY <2>1 DEF Rerender
    <3> QED
      BY <3>1 DEF DeletesOnlyTicked
  <2>2. CASE ~(panel' = "universal" /\ tab' = "search")
    <3>1. chosen' = {}
      BY <2>2 DEF Rerender
    <3> QED
      BY <3>1 DEF DeletesOnlyTicked
  <2> QED
    BY <2>1, <2>2
<1> QED
  BY <1>2, <1>4, <1>5 DEF PageOK

(* Nothing that is added moves a position that is chosen.                    *)
LEMMA RedrawnLonger ==
  ASSUME PageOK, ListOK', PlaceOK', Carried, AddedTo,
         entered' \in Tickers \union {None},
         NEW se \in Searches, Rerender(chosen, ticked, se)
  PROVE  PageOK'
<1>1. \A i \in chosen :
        i \in DOMAIN selected' /\ <<i, selected'[i].ticker>> \in ticked
  BY DEF PageOK, DeletesOnlyTicked, AddedTo
<1> QED
  BY <1>1, Redrawn

LEMMA PageParts ==
  ASSUME PageOK
  PROVE  /\ ListOK /\ PlaceOK /\ AdviceOK /\ FormOK
         /\ search \in Searches /\ entered \in Tickers \union {None}
         /\ tile \in [DOMAIN selected -> Tiles]
         /\ \A i \in DOMAIN selected : TileOK(i)
BY TypeParts DEF PageOK, Beside

LEMMA StaysInPlace ==
  ASSUME PlaceOK, AddedTo, idx' = idx, panel' = panel
  PROVE  PlaceOK'
BY DEF PlaceOK, AddedTo, Panels, ButtonPanels

(* Another panel, another tab or another ticker is shown.                    *)
LEMMA PageShows ==
  ASSUME PageOK, UNCHANGED <<selected, entered, submits>>, Keep, PlaceOK'
  PROVE  PageOK' /\ AddedTo
<1>1. ListOK' /\ Carried /\ AddedTo
  BY PageParts, ListStays
<1>2. search \in Searches /\ entered' \in Tickers \union {None}
  BY PageParts
<1> QED
  BY <1>1, <1>2, RedrawnLonger DEF Keep

LEMMA PageShow ==
  ASSUME PageOK, NEW p \in Panels, Show(p)
  PROVE  PageOK' /\ AddedTo
<1>1. panel' = p /\ p \in ButtonPanels
  BY DEF Show
<1>2. PlaceOK'
  BY <1>1 DEF PlaceOK, Panels, ButtonPanels
<1> QED
  BY <1>2, PageShows DEF Show

LEMMA PageShowTab ==
  ASSUME PageOK, NEW t, ShowTab(t)
  PROVE  PageOK' /\ AddedTo
<1>1. PlaceOK'
  BY DEF ShowTab, PlaceOK, Panels, ButtonPanels
<1> QED
  BY <1>1, PageShows DEF ShowTab

LEMMA PageClickTile ==
  ASSUME PageOK, NEW i \in DOMAIN selected, NEW p \in {"trading", "property"},
         ClickTile(i, p)
  PROVE  PageOK' /\ AddedTo
<1>1. PlaceOK'
  BY DEF ClickTile, PlaceOK, Panels, ButtonPanels
<1> QED
  BY <1>1, PageShows DEF ClickTile

-----------------------------------------------------------------------------
(* The search *)

LEMMA SearchParts ==
  ASSUME search \in Searches
  PROVE  /\ search.text \in Terms /\ search.term \in Terms
         /\ search.hits \in Seq(Tickers)
         /\ \A t \in Terms : /\ Hits[t] \in Seq(Tickers)
                             /\ Applied(t) \in Searches
                             /\ [search EXCEPT !.text = t] \in Searches
                             /\ [search EXCEPT !.hits = Hits[t]] \in Searches
<1>1. /\ search.text \in Terms /\ search.term \in Terms
      /\ search.hits \in Seq(Tickers)
  BY DEF Searches
<1>2. \A t \in Terms : Hits[t] \in Seq(Tickers)
  BY EditorAssumption
<1>3. \A t \in Terms : KeptResults(t) \in Seq(Tickers)
  BY <1>1, <1>2 DEF KeptResults
<1>4. \A t \in Terms : Applied(t) \in Searches
  BY <1>3 DEF Applied, Searches
<1>5. \A t \in Terms : /\ [search EXCEPT !.text = t] \in Searches
                       /\ [search EXCEPT !.hits = Hits[t]] \in Searches
  BY <1>2 DEF Searches
<1> QED
  BY <1>1, <1>2, <1>4, <1>5

LEMMA PageTypeTerm ==
  ASSUME PageOK, NEW t \in Terms, TypeTerm(t)
  PROVE  PageOK' /\ AddedTo
<1>1. /\ UNCHANGED <<selected, idx, panel, tab, submits>>
      /\ entered' \in {entered, None}
      /\ Rerender(chosen, ticked, [search EXCEPT !.text = t])
  BY DEF TypeTerm
<1>2. ListOK' /\ Carried /\ AddedTo
  BY <1>1, PageParts, ListStays
<1>3. PlaceOK' /\ entered' \in Tickers \union {None}
  BY <1>1, <1>2, PageParts, StaysInPlace
<1>4. [search EXCEPT !.text = t] \in Searches
  BY PageParts, SearchParts
<1> QED
  BY <1>1, <1>2, <1>3, <1>4, RedrawnLonger

LEMMA PageSettle ==
  ASSUME PageOK, Settle
  PROVE  PageOK' /\ AddedTo
<1>1. /\ UNCHANGED <<selected, idx, panel, tab, entered, submits>>
      /\ Rerender(chosen, ticked, Applied(search.text))
  BY DEF Settle
<1>2. ListOK' /\ Carried /\ AddedTo
  BY <1>1, PageParts, ListStays
<1>3. PlaceOK' /\ entered' \in Tickers \union {None}
  BY <1>1, <1>2, PageParts, StaysInPlace
<1>4. Applied(search.text) \in Searches
  BY PageParts, SearchParts
<1> QED
  BY <1>1, <1>2, <1>3, <1>4, RedrawnLonger

(* What leaves the list and what stands beside it alone.                     *)
LEMMA PageRests ==
  ASSUME PageOK, UNCHANGED <<selected, idx, panel, tab, localVars, submits>>,
         entered' \in Tickers \union {None}
  PROVE  PageOK' /\ AddedTo
<1>1. UNCHANGED <<selected, idx, panel, chosen, ticked, search, form, tile,
                  advice, moved, submits>>
  BY DEF localVars
<1>2. TypeOK'
  BY <1>1 DEF PageOK, TypeOK, KnowsSettings, Panels, ButtonPanels, Searches,
     Tiles, Items, Techniques
<1>3. AdviceOK'
  BY <1>1, PageParts DEF AdviceOK, Advices, Current, Bare
<1>4. FormOK'
  BY <1>1, PageParts DEF FormOK, Forms, Current, Bare, Shown, Refreshed
<1>5. \A i \in DOMAIN selected' : TileOK(i)'
  BY <1>1, PageParts DEF TileOK
<1>6. DeletesOnlyTicked'
  BY <1>1 DEF PageOK, DeletesOnlyTicked
<1> QED
  BY <1>1, <1>2, <1>3, <1>4, <1>5, <1>6 DEF PageOK, Beside, AddedTo

LEMMA PagePressEnter ==
  ASSUME PageOK, PressEnter
  PROVE  PageOK' /\ AddedTo
<1>1. /\ UNCHANGED <<selected, idx, panel, tab, localVars, submits>>
      /\ search.hits # <<>> /\ entered' = search.hits[1]
  BY DEF PressEnter
<1>2. entered' \in Tickers
  <2>1. PICK h \in Seq(Tickers) : h = search.hits
    BY PageParts, SearchParts
  <2>2. h # <<>> => h[1] \in Tickers
    OBVIOUS
  <2> QED
    BY <1>1, <2>1, <2>2
<1> QED
  BY <1>1, <1>2, PageRests

LEMMA PageEnterFires ==
  ASSUME PageOK, EnterFires
  PROVE  PageOK' /\ AddedTo
<1>1. /\ entered \in Tickers /\ selected' = Append(selected, Bare(entered))
      /\ entered' = None /\ UNCHANGED <<idx, panel, submits>>
      /\ Rerender(chosen, ticked, Applied(""))
  BY PageParts DEF EnterFires
<1>2. ListOK' /\ Carried /\ AddedTo
  BY <1>1, PageParts, ListAppends
<1>3. PlaceOK' /\ entered' \in Tickers \union {None}
  BY <1>1, <1>2, PageParts, StaysInPlace
<1>4. Applied("") \in Searches
  BY PageParts, SearchParts, EditorAssumption
<1> QED
  BY <1>1, <1>2, <1>3, <1>4, RedrawnLonger

LEMMA PageSelect ==
  ASSUME PageOK, NEW k, Select(k)
  PROVE  PageOK' /\ AddedTo
<1>1. /\ k \in DOMAIN Hits[search.term]
      /\ selected' = Append(selected, Bare(Hits[search.term][k]))
      /\ UNCHANGED <<idx, panel, entered, submits>>
      /\ Rerender(chosen, ticked, [search EXCEPT !.hits = Hits[search.term]])
  BY DEF Select
<1>2. Hits[search.term][k] \in Tickers
  <2>1. PICK h \in Seq(Tickers) : h = Hits[search.term]
    BY PageParts, SearchParts
  <2>2. \A j \in DOMAIN h : h[j] \in Tickers
    OBVIOUS
  <2> QED
    BY <1>1, <2>1, <2>2
<1>3. ListOK' /\ Carried /\ AddedTo
  BY <1>1, <1>2, PageParts, ListAppends
<1>4. PlaceOK' /\ entered' \in Tickers \union {None}
  BY <1>1, <1>3, PageParts, StaysInPlace
<1>5. [search EXCEPT !.hits = Hits[search.term]] \in Searches
  BY PageParts, SearchParts
<1> QED
  BY <1>1, <1>3, <1>4, <1>5, RedrawnLonger

(* A tick goes with its position.                                            *)
LEMMA PageTick ==
  ASSUME PageOK, NEW i \in DOMAIN selected, Tick(i)
  PROVE  PageOK' /\ AddedTo
<1> DEFINE box == <<i, selected[i].ticker>>
<1>1. /\ UNCHANGED <<selected, idx, panel, tab, entered, submits>>
      /\ \/ Rerender(chosen \ {i}, ticked \ {box}, search)
         \/ Rerender(chosen \union {i}, ticked \union {box}, search)
  BY DEF Tick
<1>2. ListOK' /\ Carried /\ AddedTo
  BY <1>1, PageParts, ListStays
<1>3. PlaceOK' /\ entered' \in Tickers \union {None} /\ search \in Searches
  BY <1>1, <1>2, PageParts, StaysInPlace
<1>4. \A j \in chosen : j \in DOMAIN selected' /\ <<j, selected'[j].ticker>> \in ticked
  BY <1>1 DEF PageOK, DeletesOnlyTicked
<1>5. CASE Rerender(chosen \ {i}, ticked \ {box}, search)
  <2>1. \A j \in chosen \ {i} : /\ j \in DOMAIN selected'
                                /\ <<j, selected'[j].ticker>> \in ticked \ {box}
    BY <1>4
  <2> QED
    BY <1>2, <1>3, <1>5, <2>1, Redrawn
<1>6. CASE Rerender(chosen \union {i}, ticked \union {box}, search)
  <2>1. \A j \in chosen \union {i} :
          /\ j \in DOMAIN selected'
          /\ <<j, selected'[j].ticker>> \in ticked \union {box}
    BY <1>1, <1>4
  <2> QED
    BY <1>2, <1>3, <1>6, <2>1, Redrawn
<1> QED
  BY <1>1, <1>2, <1>5, <1>6

LEMMA PageDelete ==
  ASSUME PageOK, Delete
  PROVE  PageOK' /\ ThinnedOut
<1>1. /\ panel = "universal" /\ UNCHANGED <<panel, entered, submits>>
      /\ selected' = RemoveMultipleElements(selected, chosen)
      /\ Rerender({}, ticked, search)
  BY DEF Delete, Searching
<1>2. ListOK' /\ Carried /\ ThinnedOut
  BY <1>1, PageParts, ListThins
<1>3. PlaceOK' /\ entered' \in Tickers \union {None} /\ search \in Searches
  BY <1>1, PageParts DEF PlaceOK, Panels, ButtonPanels
<1> QED
  BY <1>1, <1>2, <1>3, Redrawn

-----------------------------------------------------------------------------
(* Techniques, settings and figures *)

LEMMA PageApplyTechnical ==
  ASSUME PageOK, NEW t \in Techs, ApplyTechnical(t)
  PROVE  PageOK' /\ AddedTo
<1>1. /\ idx \in DOMAIN selected /\ UNCHANGED <<idx, panel, entered, submits>>
      /\ selected' = [selected EXCEPT ![idx] =
                        [Bare(@.ticker) EXCEPT !.tech = t]]
      /\ Rerender(chosen, ticked, search)
  BY DEF ApplyTechnical, Keep
<1>2. ListOK' /\ Carried /\ AddedTo
  BY <1>1, PageParts, ListApplies
<1>3. PlaceOK' /\ entered' \in Tickers \union {None} /\ search \in Searches
  BY <1>1, <1>2, PageParts, StaysInPlace
<1> QED
  BY <1>1, <1>2, <1>3, RedrawnLonger

LEMMA PageSubmit ==
  ASSUME PageOK, Submit
  PROVE  PageOK' /\ AddedTo
<1>1. /\ form # NoForm /\ form.val # "bad" /\ submits' = submits + 1
      /\ UNCHANGED <<idx, panel, entered>> /\ Rerender(chosen, ticked, search)
      /\ selected' = [selected EXCEPT ![idx].val = form.val,
                                      ![idx].ref = submits']
  BY DEF Submit, Keep
<1>2. /\ idx \in DOMAIN selected
      /\ form.val \in {"default", "zero", "own"}
  BY <1>1, PageParts DEF FormOK, PlaceOK, Panels, ButtonPanels, Forms
<1>3. ListOK' /\ Carried /\ AddedTo
  BY <1>1, <1>2, PageParts, ListSubmits
<1>4. PlaceOK' /\ entered' \in Tickers \union {None} /\ search \in Searches
  BY <1>1, <1>3, PageParts, StaysInPlace
<1> QED
  BY <1>1, <1>3, <1>4, RedrawnLonger

LEMMA PageTypeValue ==
  ASSUME PageOK, NEW v \in {"own", "bad", "zero"}, TypeValue(v)
  PROVE  PageOK' /\ AddedTo
<1>1. /\ UNCHANGED <<selected, idx, panel, chosen, ticked, search, entered, tile,
                     advice, submits, moved>>
      /\ form # NoForm /\ form' = [form EXCEPT !.val = v, !.typed = TRUE]
  BY DEF TypeValue
<1>2. TypeOK'
  BY <1>1 DEF PageOK, TypeOK, KnowsSettings, Panels, ButtonPanels, Searches,
     Tiles, Items, Techniques
<1>3. AdviceOK'
  BY <1>1, PageParts DEF AdviceOK, Advices, Current, Bare
<1>4. FormOK'
  <2>1. /\ form \in Forms /\ form.tech = Current.tech /\ form.ref = Current.ref
        /\ panel = "property"
    BY <1>1, PageParts DEF FormOK
  <2>2. /\ form' \in Forms /\ form'.tech = form.tech /\ form'.ref = form.ref
        /\ form'.typed = TRUE
    BY <1>1, <2>1 DEF Forms
  <2>3. Current' = Current
    BY <1>1 DEF Current, Bare
  <2>4. panel' = "property" /\ form'.tech = Current'.tech /\ form'.ref = Current'.ref
    BY <1>1, <2>1, <2>2, <2>3
  <2> QED
    BY <2>2, <2>4 DEF FormOK, Forms
<1>5. \A i \in DOMAIN selected' : TileOK(i)'
  BY <1>1, PageParts DEF TileOK
<1>6. DeletesOnlyTicked'
  BY <1>1 DEF PageOK, DeletesOnlyTicked
<1> QED
  BY <1>1, <1>2, <1>3, <1>4, <1>5, <1>6 DEF PageOK, Beside, AddedTo

(* An answer changes what a tile says of its request, not what it asked for. *)
LEMMA PageTileAnswered ==
  ASSUME PageOK, NEW i \in DOMAIN selected, NEW status \in {"success", "error"},
         TileAnswered(i, status)
  PROVE  PageOK' /\ AddedTo
<1>1. /\ UNCHANGED <<selected, idx, panel, chosen, ticked, search, entered, form,
                     advice, submits, moved>>
      /\ tile' = [tile EXCEPT ![i].status = status]
  BY DEF TileAnswered
<1>2. /\ tile' \in [DOMAIN selected -> Tiles]
      /\ \A k \in DOMAIN selected : tile'[k].of = tile[k].of
  <2>1. PICK f \in [DOMAIN selected -> Tiles] : f = tile
    BY PageParts
  <2>2. tile' = [f EXCEPT ![i] = [f[i] EXCEPT !.status = status]]
    BY <1>1, <2>1
  <2>3. [f[i] EXCEPT !.status = status] \in Tiles
        /\ [f[i] EXCEPT !.status = status].of = f[i].of
    BY DEF Tiles
  <2> QED
    BY <2>1, <2>2, <2>3
<1>3. TypeOK'
  BY <1>1, <1>2 DEF PageOK, TypeOK, KnowsSettings, Panels, ButtonPanels, Searches,
     Tiles, Items, Techniques
<1>4. AdviceOK'
  BY <1>1, PageParts DEF AdviceOK, Advices, Current, Bare
<1>5. FormOK'
  BY <1>1, PageParts DEF FormOK, Forms, Current, Bare, Shown, Refreshed
<1>6. \A k \in DOMAIN selected' : TileOK(k)'
  BY <1>1, <1>2, PageParts DEF TileOK
<1>7. DeletesOnlyTicked'
  BY <1>1 DEF PageOK, DeletesOnlyTicked
<1> QED
  BY <1>1, <1>3, <1>4, <1>5, <1>6, <1>7 DEF PageOK, Beside, AddedTo

LEMMA PageAdviceAnswered ==
  ASSUME PageOK, NEW t \in Techs, NEW status \in {"success", "error"},
         AdviceAnswered(t, status)
  PROVE  PageOK' /\ AddedTo
<1>1. /\ UNCHANGED <<selected, idx, panel, chosen, ticked, search, entered, form,
                     tile, submits, moved>>
      /\ advice # NoAdvice /\ advice' = [advice EXCEPT !.of[t].status = status]
  BY DEF AdviceAnswered
<1>2. TypeOK'
  BY <1>1 DEF PageOK, TypeOK, KnowsSettings, Panels, ButtonPanels, Searches,
     Tiles, Items, Techniques
<1>3. AdviceOK'
  <2>1. /\ advice \in Advices /\ advice.ticker = Current.ticker
        /\ \A u \in Techs : advice.of[u].ticker = advice.ticker
        /\ panel = "trading"
    BY <1>1, PageParts DEF AdviceOK
  <2>2. PICK a \in Advices : a = advice
    BY <2>1
  <2>3. /\ a.ticker \in Tickers
        /\ a.of \in [Techs -> [ticker : Tickers,
                               status : {"loading", "success", "error"}]]
        /\ a = [ticker |-> a.ticker, of |-> a.of]
    BY DEF Advices
  <2>4. PICK of : of = [a.of EXCEPT ![t] = [a.of[t] EXCEPT !.status = status]]
    OBVIOUS
  <2>5. /\ of \in [Techs -> [ticker : Tickers,
                             status : {"loading", "success", "error"}]]
        /\ \A u \in Techs : of[u].ticker = a.of[u].ticker
    <3>1. PICK x \in [ticker : Tickers, status : {"loading", "success", "error"}] :
            x = a.of[t]
      BY <2>3
    <3>2. PICK y : y = [x EXCEPT !.status = status]
      OBVIOUS
    <3>3. /\ y \in [ticker : Tickers, status : {"loading", "success", "error"}]
          /\ y.ticker = x.ticker
      BY <3>2
    <3>4. of = [a.of EXCEPT ![t] = y]
      BY <2>4, <3>1, <3>2
    <3> QED
      BY <2>3, <3>1, <3>3, <3>4
  <2>6. advice' = [a EXCEPT !.of = of]
    BY <1>1, <2>2, <2>4
  <2>7. advice' = [ticker |-> a.ticker, of |-> of]
    BY <2>3, <2>6
  <2>8. advice' \in Advices /\ advice'.ticker = a.ticker /\ advice'.of = of
    BY <2>3, <2>5, <2>7 DEF Advices
  <2>9. Current' = Current
    BY <1>1 DEF Current, Bare
  <2>10. /\ panel' = "trading" /\ advice'.ticker = Current'.ticker
         /\ \A u \in Techs : advice'.of[u].ticker = advice'.ticker
    BY <1>1, <2>1, <2>2, <2>5, <2>8, <2>9
  <2> QED
    BY <2>8, <2>10 DEF AdviceOK, Advices
<1>4. FormOK'
  BY <1>1, PageParts DEF FormOK, Forms, Current, Bare, Shown, Refreshed
<1>5. \A k \in DOMAIN selected' : TileOK(k)'
  BY <1>1, PageParts DEF TileOK
<1>6. DeletesOnlyTicked'
  BY <1>1 DEF PageOK, DeletesOnlyTicked
<1> QED
  BY <1>1, <1>2, <1>3, <1>4, <1>5, <1>6 DEF PageOK, Beside, AddedTo

LEMMA PageEditor ==
  ASSUME PageOK, EditorStep
  PROVE  PageOK' /\ (AddedTo \/ ThinnedOut)
<1>1. CASE \E p \in Panels : Show(p)
  BY <1>1, PageShow
<1>2. CASE \E t \in {"search", "quant"} : ShowTab(t)
  BY <1>2, PageShowTab
<1>3. CASE \E i \in DOMAIN selected, p \in {"trading", "property"} : ClickTile(i, p)
  BY <1>3, PageClickTile
<1>4. CASE \E t \in Terms : TypeTerm(t)
  BY <1>4, PageTypeTerm
<1>5. CASE Settle \/ PressEnter \/ EnterFires \/ Submit
  BY <1>5, PageSettle, PagePressEnter, PageEnterFires, PageSubmit
<1>6. CASE \E k \in 1 .. 2 : Select(k)
  BY <1>6, PageSelect
<1>7. CASE \E i \in DOMAIN selected : Tick(i)
  BY <1>7, PageTick
<1>8. CASE Delete
  BY <1>8, PageDelete
<1>9. CASE \E t \in Techs : ApplyTechnical(t)
  BY <1>9, PageApplyTechnical
<1>10. CASE \E v \in {"own", "bad", "zero"} : TypeValue(v)
  BY <1>10, PageTypeValue
<1>11. CASE \E i \in DOMAIN selected, s \in {"success", "error"} : TileAnswered(i, s)
  BY <1>11, PageTileAnswered
<1>12. CASE \E t \in Techs, s \in {"success", "error"} : AdviceAnswered(t, s)
  BY <1>12, PageAdviceAnswered
<1> QED
  BY <1>1, <1>2, <1>3, <1>4, <1>5, <1>6, <1>7, <1>8, <1>9, <1>10, <1>11, <1>12
     DEF EditorStep

(* The quant tab adds what it finds at the end of the list as it is by then. *)
LEMMA PageQuant ==
  ASSUME PageOK, QuantStep
  PROVE  PageOK' /\ AddedTo
<1>1. CASE /\ UNCHANGED <<selected, idx, panel, tab, localVars, submits, entered>>
  BY <1>1, PageRests, PageParts
<1>2. ASSUME NEW q \in asked, NEW found \in Findings, Answered(q, found)
      PROVE  PageOK' /\ AddedTo
  <2>1. /\ found \in Seq(Tickers) /\ selected' = selected \o Listed(found)
        /\ UNCHANGED <<idx, panel, entered, submits>>
        /\ Rerender(chosen, ticked, search)
    BY <1>2, FindingsAssumption DEF Answered, Keep
  <2>2. ListOK' /\ Carried /\ AddedTo
    BY <2>1, PageParts, ListGrows
  <2>3. PlaceOK' /\ entered' \in Tickers \union {None} /\ search \in Searches
    BY <2>1, <2>2, PageParts, StaysInPlace
  <2> QED
    BY <2>1, <2>2, <2>3, RedrawnLonger
<1>3. ASSUME NEW q \in asked, RequestFails(q) PROVE PageOK' /\ AddedTo
  BY <1>1, <1>3 DEF RequestFails, editorVars
<1>4. CASE \/ \E p \in Offered : PressPreset(p)
           \/ \E f \in Toggled : ToggleFilter(f) \/ ToggleOperator(f)
           \/ Request
  BY <1>1, <1>4 DEF PressPreset, ToggleFilter, ToggleOperator, Request
<1> QED
  BY <1>2, <1>3, <1>4 DEF QuantStep

LEMMA PageSave ==
  ASSUME PageOK, SaveStep
  PROVE  PageOK' /\ AddedTo
<1>1. UNCHANGED <<selected, idx, panel, tab, localVars, submits, entered>>
  BY DEF SaveStep, FillBasic, ClickCreate, ClickReCreate, ServerCreates,
     ServerRefuses, CreateAnswered, CreateLost, AddUniversal, AddUniversalLost,
     Push, ServerDeletes, DeleteAnswered, DeleteLost, editorVars
<1> QED
  BY <1>1, PageRests, PageParts

LEMMA PageInit == Init => PageOK
<1> SUFFICES ASSUME Init PROVE PageOK
  OBVIOUS
<1>1. /\ selected = StartList /\ idx = 0 /\ panel \in ButtonPanels
      /\ chosen = {} /\ search = FreshSearch /\ entered = None
      /\ form = NoForm /\ advice = NoAdvice /\ submits = Len(StartList)
      /\ tile = [i \in DOMAIN StartList |-> Asks(StartList[i])]
  BY EditorAssumption DEF Init, EditorInit
<1>2. /\ StartList \in Seq(Items) /\ Len(StartList) \in Nat
      /\ \A i \in DOMAIN StartList : StartList[i] \in Items
  <2>1. PICK s \in Seq(Items) : s = StartList
    BY EditorAssumption
  <2>2. Len(s) \in Nat /\ \A i \in DOMAIN s : s[i] \in Items
    OBVIOUS
  <2> QED
    BY <2>1, <2>2
<1>3. ListOK /\ PlaceOK
  <2>1. ListOK
    BY <1>1, <1>2, EditorAssumption DEF ListOK, KnowsSettings
  <2> QED
    BY <1>1, <2>1 DEF PlaceOK, Panels, ButtonPanels
<1>4. \A x \in Items : Asks(x) \in Tiles /\ (x.tech # None => Asks(x).of = x)
  BY DEF Asks, Idle, Tiles
<1>5. tile \in [DOMAIN selected -> Tiles]
  BY <1>1, <1>2, <1>4
<1>6. \A i \in DOMAIN selected : TileOK(i)
  BY <1>1, <1>2, <1>4, SameItem DEF TileOK
<1>7. search \in Searches
  BY <1>1, EditorAssumption DEF FreshSearch, Searches
<1>8. AdviceOK /\ FormOK
  BY <1>1 DEF AdviceOK, FormOK
<1>9. DeletesOnlyTicked
  BY <1>1 DEF DeletesOnlyTicked
<1> QED
  BY <1>1, <1>3, <1>5, <1>6, <1>7, <1>8, <1>9, TypeParts DEF PageOK, Beside

LEMMA PageStep ==
  ASSUME PageOK, [Next]_vars
  PROVE  PageOK' /\ (AddedTo \/ ThinnedOut)
<1>1. CASE EditorStep
  BY <1>1, PageEditor
<1>2. CASE QuantStep
  BY <1>2, PageQuant
<1>3. CASE SaveStep
  BY <1>3, PageSave
<1>4. CASE UNCHANGED vars
  <2>1. UNCHANGED <<selected, idx, panel, tab, localVars, submits, entered>>
    BY <1>4 DEF vars, editorVars
  <2> QED
    BY <2>1, PageRests, PageParts
<1> QED
  BY <1>1, <1>2, <1>3, <1>4 DEF Next

(* A figure stands beside the technique and the settings it is of.           *)
LEMMA BesideIsOfItsItem == PageOK => FiguresAreOfTheirItem
<1> SUFFICES ASSUME PageOK PROVE FiguresAreOfTheirItem
  OBVIOUS
<1>1. ASSUME NEW i \in DOMAIN selected, selected[i].tech # None
      PROVE  /\ [tile[i].of EXCEPT !.ticker = selected[i].ticker] = selected[i]
             /\ i \notin moved => tile[i].of = selected[i]
  BY <1>1, PageParts DEF TileOK
<1>2. ASSUME advice # NoAdvice, NEW t \in Techs
      PROVE  advice.of[t].ticker = Current.ticker
  BY <1>2, PageParts DEF AdviceOK
<1> QED
  BY <1>1, <1>2 DEF FiguresAreOfTheirItem

(* Delete takes out no ticker whose box shows no tick, whatever was added,   *)
(* deleted and looked at in between                                          *)
(* (handleWillDelTickerClick, UniversalSettingTabTickerSearch.tsx:25).       *)
THEOREM DeleteFollowsTheTicks == Spec => []DeletesOnlyTicked
<1>1. Init => PageOK
  BY PageInit
<1>2. PageOK /\ [Next]_vars => PageOK'
  BY PageStep
<1>3. PageOK => DeletesOnlyTicked
  BY DEF PageOK
<1> QED BY <1>1, <1>2, <1>3, PTL DEF Spec

(* A tile shows the mini backtest of the technique and the settings of its   *)
(* ticker, and of that ticker unless a deletion moved it; a recommendation   *)
(* is of the ticker the panel is about, whatever order the answers came in   *)
(* (the effects of MonoTickerSettingButton.tsx:76).                          *)
THEOREM FiguresFollowTheirItem == Spec => []FiguresAreOfTheirItem
<1>1. Init => PageOK
  BY PageInit
<1>2. PageOK /\ [Next]_vars => PageOK'
  BY PageStep
<1> QED BY <1>1, <1>2, BesideIsOfItsItem, PTL DEF Spec

(* The golden cross form shows the settings of its ticker until something is *)
(* typed, whichever ticker was shown before                                  *)
(* (StPropsGoldenCross, StPropsSettingItems.tsx:23).                         *)
THEOREM FormsFollowTheSettings == Spec => []FormShowsTheSetting
<1>1. Init => PageOK
  BY PageInit
<1>2. PageOK /\ [Next]_vars => PageOK'
  BY PageStep
<1>3. PageOK => FormShowsTheSetting
  BY PageParts DEF FormOK, FormShowsTheSetting
<1> QED BY <1>1, <1>2, <1>3, PTL DEF Spec

(* A step of the page adds tickers at the end of the list or takes out the   *)
(* chosen ones and keeps the others in their order, late answers and timers  *)
(* too (handleRequestQuantSelect, UniversalSettingTabQuantSearchVM.tsx:234). *)
THEOREM TheListKeepsItsTickers == Spec => TheListIsKept
<1>1. Init => PageOK
  BY PageInit
<1>2. PageOK /\ [Next]_vars => PageOK'
  BY PageStep
<1>3. PageOK /\ [Next]_vars => [AddedTo \/ ThinnedOut]_selected
  BY PageStep
<1> QED BY <1>1, <1>2, <1>3, PTL DEF Spec, TheListIsKept

(* The page is in the states its parts can be in: the list, the panel, the   *)
(* search and the tiles.                                                     *)
THEOREM PageIsTyped == Spec => []TypeOK
<1>1. Init => PageOK
  BY PageInit
<1>2. PageOK /\ [Next]_vars => PageOK'
  BY PageStep
<1>3. PageOK => TypeOK
  BY DEF PageOK
<1> QED BY <1>1, <1>2, <1>3, PTL DEF Spec

-----------------------------------------------------------------------------
(* The saving of a strategy: what a run has made on the server               *)

Ats     == {"create", "created", "add", "done", "failed"}
CallAts == {"asked", "deleted", "done", "failed"}
Plans   == UNION {[D -> Items] : D \in SUBSET Nat}
Runs    == [at : Ats, items : Plans, complete : BOOLEAN, code : Nat,
            todo : SUBSET Nat]
Calls   == [at : CallAts, code : Nat]
Rows    == [of : Nat, items : Plans, live : BOOLEAN, pushed : BOOLEAN]

SavesTyped ==
  /\ saves \in Seq(Runs) /\ deletes \in Seq(Calls) /\ server \in Seq(Rows)
  /\ complete \in BOOLEAN /\ code \in Nat
  /\ overlapped \in BOOLEAN /\ faults \in Nat

(* A run has made at most the row whose number it knows, and while it adds   *)
(* tickers the row has those that are not still to do.                       *)
RunOK(n) ==
  /\ saves[n].todo \subseteq DOMAIN saves[n].items
  /\ saves[n].todo # {} => saves[n].at \in {"add", "failed"} /\ saves[n].code # 0
  /\ saves[n].at = "create" =>
       saves[n].code = 0 /\ \A c \in DOMAIN server : server[c].of # n
  /\ saves[n].at \in {"created", "add"} => saves[n].code # 0
  /\ saves[n].code # 0 =>
       /\ saves[n].code \in DOMAIN server
       /\ \A c \in DOMAIN server : server[c].of = n <=> c = saves[n].code
  /\ saves[n].at = "created" => DOMAIN server[saves[n].code].items = {}
  /\ saves[n].at = "add" =>
       LET got == server[saves[n].code].items
       IN  /\ DOMAIN got = DOMAIN saves[n].items \ saves[n].todo
           /\ \A i \in DOMAIN got : got[i] = saves[n].items[i]

RowOK(c) ==
  /\ server[c].of \in DOMAIN saves
  /\ server[c].pushed => /\ saves[server[c].of].at = "done"
                         /\ server[c].items = saves[server[c].of].items

(* The page and its deletions name strategies that were made.                *)
CodesOK ==
  /\ code # 0 => code \in DOMAIN server
  /\ \A d \in DOMAIN deletes : deletes[d].code \in DOMAIN server

SavesOK ==
  /\ SavesTyped /\ CodesOK
  /\ \A n \in DOMAIN saves : RunOK(n)
  /\ \A c \in DOMAIN server : RowOK(c)

LEMMA SamePlan ==
  ASSUME NEW f \in Plans, NEW g \in Plans, DOMAIN f = DOMAIN g,
         \A i \in DOMAIN f : f[i] = g[i]
  PROVE  f = g
<1>1. PICK D \in SUBSET Nat : f \in [D -> Items]
  BY DEF Plans
<1>2. PICK E \in SUBSET Nat : g \in [E -> Items]
  BY DEF Plans
<1>3. f = [i \in DOMAIN f |-> f[i]]
  BY <1>1
<1>4. g = [i \in DOMAIN f |-> g[i]]
  BY <1>2
<1> QED
  BY <1>3, <1>4

LEMMA Replaced ==
  ASSUME NEW S, NEW s \in Seq(S), NEW n \in DOMAIN s, NEW x \in S,
         NEW t, t = [s EXCEPT ![n] = x]
  PROVE  /\ t \in Seq(S) /\ DOMAIN t = DOMAIN s /\ t[n] = x
         /\ \A m \in DOMAIN s : m # n => t[m] = s[m]
OBVIOUS

LEMMA Appended ==
  ASSUME NEW S, NEW s \in Seq(S), NEW x \in S, NEW t, t = Append(s, x)
  PROVE  /\ t \in Seq(S) /\ DOMAIN t = DOMAIN s \union {Len(t)}
         /\ Len(t) \notin DOMAIN s /\ t[Len(t)] = x
         /\ Len(t) \in Nat /\ Len(t) # 0
         /\ \A m \in DOMAIN s : t[m] = s[m]
OBVIOUS

(* What becomes of one run, one deletion and one row.                        *)
RunBecomes(n, at, c, todo) ==
  /\ saves' \in Seq(Runs) /\ DOMAIN saves' = DOMAIN saves
  /\ \A m \in DOMAIN saves : m # n => saves'[m] = saves[m]
  /\ saves'[n].at = at /\ saves'[n].code = c /\ saves'[n].todo = todo
  /\ saves'[n].items = saves[n].items /\ saves'[n].complete = saves[n].complete

CallBecomes(d, at) ==
  /\ deletes' \in Seq(Calls) /\ DOMAIN deletes' = DOMAIN deletes
  /\ \A e \in DOMAIN deletes : e # d => deletes'[e] = deletes[e]
  /\ deletes'[d].at = at /\ deletes'[d].code = deletes[d].code

RowBecomes(c, items, live, pushed) ==
  /\ server' \in Seq(Rows) /\ DOMAIN server' = DOMAIN server
  /\ \A b \in DOMAIN server : b # c => server'[b] = server[b]
  /\ server'[c].of = server[c].of /\ server'[c].items = items
  /\ server'[c].live = live /\ server'[c].pushed = pushed

LEMMA RunSet ==
  ASSUME SavesTyped, NEW n \in DOMAIN saves, NEW at \in Ats, NEW c \in Nat,
         NEW todo \in SUBSET Nat,
         saves' = [saves EXCEPT ![n] =
                     [saves[n] EXCEPT !.at = at, !.code = c, !.todo = todo]]
  PROVE  RunBecomes(n, at, c, todo)
<1>1. PICK s \in Seq(Runs) : s = saves
  BY DEF SavesTyped
<1>2. s[n] \in Runs
  BY <1>1
<1>3. PICK x \in Runs : x = [s[n] EXCEPT !.at = at, !.code = c, !.todo = todo]
  BY <1>2 DEF Runs
<1>4. /\ x.at = at /\ x.code = c /\ x.todo = todo
      /\ x.items = s[n].items /\ x.complete = s[n].complete
  BY <1>2, <1>3 DEF Runs
<1>5. saves' = [s EXCEPT ![n] = x]
  BY <1>1, <1>3
<1> QED
  BY <1>1, <1>4, <1>5, Replaced DEF RunBecomes

LEMMA RunAt ==
  ASSUME SavesTyped, NEW n \in DOMAIN saves, NEW at \in Ats,
         saves' = [saves EXCEPT ![n].at = at]
  PROVE  RunBecomes(n, at, saves[n].code, saves[n].todo)
<1>1. PICK s \in Seq(Runs) : s = saves
  BY DEF SavesTyped
<1>2. s[n] \in Runs /\ s[n].code \in Nat /\ s[n].todo \in SUBSET Nat
  <2>1. s[n] \in Runs
    BY <1>1
  <2> QED
    BY <2>1 DEF Runs
<1>3. [s[n] EXCEPT !.at = at]
        = [s[n] EXCEPT !.at = at, !.code = s[n].code, !.todo = s[n].todo]
  BY <1>2 DEF Runs
<1>4. saves' = [s EXCEPT ![n] = [s[n] EXCEPT !.at = at]]
  BY <1>1
<1> QED
  BY <1>1, <1>2, <1>3, <1>4, RunSet

LEMMA RunAtCode ==
  ASSUME SavesTyped, NEW n \in DOMAIN saves, NEW at \in Ats, NEW c \in Nat,
         saves' = [saves EXCEPT ![n].at = at, ![n].code = c]
  PROVE  RunBecomes(n, at, c, saves[n].todo)
<1>1. PICK s \in Seq(Runs) : s = saves
  BY DEF SavesTyped
<1>2. s[n] \in Runs /\ s[n].todo \in SUBSET Nat
  <2>1. s[n] \in Runs
    BY <1>1
  <2> QED
    BY <2>1 DEF Runs
<1>3. [s[n] EXCEPT !.at = at, !.code = c]
        = [s[n] EXCEPT !.at = at, !.code = c, !.todo = s[n].todo]
  BY <1>2 DEF Runs
<1>4. [s EXCEPT ![n].at = at, ![n].code = c]
        = [s EXCEPT ![n] = [s[n] EXCEPT !.at = at, !.code = c]]
  BY <1>1, <1>2 DEF Runs
<1> QED
  BY <1>1, <1>2, <1>3, <1>4, RunSet

LEMMA RunAtTodo ==
  ASSUME SavesTyped, NEW n \in DOMAIN saves, NEW at \in Ats,
         NEW todo \in SUBSET Nat,
         saves' = [saves EXCEPT ![n].at = at, ![n].todo = todo]
  PROVE  RunBecomes(n, at, saves[n].code, todo)
<1>1. PICK s \in Seq(Runs) : s = saves
  BY DEF SavesTyped
<1>2. s[n] \in Runs /\ s[n].code \in Nat
  <2>1. s[n] \in Runs
    BY <1>1
  <2> QED
    BY <2>1 DEF Runs
<1>3. [s[n] EXCEPT !.at = at, !.todo = todo]
        = [s[n] EXCEPT !.at = at, !.code = s[n].code, !.todo = todo]
  BY <1>2 DEF Runs
<1>4. [s EXCEPT ![n].at = at, ![n].todo = todo]
        = [s EXCEPT ![n] = [s[n] EXCEPT !.at = at, !.todo = todo]]
  BY <1>1, <1>2 DEF Runs
<1> QED
  BY <1>1, <1>2, <1>3, <1>4, RunSet

LEMMA CallAt ==
  ASSUME SavesTyped, NEW d \in DOMAIN deletes, NEW at \in CallAts,
         deletes' = [deletes EXCEPT ![d].at = at]
  PROVE  CallBecomes(d, at)
<1>1. PICK s \in Seq(Calls) : s = deletes
  BY DEF SavesTyped
<1>2. s[d] \in Calls
  BY <1>1
<1>3. PICK x \in Calls : x = [s[d] EXCEPT !.at = at]
  BY <1>2 DEF Calls
<1>4. x.at = at /\ x.code = s[d].code
  BY <1>2, <1>3 DEF Calls
<1>5. deletes' = [s EXCEPT ![d] = x]
  BY <1>1, <1>3
<1> QED
  BY <1>1, <1>4, <1>5, Replaced DEF CallBecomes

LEMMA RowSet ==
  ASSUME SavesTyped, NEW c \in DOMAIN server, NEW items \in Plans,
         NEW live \in BOOLEAN, NEW pushed \in BOOLEAN,
         server' = [server EXCEPT ![c] = [server[c] EXCEPT
                      !.items = items, !.live = live, !.pushed = pushed]]
  PROVE  RowBecomes(c, items, live, pushed)
<1>1. PICK s \in Seq(Rows) : s = server
  BY DEF SavesTyped
<1>2. s[c] \in Rows
  BY <1>1
<1>3. PICK x \in Rows :
        x = [s[c] EXCEPT !.items = items, !.live = live, !.pushed = pushed]
  BY <1>2 DEF Rows
<1>4. /\ x.of = s[c].of /\ x.items = items /\ x.live = live
      /\ x.pushed = pushed
  BY <1>2, <1>3 DEF Rows
<1>5. server' = [s EXCEPT ![c] = x]
  BY <1>1, <1>3
<1>6. /\ server' \in Seq(Rows) /\ DOMAIN server' = DOMAIN server
      /\ server'[c] = x
      /\ \A b \in DOMAIN server : b # c => server'[b] = server[b]
  BY <1>1, <1>5, Replaced
<1> QED
  BY <1>1, <1>4, <1>6, Zenon DEF RowBecomes

LEMMA RowItems ==
  ASSUME SavesTyped, NEW c \in DOMAIN server, NEW items \in Plans,
         server' = [server EXCEPT ![c].items = items]
  PROVE  RowBecomes(c, items, server[c].live, server[c].pushed)
<1>1. PICK s \in Seq(Rows) : s = server
  BY DEF SavesTyped
<1>2. s[c] \in Rows
  BY <1>1
<1>3. PICK x \in Rows : x = [s[c] EXCEPT !.items = items]
  BY <1>2 DEF Rows
<1>4. /\ x.of = s[c].of /\ x.items = items /\ x.live = s[c].live
      /\ x.pushed = s[c].pushed
  BY <1>2, <1>3 DEF Rows
<1>5. server' = [s EXCEPT ![c] = x]
  BY <1>1, <1>3
<1>6. /\ server' \in Seq(Rows) /\ DOMAIN server' = DOMAIN server
      /\ server'[c] = x
      /\ \A b \in DOMAIN server : b # c => server'[b] = server[b]
  BY <1>1, <1>5, Replaced
<1> QED
  BY <1>1, <1>4, <1>6, Zenon DEF RowBecomes

LEMMA RowPushed ==
  ASSUME SavesTyped, NEW c \in DOMAIN server,
         server' = [server EXCEPT ![c].pushed = TRUE]
  PROVE  RowBecomes(c, server[c].items, server[c].live, TRUE)
<1>1. PICK s \in Seq(Rows) : s = server
  BY DEF SavesTyped
<1>2. s[c] \in Rows
  BY <1>1
<1>3. s[c].live \in BOOLEAN /\ s[c].items \in Plans
  BY <1>2 DEF Rows
<1>4. [s[c] EXCEPT !.pushed = TRUE]
        = [s[c] EXCEPT !.items = s[c].items, !.live = s[c].live, !.pushed = TRUE]
  BY <1>2 DEF Rows
<1>5. server' = [s EXCEPT ![c] = [s[c] EXCEPT !.pushed = TRUE]]
  BY <1>1
<1>6. server' = [server EXCEPT ![c] = [server[c] EXCEPT
                         !.items = server[c].items, !.live = server[c].live,
                         !.pushed = TRUE]]
  BY <1>1, <1>4, <1>5
<1> QED
  BY <1>1, <1>3, <1>6, RowSet

LEMMA RowGone ==
  ASSUME SavesTyped, NEW c \in DOMAIN server,
         server' = [server EXCEPT ![c].live = FALSE]
  PROVE  RowBecomes(c, server[c].items, FALSE, server[c].pushed)
<1>1. PICK s \in Seq(Rows) : s = server
  BY DEF SavesTyped
<1>2. s[c] \in Rows
  BY <1>1
<1>3. s[c].pushed \in BOOLEAN /\ s[c].items \in Plans
  BY <1>2 DEF Rows
<1>4. [s[c] EXCEPT !.live = FALSE]
        = [s[c] EXCEPT !.items = s[c].items, !.live = FALSE,
                       !.pushed = s[c].pushed]
  BY <1>2 DEF Rows
<1>5. server' = [s EXCEPT ![c] = [s[c] EXCEPT !.live = FALSE]]
  BY <1>1
<1>6. server' = [server EXCEPT ![c] = [server[c] EXCEPT
                         !.items = server[c].items, !.live = FALSE,
                         !.pushed = server[c].pushed]]
  BY <1>1, <1>4, <1>5
<1> QED
  BY <1>1, <1>3, <1>6, RowSet

(* A new row is the last one, and has no tickers yet.                        *)
LEMMA RowMade ==
  ASSUME SavesTyped, NEW n \in DOMAIN saves, server' = New(n)
  PROVE  /\ server' \in Seq(Rows) /\ Len(server') \in Nat /\ Len(server') # 0
         /\ Len(server') \notin DOMAIN server
         /\ DOMAIN server' = DOMAIN server \union {Len(server')}
         /\ \A c \in DOMAIN server : server'[c] = server[c]
         /\ server'[Len(server')].of = n
         /\ DOMAIN server'[Len(server')].items = {}
         /\ server'[Len(server')].live /\ ~server'[Len(server')].pushed
<1>1. PICK s \in Seq(Rows) : s = server
  BY DEF SavesTyped
<1>2. NoItems \in Plans /\ DOMAIN NoItems = {}
  <2>1. NoItems \in [{} -> Items]
    BY DEF NoItems
  <2>2. {} \in SUBSET Nat
    OBVIOUS
  <2> QED
    BY <2>1, <2>2 DEF Plans
<1>3. n \in Nat
  <2>1. PICK r \in Seq(Runs) : r = saves
    BY DEF SavesTyped
  <2>2. DOMAIN r = 1 .. Len(r) /\ Len(r) \in Nat
    OBVIOUS
  <2> QED
    BY <2>1, <2>2
<1>4. PICK x : x = [of |-> n, items |-> NoItems, live |-> TRUE, pushed |-> FALSE]
  OBVIOUS
<1>5. x \in Rows
  BY <1>2, <1>3, <1>4 DEF Rows
<1>6. x.of = n /\ x.items = NoItems /\ x.live /\ ~x.pushed
  BY <1>4
<1>7. server' = Append(s, x)
  BY <1>1, <1>4 DEF New
<1>8. /\ server' \in Seq(Rows) /\ DOMAIN server' = DOMAIN s \union {Len(server')}
      /\ Len(server') \notin DOMAIN s /\ server'[Len(server')] = x
      /\ Len(server') \in Nat /\ Len(server') # 0
      /\ \A c \in DOMAIN s : server'[c] = s[c]
  BY <1>5, <1>7, Appended
<1> QED
  BY <1>1, <1>2, <1>6, <1>8

(* A run and a row that a step does not touch.                               *)
LEMMA RunStays ==
  ASSUME NEW m \in DOMAIN saves, RunOK(m), saves'[m] = saves[m],
         DOMAIN server \subseteq DOMAIN server',
         \A c \in DOMAIN server :
           /\ server'[c].of = server[c].of
           /\ server[c].of = m => server'[c].items = server[c].items,
         \A c \in DOMAIN server' \ DOMAIN server : server'[c].of # m
  PROVE  RunOK(m)'
<1>1. saves[m].code # 0 =>
        /\ saves[m].code \in DOMAIN server'
        /\ \A c \in DOMAIN server' : server'[c].of = m <=> c = saves[m].code
        /\ server'[saves[m].code].items = server[saves[m].code].items
  BY DEF RunOK
<1>2. saves[m].at = "create" =>
        saves[m].code = 0 /\ \A c \in DOMAIN server' : server'[c].of # m
  BY DEF RunOK
<1> QED
  BY <1>1, <1>2 DEF RunOK

LEMMA RowStays ==
  ASSUME NEW c \in DOMAIN server, RowOK(c), DOMAIN saves \subseteq DOMAIN saves',
         server'[c].of = server[c].of, server'[c].pushed = server[c].pushed,
         server[c].pushed => server'[c].items = server[c].items,
         saves[server[c].of].at = "done" =>
           saves'[server[c].of].at = "done"
             /\ saves'[server[c].of].items = saves[server[c].of].items
  PROVE  RowOK(c)'
BY DEF RowOK

LEMMA SavesRest ==
  ASSUME SavesOK, UNCHANGED <<saves, server>>, SavesTyped', CodesOK'
  PROVE  SavesOK'
<1>1. ASSUME NEW n \in DOMAIN saves' PROVE RunOK(n)'
  <2>1. RunOK(n)
    BY DEF SavesOK
  <2> QED
    BY <2>1 DEF RunOK
<1>2. ASSUME NEW c \in DOMAIN server' PROVE RowOK(c)'
  <2>1. RowOK(c)
    BY DEF SavesOK
  <2> QED
    BY <2>1 DEF RowOK
<1> QED
  BY <1>1, <1>2 DEF SavesOK

LEMMA ThePlan ==
  ASSUME ListOK
  PROVE  AddUniversals \in Plans
<1>1. {j \in DOMAIN selected : selected[j].tech # None} \in SUBSET Nat
  BY Positions
<1>2. AddUniversals \in [{j \in DOMAIN selected : selected[j].tech # None} -> Items]
  BY Positions DEF AddUniversals
<1> QED
  BY <1>1, <1>2 DEF Plans

(* A click on "create and backtest": one more run.                           *)
LEMMA RunMade ==
  ASSUME SavesTyped, ListOK, ClickCreate
  PROVE  /\ saves' \in Seq(Runs) /\ Len(saves') \notin DOMAIN saves
         /\ DOMAIN saves' = DOMAIN saves \union {Len(saves')}
         /\ \A m \in DOMAIN saves : saves'[m] = saves[m]
         /\ saves'[Len(saves')].at = "create" /\ saves'[Len(saves')].code = 0
         /\ saves'[Len(saves')].todo = {}
<1>1. PICK s \in Seq(Runs) : s = saves
  BY DEF SavesTyped
<1>2. PICK x : x = [at |-> "create", items |-> AddUniversals,
                    complete |-> complete, code |-> 0, todo |-> {}]
  OBVIOUS
<1>3. AddUniversals \in Plans /\ complete \in BOOLEAN
  BY ThePlan DEF SavesTyped
<1>4. x \in Runs /\ x.at = "create" /\ x.code = 0 /\ x.todo = {}
  BY <1>2, <1>3 DEF Runs, Ats
<1>5. saves' = Append(s, x)
  BY <1>1, <1>2 DEF ClickCreate
<1> QED
  BY <1>1, <1>4, <1>5, Appended

-----------------------------------------------------------------------------
(* The calls of the page while no two clicks overlap and no call fails       *)

Open(n)  == saves[n].at \in {"create", "created"}
Asked(d) == deletes[d].at \in {"asked", "deleted"}

OneCall ==
  /\ \A n, m \in DOMAIN saves : Open(n) /\ Open(m) => n = m
  /\ \A d, e \in DOMAIN deletes : Asked(d) /\ Asked(e) => d = e
  /\ \A n \in DOMAIN saves, d \in DOMAIN deletes : ~(Open(n) /\ Asked(d))

(* While a strategy is being made the page shows none.                       *)
OpenOK(n) ==
  Open(n) => code = 0 /\ (saves[n].at = "created" => server[saves[n].code].live)

(* What is being deleted is what the page shows.                             *)
AskedOK(d) ==
  Asked(d) => /\ code # 0 /\ deletes[d].code = code
              /\ deletes[d].at = "deleted" => ~server[code].live

(* A strategy the page does not show is being made, or had no complete form. *)
StrayOK(c) ==
  server[c].live /\ c # code =>
    Open(server[c].of) \/ ~saves[server[c].of].complete

ShownOK ==
  code # 0 /\ ~server[code].live =>
    \E d \in DOMAIN deletes : deletes[d].code = code /\ deletes[d].at = "deleted"

Agreed ==
  /\ OneCall /\ ShownOK
  /\ \A n \in DOMAIN saves : OpenOK(n)
  /\ \A d \in DOMAIN deletes : AskedOK(d)
  /\ \A c \in DOMAIN server : StrayOK(c)

QuietOK == ~overlapped /\ faults = 0 => Agreed

LEMMA QuietRests ==
  ASSUME QuietOK,
         UNCHANGED <<saves, server, deletes, code, overlapped, faults>>
  PROVE  QuietOK'
<1> SUFFICES ASSUME ~overlapped', faults' = 0 PROVE Agreed'
  BY DEF QuietOK
<1>1. Agreed
  BY DEF QuietOK
<1>2. OneCall' /\ ShownOK'
  BY <1>1 DEF Agreed, OneCall, ShownOK, Open, Asked
<1>3. \A n \in DOMAIN saves' : OpenOK(n)'
  BY <1>1 DEF Agreed, OpenOK, Open
<1>4. \A d \in DOMAIN deletes' : AskedOK(d)'
  BY <1>1 DEF Agreed, AskedOK, Asked
<1>5. \A c \in DOMAIN server' : StrayOK(c)'
  BY <1>1 DEF Agreed, StrayOK, Open
<1> QED
  BY <1>2, <1>3, <1>4, <1>5 DEF Agreed

LEMMA SavesStand ==
  ASSUME SavesOK, QuietOK, complete' \in BOOLEAN,
         UNCHANGED <<saves, server, deletes, code, overlapped, faults>>
  PROVE  SavesOK' /\ QuietOK'
<1>1. SavesTyped' /\ CodesOK'
  BY DEF SavesOK, SavesTyped, CodesOK, Runs, Calls, Rows, Plans, Items, Ats, CallAts
<1> QED
  BY <1>1, SavesRest, QuietRests

LEMMA SavesParts ==
  ASSUME SavesOK
  PROVE  /\ SavesTyped /\ CodesOK
         /\ \A n \in DOMAIN saves : RunOK(n)
         /\ \A c \in DOMAIN server : RowOK(c)
         /\ faults \in Nat /\ overlapped \in BOOLEAN /\ code \in Nat
         /\ complete \in BOOLEAN
         /\ saves \in Seq(Runs) /\ deletes \in Seq(Calls) /\ server \in Seq(Rows)
BY DEF SavesOK, SavesTyped

LEMMA RunParts ==
  ASSUME SavesTyped, NEW n \in DOMAIN saves
  PROVE  /\ saves[n].at \in Ats /\ saves[n].items \in Plans
         /\ saves[n].code \in Nat /\ saves[n].todo \in SUBSET Nat
<1>1. PICK s \in Seq(Runs) : s = saves
  BY DEF SavesTyped
<1>2. s[n] \in Runs
  BY <1>1
<1> QED
  BY <1>1, <1>2 DEF Runs

LEMMA RowParts ==
  ASSUME SavesTyped, NEW c \in DOMAIN server
  PROVE  server[c].items \in Plans
<1>1. PICK s \in Seq(Rows) : s = server
  BY DEF SavesTyped
<1>2. s[c] \in Rows
  BY <1>1
<1> QED
  BY <1>1, <1>2 DEF Rows

(* A call that fails ends the agreement.                                     *)
LEMMA NotQuiet ==
  ASSUME SavesOK, Fault
  PROVE  QuietOK' /\ faults' \in Nat
<1>1. faults' \in Nat /\ faults' # 0
  BY SavesParts DEF Fault
<1> QED
  BY <1>1 DEF QuietOK

LEMMA SavesClickCreate ==
  ASSUME SavesOK, QuietOK, ListOK, ClickCreate
  PROVE  SavesOK' /\ QuietOK'
<1>1. /\ UNCHANGED <<complete, code, deletes, server, faults>>
      /\ code = 0 /\ overlapped' = (overlapped \/ Unanswered)
  BY DEF ClickCreate
<1>2. PICK l : l = Len(saves')
  OBVIOUS
<1>3. /\ saves' \in Seq(Runs) /\ l \notin DOMAIN saves
      /\ DOMAIN saves' = DOMAIN saves \union {l}
      /\ \A m \in DOMAIN saves : saves'[m] = saves[m]
      /\ saves'[l].at = "create" /\ saves'[l].code = 0 /\ saves'[l].todo = {}
  BY <1>2, SavesParts, RunMade
<1>4. SavesTyped' /\ CodesOK'
  <2>1. overlapped' \in BOOLEAN
    BY <1>1, SavesParts DEF Unanswered
  <2>2. SavesTyped'
    BY <1>1, <1>3, <2>1, SavesParts DEF SavesTyped, Runs, Calls, Rows, Plans, Items,
       Ats, CallAts
  <2>3. CodesOK'
    BY <1>1, SavesParts DEF CodesOK
  <2> QED
    BY <2>2, <2>3
<1>5. ASSUME NEW m \in DOMAIN saves' PROVE RunOK(m)'
  <2>1. CASE m = l
    <3>1. \A c \in DOMAIN server : server[c].of # l
      BY <1>3, SavesParts DEF RowOK
    <3> QED
      BY <1>1, <1>3, <2>1, <3>1 DEF RunOK
  <2>2. CASE m # l
    <3>1. m \in DOMAIN saves /\ saves'[m] = saves[m] /\ RunOK(m)
      BY <1>3, <2>2, SavesParts
    <3> QED
      BY <1>1, <3>1, RunStays
  <2> QED
    BY <2>1, <2>2
<1>6. ASSUME NEW c \in DOMAIN server' PROVE RowOK(c)'
  <2>1. c \in DOMAIN server /\ RowOK(c) /\ server[c].of \in DOMAIN saves
    BY <1>1, SavesParts DEF RowOK
  <2> QED
    BY <1>1, <1>3, <2>1, RowStays
<1>7. QuietOK'
  <2> SUFFICES ASSUME ~overlapped', faults' = 0 PROVE Agreed'
    BY DEF QuietOK
  <2>1. Agreed /\ ~Unanswered
    BY <1>1 DEF QuietOK
  <2>2. /\ \A n \in DOMAIN saves : ~Open(n)
        /\ \A d \in DOMAIN deletes : ~Asked(d)
    BY <2>1 DEF Unanswered, Open, Asked
  <2>3. \A n \in DOMAIN saves' : Open(n)' => n = l
    BY <1>3, <2>2 DEF Open
  <2>4. \A d \in DOMAIN deletes' : ~Asked(d)'
    BY <1>1, <2>2 DEF Asked
  <2>5. OneCall'
    BY <2>3, <2>4 DEF OneCall
  <2>6. ShownOK'
    BY <1>1 DEF ShownOK
  <2>7. \A n \in DOMAIN saves' : OpenOK(n)'
    BY <1>1, <1>3, <2>3 DEF OpenOK
  <2>8. \A d \in DOMAIN deletes' : AskedOK(d)'
    BY <2>4 DEF AskedOK
  <2>9. ASSUME NEW c \in DOMAIN server' PROVE StrayOK(c)'
    <3>1. StrayOK(c) /\ server[c].of \in DOMAIN saves
      BY <1>1, <2>1, SavesParts DEF Agreed, RowOK
    <3> QED
      BY <1>1, <1>3, <3>1 DEF StrayOK, Open
  <2> QED
    BY <2>5, <2>6, <2>7, <2>8, <2>9 DEF Agreed
<1> QED
  BY <1>4, <1>5, <1>6, <1>7 DEF SavesOK

LEMMA SavesClickReCreate ==
  ASSUME SavesOK, QuietOK, ClickReCreate
  PROVE  SavesOK' /\ QuietOK'
<1>1. /\ UNCHANGED <<complete, code, saves, server, faults>>
      /\ code # 0 /\ overlapped' = (overlapped \/ Unanswered)
      /\ \/ deletes' = deletes
         \/ deletes' = Append(deletes, [at |-> "asked", code |-> code])
  BY DEF ClickReCreate
<1>2. overlapped' \in BOOLEAN
  BY <1>1, SavesParts DEF Unanswered
<1>3. CASE deletes' = deletes
  <2>1. SavesTyped' /\ CodesOK'
    BY <1>1, <1>2, <1>3, SavesParts DEF SavesTyped, CodesOK, Runs, Calls, Rows,
       Plans, Items, Ats, CallAts
  <2>2. QuietOK'
    <3> SUFFICES ASSUME ~overlapped', faults' = 0 PROVE Agreed'
      BY DEF QuietOK
    <3>1. Agreed
      BY <1>1 DEF QuietOK
    <3>2. OneCall' /\ ShownOK'
      BY <1>1, <1>3, <3>1 DEF Agreed, OneCall, ShownOK, Open, Asked
    <3>3. \A n \in DOMAIN saves' : OpenOK(n)'
      BY <1>1, <3>1 DEF Agreed, OpenOK, Open
    <3>4. \A d \in DOMAIN deletes' : AskedOK(d)'
      BY <1>1, <1>3, <3>1 DEF Agreed, AskedOK, Asked
    <3>5. \A c \in DOMAIN server' : StrayOK(c)'
      BY <1>1, <3>1 DEF Agreed, StrayOK, Open
    <3> QED
      BY <3>2, <3>3, <3>4, <3>5 DEF Agreed
  <2> QED
    BY <1>1, <2>1, <2>2, SavesRest
<1>4. CASE deletes' = Append(deletes, [at |-> "asked", code |-> code])
  <2>1. PICK s \in Seq(Calls) : s = deletes
    BY SavesParts
  <2>2. PICK x : x = [at |-> "asked", code |-> code]
    OBVIOUS
  <2>3. x \in Calls /\ x.at = "asked" /\ x.code = code
    BY <2>2, SavesParts DEF Calls, CallAts
  <2>4. deletes' = Append(s, x)
    BY <1>4, <2>1, <2>2
  <2>5. PICK l : l = Len(deletes')
    OBVIOUS
  <2>6. /\ deletes' \in Seq(Calls) /\ DOMAIN deletes' = DOMAIN deletes \union {l}
        /\ l \notin DOMAIN deletes /\ deletes'[l] = x
        /\ \A d \in DOMAIN deletes : deletes'[d] = deletes[d]
    BY <2>1, <2>3, <2>4, <2>5, Appended
  <2>7. SavesTyped' /\ CodesOK'
    <3>1. SavesTyped'
      BY <1>1, <1>2, <2>6, SavesParts DEF SavesTyped, Runs, Calls, Rows, Plans,
         Items, Ats, CallAts
    <3>2. CodesOK'
      BY <1>1, <2>3, <2>6, SavesParts DEF CodesOK
    <3> QED
      BY <3>1, <3>2
  <2>8. QuietOK'
    <3> SUFFICES ASSUME ~overlapped', faults' = 0 PROVE Agreed'
      BY DEF QuietOK
    <3>1. Agreed /\ ~Unanswered
      BY <1>1 DEF QuietOK
    <3>2. /\ \A n \in DOMAIN saves : ~Open(n)
          /\ \A d \in DOMAIN deletes : ~Asked(d)
      BY <3>1 DEF Unanswered, Open, Asked
    <3>3. \A n \in DOMAIN saves' : ~Open(n)'
      BY <1>1, <3>2 DEF Open
    <3>4. \A d \in DOMAIN deletes' : Asked(d)' => d = l
      BY <2>6, <3>2 DEF Asked
    <3>5. OneCall'
      BY <3>3, <3>4 DEF OneCall
    <3>6. ShownOK'
      BY <1>1, <2>6, <3>1 DEF Agreed, ShownOK
    <3>7. \A n \in DOMAIN saves' : OpenOK(n)'
      BY <3>3 DEF OpenOK
    <3>8. \A d \in DOMAIN deletes' : AskedOK(d)'
      BY <1>1, <2>3, <2>6, <3>4 DEF AskedOK
    <3>9. \A c \in DOMAIN server' : StrayOK(c)'
      BY <1>1, <3>1 DEF Agreed, StrayOK, Open
    <3> QED
      BY <3>5, <3>6, <3>7, <3>8, <3>9 DEF Agreed
  <2> QED
    BY <1>1, <2>7, <2>8, SavesRest
<1> QED
  BY <1>1, <1>3, <1>4

(* Nothing that is not of run n is touched by a change of run n.             *)
LEMMA OthersStay ==
  ASSUME SavesOK, NEW n \in DOMAIN saves, NEW at, NEW k, NEW todo,
         RunBecomes(n, at, k, todo),
         DOMAIN server \subseteq DOMAIN server',
         \A c \in DOMAIN server :
           /\ server'[c].of = server[c].of
           /\ server[c].of # n => server'[c].items = server[c].items,
         \A c \in DOMAIN server' \ DOMAIN server : server'[c].of = n
  PROVE  \A m \in DOMAIN saves' : m # n => RunOK(m)'
<1> TAKE m \in DOMAIN saves'
<1> HAVE m # n
<1>1. m \in DOMAIN saves /\ RunOK(m) /\ saves'[m] = saves[m]
  BY SavesParts DEF RunBecomes
<1> QED
  BY <1>1, RunStays

(* The rows a run n that is not done leaves as they are.                     *)
LEMMA RowsStay ==
  ASSUME SavesOK, NEW n \in DOMAIN saves, NEW at, NEW k, NEW todo,
         RunBecomes(n, at, k, todo), saves[n].at # "done",
         NEW c \in DOMAIN server, server'[c].of = server[c].of,
         server'[c].pushed = server[c].pushed,
         server[c].of # n => server'[c].items = server[c].items
  PROVE  RowOK(c)'
<1>1. /\ RowOK(c) /\ server[c].of \in DOMAIN saves /\ DOMAIN saves' = DOMAIN saves
      /\ server[c].of # n => saves'[server[c].of] = saves[server[c].of]
      /\ server[c].pushed => server[c].of # n
  BY SavesParts DEF RunBecomes, RowOK
<1>2. CASE server[c].of # n
  BY <1>1, <1>2, RowStays
<1>3. CASE server[c].of = n
  BY <1>1, <1>3 DEF RowOK
<1> QED
  BY <1>2, <1>3

LEMMA SavesServerCreates ==
  ASSUME SavesOK, QuietOK, NEW n \in DOMAIN saves, ServerCreates(n)
  PROVE  SavesOK' /\ QuietOK'
<1>1. /\ UNCHANGED <<complete, code, deletes, overlapped, faults>>
      /\ saves[n].at = "create" /\ server' = New(n)
      /\ saves' = [saves EXCEPT ![n].at = "created", ![n].code = Len(server')]
  BY DEF ServerCreates
<1>2. PICK k : k = Len(server')
  OBVIOUS
<1>3. /\ server' \in Seq(Rows) /\ k \in Nat /\ k # 0
      /\ k \notin DOMAIN server /\ DOMAIN server' = DOMAIN server \union {k}
      /\ \A c \in DOMAIN server : server'[c] = server[c]
      /\ server'[k].of = n /\ DOMAIN server'[k].items = {}
      /\ server'[k].live /\ ~server'[k].pushed
  BY <1>1, <1>2, SavesParts, RowMade
<1>4. RunBecomes(n, "created", k, saves[n].todo)
  <2>1. saves' = [saves EXCEPT ![n].at = "created", ![n].code = k]
    BY <1>1, <1>2
  <2> QED
    BY <1>3, <2>1, SavesParts, RunAtCode DEF Ats
<1>5. /\ saves' \in Seq(Runs) /\ DOMAIN saves' = DOMAIN saves
      /\ \A m \in DOMAIN saves : m # n => saves'[m] = saves[m]
      /\ saves'[n].at = "created" /\ saves'[n].code = k
      /\ saves'[n].todo = saves[n].todo /\ saves'[n].complete = saves[n].complete
      /\ saves'[n].items = saves[n].items
  BY <1>4 DEF RunBecomes
<1>6. /\ saves[n].todo = {} /\ \A c \in DOMAIN server : server[c].of # n
  BY <1>1, SavesParts DEF RunOK
<1>7. SavesTyped' /\ CodesOK'
  <2>1. SavesTyped'
    BY <1>1, <1>3, <1>5, SavesParts DEF SavesTyped, Runs, Calls, Rows, Plans,
       Items, Ats, CallAts
  <2> QED
    BY <1>1, <1>3, <2>1, SavesParts DEF CodesOK
<1>8. RunOK(n)'
  BY <1>3, <1>5, <1>6 DEF RunOK
<1>9. \A m \in DOMAIN saves' : RunOK(m)'
  BY <1>3, <1>4, <1>8, OthersStay
<1>10. ASSUME NEW c \in DOMAIN server' PROVE RowOK(c)'
  <2>1. CASE c = k
    BY <1>3, <1>5, <2>1 DEF RowOK
  <2>2. CASE c # k
    BY <1>1, <1>3, <1>4, <2>2, RowsStay
  <2> QED
    BY <2>1, <2>2
<1>11. QuietOK'
  <2> SUFFICES ASSUME ~overlapped', faults' = 0 PROVE Agreed'
    BY DEF QuietOK
  <2>1. Agreed
    BY <1>1 DEF QuietOK
  <2>2. /\ Open(n) /\ code = 0 /\ \A d \in DOMAIN deletes : ~Asked(d)
        /\ \A m \in DOMAIN saves : Open(m) => m = n
    BY <1>1, <2>1 DEF Agreed, OneCall, OpenOK, Open
  <2>3. \A m \in DOMAIN saves' : Open(m)' => m = n
    BY <1>5, <2>2 DEF Open
  <2>4. \A d \in DOMAIN deletes' : ~Asked(d)'
    BY <1>1, <2>2 DEF Asked
  <2>5. OneCall'
    BY <2>3, <2>4 DEF OneCall
  <2>6. ShownOK'
    BY <1>1, <2>2 DEF ShownOK
  <2>7. \A m \in DOMAIN saves' : OpenOK(m)'
    BY <1>1, <1>3, <1>5, <2>2, <2>3 DEF OpenOK
  <2>8. \A d \in DOMAIN deletes' : AskedOK(d)'
    BY <2>4 DEF AskedOK
  <2>9. ASSUME NEW c \in DOMAIN server' PROVE StrayOK(c)'
    <3>1. CASE c = k
      BY <1>3, <1>5, <3>1 DEF StrayOK, Open
    <3>2. CASE c # k
      <4>1. /\ StrayOK(c) /\ server'[c] = server[c] /\ server[c].of # n
            /\ server[c].of \in DOMAIN saves
        BY <1>3, <1>6, <2>1, <3>2, SavesParts DEF Agreed, RowOK
      <4> QED
        BY <1>1, <1>5, <4>1 DEF StrayOK, Open
    <3> QED
      BY <3>1, <3>2
  <2> QED
    BY <2>5, <2>6, <2>7, <2>8, <2>9 DEF Agreed
<1> QED
  BY <1>7, <1>9, <1>10, <1>11 DEF SavesOK

LEMMA SavesServerRefuses ==
  ASSUME SavesOK, QuietOK, NEW n \in DOMAIN saves, ServerRefuses(n)
  PROVE  SavesOK' /\ QuietOK'
<1>1. /\ UNCHANGED <<complete, code, deletes, overlapped>>
      /\ saves[n].at = "create" /\ server' \in {server, New(n)}
      /\ saves' = [saves EXCEPT ![n].at = "failed"]
      /\ (~saves[n].complete /\ faults' = faults) \/ Fault
  BY DEF ServerRefuses
<1>2. RunBecomes(n, "failed", saves[n].code, saves[n].todo)
  BY <1>1, SavesParts, RunAt DEF Ats
<1>3. /\ saves' \in Seq(Runs) /\ DOMAIN saves' = DOMAIN saves
      /\ \A m \in DOMAIN saves : m # n => saves'[m] = saves[m]
      /\ saves'[n].at = "failed" /\ saves'[n].code = saves[n].code
      /\ saves'[n].todo = saves[n].todo /\ saves'[n].complete = saves[n].complete
      /\ saves'[n].items = saves[n].items
  BY <1>2 DEF RunBecomes
<1>4. /\ saves[n].todo = {} /\ saves[n].code = 0
      /\ \A c \in DOMAIN server : server[c].of # n
  BY <1>1, SavesParts DEF RunOK
<1>5. faults' \in Nat
  BY <1>1, SavesParts, NotQuiet
<1>6. /\ server' \in Seq(Rows) /\ DOMAIN server \subseteq DOMAIN server'
      /\ \A c \in DOMAIN server : server'[c] = server[c]
      /\ \A c \in DOMAIN server' \ DOMAIN server :
           server'[c].of = n /\ ~server'[c].pushed
  <2>1. CASE server' = server
    BY <2>1, SavesParts
  <2>2. CASE server' = New(n)
    BY <2>2, SavesParts, RowMade
  <2> QED
    BY <1>1, <2>1, <2>2
<1>7. SavesTyped' /\ CodesOK'
  <2>1. SavesTyped'
    BY <1>1, <1>3, <1>5, <1>6, SavesParts DEF SavesTyped, Runs, Calls, Rows, Plans,
       Items, Ats, CallAts
  <2> QED
    BY <1>1, <1>6, <2>1, SavesParts DEF CodesOK
<1>8. RunOK(n)'
  BY <1>3, <1>4 DEF RunOK
<1>9. \A m \in DOMAIN saves' : RunOK(m)'
  BY <1>2, <1>6, <1>8, OthersStay
<1>10. ASSUME NEW c \in DOMAIN server' PROVE RowOK(c)'
  <2>1. CASE c \notin DOMAIN server
    BY <1>3, <1>6, <2>1 DEF RowOK
  <2>2. CASE c \in DOMAIN server
    BY <1>1, <1>2, <1>6, <2>2, RowsStay
  <2> QED
    BY <2>1, <2>2
<1>11. CASE Fault
  BY <1>7, <1>9, <1>10, <1>11, NotQuiet DEF SavesOK
<1>12. CASE ~saves[n].complete /\ faults' = faults
  <2> SUFFICES ASSUME ~overlapped', faults' = 0 PROVE Agreed'
    BY <1>7, <1>9, <1>10 DEF QuietOK, SavesOK
  <2>1. Agreed
    BY <1>1, <1>12 DEF QuietOK
  <2>2. /\ Open(n) /\ code = 0 /\ \A d \in DOMAIN deletes : ~Asked(d)
        /\ \A m \in DOMAIN saves : Open(m) => m = n
    BY <1>1, <2>1 DEF Agreed, OneCall, OpenOK, Open
  <2>3. \A m \in DOMAIN saves' : ~Open(m)'
    BY <1>3, <2>2 DEF Open
  <2>4. \A d \in DOMAIN deletes' : ~Asked(d)'
    BY <1>1, <2>2 DEF Asked
  <2>5. OneCall' /\ ShownOK'
    BY <1>1, <2>2, <2>3, <2>4 DEF OneCall, ShownOK
  <2>6. \A m \in DOMAIN saves' : OpenOK(m)'
    BY <2>3 DEF OpenOK
  <2>7. \A d \in DOMAIN deletes' : AskedOK(d)'
    BY <2>4 DEF AskedOK
  <2>8. ASSUME NEW c \in DOMAIN server' PROVE StrayOK(c)'
    <3>1. CASE c \notin DOMAIN server
      BY <1>3, <1>6, <1>12, <3>1 DEF StrayOK
    <3>2. CASE c \in DOMAIN server
      <4>1. /\ StrayOK(c) /\ server'[c] = server[c] /\ server[c].of # n
            /\ server[c].of \in DOMAIN saves
        BY <1>4, <1>6, <2>1, <3>2, SavesParts DEF Agreed, RowOK
      <4> QED
        BY <1>1, <1>3, <4>1 DEF StrayOK, Open
    <3> QED
      BY <3>1, <3>2
  <2> QED
    BY <2>5, <2>6, <2>7, <2>8 DEF Agreed
<1> QED
  BY <1>1, <1>11, <1>12

(* The answer names the row the run has made, and the page shows it.         *)
LEMMA SavesCreateAnswered ==
  ASSUME SavesOK, QuietOK, NEW n \in DOMAIN saves, CreateAnswered(n)
  PROVE  SavesOK' /\ QuietOK'
<1>1. /\ UNCHANGED <<complete, deletes, server, overlapped, faults>>
      /\ saves[n].at = "created" /\ code' = saves[n].code
      /\ saves' = [saves EXCEPT ![n].at = "add", ![n].todo = DOMAIN saves[n].items]
  BY DEF CreateAnswered
<1>2. DOMAIN saves[n].items \in SUBSET Nat
  BY SavesParts, RunParts DEF Plans
<1>3. RunBecomes(n, "add", saves[n].code, DOMAIN saves[n].items)
  BY <1>1, <1>2, SavesParts, RunAtTodo DEF Ats
<1>4. /\ saves' \in Seq(Runs) /\ DOMAIN saves' = DOMAIN saves
      /\ \A m \in DOMAIN saves : m # n => saves'[m] = saves[m]
      /\ saves'[n].at = "add" /\ saves'[n].code = saves[n].code
      /\ saves'[n].todo = DOMAIN saves[n].items
      /\ saves'[n].complete = saves[n].complete
      /\ saves'[n].items = saves[n].items
  BY <1>3 DEF RunBecomes
<1>5. /\ saves[n].code # 0 /\ saves[n].code \in DOMAIN server
      /\ \A c \in DOMAIN server : server[c].of = n <=> c = saves[n].code
      /\ DOMAIN server[saves[n].code].items = {}
  BY <1>1, SavesParts DEF RunOK
<1>6. SavesTyped' /\ CodesOK'
  <2>1. saves[n].code \in Nat
    BY SavesParts, RunParts
  <2>2. SavesTyped'
    BY <1>1, <1>4, <2>1, SavesParts DEF SavesTyped, Runs, Calls, Rows, Plans,
       Items, Ats, CallAts
  <2> QED
    BY <1>1, <1>5, <2>2, SavesParts DEF CodesOK
<1>7. RunOK(n)'
  BY <1>1, <1>4, <1>5 DEF RunOK
<1>8. \A m \in DOMAIN saves' : RunOK(m)'
  BY <1>1, <1>3, <1>7, OthersStay
<1>9. \A c \in DOMAIN server' : RowOK(c)'
  BY <1>1, <1>3, RowsStay
<1>10. QuietOK'
  <2> SUFFICES ASSUME ~overlapped', faults' = 0 PROVE Agreed'
    BY DEF QuietOK
  <2>1. Agreed
    BY <1>1 DEF QuietOK
  <2>2. /\ Open(n) /\ code = 0 /\ \A d \in DOMAIN deletes : ~Asked(d)
        /\ \A m \in DOMAIN saves : Open(m) => m = n
        /\ server[saves[n].code].live
    BY <1>1, <2>1 DEF Agreed, OneCall, OpenOK, Open
  <2>3. \A m \in DOMAIN saves' : ~Open(m)'
    BY <1>4, <2>2 DEF Open
  <2>4. \A d \in DOMAIN deletes' : ~Asked(d)'
    BY <1>1, <2>2 DEF Asked
  <2>5. OneCall' /\ ShownOK'
    BY <1>1, <2>2, <2>3, <2>4 DEF OneCall, ShownOK
  <2>6. \A m \in DOMAIN saves' : OpenOK(m)'
    BY <2>3 DEF OpenOK
  <2>7. \A d \in DOMAIN deletes' : AskedOK(d)'
    BY <2>4 DEF AskedOK
  <2>8. ASSUME NEW c \in DOMAIN server' PROVE StrayOK(c)'
    <3>1. CASE c = saves[n].code
      BY <1>1, <3>1 DEF StrayOK
    <3>2. CASE c # saves[n].code
      <4>1. /\ c # 0 /\ server[c].of # n /\ server[c].of \in DOMAIN saves
            /\ StrayOK(c)
        <5>1. c \in DOMAIN server /\ c # 0
          BY <1>1, SavesParts
        <5> QED
          BY <1>5, <2>1, <3>2, <5>1, SavesParts DEF Agreed, RowOK
      <4> QED
        BY <1>1, <1>4, <2>2, <4>1 DEF StrayOK, Open
    <3> QED
      BY <3>1, <3>2
  <2> QED
    BY <2>5, <2>6, <2>7, <2>8 DEF Agreed
<1> QED
  BY <1>6, <1>8, <1>9, <1>10 DEF SavesOK

LEMMA SavesCreateLost ==
  ASSUME SavesOK, QuietOK, NEW n \in DOMAIN saves, CreateLost(n)
  PROVE  SavesOK' /\ QuietOK'
<1>1. /\ UNCHANGED <<complete, code, deletes, server, overlapped>> /\ Fault
      /\ saves[n].at = "created" /\ saves' = [saves EXCEPT ![n].at = "failed"]
  BY DEF CreateLost
<1>2. RunBecomes(n, "failed", saves[n].code, saves[n].todo)
  BY <1>1, SavesParts, RunAt DEF Ats
<1>3. /\ saves' \in Seq(Runs) /\ DOMAIN saves' = DOMAIN saves
      /\ \A m \in DOMAIN saves : m # n => saves'[m] = saves[m]
      /\ saves'[n].at = "failed" /\ saves'[n].code = saves[n].code
      /\ saves'[n].todo = saves[n].todo /\ saves'[n].items = saves[n].items
  BY <1>2 DEF RunBecomes
<1>4. QuietOK' /\ faults' \in Nat
  BY <1>1, NotQuiet
<1>5. SavesTyped' /\ CodesOK'
  <2>1. SavesTyped'
    BY <1>1, <1>3, <1>4, SavesParts DEF SavesTyped, Runs, Calls, Rows, Plans,
       Items, Ats, CallAts
  <2> QED
    BY <1>1, <2>1, SavesParts DEF CodesOK
<1>6. RunOK(n)'
  <2>1. /\ saves[n].todo = {} /\ saves[n].code # 0
        /\ saves[n].code \in DOMAIN server
        /\ \A c \in DOMAIN server : server[c].of = n <=> c = saves[n].code
    BY <1>1, SavesParts DEF RunOK
  <2> QED
    BY <1>1, <1>3, <2>1 DEF RunOK
<1>7. \A m \in DOMAIN saves' : RunOK(m)'
  BY <1>1, <1>2, <1>6, OthersStay
<1>8. \A c \in DOMAIN server' : RowOK(c)'
  BY <1>1, <1>2, RowsStay
<1> QED
  BY <1>4, <1>5, <1>7, <1>8 DEF SavesOK

LEMMA RunTodo ==
  ASSUME SavesTyped, NEW n \in DOMAIN saves, NEW todo \in SUBSET Nat,
         saves' = [saves EXCEPT ![n].todo = todo]
  PROVE  RunBecomes(n, saves[n].at, saves[n].code, todo)
<1>1. PICK s \in Seq(Runs) : s = saves
  BY DEF SavesTyped
<1>2. s[n] \in Runs /\ s[n].code \in Nat /\ s[n].at \in Ats
  <2>1. s[n] \in Runs
    BY <1>1
  <2> QED
    BY <2>1 DEF Runs
<1>3. [s[n] EXCEPT !.todo = todo]
        = [s[n] EXCEPT !.at = s[n].at, !.code = s[n].code, !.todo = todo]
  BY <1>2 DEF Runs
<1>4. saves' = [s EXCEPT ![n] = [s[n] EXCEPT !.todo = todo]]
  BY <1>1
<1> QED
  BY <1>1, <1>2, <1>3, <1>4, RunSet

LEMMA RunTodoAt ==
  ASSUME SavesTyped, NEW n \in DOMAIN saves, NEW at \in Ats,
         NEW todo \in SUBSET Nat,
         saves' = [saves EXCEPT ![n].todo = todo, ![n].at = at]
  PROVE  RunBecomes(n, at, saves[n].code, todo)
<1>1. PICK s \in Seq(Runs) : s = saves
  BY DEF SavesTyped
<1>2. s[n] \in Runs /\ s[n].code \in Nat
  <2>1. s[n] \in Runs
    BY <1>1
  <2> QED
    BY <2>1 DEF Runs
<1>3. [s[n] EXCEPT !.todo = todo, !.at = at]
        = [s[n] EXCEPT !.at = at, !.code = s[n].code, !.todo = todo]
  BY <1>2 DEF Runs
<1>4. [s EXCEPT ![n].todo = todo, ![n].at = at]
        = [s EXCEPT ![n] = [s[n] EXCEPT !.todo = todo, !.at = at]]
  BY <1>1, <1>2 DEF Runs
<1> QED
  BY <1>1, <1>2, <1>3, <1>4, RunSet

(* What happens to a run whose strategy is made leaves page and server in    *)
(* agreement.                                                                *)
LEMMA AgreedStays ==
  ASSUME SavesOK, Agreed, NEW n \in DOMAIN saves, ~Open(n),
         NEW at, at \notin {"create", "created"}, NEW k, NEW todo,
         RunBecomes(n, at, k, todo), UNCHANGED <<code, deletes>>,
         DOMAIN server' = DOMAIN server,
         \A c \in DOMAIN server : /\ server'[c].of = server[c].of
                                  /\ server'[c].live = server[c].live
  PROVE  Agreed'
<1>1. /\ DOMAIN saves' = DOMAIN saves
      /\ \A m \in DOMAIN saves : /\ Open(m)' <=> Open(m)
                                 /\ m # n => saves'[m] = saves[m]
                                 /\ saves'[m].complete = saves[m].complete
  BY DEF RunBecomes, Open
<1>2. OneCall'
  BY <1>1 DEF Agreed, OneCall, Asked
<1>3. ShownOK'
  BY SavesParts DEF Agreed, ShownOK, CodesOK
<1>4. ASSUME NEW m \in DOMAIN saves' PROVE OpenOK(m)'
  <2>1. OpenOK(m) /\ RunOK(m)
    BY <1>1, SavesParts DEF Agreed
  <2>2. CASE m = n
    BY <1>1, <2>2 DEF OpenOK
  <2>3. CASE m # n
    <3>1. saves'[m] = saves[m] /\ (Open(m)' <=> Open(m))
      BY <1>1, <2>3
    <3>2. saves[m].at = "created" => saves[m].code \in DOMAIN server
      BY <2>1 DEF RunOK
    <3> QED
      BY <2>1, <3>1, <3>2 DEF OpenOK
  <2> QED
    BY <2>2, <2>3
<1>5. ASSUME NEW d \in DOMAIN deletes' PROVE AskedOK(d)'
  <2>1. AskedOK(d) /\ deletes[d].code \in DOMAIN server
    BY SavesParts DEF Agreed, CodesOK
  <2> QED
    BY <2>1 DEF AskedOK, Asked
<1>6. ASSUME NEW c \in DOMAIN server' PROVE StrayOK(c)'
  <2>1. StrayOK(c) /\ server[c].of \in DOMAIN saves
    BY SavesParts DEF Agreed, RowOK
  <2> QED
    BY <1>1, <2>1 DEF StrayOK
<1> QED
  BY <1>2, <1>3, <1>4, <1>5, <1>6 DEF Agreed

(* A run that still has tickers to add.                                      *)
LEMMA RunAdds ==
  ASSUME SavesOK, NEW n \in DOMAIN saves, NEW i \in saves[n].todo
  PROVE  /\ saves[n].at \in {"add", "failed"} /\ ~Open(n)
         /\ saves[n].code \in DOMAIN server
         /\ \A c \in DOMAIN server : server[c].of = n <=> c = saves[n].code
         /\ i \in DOMAIN saves[n].items /\ i \in Nat
         /\ saves[n].items[i] \in Items /\ saves[n].todo \ {i} \in SUBSET Nat
<1>1. RunOK(n) /\ saves[n].items \in Plans /\ saves[n].todo \in SUBSET Nat
  BY SavesParts, RunParts
<1>2. i \in DOMAIN saves[n].items /\ saves[n].at \in {"add", "failed"}
      /\ saves[n].code # 0
  BY <1>1 DEF RunOK
<1>3. /\ saves[n].code \in DOMAIN server
      /\ \A c \in DOMAIN server : server[c].of = n <=> c = saves[n].code
  BY <1>1, <1>2 DEF RunOK
<1>4. saves[n].items[i] \in Items
  BY <1>1, <1>2 DEF Plans
<1> QED
  BY <1>1, <1>2, <1>3, <1>4 DEF Open

LEMMA Joined ==
  ASSUME NEW f \in Plans, NEW i \in Nat, NEW x \in Items
  PROVE  /\ With(f, i, x) \in Plans
         /\ DOMAIN With(f, i, x) = DOMAIN f \union {i}
         /\ With(f, i, x)[i] = x
         /\ \A j \in DOMAIN f : j # i => With(f, i, x)[j] = f[j]
<1>1. PICK D \in SUBSET Nat : f \in [D -> Items]
  BY DEF Plans
<1>2. DOMAIN f \union {i} \in SUBSET Nat
  BY <1>1
<1>3. With(f, i, x) \in [DOMAIN f \union {i} -> Items]
  BY <1>1 DEF With
<1> QED
  BY <1>2, <1>3 DEF With, Plans

(* What fails of a run whose strategy is made.                               *)
LEMMA SavesFail ==
  ASSUME SavesOK, NEW n \in DOMAIN saves, saves[n].at \in {"add", "failed"},
         NEW todo \in SUBSET saves[n].todo,
         RunBecomes(n, "failed", saves[n].code, todo),
         UNCHANGED <<complete, code, deletes, server, overlapped>>,
         faults' \in Nat
  PROVE  SavesOK'
<1>1. /\ saves' \in Seq(Runs) /\ DOMAIN saves' = DOMAIN saves
      /\ saves'[n].at = "failed" /\ saves'[n].code = saves[n].code
      /\ saves'[n].todo = todo /\ saves'[n].items = saves[n].items
  BY DEF RunBecomes
<1>2. SavesTyped' /\ CodesOK'
  <2>1. SavesTyped'
    BY <1>1, SavesParts DEF SavesTyped, Runs, Calls, Rows, Plans, Items, Ats,
       CallAts
  <2> QED
    BY <2>1, SavesParts DEF CodesOK
<1>3. RunOK(n)'
  <2>1. /\ saves[n].todo \subseteq DOMAIN saves[n].items
        /\ saves[n].todo # {} => saves[n].code # 0
        /\ saves[n].code # 0 =>
             /\ saves[n].code \in DOMAIN server
             /\ \A c \in DOMAIN server : server[c].of = n <=> c = saves[n].code
    BY SavesParts DEF RunOK
  <2> QED
    BY <1>1, <2>1 DEF RunOK
<1>4. \A m \in DOMAIN saves' : RunOK(m)'
  BY <1>3, OthersStay
<1>5. \A c \in DOMAIN server' : RowOK(c)'
  BY RowsStay
<1> QED
  BY <1>2, <1>4, <1>5 DEF SavesOK

LEMMA SavesAddUniversal ==
  ASSUME SavesOK, QuietOK, NEW n \in DOMAIN saves, NEW i \in saves[n].todo,
         AddUniversal(n, i)
  PROVE  SavesOK' /\ QuietOK'
<1> DEFINE k    == saves[n].code
           left == saves[n].todo \ {i}
<1>1. /\ UNCHANGED <<complete, code, deletes, overlapped, faults>>
      /\ IF server[k].live
           THEN /\ server' = [server EXCEPT ![k].items = With(@, i, Sent(n, i))]
                /\ saves'  = [saves EXCEPT ![n].todo = @ \ {i}]
           ELSE /\ saves'  = [saves EXCEPT ![n].todo = @ \ {i},
                                           ![n].at = "failed"]
                /\ server' = server
  BY DEF AddUniversal
<1>2. /\ saves[n].at \in {"add", "failed"} /\ ~Open(n) /\ k \in DOMAIN server
      /\ \A c \in DOMAIN server : server[c].of = n <=> c = k
      /\ i \in DOMAIN saves[n].items /\ i \in Nat /\ saves[n].items[i] \in Items
      /\ left \in SUBSET Nat
  BY RunAdds
<1> HIDE DEF left
<1>3. CASE server[k].live
  <2>1. saves' = [saves EXCEPT ![n].todo = left]
    BY <1>1, <1>3 DEF left
  <2>2. RunBecomes(n, saves[n].at, k, left)
    BY <1>2, <2>1, SavesParts, RunTodo
  <2>3. /\ saves' \in Seq(Runs) /\ DOMAIN saves' = DOMAIN saves
        /\ saves'[n].at = saves[n].at /\ saves'[n].code = k
        /\ saves'[n].todo = left /\ saves'[n].items = saves[n].items
    BY <2>2 DEF RunBecomes
  <2>4. PICK got \in Plans : got = server[k].items
    BY <1>2, SavesParts, RowParts
  <2>5. PICK new \in Plans : new = With(got, i, saves[n].items[i])
    BY <1>2, Joined
  <2>6. /\ DOMAIN new = DOMAIN got \union {i} /\ new[i] = saves[n].items[i]
        /\ \A j \in DOMAIN got : j # i => new[j] = got[j]
    BY <1>2, <2>5, Joined
  <2>7. server' = [server EXCEPT ![k].items = new]
    BY <1>1, <1>3, <2>4, <2>5 DEF Sent
  <2>8. RowBecomes(k, new, server[k].live, server[k].pushed)
    BY <1>2, <2>7, SavesParts, RowItems
  <2>9. /\ server' \in Seq(Rows) /\ DOMAIN server' = DOMAIN server
        /\ server'[k].items = new
        /\ \A c \in DOMAIN server :
             /\ c # k => server'[c] = server[c]
             /\ server'[c].of = server[c].of /\ server'[c].live = server[c].live
             /\ server'[c].pushed = server[c].pushed
    BY <2>8 DEF RowBecomes
  <2>10. SavesTyped' /\ CodesOK'
    <3>1. SavesTyped'
      BY <1>1, <2>3, <2>9, SavesParts DEF SavesTyped, Runs, Calls, Rows, Plans,
         Items, Ats, CallAts
    <3> QED
      BY <1>1, <2>9, <3>1, SavesParts DEF CodesOK
  <2>11. RunOK(n)'
    <3>1. /\ saves[n].todo \subseteq DOMAIN saves[n].items /\ k # 0
          /\ saves[n].at = "add" =>
               /\ DOMAIN got = DOMAIN saves[n].items \ saves[n].todo
               /\ \A j \in DOMAIN got : got[j] = saves[n].items[j]
      BY <2>4, SavesParts DEF RunOK
    <3>2. left \subseteq DOMAIN saves[n].items
      BY <3>1 DEF left
    <3>3. ASSUME saves[n].at = "add"
          PROVE  /\ DOMAIN new = DOMAIN saves[n].items \ left
                 /\ \A j \in DOMAIN new : new[j] = saves[n].items[j]
      BY <1>2, <2>6, <3>1, <3>3 DEF left
    <3>4. \A c \in DOMAIN server' : server'[c].of = n <=> c = k
      BY <1>2, <2>9
    <3> QED
      BY <1>2, <2>3, <2>9, <3>1, <3>2, <3>3, <3>4 DEF RunOK
  <2>12. \A m \in DOMAIN saves' : RunOK(m)'
    BY <1>2, <2>2, <2>9, <2>11, OthersStay
  <2>13. \A c \in DOMAIN server' : RowOK(c)'
    BY <1>2, <2>2, <2>9, RowsStay
  <2>14. Agreed => Agreed'
    BY <1>1, <1>2, <2>2, <2>9, AgreedStays
  <2> QED
    BY <1>1, <2>10, <2>12, <2>13, <2>14 DEF SavesOK, QuietOK
<1>4. CASE ~server[k].live
  <2>1. saves' = [saves EXCEPT ![n].todo = left, ![n].at = "failed"]
    BY <1>1, <1>4 DEF left
  <2>2. RunBecomes(n, "failed", k, left)
    BY <1>2, <2>1, SavesParts, RunTodoAt DEF Ats
  <2>3. left \in SUBSET saves[n].todo /\ server' = server
    BY <1>1, <1>4 DEF left
  <2>4. SavesOK'
    BY <1>1, <1>2, <2>2, <2>3, SavesParts, SavesFail
  <2>5. Agreed => Agreed'
    BY <1>1, <1>2, <2>2, <2>3, AgreedStays
  <2> QED
    BY <1>1, <2>4, <2>5 DEF QuietOK
<1> QED
  BY <1>3, <1>4

LEMMA SavesAddUniversalLost ==
  ASSUME SavesOK, QuietOK, NEW n \in DOMAIN saves, NEW i \in saves[n].todo,
         AddUniversalLost(n, i)
  PROVE  SavesOK' /\ QuietOK'
<1> DEFINE left == saves[n].todo \ {i}
<1>1. /\ UNCHANGED <<complete, code, deletes, server, overlapped>> /\ Fault
      /\ saves' = [saves EXCEPT ![n].todo = left, ![n].at = "failed"]
  BY DEF AddUniversalLost
<1>2. saves[n].at \in {"add", "failed"} /\ left \in SUBSET Nat
  BY RunAdds
<1>3. left \in SUBSET saves[n].todo
  OBVIOUS
<1> HIDE DEF left
<1>4. RunBecomes(n, "failed", saves[n].code, left)
  BY <1>1, <1>2, SavesParts, RunTodoAt DEF Ats
<1>5. QuietOK' /\ faults' \in Nat
  BY <1>1, NotQuiet
<1> QED
  BY <1>1, <1>2, <1>3, <1>4, <1>5, SavesFail

(* Every ticker is there when the backtest is asked for.                     *)
LEMMA SavesPush ==
  ASSUME SavesOK, QuietOK, NEW n \in DOMAIN saves, Push(n)
  PROVE  SavesOK' /\ QuietOK'
<1> DEFINE k == saves[n].code
<1>1. /\ UNCHANGED <<complete, code, deletes, overlapped, faults>>
      /\ saves[n].at = "add" /\ saves[n].todo = {}
      /\ IF server[k].live
           THEN /\ server' = [server EXCEPT ![k].pushed = TRUE]
                /\ saves'  = [saves EXCEPT ![n].at = "done"]
           ELSE /\ saves'  = [saves EXCEPT ![n].at = "failed"]
                /\ server' = server
  BY DEF Push
<1>2. /\ k \in DOMAIN server /\ k # 0 /\ ~Open(n)
      /\ \A c \in DOMAIN server : server[c].of = n <=> c = k
      /\ DOMAIN server[k].items = DOMAIN saves[n].items
      /\ \A i \in DOMAIN server[k].items : server[k].items[i] = saves[n].items[i]
  <2>1. RunOK(n)
    BY SavesParts
  <2>2. k # 0
    BY <1>1, <2>1 DEF RunOK
  <2> QED
    BY <1>1, <2>1, <2>2 DEF RunOK, Open
<1>3. CASE server[k].live
  <2>1. /\ server' = [server EXCEPT ![k].pushed = TRUE]
        /\ saves'  = [saves EXCEPT ![n].at = "done"]
    BY <1>1, <1>3
  <2>2. RunBecomes(n, "done", k, saves[n].todo)
    BY <2>1, SavesParts, RunAt DEF Ats
  <2>3. /\ saves' \in Seq(Runs) /\ DOMAIN saves' = DOMAIN saves
        /\ saves'[n].at = "done" /\ saves'[n].code = k
        /\ saves'[n].todo = {} /\ saves'[n].items = saves[n].items
    BY <1>1, <2>2 DEF RunBecomes
  <2>4. RowBecomes(k, server[k].items, server[k].live, TRUE)
    BY <1>2, <2>1, SavesParts, RowPushed
  <2>5. /\ server' \in Seq(Rows) /\ DOMAIN server' = DOMAIN server
        /\ \A c \in DOMAIN server :
             /\ c # k => server'[c] = server[c]
             /\ server'[c].of = server[c].of /\ server'[c].live = server[c].live
             /\ server'[c].items = server[c].items
    BY <2>4 DEF RowBecomes
  <2>6. SavesTyped' /\ CodesOK'
    <3>1. SavesTyped'
      BY <1>1, <2>3, <2>5, SavesParts DEF SavesTyped, Runs, Calls, Rows, Plans,
         Items, Ats, CallAts
    <3> QED
      BY <1>1, <2>5, <3>1, SavesParts DEF CodesOK
  <2>7. RunOK(n)'
    BY <1>2, <2>3, <2>5 DEF RunOK
  <2>8. \A m \in DOMAIN saves' : RunOK(m)'
    BY <1>2, <2>2, <2>5, <2>7, OthersStay
  <2>9. ASSUME NEW c \in DOMAIN server' PROVE RowOK(c)'
    <3>1. CASE c = k
      <4>1. server[k].items = saves[n].items
        BY <1>2, SavesParts, RunParts, RowParts, SamePlan
      <4>2. server'[k].of = n /\ server'[k].items = saves[n].items
        BY <1>2, <2>5, <4>1
      <4> QED
        BY <2>3, <3>1, <4>2 DEF RowOK
    <3>2. CASE c # k
      BY <1>1, <2>2, <2>5, <3>2, RowsStay
    <3> QED
      BY <3>1, <3>2
  <2>10. Agreed => Agreed'
    BY <1>1, <1>2, <2>2, <2>5, AgreedStays
  <2> QED
    BY <1>1, <2>6, <2>8, <2>9, <2>10 DEF SavesOK, QuietOK
<1>4. CASE ~server[k].live
  <2>1. saves' = [saves EXCEPT ![n].at = "failed"] /\ server' = server
    BY <1>1, <1>4
  <2>2. RunBecomes(n, "failed", k, saves[n].todo)
    BY <2>1, SavesParts, RunAt DEF Ats
  <2>3. SavesOK'
    BY <1>1, <2>1, <2>2, SavesParts, SavesFail
  <2>4. Agreed => Agreed'
    BY <1>1, <1>2, <2>1, <2>2, AgreedStays
  <2> QED
    BY <1>1, <2>3, <2>4 DEF QuietOK
<1> QED
  BY <1>3, <1>4

(* A deletion changes what the runs have made in nothing but that it is gone. *)
LEMMA SavesServerDeletes ==
  ASSUME SavesOK, QuietOK, NEW d \in DOMAIN deletes, ServerDeletes(d)
  PROVE  SavesOK' /\ QuietOK'
<1> DEFINE k == deletes[d].code
<1>1. /\ UNCHANGED <<complete, code, saves, overlapped, faults>>
      /\ deletes[d].at = "asked" /\ k \in DOMAIN server
      /\ IF server[k].live
           THEN /\ server'  = [server EXCEPT ![k].live = FALSE]
                /\ deletes' = [deletes EXCEPT ![d].at = "deleted"]
           ELSE /\ deletes' = [deletes EXCEPT ![d].at = "failed"]
                /\ server' = server
  BY SavesParts DEF ServerDeletes, CodesOK
<1>2. CASE server[k].live
  <2>1. CallBecomes(d, "deleted")
    BY <1>1, <1>2, SavesParts, CallAt DEF CallAts
  <2>2. /\ deletes' \in Seq(Calls) /\ DOMAIN deletes' = DOMAIN deletes
        /\ \A e \in DOMAIN deletes : e # d => deletes'[e] = deletes[e]
        /\ deletes'[d].at = "deleted" /\ deletes'[d].code = k
    BY <2>1 DEF CallBecomes
  <2>3. RowBecomes(k, server[k].items, FALSE, server[k].pushed)
    BY <1>1, <1>2, SavesParts, RowGone
  <2>4. /\ server' \in Seq(Rows) /\ DOMAIN server' = DOMAIN server
        /\ ~server'[k].live
        /\ \A c \in DOMAIN server :
             /\ c # k => server'[c] = server[c]
             /\ server'[c].of = server[c].of /\ server'[c].pushed = server[c].pushed
             /\ server'[c].items = server[c].items
    BY <2>3 DEF RowBecomes
  <2>5. SavesTyped' /\ CodesOK'
    <3>1. SavesTyped'
      BY <1>1, <2>2, <2>4, SavesParts DEF SavesTyped, Runs, Calls, Rows, Plans,
         Items, Ats, CallAts
    <3> QED
      BY <1>1, <2>2, <2>4, <3>1, SavesParts DEF CodesOK
  <2>6. \A m \in DOMAIN saves' : RunOK(m)'
    BY <1>1, <2>4, SavesParts, RunStays
  <2>7. \A c \in DOMAIN server' : RowOK(c)'
    BY <1>1, <2>4, SavesParts, RowStays
  <2>8. QuietOK'
    <3> SUFFICES ASSUME ~overlapped', faults' = 0 PROVE Agreed'
      BY DEF QuietOK
    <3>1. Agreed
      BY <1>1 DEF QuietOK
    <3>2. /\ code = k /\ code # 0 /\ \A m \in DOMAIN saves : ~Open(m)
          /\ \A e \in DOMAIN deletes : Asked(e) => e = d
      BY <1>1, <3>1 DEF Agreed, OneCall, AskedOK, Asked
    <3>3. \A m \in DOMAIN saves' : ~Open(m)'
      BY <1>1, <3>2 DEF Open
    <3>4. \A e \in DOMAIN deletes' : Asked(e)' => e = d
      BY <2>2, <3>2 DEF Asked
    <3>5. OneCall'
      BY <3>3, <3>4 DEF OneCall
    <3>6. ShownOK'
      BY <1>1, <2>2, <3>2 DEF ShownOK
    <3>7. \A m \in DOMAIN saves' : OpenOK(m)'
      BY <3>3 DEF OpenOK
    <3>8. \A e \in DOMAIN deletes' : AskedOK(e)'
      BY <1>1, <2>2, <2>4, <3>2, <3>4 DEF AskedOK
    <3>9. ASSUME NEW c \in DOMAIN server' PROVE StrayOK(c)'
      <4>1. CASE c = k
        BY <1>1, <3>2, <4>1 DEF StrayOK
      <4>2. CASE c # k
        <5>1. StrayOK(c) /\ server'[c] = server[c]
          BY <2>4, <3>1, <4>2 DEF Agreed
        <5> QED
          BY <1>1, <5>1 DEF StrayOK, Open
      <4> QED
        BY <4>1, <4>2
    <3> QED
      BY <3>5, <3>6, <3>7, <3>8, <3>9 DEF Agreed
  <2> QED
    BY <2>5, <2>6, <2>7, <2>8 DEF SavesOK
<1>3. CASE ~server[k].live
  <2>1. CallBecomes(d, "failed") /\ server' = server
    BY <1>1, <1>3, SavesParts, CallAt DEF CallAts
  <2>2. /\ deletes' \in Seq(Calls) /\ DOMAIN deletes' = DOMAIN deletes
        /\ \A e \in DOMAIN deletes : e # d => deletes'[e] = deletes[e]
        /\ deletes'[d].at = "failed" /\ deletes'[d].code = k
    BY <2>1 DEF CallBecomes
  <2>3. SavesTyped' /\ CodesOK'
    <3>1. SavesTyped'
      BY <1>1, <2>1, <2>2, SavesParts DEF SavesTyped, Runs, Calls, Rows, Plans,
         Items, Ats, CallAts
    <3> QED
      BY <1>1, <2>1, <2>2, <3>1, SavesParts DEF CodesOK
  <2>4. ~Agreed
    <3> SUFFICES ASSUME Agreed PROVE FALSE
      OBVIOUS
    <3>1. Asked(d) /\ code = k /\ code # 0
      BY <1>1 DEF Agreed, AskedOK, Asked
    <3>2. PICK e \in DOMAIN deletes : deletes[e].at = "deleted"
      BY <1>3, <3>1 DEF Agreed, ShownOK
    <3>3. e = d
      BY <3>1, <3>2 DEF Agreed, OneCall, Asked
    <3> QED
      BY <1>1, <3>2, <3>3
  <2>5. QuietOK'
    BY <1>1, <2>4 DEF QuietOK
  <2> QED
    BY <1>1, <2>1, <2>3, <2>5, SavesRest
<1> QED
  BY <1>2, <1>3

LEMMA SavesDeleteAnswered ==
  ASSUME SavesOK, QuietOK, NEW d \in DOMAIN deletes, DeleteAnswered(d)
  PROVE  SavesOK' /\ QuietOK'
<1>1. /\ UNCHANGED <<complete, saves, server, overlapped, faults>>
      /\ deletes[d].at = "deleted" /\ code' = 0
      /\ deletes' = [deletes EXCEPT ![d].at = "done"]
  BY DEF DeleteAnswered
<1>2. CallBecomes(d, "done")
  BY <1>1, SavesParts, CallAt DEF CallAts
<1>3. /\ deletes' \in Seq(Calls) /\ DOMAIN deletes' = DOMAIN deletes
      /\ \A e \in DOMAIN deletes : e # d => deletes'[e] = deletes[e]
      /\ deletes'[d].at = "done" /\ deletes'[d].code = deletes[d].code
  BY <1>2 DEF CallBecomes
<1>4. SavesTyped' /\ CodesOK'
  <2>1. SavesTyped'
    BY <1>1, <1>3, SavesParts DEF SavesTyped, Runs, Calls, Rows, Plans, Items,
       Ats, CallAts
  <2> QED
    BY <1>1, <1>3, <2>1, SavesParts DEF CodesOK
<1>5. QuietOK'
  <2> SUFFICES ASSUME ~overlapped', faults' = 0 PROVE Agreed'
    BY DEF QuietOK
  <2>1. Agreed
    BY <1>1 DEF QuietOK
  <2>2. /\ code # 0 /\ ~server[code].live /\ \A m \in DOMAIN saves : ~Open(m)
        /\ \A e \in DOMAIN deletes : Asked(e) => e = d
    BY <1>1, <2>1 DEF Agreed, OneCall, AskedOK, Asked
  <2>3. \A m \in DOMAIN saves' : ~Open(m)'
    BY <1>1, <2>2 DEF Open
  <2>4. \A e \in DOMAIN deletes' : ~Asked(e)'
    BY <1>3, <2>2 DEF Asked
  <2>5. OneCall' /\ ShownOK'
    BY <1>1, <2>3, <2>4 DEF OneCall, ShownOK
  <2>6. \A m \in DOMAIN saves' : OpenOK(m)'
    BY <2>3 DEF OpenOK
  <2>7. \A e \in DOMAIN deletes' : AskedOK(e)'
    BY <2>4 DEF AskedOK
  <2>8. ASSUME NEW c \in DOMAIN server' PROVE StrayOK(c)'
    <3>1. StrayOK(c)
      BY <1>1, <2>1 DEF Agreed
    <3> QED
      BY <1>1, <2>2, <3>1 DEF StrayOK, Open
  <2> QED
    BY <2>5, <2>6, <2>7, <2>8 DEF Agreed
<1> QED
  BY <1>1, <1>4, <1>5, SavesRest

LEMMA SavesDeleteLost ==
  ASSUME SavesOK, QuietOK, NEW d \in DOMAIN deletes, DeleteLost(d)
  PROVE  SavesOK' /\ QuietOK'
<1>1. /\ UNCHANGED <<complete, code, saves, server, overlapped>> /\ Fault
      /\ deletes' = [deletes EXCEPT ![d].at = "failed"]
  BY DEF DeleteLost
<1>2. CallBecomes(d, "failed")
  BY <1>1, SavesParts, CallAt DEF CallAts
<1>3. /\ deletes' \in Seq(Calls) /\ DOMAIN deletes' = DOMAIN deletes
      /\ \A e \in DOMAIN deletes : deletes'[e].code = deletes[e].code
  BY <1>2 DEF CallBecomes
<1>4. QuietOK' /\ faults' \in Nat
  BY <1>1, NotQuiet
<1>5. SavesTyped' /\ CodesOK'
  <2>1. SavesTyped'
    BY <1>1, <1>3, <1>4, SavesParts DEF SavesTyped, Runs, Calls, Rows, Plans,
       Items, Ats, CallAts
  <2> QED
    BY <1>1, <1>3, <2>1, SavesParts DEF CodesOK
<1> QED
  BY <1>1, <1>4, <1>5, SavesRest

LEMMA SavesSaveStep ==
  ASSUME SavesOK, QuietOK, ListOK, SaveStep
  PROVE  SavesOK' /\ QuietOK'
<1>1. CASE FillBasic
  <2>1. /\ complete' \in BOOLEAN
        /\ UNCHANGED <<saves, server, deletes, code, overlapped, faults>>
    BY <1>1 DEF FillBasic
  <2> QED
    BY <2>1, SavesStand
<1>2. CASE ClickCreate
  BY <1>2, SavesClickCreate
<1>3. CASE ClickReCreate
  BY <1>3, SavesClickReCreate
<1>4. ASSUME NEW n \in DOMAIN saves,
             \/ ServerCreates(n) \/ ServerRefuses(n)
             \/ CreateAnswered(n) \/ CreateLost(n) \/ Push(n)
      PROVE  SavesOK' /\ QuietOK'
  BY <1>4, SavesServerCreates, SavesServerRefuses, SavesCreateAnswered,
     SavesCreateLost, SavesPush
<1>5. ASSUME NEW n \in DOMAIN saves, NEW i \in saves[n].todo,
             AddUniversal(n, i) \/ AddUniversalLost(n, i)
      PROVE  SavesOK' /\ QuietOK'
  BY <1>5, SavesAddUniversal, SavesAddUniversalLost
<1>6. ASSUME NEW d \in DOMAIN deletes,
             ServerDeletes(d) \/ DeleteAnswered(d) \/ DeleteLost(d)
      PROVE  SavesOK' /\ QuietOK'
  BY <1>6, SavesServerDeletes, SavesDeleteAnswered, SavesDeleteLost
<1> QED
  BY <1>1, <1>2, <1>3, <1>4, <1>5, <1>6 DEF SaveStep

(* The inductive invariant of the page and its saves.                        *)
SavingOK == PageOK /\ SavesOK /\ QuietOK

LEMMA SavingInit == Init => SavingOK
<1> SUFFICES ASSUME Init PROVE SavingOK
  OBVIOUS
<1>1. /\ complete \in BOOLEAN /\ code = 0 /\ saves = <<>> /\ deletes = <<>>
      /\ server = <<>> /\ overlapped = FALSE /\ faults = 0
  BY DEF Init, SaveInit
<1>2. SavesOK
  <2>1. SavesTyped
    <3>1. \A S : <<>> \in Seq(S)
      OBVIOUS
    <3>2. saves \in Seq(Runs) /\ deletes \in Seq(Calls) /\ server \in Seq(Rows)
      BY <1>1, <3>1
    <3>3. complete \in BOOLEAN /\ overlapped \in BOOLEAN
      BY <1>1
    <3> QED
      BY <1>1, <3>2, <3>3 DEF SavesTyped
  <2> QED
    BY <1>1, <2>1 DEF SavesOK, CodesOK
<1>3. QuietOK
  BY <1>1 DEF QuietOK, Agreed, OneCall, ShownOK
<1> QED
  BY <1>2, <1>3, PageInit DEF SavingOK

LEMMA SavingStep == SavingOK /\ [Next]_vars => SavingOK'
<1> SUFFICES ASSUME SavingOK, [Next]_vars PROVE SavingOK'
  OBVIOUS
<1>1. PageOK' /\ ListOK /\ complete \in BOOLEAN
  BY PageStep, PageParts, SavesParts DEF SavingOK
<1>2. CASE SaveStep
  BY <1>1, <1>2, SavesSaveStep DEF SavingOK
<1>3. CASE KeepSave \/ UNCHANGED vars
  <2>1. UNCHANGED <<complete, saves, server, deletes, code, overlapped, faults>>
    BY <1>3 DEF KeepSave, vars, saveVars
  <2> QED
    BY <1>1, <2>1, SavesStand DEF SavingOK
<1> QED
  BY <1>2, <1>3 DEF Next

(* A strategy whose backtest was asked for has the tickers, techniques and   *)
(* settings of the click, all of them, whatever was changed, clicked or lost *)
(* since (handleCreateStrategy, BackTestingSettingTabStart.tsx:35).          *)
THEOREM SavesWhatWasClicked == Spec => []SavedIsWhatWasClicked
<1>1. SavingOK => SavedIsWhatWasClicked
  BY DEF SavingOK, SavesOK, RowOK, SavedIsWhatWasClicked
<1> QED BY <1>1, SavingInit, SavingStep, PTL DEF Spec

(* Page and server agree on the strategies there are as long as no two       *)
(* clicks overlap and no call fails (handleReCreateStrategy,                 *)
(* BackTestingSettingTabStart.tsx:102).                                      *)
THEOREM PageAndServerAgree == Spec => []PageKnowsItsStrategy
<1>1. SavingOK => PageKnowsItsStrategy
  <2> SUFFICES ASSUME SavingOK PROVE PageKnowsItsStrategy
    OBVIOUS
  <2>1. faults \in Nat /\ overlapped \in BOOLEAN
    BY SavesParts DEF SavingOK
  <2>2. ~overlapped /\ faults = 0 => Agreed
    BY DEF SavingOK, QuietOK
  <2>3. Agreed =>
          /\ \A c \in DOMAIN server :
               server[c].live /\ c # code =>
                 saves[server[c].of].at \in {"create", "created"}
                   \/ ~saves[server[c].of].complete
          /\ code # 0 /\ ~server[code].live =>
               \E d \in DOMAIN deletes : deletes[d].code = code
                                           /\ deletes[d].at = "deleted"
    BY DEF Agreed, ShownOK, StrayOK, Open
  <2> QED
    BY <2>1, <2>2, <2>3 DEF PageKnowsItsStrategy
<1> QED BY <1>1, SavingInit, SavingStep, PTL DEF Spec

================================================================================
