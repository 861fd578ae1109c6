------------------------ MODULE UpgradeSessionProofs ------------------------
(***************************************************************************)
(* For any services, resources, tests, and any number of sessions, failing *)
(* calls and kills: what was handed over is kept with its baseline and     *)
(* compared with that one, and a trial session leaves the cluster as it    *)
(* found it.                                                               *)
(*                                                                         *)
(* The first rests on Safe: a fixture that is up and will remove its       *)
(* resource is never one that something handed over depends on, because a  *)
(* creation succeeds only where nothing was, and a reuse takes the service *)
(* up.  The last rests on AsFound: what a trial session has changed so far *)
(* are its own fixtures' resources.                                        *)
(***************************************************************************)
EXTENDS UpgradeSession, SequenceTheorems, TLAPS

Running == {"idle", "setup", "run"}

\* Removing r takes away nothing that a service that was handed over is built from.
Spares(r) == \A s \in handed : r \notin Keeps(s)

Safe == \A r \in Resources : IsUp(r) /\ Deletes(r) => Spares(r)

\* What a fixture of this session created or adopted is there until the teardown.
Created ==
    pc \in Running => \A r \in Resources :
        IsUp(r) /\ ~Reuses(r) => IF r \in adopted THEN there[r] # 0 ELSE there[r] = session

\* What was adopted is a fixture's that would have created it.
Adoption ==
    /\ \A r \in adopted : ~Reuses(r)
    /\ pc \in Running => \A r \in adopted : IsUp(r)

\* A pre-upgrade test that runs has all its fixtures, and its baseline saved.
Captured ==
    pc = "run" /\ test.pre /\ ~flags.post =>
        /\ \A r \in Keeps(test.service) : there[r] # 0
        /\ test.service \in Baselined => entry[test.service] = there[test.service]

\* The test in hand and those to come are what the flags select.
InHand ==
    /\ todo \subseteq Selected(flags)
    /\ pc \in {"setup", "run"} => test \in Selected(flags)
    /\ pc # "over" => session > 0
    /\ pc = "over" => up = <<>>
    /\ (handed \cup taken) \cap New = {}

\* Until its teardown a post-upgrade session changes nothing it was handed.
Kept ==
    pc \in Running /\ flags.post =>
        /\ \A s \in taken \cap Baselined : entry[s] = there[s]
        /\ loading = "done" => loaded = entry

\* A trial session has changed what its fixtures stand for, and nothing else.
AsFound ==
    flags.delete /\ ~flags.post /\ ~spoilt =>
        \A r \in Resources :
            IF IsUp(r) /\ r \notin adopted THEN before[r] = 0 ELSE there[r] = before[r]

BeforeFits == \A r \in Resources : before[r] # 0 => before[Within[r]] # 0

IInv ==
    /\ TypeOK /\ HandedOverIsKept /\ Safe /\ Created /\ Adoption /\ Captured /\ InHand /\ Kept
    /\ AsFound /\ BeforeFits

-----------------------------------------------------------------------------
(* The list of fixtures that are up.                                       *)

LEMMA UpAppended ==
    ASSUME NEW r \in Resources, up \in Seq(Resources), up' = Append(up, r)
    PROVE  /\ up' \in Seq(Resources)
           /\ \A q \in Resources : IsUp(q)' <=> (IsUp(q) \/ q = r)
<1>1. /\ up' \in Seq(Resources) /\ Len(up') = Len(up) + 1 /\ Len(up) \in Nat
      /\ up'[Len(up) + 1] = r
      /\ \A i \in 1..Len(up) : up'[i] = up[i]
  OBVIOUS
<1>2. ASSUME NEW q \in Resources
      PROVE  IsUp(q)' <=> (IsUp(q) \/ q = r)
  <2>1. ASSUME IsUp(q)' PROVE IsUp(q) \/ q = r
    <3>1. PICK i \in 1..Len(up') : up'[i] = q
      BY <2>1 DEF IsUp, Contains
    <3>2. i \in 1..Len(up) \/ i = Len(up) + 1
      BY <1>1
    <3>3. QED
      BY <1>1, <3>1, <3>2 DEF IsUp, Contains
  <2>2. ASSUME IsUp(q) PROVE IsUp(q)'
    <3>1. PICK i \in 1..Len(up) : up[i] = q
      BY <2>2 DEF IsUp, Contains
    <3>2. i \in 1..Len(up') /\ up'[i] = q
      BY <1>1, <3>1
    <3>3. QED
      BY <3>2 DEF IsUp, Contains
  <2>3. ASSUME q = r PROVE IsUp(q)'
    <3>1. Len(up) + 1 \in 1..Len(up')
      BY <1>1
    <3>2. QED
      BY <1>1, <2>3, <3>1 DEF IsUp, Contains
  <2>4. QED
    BY <2>1, <2>2, <2>3
<1>3. QED
  BY <1>1, <1>2

LEMMA UpShortened ==
    ASSUME up \in Seq(Resources), up # <<>>, up' = Front(up)
    PROVE  /\ up' \in Seq(Resources)
           /\ Last(up) \in Resources /\ IsUp(Last(up))
           /\ \A q \in Resources : IsUp(q) <=> (IsUp(q)' \/ q = Last(up))
<1>1. Len(up) \in Nat /\ Len(up) > 0
  OBVIOUS
<1>2. /\ up' \in Seq(Resources) /\ Len(up') = Len(up) - 1
      /\ \A i \in 1..(Len(up) - 1) : up'[i] = up[i]
  <2>1. Len(up) - 1 \in Int /\ \A i \in 1..(Len(up) - 1) : up[i] \in Resources
    BY <1>1
  <2>2. /\ SubSeq(up, 1, Len(up) - 1) \in Seq(Resources)
        /\ Len(SubSeq(up, 1, Len(up) - 1)) = IF 1 <= Len(up) - 1 THEN Len(up) - 1 - 1 + 1 ELSE 0
        /\ \A i \in 1..(Len(up) - 1 - 1 + 1) : SubSeq(up, 1, Len(up) - 1)[i] = up[1 + i - 1]
    BY <2>1, SubSeqProperties
  <2>3. up' = SubSeq(up, 1, Len(up) - 1)
    BY DEF Front
  <2>4. up' \in Seq(Resources) /\ Len(up') = Len(up) - 1
    <3>1. \A n \in Nat : n > 0 => (IF 1 <= n - 1 THEN n - 1 - 1 + 1 ELSE 0) = n - 1
      OBVIOUS
    <3>2. QED
      BY <1>1, <2>2, <2>3, <3>1
  <2>5. ASSUME NEW i \in 1..(Len(up) - 1) PROVE up'[i] = up[i]
    <3>1. i \in 1..(Len(up) - 1 - 1 + 1) /\ 1 + i - 1 = i
      BY <1>1
    <3>2. QED
      BY <2>2, <2>3, <3>1
  <2>6. QED
    BY <2>4, <2>5
<1>3. Last(up) = up[Len(up)] /\ Len(up) \in 1..Len(up)
  BY <1>1 DEF Last
<1>4. Last(up) \in Resources /\ IsUp(Last(up))
  BY <1>3 DEF IsUp, Contains
<1>5. ASSUME NEW q \in Resources
      PROVE  IsUp(q) <=> (IsUp(q)' \/ q = Last(up))
  <2>1. ASSUME IsUp(q) PROVE IsUp(q)' \/ q = Last(up)
    <3>1. PICK i \in 1..Len(up) : up[i] = q
      BY <2>1 DEF IsUp, Contains
    <3>2. i \in 1..Len(up') \/ i = Len(up)
      BY <1>1, <1>2
    <3>3. QED
      BY <1>2, <1>3, <3>1, <3>2 DEF IsUp, Contains
  <2>2. ASSUME IsUp(q)' PROVE IsUp(q)
    <3>1. PICK i \in 1..Len(up') : up'[i] = q
      BY <2>2 DEF IsUp, Contains
    <3>2. i \in 1..Len(up) /\ up[i] = q
      BY <1>1, <1>2, <3>1
    <3>3. QED
      BY <3>2 DEF IsUp, Contains
  <2>3. QED
    BY <1>4, <2>1, <2>2
<1>6. QED
  BY <1>2, <1>4, <1>5

\* Nothing is up in an empty list.
LEMMA NothingUp == ASSUME up = <<>> PROVE \A r \in Resources : ~IsUp(r)
  BY DEF IsUp, Contains

LEMMA CINat == CI \in Nat /\ MaxSessions \in Nat /\ CI > MaxSessions
  BY BoundsAssumption DEF CI

LEMMA AdoptedResources == ASSUME TypeOK PROVE adopted \subseteq Resources
  BY ShapeAssumption DEF TypeOK

\* What a service is built from is in namespaces that it is built from.
LEMMA KeepsClosed ==
    ASSUME NEW s \in Services
    PROVE  /\ Keeps(s) \subseteq Resources /\ s \in Keeps(s) /\ Stack[s] \subseteq Keeps(s)
           /\ \A q \in Keeps(s) : Within[q] \in Keeps(s)
           /\ s \notin New => Keeps(s) \cap New = {}
<1>1. Stack[s] \subseteq Resources /\ s \in Stack[s] /\ Home \in Resources \ New /\ Within[Home] = Home
  BY ShapeAssumption
<1>2. \A q \in Stack[s] : Within[q] \in Stack[s]
  <2>1. SUFFICES ASSUME NEW q \in Stack[s], Within[q] # q PROVE Within[q] \in Stack[s]
    OBVIOUS
  <2>2. Within[q] \in Needs[q] /\ Needs[q] \subseteq Stack[s]
    BY <1>1, <2>1, ShapeAssumption
  <2>3. QED
    BY <2>2
<1>3. s \notin New => Stack[s] \cap New = {}
  BY ShapeAssumption
<1>4. QED
  BY <1>1, <1>2, <1>3 DEF Keeps

LEMMA Numbers ==
    ASSUME TypeOK
    PROVE  /\ session \in Nat /\ faults \in Nat
           /\ \A r \in Resources : there[r] \in Nat /\ Within[r] \in Resources
           /\ \A s \in Services : s \in Resources /\ entry[s] \in Nat
<1>1. session \in Nat /\ faults \in Nat
  <2>1. session \in 0..MaxSessions /\ faults \in 0..MaxFaults
    BY DEF TypeOK
  <2>2. QED
    BY <2>1, BoundsAssumption
<1>2. \A r \in Resources : there[r] \in 0..CI /\ Within[r] \in Resources
  BY ShapeAssumption DEF TypeOK
<1>3. \A s \in Services : s \in Resources /\ entry[s] \in 0..CI
  BY ServicesAssumption DEF TypeOK
<1>4. QED
  BY <1>1, <1>2, <1>3, CINat

\* A selected test is a test; of a service that only post-upgrade tests create,
\* a post-upgrade test.
LEMMA SelectedTests ==
    ASSUME NEW f, NEW t \in Selected(f)
    PROVE  /\ t \in Tests /\ t.service \in Services /\ t.service \in Resources
           /\ t.pre \in BOOLEAN /\ t.post \in BOOLEAN
           /\ t.service \in Stack[t.service]
           /\ t.pre => t.service \notin New
           /\ (f.pre /\ t.pre) \/ (f.post /\ t.post)
<1>1. t \in Tests /\ ((f.pre /\ t.pre) \/ (f.post /\ t.post))
  BY DEF Selected
<1>2. QED
  BY <1>1, TestsAssumption, ServicesAssumption, ShapeAssumption

-----------------------------------------------------------------------------
(* The initial state, and one lemma per action.                            *)

LEMMA InitInv == Init => IInv
<1> SUFFICES ASSUME Init PROVE IInv
  OBVIOUS
<1> USE DEF Init
<1>1. flags \in Flags
  BY DEF Flags
<1>2. TypeOK
  <2>1. /\ there \in [Resources -> 0..CI] /\ before \in [Resources -> 0..CI]
        /\ entry \in [Services -> 0..CI] /\ loaded \in [Services -> 0..CI]
        /\ ~HasBaselines
        /\ session \in 0..MaxSessions /\ faults \in 0..MaxFaults
    BY BoundsAssumption, CINat DEF Nothing, HasBaselines
  <2>2. \A r \in Resources : there[r] # 0 => there[Within[r]] # 0
    OBVIOUS
  <2>3. up \in Seq(Resources) /\ todo \subseteq Tests
    OBVIOUS
  <2>4. QED
    BY <1>1, <2>1, <2>2, <2>3 DEF TypeOK
<1>3. HandedOverIsKept /\ Created /\ Adoption /\ Captured /\ InHand /\ Kept
  BY DEF HandedOverIsKept, Created, Adoption, Captured, InHand, Kept, Running
<1>4. Safe /\ AsFound /\ BeforeFits
  BY NothingUp DEF Safe, AsFound, BeforeFits, Spares
<1>5. QED
  BY <1>2, <1>3, <1>4 DEF IInv

LEMMA StartInv == IInv /\ Start => IInv'
<1> SUFFICES ASSUME IInv, Start PROVE IInv'
  OBVIOUS
<1> USE DEF IInv, Start, cluster
<1>1. flags' \in Flags /\ todo' \subseteq Selected(flags') /\ todo' \subseteq Tests /\ whole' \in BOOLEAN
  BY DEF Selected
<1>2. session' \in 0..MaxSessions /\ session' > 0
  BY Numbers, BoundsAssumption DEF TypeOK
<1>3. TypeOK'
  <2>1. loaded' \in [Services -> 0..CI]
    BY CINat DEF Nothing
  <2>2. (HasBaselines' <=> HasBaselines) /\ up' \in Seq(Resources)
    BY DEF HasBaselines
  <2>3. QED
    BY <1>1, <1>2, <2>1, <2>2 DEF TypeOK
<1>4. \A r \in Resources : ~IsUp(r)'
  BY DEF IsUp, Contains
<1>5. HandedOverIsKept' /\ Captured' /\ Kept'
  BY DEF HandedOverIsKept, Captured, Kept, Running
<1>6. Safe' /\ Created' /\ Adoption' /\ AsFound'
  BY <1>4 DEF Safe, Created, Adoption, AsFound
<1>7. InHand'
  BY <1>1, <1>2 DEF InHand
<1>8. BeforeFits'
  BY DEF BeforeFits, TypeOK
<1>9. QED
  BY <1>3, <1>5, <1>6, <1>7, <1>8

\* A step that touches neither the cluster nor the fixtures.
Untouched ==
    UNCHANGED <<there, entry, session, flags, up, adopted, before, whole, handed, taken>>

LEMMA UntouchedInv ==
    ASSUME IInv, Untouched, spoilt' = spoilt
    PROVE  HandedOverIsKept' /\ Safe' /\ AsFound' /\ BeforeFits'
           /\ (handed' \cup taken') \cap New = {}
  BY DEF IInv, Untouched, HandedOverIsKept, Safe, AsFound, BeforeFits, InHand, IsUp, Deletes,
         Reuses, Spares, Keeps

LEMMA CreatedStays ==
    ASSUME IInv, Untouched, pc' \in Running => pc \in Running
    PROVE  Created' /\ Adoption'
  BY DEF IInv, Untouched, Created, Adoption, IsUp, Reuses

LEMMA PickTestInv == ASSUME IInv, NEW t \in Tests, PickTest(t) PROVE IInv'
<1> USE DEF PickTest, fixtures, history, cluster
<1>1. Untouched /\ spoilt' = spoilt
  BY DEF Untouched
<1>2. TypeOK'
  BY DEF IInv, TypeOK, HasBaselines
<1>3. Created' /\ Adoption' /\ Captured' /\ Kept'
  BY <1>1, CreatedStays DEF IInv, Captured, Kept, Running
<1>4. InHand'
  BY <1>1, UntouchedInv DEF IInv, InHand
<1>5. QED
  BY <1>1, <1>2, <1>3, <1>4, UntouchedInv DEF IInv

LEMMA ReuseInv == ASSUME IInv, NEW r \in Resources, Reuse(r) PROVE IInv'
<1> USE DEF IInv, Reuse, cluster
<1>1. /\ up' \in Seq(Resources) /\ \A q \in Resources : IsUp(q)' <=> (IsUp(q) \/ q = r)
  BY UpAppended DEF TypeOK
<1>2. pc = "setup" /\ flags.post /\ r \notin New /\ handed' \subseteq handed
  BY DEF IsNext, Reuses
<1>3. TypeOK'
  <2>1. HasBaselines' <=> HasBaselines
    BY DEF HasBaselines
  <2>2. QED
    BY <1>1, <1>2, <2>1 DEF TypeOK
<1>4. HandedOverIsKept' /\ Captured' /\ Kept' /\ BeforeFits'
  <2>1. HandedOverIsKept'
    BY <1>2 DEF HandedOverIsKept
  <2>2. Captured' /\ Kept' /\ BeforeFits'
    BY <1>2 DEF Captured, Kept, BeforeFits, Running
  <2>3. QED
    BY <2>1, <2>2
<1>5. Safe'
  <2>1. Spares(r)'
    BY DEF Spares, Keeps
  <2>2. \A q \in Resources : Spares(q) => Spares(q)'
    BY <1>2 DEF Spares, Keeps
  <2>3. \A q \in Resources : Deletes(q)' <=> Deletes(q)
    BY DEF Deletes, Reuses
  <2>4. QED
    BY <1>1, <2>1, <2>2, <2>3 DEF Safe
<1>6. Created' /\ Adoption'
  <2>1. Reuses(r) /\ \A q \in Resources : Reuses(q)' <=> Reuses(q)
    BY DEF Reuses
  <2>2. \A q \in Resources :
            IsUp(q) /\ ~Reuses(q) => IF q \in adopted THEN there[q] # 0 ELSE there[q] = session
    BY <1>2 DEF Created, Running
  <2>3. Created'
    BY <1>1, <1>2, <2>1, <2>2 DEF Created, Running
  <2>4. Adoption'
    BY <1>1, <1>2, <2>1, AdoptedResources DEF Adoption, Running
  <2>5. QED
    BY <2>3, <2>4
<1>7. InHand'
  BY <1>2 DEF InHand
<1>8. AsFound'
  BY <1>2 DEF AsFound
<1>9. QED
  BY <1>3, <1>4, <1>5, <1>6, <1>7, <1>8

\* Where nothing is, nothing of a service that was handed over is.
LEMMA FreeIsSpared ==
    ASSUME IInv, NEW r \in Resources, there[r] = 0
    PROVE  Spares(r)
  BY DEF IInv, HandedOverIsKept, Spares

\* The namespace of a resource whose fixture may be set up to create it is there.
LEMMA HasItsPlace ==
    ASSUME IInv, NEW r \in Resources, IsNext(r), ~Reuses(r), Within[r] # r
    PROVE  there[Within[r]] # 0
<1> USE DEF IInv
<1>1. Within[r] \in Resources /\ Within[r] \in Needs[r]
  BY ShapeAssumption
<1>2. IsUp(Within[r]) /\ pc = "setup"
  BY <1>1 DEF IsNext
<1>3. ~Reuses(Within[r])
  BY ShapeAssumption DEF Reuses
<1>4. there[Within[r]] # 0 \/ (there[Within[r]] = session /\ session > 0)
  BY <1>1, <1>2, <1>3 DEF Created, Running, InHand
<1>5. QED
  BY <1>4, Numbers

LEMMA PlacedTyped ==
    ASSUME IInv, NEW r \in Resources, IsNext(r), ~Reuses(r),
           there' = [there EXCEPT ![r] = session], UNCHANGED <<entry, session>>
    PROVE  /\ there' \in [Resources -> 0..CI]
           /\ \A q \in Resources : there'[q] # 0 => there'[Within[q]] # 0
           /\ HasBaselines' => there'[Home] # 0
<1> USE DEF IInv
<1>1. session \in 0..CI /\ session > 0
  BY Numbers, CINat DEF IsNext, InHand, TypeOK
<1>2. there' \in [Resources -> 0..CI]
  BY <1>1 DEF TypeOK
<1>3. ASSUME NEW q \in Resources, there'[q] # 0 PROVE there'[Within[q]] # 0
  <2>1. Within[q] \in Resources
    BY Numbers
  <2>2. CASE Within[q] = r
    BY <1>1, <2>2 DEF TypeOK
  <2>3. CASE Within[q] # r /\ q = r
    BY <2>1, <2>3, HasItsPlace DEF TypeOK
  <2>4. CASE Within[q] # r /\ q # r
    BY <1>3, <2>1, <2>4 DEF TypeOK
  <2>5. QED
    BY <2>2, <2>3, <2>4
<1>4. HasBaselines' => there'[Home] # 0
  BY <1>1, ShapeAssumption DEF TypeOK, HasBaselines
<1>5. QED
  BY <1>2, <1>3, <1>4

\* Creating what is not there changes no service that was handed over.
LEMMA PlacedKept ==
    ASSUME IInv, NEW r \in Resources, pc = "setup", ~Reuses(r), there[r] = 0,
           there' = [there EXCEPT ![r] = session], UNCHANGED <<entry, session, flags, handed, taken,
           loaded, loading>>, pc' # "run"
    PROVE  HandedOverIsKept' /\ Captured' /\ Kept'
<1> USE DEF IInv
<1>1. /\ session > 0 /\ session \in Nat
      /\ \A q \in Resources : there'[q] = IF q = r THEN session ELSE there[q]
  BY Numbers DEF TypeOK, InHand
<1>2. HandedOverIsKept'
  <2>1. SUFFICES ASSUME NEW s \in handed
                 PROVE  /\ \A q \in Keeps(s) : there'[q] # 0
                        /\ s \in Baselined => entry[s] = there'[s]
    BY DEF HandedOverIsKept, Keeps
  <2>2. s \in Services /\ Keeps(s) \subseteq Resources /\ s \in Keeps(s)
    BY KeepsClosed DEF TypeOK
  <2>3. (\A q \in Keeps(s) : there[q] # 0) /\ (s \in Baselined => entry[s] = there[s])
    BY DEF HandedOverIsKept
  <2>4. QED
    BY <1>1, <2>2, <2>3
<1>3. Captured'
  BY DEF Captured
<1>4. Kept'
  <2>1. SUFFICES ASSUME flags.post PROVE Kept'
    BY DEF Kept
  <2>2. r \in New
    BY <2>1 DEF Reuses
  <2>3. \A s \in taken : there'[s] = there[s]
    BY <1>1, <2>2, Numbers DEF TypeOK, InHand
  <2>4. QED
    BY <2>1, <2>3 DEF Kept, Running
<1>5. QED
  BY <1>2, <1>3, <1>4

LEMMA CreateInv == ASSUME IInv, NEW r \in Resources, Create(r) PROVE IInv'
<1> USE DEF IInv, Create, cluster, history
<1>1. /\ up' \in Seq(Resources) /\ \A q \in Resources : IsUp(q)' <=> (IsUp(q) \/ q = r)
  BY UpAppended DEF TypeOK
<1>2. pc = "setup" /\ ~IsUp(r)
  BY DEF IsNext
<1>3. TypeOK'
  BY <1>1, PlacedTyped DEF TypeOK
<1>4. HandedOverIsKept' /\ Captured' /\ Kept'
  BY <1>2, PlacedKept
<1>5. Safe'
  <2>1. \A q \in Resources : (Deletes(q)' <=> Deletes(q)) /\ (Spares(q)' <=> Spares(q))
    BY DEF Deletes, Reuses, Spares, Keeps
  <2>2. QED
    BY <1>1, <2>1, FreeIsSpared DEF Safe
<1>6. Created' /\ Adoption'
  <2>1. \A q \in Resources : Reuses(q)' <=> Reuses(q)
    BY DEF Reuses
  <2>2. \A q \in Resources : there'[q] = IF q = r THEN session ELSE there[q]
    BY DEF TypeOK
  <2>3. QED
    <3>1. Adoption'
      BY <1>1, <1>2, <2>1, AdoptedResources DEF Adoption, Running
    <3>2. r \notin adopted
      BY <1>2 DEF Adoption, Running
    <3>3. Created'
      BY <1>1, <1>2, <2>1, <2>2, <3>2 DEF Created, Running
    <3>4. QED
      BY <3>1, <3>3
<1>7. InHand' /\ BeforeFits'
  BY <1>2 DEF InHand, BeforeFits
<1>8. AsFound'
  <2>1. \A q \in Resources : q # r => there'[q] = there[q]
    BY DEF TypeOK
  <2>2. r \notin adopted
    BY <1>2 DEF Adoption, Running
  <2>3. QED
    BY <1>1, <1>2, <2>1, <2>2 DEF AsFound
<1>9. QED
  BY <1>3, <1>4, <1>5, <1>6, <1>7, <1>8

LEMMA AdoptInv == ASSUME IInv, NEW r \in Resources, Adopt(r) PROVE IInv'
<1> USE DEF IInv, Adopt, cluster, history
<1>1. /\ up' \in Seq(Resources) /\ \A q \in Resources : IsUp(q)' <=> (IsUp(q) \/ q = r)
  BY UpAppended DEF TypeOK
<1>2. pc = "setup" /\ ~IsUp(r) /\ there[r] # 0 /\ adopted' = adopted \cup {r}
  BY DEF IsNext
<1>3. TypeOK'
  BY <1>1 DEF TypeOK, HasBaselines
<1>4. HandedOverIsKept' /\ Captured' /\ Kept' /\ BeforeFits'
  BY <1>2 DEF HandedOverIsKept, Captured, Kept, BeforeFits, Keeps
<1>5. \A q \in Resources : /\ Reuses(q)' <=> Reuses(q)
                           /\ Spares(q)' <=> Spares(q)
                           /\ Deletes(q)' <=> (Deletes(q) /\ q # r)
  BY <1>2 DEF Deletes, Reuses, Spares, Keeps
<1>6. Safe' /\ Created' /\ Adoption'
  <2>1. Safe'
    BY <1>1, <1>2, <1>5 DEF Safe
  <2>2. Created'
    BY <1>1, <1>2, <1>5 DEF Created, Running
  <2>3. Adoption'
    <3>1. adopted' \subseteq Resources /\ ~Reuses(r)
      BY <1>3, ShapeAssumption DEF TypeOK
    <3>2. QED
      BY <1>1, <1>2, <1>5, <3>1 DEF Adoption, Running
  <2>4. QED
    BY <2>1, <2>2, <2>3
<1>7. InHand'
  BY <1>2 DEF InHand
<1>8. AsFound'
  BY <1>1, <1>2 DEF AsFound
<1>9. QED
  BY <1>3, <1>4, <1>6, <1>7, <1>8

LEMMA CannotCreateInv == ASSUME IInv, NEW r \in Resources, CannotCreate(r) PROVE IInv'
<1> USE DEF CannotCreate, Error, cluster, history
<1>1. Untouched /\ spoilt' = spoilt /\ pc = "setup" /\ pc' = "idle"
  BY DEF Untouched, IsNext
<1>2. TypeOK'
  BY DEF IInv, TypeOK, HasBaselines
<1>3. Created' /\ Adoption' /\ Captured' /\ Kept'
  BY <1>1, CreatedStays DEF IInv, Captured, Kept, Running
<1>4. InHand'
  BY <1>1, UntouchedInv DEF IInv, InHand
<1>5. QED
  BY <1>1, <1>2, <1>3, <1>4, UntouchedInv DEF IInv

LEMMA OneMoreFault == ASSUME TypeOK, Fault PROVE faults' \in 0..MaxFaults
<1>1. faults \in 0..MaxFaults /\ faults < MaxFaults /\ faults' = faults + 1
  BY DEF TypeOK, Fault
<1>2. QED
  BY <1>1, BoundsAssumption

LEMMA CreateFailsInv == ASSUME IInv, NEW r \in Resources, CreateFails(r) PROVE IInv'
<1> USE DEF CreateFails, Error, history
<1>1. pc = "setup" /\ pc' = "idle" /\ faults' \in 0..MaxFaults /\ spoilt' = spoilt
  BY OneMoreFault DEF IInv, IsNext
<1>2. InHand'
  BY <1>1 DEF IInv, InHand
<1>3. CASE UNCHANGED there
  <2>1. Untouched
    BY <1>3 DEF Untouched
  <2>2. TypeOK'
    BY <1>1, <1>3 DEF IInv, TypeOK, HasBaselines
  <2>3. Created' /\ Adoption' /\ Captured' /\ Kept'
    BY <1>1, <1>3, <2>1, CreatedStays DEF IInv, Captured, Kept, Running
  <2>4. QED
    BY <1>1, <1>2, <2>1, <2>2, <2>3, UntouchedInv DEF IInv
<1>4. CASE there[r] = 0 /\ ~Deletes(r) /\ there' = [there EXCEPT ![r] = session]
  <2> USE DEF IInv
  <2>1. TypeOK'
    BY <1>1, <1>4, PlacedTyped DEF TypeOK
  <2>2. HandedOverIsKept' /\ Captured' /\ Kept'
    BY <1>1, <1>4, PlacedKept
  <2>3. Safe'
    BY DEF Safe, Deletes, Reuses, Spares, Keeps, IsUp
  <2>4. Created' /\ Adoption'
    <3>1. \A q \in Resources : there'[q] = IF q = r THEN session ELSE there[q]
      BY <1>4 DEF TypeOK
    <3>2. \A q \in Resources : (Reuses(q)' <=> Reuses(q)) /\ (IsUp(q)' <=> IsUp(q))
      BY DEF Reuses, IsUp
    <3>3. r \notin adopted
      BY <1>1 DEF Adoption, Running, IsNext
    <3>4. Created'
      BY <1>1, <3>1, <3>2, <3>3 DEF Created, Running
    <3>5. Adoption'
      BY <1>1, <3>2, AdoptedResources DEF Adoption, Running
    <3>6. QED
      BY <3>4, <3>5
  <2>5. AsFound' /\ BeforeFits'
    <3>1. r \notin adopted
      BY <1>1 DEF Adoption, Running, IsNext
    <3>2. QED
      BY <1>4, <3>1 DEF AsFound, BeforeFits, Deletes
  <2>6. QED
    BY <1>2, <2>1, <2>2, <2>3, <2>4, <2>5
<1>5. QED
  BY <1>3, <1>4

\* In a pre-upgrade session the fixtures that are up stand for what is there.
LEMMA StackIsThere ==
    ASSUME IInv, SetupDone, ~flags.post
    PROVE  /\ test \in Selected(flags) /\ test.service \in Services
           /\ \A r \in Stack[test.service] : there[r] # 0
<1> USE DEF IInv
<1>1. pc = "setup" /\ test \in Selected(flags) /\ session > 0
  BY DEF SetupDone, InHand
<1>2. test.service \in Services
  BY <1>1, SelectedTests
<1>3. ASSUME NEW r \in Stack[test.service] PROVE there[r] # 0
  <2>1. r \in Resources /\ IsUp(r) /\ ~Reuses(r)
    BY <1>2, ShapeAssumption DEF SetupDone, Reuses
  <2>2. there[r] # 0 \/ there[r] = session
    BY <1>1, <2>1 DEF Created, Running
  <2>3. QED
    BY <1>1, <2>2, Numbers
<1>4. QED
  BY <1>1, <1>2, <1>3

LEMMA CaptureInv == IInv /\ Capture => IInv'
<1> SUFFICES ASSUME IInv, Capture PROVE IInv'
  OBVIOUS
<1> USE DEF IInv, Capture, history
<1>1. /\ test.service \in Services /\ test.service \in Resources /\ pc = "setup"
      /\ \A r \in Keeps(test.service) : there[r] # 0
  BY StackIsThere, Numbers DEF SetupDone, Keeps
<1>2. entry' = [entry EXCEPT ![test.service] = there[test.service]]
  BY DEF Saved
<1>3. TypeOK'
  <2>1. entry' \in [Services -> 0..CI]
    BY <1>1, <1>2 DEF TypeOK
  <2>2. captures' \subseteq Services
    BY <1>1 DEF TypeOK
  <2>3. QED
    BY <1>1, <2>1, <2>2 DEF TypeOK
<1>4. HandedOverIsKept'
  BY <1>1, <1>2 DEF HandedOverIsKept, TypeOK, Keeps
<1>5. Captured'
  <2>1. entry'[test.service] = there[test.service]
    BY <1>1, <1>2, Numbers DEF TypeOK
  <2>2. QED
    BY <1>1, <2>1 DEF Captured, Keeps
<1>6. Safe' /\ Created' /\ Adoption' /\ AsFound' /\ BeforeFits'
  <2>1. \A q \in Resources : /\ Deletes(q)' <=> Deletes(q)
                             /\ Reuses(q)' <=> Reuses(q)
                             /\ Spares(q)' <=> Spares(q)
                             /\ IsUp(q)' <=> IsUp(q)
    BY DEF Deletes, Reuses, Spares, Keeps, IsUp
  <2>2. QED
    BY <1>1, <2>1, ShapeAssumption DEF TypeOK, Adoption, Safe, Created, AsFound, BeforeFits, Running
<1>7. InHand' /\ Kept'
  BY <1>1 DEF InHand, Kept
<1>8. QED
  BY <1>3, <1>4, <1>5, <1>6, <1>7

\* Steps that leave the cluster and the fixtures alone.
LEMMA QuietInv == IInv /\ (CaptureFails \/ BeginTest \/ AllRun \/ End) => IInv'
<1> SUFFICES ASSUME IInv, CaptureFails \/ BeginTest \/ AllRun \/ End PROVE IInv'
  OBVIOUS
<1> USE DEF CaptureFails, BeginTest, AllRun, End, Error, SetupDone, cluster, fixtures, history
<1>1. Untouched /\ spoilt' = spoilt
  BY DEF Untouched
<1>2. /\ pc' \in Running => pc \in Running
      /\ pc' = "run" => BeginTest
      /\ pc' \in {"setup", "run"} => pc = "setup" /\ test' = test
      /\ pc' # "over" => pc # "over"
      /\ pc' = "over" => up' = <<>>
  BY DEF Running
<1>3. TypeOK'
  <2>1. faults' \in 0..MaxFaults
    BY OneMoreFault DEF IInv, TypeOK
  <2>2. /\ pc' \in {"over", "idle", "run", "teardown"}
        /\ test' \in Tests \cup {NoTest}
        /\ captures' \subseteq Services
    BY SelectedTests DEF IInv, TypeOK, InHand
  <2>3. UNCHANGED <<there, entry, session, flags, todo, up, failed, loaded, loading, before, whole,
                    spoilt, handed, taken>>
    OBVIOUS
  <2>4. QED
    BY <2>1, <2>2, <2>3 DEF IInv, TypeOK, HasBaselines
<1>4. Created' /\ Adoption' /\ Captured' /\ Kept'
  <2>1. Created' /\ Adoption'
    BY <1>1, <1>2, CreatedStays
  <2>2. Captured'
    <3>1. SUFFICES ASSUME BeginTest, test.pre, ~flags.post
                   PROVE  /\ \A r \in Keeps(test.service) : there[r] # 0
                          /\ test.service \notin Baselined
      BY <1>2 DEF Captured, Keeps
    <3>2. test.service \notin Baselined
      BY <3>1
    <3>3. QED
      BY <3>1, <3>2, StackIsThere DEF Keeps
  <2>3. Kept'
    BY <1>2 DEF IInv, Kept
  <2>4. QED
    BY <2>1, <2>2, <2>3
<1>5. InHand'
  BY <1>1, <1>2, UntouchedInv DEF IInv, InHand
<1>6. QED
  BY <1>1, <1>3, <1>4, <1>5, UntouchedInv DEF IInv

LEMMA LoadInv == IInv /\ Load => IInv'
<1> SUFFICES ASSUME IInv, Load PROVE IInv'
  OBVIOUS
<1> USE DEF Load, SetupDone, cluster, history
<1>1. Untouched /\ spoilt' = spoilt /\ pc = "setup" /\ pc' = "setup"
  BY DEF Untouched
<1>2. TypeOK'
  BY DEF IInv, TypeOK, HasBaselines
<1>3. Created' /\ Adoption' /\ Captured' /\ Kept'
  BY <1>1, CreatedStays DEF IInv, Captured, Kept, Running
<1>4. InHand'
  BY <1>1, UntouchedInv DEF IInv, InHand
<1>5. QED
  BY <1>1, <1>2, <1>3, <1>4, UntouchedInv DEF IInv

LEMMA EndTestInv == IInv /\ EndTest => IInv'
<1> SUFFICES ASSUME IInv, EndTest PROVE IInv'
  OBVIOUS
<1> USE DEF IInv, EndTest, cluster, fixtures
<1>1. /\ test \in Selected(flags) /\ test.service \in Services
      /\ test.pre => test.service \notin New
  BY SelectedTests DEF InHand
<1>2. \A s \in handed' : s \in handed \/
        /\ s = test.service /\ s \notin New /\ ~flags.post /\ ~flags.delete
        /\ \A r \in Keeps(s) : there[r] # 0
        /\ s \in Baselined => entry[s] = there[s]
  BY <1>1 DEF Captured
<1>3. TypeOK'
  BY <1>1 DEF TypeOK, HasBaselines
<1>4. HandedOverIsKept'
  BY <1>2 DEF HandedOverIsKept, Keeps
<1>5. Safe'
  <2>1. SUFFICES ASSUME NEW r \in Resources, IsUp(r)', Deletes(r)', NEW s \in handed'
                 PROVE  r \notin Keeps(s)
    BY DEF Safe, Spares, Keeps
  <2>2. IsUp(r) /\ Deletes(r)
    BY <2>1 DEF IsUp, Deletes, Reuses
  <2>3. CASE s \in handed
    BY <2>2, <2>3 DEF Safe, Spares
  <2>4. CASE s \notin handed
    <3>1. s \in Services /\ s \in Resources /\ s \notin New /\ ~flags.post /\ ~flags.delete
      BY <1>1, <1>2, <2>4, ServicesAssumption
    <3>2. r \in New
      BY <2>2, <3>1 DEF Deletes, Reuses, TypeOK, Flags
    <3>3. QED
      BY <3>1, <3>2, KeepsClosed
  <2>5. QED
    BY <2>3, <2>4
<1>6. Created' /\ Adoption' /\ Captured' /\ Kept'
  <2>1. \A q \in Resources : (Reuses(q)' <=> Reuses(q)) /\ (IsUp(q)' <=> IsUp(q))
    BY DEF Reuses, IsUp
  <2>2. QED
    BY <2>1, ShapeAssumption DEF TypeOK, Adoption, Created, Captured, Kept, Running
<1>7. InHand'
  BY <1>2 DEF InHand
<1>8. AsFound' /\ BeforeFits'
  BY DEF AsFound, BeforeFits, IsUp
<1>9. QED
  BY <1>3, <1>4, <1>5, <1>6, <1>7, <1>8

\* What a removal takes away, and what it leaves.
LEMMA RemovedFacts ==
    ASSUME TypeOK, NEW r \in Resources, Removed(r)
    PROVE  /\ there' \in [Resources -> 0..CI] /\ entry' \in [Services -> 0..CI]
           /\ \A q \in Resources : there'[q] = IF q = r \/ Within[q] = r THEN 0 ELSE there[q]
           /\ r # Home => entry' = entry
           /\ \A q \in Resources : there'[q] # 0 => there'[Within[q]] # 0
           /\ HasBaselines' => there'[Home] # 0
<1> USE DEF Removed
<1>1. \A q \in Resources : there'[q] = IF q = r \/ Within[q] = r THEN 0 ELSE there[q]
  OBVIOUS
<1>2. there' \in [Resources -> 0..CI]
  BY CINat DEF TypeOK
<1>3. entry' \in [Services -> 0..CI]
  BY CINat DEF TypeOK, Nothing
<1>4. ASSUME NEW q \in Resources, there'[q] # 0 PROVE there'[Within[q]] # 0
  <2>1. q # r /\ Within[q] # r /\ there[q] # 0
    BY <1>1, <1>4
  <2>2. Within[q] \in Resources /\ Within[Within[q]] = Within[q] /\ there[Within[q]] # 0
    BY <2>1, ShapeAssumption DEF TypeOK
  <2>3. QED
    BY <1>1, <2>1, <2>2
<1>5. HasBaselines' => there'[Home] # 0
  <2>1. CASE r = Home
    BY <2>1 DEF HasBaselines, Nothing
  <2>2. CASE r # Home
    BY <1>1, <2>2, ShapeAssumption DEF TypeOK, HasBaselines
  <2>3. QED
    BY <2>1, <2>2
<1>6. QED
  BY <1>1, <1>2, <1>3, <1>4, <1>5

LEMMA TakeDownInv == IInv /\ TakeDown => IInv'
<1> SUFFICES ASSUME IInv, TakeDown PROVE IInv'
  OBVIOUS
<1> DEFINE r == Last(up)
<1> USE DEF IInv, TakeDown
<1>1. /\ up' \in Seq(Resources) /\ r \in Resources /\ IsUp(r)
      /\ \A q \in Resources : IsUp(q) <=> (IsUp(q)' \/ q = r)
  BY UpShortened DEF TypeOK
<1> HIDE DEF r
<1>2. \/ Deletes(r) /\ Removed(r) /\ UNCHANGED <<faults, spoilt>>
      \/ ~Deletes(r) /\ UNCHANGED <<cluster, faults, spoilt>>
      \/ Deletes(r) /\ Fault /\ spoilt' = TRUE /\ UNCHANGED cluster
  BY DEF r
<1>3. \A q \in Resources : /\ Deletes(q)' <=> Deletes(q)
                           /\ Spares(q)' <=> Spares(q)
  BY DEF Deletes, Reuses, Spares, Keeps
<1>4. Safe'
  BY <1>1, <1>3 DEF Safe
<1>5. Created' /\ Adoption' /\ Captured' /\ Kept' /\ InHand' /\ BeforeFits'
  BY DEF Created, Adoption, Captured, Kept, InHand, BeforeFits, Running, Reuses
<1>6. CASE UNCHANGED cluster
  <2> USE <1>6 DEF cluster
  <2>1. TypeOK'
    <3>1. faults' \in 0..MaxFaults /\ spoilt' \in BOOLEAN
      BY <1>2, OneMoreFault DEF TypeOK
    <3>2. QED
      BY <1>1, <3>1 DEF TypeOK, HasBaselines
  <2>2. HandedOverIsKept'
    BY DEF HandedOverIsKept, Keeps
  <2>3. CASE ~Deletes(r)
    <3>1. r \in adopted \/ ~flags.delete
      BY <2>3 DEF Deletes
    <3>2. spoilt' = spoilt
      BY <1>2, <2>3
    <3>3. AsFound'
      BY <1>1, <3>1, <3>2 DEF AsFound
    <3>4. QED
      BY <1>4, <1>5, <2>1, <2>2, <3>3
  <2>4. CASE spoilt'
    BY <1>4, <1>5, <2>1, <2>2, <2>4 DEF AsFound
  <2>5. CASE Deletes(r) /\ Removed(r) /\ ~spoilt'
    <3>1. flags.delete /\ ~flags.post /\ ~spoilt =>
            \A q \in Resources : ~IsUp(q)' => there'[q] = before[q]
      <4>1. there'[r] = 0
        BY <1>1, <2>5, RemovedFacts
      <4>2. QED
        BY <1>1, <4>1 DEF AsFound
    <3>2. AsFound'
      BY <1>1, <1>2, <2>5, <3>1 DEF AsFound
    <3>3. QED
      BY <1>4, <1>5, <2>1, <2>2, <3>2
  <2>6. QED
    BY <1>2, <2>3, <2>4, <2>5
<1>7. CASE Deletes(r) /\ Removed(r) /\ UNCHANGED <<faults, spoilt>>
  <2>1. TypeOK'
    BY <1>1, <1>7, RemovedFacts DEF TypeOK
  <2>2. HandedOverIsKept'
    <3>1. SUFFICES ASSUME NEW s \in handed
                   PROVE  /\ \A q \in Keeps(s) : there'[q] # 0
                          /\ s \in Baselined => entry'[s] = there'[s]
      BY DEF HandedOverIsKept, Keeps
    <3>2. /\ s \in Services /\ Keeps(s) \subseteq Resources /\ s \in Keeps(s)
          /\ \A q \in Keeps(s) : Within[q] \in Keeps(s)
      BY KeepsClosed DEF TypeOK
    <3>3. r \notin Keeps(s)
      BY <1>1, <1>7 DEF Safe, Spares
    <3>4. \A q \in Keeps(s) : there'[q] = there[q]
      BY <1>1, <1>7, <3>2, <3>3, RemovedFacts
    <3>5. s \in Baselined => entry' = entry
      BY <1>1, <1>7, <3>3, RemovedFacts DEF Keeps
    <3>6. QED
      BY <3>2, <3>4, <3>5 DEF HandedOverIsKept
  <2>3. AsFound'
    <3>1. SUFFICES ASSUME flags.delete, ~flags.post, ~spoilt, NEW q \in Resources
                   PROVE  IF IsUp(q)' /\ q \notin adopted THEN before[q] = 0
                          ELSE there'[q] = before[q]
      BY <1>7 DEF AsFound
    <3>2. /\ r \notin adopted /\ before[r] = 0
          /\ IF IsUp(q) /\ q \notin adopted THEN before[q] = 0 ELSE there[q] = before[q]
      BY <1>1, <1>7, <3>1 DEF AsFound, Deletes
    <3>3. Within[q] = r => before[q] = 0
      BY <3>2 DEF BeforeFits
    <3>4. there'[q] = IF q = r \/ Within[q] = r THEN 0 ELSE there[q]
      BY <1>1, <1>7, RemovedFacts
    <3>5. QED
      BY <1>1, <3>2, <3>3, <3>4
  <2>4. QED
    BY <1>4, <1>5, <2>1, <2>2, <2>3
<1>8. QED
  BY <1>2, <1>6, <1>7

LEMMA KillInv == IInv /\ Kill => IInv'
<1> SUFFICES ASSUME IInv, Kill PROVE IInv'
  OBVIOUS
<1> USE DEF Kill, cluster
<1>1. faults' \in 0..MaxFaults
  BY OneMoreFault DEF IInv
<1>2. TypeOK'
  <2>1. up' \in Seq(Resources) /\ todo' \subseteq Tests
    OBVIOUS
  <2>2. QED
    BY <1>1, <2>1 DEF IInv, TypeOK, HasBaselines
<1>3. \A q \in Resources : ~IsUp(q)'
  BY DEF IsUp, Contains
<1>4. Safe' /\ Created' /\ Adoption' /\ AsFound'
  BY <1>3 DEF IInv, Safe, Created, Adoption, AsFound, Running, Reuses
<1>5. HandedOverIsKept' /\ Captured' /\ Kept' /\ BeforeFits'
  BY DEF IInv, HandedOverIsKept, Captured, Kept, BeforeFits, Running
<1>6. InHand'
  BY DEF IInv, InHand
<1>7. QED
  BY <1>2, <1>4, <1>5, <1>6 DEF IInv

LEMMA StepInv == IInv /\ [Next]_vars => IInv'
<1> SUFFICES ASSUME IInv, [Next]_vars PROVE IInv'
  OBVIOUS
<1>1. CASE UNCHANGED vars
  <2>1. Untouched /\ spoilt' = spoilt
    BY <1>1 DEF vars, cluster, fixtures, history, Untouched
  <2>2. TypeOK'
    BY <1>1 DEF IInv, TypeOK, HasBaselines, vars, cluster, fixtures, history
  <2>3. Created' /\ Adoption' /\ Captured' /\ Kept' /\ InHand'
    BY <1>1, <2>1, CreatedStays
       DEF IInv, Captured, Kept, InHand, vars, cluster, fixtures, history, Running
  <2>4. QED
    BY <2>1, <2>2, <2>3, UntouchedInv DEF IInv
<1>2. CASE Start
  BY <1>2, StartInv
<1>3. CASE \E t \in Tests : PickTest(t)
  BY <1>3, PickTestInv
<1>4. CASE \E r \in Resources : Reuse(r) \/ Create(r) \/ Adopt(r)
  BY <1>4, ReuseInv, CreateInv, AdoptInv
<1>5. CASE \E r \in Resources : CannotCreate(r) \/ CreateFails(r)
  BY <1>5, CannotCreateInv, CreateFailsInv
<1>6. CASE Capture
  BY <1>6, CaptureInv
<1>7. CASE CaptureFails \/ BeginTest \/ AllRun \/ End
  BY <1>7, QuietInv
<1>8. CASE Load
  BY <1>8, LoadInv
<1>9. CASE EndTest
  BY <1>9, EndTestInv
<1>10. CASE TakeDown
  BY <1>10, TakeDownInv
<1>11. CASE Kill
  BY <1>11, KillInv
<1>12. QED
  BY <1>1, <1>2, <1>3, <1>4, <1>5, <1>6, <1>7, <1>8, <1>9, <1>10, <1>11 DEF Next

-----------------------------------------------------------------------------
\* Every reachable state of any number of sessions, whatever fails or is killed in
\* them, spares what was handed over, and a trial session is never further from
\* what it found than by the fixtures it has up.
THEOREM Inductive == Spec => []IInv
<1>1. Init => IInv
  BY InitInv
<1>2. IInv /\ [Next]_vars => IInv'
  BY StepInv
<1>3. QED
  BY <1>1, <1>2, PTL DEF Spec

\* The state keeps its type: no resource outlives its namespace, nor do the
\* baselines theirs.
THEOREM TypeCorrect == Spec => []TypeOK
<1>1. IInv => TypeOK
  BY DEF IInv
<1>2. QED
  BY <1>1, Inductive, PTL

\* No session removes, or captures anew, what an earlier one handed over, unless
\* it takes it up.
THEOREM HandedOverStays == Spec => []HandedOverIsKept
<1>1. IInv => HandedOverIsKept
  BY DEF IInv
<1>2. QED
  BY <1>1, Inductive, PTL

\* A post-upgrade test of a service that was handed over compares it with the
\* baseline that was captured of it.
THEOREM OwnBaseline == Spec => []ComparedWithItsOwn
<1>1. IInv => ComparedWithItsOwn
  <2>1. SUFFICES ASSUME IInv, pc = "run", test.post, ~test.pre, loading = "done",
                        test.service \in taken \cap Baselined
                 PROVE  loaded[test.service] = there[test.service]
    BY DEF ComparedWithItsOwn
  <2>2. test \in Selected(flags)
    BY <2>1 DEF IInv, InHand
  <2>3. flags.post
    BY <2>1, <2>2, SelectedTests
  <2>4. QED
    BY <2>1, <2>3 DEF IInv, Kept, Running
<1>2. QED
  BY <1>1, Inductive, PTL

\* A trial session that is not killed, and whose clean-ups succeed, leaves the
\* cluster as it found it.
THEOREM TrialLeavesNothing == Spec => []TrialLeavesAsFound
<1>1. IInv => TrialLeavesAsFound
  <2>1. SUFFICES ASSUME IInv, pc = "over", flags.delete, ~flags.post, ~spoilt
                 PROVE  there = before
    BY DEF TrialLeavesAsFound
  <2>2. \A r \in Resources : ~IsUp(r)
    BY <2>1, NothingUp DEF IInv, InHand
  <2>3. \A r \in Resources : there[r] = before[r]
    BY <2>1, <2>2 DEF IInv, AsFound
  <2>4. there \in [Resources -> 0..CI] /\ before \in [Resources -> 0..CI]
    BY <2>1 DEF IInv, TypeOK
  <2>5. QED
    BY <2>3, <2>4
<1>2. QED
  BY <1>1, Inductive, PTL

-----------------------------------------------------------------------------
(* A complete post-upgrade session.                                        *)

\* Post-upgrade tests whose fixtures all reuse.
Plain == {t \in Tests : t.post /\ Stack[t.service] \cap New = {}}

Complete == flags.post /\ whole /\ ~spoilt

\* A reuse cannot fail, so such a test is still to come, or in its set up, or has
\* all its fixtures up; the teardown then removes what is up or has gone already.
CleanInv ==
    Complete =>
        /\ pc \in Running => \A t \in Plain :
              \/ t \in todo
              \/ t = test /\ pc = "setup"
              \/ \A r \in Stack[t.service] : IsUp(r)
        /\ pc = "teardown" => \A r \in Resources \ New : IsUp(r) \/ there[r] = 0
        /\ pc = "over" => \A r \in Resources \ New : there[r] = 0

LEMMA InitClean == Init => CleanInv
  BY DEF Init, CleanInv, Complete

\* The test in hand, if it is one of these, ends its set up with all fixtures up:
\* none of the errors can come.
LEMMA SetupCannotFail ==
    ASSUME IInv, Complete, test \in Plain
    PROVE  /\ ~CaptureFails
           /\ \A r \in Resources : ~CannotCreate(r) /\ ~CreateFails(r)
<1>1. flags.post /\ Stack[test.service] \cap New = {}
  BY DEF Complete, Plain
<1>2. \A r \in Resources : IsNext(r) => Reuses(r)
  BY <1>1 DEF IsNext, Reuses
<1>3. QED
  BY <1>1, <1>2 DEF CaptureFails, CannotCreate, CreateFails

LEMMA RunningClean ==
    ASSUME IInv, CleanInv,
           \/ \E t \in Tests : PickTest(t)
           \/ \E r \in Resources : Reuse(r) \/ Create(r) \/ Adopt(r) \/ CannotCreate(r) \/ CreateFails(r)
           \/ Capture \/ CaptureFails \/ Load \/ BeginTest \/ EndTest
    PROVE  CleanInv'
<1> USE DEF fixtures, history
<1>1. pc \in Running /\ pc' \in Running
  BY DEF PickTest, Reuse, Create, Adopt, CannotCreate, CreateFails, Capture, CaptureFails, Load, BeginTest,
         EndTest, SetupDone, IsNext, Error, Running
<1>2. UNCHANGED <<flags, whole, spoilt>>
  BY DEF PickTest, Reuse, Create, Adopt, CannotCreate, CreateFails, Capture, CaptureFails, Load, BeginTest,
         EndTest
<1>3. \A r \in Resources : IsUp(r) => IsUp(r)'
  <2>1. CASE \E r \in Resources : Reuse(r) \/ Create(r) \/ Adopt(r)
    BY <2>1, UpAppended DEF IInv, TypeOK, Reuse, Create, Adopt
  <2>2. CASE ~\E r \in Resources : Reuse(r) \/ Create(r) \/ Adopt(r)
    <3>1. up' = up
      BY <2>2 DEF PickTest, CannotCreate, CreateFails, Capture, CaptureFails, Load, BeginTest, EndTest
    <3>2. QED
      BY <3>1 DEF IsUp
  <2>3. QED
    BY <2>1, <2>2
<1>4. SUFFICES ASSUME Complete, NEW t \in Plain
               PROVE  \/ t \in todo'
                      \/ t = test' /\ pc' = "setup"
                      \/ \A r \in Stack[t.service] : IsUp(r)'
  BY <1>1, <1>2 DEF CleanInv, Complete, Running
<1>5. t \in Tests /\ Stack[t.service] \subseteq Resources
  BY TestsAssumption, ShapeAssumption DEF Plain
<1>6. CASE \A r \in Stack[t.service] : IsUp(r)
  BY <1>3, <1>5, <1>6
<1>7. CASE t \in todo
  <2>1. CASE \E u \in Tests : PickTest(u)
    BY <1>7, <2>1 DEF PickTest
  <2>2. CASE ~\E u \in Tests : PickTest(u)
    <3>1. todo' = todo
      BY <2>2 DEF Reuse, Create, Adopt, CannotCreate, CreateFails, Capture, CaptureFails, Load, BeginTest, EndTest
    <3>2. QED
      BY <1>7, <3>1
  <2>3. QED
    BY <2>1, <2>2
<1>8. CASE t = test /\ pc = "setup"
  <2>1. CASE Capture \/ BeginTest
    <3>1. \A r \in Stack[t.service] : IsUp(r)
      BY <1>8, <2>1 DEF Capture, BeginTest, SetupDone
    <3>2. QED
      BY <1>3, <1>5, <3>1
  <2>2. CASE Load \/ \E r \in Resources : Reuse(r) \/ Create(r) \/ Adopt(r)
    BY <1>8, <2>2 DEF Load, Reuse, Create, Adopt
  <2>3. CASE CaptureFails \/ \E r \in Resources : CannotCreate(r) \/ CreateFails(r)
    BY <1>4, <1>8, <2>3, SetupCannotFail
  <2>4. CASE EndTest \/ \E u \in Tests : PickTest(u)
    BY <1>8, <2>4 DEF EndTest, PickTest
  <2>5. QED
    BY <2>1, <2>2, <2>3, <2>4
<1>9. QED
  BY <1>1, <1>4, <1>6, <1>7, <1>8 DEF CleanInv

LEMMA StartClean == ASSUME IInv, Start PROVE CleanInv'
<1>1. /\ pc' = "idle" /\ whole' = ({t \in Tests : t.post} \subseteq todo')
  BY DEF Start
<1>2. QED
  BY <1>1 DEF CleanInv, Complete, Plain, Running

\* When all tests have run, the fixtures of the plain ones cover what is not new.
LEMMA AllRunClean == ASSUME IInv, CleanInv, AllRun PROVE CleanInv'
<1>1. /\ pc = "idle" /\ todo = {} /\ pc' = "teardown"
      /\ UNCHANGED <<there, flags, whole, spoilt, up>>
  BY DEF AllRun, cluster, fixtures, history
<1>2. SUFFICES ASSUME Complete, NEW r \in Resources \ New PROVE IsUp(r)'
  BY <1>1 DEF CleanInv, Complete, Running
<1>3. PICK t \in Plain : r \in Stack[t.service]
  BY CoverAssumption DEF Plain
<1>4. IsUp(r)
  BY <1>1, <1>2, <1>3 DEF CleanInv, Running
<1>5. QED
  BY <1>1, <1>4 DEF IsUp

LEMMA TakeDownClean == ASSUME IInv, CleanInv, TakeDown PROVE CleanInv'
<1> DEFINE q == Last(up)
<1>1. /\ q \in Resources
      /\ \A r \in Resources : IsUp(r) <=> (IsUp(r)' \/ r = q)
  BY UpShortened DEF IInv, TypeOK, TakeDown
<1>2. /\ pc = "teardown" /\ pc' = "teardown" /\ UNCHANGED <<flags, whole>>
      /\ \/ Deletes(q) /\ Removed(q) /\ spoilt' = spoilt
         \/ ~Deletes(q) /\ UNCHANGED <<there, spoilt>>
         \/ spoilt'
  BY DEF TakeDown, cluster
<1> HIDE DEF q
<1>3. SUFFICES ASSUME Complete', NEW r \in Resources \ New PROVE IsUp(r)' \/ there'[r] = 0
  BY <1>2 DEF CleanInv, Running
<1>4. flags.post /\ Complete /\ (IsUp(r) \/ there[r] = 0)
  BY <1>2, <1>3 DEF Complete, CleanInv
<1>5. CASE Deletes(q) /\ Removed(q)
  <2>1. \A p \in Resources : there'[p] = IF p = q \/ Within[p] = q THEN 0 ELSE there[p]
    BY <1>1, <1>5, RemovedFacts DEF IInv
  <2>2. QED
    BY <1>1, <1>4, <2>1
<1>6. CASE ~Deletes(q) /\ UNCHANGED there
  <2>1. q \in New
    BY <1>4, <1>6 DEF IInv, Adoption, Deletes, Reuses
  <2>2. QED
    BY <1>1, <1>4, <1>6, <2>1
<1>7. QED
  BY <1>2, <1>3, <1>5, <1>6 DEF Complete

LEMMA OverClean == ASSUME IInv, CleanInv, End \/ Kill PROVE CleanInv'
<1>1. CASE End
  <2>1. /\ pc = "teardown" /\ up = <<>> /\ pc' = "over"
        /\ UNCHANGED <<there, flags, whole, spoilt>>
    BY <1>1 DEF End, cluster, history
  <2>2. QED
    BY <2>1, NothingUp DEF CleanInv, Complete, Running
<1>2. CASE Kill
  BY <1>2 DEF Kill, CleanInv, Complete
<1>3. QED
  BY <1>1, <1>2

LEMMA StepClean == IInv /\ CleanInv /\ [Next]_vars => CleanInv'
<1> SUFFICES ASSUME IInv, CleanInv, [Next]_vars PROVE CleanInv'
  OBVIOUS
<1>1. CASE UNCHANGED vars
  BY <1>1 DEF vars, cluster, fixtures, history, CleanInv, Complete, IsUp
<1>2. CASE Next
  BY <1>2, StartClean, RunningClean, AllRunClean, TakeDownClean, OverClean DEF Next
<1>3. QED
  BY <1>1, <1>2

\* A post-upgrade session with all tests that is not killed, and whose clean-ups
\* succeed, removes everything that may have been handed over, whichever sessions,
\* complete or not, have left it.
THEOREM CompleteCleansUp == Spec => []PostCleansUp
<1>1. CleanInv => PostCleansUp
  BY DEF CleanInv, Complete, PostCleansUp
<1>2. Spec => []CleanInv
  BY InitClean, StepClean, Inductive, PTL DEF Spec
<1>3. QED
  BY <1>1, <1>2, PTL
=============================================================================
