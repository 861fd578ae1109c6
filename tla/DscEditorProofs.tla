-------------------------- MODULE DscEditorProofs --------------------------
(***************************************************************************)
(* For any fixtures, fields, requests and number of tests: the session     *)
(* leaves the spec as it found it, and a test has the patches of its       *)
(* fixtures.                                                               *)
(*                                                                         *)
(* What makes both inductive is who holds the backup of a field: at most   *)
(* one fixture, and it holds the original value (Backups).  The order in   *)
(* which pytest takes fixtures down does not matter to it; what matters    *)
(* to PatchesInForce is that fixtures of one field share a scope.          *)
(*                                                                         *)
(* What a fixture waited for holds when the test runs because the operator *)
(* that was idle at its baseline worked on nothing but the patch (Watched),*)
(* and because the patch stays in the spec afterwards.                     *)
(***************************************************************************)
EXTENDS DscEditor, TLAPS

\* A backup belongs to a fixture whose editor is open and holds the original.
Backups ==
    \A f \in Fixtures : \A p \in Fields : saved[f][p] # None =>
        /\ saved[f][p] = Original[p]
        /\ p \in Patch[f] /\ spec[p] = Want[p]
        /\ f \in up \/ (f = now /\ pc = "wait")

OneBackup ==
    \A f, g \in Fixtures : \A p \in Fields :
        saved[f][p] # None /\ saved[g][p] # None => f = g

\* A field without a backup was never changed, or has been restored.
Untouched ==
    \A p \in Fields : (\A f \in Fixtures : saved[f][p] = None) => spec[p] = Original[p]

\* Fixtures that outlive the teardown in progress.
Lasting == {f \in up : pc \in {"teardown", "after"} => Scope[f] < keep}

InForce == \A f \in Lasting : \A p \in Patch[f] : spec[p] = Want[p]

\* The fixture being set up is not up yet, and saves nothing another one holds.
Entering ==
    /\ pc \in {"read", "wait"} => now \notin up \cup failed
    /\ pc = "wait" => /\ \A p \in Patch[now] : spec[p] = Want[p]
                      /\ \A p \in Fields : saved[now][p] # None => \A f \in up : p \notin Patch[f]

IInv == /\ TypeOK /\ Backups /\ OneBackup /\ Untouched /\ InForce /\ Entering

-----------------------------------------------------------------------------
LEMMA InitIInv == Init => IInv
<1> SUFFICES ASSUME Init PROVE IInv
  OBVIOUS
<1> USE OriginalAssumption, FixturesAssumption DEF Init, OperatorInit
<1>1. OperatorTypeOK
  BY DEF OperatorTypeOK, Up
<1>2. saved \in [Fixtures -> [Fields -> Values \cup {None}]]
  BY DEF NoBackup
<1>3. left \in Seq(Condition)
  OBVIOUS
<1>4. TypeOK
  BY <1>1, <1>2, <1>3 DEF TypeOK, Levels
<1>5. \A f \in Fixtures : \A p \in Fields : saved[f][p] = None
  BY DEF NoBackup
<1>6. Backups /\ OneBackup /\ Untouched
  BY <1>5 DEF Backups, OneBackup, Untouched
<1>7. InForce /\ Entering
  BY DEF InForce, Lasting, Entering
<1>8. QED
  BY <1>4, <1>6, <1>7 DEF IInv

\* The operator moves nothing the invariant speaks of but its own status.
LEMMA OperatorIInv ==
    IInv /\ OperatorStep /\ UNCHANGED pytestVars => IInv'
<1> SUFFICES ASSUME IInv, OperatorStep, UNCHANGED pytestVars PROVE IInv'
  OBVIOUS
<1> USE DEF IInv, pytestVars
<1>1. OperatorTypeOK' /\ spec' = spec
  <2>1. OperatorTypeOK
    BY DEF TypeOK
  <2>2. CASE Observe
    BY <2>1, <2>2 DEF OperatorTypeOK, Observe
  <2>3. CASE ReportBusy
    <3>1. [p \in Fields |-> cond[p] /\ seen[p] = applied[p]] \in [Fields -> BOOLEAN]
      OBVIOUS
    <3>2. QED
      BY <2>1, <2>3, <3>1 DEF OperatorTypeOK, ReportBusy
  <2>4. CASE ReportDone
    BY <2>1, <2>4, Zenon DEF OperatorTypeOK, ReportDone, Up
  <2>5. QED
    BY <2>2, <2>3, <2>4 DEF OperatorStep
<1>2. TypeOK'
  BY <1>1 DEF TypeOK
<1>3. (Backups /\ OneBackup /\ Untouched)'
  BY <1>1 DEF Backups, OneBackup, Untouched
<1>4. (InForce /\ Entering)'
  BY <1>1 DEF InForce, Lasting, Entering
<1>5. QED
  BY <1>2, <1>3, <1>4

-----------------------------------------------------------------------------
(* What the editor writes.                                                 *)

LEMMA EditorTyped ==
    ASSUME TypeOK, NEW f \in Fixtures
    PROVE  /\ Backup(f) \in [Fields -> Values \cup {None}]
           /\ Patched(f) \in [Fields -> Values]
           /\ Restored(f) \in [Fields -> Values]
           /\ NoBackup \in [Fields -> Values \cup {None}]
<1> USE FixturesAssumption DEF TypeOK, OperatorTypeOK
<1>1. \A p \in Fields : saved[f][p] \in Values \cup {None} /\ spec[p] \in Values /\ Want[p] \in Values
  OBVIOUS
<1>2. QED
  BY <1>1 DEF Backup, Patched, Restored, NoBackup

LEMMA FinishTyped ==
    ASSUME NEW k \in Levels, Finish(k)
    PROVE  keep' \in Levels /\ pc' = "teardown" /\ need' = {}
BY DEF Finish

\* An editor that closes gives each field it changed its original value back
\* and leaves the others alone.
LEMMA DropEffect ==
    ASSUME IInv, NEW f \in Fixtures, Drop(f)
    PROVE  /\ \A p \in Fields : saved[f][p] # None => spec'[p] = Original[p]
           /\ \A p \in Fields : saved[f][p] = None => spec'[p] = spec[p]
           /\ \A p \in Fields : saved'[f][p] = None
           /\ \A g \in Fixtures \ {f} : saved'[g] = saved[g]
<1>1. saved' = [saved EXCEPT ![f] = NoBackup] /\ spec' = Restored(f)
  BY DEF Drop
<1>2. \A p \in Fields : saved[f][p] # None => saved[f][p] = Original[p]
  BY DEF IInv, Backups
<1>3. \A p \in Fields : saved'[f][p] = None
  BY <1>1 DEF IInv, TypeOK, NoBackup
<1>4. \A g \in Fixtures \ {f} : saved'[g] = saved[g]
  BY <1>1 DEF IInv, TypeOK
<1>5. QED
  BY <1>1, <1>2, <1>3, <1>4 DEF Restored

\* So who holds which backup stays in order when an editor closes.
LEMMA DropIInv ==
    ASSUME IInv, NEW f \in Fixtures, Drop(f),
           \A g \in up \ {f} : g \in up',
           pc = "wait" => f = now
    PROVE  (Backups /\ OneBackup /\ Untouched)'
<1>1. \A g \in Fixtures : \A p \in Fields : saved'[g][p] # None => g # f /\ saved'[g][p] = saved[g][p]
  BY DropEffect
<1>2. Backups'
  <2> SUFFICES ASSUME NEW g \in Fixtures, NEW p \in Fields, saved'[g][p] # None
               PROVE  /\ saved'[g][p] = Original[p]
                      /\ p \in Patch[g] /\ spec'[p] = Want[p]
                      /\ g \in up' \/ (g = now' /\ pc' = "wait")
    BY DEF Backups
  <2>1. g # f /\ saved[g][p] # None /\ saved'[g][p] = saved[g][p]
    BY <1>1
  <2>2. /\ saved[g][p] = Original[p]
        /\ p \in Patch[g] /\ spec[p] = Want[p]
        /\ g \in up \/ (g = now /\ pc = "wait")
    BY <2>1 DEF IInv, Backups
  <2>3. saved[f][p] = None
    BY <2>1 DEF IInv, OneBackup
  <2>4. QED
    BY <2>1, <2>2, <2>3, DropEffect
<1>3. OneBackup'
  BY <1>1 DEF IInv, OneBackup
<1>4. Untouched'
  <2> SUFFICES ASSUME NEW p \in Fields, \A g \in Fixtures : saved'[g][p] = None
               PROVE  spec'[p] = Original[p]
    BY DEF Untouched
  <2>1. CASE saved[f][p] # None
    BY <2>1, DropEffect
  <2>2. CASE saved[f][p] = None
    <3>1. \A g \in Fixtures : saved[g][p] = None
      BY <2>2, DropEffect
    <3>2. QED
      BY <2>2, <3>1, DropEffect DEF IInv, Untouched
  <2>3. QED
    BY <2>1, <2>2
<1>5. QED
  BY <1>2, <1>3, <1>4

\* Steps that write no spec and open or close no editor.
LEMMA BackupsStay ==
    ASSUME IInv, UNCHANGED <<spec, saved>>, up \subseteq up',
           pc = "wait" => now' = now /\ (pc' = "wait" \/ now \in up')
    PROVE  (Backups /\ OneBackup /\ Untouched)'
BY DEF IInv, Backups, OneBackup, Untouched

-----------------------------------------------------------------------------
LEMMA ChooseIInv ==
    ASSUME IInv, PickTest \/ RunTest \/ EndTest \/ After \/ TornDown
    PROVE  IInv'
<1> USE FixturesAssumption
<1>1. UNCHANGED <<spec, operatorVars, now, left, up, under, saved, settled, patched>>
  BY DEF PickTest, RunTest, EndTest, After, TornDown
<1>2. /\ pc' \in {"setup", "test", "teardown", "between", "over"}
      /\ pc \in {"between", "setup", "test", "after", "teardown"}
  BY DEF PickTest, RunTest, EndTest, After, TornDown, Finish
<1>3. /\ need' \subseteq Fixtures /\ failed' \subseteq failed
      /\ keep' \in Levels /\ tests' \in 0..MaxTests
  BY DEF IInv, TypeOK, PickTest, RunTest, EndTest, After, TornDown, Finish
<1>4. TypeOK'
  BY <1>1, <1>2, <1>3 DEF IInv, TypeOK, OperatorTypeOK, operatorVars
<1>5. (Backups /\ OneBackup /\ Untouched)'
  BY <1>1, <1>2, BackupsStay
<1>6. Lasting' \subseteq Lasting
  BY <1>1, <1>2 DEF Lasting, PickTest, RunTest, EndTest, After, TornDown, Finish, IInv, TypeOK, Levels
<1>7. InForce'
  BY <1>1, <1>6 DEF IInv, InForce
<1>8. Entering'
  BY <1>2 DEF Entering
<1>9. QED
  BY <1>4, <1>5, <1>7, <1>8 DEF IInv

LEMMA CachedIInv ==
    ASSUME IInv, NEW f \in Fixtures, Cached(f) \/ CachedFailure(f)
    PROVE  IInv'
<1>1. UNCHANGED <<spec, operatorVars, now, left, up, under, failed, saved, tests, settled, patched>>
  BY DEF Cached, CachedFailure
<1>2. /\ pc = "setup" /\ pc' \in {"setup", "teardown"}
      /\ need' \subseteq Fixtures /\ keep' \in Levels
  BY DEF IInv, TypeOK, Cached, CachedFailure, IsNext, Finish
<1>3. TypeOK'
  BY <1>1, <1>2 DEF IInv, TypeOK, OperatorTypeOK, operatorVars
<1>4. (Backups /\ OneBackup /\ Untouched)'
  BY <1>1, <1>2, BackupsStay
<1>5. InForce'
  BY <1>1, <1>2 DEF IInv, InForce, Lasting
<1>6. Entering'
  BY <1>2 DEF Entering
<1>7. QED
  BY <1>3, <1>4, <1>5, <1>6 DEF IInv

LEMMA ReadIInv ==
    ASSUME IInv, NEW f \in Fixtures, Read(f)
    PROVE  IInv'
<1>1. UNCHANGED <<spec, seen, busy, applied, ready, cond, need, left, up, under, failed, saved,
                  keep, tests, patched>>
  BY DEF Read
<1>2. /\ pc = "setup" /\ pc' = "read" /\ now' = f /\ f \notin up \cup failed
      /\ moved' = FALSE
  BY DEF Read, IsNext
<1>3. settled' \in [Fixtures -> BOOLEAN]
  BY Zenon DEF Read, IInv, TypeOK, Settled
<1>4. TypeOK'
  BY <1>1, <1>2, <1>3 DEF IInv, TypeOK, OperatorTypeOK
<1>5. (Backups /\ OneBackup /\ Untouched)'
  BY <1>1, <1>2, BackupsStay
<1>6. (InForce /\ Entering)'
  BY <1>1, <1>2 DEF IInv, InForce, Lasting, Entering
<1>7. QED
  BY <1>4, <1>5, <1>6 DEF IInv

LEMMA EnterIInv == ASSUME IInv, Enter PROVE IInv'
<1> USE FixturesAssumption
<1>1. /\ UNCHANGED <<operatorVars, need, now, up, under, failed, keep, tests, settled>>
      /\ pc = "read" /\ pc' = "wait" /\ now' = now /\ now \in Fixtures
      /\ spec' = Patched(now) /\ saved' = [saved EXCEPT ![now] = Backup(now)]
  BY DEF Enter, IInv, TypeOK
<1>2. now \notin up /\ \A p \in Fields : saved[now][p] = None
  BY <1>1 DEF IInv, Entering, Backups
<1>3. TypeOK'
  <2>1. left' \in Seq(Condition)
    <3>1. <<>> \in Seq(Condition) /\ Waits[now] \in Seq(Condition)
      BY <1>1
    <3>2. left' = <<>> \/ left' = Waits[now]
      BY DEF Enter
    <3>3. QED
      BY <3>1, <3>2
  <2>2. patched' \subseteq Fixtures
    BY <1>1 DEF Enter, IInv, TypeOK
  <2>3. spec' \in [Fields -> Values] /\ saved' \in [Fixtures -> [Fields -> Values \cup {None}]]
    BY <1>1, EditorTyped DEF IInv, TypeOK
  <2>4. QED
    BY <1>1, <2>1, <2>2, <2>3 DEF IInv, TypeOK, OperatorTypeOK, operatorVars
<1>4. /\ \A p \in Patch[now] : spec'[p] = Want[p]
      /\ \A p \in Fields \ Patch[now] : spec'[p] = spec[p]
      /\ \A g \in Fixtures \ {now} : saved'[g] = saved[g]
      /\ \A p \in Fields : saved'[now][p] =
            IF p \in Patch[now] /\ spec[p] # Want[p] THEN spec[p] ELSE None
  BY <1>1 DEF Patched, Backup, IInv, TypeOK
\* A field somebody else has saved has its value already.
<1>5. \A p \in Fields : saved'[now][p] # None =>
        /\ p \in Patch[now] /\ spec[p] # Want[p]
        /\ \A g \in Fixtures : saved[g][p] = None
        /\ saved'[now][p] = Original[p]
  <2> SUFFICES ASSUME NEW p \in Fields, saved'[now][p] # None
               PROVE  /\ p \in Patch[now] /\ spec[p] # Want[p]
                      /\ \A g \in Fixtures : saved[g][p] = None
                      /\ saved'[now][p] = Original[p]
    OBVIOUS
  <2>1. p \in Patch[now] /\ spec[p] # Want[p] /\ saved'[now][p] = spec[p]
    BY <1>4
  <2>2. \A g \in Fixtures : saved[g][p] = None
    BY <2>1 DEF IInv, Backups
  <2>3. spec[p] = Original[p]
    BY <2>2 DEF IInv, Untouched
  <2>4. QED
    BY <2>1, <2>2, <2>3
<1>6. Backups'
  <2> SUFFICES ASSUME NEW g \in Fixtures, NEW p \in Fields, saved'[g][p] # None
               PROVE  /\ saved'[g][p] = Original[p]
                      /\ p \in Patch[g] /\ spec'[p] = Want[p]
                      /\ g \in up' \/ (g = now' /\ pc' = "wait")
    BY DEF Backups
  <2>1. CASE g = now
    BY <2>1, <1>1, <1>4, <1>5
  <2>2. CASE g # now
    <3>1. /\ saved'[g][p] = saved[g][p] /\ saved[g][p] = Original[p]
          /\ p \in Patch[g] /\ spec[p] = Want[p] /\ g \in up
      BY <2>2, <1>1, <1>4 DEF IInv, Backups
    <3>2. QED
      BY <3>1, <1>1, <1>4
  <2>3. QED
    BY <2>1, <2>2
<1>7. OneBackup'
  <2> SUFFICES ASSUME NEW g \in Fixtures, NEW h \in Fixtures, NEW p \in Fields,
                      saved'[g][p] # None, saved'[h][p] # None
               PROVE  g = h
    BY DEF OneBackup
  <2>1. CASE g # now /\ h # now
    BY <2>1, <1>4 DEF IInv, OneBackup
  <2>2. CASE g = now /\ h # now
    <3>1. saved[h][p] = None /\ saved'[h] = saved[h]
      BY <2>2, <1>4, <1>5
    <3>2. QED
      BY <3>1
  <2>3. CASE g # now /\ h = now
    <3>1. saved[g][p] = None /\ saved'[g] = saved[g]
      BY <2>3, <1>4, <1>5
    <3>2. QED
      BY <3>1
  <2>4. QED
    BY <2>1, <2>2, <2>3
<1>8. Untouched'
  <2> SUFFICES ASSUME NEW p \in Fields, \A g \in Fixtures : saved'[g][p] = None
               PROVE  spec'[p] = Original[p]
    BY DEF Untouched
  <2>1. \A g \in Fixtures : saved[g][p] = None
    BY <1>2, <1>4
  <2>2. spec[p] = Original[p]
    BY <2>1 DEF IInv, Untouched
  <2>3. p \in Patch[now] => spec[p] = Want[p]
    <3>1. spec[p] \in Values
      BY DEF IInv, TypeOK, OperatorTypeOK
    <3>2. QED
      BY <1>1, <1>4, <3>1
  <2>4. QED
    BY <1>4, <2>2, <2>3
<1>9. InForce'
  <2> SUFFICES ASSUME NEW g \in Lasting', NEW p \in Patch[g] PROVE spec'[p] = Want[p]
    BY DEF InForce
  <2>1. g \in Lasting /\ p \in Fields
    BY <1>1 DEF Lasting, IInv, TypeOK
  <2>2. spec[p] = Want[p]
    BY <2>1 DEF IInv, InForce
  <2>3. QED
    BY <1>4, <2>1, <2>2
<1>10. Entering'
  <2>1. \A p \in Fields : saved'[now][p] # None => \A g \in up : p \notin Patch[g]
    BY <1>1, <1>5 DEF IInv, InForce, Lasting
  <2>2. QED
    BY <1>1, <1>4, <2>1 DEF IInv, Entering
<1>11. QED
  BY <1>3, <1>6, <1>7, <1>8, <1>9, <1>10 DEF IInv

LEMMA WaitIInv == ASSUME IInv, Wait PROVE IInv'
<1>1. /\ UNCHANGED <<spec, operatorVars, pc, need, now, up, under, failed, saved, keep, tests,
                     settled, patched>>
      /\ left # <<>> /\ left' = Tail(left) /\ left \in Seq(Condition)
  BY DEF Wait, IInv, TypeOK
<1>2. left' \in Seq(Condition)
  BY <1>1
<1>3. TypeOK'
  BY <1>1, <1>2 DEF IInv, TypeOK, OperatorTypeOK, operatorVars
<1>4. (Backups /\ OneBackup /\ Untouched)'
  BY <1>1, BackupsStay
<1>5. (InForce /\ Entering)'
  BY <1>1 DEF IInv, InForce, Lasting, Entering
<1>6. QED
  BY <1>3, <1>4, <1>5 DEF IInv

LEMMA TimeOutIInv == ASSUME IInv, TimeOut PROVE IInv'
<1>1. /\ UNCHANGED <<operatorVars, now, up, under, tests, settled>>
      /\ pc = "wait" /\ pc' = "teardown" /\ need' = {} /\ keep' \in Levels
      /\ Drop(now) /\ now \in Fixtures /\ failed' = failed \cup {now} /\ left' = <<>>
  BY DEF TimeOut, Finish, IInv, TypeOK
<1>2. now \notin up
  BY <1>1 DEF IInv, Entering
<1>3. TypeOK'
  <2>1. spec' \in [Fields -> Values] /\ saved' \in [Fixtures -> [Fields -> Values \cup {None}]]
    BY <1>1, EditorTyped DEF Drop, IInv, TypeOK
  <2>2. left' \in Seq(Condition) /\ patched' \subseteq Fixtures
    BY <1>1 DEF Drop, IInv, TypeOK
  <2>3. QED
    BY <1>1, <1>2, <2>1, <2>2 DEF IInv, TypeOK, OperatorTypeOK, operatorVars
<1>4. (Backups /\ OneBackup /\ Untouched)'
  BY <1>1, DropIInv
\* What the editor changed none of the fixtures that are up relies on.
<1>5. InForce'
  <2> SUFFICES ASSUME NEW g \in Lasting', NEW p \in Patch[g] PROVE spec'[p] = Want[p]
    BY DEF InForce
  <2>1. g \in up /\ g \in Fixtures /\ p \in Fields
    BY <1>1, FixturesAssumption DEF Lasting, IInv, TypeOK
  <2>2. spec[p] = Want[p] /\ saved[now][p] = None
    BY <1>1, <2>1 DEF IInv, InForce, Lasting, Entering
  <2>3. QED
    BY <1>1, <2>1, <2>2, DropEffect
<1>6. Entering'
  BY <1>1 DEF Entering
<1>7. QED
  BY <1>3, <1>4, <1>5, <1>6 DEF IInv

LEMMA SetUpIInv == ASSUME IInv, SetUp PROVE IInv'
<1>1. /\ UNCHANGED <<spec, operatorVars, now, left, failed, saved, keep, tests, settled, patched>>
      /\ pc = "wait" /\ pc' = "setup" /\ up' = up \cup {now} /\ now \in Fixtures
      /\ need' \subseteq need /\ under' = [under EXCEPT ![now] = up]
  BY DEF SetUp, IInv, TypeOK
<1>2. now \notin failed
  BY <1>1 DEF IInv, Entering
<1>3. TypeOK'
  BY <1>1, <1>2 DEF IInv, TypeOK, OperatorTypeOK, operatorVars
<1>4. (Backups /\ OneBackup /\ Untouched)'
  BY <1>1, BackupsStay
<1>5. (InForce /\ Entering)'
  BY <1>1 DEF IInv, InForce, Lasting, Entering
<1>6. QED
  BY <1>3, <1>4, <1>5 DEF IInv

LEMMA TakeDownIInv ==
    ASSUME IInv, NEW f \in Fixtures, TakeDown(f)
    PROVE  IInv'
<1>1. /\ UNCHANGED <<operatorVars, need, left, under, failed, keep, tests, settled>>
      /\ pc = "teardown" /\ pc' \in {"teardown", "after"} /\ now' = f
      /\ f \in up /\ Scope[f] >= keep /\ up' = up \ {f} /\ Drop(f)
  BY DEF TakeDown, IsLast
<1>2. TypeOK'
  <2>1. spec' \in [Fields -> Values] /\ saved' \in [Fixtures -> [Fields -> Values \cup {None}]]
    BY <1>1, EditorTyped DEF Drop, IInv, TypeOK
  <2>2. patched' \subseteq Fixtures
    BY <1>1 DEF Drop, IInv, TypeOK
  <2>3. QED
    BY <1>1, <2>1, <2>2 DEF IInv, TypeOK, OperatorTypeOK, operatorVars
<1>3. (Backups /\ OneBackup /\ Untouched)'
  BY <1>1, DropIInv
\* The fixtures that last have wider scopes, hence other fields.
<1>4. InForce'
  <2> SUFFICES ASSUME NEW g \in Lasting', NEW p \in Patch[g] PROVE spec'[p] = Want[p]
    BY DEF InForce
  <2>1. /\ g \in Lasting /\ g \in Fixtures /\ p \in Fields
        /\ Scope[g] < keep
    BY <1>1, FixturesAssumption DEF Lasting, IInv, TypeOK
  <2>2. Scope[g] # Scope[f]
    <3>1. Scope[g] \in 0..2 /\ Scope[f] \in 0..2
      BY <2>1, FixturesAssumption
    <3>2. keep \in 0..3 /\ Scope[g] < keep /\ keep <= Scope[f]
      BY <1>1, <2>1, <3>1 DEF IInv, TypeOK, Levels
    <3>3. QED
      BY <3>1, <3>2
  <2>3. p \notin Patch[f]
    BY <2>1, <2>2, ScopeAssumption
  <2>4. spec[p] = Want[p] /\ saved[f][p] = None
    BY <2>1, <2>3 DEF IInv, InForce, Backups
  <2>5. QED
    BY <1>1, <2>1, <2>4, DropEffect
<1>5. Entering'
  BY <1>1 DEF Entering
<1>6. QED
  BY <1>2, <1>3, <1>4, <1>5 DEF IInv

LEMMA StepIInv == IInv /\ [Next]_vars => IInv'
<1> SUFFICES ASSUME IInv, [Next]_vars PROVE IInv'
  OBVIOUS
<1>1. CASE UNCHANGED vars
  BY <1>1 DEF vars, operatorVars, pytestVars, IInv, TypeOK, OperatorTypeOK, Backups, OneBackup,
              Untouched, InForce, Lasting, Entering
<1>2. CASE OperatorStep /\ UNCHANGED pytestVars
  BY <1>2, OperatorIInv
<1>3. CASE PytestStep
  BY <1>3, ChooseIInv, CachedIInv, ReadIInv, EnterIInv, WaitIInv, TimeOutIInv, SetUpIInv,
     TakeDownIInv DEF PytestStep
<1>4. QED
  BY <1>1, <1>2, <1>3 DEF Next

\* The invariant the other theorems are drawn from: backups are held by one
\* fixture each and hold original values, and lasting patches are in force.
THEOREM Inductive == Spec => []IInv
BY InitIInv, StepIInv, PTL DEF Spec

\* Every variable keeps its type, whatever fails and times out.
THEOREM TypeCorrect == Spec => []TypeOK
<1>1. IInv => TypeOK
  BY DEF IInv
<1>2. QED
  BY <1>1, Inductive, PTL

\* ResourceEditor and pytest's scopes together give the DSC its spec back:
\* when no fixture is up, it is the one the session found.
THEOREM SessionLeavesNoTrace == Spec => []LeavesNoTrace
<1>1. IInv => LeavesNoTrace
  <2> SUFFICES ASSUME IInv, pc \in {"between", "over"}, up = {} PROVE spec = Original
    BY DEF LeavesNoTrace
  <2>1. \A p \in Fields : \A f \in Fixtures : saved[f][p] = None
    BY DEF IInv, Backups
  <2>2. \A p \in Fields : spec[p] = Original[p]
    BY <2>1 DEF IInv, Untouched
  <2>3. spec \in [Fields -> Values]
    BY DEF IInv, TypeOK, OperatorTypeOK
  <2>4. QED
    BY <2>2, <2>3, OriginalAssumption
<1>2. QED
  BY <1>1, Inductive, PTL

\* While a test runs, every patch its fixtures made is in the spec.
THEOREM TestsHaveTheirPatches == Spec => []PatchesInForce
<1>1. IInv => PatchesInForce
  BY DEF IInv, InForce, Lasting, PatchesInForce
<1>2. QED
  BY <1>1, Inductive, PTL

-----------------------------------------------------------------------------
(* What a wait that returns is worth.                                      *)

\* Whatever the operator is at, it has one of two values of each field in hand.
KnownValues == \A p \in Fields :
    spec[p] \in {Original[p], Want[p]} /\ seen[p] \in {Original[p], Want[p]}
    /\ applied[p] \in {Original[p], Want[p]}

\* It rests only when the cluster embodies what it took up last, and a component
\* whose condition is True is on the cluster.
Resting ==
    /\ ~busy => seen = applied /\ ready
    /\ \A p \in Fields : cond[p] => applied[p] # Removed

\* From the baseline of a fixture to the end of its waits the operator, idle at
\* the baseline, either has not looked at the patch or works on nothing else.
Watched ==
    /\ pc = "read" /\ settled[now] => ~busy /\ seen = spec /\ ready /\ ~moved
    /\ pc = "wait" /\ settled[now] =>
        \/ ~busy /\ ready /\ ~moved /\ seen = applied
        \/ busy /\ seen = spec /\ (ready => ~moved)
        \/ ~busy /\ ready /\ seen = spec /\ applied = spec

Telling == {"reconciled", "component"}
Asks(f) == \E i \in DOMAIN Waits[f] : Waits[f][i] \in Telling

\* The patch is on the cluster, and the operator is not about to take it off.
Confirmed(f) == \A p \in Patch[f] : spec[p] = Want[p] /\ seen[p] = Want[p] /\ applied[p] = Want[p]

WaitsFor(c) == \E i \in DOMAIN left : left[i] = c

Told ==
    /\ patched \subseteq up \cup (IF pc = "wait" THEN {now} ELSE {})
    /\ pc = "wait" => \A c \in Condition : WaitsFor(c) => \E i \in DOMAIN Waits[now] : Waits[now][i] = c
    /\ pc = "wait" /\ now \in patched /\ settled[now] /\ Asks(now) =>
        Confirmed(now) \/ \E c \in Telling : WaitsFor(c)
    /\ \A f \in Lasting \cap patched : settled[f] /\ Asks(f) => Confirmed(f)

AnswerInv == KnownValues /\ Resting /\ Watched /\ Told

LEMMA InitAnswers == Init => AnswerInv
<1> SUFFICES ASSUME Init PROVE AnswerInv
  OBVIOUS
<1> USE DEF Init, OperatorInit
<1>1. KnownValues /\ Resting
  BY DEF KnownValues, Resting, Up
<1>2. Watched /\ Told
  BY DEF Watched, Told, Lasting
<1>3. QED
  BY <1>1, <1>2 DEF AnswerInv

LEMMA OperatorAnswers ==
    ASSUME IInv, AnswerInv, OperatorStep, UNCHANGED pytestVars
    PROVE  AnswerInv'
<1> USE DEF AnswerInv, pytestVars
<1>1. /\ seen \in [Fields -> Values] /\ applied \in [Fields -> Values] /\ spec \in [Fields -> Values]
      /\ cond \in [Fields -> BOOLEAN] /\ busy \in BOOLEAN /\ ready \in BOOLEAN /\ moved \in BOOLEAN
  BY DEF IInv, TypeOK, OperatorTypeOK
<1>2. CASE Observe
  <2> USE <1>2 DEF Observe
  <2>1. KnownValues' /\ Resting'
    BY DEF KnownValues, Resting
  <2>2. Watched'
    BY DEF Watched
  <2>3. QED
    BY <2>1, <2>2, <1>1 DEF Told, Confirmed, Lasting, WaitsFor
<1>3. CASE ReportBusy
  <2> USE <1>3 DEF ReportBusy
  <2>1. KnownValues' /\ Resting'
    BY <1>1 DEF KnownValues, Resting
  <2>2. Watched'
    BY DEF Watched
  <2>3. QED
    BY <2>1, <2>2 DEF Told, Confirmed, Lasting, WaitsFor
<1>4. CASE ReportDone
  <2> USE <1>4 DEF ReportDone
  <2>1. KnownValues' /\ Resting'
    BY <1>1 DEF KnownValues, Resting, Up
  <2>2. Watched'
    BY DEF Watched
  <2>3. QED
    BY <2>1, <2>2 DEF Told, Confirmed, Lasting, WaitsFor
<1>5. QED
  BY <1>2, <1>3, <1>4 DEF OperatorStep

\* pytest looks at the status and never writes it.
LEMMA StatusStays ==
    ASSUME PytestStep
    PROVE  /\ UNCHANGED <<seen, busy, applied, ready, cond>>
           /\ (\E f \in Fixtures : Read(f)) \/ moved' = moved
<1> USE DEF operatorVars
<1>1. CASE PickTest \/ Enter \/ Wait \/ TimeOut \/ SetUp
  BY <1>1 DEF PickTest, Enter, Wait, TimeOut, SetUp
<1>2. CASE RunTest \/ EndTest \/ After \/ TornDown
  BY <1>2 DEF RunTest, EndTest, After, TornDown
<1>3. CASE \E f \in Fixtures : Cached(f) \/ CachedFailure(f) \/ Read(f) \/ TakeDown(f)
  BY <1>3 DEF Cached, CachedFailure, Read, TakeDown
<1>4. QED
  BY <1>1, <1>2, <1>3 DEF PytestStep

\* A field has the value the session found, or the one its fixtures want, in
\* the spec and therefore in what the operator takes from it.
LEMMA ValuesStay ==
    ASSUME IInv, IInv', AnswerInv, PytestStep
    PROVE  KnownValues' /\ Resting'
<1>1. \A p \in Fields : spec'[p] \in {Original[p], Want[p]}
  <2>1. ASSUME NEW p \in Fields PROVE spec'[p] \in {Original[p], Want[p]}
    <3>1. CASE \A f \in Fixtures : saved'[f][p] = None
      BY <3>1 DEF IInv, Untouched
    <3>2. CASE \E f \in Fixtures : saved'[f][p] # None
      BY <3>2 DEF IInv, Backups
    <3>3. QED
      BY <3>1, <3>2
  <2>2. QED
    BY <2>1
<1>2. QED
  BY <1>1, StatusStays DEF AnswerInv, KnownValues, Resting

\* A fixture that is there to stay keeps what it was told, because its patch
\* stays in the spec (InForce).
LEMMA ConfirmedStays ==
    ASSUME IInv', AnswerInv, PytestStep, NEW f, f \in Lasting, f \in Lasting', f \in patched,
           settled[f], Asks(f)
    PROVE  Confirmed(f)'
<1>1. Confirmed(f)
  BY DEF AnswerInv, Told
<1>2. \A p \in Patch[f] : spec'[p] = Want[p]
  BY DEF IInv, InForce
<1>3. QED
  BY <1>1, <1>2, StatusStays DEF Confirmed

\* Steps between fixtures, and the end of a scope.
LEMMA ChooseAnswers ==
    ASSUME IInv, IInv', AnswerInv, PytestStep,
           \/ PickTest \/ RunTest \/ EndTest \/ After \/ TornDown \/ TimeOut
           \/ \E f \in Fixtures : Cached(f) \/ CachedFailure(f) \/ TakeDown(f)
    PROVE  AnswerInv'
<1>1. /\ pc' \notin {"read", "wait"}
      /\ UNCHANGED settled
  <2>1. CASE PickTest \/ RunTest \/ EndTest \/ After \/ TornDown \/ TimeOut
    BY <2>1 DEF PickTest, RunTest, EndTest, After, TornDown, TimeOut, Finish
  <2>2. CASE \E f \in Fixtures : Cached(f) \/ CachedFailure(f) \/ TakeDown(f)
    BY <2>2 DEF Cached, CachedFailure, TakeDown, IsNext, Finish
  <2>3. QED
    BY <2>1, <2>2
<1>2. Lasting' \subseteq Lasting /\ patched' \subseteq patched /\ patched' \subseteq up'
  <2>1. patched \subseteq up \cup (IF pc = "wait" THEN {now} ELSE {})
    BY DEF AnswerInv, Told
  <2>2. CASE PickTest \/ RunTest \/ EndTest \/ After \/ TornDown
    BY <2>1, <2>2, FixturesAssumption
       DEF PickTest, RunTest, EndTest, After, TornDown, Finish, Lasting, IInv, TypeOK, Levels
  <2>3. CASE TimeOut
    BY <2>1, <2>3 DEF TimeOut, Finish, Lasting, Drop
  <2>4. CASE \E f \in Fixtures : Cached(f) \/ CachedFailure(f)
    BY <2>1, <2>4 DEF Cached, CachedFailure, IsNext, Finish, Lasting
  <2>5. CASE \E f \in Fixtures : TakeDown(f)
    BY <2>1, <2>5 DEF TakeDown, Drop, Lasting
  <2>6. QED
    BY <2>2, <2>3, <2>4, <2>5
<1>3. Watched'
  BY <1>1 DEF Watched
<1>4. Told'
  <2>1. \A f \in Lasting' \cap patched' : settled'[f] /\ Asks(f) => Confirmed(f)'
    BY <1>1, <1>2, ConfirmedStays
  <2>2. QED
    BY <1>1, <1>2, <2>1 DEF Told, Asks
<1>5. QED
  BY <1>3, <1>4, ValuesStay DEF AnswerInv

LEMMA ReadAnswers ==
    ASSUME IInv, IInv', AnswerInv, PytestStep, NEW f \in Fixtures, Read(f)
    PROVE  AnswerInv'
<1>1. /\ pc = "setup" /\ pc' = "read" /\ now' = f /\ f \notin up
      /\ moved' = FALSE /\ settled' = [settled EXCEPT ![f] = Settled]
      /\ UNCHANGED <<spec, seen, busy, applied, ready, cond, left, up, keep, patched>>
  BY DEF Read, IsNext
<1>2. settled'[f] = Settled /\ \A g \in Fixtures \ {f} : settled'[g] = settled[g]
  BY <1>1 DEF IInv, TypeOK
<1>3. Watched'
  BY <1>1, <1>2 DEF Watched, Settled
<1>4. Told'
  <2>1. patched \subseteq up /\ up \subseteq Fixtures
    BY <1>1 DEF AnswerInv, Told, IInv, TypeOK
  <2>2. \A g \in Lasting' \cap patched' : settled'[g] /\ Asks(g) => Confirmed(g)'
    <3>1. SUFFICES ASSUME NEW g \in Lasting' \cap patched', settled'[g], Asks(g) PROVE Confirmed(g)'
      OBVIOUS
    <3>2. g \in Lasting /\ g \in patched /\ g \in Fixtures \ {f}
      BY <1>1, <2>1, <3>1 DEF Lasting
    <3>3. QED
      BY <1>2, <3>1, <3>2, ConfirmedStays
  <2>3. QED
    BY <1>1, <2>1, <2>2 DEF Told, Asks
<1>5. QED
  BY <1>3, <1>4, ValuesStay DEF AnswerInv

\* The patch goes out to an operator that was idle at the baseline, and is still.
LEMMA EnterAnswers ==
    ASSUME IInv, IInv', AnswerInv, PytestStep, Enter
    PROVE  AnswerInv'
<1>1. /\ pc = "read" /\ pc' = "wait" /\ now \in Fixtures
      /\ UNCHANGED <<seen, busy, applied, ready, cond, moved, now, up, keep, settled>>
      /\ left' = IF now \in Careful /\ Patched(now) = spec THEN <<>> ELSE Waits[now]
      /\ patched' = IF Patched(now) = spec THEN patched ELSE patched \cup {now}
  BY DEF Enter, operatorVars, IInv, TypeOK
<1>2. now \notin up /\ patched \subseteq up
  BY <1>1 DEF IInv, Entering, AnswerInv, Told
<1>3. Watched'
  BY <1>1 DEF Watched, AnswerInv, Resting
<1>4. Told'
  <2>1. patched' \subseteq up' \cup {now'}
    BY <1>1, <1>2
  <2>2. left' = <<>> \/ left' = Waits[now]
    BY <1>1
  <2>3. \A c \in Condition : WaitsFor(c)' => \E i \in DOMAIN Waits[now] : Waits[now][i] = c
    BY <2>2 DEF WaitsFor
  <2>4. now \in patched' /\ Asks(now) => \E c \in Telling : WaitsFor(c)'
    <3>1. SUFFICES ASSUME now \in patched', Asks(now) PROVE \E c \in Telling : WaitsFor(c)'
      OBVIOUS
    <3>2. left' = Waits[now]
      BY <1>1, <1>2, <3>1
    <3>3. QED
      BY <3>1, <3>2 DEF Asks, WaitsFor
  <2>5. \A g \in Lasting' \cap patched' : settled'[g] /\ Asks(g) => Confirmed(g)'
    <3>1. SUFFICES ASSUME NEW g \in Lasting' \cap patched', settled'[g], Asks(g) PROVE Confirmed(g)'
      OBVIOUS
    <3>2. g \in Lasting /\ g \in patched /\ settled[g]
      BY <1>1, <1>2, <3>1 DEF Lasting
    <3>3. QED
      BY <3>1, <3>2, ConfirmedStays
  <2>6. QED
    BY <1>1, <2>1, <2>3, <2>4, <2>5 DEF Told, Asks
<1>5. QED
  BY <1>3, <1>4, ValuesStay DEF AnswerInv

\* What the operator says when a telling wait returns is said of the patch.
LEMMA TellingWait ==
    ASSUME IInv, AnswerInv, pc = "wait", settled[now], now \in patched,
           NEW c \in Telling, Holds(c, now), WaitsFor(c)
    PROVE  Confirmed(now)
<1>1. now \in Fixtures /\ Patch[now] \subseteq Fields /\ \A p \in Patch[now] : spec[p] = Want[p]
  BY FixturesAssumption DEF IInv, TypeOK, Entering
<1>2. \/ ~busy /\ ready /\ ~moved /\ seen = applied
      \/ busy /\ seen = spec /\ (ready => ~moved)
      \/ ~busy /\ ready /\ seen = spec /\ applied = spec
  BY DEF AnswerInv, Watched
<1>3. CASE c = "reconciled"
  <2>1. moved /\ ready
    BY <1>3 DEF Holds
  <2>2. seen = spec /\ applied = spec
    BY <1>2, <2>1
  <2>3. QED
    BY <1>1, <2>2 DEF Confirmed
<1>4. CASE c = "component"
  <2>1. \A p \in Patch[now] : cond[p]
    BY <1>4 DEF Holds
  <2>2. \E i \in DOMAIN Waits[now] : Waits[now][i] = "component"
    BY <1>4 DEF AnswerInv, Told, Condition
  <2>3. \A p \in Patch[now] : Original[p] \in {Removed, Want[p]}
    BY <1>1, <2>2, ComponentAssumption
  <2>4. ASSUME NEW p \in Patch[now] PROVE applied[p] = Want[p] /\ seen[p] = Want[p]
    <3>1. applied[p] # Removed
      BY <1>1, <2>1 DEF AnswerInv, Resting
    <3>2. applied[p] = Want[p]
      BY <1>1, <2>3, <3>1 DEF AnswerInv, KnownValues
    <3>3. QED
      BY <1>1, <1>2, <3>2
  <2>5. QED
    BY <1>1, <2>4 DEF Confirmed
<1>5. QED
  BY <1>3, <1>4 DEF Telling

LEMMA WaitAnswers ==
    ASSUME IInv, IInv', AnswerInv, PytestStep, Wait
    PROVE  AnswerInv'
<1>1. /\ pc = "wait" /\ left # <<>> /\ Holds(Head(left), now) /\ left' = Tail(left)
      /\ UNCHANGED <<spec, seen, busy, applied, ready, cond, moved, pc, now, up, keep, settled, patched>>
      /\ left \in Seq(Condition)
  BY DEF Wait, operatorVars, IInv, TypeOK
<1>2. \A c : WaitsFor(c) => c = Head(left) \/ WaitsFor(c)'
  <2>1. SUFFICES ASSUME NEW c, WaitsFor(c), c # Head(left) PROVE WaitsFor(c)'
    OBVIOUS
  <2>2. PICK i \in DOMAIN left : left[i] = c
    BY <2>1 DEF WaitsFor
  <2>3. i \in 1..Len(left) /\ i # 1 /\ Len(left) \in Nat
    BY <1>1, <2>1, <2>2
  <2>4. i - 1 \in DOMAIN Tail(left) /\ Tail(left)[i - 1] = left[i]
    BY <1>1, <2>3
  <2>5. QED
    BY <1>1, <2>2, <2>4 DEF WaitsFor
<1>3. \A c : WaitsFor(c)' => WaitsFor(c)
  <2>1. SUFFICES ASSUME NEW c, WaitsFor(c)' PROVE WaitsFor(c)
    OBVIOUS
  <2>2. PICK i \in DOMAIN Tail(left) : Tail(left)[i] = c
    BY <1>1, <2>1 DEF WaitsFor
  <2>3. i + 1 \in DOMAIN left /\ left[i + 1] = Tail(left)[i]
    BY <1>1, <2>2
  <2>4. QED
    BY <2>2, <2>3 DEF WaitsFor
<1>4. Watched'
  BY <1>1 DEF Watched, AnswerInv
<1>5. Told'
  <2>1. \A f : Confirmed(f)' <=> Confirmed(f)
    BY <1>1 DEF Confirmed
  <2>2. now \in patched /\ settled[now] /\ Asks(now) =>
          Confirmed(now) \/ \E c \in Telling : WaitsFor(c)'
    <3>1. SUFFICES ASSUME now \in patched, settled[now], Asks(now), ~Confirmed(now)
                   PROVE  \E c \in Telling : WaitsFor(c)'
      OBVIOUS
    <3>2. PICK c \in Telling : WaitsFor(c)
      BY <1>1, <3>1 DEF AnswerInv, Told
    <3>3. c # Head(left)
      BY <1>1, <3>1, <3>2, TellingWait
    <3>4. QED
      BY <1>2, <3>2, <3>3
  <2>3. Lasting' = Lasting
    BY <1>1 DEF Lasting
  <2>4. QED
    BY <1>1, <1>3, <2>1, <2>2, <2>3 DEF Told, AnswerInv, Asks
<1>6. QED
  BY <1>4, <1>5, ValuesStay DEF AnswerInv

LEMMA SetUpAnswers ==
    ASSUME IInv, IInv', AnswerInv, PytestStep, SetUp
    PROVE  AnswerInv'
<1>1. /\ pc = "wait" /\ pc' = "setup" /\ left = <<>> /\ up' = up \cup {now}
      /\ UNCHANGED <<spec, seen, applied, now, settled, patched, keep>>
  BY DEF SetUp, operatorVars
<1>2. \A f : Confirmed(f)' <=> Confirmed(f)
  BY <1>1 DEF Confirmed
<1>3. \A f \in Lasting' \cap patched' : settled'[f] /\ Asks(f) => Confirmed(f)'
  <2>1. \A f \in Lasting' : f \in Lasting \/ f = now
    BY <1>1 DEF Lasting
  <2>2. ~\E c \in Telling : WaitsFor(c)
    BY <1>1 DEF WaitsFor
  <2>3. QED
    BY <1>1, <1>2, <2>1, <2>2 DEF AnswerInv, Told
<1>4. Watched' /\ Told'
  BY <1>1, <1>3 DEF Watched, Told, AnswerInv, Asks
<1>5. QED
  BY <1>4, ValuesStay DEF AnswerInv

LEMMA StepAnswers == IInv /\ IInv' /\ AnswerInv /\ [Next]_vars => AnswerInv'
<1> SUFFICES ASSUME IInv, IInv', AnswerInv, [Next]_vars PROVE AnswerInv'
  OBVIOUS
<1>1. CASE UNCHANGED vars
  BY <1>1 DEF vars, operatorVars, pytestVars, AnswerInv, KnownValues, Resting, Watched, Told,
              Confirmed, Lasting, WaitsFor
<1>2. CASE OperatorStep /\ UNCHANGED pytestVars
  BY <1>2, OperatorAnswers
<1>3. CASE PytestStep
  BY <1>3, ChooseAnswers, ReadAnswers, EnterAnswers, WaitAnswers, SetUpAnswers DEF PytestStep
<1>4. QED
  BY <1>1, <1>2, <1>3 DEF Next

\* A fixture whose operator was idle at the baseline, and that waited for the
\* reconciliation or for its component, has its patch on the cluster when the
\* test runs, whatever later fixtures have set in motion by then.
THEOREM IdleBaselineTells == Spec => []NoFalsePositiveWhenSettled
<1>1. AnswerInv => NoFalsePositiveWhenSettled
  BY DEF AnswerInv, Told, Lasting, Asks, Telling, Confirmed, NoFalsePositiveWhenSettled
<1>2. Spec => []AnswerInv
  BY InitAnswers, StepAnswers, Inductive, PTL DEF Spec
<1>3. QED
  BY <1>1, <1>2, PTL
=============================================================================
