------------------------- MODULE SchemaMigrationProofs -------------------------
(***************************************************************************)
(* For every history of guarded statements: the recorded version of a      *)
(* database covers no migration whose objects are missing, a server that   *)
(* serves has what some statement restores, and no start changes the       *)
(* grants of a seeded database.                                            *)
(***************************************************************************)
EXTENDS SchemaMigration, TLAPS

\* The highest of the versions 1 to k is k.
LEMMA CurrentOfPrefix ==
  ASSUME NEW k \in Nat
  PROVE  Current(1..k) = k
<1>1. CASE k = 0
  BY <1>1 DEF Current
<1>2. CASE k > 0
  <2>1. k \in 1..k /\ \A w \in 1..k : w <= k
    BY <1>2
  <2>2. \A m \in 1..k : (\A w \in 1..k : w <= m) => m = k
    BY <2>1
  <2> QED BY <2>1, <2>2, <1>2 DEF Current
<1> QED BY <1>1, <1>2

LEMMA LatestType == Latest \in Nat /\ DOMAIN MigrationScripts = 1..Latest
BY HistoryAssumption DEF Latest

LEMMA BodyType ==
  ASSUME NEW v \in 1..Latest
  PROVE  /\ MigrationScripts[v] \in Seq(Statement)
         /\ Len(MigrationScripts[v]) \in Nat
         /\ \A i \in 1..Len(MigrationScripts[v]) :
              MigrationScripts[v][i] \in Statement /\ Wellformed(MigrationScripts[v][i])
BY HistoryAssumption, LatestType DEF Latest

\* What a script adds are schema objects.
LEMMA AddedObjects ==
  ASSUME NEW script \in Seq(Statement)
  PROVE  AddedBy(script) \subseteq Object
<1>1. \A i \in 1..Len(script) : script[i] \in Statement
  OBVIOUS
<1> QED BY <1>1 DEF AddedBy, Statement

\* The objects a body promises are objects that it adds.
LEMMA PromisedAreAdded ==
  ASSUME NEW v \in 1..Latest
  PROVE  Promised(v) \subseteq AddedBy(MigrationScripts[v])
BY BodyType DEF Promised, Restored, Owed, AddedBy, Wellformed

\* Versions are recorded without a gap.
NoGap(database) == \E k \in Nat : database.ledger = 1..k

\* The database has what the first n migrations promise.
Complete(database, n) ==
  \A v \in 1..Latest : v <= n => Promised(v) \subseteq database.objects

\* What the process has done of the script it is in.
Progress ==
  pc = "schema" =>
    /\ names \subseteq view.objects
    /\ at > 0 => /\ view.ledger = 1..(at - 1)
                 /\ \A v \in 1..Latest : v = at =>
                      \A i \in 1..Len(MigrationScripts[v]) :
                         i < pos /\ Owed(MigrationScripts[v][i])
                           => MigrationScripts[v][i].name \in view.objects

\* A step of a body done before stays done: the inductive invariant.
IInv ==
  /\ TypeOK
  /\ NoGap(store) /\ Complete(store, Current(store.ledger))
  /\ NoGap(view) /\ Complete(view, Current(view.ledger))
  /\ Progress

LEMMA LeftType ==
  ASSUME NEW k \in 0..Latest
  PROVE  /\ Left(k) \in Databases
         /\ Left(k).ledger = 1..k
         /\ \A v \in 1..k : AddedBy(MigrationScripts[v]) \subseteq Left(k).objects
<1>1. AddedBy(BaseScript) \subseteq Object
  BY AddedObjects, HistoryAssumption
<1>2. \A v \in 1..k : AddedBy(MigrationScripts[v]) \subseteq Object
  BY AddedObjects, BodyType, LatestType
<1>3. 1..k \in SUBSET Nat
  BY LatestType
<1>4. DefaultGrants \in [Groups -> SUBSET Permissions]
  BY ParametersAssumption
<1> QED BY <1>1, <1>2, <1>3, <1>4 DEF Left, Database, Databases

LEMMA InitialDatabases ==
  ASSUME Init
  PROVE  /\ store \in Databases
         /\ NoGap(store) /\ Complete(store, Current(store.ledger))
<1>1. CASE store \in {Empty, Legacy}
  <2>1. store \in Databases
    <3>1. [g \in Groups |-> {}] \in [Groups -> SUBSET Permissions]
      OBVIOUS
    <3>2. Empty \in Databases
      BY <3>1 DEF Empty, Database, Databases
    <3>3. Legacy \in Databases
      BY ParametersAssumption DEF Legacy, Database, Databases
    <3> QED BY <1>1, <3>2, <3>3
  <2>2. store.ledger = 1..0
    BY <1>1 DEF Empty, Legacy, Database
  <2>3. Current(store.ledger) = 0
    BY <2>2, CurrentOfPrefix
  <2>4. Complete(store, 0)
    BY LatestType DEF Complete
  <2> QED BY <2>1, <2>2, <2>3, <2>4 DEF NoGap
<1>2. ASSUME NEW k \in 0..Latest, NEW n \in Nat, n >= k, n > k => k = Latest,
             store = [Left(k) EXCEPT !.ledger = 1..n]
      PROVE  /\ store \in Databases
             /\ NoGap(store) /\ Complete(store, Current(store.ledger))
  <2>1. /\ store \in Databases /\ store.ledger = 1..n
        /\ \A v \in 1..k : AddedBy(MigrationScripts[v]) \subseteq store.objects
    BY <1>2, LeftType DEF Databases
  <2>2. Current(store.ledger) = n
    BY <2>1, <1>2, CurrentOfPrefix
  <2>3. \A v \in 1..Latest : v <= n => v \in 1..k
    BY <1>2, LatestType
  <2>4. Complete(store, n)
    BY <2>1, <2>3, PromisedAreAdded DEF Complete
  <2> QED BY <2>1, <2>2, <2>4, <1>2 DEF NoGap
<1>3. CASE store = Ahead
  <2>1. Latest \in 0..Latest /\ Latest + 1 \in Nat /\ Latest + 1 >= Latest
    BY LatestType
  <2> QED BY <1>3, <1>2, <2>1 DEF Ahead
<1>4. CASE store \in {Left(k) : k \in Released}
  <2>1. PICK k \in Released : store = Left(k)
    BY <1>4
  <2>2. k \in 0..Latest /\ k \in Nat
    BY ParametersAssumption, LatestType
  <2>3. Left(k) = [Left(k) EXCEPT !.ledger = 1..k]
    BY <2>2, LeftType DEF Left, Database
  <2> QED BY <2>1, <2>2, <2>3, <1>2
<1> QED BY <1>1, <1>3, <1>4 DEF Init

LEMMA InitIInv == Init => IInv
<1> SUFFICES ASSUME Init PROVE IInv
  OBVIOUS
<1>1. store \in Databases /\ view = store
  BY InitialDatabases DEF Init
<1>2. writing = FALSE /\ pc = "down" /\ at = 0 /\ pos = 1 /\ names = {} /\ crashes = 0
  BY DEF Init
<1>3. TypeOK
  <2>1. 0 \in 0..MaxCrashes
    BY ParametersAssumption
  <2>2. names \subseteq Object /\ at \in Nat /\ pos \in Nat \ {0}
    BY <1>2
  <2>3. writing \in BOOLEAN /\ pc \in {"down", "schema", "up"} /\ crashes \in 0..MaxCrashes
    BY <1>2, <2>1
  <2> QED BY <1>1, <2>1, <2>2, <2>3 DEF TypeOK
<1> QED BY <1>1, <1>3, InitialDatabases DEF Init, IInv, Progress

-----------------------------------------------------------------------------
(* Steps.                                                                  *)

LEMMA ScriptType ==
  ASSUME TypeOK, at <= Latest
  PROVE  /\ Script \in Seq(Statement)
         /\ Len(Script) \in Nat
         /\ pos \in 1..Len(Script) => Script[pos] \in Statement
<1>1. CASE at = 0
  BY <1>1, HistoryAssumption DEF Script
<1>2. CASE at > 0
  <2>1. at \in 1..Latest
    BY <1>2, LatestType DEF TypeOK
  <2> QED BY <1>2, <2>1, BodyType DEF Script, TypeOK
<1> QED BY <1>1, <1>2 DEF TypeOK

LEMMA ExecuteIInv == IInv /\ ExecuteStatement => IInv'
<1> SUFFICES ASSUME IInv, ExecuteStatement PROVE IInv'
  OBVIOUS
<1> DEFINE s == Script[pos]
<1> DEFINE grown == [view EXCEPT !.objects = @ \cup s.adds]
<1>1. /\ pc = "schema" /\ at <= Latest /\ pos \in 1..Len(Script) /\ pc' = pc
      /\ Runs(s) /\ ~Exists(s) /\ view' = grown
      /\ writing' = (writing \/ s.dml)
      /\ store' = IF writing \/ s.dml THEN store ELSE grown
      /\ pos' = pos + 1 /\ at' = at /\ names' = names /\ crashes' = crashes
  BY ScriptType DEF ExecuteStatement, InScript, Write, IInv, TypeOK
<1>2. s \in Statement
  BY <1>1, ScriptType DEF IInv
<1>3. /\ grown \in Databases
      /\ grown.objects = view.objects \cup s.adds
      /\ grown.ledger = view.ledger
  BY <1>2 DEF IInv, TypeOK, Databases, Statement
<1>4. TypeOK'
  BY <1>1, <1>2, <1>3 DEF IInv, TypeOK, Statement
<1>5. NoGap(view') /\ NoGap(store')
  BY <1>1, <1>3 DEF IInv, NoGap
<1>6. Complete(grown, Current(grown.ledger))
  BY <1>3 DEF IInv, Complete
<1>7. Complete(view', Current(view'.ledger)) /\ Complete(store', Current(store'.ledger))
  BY <1>1, <1>6 DEF IInv
<1>8. Progress'
  <2>1. names' \subseteq view'.objects
    BY <1>1, <1>3 DEF IInv, Progress
  <2>2. ASSUME NEW v \in 1..Latest, v = at', NEW i \in 1..Len(MigrationScripts[v]),
               i < pos', Owed(MigrationScripts[v][i])
        PROVE  MigrationScripts[v][i].name \in view'.objects
    <3>0. i \in Nat /\ v \in Nat /\ at > 0 /\ pos \in Nat
      BY <2>2, <1>1, LatestType, BodyType DEF IInv, TypeOK
    <3>1. CASE i < pos
      BY <1>1, <1>3, <2>2, <3>0, <3>1 DEF IInv, Progress
    <3>2. CASE i = pos
      <4>1. s = MigrationScripts[v][i] /\ ~s.dml
        BY <1>1, <2>2, <3>0, <3>2 DEF Script, Owed
      <4>2. s.name \in s.adds
        BY <4>1, BodyType DEF Wellformed
      <4> QED BY <1>1, <1>3, <4>1, <4>2
    <3> QED BY <1>1, <2>2, <3>0, <3>1, <3>2
  <2>3. at' > 0 => view'.ledger = 1..(at' - 1)
    BY <1>1, <1>3 DEF IInv, Progress
  <2> QED BY <2>1, <2>2, <2>3 DEF Progress
<1> QED BY <1>4, <1>5, <1>7, <1>8 DEF IInv

LEMMA SkipIInv == IInv /\ SkipStatement => IInv'
<1> SUFFICES ASSUME IInv, SkipStatement PROVE IInv'
  OBVIOUS
<1> DEFINE s == Script[pos]
<1>1. /\ pc = "schema" /\ at <= Latest /\ pos \in 1..Len(Script)
      /\ Exists(s) \/ ~Runs(s)
      /\ pos' = pos + 1
      /\ UNCHANGED <<store, view, writing, pc, at, names, crashes>>
  BY ScriptType DEF SkipStatement, InScript, IInv, TypeOK
<1>2. TypeOK'
  BY <1>1 DEF IInv, TypeOK
<1>3. Progress'
  <2>1. ASSUME NEW v \in 1..Latest, v = at, NEW i \in 1..Len(MigrationScripts[v]),
               i < pos', Owed(MigrationScripts[v][i])
        PROVE  MigrationScripts[v][i].name \in view.objects
    <3>0. i \in Nat /\ v \in Nat /\ at > 0 /\ pos \in Nat
      BY <2>1, <1>1, LatestType, BodyType DEF IInv, TypeOK
    <3>1. CASE i < pos
      BY <1>1, <2>1, <3>0, <3>1 DEF IInv, Progress
    <3>2. CASE i = pos
      <4>1. s = MigrationScripts[v][i]
        BY <2>1, <3>0, <3>2 DEF Script
      <4>2. CASE Exists(s)
        BY <4>1, <4>2 DEF Exists
      <4>3. CASE ~Runs(s)
        <5>1. s.name \in names
          BY <4>1, <4>3, <2>1 DEF Runs, Owed
        <5> QED BY <5>1, <4>1, <1>1 DEF IInv, Progress
      <4> QED BY <1>1, <4>2, <4>3
    <3> QED BY <1>1, <2>1, <3>0, <3>1, <3>2
  <2> QED BY <2>1, <1>1 DEF IInv, Progress
<1>4. NoGap(store') /\ NoGap(view')
  BY <1>1 DEF IInv
<1>5. Complete(store', Current(store'.ledger)) /\ Complete(view', Current(view'.ledger))
  BY <1>1 DEF IInv
<1> QED BY <1>2, <1>3, <1>4, <1>5 DEF IInv

LEMMA BaselineIInv == IInv /\ BaselineDone => IInv'
<1> SUFFICES ASSUME IInv, BaselineDone PROVE IInv'
  OBVIOUS
<1> DEFINE next == Seeded(view)
<1>1. /\ pc = "schema" /\ pc' = pc /\ view' = next
      /\ writing' = (writing \/ Seeds)
      /\ store' = IF writing \/ Seeds THEN store ELSE next
      /\ at' = Current(view.ledger) + 1 /\ pos' = 1
      /\ names' = view.objects /\ crashes' = crashes
  BY DEF BaselineDone, ScriptDone, Write, FirstPending
<1>2. /\ next \in Databases
      /\ next.objects = view.objects /\ next.ledger = view.ledger
  BY ParametersAssumption DEF IInv, TypeOK, Databases, Seeded
<1>3. PICK k \in Nat : view.ledger = 1..k
  BY DEF IInv, NoGap
<1>4. Current(view.ledger) = k
  BY <1>3, CurrentOfPrefix
<1>5. TypeOK'
  <2>1. at' \in Nat /\ pos' \in Nat \ {0}
    BY <1>1, <1>4
  <2>2. names' \subseteq Object /\ view' \in Databases /\ store' \in Databases
    BY <1>1, <1>2 DEF IInv, TypeOK, Databases
  <2>3. writing' \in BOOLEAN
    BY <1>1 DEF IInv, TypeOK, Databases, Seeds
  <2> QED BY <1>1, <2>1, <2>2, <2>3 DEF IInv, TypeOK
<1>6. NoGap(view') /\ NoGap(store')
  BY <1>1, <1>2 DEF IInv, NoGap
<1>7. Complete(next, Current(next.ledger))
  BY <1>2 DEF IInv, Complete
<1>8. Complete(view', Current(view'.ledger)) /\ Complete(store', Current(store'.ledger))
  BY <1>1, <1>7 DEF IInv
<1>9. Progress'
  <2>1. view'.ledger = 1..(at' - 1)
    BY <1>1, <1>2, <1>3, <1>4
  <2>2. \A i \in Nat \ {0} : ~(i < pos')
    BY <1>1
  <2>3. \A v \in 1..Latest : \A i \in 1..Len(MigrationScripts[v]) : i \in Nat \ {0}
    BY BodyType
  <2> QED BY <1>1, <1>2, <2>1, <2>2, <2>3 DEF Progress
<1> QED BY <1>5, <1>6, <1>8, <1>9 DEF IInv

LEMMA MigrationIInv == IInv /\ MigrationDone => IInv'
<1> SUFFICES ASSUME IInv, MigrationDone PROVE IInv'
  OBVIOUS
<1> DEFINE next == [view EXCEPT !.ledger = @ \cup {at}]
<1>1. /\ pc = "schema" /\ pc' = pc /\ at <= Latest /\ at > 0
      /\ pos = Len(MigrationScripts[at]) + 1
      /\ view' = next /\ writing' = TRUE /\ store' = store
      /\ at' = at + 1 /\ pos' = 1 /\ names' = view.objects /\ crashes' = crashes
  <2>1. at > 0 /\ at \in Nat
    BY DEF MigrationDone, IInv, TypeOK
  <2>2. Script = MigrationScripts[at]
    BY <2>1 DEF Script
  <2> QED BY <2>1, <2>2 DEF MigrationDone, ScriptDone, Write
<1>2. at \in Nat /\ at \in 1..Latest
  BY <1>1, LatestType DEF IInv, TypeOK
<1>3. /\ next \in Databases
      /\ next.objects = view.objects /\ next.ledger = view.ledger \cup {at}
  BY <1>2 DEF IInv, TypeOK, Databases
<1>4. view.ledger = 1..(at - 1)
  BY <1>1 DEF IInv, Progress
<1>5. next.ledger = 1..at
  BY <1>2, <1>3, <1>4
<1>6. Current(view.ledger) = at - 1 /\ Current(next.ledger) = at
  <2>1. at - 1 \in Nat
    BY <1>2
  <2> QED BY <1>2, <1>4, <1>5, <2>1, CurrentOfPrefix
<1>7. Promised(at) \subseteq view.objects
  <2>1. \A i \in 1..Len(MigrationScripts[at]) : i < pos
    BY <1>1, <1>2, BodyType
  <2> QED BY <1>1, <1>2, <2>1 DEF IInv, Progress, Promised, Restored
<1>8. Complete(next, at)
  <2>1. \A v \in 1..Latest : v <= at => v <= at - 1 \/ v = at
    BY <1>2
  <2> QED BY <1>3, <1>6, <1>7, <2>1 DEF IInv, Complete
<1>9. TypeOK'
  BY <1>1, <1>2, <1>3 DEF IInv, TypeOK, Databases
<1>10. Progress'
  <2>1. view'.ledger = 1..(at' - 1)
    BY <1>1, <1>2, <1>5
  <2>2. \A v \in 1..Latest : \A i \in 1..Len(MigrationScripts[v]) : ~(i < pos')
    BY <1>1, BodyType
  <2> QED BY <1>1, <1>3, <2>1, <2>2 DEF Progress
<1>11. NoGap(view')
  BY <1>1, <1>2, <1>5 DEF NoGap
<1> QED BY <1>1, <1>6, <1>8, <1>9, <1>10, <1>11 DEF IInv

LEMMA OtherIInv ==
  ASSUME IInv,
         \/ Boot \/ Finish \/ Crash
         \/ \E g \in Groups, granted \in SUBSET Permissions : SetGroupPermissions(g, granted)
  PROVE  IInv'
<1>1. CASE Boot
  <2>1. TypeOK'
    <3>1. pc' \in {"down", "schema", "up"} /\ writing' \in BOOLEAN /\ names' \subseteq Object
      BY <1>1 DEF Boot
    <3>2. at' \in Nat /\ pos' \in Nat \ {0}
      BY <1>1 DEF Boot
    <3> QED BY <1>1, <3>1, <3>2 DEF Boot, IInv, TypeOK
  <2>2. Progress'
    BY <1>1 DEF Boot, Progress
  <2> QED BY <1>1, <2>1, <2>2 DEF Boot, IInv
<1>2. CASE Finish
  <2> DEFINE next == [view EXCEPT !.index = @ \cup Declared]
  <2>1. /\ next \in Databases
        /\ next.objects = view.objects /\ next.ledger = view.ledger
    BY DEF IInv, TypeOK, Databases
  <2>2. TypeOK'
    BY <1>2, <2>1 DEF Finish, IInv, TypeOK
  <2>3. NoGap(next) /\ Complete(next, Current(next.ledger))
    BY <2>1 DEF IInv, NoGap, Complete
  <2> QED BY <1>2, <2>2, <2>3 DEF Finish, IInv, Progress
<1>3. CASE Crash
  <2>1. crashes' \in 0..MaxCrashes
    BY <1>3, ParametersAssumption DEF Crash, IInv, TypeOK
  <2>2. TypeOK'
    BY <1>3, <2>1 DEF Crash, IInv, TypeOK
  <2> QED BY <1>3, <2>2 DEF Crash, IInv, Progress
<1>4. ASSUME NEW g \in Groups, NEW granted \in SUBSET Permissions,
             SetGroupPermissions(g, granted)
      PROVE  IInv'
  <2> DEFINE next == [store EXCEPT !.grants[g] = granted]
  <2>1. /\ next \in Databases
        /\ next.objects = store.objects /\ next.ledger = store.ledger
    BY DEF IInv, TypeOK, Databases
  <2>2. TypeOK'
    BY <1>4, <2>1 DEF SetGroupPermissions, IInv, TypeOK
  <2>3. NoGap(next) /\ Complete(next, Current(next.ledger))
    BY <2>1 DEF IInv, NoGap, Complete
  <2> QED BY <1>4, <2>2, <2>3 DEF SetGroupPermissions, IInv, Progress
<1> QED BY <1>1, <1>2, <1>3, <1>4

LEMMA StepIInv == IInv /\ [Next]_vars => IInv'
<1> SUFFICES ASSUME IInv, [Next]_vars PROVE IInv'
  OBVIOUS
<1>1. CASE UNCHANGED vars
  BY <1>1 DEF vars, IInv, TypeOK, Progress
<1> QED BY <1>1, ExecuteIInv, SkipIInv, BaselineIInv, MigrationIInv, OtherIInv
        DEF Next, Starting

-----------------------------------------------------------------------------
(* The theorems.                                                           *)

\* The state has its types.
THEOREM TypeCorrect == Spec => []TypeOK
<1>1. IInv => TypeOK
  BY DEF IInv
<1> QED BY InitIInv, StepIInv, <1>1, PTL DEF Spec

\* A committed version number is never more than the schema has: the crash
\* that drops the transaction, but not the columns added before it, leaves a
\* database that the next start completes (apply_migrations).
THEOREM LedgerTruthful == Spec => []LedgerIsTruthful
<1>1. IInv => LedgerIsTruthful
  BY DEF IInv, Complete, LedgerIsTruthful
<1> QED BY InitIInv, StepIInv, <1>1, PTL DEF Spec

\* What a start has restored so far: the baseline up to its position, then all
\* of it; once it serves, everything, also in the committed database.
Base == Restored(BaseScript)

Everything(database) ==
  /\ Base \subseteq database.objects
  /\ \A v \in 1..Latest : Promised(v) \subseteq database.objects
  /\ Declared \subseteq database.index

FullInv ==
  /\ pc = "schema" /\ at = 0 =>
       \A i \in 1..Len(BaseScript) : i < pos /\ Owed(BaseScript[i]) => BaseScript[i].name \in view.objects
  /\ pc = "schema" /\ at > 0 => Base \subseteq view.objects
  /\ pc = "up" => Everything(store)

LEMMA BaseType ==
  /\ BaseScript \in Seq(Statement) /\ Len(BaseScript) \in Nat
  /\ \A i \in 1..Len(BaseScript) : BaseScript[i] \in Statement /\ Wellformed(BaseScript[i])
BY HistoryAssumption

LEMMA StepFullInv == IInv /\ FullInv /\ [Next]_vars => FullInv'
<1> SUFFICES ASSUME IInv, FullInv, [Next]_vars PROVE FullInv'
  OBVIOUS
<1>1. at \in Nat /\ pos \in Nat \ {0} /\ store \in Databases /\ view \in Databases
  BY DEF IInv, TypeOK
<1>2. CASE Boot
  BY <1>2, BaseType DEF Boot, FullInv
<1>3. ASSUME InScript, at' = at, pos' = pos + 1, pc' = pc, view.objects \subseteq view'.objects,
             Owed(Script[pos]) => Script[pos].name \in view'.objects
      PROVE  FullInv'
  <2>1. CASE at = 0
    <3>1. ASSUME NEW i \in 1..Len(BaseScript), i < pos + 1, Owed(BaseScript[i])
          PROVE  BaseScript[i].name \in view'.objects
      <4>1. i \in Nat BY BaseType
      <4>2. CASE i < pos
        BY <1>3, <2>1, <3>1, <4>2 DEF FullInv, InScript
      <4>3. CASE i = pos
        BY <1>3, <2>1, <3>1, <4>3 DEF Script
      <4> QED BY <1>1, <3>1, <4>1, <4>2, <4>3
    <3> QED BY <1>3, <2>1, <3>1 DEF FullInv, InScript
  <2>2. CASE at > 0
    BY <1>3, <2>2 DEF FullInv, InScript
  <2> QED BY <1>1, <2>1, <2>2
<1>4. CASE ExecuteStatement
  <2>1. /\ InScript /\ at' = at /\ pos' = pos + 1 /\ pc' = pc
        /\ view' = [view EXCEPT !.objects = view.objects \cup Script[pos].adds]
    BY <1>4 DEF ExecuteStatement, Write
  <2>2. view'.objects = view.objects \cup Script[pos].adds
    BY <1>1, <2>1 DEF Databases
  <2>3. Owed(Script[pos]) => Script[pos].name \in Script[pos].adds
    <3>1. CASE at = 0
      <4>1. pos \in 1..Len(BaseScript) /\ Script[pos] = BaseScript[pos]
        BY <1>1, <2>1, <3>1, BaseType DEF InScript, Script
      <4> QED BY <4>1, BaseType DEF Wellformed, Owed
    <3>2. CASE at > 0
      <4>1. at \in 1..Latest
        BY <1>1, <2>1, <3>2, LatestType DEF InScript
      <4>2. pos \in 1..Len(MigrationScripts[at]) /\ Script[pos] = MigrationScripts[at][pos]
        BY <1>1, <2>1, <3>2, <4>1, BodyType DEF InScript, Script
      <4> QED BY <4>1, <4>2, BodyType DEF Wellformed, Owed
    <3> QED BY <1>1, <3>1, <3>2
  <2> QED BY <1>3, <2>1, <2>2, <2>3
<1>5. CASE SkipStatement
  <2>1. /\ InScript /\ at' = at /\ pos' = pos + 1 /\ pc' = pc /\ view' = view
        /\ ~Runs(Script[pos]) \/ Exists(Script[pos])
    BY <1>5 DEF SkipStatement
  <2>2. names \subseteq view.objects
    BY <2>1 DEF IInv, Progress, InScript
  <2>3. Owed(Script[pos]) => Script[pos].name \in view.objects
    BY <2>1, <2>2 DEF Owed, Runs, Exists
  <2> QED BY <1>3, <2>1, <2>3
<1>6. CASE BaselineDone
  <2>1. /\ pc = "schema" /\ pc' = pc /\ at = 0 /\ pos = Len(BaseScript) + 1 /\ view' = Seeded(view)
        /\ at' = Current(view.ledger) + 1
    BY <1>6 DEF BaselineDone, ScriptDone, Script, Write, FirstPending
  <2>2. view'.objects = view.objects
    BY <1>1, <2>1 DEF Seeded, Databases
  <2>3. \A i \in 1..Len(BaseScript) : i < pos
    BY <2>1, BaseType
  <2>4. Base \subseteq view'.objects
    BY <2>1, <2>2, <2>3 DEF FullInv, Base, Restored
  <2>5. Current(view.ledger) \in Nat
    BY CurrentOfPrefix DEF IInv, NoGap
  <2> QED BY <2>1, <2>4, <2>5 DEF FullInv
<1>7. CASE MigrationDone
  <2>1. pc = "schema" /\ pc' = pc /\ at > 0 /\ at' = at + 1 /\ view'.objects = view.objects
    BY <1>1, <1>7 DEF MigrationDone, ScriptDone, Write, Databases
  <2> QED BY <1>1, <2>1 DEF FullInv
<1>8. CASE Finish
  <2>1. /\ pc = "schema" /\ at > Latest /\ at > 0
        /\ pc' = "up" /\ store' = [view EXCEPT !.index = view.index \cup Declared]
    BY <1>1, <1>8, LatestType DEF Finish
  <2>2. store'.objects = view.objects /\ store'.index = view.index \cup Declared
    BY <1>1, <2>1 DEF Databases
  <2>3. view.ledger = 1..(at - 1)
    BY <2>1 DEF IInv, Progress
  <2>4. Current(view.ledger) = at - 1
    <3>1. at - 1 \in Nat BY <1>1, <2>1
    <3> QED BY <2>3, <3>1, CurrentOfPrefix
  <2>5. \A v \in 1..Latest : v <= at - 1
    BY <1>1, <2>1, LatestType
  <2>6. \A v \in 1..Latest : Promised(v) \subseteq view.objects
    BY <2>4, <2>5 DEF IInv, Complete
  <2>7. Base \subseteq view.objects
    BY <2>1 DEF FullInv
  <2> QED BY <2>1, <2>2, <2>6, <2>7 DEF FullInv, Everything
<1>9. CASE Crash
  BY <1>9 DEF Crash, FullInv
<1>10. ASSUME NEW g \in Groups, NEW granted \in SUBSET Permissions, SetGroupPermissions(g, granted)
       PROVE  FullInv'
  <2>1. /\ pc = "up" /\ pc' = pc /\ store'.objects = store.objects /\ store'.index = store.index
    BY <1>1, <1>10 DEF SetGroupPermissions, Databases
  <2> QED BY <2>1 DEF FullInv, Everything
<1>11. CASE UNCHANGED vars
  BY <1>11 DEF vars, FullInv, Everything
<1> QED BY <1>2, <1>4, <1>5, <1>6, <1>7, <1>8, <1>9, <1>10, <1>11 DEF Next, Starting

\* A server that serves has every table and column of the code, whatever
\* database it found and wherever its starts were cut short (init_db).
THEOREM FullSchemaServed == Spec => []ServesFullSchema
<1>1. Init => FullInv
  BY DEF Init, FullInv
<1>2. FullInv => ServesFullSchema
  BY RestorationAssumption DEF FullInv, Everything, Base, ServesFullSchema
<1> QED BY InitIInv, StepIInv, StepFullInv, <1>1, <1>2, PTL DEF Spec

\* The starting process has seen that the database is seeded, and the grants.
SeedInv ==
  store.seeded => view.seeded /\ (pc # "up" => view.grants = store.grants)

LEMMA InitSeedInv == Init => SeedInv
BY DEF Init, SeedInv

LEMMA StepSeedInv == TypeOK /\ SeedInv /\ [Next]_vars => SeedInv'
<1> SUFFICES ASSUME TypeOK, SeedInv, [Next]_vars PROVE SeedInv'
  OBVIOUS
<1> USE DEF SeedInv, TypeOK, Databases
<1>1. CASE Boot
  BY <1>1 DEF Boot
<1>2. CASE ExecuteStatement
  BY <1>2 DEF ExecuteStatement, InScript, Write
<1>3. CASE SkipStatement
  BY <1>3 DEF SkipStatement
<1>4. CASE BaselineDone
  BY <1>4 DEF BaselineDone, ScriptDone, Write, Seeded, Seeds
<1>5. CASE MigrationDone
  BY <1>5 DEF MigrationDone, ScriptDone, Write
<1>6. CASE Finish
  BY <1>6 DEF Finish
<1>7. CASE Crash
  BY <1>7 DEF Crash
<1>8. CASE \E g \in Groups, granted \in SUBSET Permissions : SetGroupPermissions(g, granted)
  BY <1>8 DEF SetGroupPermissions
<1>9. CASE UNCHANGED vars
  BY <1>9 DEF vars
<1> QED BY <1>1, <1>2, <1>3, <1>4, <1>5, <1>6, <1>7, <1>8, <1>9 DEF Next, Starting

\* No start gives back a permission an administrator took away
\* (_seed_default_rbac).
THEOREM GrantsStay == Spec => RevokedStaysRevoked
<1>1. TypeOK /\ SeedInv /\ [Next]_vars
        => (store.seeded /\ pc # "up" => store'.grants = store.grants) \/ UNCHANGED vars
  <2> SUFFICES ASSUME TypeOK, SeedInv, [Next]_vars, store.seeded, pc # "up"
               PROVE  store'.grants = store.grants
    OBVIOUS
  <2> USE DEF SeedInv, TypeOK, Databases
  <2>1. CASE ExecuteStatement
    BY <2>1 DEF ExecuteStatement, Write
  <2>2. CASE BaselineDone
    BY <2>2 DEF BaselineDone, Write, Seeded, Seeds
  <2>3. CASE MigrationDone
    BY <2>3 DEF MigrationDone, Write
  <2>4. CASE Finish
    BY <2>4 DEF Finish
  <2>5. CASE Boot \/ SkipStatement \/ Crash
    BY <2>5 DEF Boot, SkipStatement, Crash
  <2>6. CASE \E g \in Groups, granted \in SUBSET Permissions : SetGroupPermissions(g, granted)
    BY <2>6 DEF SetGroupPermissions
  <2>7. CASE UNCHANGED vars
    BY <2>7 DEF vars
  <2> QED BY <2>1, <2>2, <2>3, <2>4, <2>5, <2>6, <2>7 DEF Next, Starting
<1> QED BY InitSeedInv, StepSeedInv, TypeCorrect, <1>1, PTL DEF Spec, RevokedStaysRevoked

=============================================================================
