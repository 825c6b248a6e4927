-------------------------- MODULE ValidationRunProofs --------------------------
(***************************************************************************)
(* Proofs about ValidationRun for any number of tests, runs and faults:    *)
(* types, the verdicts of pipelines, what reports say, that the two tables *)
(* of the history agree, what a printed success is worth, that the         *)
(* dashboard's sums cover the results, and that only a fault loses any.    *)
(***************************************************************************)
EXTENDS ValidationRun, HistoryDBProofs, FunctionTheorems

-----------------------------------------------------------------------------
(* Types.                                                                  *)

Having(s)  == {t \in Tests : status[t] = s}
ResultRows == [run_id : Int, name : Tests, status : {"PASSED", "FAILED"}]
Sessions   == [total : Counts, passed : Counts, failed : Counts]

DbType == db \in [tables : Created, runs : Seq(Rows), results : Seq(ResultRows)]

\* The counters are the numbers of tests that passed and failed.
TestsCounted ==
  /\ session.passed = Cardinality(Having("PASSED"))
  /\ session.failed = Cardinality(Having("FAILED"))
  /\ session.total = session.passed + session.failed

\* What waits to be stored was tested, and nothing waits once the reports begin.
TodoTested ==
  /\ todo \subseteq Having("PASSED") \cup Having("FAILED")
  /\ pc \in {"idle", "summary", "openJson", "writeJson", "openHtml", "writeHtml"} => todo = {}

TypeInv == /\ TypeOK /\ DbType /\ TestsCounted /\ TodoTested
           /\ pc # "idle" => serial \in Serials

\* The counts of two outcomes are numbers, together no more than there are tests.
LEMMA CountsBounded ==
  ASSUME NEW P, NEW F, P \subseteq Tests, F \subseteq Tests, P \cap F = {}
  PROVE  /\ Cardinality(P) \in Counts /\ Cardinality(F) \in Counts
         /\ Cardinality(P) + Cardinality(F) \in Counts
<1>1. IsFiniteSet(Tests) /\ IsFiniteSet(P) /\ IsFiniteSet(F)
  BY TestAssumption, FS_Subset
<1>2. /\ Cardinality(P) \in Nat /\ Cardinality(F) \in Nat /\ Cardinality(Tests) \in Nat
  BY <1>1, FS_CardinalityType
<1>3. /\ Cardinality(P \cup F) = Cardinality(P) + Cardinality(F) - Cardinality(P \cap F)
  BY <1>1, FS_Union
<1>4. Cardinality(P \cap F) = 0
  BY FS_EmptySet
<1>5. Cardinality(P \cup F) <= Cardinality(Tests)
  <2>1. P \cup F \subseteq Tests
    OBVIOUS
  <2> QED BY <1>1, <2>1, FS_Subset
<1> QED BY <1>2, <1>3, <1>4, <1>5 DEF Counts

\* A run that a report finds among the recent ones is stored.
LEMMA ListedStored ==
  ASSUME NEW id, db.runs \in Seq(Rows), Listed(id)
  PROVE  id \in DOMAIN db.runs /\ id \in Nat
<1> DEFINE n == Len(db.runs)
<1>1. n \in Nat /\ DOMAIN db.runs = 1..n
  OBVIOUS
<1>2. PICK k \in 1..(IF ReportLimit < n THEN ReportLimit ELSE n) : id = n + 1 - k
  BY LimitAssumption DEF Listed, get_recent_runs
<1> QED BY <1>1, <1>2, LimitAssumption

\* A sequence of members of a set stays one.
LEMMA AppendType ==
  ASSUME NEW S, NEW s \in Seq(S), NEW e \in S
  PROVE  Append(s, e) \in Seq(S)
OBVIOUS

\* A history without runs has the types.
LEMMA TypeInit == Init => TypeInv
<1> SUFFICES ASSUME Init PROVE TypeInv
  OBVIOUS
<1>1. Having("PASSED") = {} /\ Having("FAILED") = {}
  BY DEF Init, Having, Untested
<1>2. Cardinality({}) = 0 /\ Cardinality(Tests) \in Nat
  BY FS_EmptySet, TestAssumption, FS_CardinalityType
<1>3. session \in Sessions /\ TestsCounted
  <2>1. session = [total |-> 0, passed |-> 0, failed |-> 0] /\ 0 \in Counts
    BY <1>2 DEF Init, NoCount, Counts
  <2>2. Cardinality(Having("PASSED")) = 0 /\ Cardinality(Having("FAILED")) = 0
    BY <1>1, <1>2
  <2> QED BY <2>1, <2>2 DEF Sessions, TestsCounted
<1>4. DbType
  <2> DEFINE Databases == [tables : Created, runs : Seq(Rows), results : Seq(ResultRows)]
  <2>1. <<>> \in Seq(Rows) /\ <<>> \in Seq(ResultRows) /\ {} \in Created
    BY DEF Created
  <2>2. EmptyDB \in Databases
    BY <2>1 DEF EmptyDB
  <2>3. ASSUME NEW base \in Databases PROVE init_db(base, Tables) \in Databases
    BY DEF init_db, Created, Tables
  <2> QED BY <2>2, <2>3 DEF Init, DbType
<1>5. TypeOK
  BY <1>3, <1>4, BoundAssumption
  DEF Init, TypeOK, DbType, ResultRows, Sessions, FileOf, WholeFile, Documents, Places,
      Kinds, Unloaded, Untested, NoDoc, NoRunId, EmptyDB, init_db
<1> QED BY <1>3, <1>4, <1>5 DEF Init, TypeInv, TodoTested

\* A step that works or fails within the bound keeps the count of faults in it.
LEMMA FaultsCounted ==
  ASSUME TypeInv, Works \/ Fails
  PROVE  clean' \in BOOLEAN /\ faults' \in 0..MaxFaults
<1>1. clean \in BOOLEAN /\ faults \in 0..MaxFaults /\ MaxFaults \in Nat
  BY BoundAssumption DEF TypeInv, TypeOK
<1>2. CASE Works
  BY <1>1, <1>2 DEF Works
<1>3. CASE Fails
  <2>1. faults < MaxFaults /\ faults' = faults + 1 /\ clean' = FALSE
    BY <1>3 DEF Fails
  <2>2. faults' \in 0..MaxFaults
    BY <1>1, <2>1
  <2> QED BY <2>1, <2>2
<1> QED BY <1>2, <1>3

\* A step that stores nothing and tests nothing keeps the types if what it sets has
\* its type.
LEMMA TypesKept ==
  ASSUME TypeInv, pc # "idle", pc' \in Places, Works \/ Fails,
         UNCHANGED <<db, session, status, kind, serial, runId, origins>>,
         model' \in FileOf, vectorizer' \in FileOf, chart' \in {Absent} \cup Serials,
         json' \in Documents, html' \in Documents, doc' \in Documents,
         loaded' \in [model : WholeFile, vectorizer : WholeFile],
         anomalies' \in 0..1, said' \in {"nothing", "success", "warning"},
         TodoTested'
  PROVE  TypeInv'
<1>1. clean' \in BOOLEAN /\ faults' \in 0..MaxFaults
  BY FaultsCounted
<1>2. DbType' /\ TestsCounted' /\ (session \in Sessions)'
  BY DEF TypeInv, TypeOK, DbType, TestsCounted, Having, Sessions
<1>3. todo' \in SUBSET Tests
  BY DEF TodoTested, Having
<1> QED BY <1>1, <1>2, <1>3 DEF TypeInv, TypeOK, DbType, ResultRows, Sessions

\* Creating tables, as two steps do, leaves the rows alone.
LEMMA TablesCreated ==
  ASSUME TypeInv, StartSession \/ EndResults
  PROVE  DbType' /\ db'.runs = db.runs /\ db'.results = db.results /\ (Works \/ Fails)
<1>1. PICK created \in Created : db' = init_db(db, created) /\ (Works \/ Fails)
  BY DEF StartSession, EndResults
<1>2. DbType'
  BY <1>1 DEF init_db, TypeInv, DbType, Created, Tables
<1> QED BY <1>1, <1>2 DEF init_db, TypeInv, DbType

\* Every step of the pipeline, the session, the detector or a crash keeps the types.
LEMMA TypeNext == TypeInv /\ [Next]_vars => TypeInv'
<1> SUFFICES ASSUME TypeInv, [Next]_vars PROVE TypeInv'
  OBVIOUS
<1> USE DEF diskVars, sessionVars, otherVars
<1>1. ASSUME NEW k \in Kinds, Launch(k) PROVE TypeInv'
  <2>1. serial' \in 0..MaxRuns /\ serial' \in Serials
    BY <1>1, BoundAssumption DEF Launch, TypeInv, TypeOK, Serials
  <2>2. Having("PASSED")' = {} /\ Having("FAILED")' = {}
    BY <1>1 DEF Launch, Having, Untested
  <2>3. (session \in Sessions)' /\ TestsCounted'
    <3>1. session' = [total |-> 0, passed |-> 0, failed |-> 0] /\ 0 \in Counts
      BY <1>1, TestAssumption, FS_CardinalityType DEF Launch, NoCount, Counts
    <3>2. Cardinality(Having("PASSED")') = 0 /\ Cardinality(Having("FAILED")') = 0
      BY <2>2, FS_EmptySet
    <3> QED BY <3>1, <3>2 DEF Sessions, TestsCounted
  <2>4. todo' = {}
    BY <1>1 DEF Launch, Goto, TypeInv, TodoTested
  <2>6. clean' \in BOOLEAN /\ faults' \in 0..MaxFaults
    BY <1>1 DEF Launch, TypeInv, TypeOK
  <2>5. pc' \in {"openModel", "session"}
    BY <1>1 DEF Launch, Goto
  <2> QED BY <1>1, <2>1, <2>3, <2>4, <2>5, <2>6
      DEF Launch, Works, TypeInv, TypeOK, DbType, TodoTested, Sessions, Places, Untested, Unloaded,
          WholeFile, NoRunId
<1>2. CASE Train
  <2>1. serial \in FileOf /\ Partial \in FileOf
    BY <1>2 DEF Train, TrainStep, Goto, TypeInv, FileOf, WholeFile
  <2>2. /\ pc # "idle" /\ pc' \in {"dumpModel", "openVectorizer", "dumpVectorizer", "session", "load"}
        /\ model' \in {model, serial, Partial} /\ vectorizer' \in {vectorizer, serial, Partial}
    BY <1>2 DEF Train, TrainStep, Goto, AfterTraining
  <2>3. /\ Works
        /\ UNCHANGED <<db, chart, json, html, sessionVars, kind, serial, said, origins>>
    BY <1>2 DEF Train, TrainStep
  <2>4. TodoTested'
    BY <2>2, <2>3 DEF TypeInv, TodoTested, Having
  <2>5. model' \in FileOf /\ vectorizer' \in FileOf
    BY <2>1, <2>2 DEF TypeInv, TypeOK
  <2> QED BY <2>2, <2>3, <2>4, <2>5, TypesKept DEF TypeInv, TypeOK, Places
<1>3. CASE StartDetector \/ Summarise
  <2>1. /\ pc # "idle" /\ pc' \in {"openModel", "load", "idle"} /\ Works
        /\ pc' = "idle" => todo = {}
        /\ said' \in {said, "success", "warning"}
        /\ UNCHANGED <<diskVars, sessionVars, kind, serial, origins>>
    BY <1>3 DEF StartDetector, Summarise, Goto, TypeInv, TodoTested
  <2>2. TodoTested'
    BY <2>1 DEF TypeInv, TodoTested, Having
  <2> QED BY <2>1, <2>2, TypesKept DEF TypeInv, TypeOK, Places
<1>4. CASE LoadModel
  <2>1. loaded' \in [model : WholeFile, vectorizer : WholeFile]
    <3>1. model \in FileOf /\ vectorizer \in FileOf /\ Absent \in WholeFile
      BY DEF TypeInv, TypeOK, WholeFile
    <3>2. \A f \in FileOf : f # Partial => f \in WholeFile
      BY DEF FileOf
    <3> QED BY <1>4, <3>1, <3>2 DEF LoadModel, Unloaded
  <2>2. TodoTested'
    BY <1>4 DEF LoadModel, Goto, TypeInv, TodoTested, Having
  <2>3. Works \/ Fails
    BY <1>4 DEF LoadModel
  <2> QED BY <1>4, <2>1, <2>2, <2>3, TypesKept DEF LoadModel, Goto, TypeInv, TypeOK, Places
<1>5. CASE Analyze
  <2>1. serial \in Serials /\ chart' \in {Absent} \cup Serials /\ anomalies' \in 0..1
    BY <1>5 DEF Analyze, Goto, TypeInv, TypeOK
  <2>2. TodoTested'
    BY <1>5 DEF Analyze, Goto, TypeInv, TodoTested, Having
  <2> QED BY <1>5, <2>1, <2>2, TypesKept DEF Analyze, Goto, TypeInv, TypeOK, Places
<1>6. CASE StartSession \/ EndResults
  <2>1. DbType' /\ db'.runs = db.runs /\ db'.results = db.results /\ (Works \/ Fails)
    BY <1>6, TablesCreated
  <2>2. /\ pc' \in {"tests", "openJson"} /\ pc # "idle"
        /\ pc' = "openJson" => todo = {}
        /\ UNCHANGED <<model, vectorizer, chart, json, html, sessionVars, kind, serial, said, origins>>
    BY <1>6 DEF StartSession, EndResults, Goto
  <2>3. TodoTested' /\ TestsCounted'
    BY <2>2 DEF TypeInv, TodoTested, TestsCounted, Having
  <2> QED BY <2>1, <2>2, <2>3, FaultsCounted DEF TypeInv, TypeOK, DbType, ResultRows, Places
<1>7. ASSUME NEW t \in Tests, RunTest(t) PROVE TypeInv'
  <2>1. /\ Having("PASSED")' = IF status'[t] = "PASSED" THEN Having("PASSED") \cup {t}
                                                       ELSE Having("PASSED")
        /\ Having("FAILED")' = IF status'[t] = "FAILED" THEN Having("FAILED") \cup {t}
                                                       ELSE Having("FAILED")
        /\ t \notin Having("PASSED") /\ t \notin Having("FAILED")
    BY <1>7 DEF RunTest, Having, TypeInv, TypeOK
  <2>2. IsFiniteSet(Having("PASSED")) /\ IsFiniteSet(Having("FAILED"))
    BY TestAssumption, FS_Subset DEF Having
  <2>3. /\ Cardinality(Having("PASSED")') = Cardinality(Having("PASSED")) +
                                              (IF status'[t] = "PASSED" THEN 1 ELSE 0)
        /\ Cardinality(Having("FAILED")') = Cardinality(Having("FAILED")) +
                                              (IF status'[t] = "FAILED" THEN 1 ELSE 0)
    <3>1. /\ Cardinality(Having("PASSED") \cup {t}) = Cardinality(Having("PASSED")) + 1
          /\ Cardinality(Having("FAILED") \cup {t}) = Cardinality(Having("FAILED")) + 1
          /\ Cardinality(Having("PASSED")) \in Nat /\ Cardinality(Having("FAILED")) \in Nat
      BY <2>1, <2>2, FS_AddElement, FS_CardinalityType
    <3> QED BY <2>1, <3>1
  <2>4. TestsCounted'
    <3>1. /\ session'.total = session.total + (IF status'[t] \in {"PASSED", "FAILED"} THEN 1 ELSE 0)
          /\ session'.passed = session.passed + (IF status'[t] = "PASSED" THEN 1 ELSE 0)
          /\ session'.failed = session.failed + (IF status'[t] = "FAILED" THEN 1 ELSE 0)
      <4>1. /\ session \in [total : Int, passed : Int, failed : Int]
            /\ status \in [Tests -> {"none", "PASSED", "FAILED", "unconnected"}]
        BY DEF TypeInv, TypeOK, Counts
      <4>2. CASE status'[t] = "PASSED" /\ session' = [session EXCEPT !.total = @ + 1, !.passed = @ + 1]
        BY <4>1, <4>2
      <4>3. CASE status'[t] = "FAILED" /\ session' = [session EXCEPT !.total = @ + 1, !.failed = @ + 1]
        BY <4>1, <4>3
      <4>4. CASE status'[t] = "unconnected" /\ session' = session
        BY <4>1, <4>4
      <4> QED BY <1>7, <4>1, <4>2, <4>3, <4>4 DEF RunTest
    <3> QED BY <2>3, <3>1 DEF TypeInv, TypeOK, TestsCounted, Counts
  <2>5. (session \in Sessions)'
    <3>1. /\ Cardinality(Having("PASSED")') \in Counts /\ Cardinality(Having("FAILED")') \in Counts
          /\ Cardinality(Having("PASSED")') + Cardinality(Having("FAILED")') \in Counts
      <4>1. /\ Having("PASSED")' \subseteq Tests /\ Having("FAILED")' \subseteq Tests
            /\ Having("PASSED")' \cap Having("FAILED")' = {}
        BY DEF Having
      <4> QED BY <4>1, CountsBounded
    <3>2. session' = [total |-> session'.total, passed |-> session'.passed, failed |-> session'.failed]
      BY <1>7 DEF RunTest, TypeInv, TypeOK
    <3> QED BY <2>4, <3>1, <3>2 DEF TestsCounted, Sessions
  <2>6. status' \in [Tests -> {"none", "PASSED", "FAILED", "unconnected"}]
    BY <1>7 DEF RunTest, TypeInv, TypeOK
  <2>7. TodoTested'
    BY <1>7, <2>1 DEF RunTest, TypeInv, TodoTested
  <2> QED BY <1>7, <2>4, <2>5, <2>6, <2>7 DEF RunTest, Works, TypeInv, TypeOK, DbType, Sessions
<1>8. CASE EndTests
  <2>1. todo' = Having("PASSED") \cup Having("FAILED")
    BY <1>8 DEF EndTests, Having
  <2>2. TodoTested'
    BY <1>8, <2>1 DEF EndTests, Goto, TodoTested, Having
  <2>3. todo' \in SUBSET Tests
    BY <2>1 DEF Having
  <2> QED BY <1>8, <2>2, TypesKept DEF EndTests, Goto, TypeInv, TypeOK, Places
<1>9. CASE InsertRun
  <2>1. Row \in Rows
    BY DEF Row, Rows, TypeInv, TypeOK
  <2>2. DbType' /\ runId' \in {NoRunId} \cup DOMAIN db'.runs
    <3>1. CASE db' = insert_test_run(db, Row) /\ runId' = LastRowId(db')
      <4>1. db'.runs = Append(db.runs, Row) /\ DbType'
        <5>1. /\ db'.runs = Append(db.runs, Row) /\ db'.results = db.results
              /\ db' = [tables |-> db.tables, runs |-> db'.runs, results |-> db.results]
          BY <3>1 DEF insert_test_run, TypeInv, DbType
        <5>2. Append(db.runs, Row) \in Seq(Rows)
          BY <2>1 DEF TypeInv, DbType
        <5> QED BY <5>1, <5>2 DEF TypeInv, DbType
      <4> QED BY <2>1, <3>1, <4>1 DEF LastRowId, TypeInv, DbType
    <3>2. CASE UNCHANGED db /\ runId' = NoRunId
      BY <3>2 DEF TypeInv, DbType
    <3> QED BY <1>9, <3>1, <3>2 DEF InsertRun
  <2>3. origins' \in Seq(Verdicts)
    <3>1. Origin \in Verdicts
      <4>1. Verdict \in {"off", "mixed", "sound"}
        BY DEF Verdict
      <4>2. serial \in Serials /\ kind \in Kinds /\ clean \in BOOLEAN
        BY <1>9 DEF InsertRun, Goto, TypeInv, TypeOK
      <4> QED BY <4>1, <4>2 DEF Origin, Verdicts
    <3>2. origins \in Seq(Verdicts)
      BY DEF TypeInv, TypeOK
    <3>3. \/ origins' = Append(origins, Origin)
          \/ origins' = origins
      BY <1>9 DEF InsertRun
    <3> QED BY <3>1, <3>2, <3>3, AppendType
  <2>4. TodoTested' /\ TestsCounted'
    BY <1>9 DEF InsertRun, Goto, TypeInv, TodoTested, TestsCounted, Having
  <2>5. (Works \/ Fails) /\ pc' \in Places
    BY <1>9 DEF InsertRun, Goto, Places
  <2> QED BY <1>9, <2>2, <2>3, <2>4, <2>5, FaultsCounted
      DEF InsertRun, Goto, TypeInv, TypeOK, DbType, ResultRows
<1>10. ASSUME NEW t \in Tests, InsertResult(t) PROVE TypeInv'
  <2>1. DbType' /\ db'.runs = db.runs
    <3>1. CASE db' = insert_test_result(db, runId, t, status[t])
      <4>1. [run_id |-> runId, name |-> t, status |-> status[t]] \in ResultRows
        <5>1. status[t] \in {"PASSED", "FAILED"}
          BY <1>10 DEF InsertResult, TypeInv, TodoTested, Having
        <5>2. runId \in Int
          BY DEF TypeInv, TypeOK, NoRunId, DbType
        <5> QED BY <5>1, <5>2 DEF ResultRows
      <4>2. /\ db'.results = Append(db.results, [run_id |-> runId, name |-> t, status |-> status[t]])
            /\ db'.runs = db.runs
            /\ db' = [tables |-> db.tables, runs |-> db.runs, results |-> db'.results]
        BY <3>1 DEF insert_test_result, TypeInv, DbType
      <4>3. db'.results \in Seq(ResultRows)
        BY <4>1, <4>2 DEF TypeInv, DbType
      <4> QED BY <4>2, <4>3 DEF TypeInv, DbType
    <3> QED BY <1>10, <3>1 DEF InsertResult, TypeInv, DbType
  <2>2. TodoTested' /\ TestsCounted'
    BY <1>10 DEF InsertResult, TypeInv, TodoTested, TestsCounted, Having
  <2>3. Works \/ Fails
    BY <1>10 DEF InsertResult
  <2> QED BY <1>10, <2>1, <2>2, <2>3, FaultsCounted
      DEF InsertResult, TypeInv, TypeOK, DbType, ResultRows
<1>11. CASE generate_json_report \/ generate_html_report
  <2>1. UNCHANGED otherVars /\ (Works \/ Fails) /\ doc' \in Documents
        /\ json' \in {json, doc, HalfDoc} /\ html' \in {html, doc, HalfDoc}
    <3>1. ASSUME Listed(runId), NEW rows, rows \in {get_run_results(db, runId), {}}
          PROVE  Document(runId, rows) \in Documents
      <4>1. runId \in DOMAIN db.runs /\ runId \in Nat
        BY <3>1, ListedStored DEF TypeInv, DbType
      <4>2. rows \in SUBSET Nat
        BY <3>1 DEF get_run_results, TypeInv, DbType
      <4> QED BY <4>1, <4>2 DEF Document, Documents, TypeInv, TypeOK, DbType
    <3>2. NoDoc \in Documents
      BY DEF Documents
    <3> QED BY <1>11, <3>1, <3>2
        DEF generate_json_report, generate_html_report, Open, Write, TypeInv, TypeOK
  <2>2. /\ pc \in {"openJson", "writeJson", "openHtml", "writeHtml"}
        /\ pc' \in {"writeJson", "openHtml", "writeHtml", "summary", "idle"}
    BY <1>11 DEF generate_json_report, generate_html_report, Open, Write, Goto, AfterSession
  <2>3. TodoTested'
    BY <2>1, <2>2 DEF TypeInv, TodoTested, Having
  <2>4. json' \in Documents /\ html' \in Documents
    BY <2>1 DEF TypeInv, TypeOK, Documents
  <2> QED BY <2>1, <2>2, <2>3, <2>4, TypesKept DEF TypeInv, TypeOK, Places
<1>12. CASE SessionDies \/ Killed
  <2>1. /\ pc # "idle" /\ pc' \in {"idle", "summary"} /\ todo' = {} /\ doc' = NoDoc /\ Fails
        /\ UNCHANGED <<diskVars, session, status, loaded, anomalies, runId, kind, serial, said,
                       origins>>
    BY <1>12 DEF SessionDies, Killed, AfterSession
  <2>2. TodoTested' /\ doc' \in Documents
    BY <2>1 DEF TodoTested, Documents
  <2> QED BY <2>1, <2>2, TypesKept DEF TypeInv, TypeOK, Places
<1>13. CASE UNCHANGED vars
  BY <1>13 DEF vars, TypeInv, TypeOK, DbType, TestsCounted, TodoTested, Having
<1> QED
  BY <1>1, <1>2, <1>3, <1>4, <1>5, <1>6, <1>7, <1>8, <1>9, <1>10, <1>11, <1>12, <1>13
  DEF Next, Session

\* Ids, counters and files keep their types; the detector holds whole pickles only
\* (conftest.py, history_db.py, anomaly_detector.py).
THEOREM TypeCorrect == Spec => []TypeOK
<1>1. Spec => []TypeInv
  BY TypeInit, TypeNext, PTL DEF Spec
<1>2. TypeInv => TypeOK
  BY DEF TypeInv
<1> QED BY <1>1, <1>2, PTL

-----------------------------------------------------------------------------
(* A pipeline trains first, and what it loads is what it trained.          *)

TrainedBySelf ==
  kind = "pipeline" =>
    /\ pc \in {"openVectorizer", "dumpVectorizer"} => model = serial
    /\ pc \in {"session", "tests", "detect", "load"} => model = serial /\ vectorizer = serial
    /\ pc \in {"analyze", "insertRun"} =>
         /\ loaded.model \in {Absent, serial} /\ loaded.vectorizer \in {Absent, serial}
         /\ clean => loaded.model = serial /\ loaded.vectorizer = serial

\* What PipelineVerdictsSound says of one stored run.
OriginSound(o) ==
  o.kind = "pipeline" => o.verdict # "mixed" /\ (o.clean => o.verdict = "sound")

OriginsSound ==
  /\ Len(origins) = Len(db.runs)
  /\ \A id \in DOMAIN origins : OriginSound(origins[id])

SoundInv == TrainedBySelf /\ OriginsSound

\* One case per action: training comes before everything else in a pipeline.
LEMMA SoundNext == TypeInv /\ SoundInv /\ [Next]_vars => SoundInv'
<1> SUFFICES ASSUME TypeInv, SoundInv, [Next]_vars PROVE SoundInv'
  OBVIOUS
<1> USE DEF diskVars, sessionVars, otherVars
<1>0. ASSUME UNCHANGED <<origins, db>> PROVE OriginsSound'
  BY <1>0 DEF SoundInv, OriginsSound
<1>1. ASSUME NEW k \in Kinds, Launch(k) PROVE SoundInv'
  BY <1>0, <1>1 DEF Launch, Goto, SoundInv, TrainedBySelf
<1>2. CASE Train
  BY <1>0, <1>2 DEF Train, TrainStep, Goto, AfterTraining, SoundInv, TrainedBySelf
<1>3. CASE StartDetector
  <2>1. serial # Absent
    BY <1>3 DEF StartDetector, Goto, TypeInv, Serials, Absent
  <2> QED BY <1>0, <1>3, <2>1 DEF StartDetector, Goto, SoundInv, TrainedBySelf
<1>4. CASE LoadModel
  <2>1. serial # Absent /\ serial # Partial
    BY <1>4 DEF LoadModel, Goto, TypeInv, Serials, Absent, Partial
  <2>2. /\ pc = "load" /\ pc' = "analyze" /\ UNCHANGED <<kind, serial, model, vectorizer>>
        /\ kind = "pipeline" => model = serial /\ vectorizer = serial
    BY <1>4 DEF LoadModel, Goto, SoundInv, TrainedBySelf
  <2>3. CASE Works
    <3>1. ~Fails
      BY <2>3 DEF Fails, Works, TypeInv, TypeOK
    <3>2. loaded' = IF model = Partial THEN Unloaded
                    ELSE [model      |-> model,
                          vectorizer |-> IF vectorizer = Partial THEN Absent ELSE vectorizer]
      BY <1>4, <3>1 DEF LoadModel
    <3>3. kind = "pipeline" => loaded' = [model |-> serial, vectorizer |-> serial]
      BY <2>1, <2>2, <3>2
    <3> QED BY <1>0, <1>4, <2>2, <3>3 DEF LoadModel, TrainedBySelf, SoundInv
  <2>4. CASE Fails
    <3>1. clean' = FALSE
      BY <2>4 DEF Fails
    <3>2. kind = "pipeline" => loaded'.model \in {Absent, serial} /\ loaded'.vectorizer \in {Absent, serial}
      BY <1>4, <2>1, <2>2 DEF LoadModel
    <3> QED BY <1>0, <1>4, <2>2, <3>1, <3>2 DEF LoadModel, TrainedBySelf, SoundInv
  <2> QED BY <1>4, <2>3, <2>4 DEF LoadModel
<1>a. CASE Analyze
  <2>1. /\ pc = "analyze" /\ pc' = "insertRun" /\ (clean' => clean)
        /\ UNCHANGED <<kind, serial, loaded, db, origins>>
    BY <1>a DEF Analyze, Goto, Works, Fails
  <2>2. TrainedBySelf'
    BY <2>1 DEF SoundInv, TrainedBySelf
  <2> QED BY <1>0, <2>1, <2>2 DEF SoundInv
<1>5. CASE EndTests \/ Summarise \/ SessionDies \/ Killed
  BY <1>0, <1>5 DEF EndTests, Summarise, SessionDies, Killed, Goto,
     AfterSession, SoundInv, TrainedBySelf
<1>6. CASE StartSession \/ EndResults
  <2>1. db'.runs = db.runs
    BY <1>6, TablesCreated
  <2> QED BY <1>6, <2>1 DEF StartSession, EndResults, Goto, SoundInv, TrainedBySelf, OriginsSound
<1>7. ASSUME NEW t \in Tests, RunTest(t) PROVE SoundInv'
  BY <1>0, <1>7 DEF RunTest, SoundInv, TrainedBySelf
<1>8. CASE InsertRun
  <2>1. TrainedBySelf'
    BY <1>8 DEF InsertRun, Goto, TrainedBySelf
  <2>2. CASE UNCHANGED <<db, origins>>
    BY <1>0, <2>1, <2>2 DEF SoundInv
  <2>3. CASE /\ db' = insert_test_run(db, Row)
             /\ origins' = Append(origins, Origin)
    <3>1. db'.runs = Append(db.runs, Row) /\ db.runs \in Seq(Rows) /\ Row \in Rows
      BY <2>3 DEF insert_test_run, Row, Rows, TypeInv, TypeOK, DbType
    <3>2. Len(db'.runs) = Len(db.runs) + 1
      BY <3>1
    <3>3. OriginSound(Origin)
      <4>1. serial # Absent /\ pc = "insertRun"
        BY <1>8 DEF InsertRun, Goto, TypeInv, Serials, Absent
      <4>2. kind = "pipeline" => Verdict # "mixed" /\ (clean => Verdict = "sound")
        BY <4>1 DEF SoundInv, TrainedBySelf, Verdict, Operative
      <4> QED BY <4>2 DEF OriginSound, Origin
    <3>4. /\ origins \in Seq(Verdicts)
          /\ OriginsSound
      BY DEF TypeInv, TypeOK, SoundInv
    <3>5. ASSUME NEW id \in DOMAIN origins' PROVE OriginSound(origins'[id])
      <4>1. CASE id \in DOMAIN origins
        <5>1. origins'[id] = origins[id] /\ OriginSound(origins[id])
          BY <2>3, <3>4, <4>1 DEF OriginsSound
        <5> QED BY <5>1
      <4>2. CASE id = Len(origins) + 1
        <5>1. origins'[id] = Origin
          BY <2>3, <3>4, <4>2
        <5> QED BY <3>3, <5>1
      <4> QED BY <2>3, <3>4, <4>1, <4>2
    <3>6. Len(origins') = Len(origins) + 1
      BY <2>3, <3>4
    <3>7. OriginsSound'
      <4>1. (\A id \in DOMAIN origins : OriginSound(origins[id]))'
        BY <3>5 DEF OriginSound
      <4> QED BY <3>2, <3>4, <3>6, <4>1 DEF OriginsSound
    <3> QED BY <2>1, <3>7 DEF SoundInv
  <2> QED BY <1>8, <2>2, <2>3 DEF InsertRun
<1>9. ASSUME NEW t \in Tests, InsertResult(t) PROVE SoundInv'
  <2>1. db'.runs = db.runs
    BY <1>9 DEF InsertResult, insert_test_result, TypeInv, DbType
  <2> QED BY <1>9, <2>1 DEF InsertResult, SoundInv, TrainedBySelf, OriginsSound
<1>10. CASE generate_json_report \/ generate_html_report
  BY <1>0, <1>10 DEF generate_json_report, generate_html_report, Open, Write, Goto, AfterSession,
     SoundInv, TrainedBySelf
<1>11. CASE UNCHANGED vars
  BY <1>0, <1>11 DEF vars, SoundInv, TrainedBySelf
<1> QED
  BY <1>1, <1>2, <1>3, <1>4, <1>a, <1>5, <1>6, <1>7, <1>8, <1>9, <1>10, <1>11 DEF Next, Session

\* Whatever earlier trainings left behind, a pipeline never counts with the parts of two
\* trainings, and counts with both parts of its own unless a step of it has failed
\* (run_all.py, trainer.py, load_model).
THEOREM VerdictsAreSound == Spec => []PipelineVerdictsSound
<1>1. Init => SoundInv
  BY DEF Init, EmptyDB, init_db, SoundInv, TrainedBySelf, OriginsSound
<1>2. Spec => [](TypeInv /\ SoundInv)
  BY <1>1, TypeInit, TypeNext, SoundNext, PTL DEF Spec
<1>3. TypeInv /\ SoundInv => PipelineVerdictsSound
  <2> SUFFICES ASSUME TypeInv, SoundInv PROVE DOMAIN db.runs = DOMAIN origins
    BY DEF SoundInv, OriginsSound, OriginSound, PipelineVerdictsSound
  <2>1. db.runs \in Seq(Rows)
        /\ origins \in Seq(Verdicts)
    BY DEF TypeInv, TypeOK, DbType
  <2>2. Len(origins) = Len(db.runs)
    BY DEF SoundInv, OriginsSound
  <2> QED BY <2>1, <2>2
<1> QED BY <1>2, <1>3, PTL

-----------------------------------------------------------------------------
(* Reports: rows are only appended, so what a report says stays true.      *)

\* What d says of a run is so in the database base.
TrueIn(d, base) ==
  Complete(d) => /\ d.run \in DOMAIN base.runs
                 /\ d.summary = base.runs[d.run]
                 /\ d.tests \subseteq get_run_results(base, d.run)

\* new has the rows of old, and perhaps one more.
Grown(old, new) ==
  /\ new.runs = old.runs \/ \E r \in Rows : new.runs = Append(old.runs, r)
  /\ new.results = old.results \/ \E r \in ResultRows : new.results = Append(old.results, r)

ReportInv == TrueIn(json, db) /\ TrueIn(html, db) /\ TrueIn(doc, db)

\* What a report says stays true when a row is added.
LEMMA StillTrue ==
  ASSUME NEW d, NEW old, NEW new, Grown(old, new),
         old.runs \in Seq(Rows), old.results \in Seq(ResultRows), TrueIn(d, old)
  PROVE  TrueIn(d, new)
<1> SUFFICES ASSUME Complete(d) PROVE TrueIn(d, new)
  BY DEF TrueIn
<1>1. /\ d.run \in DOMAIN old.runs /\ d.summary = old.runs[d.run]
      /\ d.tests \subseteq get_run_results(old, d.run)
  BY DEF TrueIn
<1>2. d.run \in DOMAIN new.runs /\ new.runs[d.run] = old.runs[d.run]
  BY <1>1 DEF Grown
<1>3. \A i \in DOMAIN old.results : i \in DOMAIN new.results /\ new.results[i] = old.results[i]
  BY DEF Grown
<1> QED BY <1>1, <1>2, <1>3 DEF TrueIn, get_run_results

\* Whatever a step does to the tables, it only appends.
LEMMA DatabaseGrows == TypeInv /\ [Next]_vars => Grown(db, db')
<1> SUFFICES ASSUME TypeInv, [Next]_vars PROVE Grown(db, db')
  OBVIOUS
<1> USE DEF diskVars, sessionVars, otherVars
<1>1. CASE db' = db
  BY <1>1 DEF Grown
<1>2. CASE StartSession \/ EndResults
  BY <1>2, TablesCreated DEF Grown
<1>3. CASE InsertRun
  <2>1. Row \in Rows
    BY DEF Row, Rows, TypeInv, TypeOK
  <2> QED BY <1>1, <1>3, <2>1 DEF InsertRun, insert_test_run, Grown, TypeInv, DbType
<1>4. ASSUME NEW t \in Tests, InsertResult(t) PROVE Grown(db, db')
  <2>1. [run_id |-> runId, name |-> t, status |-> status[t]] \in ResultRows
    <3>1. status[t] \in {"PASSED", "FAILED"}
      BY <1>4 DEF InsertResult, TypeInv, TodoTested, Having
    <3>2. runId \in Int
      BY DEF TypeInv, TypeOK, NoRunId, DbType
    <3> QED BY <3>1, <3>2 DEF ResultRows
  <2> QED BY <1>1, <1>4, <2>1 DEF InsertResult, insert_test_result, Grown, TypeInv, DbType
<1>5. StartSession \/ EndResults \/ InsertRun \/ (\E t \in Tests : InsertResult(t)) \/ db' = db
  BY DEF Next, Session, vars, Launch, Train, TrainStep, RunTest, EndTests, StartDetector,
     LoadModel, Analyze, generate_json_report, generate_html_report, Summarise,
     SessionDies, Killed
<1> QED BY <1>1, <1>2, <1>3, <1>4, <1>5

\* Only the two generators compose a document, from a run that is listed.
LEMMA ReportNext == TypeInv /\ ReportInv /\ [Next]_vars => ReportInv'
<1> SUFFICES ASSUME TypeInv, ReportInv, [Next]_vars PROVE ReportInv'
  OBVIOUS
<1> USE DEF diskVars, sessionVars, otherVars
<1>1. TrueIn(json, db') /\ TrueIn(html, db') /\ TrueIn(doc, db')
  BY DatabaseGrows, StillTrue DEF TypeInv, DbType, ReportInv
<1>2. TrueIn(NoDoc, db') /\ TrueIn(HalfDoc, db')
  BY DEF TrueIn, Complete
<1>3. CASE generate_json_report \/ generate_html_report
  <2>1. ASSUME Listed(runId), NEW rows, rows \in {get_run_results(db, runId), {}}
        PROVE  TrueIn(Document(runId, rows), db)
    <3>1. runId \in DOMAIN db.runs
      BY <2>1, ListedStored DEF TypeInv, DbType
    <3> QED BY <2>1, <3>1 DEF TrueIn, Document
  <2>2. db' = db
    BY <1>3 DEF generate_json_report, generate_html_report
  <2>3. /\ json' \in {json, doc, HalfDoc} /\ html' \in {html, doc, HalfDoc}
        /\ \/ doc' \in {doc, NoDoc}
           \/ /\ Listed(runId)
              /\ doc' \in {Document(runId, get_run_results(db, runId)), Document(runId, {})}
    BY <1>3 DEF generate_json_report, generate_html_report, Open, Write
  <2>4. TrueIn(doc', db')
    BY <1>1, <1>2, <2>1, <2>2, <2>3
  <2>5. TrueIn(json', db') /\ TrueIn(html', db')
    BY <1>1, <1>2, <2>3
  <2> QED BY <2>4, <2>5 DEF ReportInv
<1>4. CASE json' = json /\ html' = html /\ doc' \in {doc, NoDoc}
  BY <1>1, <1>2, <1>4 DEF ReportInv
<1>5. \/ generate_json_report \/ generate_html_report
      \/ json' = json /\ html' = html /\ doc' \in {doc, NoDoc}
  BY DEF Next, Session, vars, Launch, Train, TrainStep, RunTest, EndTests, StartDetector,
     LoadModel, Analyze, InsertRun, InsertResult, EndResults, StartSession, Summarise,
     SessionDies, Killed
<1> QED BY <1>3, <1>4, <1>5

\* A whole report describes a stored run with results of that run only, however many
\* runs fail later (report_generator.py).
THEOREM ReportsAreTrue == Spec => []ReportsDescribeStoredRuns
<1>1. Init => ReportInv
  BY DEF Init, ReportInv, TrueIn, Complete
<1>2. Spec => []ReportInv
  BY <1>1, TypeInit, TypeNext, ReportNext, PTL DEF Spec
<1>3. ReportInv => ReportsDescribeStoredRuns
  BY DEF ReportInv, TrueIn, ReportsDescribeStoredRuns, RowsOf, get_run_results
<1> QED BY <1>2, <1>3, PTL

-----------------------------------------------------------------------------
(* Results: each is stored once, for a test that its run counts.           *)

RowsStored == \A i \in DOMAIN db.results : db.results[i].run_id \in {NoRunId} \cup DOMAIN db.runs

RunsAddUp == \A id \in DOMAIN db.runs : db.runs[id].passed + db.runs[id].failed = db.runs[id].total

NamesDiffer ==
  \A i, j \in DOMAIN db.results :
     /\ db.results[i].run_id = db.results[j].run_id /\ db.results[i].run_id # NoRunId
     /\ db.results[i].name = db.results[j].name
     => i = j

RowsCounted ==
  \A id \in DOMAIN db.runs :
     /\ Cardinality(RowsWith(id, "PASSED")) <= db.runs[id].passed
     /\ Cardinality(RowsWith(id, "FAILED")) <= db.runs[id].failed

\* While results are stored, those of this run are of tests no longer waiting.
StoringNow ==
  pc = "results" /\ runId # NoRunId =>
    /\ db.runs[runId].passed = session.passed /\ db.runs[runId].failed = session.failed
    /\ \A i \in DOMAIN db.results :
         db.results[i].run_id = runId =>
           db.results[i].name \notin todo /\ status[db.results[i].name] = db.results[i].status

RowInv == RowsStored /\ RunsAddUp /\ NamesDiffer /\ RowsCounted /\ StoringNow

\* Rows of different tests, all of them in T, are no more than T has members.
LEMMA RowsFit ==
  ASSUME NEW results, NEW T, IsFiniteSet(T), NEW R, R \subseteq DOMAIN results,
         \A i \in R : results[i].name \in T,
         \A i, j \in R : results[i].name = results[j].name => i = j
  PROVE  Cardinality(R) <= Cardinality(T)
<1> DEFINE f == [i \in R |-> results[i].name]
<1>1. f \in [R -> T]
  OBVIOUS
<1>2. \A i, j \in R : f[i] = f[j] => i = j
  OBVIOUS
<1>3. f \in Injection(R, T)
  BY <1>1, <1>2, Fun_IsInj
<1> QED BY <1>3, FS_Injection

\* A run gets a fresh id, and a result is of a test that was waiting until now.
LEMMA RowNext == TypeInv /\ TypeInv' /\ RowInv /\ [Next]_vars => RowInv'
<1> SUFFICES ASSUME TypeInv, TypeInv', RowInv, [Next]_vars PROVE RowInv'
  OBVIOUS
<1> USE DEF diskVars, sessionVars, otherVars
<1>1. CASE /\ db'.runs = db.runs /\ db'.results = db.results
           /\ pc' # "results" \/ UNCHANGED <<pc, runId, session, todo, status>>
  <2>1. /\ RowsStored' /\ RunsAddUp' /\ NamesDiffer' /\ StoringNow'
    BY <1>1 DEF RowInv, RowsStored, RunsAddUp, NamesDiffer, StoringNow
  <2>2. RowsCounted'
    BY <1>1 DEF RowInv, RowsCounted, RowsWith, RowsOf
  <2> QED BY <2>1, <2>2 DEF RowInv
<1>2. CASE InsertRun
  <2>1. CASE UNCHANGED db /\ runId' = NoRunId
    <3>1. StoringNow'
      BY <2>1 DEF StoringNow
    <3>2. RowsStored' /\ RunsAddUp' /\ NamesDiffer' /\ RowsCounted'
      BY <2>1 DEF RowInv, RowsStored, RunsAddUp, NamesDiffer, RowsCounted, RowsWith, RowsOf
    <3> QED BY <3>1, <3>2 DEF RowInv
  <2>2. CASE db' = insert_test_run(db, Row) /\ runId' = LastRowId(db')
    <3>1. db'.runs = Append(db.runs, Row) /\ db'.results = db.results
      BY <2>2 DEF insert_test_run, TypeInv, DbType
    <3>2. /\ db.runs \in Seq(Rows) /\ Row \in Rows /\ Len(db.runs) \in Nat
          /\ runId' = Len(db.runs) + 1
      <4>1. db.runs \in Seq(Rows) /\ Row \in Rows
        BY DEF Row, Rows, TypeInv, TypeOK, DbType
      <4> QED BY <2>2, <3>1, <4>1 DEF LastRowId
    <3>3. /\ DOMAIN db.runs = 1..Len(db.runs) /\ DOMAIN db'.runs = DOMAIN db.runs \cup {runId'}
          /\ runId' \notin DOMAIN db.runs /\ runId' # NoRunId /\ db'.runs[runId'] = Row
          /\ \A id \in DOMAIN db.runs : db'.runs[id] = db.runs[id]
      BY <3>1, <3>2 DEF NoRunId
    <3>4. RowsStored'
      BY <3>1, <3>3 DEF RowInv, RowsStored
    <3>5. \A i \in DOMAIN db'.results : db'.results[i].run_id # runId'
      BY <3>1, <3>3 DEF RowInv, RowsStored
    <3>6. RunsAddUp'
      BY <3>3 DEF RowInv, RunsAddUp, Row, TypeInv, TestsCounted
    <3>7. NamesDiffer'
      BY <3>1 DEF RowInv, NamesDiffer
    <3>8. StoringNow'
      BY <1>2, <3>3, <3>5 DEF InsertRun, StoringNow, Row
    <3>9. RowsCounted'
      <4> SUFFICES ASSUME NEW id \in DOMAIN db'.runs
                   PROVE  /\ Cardinality(RowsWith(id, "PASSED")') <= db'.runs[id].passed
                          /\ Cardinality(RowsWith(id, "FAILED")') <= db'.runs[id].failed
        BY DEF RowsCounted
      <4>1. CASE id \in DOMAIN db.runs
        BY <3>1, <3>3, <4>1 DEF RowInv, RowsCounted, RowsWith, RowsOf
      <4>2. CASE id = runId'
        <5>1. RowsWith(id, "PASSED")' = {} /\ RowsWith(id, "FAILED")' = {}
          BY <3>5, <4>2 DEF RowsWith, RowsOf
        <5>2. db'.runs[id].passed \in Nat /\ db'.runs[id].failed \in Nat
          BY <3>2, <3>3, <4>2 DEF Rows, Counts
        <5> QED BY <5>1, <5>2, FS_EmptySet
      <4> QED BY <3>3, <4>1, <4>2
    <3> QED BY <3>4, <3>6, <3>7, <3>8, <3>9 DEF RowInv
  <2> QED BY <1>2, <2>1, <2>2 DEF InsertRun
<1>3. ASSUME NEW t \in Tests, InsertResult(t) PROVE RowInv'
  <2>1. CASE UNCHANGED db
    <3>1. RowsStored' /\ RunsAddUp' /\ NamesDiffer' /\ RowsCounted'
      BY <2>1 DEF RowInv, RowsStored, RunsAddUp, NamesDiffer, RowsCounted, RowsWith, RowsOf
    <3>2. StoringNow'
      BY <1>3, <2>1 DEF InsertResult, RowInv, StoringNow
    <3> QED BY <3>1, <3>2 DEF RowInv
  <2>2. CASE db' = insert_test_result(db, runId, t, status[t])
    <3> DEFINE row == [run_id |-> runId, name |-> t, status |-> status[t]]
               new == Len(db.results) + 1
    <3>1. db'.results = Append(db.results, row) /\ db'.runs = db.runs
      BY <2>2 DEF insert_test_result, TypeInv, DbType
    <3>2. db.results \in Seq(ResultRows) /\ db.runs \in Seq(Rows)
      BY DEF TypeInv, DbType
    <3>3. /\ DOMAIN db'.results = DOMAIN db.results \cup {new} /\ new \notin DOMAIN db.results
          /\ db'.results[new] = row
          /\ \A i \in DOMAIN db.results : db'.results[i] = db.results[i]
      BY <3>1, <3>2
    <3>4. /\ pc = "results" /\ pc' = pc /\ UNCHANGED <<runId, status, session>>
          /\ t \in todo /\ todo' = todo \ {t}
      BY <1>3 DEF InsertResult
    <3>5. RowsStored'
      BY <3>1, <3>3 DEF RowInv, RowsStored, TypeInv, TypeOK
    <3>6. RunsAddUp'
      BY <3>1 DEF RowInv, RunsAddUp
    <3>7. NamesDiffer'
      <4>1. \A i \in DOMAIN db.results :
              db.results[i].run_id = runId /\ runId # NoRunId => db.results[i].name # t
        BY <3>4 DEF RowInv, StoringNow
      <4> QED BY <3>3, <4>1 DEF RowInv, NamesDiffer
    <3>8. StoringNow'
      BY <3>1, <3>3, <3>4 DEF RowInv, StoringNow
    <3>9. RowsCounted'
      <4> SUFFICES ASSUME NEW id \in DOMAIN db.runs
                   PROVE  /\ Cardinality(RowsWith(id, "PASSED")') <= db.runs[id].passed
                          /\ Cardinality(RowsWith(id, "FAILED")') <= db.runs[id].failed
        BY <3>1 DEF RowsCounted
      <4>1. CASE id # runId
        <5>1. /\ RowsWith(id, "PASSED")' = RowsWith(id, "PASSED")
              /\ RowsWith(id, "FAILED")' = RowsWith(id, "FAILED")
          BY <3>3, <4>1 DEF RowsWith, RowsOf
        <5> QED BY <5>1 DEF RowInv, RowsCounted
      <4>2. CASE id = runId
        <5>1. runId # NoRunId
          BY <3>2, <4>2 DEF NoRunId
        <5>2. /\ db.runs[id].passed = Cardinality(Having("PASSED"))
              /\ db.runs[id].failed = Cardinality(Having("FAILED"))
          BY <3>4, <4>2, <5>1 DEF RowInv, StoringNow, TypeInv, TestsCounted
        <5>3. ASSUME NEW s PROVE Cardinality(RowsWith(id, s)') <= Cardinality(Having(s))
          <6>1. \A i \in RowsWith(id, s)' : db'.results[i].name \in Having(s)
            <7>1. db'.results \in Seq(ResultRows)
              BY DEF TypeInv, DbType
            <7>2. \A i \in DOMAIN db'.results : db'.results[i].name \in Tests
              <8>1. \A i \in DOMAIN db'.results : db'.results[i] \in ResultRows
                BY <7>1
              <8> QED BY <8>1 DEF ResultRows
            <7>3. \A i \in DOMAIN db'.results :
                    db'.results[i].run_id = id => status[db'.results[i].name] = db'.results[i].status
              BY <3>4, <3>8, <4>2, <5>1 DEF StoringNow
            <7> QED BY <7>2, <7>3 DEF RowsWith, RowsOf, Having
          <6>2. \A i, j \in RowsWith(id, s)' : db'.results[i].name = db'.results[j].name => i = j
            BY <3>7, <4>2, <5>1 DEF NamesDiffer, RowsWith, RowsOf
          <6>3. RowsWith(id, s)' \subseteq DOMAIN db'.results
            BY DEF RowsWith, RowsOf
          <6>4. IsFiniteSet(Having(s))
            BY TestAssumption, FS_Subset DEF Having
          <6> QED BY <6>1, <6>2, <6>3, <6>4, RowsFit
        <5> QED BY <5>2, <5>3
      <4> QED BY <4>1, <4>2
    <3> QED BY <3>5, <3>6, <3>7, <3>8, <3>9 DEF RowInv
  <2> QED BY <1>3, <2>1, <2>2 DEF InsertResult
<1>4. CASE StartSession \/ EndResults
  BY <1>1, <1>4, TablesCreated DEF StartSession, EndResults, Goto
<1>5. \/ InsertRun \/ (\E t \in Tests : InsertResult(t)) \/ StartSession \/ EndResults
      \/ db' = db /\ (pc' # "results" \/ UNCHANGED <<pc, runId, session, todo, status>>)
  BY DEF Next, Session, vars, Launch, Train, TrainStep, RunTest, EndTests, StartDetector,
     LoadModel, Analyze, generate_json_report, generate_html_report, Open, Write,
     Summarise, SessionDies, Killed, Goto, AfterTraining, AfterSession
<1> QED BY <1>1, <1>2, <1>3, <1>4, <1>5

\* Whatever fails, and however many runs there were, the tables agree: results belong
\* to stored runs, are of different tests and no more than their run counts
\* (conftest.py, insert_test_run, insert_test_result).
THEOREM TablesAgree == Spec => []ResultsWithinRun
<1>1. Init => RowInv
  BY DEF Init, EmptyDB, init_db, RowInv, RowsStored, RunsAddUp, NamesDiffer, RowsCounted, StoringNow
<1>2. Spec => []RowInv
  BY <1>1, TypeInit, TypeNext, RowNext, PTL DEF Spec
<1>3. TypeInv /\ RowInv => ResultsWithinRun
  <2> SUFFICES ASSUME TypeInv, RowInv PROVE ResultsWithinRun
    OBVIOUS
  <2>1. NoRunId \notin DOMAIN db.runs
    BY DEF TypeInv, DbType, NoRunId
  <2> QED BY <2>1 DEF RowInv, RowsStored, RunsAddUp, NamesDiffer, RowsCounted, ResultsWithinRun,
             RowsOf
<1>4. Spec => []TypeInv
  BY TypeInit, TypeNext, PTL DEF Spec
<1> QED BY <1>2, <1>3, <1>4, PTL

-----------------------------------------------------------------------------
(* Success: what each place of a run without faults has already done.      *)

Training  == {"openModel", "dumpModel", "openVectorizer", "dumpVectorizer"}
Reporting == {"openJson", "writeJson", "openHtml", "writeHtml"}

\* A whole report of this run that lists every test it counted.
Lists(d) == Complete(d) /\ d.run = runId /\ Cardinality(d.tests) = d.summary.total

\* What has been tested waits to be stored.
WaitingForAll ==
  pc \in {"detect", "load", "analyze", "insertRun"} \/ (kind = "pytest" /\ pc \in Training)
    => todo = Having("PASSED") \cup Having("FAILED")

\* This run is the last one stored.
RunIsLast ==
  pc \in Reporting \cup {"results", "summary"} \/ said = "success"
    => /\ runId \in DOMAIN db.runs /\ runId = Len(db.runs)
       /\ db.runs[runId].total = session.total
       /\ origins[runId].serial = serial

\* Its results are stored, except those that wait.
RowsComplete ==
  pc \in Reporting \cup {"results"}
    => Cardinality(RowsOf(runId)) + Cardinality(todo) = session.total

ReportsFresh ==
  /\ pc \in {"writeJson", "writeHtml"} => Lists(doc)
  /\ pc \in {"openHtml", "writeHtml", "summary"} \/ said = "success" => Lists(json)
  /\ pc = "summary" \/ said = "success" => Lists(html)

FreshInv == /\ clean => WaitingForAll /\ RunIsLast /\ RowsComplete /\ ReportsFresh
            /\ said # "nothing" => pc = "idle"

\* The number of tests that wait after the session is the number it counted.
LEMMA TestedCounted ==
  ASSUME TypeInv
  PROVE  Cardinality(Having("PASSED") \cup Having("FAILED")) = session.total
<1> DEFINE P == Having("PASSED")
           F == Having("FAILED")
<1>1. IsFiniteSet(P) /\ IsFiniteSet(F) /\ P \cap F = {}
  BY TestAssumption, FS_Subset DEF Having
<1>2. Cardinality(P) \in Nat /\ Cardinality(F) \in Nat /\ Cardinality(P \cap F) = 0
  BY <1>1, FS_CardinalityType, FS_EmptySet
<1>3. Cardinality(P \cup F) = Cardinality(P) + Cardinality(F) - Cardinality(P \cap F)
  BY <1>1, FS_Union
<1> QED
  BY <1>2, <1>3 DEF TypeInv, TestsCounted

\* The rows of a run can be counted.
LEMMA RowsFinite ==
  ASSUME DbType, NEW id
  PROVE  IsFiniteSet(RowsOf(id)) /\ Cardinality(RowsOf(id)) \in Nat
<1>1. Len(db.results) \in Nat /\ DOMAIN db.results = 1..Len(db.results)
  BY DEF DbType
<1>2. IsFiniteSet(RowsOf(id))
  <2>1. RowsOf(id) \subseteq 1..Len(db.results)
    BY <1>1 DEF RowsOf
  <2>2. IsFiniteSet(1..Len(db.results))
    BY <1>1, FS_Interval
  <2> QED
    BY <2>1, <2>2, FS_Subset
<1> QED
  BY <1>2, FS_CardinalityType

\* The last run is among the recent ones, for any limit.
LEMMA LastListed ==
  ASSUME DbType, runId \in DOMAIN db.runs, runId = Len(db.runs)
  PROVE  Listed(runId)
<1> DEFINE n == Len(db.runs)
<1>1. n \in Nat \ {0} /\ DOMAIN db.runs = 1..n
  BY DEF DbType
<1>2. 1 \in 1..(IF ReportLimit < n THEN ReportLimit ELSE n) /\ n + 1 - 1 = n
  BY <1>1, LimitAssumption
<1> QED
  BY <1>2 DEF Listed, get_recent_runs

\* Storing a run without a fault.
LEMMA FreshRun ==
  ASSUME TypeInv, RowInv, Len(origins) = Len(db.runs), FreshInv, InsertRun, clean'
  PROVE  FreshInv'
<1> USE DEF diskVars, sessionVars
<1>1. /\ clean /\ pc = "insertRun" /\ pc' = "results" /\ UNCHANGED <<said, session, serial, todo>>
      /\ db' = insert_test_run(db, Row) /\ runId' = LastRowId(db')
      /\ origins' = Append(origins, Origin)
  BY DEF InsertRun, Goto, Works, Fails
<1>2. said = "nothing" /\ todo = Having("PASSED") \cup Having("FAILED")
  BY <1>1 DEF FreshInv, WaitingForAll
<1>3. db'.runs = Append(db.runs, Row) /\ db'.results = db.results
  BY <1>1 DEF insert_test_run, TypeInv, DbType
<1>4. db.runs \in Seq(Rows) /\ Row \in Rows /\ Row.total = session.total
  BY DEF Row, Rows, TypeInv, TypeOK, DbType
<1>5. /\ runId' = Len(db.runs) + 1 /\ Len(db'.runs) = Len(db.runs) + 1
      /\ runId' \in DOMAIN db'.runs /\ db'.runs[runId'] = Row
      /\ runId' \notin DOMAIN db.runs /\ runId' # NoRunId
  BY <1>1, <1>3, <1>4 DEF LastRowId, NoRunId
<1>6. origins'[runId'].serial = serial
  <2>1. origins \in Seq(Verdicts) /\ Len(origins) = Len(db.runs)
    BY DEF TypeInv, TypeOK
  <2>2. Append(origins, Origin)[Len(origins) + 1] = Origin
    BY <2>1
  <2> QED
    BY <1>1, <1>5, <2>1, <2>2 DEF Origin
<1>7. RowsOf(runId)' = {}
  BY <1>3, <1>5 DEF RowsOf, RowInv, RowsStored
<1>8. RunIsLast'
  BY <1>1, <1>4, <1>5, <1>6 DEF RunIsLast
<1>9. RowsComplete'
  <2>1. Cardinality(todo') = session'.total /\ Cardinality({}) = 0 /\ session.total \in Nat
    <3>1. Cardinality(Tests) \in Nat /\ session.total \in Counts
      BY TestAssumption, FS_CardinalityType DEF TypeInv, TypeOK
    <3> QED
      BY <1>1, <1>2, <3>1, TestedCounted, FS_EmptySet DEF Counts
  <2> QED
    BY <1>1, <1>7, <2>1 DEF RowsComplete
<1>10. WaitingForAll' /\ ReportsFresh'
  BY <1>1, <1>2 DEF WaitingForAll, ReportsFresh, Training
<1> QED
  BY <1>1, <1>2, <1>8, <1>9, <1>10 DEF FreshInv

\* Storing a result without a fault: one waits less and one row is more.
LEMMA FreshResult ==
  ASSUME TypeInv, FreshInv, NEW t \in Tests, InsertResult(t), clean'
  PROVE  FreshInv'
<1> USE DEF diskVars, sessionVars
<1> DEFINE row == [run_id |-> runId, name |-> t, status |-> status[t]]
           new == Len(db.results) + 1
<1>1. /\ clean /\ pc = "results" /\ pc' = pc /\ t \in todo /\ todo' = todo \ {t}
      /\ UNCHANGED <<runId, status, session, origins, serial, said, json, html, doc, kind>>
      /\ db' = insert_test_result(db, runId, t, status[t])
  BY DEF InsertResult, Works, Fails
<1>2. db'.results = Append(db.results, row) /\ db'.runs = db.runs
  BY <1>1 DEF insert_test_result, TypeInv, DbType
<1>3. db.results \in Seq(ResultRows) /\ DbType
  BY DEF TypeInv, DbType
<1>4. /\ DOMAIN db'.results = DOMAIN db.results \cup {new} /\ new \notin DOMAIN db.results
      /\ db'.results[new] = row
      /\ \A i \in DOMAIN db.results : db'.results[i] = db.results[i]
  BY <1>2, <1>3
<1>5. said = "nothing" /\ RunIsLast /\ RowsComplete
  BY <1>1 DEF FreshInv
<1>6. RunIsLast'
  BY <1>1, <1>2, <1>5 DEF RunIsLast
<1>7. RowsOf(runId)' = RowsOf(runId) \cup {new} /\ new \notin RowsOf(runId)
  BY <1>1, <1>4 DEF RowsOf
<1>8. Cardinality(RowsOf(runId)') = Cardinality(RowsOf(runId)) + 1
  BY <1>3, <1>7, RowsFinite, FS_AddElement
<1>9. IsFiniteSet(todo) /\ Cardinality(todo') = Cardinality(todo) - 1
      /\ Cardinality(todo) \in Nat
  <2>1. IsFiniteSet(todo)
    BY TestAssumption, FS_Subset DEF TypeInv, TypeOK
  <2> QED
    BY <1>1, <2>1, FS_RemoveElement, FS_CardinalityType
<1>10. Cardinality(RowsOf(runId)) \in Nat
  BY <1>3, RowsFinite
<1>11. Cardinality(RowsOf(runId)) + Cardinality(todo) = session.total
  BY <1>1, <1>5 DEF RowsComplete
<1>12. Cardinality(RowsOf(runId)') + Cardinality(todo') = session'.total
  BY <1>1, <1>8, <1>9, <1>10, <1>11
<1>13. RowsComplete'
  BY <1>12 DEF RowsComplete
<1>14. WaitingForAll' /\ ReportsFresh'
  BY <1>1, <1>5 DEF WaitingForAll, ReportsFresh, Training
<1> QED
  BY <1>1, <1>5, <1>6, <1>13, <1>14 DEF FreshInv

\* A report composed without a fault is of this run and has all its rows.
LEMMA FreshReport ==
  ASSUME TypeInv, FreshInv, generate_json_report \/ generate_html_report, clean'
  PROVE  FreshInv'
<1> USE DEF diskVars, sessionVars, otherVars
<1>1. /\ clean /\ pc \in Reporting
      /\ UNCHANGED <<db, todo, session, status, runId, kind, serial, said, origins>>
  BY DEF generate_json_report, generate_html_report, Open, Write, Goto, Works, Fails, Reporting
<1>2. said = "nothing" /\ RunIsLast /\ RowsComplete /\ ReportsFresh
  BY <1>1 DEF FreshInv, Reporting
<1>3. /\ DbType /\ todo = {} /\ runId \in DOMAIN db.runs /\ runId = Len(db.runs)
      /\ db.runs[runId].total = session.total
  BY <1>1, <1>2 DEF RunIsLast, TypeInv, TodoTested, Reporting
<1>4. Listed(runId)
  BY <1>3, LastListed
<1>5. Lists(Document(runId, get_run_results(db, runId)))
  <2> DEFINE d == Document(runId, get_run_results(db, runId))
  <2>1. d.run = runId /\ d.tests = RowsOf(runId) /\ d.summary = db.runs[runId]
    BY DEF Document, RowsOf, get_run_results
  <2>2. Cardinality(RowsOf(runId)) = session.total
    <3>1. Cardinality(RowsOf(runId)) \in Nat /\ Cardinality({}) = 0
      BY <1>3, RowsFinite, FS_EmptySet
    <3> QED
      BY <1>1, <1>2, <1>3, <3>1 DEF RowsComplete
  <2>3. Complete(d)
    <3>1. runId \in Nat \ {0}
      BY <1>3 DEF DbType
    <3> QED
      BY <2>1, <3>1 DEF Complete, NoDoc, HalfDoc, Absent, Partial
  <2> QED
    BY <1>3, <2>1, <2>2, <2>3 DEF Lists
<1>6. /\ \A d : Lists(d)' <=> Lists(d)
      /\ WaitingForAll' /\ (pc' \in Reporting \cup {"summary", "idle"})
  BY <1>1 DEF Lists, Complete, WaitingForAll, generate_json_report, generate_html_report, Open,
     Write, Goto, Reporting, AfterSession, Training
<1>7. RunIsLast' /\ RowsComplete'
  BY <1>1, <1>2, <1>6 DEF RunIsLast, RowsComplete, Reporting, RowsOf
<1>8. ReportsFresh'
  <2>1. CASE generate_json_report
    BY <1>1, <1>2, <1>4, <1>5, <1>6, <2>1
    DEF ReportsFresh, generate_json_report, Open, Write, Goto, Works, Fails
  <2>2. CASE generate_html_report
    BY <1>1, <1>2, <1>4, <1>5, <1>6, <2>2
    DEF ReportsFresh, generate_html_report, Open, Write, Goto, Works, Fails, AfterSession
  <2> QED
    BY <2>1, <2>2
<1> QED
  BY <1>1, <1>2, <1>6, <1>7, <1>8 DEF FreshInv

\* Each action; one that fails ends what is said of a run without faults.
LEMMA FreshNext ==
  TypeInv /\ RowInv /\ Len(origins) = Len(db.runs) /\ FreshInv /\ [Next]_vars => FreshInv'
<1> SUFFICES ASSUME TypeInv, RowInv, Len(origins) = Len(db.runs), FreshInv, [Next]_vars
             PROVE  FreshInv'
  OBVIOUS
<1> USE DEF diskVars, sessionVars, otherVars
<1>0. clean = TRUE \/ clean = FALSE
  BY DEF TypeInv, TypeOK
<1>1. ASSUME NEW k \in Kinds, Launch(k) PROVE FreshInv'
  BY <1>1 DEF Launch, Goto, Kinds, FreshInv, WaitingForAll, RunIsLast, RowsComplete, ReportsFresh,
     Training, Reporting
<1>2. CASE pc # "idle" /\ said' = said /\ clean' = FALSE
  BY <1>2 DEF FreshInv
<1>3. CASE /\ pc # "idle" /\ pc \notin Reporting \cup {"results", "summary"}
           /\ pc' \notin Reporting \cup {"results", "summary"}
           /\ said' = said /\ clean' = clean /\ WaitingForAll'
  BY <1>3 DEF FreshInv, RunIsLast, RowsComplete, ReportsFresh, Reporting
<1>4. ASSUME Train PROVE FreshInv'
  <2>1. /\ pc \in Training /\ said' = said /\ clean' = clean
        /\ UNCHANGED <<todo, status, kind>>
        /\ pc' \in Training \cup {"load"} \/ (kind = "pipeline" /\ pc' = "session")
        /\ pc' = "load" => kind # "pipeline"
    BY <1>4 DEF Train, TrainStep, Goto, Works, Training, AfterTraining
  <2>2. kind \in Kinds
    BY DEF TypeInv, TypeOK
  <2>3. clean => WaitingForAll'
    BY <2>1, <2>2 DEF FreshInv, WaitingForAll, Training, Having, Kinds
  <2> QED
    BY <2>1, <2>3 DEF FreshInv, RunIsLast, RowsComplete, ReportsFresh, Reporting, Training
<1>5. CASE StartSession \/ \E t \in Tests : RunTest(t)
  <2>1. /\ pc \in {"session", "tests"} /\ pc' = "tests" /\ said' = said
        /\ clean' = clean \/ clean' = FALSE
    BY <1>5 DEF StartSession, RunTest, Goto, Works, Fails
  <2> QED
    BY <2>1 DEF FreshInv, WaitingForAll, RunIsLast, RowsComplete, ReportsFresh, Reporting, Training
<1>6. CASE EndTests \/ StartDetector \/ LoadModel \/ Analyze
  <2>1. /\ pc \in {"tests", "detect", "load", "analyze"}
        /\ pc' \in {"detect", "load", "analyze", "insertRun", "openModel"}
        /\ UNCHANGED <<said, status>> /\ (clean' = clean \/ clean' = FALSE)
        /\ \/ pc = "tests" /\ todo' = {t \in Tests : status[t] \in {"PASSED", "FAILED"}}
           \/ pc # "tests" /\ todo' = todo
    BY <1>6 DEF EndTests, StartDetector, LoadModel, Analyze, Goto, Works, Fails
  <2>2. {t \in Tests : status[t] \in {"PASSED", "FAILED"}} = Having("PASSED") \cup Having("FAILED")
    BY DEF Having
  <2>3. clean => WaitingForAll'
    BY <2>1, <2>2 DEF FreshInv, WaitingForAll, Having
  <2> QED
    BY <2>1, <2>3 DEF FreshInv, RunIsLast, RowsComplete, ReportsFresh, Reporting
<1>7. CASE InsertRun
  <2>1. pc # "idle" /\ said' = said /\ (clean' = clean \/ clean' = FALSE)
    BY <1>7 DEF InsertRun, Goto, Works, Fails
  <2>2. clean' \/ clean' = FALSE
    BY <1>0, <2>1
  <2> QED
    BY <1>2, <1>7, <2>1, <2>2, FreshRun
<1>8. ASSUME NEW t \in Tests, InsertResult(t) PROVE FreshInv'
  <2>1. pc # "idle" /\ said' = said /\ (clean' = clean \/ clean' = FALSE)
    BY <1>8 DEF InsertResult, Works, Fails
  <2>2. clean' \/ clean' = FALSE
    BY <1>0, <2>1
  <2> QED
    BY <1>2, <1>8, <2>1, <2>2, FreshResult
<1>9. CASE EndResults
  <2>1. /\ pc = "results" /\ pc' = "openJson" /\ (clean' = clean \/ clean' = FALSE)
        /\ UNCHANGED <<todo, session, runId, serial, said, origins>>
        /\ db'.runs = db.runs /\ db'.results = db.results
    BY <1>9, TablesCreated DEF EndResults, Goto, Works, Fails
  <2> QED
    BY <2>1 DEF FreshInv, WaitingForAll, RunIsLast, RowsComplete, ReportsFresh, Reporting,
       Training, RowsOf
<1>10. CASE generate_json_report \/ generate_html_report
  <2>1. pc # "idle" /\ said' = said /\ (clean' = clean \/ clean' = FALSE)
    BY <1>10 DEF generate_json_report, generate_html_report, Open, Write, Goto, Works, Fails
  <2>2. clean' \/ clean' = FALSE
    BY <1>0, <2>1
  <2> QED
    BY <1>2, <1>10, <2>1, <2>2, FreshReport
<1>11. CASE Summarise
  <2>1. /\ pc = "summary" /\ pc' = "idle"
        /\ UNCHANGED <<db, runId, session, serial, origins, clean, json, html>>
    BY <1>11 DEF Summarise, Goto, Works
  <2>2. clean => Lists(json)' /\ Lists(html)' /\ RunIsLast
    BY <2>1 DEF FreshInv, ReportsFresh, Lists, Complete
  <2>3. clean => RunIsLast'
    BY <2>1, <2>2 DEF RunIsLast
  <2> QED
    BY <2>1, <2>2, <2>3 DEF FreshInv, WaitingForAll, RowsComplete, ReportsFresh, Reporting, Training
<1>12. CASE SessionDies \/ Killed
  BY <1>2, <1>12 DEF SessionDies, Killed, Fails
<1>13. CASE UNCHANGED vars
  BY <1>13 DEF vars, FreshInv, WaitingForAll, RunIsLast, RowsComplete, ReportsFresh, Lists,
     Complete, RowsOf, Having
<1> QED
  BY <1>1, <1>4, <1>5, <1>6, <1>7, <1>8, <1>9, <1>10, <1>11, <1>12, <1>13 DEF Next, Session

\* A run that failed nowhere and ends in "success" has left both reports, of itself and
\* with every test it counted, whatever earlier runs left behind (run_all.py).
THEOREM SuccessIsFresh == Spec => []CleanSuccessIsFresh
<1>1. Init => RowInv /\ SoundInv /\ FreshInv
  <2> SUFFICES ASSUME Init PROVE RowInv /\ SoundInv /\ FreshInv
    OBVIOUS
  <2>1. RowInv
    BY DEF Init, EmptyDB, init_db, RowInv, RowsStored, RunsAddUp, NamesDiffer, RowsCounted, StoringNow
  <2>2. SoundInv
    BY DEF Init, EmptyDB, init_db, SoundInv, TrainedBySelf, OriginsSound
  <2>3. FreshInv
    BY DEF Init, FreshInv, WaitingForAll, RunIsLast, RowsComplete, ReportsFresh, Reporting, Training
  <2> QED
    BY <2>1, <2>2, <2>3
<1>2. SoundInv => Len(origins) = Len(db.runs)
  BY DEF SoundInv, OriginsSound
<1>3. Spec => [](TypeInv /\ RowInv /\ SoundInv /\ FreshInv)
  BY <1>1, <1>2, TypeInit, TypeNext, RowNext, SoundNext, FreshNext, PTL DEF Spec
<1>4. FreshInv => CleanSuccessIsFresh
  BY DEF FreshInv, RunIsLast, ReportsFresh, Lists, CleanSuccessIsFresh
<1> QED
  BY <1>3, <1>4, PTL

-----------------------------------------------------------------------------
(* The dashboard: its sums grow by what a run counted, before its results  *)
(* are stored.                                                             *)

\* The results stored for a run, and the tests whose results are still to come.
Stored  == {i \in DOMAIN db.results : db.results[i].run_id # NoRunId}
Awaited == IF pc = "results" /\ runId # NoRunId THEN todo ELSE {}

SumsAddUp ==
  /\ SumOf(db, "passed") \in Nat /\ SumOf(db, "failed") \in Nat
  /\ SumOf(db, "passed") + SumOf(db, "failed") = SumOf(db, "total")

\* There is room in the total for the results that are still to come.
StoredFit == Cardinality(Stored) + Cardinality(Awaited) <= SumOf(db, "total")

MetricInv == SumsAddUp /\ StoredFit

\* The results can be counted.
LEMMA StoredFinite ==
  ASSUME TypeInv
  PROVE  IsFiniteSet(Stored) /\ IsFiniteSet(todo)
<1>1. IsFiniteSet(1..Len(db.results)) /\ Stored \subseteq 1..Len(db.results)
  BY FS_Interval DEF Stored, TypeInv, DbType
<1>2. IsFiniteSet(todo)
  BY TestAssumption, FS_Subset DEF TypeInv, TypeOK
<1> QED
  BY <1>1, <1>2, FS_Subset

\* No more tests wait than the session counted.
LEMMA TodoCounted ==
  ASSUME TypeInv
  PROVE  Cardinality(todo) <= session.total
<1>1. /\ todo \subseteq Having("PASSED") \cup Having("FAILED")
      /\ Having("PASSED") \cup Having("FAILED") \subseteq Tests
  BY DEF TypeInv, TodoTested, Having
<1>2. IsFiniteSet(Having("PASSED") \cup Having("FAILED"))
  BY <1>1, TestAssumption, FS_Subset
<1> QED
  BY <1>1, <1>2, FS_Subset, TestedCounted

\* A history without runs adds up.
LEMMA MetricInit == Init => MetricInv
<1> SUFFICES ASSUME Init PROVE MetricInv
  OBVIOUS
<1>1. \A column : SumOf(db, column) = 0
  BY SumOfNone DEF Init, EmptyDB, init_db
<1>2. Stored = {} /\ Awaited = {}
  BY DEF Init, EmptyDB, init_db, Stored, Awaited
<1> QED
  BY <1>1, <1>2, FS_EmptySet DEF MetricInv, SumsAddUp, StoredFit

\* A run that is stored adds what its session counted.
LEMMA MetricRun ==
  ASSUME TypeInv, MetricInv, pc = "insertRun", pc' = "results", todo' = todo,
         db' = insert_test_run(db, Row)
  PROVE  MetricInv'
<1>1. /\ db'.runs = Append(db.runs, Row) /\ db'.results = db.results
      /\ db.runs \in Seq(Rows) /\ Row \in Rows
  BY DEF insert_test_run, Row, Rows, TypeInv, TypeOK, DbType
<1> DEFINE p == SumOf(db, "passed")
           f == SumOf(db, "failed")
           t == SumOf(db, "total")
<1>2. /\ p \in Nat /\ f \in Nat /\ p + f = t
      /\ Cardinality(Stored) + Cardinality(Awaited) <= t
  BY DEF MetricInv, SumsAddUp, StoredFit
<1>3. /\ session.passed \in Nat /\ session.failed \in Nat
      /\ session.total = session.passed + session.failed
  <2>1. Cardinality(Tests) \in Nat
    BY TestAssumption, FS_CardinalityType
  <2> QED
    BY <2>1 DEF TypeInv, TypeOK, TestsCounted, Counts
<1>4. /\ \A r \in Rows : r["passed"] \in Int
      /\ \A r \in Rows : r["failed"] \in Int
      /\ \A r \in Rows : r["total"] \in Int
  <2>1. Counts \subseteq Int
    BY DEF Counts
  <2> QED
    BY <2>1 DEF Rows
<1>5. /\ SumOf(db', "passed") = p + session.passed
      /\ SumOf(db', "failed") = f + session.failed
      /\ SumOf(db', "total") = t + session.total
  <2>1. ASSUME NEW column, \A r \in Rows : r[column] \in Int
        PROVE  SumOf(db', column) = SumOf(db, column) + Row[column]
    BY <1>1, <2>1, SumOfInsert
  <2>2. /\ SumOf(db', "passed") = SumOf(db, "passed") + Row["passed"]
        /\ SumOf(db', "failed") = SumOf(db, "failed") + Row["failed"]
        /\ SumOf(db', "total") = SumOf(db, "total") + Row["total"]
    BY <1>4, <2>1
  <2> QED
    BY <2>2 DEF Row
<1>6. Cardinality(Stored') <= t /\ Stored' = Stored /\ Cardinality(Stored) \in Nat
  <2>1. Stored' = Stored /\ Awaited = {}
    BY <1>1 DEF Stored, Awaited
  <2> QED
    BY <1>2, <2>1, StoredFinite, FS_CardinalityType, FS_EmptySet
<1>7. Cardinality(Awaited') <= session.total /\ Cardinality(Awaited') \in Nat
  <2>1. Awaited' = todo \/ Awaited' = {}
    BY DEF Awaited
  <2>2. Cardinality(todo) \in Nat /\ Cardinality({}) = 0 /\ Cardinality(todo) <= session.total
    BY TodoCounted, StoredFinite, FS_CardinalityType, FS_EmptySet
  <2>3. 0 <= session.total
    BY <1>3
  <2> QED
    BY <2>1, <2>2, <2>3
<1> HIDE DEF p, f, t
<1>8. SumsAddUp'
  BY <1>2, <1>3, <1>5 DEF SumsAddUp
<1>9. StoredFit'
  BY <1>2, <1>3, <1>5, <1>6, <1>7 DEF StoredFit
<1> QED
  BY <1>8, <1>9 DEF MetricInv

\* A result that is stored was awaited, unless its run is not stored.
LEMMA MetricResult ==
  ASSUME TypeInv, MetricInv, NEW r \in Tests, InsertResult(r)
  PROVE  MetricInv'
<1> DEFINE new == Len(db.results) + 1
<1>1. /\ pc = "results" /\ pc' = pc /\ runId' = runId
      /\ r \in todo /\ todo' = todo \ {r}
  BY DEF InsertResult
<1>2. db'.runs = db.runs
  BY DEF InsertResult, insert_test_result, TypeInv, DbType
<1>3. SumsAddUp' /\ SumOf(db', "total") = SumOf(db, "total")
  BY <1>2, SumOfRuns DEF MetricInv, SumsAddUp
<1>4. /\ IsFiniteSet(Stored) /\ Cardinality(Stored) \in Nat
      /\ IsFiniteSet(todo) /\ Cardinality(todo) \in Nat
      /\ Cardinality(todo') = Cardinality(todo) - 1
  BY <1>1, StoredFinite, FS_CardinalityType, FS_RemoveElement
<1>5. \/ db'.results = db.results
      \/ db'.results = Append(db.results, [run_id |-> runId, name |-> r, status |-> status[r]])
  BY DEF InsertResult, insert_test_result, TypeInv, DbType
<1>6. Stored' = Stored \/ (runId # NoRunId /\ Stored' = Stored \cup {new} /\ new \notin Stored)
  <2>1. db.results \in Seq(ResultRows)
    BY DEF TypeInv, DbType
  <2> QED
    BY <1>5, <2>1 DEF Stored
<1>7. CASE runId = NoRunId
  <2>1. Stored' = Stored /\ Awaited = {} /\ Awaited' = {}
    BY <1>1, <1>6, <1>7 DEF Awaited
  <2> QED
    BY <1>3, <2>1 DEF MetricInv, StoredFit
<1>8. CASE runId # NoRunId
  <2>1. Awaited = todo /\ Awaited' = todo'
    BY <1>1, <1>8 DEF Awaited
  <2>2. Cardinality(Stored') = Cardinality(Stored) \/ Cardinality(Stored') = Cardinality(Stored) + 1
    BY <1>4, <1>6, FS_AddElement
  <2>3. SumOf(db, "total") \in Nat /\ Cardinality(Stored) + Cardinality(todo) <= SumOf(db, "total")
    BY <2>1 DEF MetricInv, SumsAddUp, StoredFit
  <2>4. Cardinality(Stored') + Cardinality(todo') <= SumOf(db, "total")
    BY <1>4, <2>2, <2>3
  <2> QED
    BY <1>3, <2>1, <2>4 DEF MetricInv, StoredFit
<1> QED
  BY <1>7, <1>8

\* Every other step leaves the rows alone and awaits no more than before.
LEMMA MetricNext == TypeInv /\ MetricInv /\ [Next]_vars => MetricInv'
<1> SUFFICES ASSUME TypeInv, MetricInv, [Next]_vars PROVE MetricInv'
  OBVIOUS
<1> USE DEF diskVars, sessionVars, otherVars
<1>1. CASE /\ db'.runs = db.runs /\ db'.results = db.results
           /\ Awaited' = {} \/ Awaited' = Awaited
  <2>1. SumsAddUp' /\ SumOf(db', "total") = SumOf(db, "total")
    BY <1>1, SumOfRuns DEF MetricInv, SumsAddUp
  <2>2. Stored' = Stored
    BY <1>1 DEF Stored
  <2>3. Cardinality(Awaited') <= Cardinality(Awaited) /\ Cardinality(Awaited') \in Nat
        /\ Cardinality(Awaited) \in Nat
    <3>1. Awaited = todo \/ Awaited = {}
      BY DEF Awaited
    <3>2. Cardinality(todo) \in Nat /\ Cardinality({}) = 0
      BY StoredFinite, FS_CardinalityType, FS_EmptySet
    <3>3. Cardinality(Awaited) \in Nat
      BY <3>1, <3>2
    <3> QED
      BY <1>1, <3>2, <3>3
  <2>4. SumOf(db, "total") \in Nat /\ Cardinality(Stored) \in Nat
    BY StoredFinite, FS_CardinalityType DEF MetricInv, SumsAddUp
  <2>5. StoredFit'
    BY <2>1, <2>2, <2>3, <2>4 DEF MetricInv, StoredFit
  <2> QED
    BY <2>1, <2>5 DEF MetricInv
<1>2. CASE InsertRun
  <2>1. CASE UNCHANGED db /\ runId' = NoRunId
    BY <1>1, <2>1 DEF Awaited
  <2>2. CASE db' = insert_test_run(db, Row)
    BY <1>2, <2>2, MetricRun DEF InsertRun, Goto
  <2> QED
    BY <1>2, <2>1, <2>2 DEF InsertRun
<1>3. ASSUME NEW r \in Tests, InsertResult(r) PROVE MetricInv'
  BY <1>3, MetricResult
<1>4. CASE StartSession \/ EndResults
  <2>1. db'.runs = db.runs /\ db'.results = db.results /\ Awaited' = {}
    BY <1>4, TablesCreated DEF StartSession, EndResults, Goto, Awaited
  <2> QED
    BY <1>1, <2>1
<1>5. CASE db' = db /\ (pc' # "results" \/ UNCHANGED <<pc, runId, todo>>)
  BY <1>1, <1>5 DEF Awaited
<1>6. \/ InsertRun \/ (\E t \in Tests : InsertResult(t)) \/ StartSession \/ EndResults
      \/ db' = db /\ (pc' # "results" \/ UNCHANGED <<pc, runId, todo>>)
  BY DEF Next, Session, vars, Launch, Train, TrainStep, RunTest, EndTests, StartDetector,
     LoadModel, Analyze, generate_json_report, generate_html_report, Open, Write,
     Summarise, SessionDies, Killed, Goto, AfterTraining, AfterSession
<1> QED
  BY <1>2, <1>3, <1>4, <1>5, <1>6

\* The dashboard's figures add up and cover every result stored for a run, for a
\* history of any length and whatever failed in it (get_dashboard_metrics).
THEOREM MetricsAddUp == Spec => []MetricsCoverResults
<1>1. Spec => []TypeInv
  BY TypeInit, TypeNext, PTL DEF Spec
<1>2. Spec => [](TypeInv /\ MetricInv)
  BY MetricInit, MetricNext, <1>1, PTL DEF Spec
<1>3. TypeInv /\ MetricInv => MetricsCoverResults
  <2> SUFFICES ASSUME TypeInv, MetricInv PROVE MetricsCoverResults
    OBVIOUS
  <2> DEFINE p == SumOf(db, "passed")
             f == SumOf(db, "failed")
             t == SumOf(db, "total")
             m == get_dashboard_metrics(db)
  <2>1. /\ p \in Nat /\ f \in Nat /\ p + f = t
        /\ Cardinality(Stored) + Cardinality(Awaited) <= t
    BY DEF MetricInv, SumsAddUp, StoredFit
  <2>2. Cardinality(Stored) \in Nat /\ Cardinality(Awaited) \in Nat
    <3>1. Awaited = todo \/ Awaited = {}
      BY DEF Awaited
    <3> QED
      BY <3>1, StoredFinite, FS_CardinalityType, FS_EmptySet
  <2>3. /\ m.passed_tests = p /\ m.failed_tests = f /\ m.total_tests = t
        /\ m.success_rate = IF t > 0 THEN <<p, t>> ELSE <<1, 1>>
    BY DEF get_dashboard_metrics
  <2> HIDE DEF p, f, t, m
  <2>4. Cardinality(Stored) <= t /\ p <= t
    BY <2>1, <2>2
  <2>5. m.success_rate[1] <= m.success_rate[2]
    BY <2>1, <2>3, <2>4
  <2> QED
    BY <2>1, <2>3, <2>4, <2>5 DEF MetricsCoverResults, Stored, m
<1> QED
  BY <1>2, <1>3, PTL

-----------------------------------------------------------------------------
(* A history without faults: nothing is lost and nothing is mixed.         *)

\* Except while a training is under way, both files are of one training, and a detector
\* that has loaded them has them.
FilesPaired ==
  /\ pc \notin Training => model = vectorizer /\ model # Partial
  /\ pc \in {"openVectorizer", "dumpVectorizer"} => model = serial
  /\ pc = "load" => model # Absent
  /\ pc \in {"analyze", "insertRun"} => loaded.model = loaded.vectorizer /\ loaded.model # Absent

AllSound == \A id \in DOMAIN origins : origins[id].verdict = "sound"

AllStored ==
  \A id \in DOMAIN db.runs :
     Cardinality(RowsOf(id)) + Cardinality(StillStored(id)) = db.runs[id].total

UndisturbedInv == faults = 0 => FilesPaired /\ AllSound /\ AllStored /\ clean

\* The files change hands only in a training.
LEMMA PairedNext ==
  TypeInv /\ UndisturbedInv /\ [Next]_vars /\ faults' = 0 => faults = 0 /\ FilesPaired' /\ clean'
<1> SUFFICES ASSUME TypeInv, UndisturbedInv, [Next]_vars, faults' = 0
             PROVE  faults = 0 /\ FilesPaired' /\ clean'
  OBVIOUS
<1> USE DEF diskVars, sessionVars, otherVars, Training
<1>1. ~Fails
  BY DEF Fails, TypeInv, TypeOK
<1>2. ASSUME NEW k \in Kinds, Launch(k) PROVE faults = 0 /\ FilesPaired' /\ clean'
  BY <1>2 DEF Launch, Goto, UndisturbedInv, FilesPaired
<1>3. CASE Train
  <2>1. serial \in Serials
    BY <1>3 DEF Train, TrainStep, Goto, TypeInv
  <2>2. serial # Absent /\ serial # Partial
    BY <2>1 DEF Serials, Absent, Partial
  <2>3. faults = 0 /\ clean /\ UNCHANGED <<faults, clean, serial, loaded>>
    BY <1>3 DEF Train, TrainStep, Works, UndisturbedInv
  <2> QED
    BY <1>3, <2>2, <2>3 DEF Train, TrainStep, Goto, AfterTraining, UndisturbedInv, FilesPaired
<1>4. CASE LoadModel
  <2>1. faults = 0 /\ clean /\ UNCHANGED <<faults, clean, model, vectorizer>>
    BY <1>1, <1>4 DEF LoadModel, Works, UndisturbedInv
  <2> QED
    BY <1>1, <1>4, <2>1 DEF LoadModel, Goto, UndisturbedInv, FilesPaired
<1>5. CASE StartDetector
  <2>1. faults = 0 /\ clean /\ UNCHANGED <<faults, clean, model, vectorizer>>
    BY <1>5 DEF StartDetector, Works, UndisturbedInv
  <2> QED
    BY <1>5, <2>1 DEF StartDetector, Goto, UndisturbedInv, FilesPaired
<1>6. CASE /\ UNCHANGED <<model, vectorizer, serial, loaded, faults, clean>>
           /\ pc \notin Training /\ pc' \notin Training \cup {"load", "analyze"}
           /\ pc' = "insertRun" => pc \in {"analyze", "insertRun"}
  BY <1>6 DEF UndisturbedInv, FilesPaired
<1>7. CASE UNCHANGED vars
  BY <1>7 DEF vars, UndisturbedInv, FilesPaired
<1>8. CASE SessionDies \/ Killed
  BY <1>1, <1>8 DEF SessionDies, Killed
<1>9. CASE \/ StartSession \/ (\E t \in Tests : RunTest(t) \/ InsertResult(t)) \/ EndTests
           \/ Analyze \/ InsertRun \/ EndResults \/ Summarise
  <2>1. Works
    BY <1>1, <1>9 DEF StartSession, RunTest, InsertResult, EndTests, Analyze, InsertRun, EndResults,
       Summarise
  <2>2. /\ UNCHANGED <<model, vectorizer, serial, loaded>>
        /\ pc \in {"session", "tests", "results", "analyze", "insertRun", "summary"}
        /\ pc' \in {"tests", "results", "detect", "insertRun", "openJson", "idle"}
        /\ pc' = "insertRun" => pc = "analyze"
    BY <1>9 DEF StartSession, RunTest, InsertResult, EndTests, Analyze, InsertRun, EndResults,
       Summarise, Goto
  <2> QED
    BY <1>6, <2>1, <2>2 DEF Works
<1>10. CASE generate_json_report \/ generate_html_report
  <2>1. Works
    BY <1>1, <1>10 DEF generate_json_report, generate_html_report, Open, Write
  <2>2. /\ UNCHANGED <<model, vectorizer, serial, loaded>>
        /\ pc \in {"openJson", "writeJson", "openHtml", "writeHtml"}
        /\ pc' \in {"writeJson", "openHtml", "writeHtml", "summary", "idle"}
    BY <1>10 DEF generate_json_report, generate_html_report, Open, Write, Goto, AfterSession
  <2> QED
    BY <1>6, <2>1, <2>2 DEF Works
<1> QED
  BY <1>2, <1>3, <1>4, <1>5, <1>7, <1>8, <1>9, <1>10 DEF Next, Session

\* Storing a run: its verdict is sound and all its results are still to come.
LEMMA UndisturbedRun ==
  ASSUME TypeInv, RowInv, OriginsSound, FreshInv, UndisturbedInv, InsertRun, faults' = 0
  PROVE  AllSound' /\ AllStored'
<1> USE DEF diskVars, sessionVars
<1>1. /\ pc = "insertRun" /\ pc' = "results" /\ todo' = todo
      /\ db' = insert_test_run(db, Row) /\ runId' = LastRowId(db')
      /\ origins' = Append(origins, Origin)
      /\ faults = 0
  BY DEF InsertRun, Goto, Works, Fails, TypeInv, TypeOK
<1>2. /\ db'.runs = Append(db.runs, Row) /\ db'.results = db.results
      /\ db.runs \in Seq(Rows) /\ Row \in Rows /\ Row.total = session.total
  BY <1>1 DEF insert_test_run, Row, Rows, TypeInv, TypeOK, DbType
<1>3. /\ DOMAIN db'.runs = DOMAIN db.runs \cup {runId'} /\ runId' \notin DOMAIN db.runs
      /\ db'.runs[runId'] = Row /\ runId' # NoRunId
      /\ \A id \in DOMAIN db.runs : db'.runs[id] = db.runs[id]
  BY <1>1, <1>2 DEF LastRowId, NoRunId
<1>4. AllSound'
  <2>1. Verdict = "sound"
    BY <1>1 DEF UndisturbedInv, FilesPaired, Verdict, Operative
  <2>2. origins \in Seq(Verdicts) /\ Origin.verdict = "sound"
    BY <2>1 DEF TypeInv, TypeOK, Origin
  <2>3. AllSound
    BY <1>1 DEF UndisturbedInv
  <2> QED
    BY <1>1, <2>1, <2>2, <2>3 DEF AllSound
<1>5. ASSUME NEW id \in DOMAIN db.runs
      PROVE  Cardinality(RowsOf(id)') + Cardinality(StillStored(id)') = db'.runs[id].total
  <2>1. RowsOf(id)' = RowsOf(id) /\ StillStored(id)' = {} /\ StillStored(id) = {}
    BY <1>1, <1>2, <1>3 DEF RowsOf, StillStored
  <2> QED
    BY <1>1, <1>3, <2>1 DEF UndisturbedInv, AllStored
<1>6. ASSUME NEW id, id = runId'
      PROVE  Cardinality(RowsOf(id)') + Cardinality(StillStored(id)') = db'.runs[id].total
  <2>1. RowsOf(id)' = {}
    BY <1>2, <1>3, <1>6 DEF RowsOf, RowInv, RowsStored
  <2>2. StillStored(id)' = Having("PASSED") \cup Having("FAILED")
    BY <1>1, <1>6 DEF StillStored, FreshInv, UndisturbedInv, WaitingForAll
  <2>3. session.total \in Nat
    <3>1. Cardinality(Tests) \in Nat /\ session.total \in Counts
      BY TestAssumption, FS_CardinalityType DEF TypeInv, TypeOK
    <3> QED
      BY <3>1 DEF Counts
  <2> QED
    BY <1>2, <1>3, <1>6, <2>1, <2>2, <2>3, TestedCounted, FS_EmptySet
<1>7. AllStored'
  BY <1>3, <1>5, <1>6 DEF AllStored
<1> QED
  BY <1>4, <1>7

\* Storing a result: one waits less and one row is more, of this run only.
LEMMA UndisturbedResult ==
  ASSUME TypeInv, FreshInv, UndisturbedInv, NEW t \in Tests, InsertResult(t), faults' = 0
  PROVE  AllSound' /\ AllStored'
<1> USE DEF diskVars, sessionVars
<1> DEFINE row == [run_id |-> runId, name |-> t, status |-> status[t]]
           new == Len(db.results) + 1
<1>1. /\ pc = "results" /\ pc' = pc /\ t \in todo /\ todo' = todo \ {t}
      /\ UNCHANGED <<runId, origins>> /\ faults = 0
      /\ db' = insert_test_result(db, runId, t, status[t])
  BY DEF InsertResult, Works, Fails, TypeInv, TypeOK
<1>2. db'.results = Append(db.results, row) /\ db'.runs = db.runs
  BY <1>1 DEF insert_test_result, TypeInv, DbType
<1>3. db.results \in Seq(ResultRows) /\ DbType
  BY DEF TypeInv, DbType
<1>4. /\ DOMAIN db'.results = DOMAIN db.results \cup {new} /\ new \notin DOMAIN db.results
      /\ db'.results[new] = row
      /\ \A i \in DOMAIN db.results : db'.results[i] = db.results[i]
  BY <1>2, <1>3
<1>5. runId \in DOMAIN db.runs /\ AllStored /\ AllSound
  BY <1>1 DEF FreshInv, UndisturbedInv, RunIsLast
<1>6. ASSUME NEW id \in DOMAIN db.runs
      PROVE  Cardinality(RowsOf(id)') + Cardinality(StillStored(id)') = db.runs[id].total
  <2>1. Cardinality(RowsOf(id)) + Cardinality(StillStored(id)) = db.runs[id].total
    BY <1>5 DEF AllStored
  <2>2. CASE id # runId
    <3>1. RowsOf(id)' = RowsOf(id) /\ StillStored(id)' = StillStored(id)
      BY <1>1, <1>4, <2>2 DEF RowsOf, StillStored
    <3> QED
      BY <2>1, <3>1
  <2>3. CASE id = runId
    <3>1. RowsOf(id)' = RowsOf(id) \cup {new} /\ new \notin RowsOf(id)
      BY <1>1, <1>4, <2>3 DEF RowsOf
    <3>2. StillStored(id) = todo /\ StillStored(id)' = todo'
      BY <1>1, <2>3 DEF StillStored
    <3>3. /\ Cardinality(RowsOf(id)') = Cardinality(RowsOf(id)) + 1
          /\ Cardinality(RowsOf(id)) \in Nat
      BY <1>3, <3>1, RowsFinite, FS_AddElement
    <3>4. Cardinality(todo') = Cardinality(todo) - 1 /\ Cardinality(todo) \in Nat
      BY <1>1, StoredFinite, FS_RemoveElement, FS_CardinalityType
    <3> QED
      BY <2>1, <3>2, <3>3, <3>4
  <2> QED
    BY <2>2, <2>3
<1>7. AllStored'
  BY <1>2, <1>6 DEF AllStored
<1>8. AllSound'
  BY <1>1, <1>5 DEF AllSound
<1> QED
  BY <1>7, <1>8

\* Every other step stores nothing and leaves nothing to be stored.
LEMMA UndisturbedNext ==
  TypeInv /\ RowInv /\ OriginsSound /\ FreshInv /\ UndisturbedInv /\ [Next]_vars => UndisturbedInv'
<1> SUFFICES ASSUME TypeInv, RowInv, OriginsSound, FreshInv, UndisturbedInv, [Next]_vars,
                    faults' = 0
             PROVE  AllSound' /\ AllStored'
  BY PairedNext DEF UndisturbedInv
<1> USE DEF diskVars, sessionVars, otherVars
<1>0. faults = 0 /\ AllSound /\ AllStored
  BY PairedNext DEF UndisturbedInv
<1>1. CASE /\ db'.runs = db.runs /\ db'.results = db.results /\ origins' = origins
           /\ \A id : StillStored(id)' = StillStored(id)
  BY <1>0, <1>1 DEF AllSound, AllStored, RowsOf
<1>2. CASE StartSession
  <2>1. /\ db'.runs = db.runs /\ db'.results = db.results /\ origins' = origins
        /\ pc # "results" /\ pc' # "results"
    BY <1>2, TablesCreated DEF StartSession, Goto
  <2> QED
    BY <1>1, <2>1 DEF StillStored
<1>3. CASE EndResults
  <2>1. /\ db'.runs = db.runs /\ db'.results = db.results /\ origins' = origins
        /\ todo = {} /\ pc' # "results"
    BY <1>3, TablesCreated DEF EndResults, Goto
  <2> QED
    BY <1>1, <2>1 DEF StillStored
<1>4. CASE SessionDies \/ Killed
  <2>1. Fails
    BY <1>4 DEF SessionDies, Killed
  <2> QED
    BY <1>0, <2>1 DEF Fails
<1>5. CASE UNCHANGED vars
  BY <1>1, <1>5 DEF vars, StillStored
<1>6. CASE db' = db /\ origins' = origins /\ pc # "results" /\ pc' # "results"
  BY <1>1, <1>6 DEF StillStored
<1>7. \/ InsertRun \/ (\E t \in Tests : InsertResult(t)) \/ StartSession \/ EndResults
      \/ SessionDies \/ Killed \/ UNCHANGED vars
      \/ db' = db /\ origins' = origins /\ pc # "results" /\ pc' # "results"
  BY DEF Next, Session, Launch, Train, TrainStep, RunTest, EndTests, StartDetector, LoadModel,
     Analyze, generate_json_report, generate_html_report, Open, Write, Summarise, Goto,
     AfterTraining, AfterSession
<1> QED
  BY <1>2, <1>3, <1>4, <1>5, <1>6, <1>7, UndisturbedRun, UndisturbedResult

\* As long as nothing has failed, every run has a sound verdict and all its results, for
\* any number of runs of either kind (conftest.py, anomaly_detector.py).
THEOREM NothingLostWithoutFaults == Spec => []UndisturbedHistory
<1>1. Init => RowInv /\ SoundInv /\ FreshInv /\ UndisturbedInv
  <2> SUFFICES ASSUME Init PROVE RowInv /\ SoundInv /\ FreshInv /\ UndisturbedInv
    OBVIOUS
  <2>1. RowInv
    BY DEF Init, EmptyDB, init_db, RowInv, RowsStored, RunsAddUp, NamesDiffer, RowsCounted, StoringNow
  <2>2. SoundInv
    BY DEF Init, EmptyDB, init_db, SoundInv, TrainedBySelf, OriginsSound
  <2>3. FreshInv
    BY DEF Init, FreshInv, WaitingForAll, RunIsLast, RowsComplete, ReportsFresh, Reporting, Training
  <2>4. UndisturbedInv
    BY DEF Init, EmptyDB, init_db, UndisturbedInv, FilesPaired, AllSound, AllStored, Training,
       Absent, Partial, Shipped
  <2> QED
    BY <2>1, <2>2, <2>3, <2>4
<1>2. SoundInv => OriginsSound /\ Len(origins) = Len(db.runs)
  BY DEF SoundInv, OriginsSound
<1>3. Spec => [](TypeInv /\ RowInv /\ SoundInv /\ FreshInv /\ UndisturbedInv)
  BY <1>1, <1>2, TypeInit, TypeNext, RowNext, SoundNext, FreshNext, UndisturbedNext, PTL DEF Spec
<1>4. TypeInv /\ SoundInv /\ UndisturbedInv => UndisturbedHistory
  <2> SUFFICES ASSUME TypeInv, SoundInv, UndisturbedInv PROVE UndisturbedHistory
    OBVIOUS
  <2>1. DOMAIN db.runs = DOMAIN origins
    <3>1. /\ db.runs \in Seq(Rows) /\ Len(origins) = Len(db.runs)
          /\ origins \in Seq(Verdicts)
      BY DEF TypeInv, TypeOK, DbType, SoundInv, OriginsSound
    <3> QED
      BY <3>1
  <2> QED
    BY <2>1 DEF UndisturbedInv, AllSound, AllStored, UndisturbedHistory
<1> QED
  BY <1>3, <1>4, PTL
=============================================================================
