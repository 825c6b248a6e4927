----------------------------- MODULE ValidationRun -----------------------------
(***************************************************************************)
(* Validation runs one after the other: the pipeline scripts/run_all.py,   *)
(* which trains the anomaly model, lets pytest run the suite and looks for *)
(* the reports, and bare pytest, which does only the middle part.  The     *)
(* session fixture of tests/conftest.py counts the tests, has the console  *)
(* log judged by ml_engine/anomaly_detector.py, stores the run through     *)
(* reports/history_db.py and writes both reports through                   *)
(* reports/report_generator.py.                                            *)
(*                                                                         *)
(* What outlives a run is on disk: the database, the pair of model files,  *)
(* the chart and the reports.  Any step may fail and the process may die   *)
(* anywhere; each file is truncated first and written then.                *)
(***************************************************************************)
EXTENDS HistoryDB, FiniteSets

CONSTANTS
  Tests,        \* names of the test cases
  ReportLimit,  \* recent runs a report is looked up in (100 in the code)
  MaxRuns,      \* bound: runs started
  MaxFaults     \* bound: steps that fail and processes that die

ASSUME TestAssumption  == IsFiniteSet(Tests)
ASSUME LimitAssumption == ReportLimit \in Nat \ {0}
ASSUME BoundAssumption == MaxRuns \in Nat /\ MaxFaults \in Nat

Kinds   == {"pipeline", "pytest"}
Absent  == 0     \* a file that does not exist
Partial == -1    \* a file truncated and not written
Shipped == -2    \* a pickle of the training that the repository comes with

VARIABLES
  db,                 \* reports/test_history.db
  model, vectorizer,  \* the pickles: Absent, Partial, Shipped or of a run's training
  chart,              \* anomaly_profile.png: Absent or the run that drew it
  json, html,         \* the reports: empty, partial or a document
  pc, kind,           \* where the run is
  serial,             \* runs started so far
  loaded,             \* the detector's model and vectorizer
  session,            \* session_data
  status,             \* TEST_METRICS: what became of each test
  todo,               \* metrics still to be stored
  anomalies,          \* anomaly_count
  runId,              \* run_id
  doc,                \* the report about to be written
  said,               \* what run_all printed last
  origins,            \* history: where each stored run came from
  clean, faults       \* history: no step of this run failed; faults so far

diskVars    == <<db, model, vectorizer, chart, json, html>>
sessionVars == <<session, status, todo, loaded, anomalies, runId, doc>>
vars == <<diskVars, sessionVars, pc, kind, serial, said, origins, clean, faults>>

Untested == [t \in Tests |-> "none"]
NoCount  == [total |-> 0, passed |-> 0, failed |-> 0]
Unloaded == [model |-> Absent, vectorizer |-> Absent]
NoDoc    == [run |-> Absent]
HalfDoc  == [run |-> Partial]

\* The repository comes with both pickles and a database without rows; both may have
\* been removed.
Init ==
  /\ db \in {EmptyDB, init_db(EmptyDB, Tables)}
  /\ model \in {Absent, Shipped} /\ vectorizer = model /\ chart = Absent
  /\ json = NoDoc /\ html = NoDoc
  /\ pc = "idle" /\ kind = "pytest" /\ serial = 0
  /\ session = NoCount /\ status = Untested /\ todo = {}
  /\ loaded = Unloaded /\ anomalies = 0 /\ runId = NoRunId /\ doc = NoDoc
  /\ said = "nothing" /\ origins = <<>> /\ clean = TRUE /\ faults = 0

\* A step that works, or one that fails within the bound.
Works == UNCHANGED <<clean, faults>>
Fails == faults < MaxFaults /\ faults' = faults + 1 /\ clean' = FALSE

Goto(from, to) == pc = from /\ pc' = to

-----------------------------------------------------------------------------
(* The anomaly model.                                                      *)

\* Mutant: weights that exist are not trained again.
LaunchReusing(k) ==
  /\ Goto("idle", IF k = "pipeline" /\ (model = Absent \/ vectorizer = Absent)
                  THEN "openModel" ELSE "session")
  /\ serial < MaxRuns
  /\ serial' = serial + 1
  /\ kind' = k /\ clean' = TRUE /\ said' = "nothing"
  /\ runId' = NoRunId /\ status' = Untested /\ session' = NoCount /\ loaded' = Unloaded
  /\ UNCHANGED <<diskVars, todo, anomalies, doc, origins, faults>>

\* run_all builds, which decides only which emulator is used, and trains; pytest
\* starts with the session.
Launch(k) ==
  /\ Goto("idle", IF k = "pipeline" THEN "openModel" ELSE "session")
  /\ serial < MaxRuns
  /\ serial' = serial + 1
  /\ kind' = k /\ clean' = TRUE /\ said' = "nothing"
  /\ runId' = NoRunId /\ status' = Untested /\ session' = NoCount /\ loaded' = Unloaded
  /\ UNCHANGED <<diskVars, todo, anomalies, doc, origins, faults>>

\* train() opens each file, which truncates it, and dumps the pickle.  A process
\* trains at most once, so its serial names the training.
TrainStep(from, to, m, v) ==
  /\ Goto(from, to)
  /\ model' = m /\ vectorizer' = v
  /\ Works
  /\ UNCHANGED <<db, chart, json, html, sessionVars, kind, serial, said, origins>>

\* A detector that trains has tests behind it, the pipeline has them before it.
AfterTraining == IF kind = "pipeline" THEN "session" ELSE "load"

Train == \/ TrainStep("openModel", "dumpModel", Partial, vectorizer)
         \/ TrainStep("dumpModel", "openVectorizer", serial, vectorizer)
         \/ TrainStep("openVectorizer", "dumpVectorizer", model, Partial)
         \/ TrainStep("dumpVectorizer", AfterTraining, model, serial)

\* LogAnomalyDetector() trains when a file is missing.
StartDetector ==
  /\ Goto("detect", IF model = Absent \/ vectorizer = Absent THEN "openModel" ELSE "load")
  /\ Works
  /\ UNCHANGED <<diskVars, sessionVars, kind, serial, said, origins>>

\* Mutant: a pickle cut off is taken for a model.
LoadModelUnchecked ==
  /\ Goto("load", "analyze")
  /\ loaded' = [model |-> model, vectorizer |-> vectorizer]
  /\ Works
  /\ UNCHANGED <<diskVars, session, status, todo, anomalies, runId, doc, kind, serial,
                 said, origins>>

\* load_model: a pickle cut off raises, and so may the opening and the loading of a
\* whole one.  What comes after is not loaded, and the error is only logged.
LoadModel ==
  /\ Goto("load", "analyze")
  /\ \/ /\ loaded' = IF model = Partial THEN Unloaded
                     ELSE [model      |-> model,
                           vectorizer |-> IF vectorizer = Partial THEN Absent ELSE vectorizer]
        /\ Works
     \/ /\ loaded' \in {[model |-> m, vectorizer |-> Absent] : m \in {Absent, model} \ {Partial}}
        /\ Fails
  /\ UNCHANGED <<diskVars, session, status, todo, anomalies, runId, doc, kind, serial,
                 said, origins>>

Operative == loaded.model # Absent /\ loaded.vectorizer # Absent
Verdict   == IF ~Operative THEN "off"
             ELSE IF loaded.model = loaded.vectorizer THEN "sound" ELSE "mixed"

\* analyze_log_file: without both parts no line is an anomaly, and a failure only ends the
\* count early or takes a line for a normal one.  A log with lines is plotted; without
\* lines, or after a failure, the chart of an earlier run stays.
Analyze ==
  /\ Goto("analyze", "insertRun")
  /\ anomalies' \in IF Operative THEN 0..1 ELSE {0}
  /\ chart' \in {chart, serial}
  /\ Works \/ Fails
  /\ UNCHANGED <<db, model, vectorizer, json, html, session, status, todo, loaded, runId,
                 doc, kind, serial, said, origins>>

-----------------------------------------------------------------------------
(* The session: tests, results and reports.                                *)

\* TestHistoryDB() may leave a table out; the error is only logged.
StartSession ==
  /\ Goto("session", "tests")
  /\ \E created \in Created :
       /\ db' = init_db(db, created)
       /\ IF created = Tables THEN Works ELSE Fails
  /\ UNCHANGED <<model, vectorizer, chart, json, html, sessionVars, kind, serial, said,
                 origins>>

\* Mutant: a test is counted before its client is connected.
RunTestCountedFirst(t) ==
  /\ pc = "tests" /\ status[t] = "none"
  /\ \E outcome \in {"PASSED", "FAILED", "unconnected"} :
       /\ status' = [status EXCEPT ![t] = outcome]
       /\ session' = [total  |-> session.total + 1,
                      passed |-> session.passed + (IF outcome = "PASSED" THEN 1 ELSE 0),
                      failed |-> session.failed + (IF outcome = "FAILED" THEN 1 ELSE 0)]
  /\ Works
  /\ UNCHANGED <<diskVars, todo, loaded, anomalies, runId, doc, pc, kind, serial, said,
                 origins>>

\* The device_client fixture around a test; a client that cannot connect fails the
\* test before anything is counted.  An interruption between the entry in TEST_METRICS
\* and the counters is left out.
RunTest(t) ==
  /\ pc = "tests" /\ status[t] = "none"
  /\ \/ /\ status' = [status EXCEPT ![t] = "PASSED"]
        /\ session' = [session EXCEPT !.total = @ + 1, !.passed = @ + 1]
     \/ /\ status' = [status EXCEPT ![t] = "FAILED"]
        /\ session' = [session EXCEPT !.total = @ + 1, !.failed = @ + 1]
     \/ /\ status' = [status EXCEPT ![t] = "unconnected"]
        /\ UNCHANGED session
  /\ Works
  /\ UNCHANGED <<diskVars, todo, loaded, anomalies, runId, doc, pc, kind, serial, said,
                 origins>>

\* Mutant: the results of tests that failed are not kept.
EndTestsPassedOnly ==
  /\ Goto("tests", "detect")
  /\ todo' = {t \in Tests : status[t] = "PASSED"}
  /\ Works
  /\ UNCHANGED <<diskVars, session, status, loaded, anomalies, runId, doc, kind, serial,
                 said, origins>>

\* All tests have run, or the session was interrupted.
EndTests ==
  /\ Goto("tests", "detect")
  /\ todo' = {t \in Tests : status[t] \in {"PASSED", "FAILED"}}
  /\ Works
  /\ UNCHANGED <<diskVars, session, status, loaded, anomalies, runId, doc, kind, serial,
                 said, origins>>

Row == [total |-> session.total, passed |-> session.passed, failed |-> session.failed,
        anomalies |-> anomalies]

Origin == [serial |-> serial, kind |-> kind, verdict |-> Verdict, clean |-> clean]

\* Mutant: a failed insert answers the last id.
InsertRunLastId ==
  /\ Goto("insertRun", "results")
  /\ \/ /\ "test_runs" \in db.tables
        /\ db' = insert_test_run(db, Row)
        /\ origins' = Append(origins, Origin)
        /\ Works
     \/ /\ UNCHANGED <<db, origins>>
        /\ Fails
  /\ runId' = LastRowId(db')
  /\ UNCHANGED <<model, vectorizer, chart, json, html, session, status, todo, loaded,
                 anomalies, doc, kind, serial, said>>

\* The insert works and gives the new id, or fails and gives -1.
InsertRun ==
  /\ Goto("insertRun", "results")
  /\ \/ /\ "test_runs" \in db.tables
        /\ db' = insert_test_run(db, Row)
        /\ runId' = LastRowId(db')
        /\ origins' = Append(origins, Origin)
        /\ Works
     \/ /\ runId' = NoRunId
        /\ UNCHANGED <<db, origins>>
        /\ Fails
  /\ UNCHANGED <<model, vectorizer, chart, json, html, session, status, todo, loaded,
                 anomalies, doc, kind, serial, said>>

\* Each result is stored under whatever id the run got; failures are only logged.
InsertResult(t) ==
  /\ pc = "results" /\ t \in todo
  /\ todo' = todo \ {t}
  /\ \/ /\ "test_results" \in db.tables
        /\ db' = insert_test_result(db, runId, t, status[t])
        /\ Works
     \/ /\ UNCHANGED db
        /\ Fails
  /\ UNCHANGED <<model, vectorizer, chart, json, html, session, status, loaded, anomalies,
                 runId, doc, pc, kind, serial, said, origins>>

\* ReportGenerator() opens the history once more, as StartSession does.
EndResults ==
  /\ Goto("results", "openJson")
  /\ todo = {}
  /\ \E created \in Created :
       /\ db' = init_db(db, created)
       /\ IF created = Tables THEN Works ELSE Fails
  /\ UNCHANGED <<model, vectorizer, chart, json, html, sessionVars, kind, serial, said,
                 origins>>

Listed(id) == \E k \in DOMAIN get_recent_runs(db, ReportLimit) :
                 get_recent_runs(db, ReportLimit)[k] = id

\* What a report says of a run; its results may have failed to be read.
Document(id, rows) == [run |-> id, summary |-> db.runs[id], tests |-> rows, chart |-> chart]

\* A report is composed and its file opened when the run is found among the recent
\* ones; otherwise the old file stays.
Open(from, to, skip, file) ==
  /\ pc = from
  /\ \/ /\ Listed(runId)
        /\ pc' = to /\ file' = HalfDoc
        /\ \/ doc' = Document(runId, get_run_results(db, runId)) /\ Works
           \/ doc' = Document(runId, {}) /\ Fails
     \/ /\ pc' = skip /\ UNCHANGED <<file, doc>>
        /\ \/ ~Listed(runId) /\ Works
           \/ Fails

\* Writing may fail, which leaves the file as it is.
Write(from, to, file) ==
  /\ Goto(from, to)
  /\ \/ file' = doc /\ Works
     \/ UNCHANGED file /\ Fails
  /\ doc' = NoDoc

otherVars == <<db, model, vectorizer, chart, session, status, todo, loaded, anomalies,
               runId, kind, serial, said, origins>>

generate_json_report ==
  /\ Open("openJson", "writeJson", "openHtml", json) \/ Write("writeJson", "openHtml", json)
  /\ UNCHANGED <<html, otherVars>>

AfterSession == IF kind = "pipeline" THEN "summary" ELSE "idle"

generate_html_report ==
  /\ \/ Open("openHtml", "writeHtml", AfterSession, html)
     \/ Write("writeHtml", AfterSession, html)
  /\ UNCHANGED <<json, otherVars>>

\* run_all looks whether the files exist; it ignores pytest's exit code.
Summarise ==
  /\ Goto("summary", "idle")
  /\ said' = IF json # NoDoc /\ html # NoDoc THEN "success" ELSE "warning"
  /\ Works
  /\ UNCHANGED <<diskVars, sessionVars, kind, serial, origins>>

-----------------------------------------------------------------------------
(* Failures.                                                               *)

\* The pytest process dies or its fixture raises; run_all goes on to its summary.
SessionDies ==
  /\ pc \notin {"idle", "summary"}
  /\ ~(kind = "pipeline" /\ pc \in {"openModel", "dumpModel", "openVectorizer", "dumpVectorizer"})
  /\ pc' = AfterSession
  /\ todo' = {} /\ doc' = NoDoc
  /\ Fails
  /\ UNCHANGED <<diskVars, session, status, loaded, anomalies, runId, kind, serial, said,
                 origins>>

\* All of it is killed, or training raises in the pipeline.
Killed ==
  /\ pc # "idle"
  /\ pc' = "idle"
  /\ todo' = {} /\ doc' = NoDoc
  /\ Fails
  /\ UNCHANGED <<diskVars, session, status, loaded, anomalies, runId, kind, serial, said,
                 origins>>

-----------------------------------------------------------------------------
Session == \/ StartSession
           \/ \E t \in Tests : RunTest(t) \/ InsertResult(t)
           \/ EndTests \/ StartDetector \/ LoadModel \/ Analyze
           \/ InsertRun \/ EndResults
           \/ generate_json_report \/ generate_html_report

Next == \/ \E k \in Kinds : Launch(k)
        \/ Train
        \/ Session
        \/ Summarise
        \/ SessionDies \/ Killed

Spec == Init /\ [][Next]_vars

-----------------------------------------------------------------------------
Counts    == 0..Cardinality(Tests)
Rows      == [total : Counts, passed : Counts, failed : Counts, anomalies : 0..1]
Serials   == 1..MaxRuns
WholeFile == {Absent, Shipped} \cup Serials
FileOf    == {Partial} \cup WholeFile
Verdicts  == [serial : Serials, kind : Kinds, verdict : {"off", "mixed", "sound"},
              clean : BOOLEAN]
Documents == {NoDoc, HalfDoc} \cup
             [run : Nat, summary : Rows, tests : SUBSET Nat, chart : {Absent} \cup Serials]
Places    == {"idle", "openModel", "dumpModel", "openVectorizer", "dumpVectorizer",
              "session", "tests", "detect", "load", "analyze", "insertRun", "results",
              "openJson", "writeJson", "openHtml", "writeHtml", "summary"}

\* Ids, counters and files keep their types; the detector holds whole pickles only
\* (conftest.py, history_db.py, anomaly_detector.py).
TypeOK ==
  /\ db.tables \in Created
  /\ db.runs \in Seq(Rows)
  /\ db.results \in Seq([run_id : Int, name : Tests, status : {"PASSED", "FAILED"}])
  /\ model \in FileOf /\ vectorizer \in FileOf /\ chart \in {Absent} \cup Serials
  /\ json \in Documents /\ html \in Documents /\ doc \in Documents
  /\ pc \in Places /\ kind \in Kinds /\ serial \in 0..MaxRuns
  /\ loaded \in [model : WholeFile, vectorizer : WholeFile]
  /\ session \in [total : Counts, passed : Counts, failed : Counts]
  /\ status \in [Tests -> {"none", "PASSED", "FAILED", "unconnected"}]
  /\ todo \in SUBSET Tests /\ anomalies \in 0..1
  /\ runId \in {NoRunId} \cup DOMAIN db.runs
  /\ said \in {"nothing", "success", "warning"}
  /\ origins \in Seq(Verdicts)
  /\ clean \in BOOLEAN /\ faults \in 0..MaxFaults

\* The results stored for a run, and those of one outcome.
RowsOf(id)      == {i \in DOMAIN db.results : db.results[i].run_id = id}
RowsWith(id, s) == {i \in RowsOf(id) : db.results[i].status = s}

\* Whatever fails on the way, the two tables agree: a stored run counts each of its
\* tests once, as passed or as failed, its results are of different tests and never
\* more than it counts, and other results are stored under -1 only (conftest.py,
\* insert_test_run, insert_test_result).
ResultsWithinRun ==
  /\ \A i \in DOMAIN db.results : db.results[i].run_id \in {NoRunId} \cup DOMAIN db.runs
  /\ \A id \in DOMAIN db.runs :
       /\ db.runs[id].passed + db.runs[id].failed = db.runs[id].total
       /\ Cardinality(RowsWith(id, "PASSED")) <= db.runs[id].passed
       /\ Cardinality(RowsWith(id, "FAILED")) <= db.runs[id].failed
       /\ \A i, j \in RowsOf(id) : db.results[i].name = db.results[j].name => i = j

Complete(d) == d \notin {NoDoc, HalfDoc}

\* A report that is whole describes a run that is stored, with its numbers and with
\* results of that run only, also long after a later run failed
\* (report_generator.py).
ReportsDescribeStoredRuns ==
  \A d \in {json, html} :
     Complete(d) => /\ d.run \in DOMAIN db.runs
                    /\ d.summary = db.runs[d.run]
                    /\ d.tests \subseteq RowsOf(d.run)

\* The success that run_all prints can be relied on when no step of its run failed:
\* both reports are then of this run and list every test it counted (run_all.py).
CleanSuccessIsFresh ==
  said = "success" /\ clean =>
     \A d \in {json, html} : /\ Complete(d)
                             /\ d.run = runId /\ origins[d.run].serial = serial
                             /\ Cardinality(d.tests) = d.summary.total

\* run_all.py:50-52 prints "SUCCESS: Automated validation run completed." and where each
\* report was generated: whatever failed, both reports would be whole and of this run
\* (run_all.py, main).
SuccessMeansReported ==
  said = "success" =>
     \A d \in {json, html} : Complete(d) /\ d.run = runId /\ origins[d.run].serial = serial

\* A run of the pipeline never counts anomalies with a model and a vectorizer of two
\* trainings, even if earlier trainings were cut off anywhere, and it counts with both
\* unless a step of this very run has failed, as when load_model could not read them
\* (run_all.py, trainer.py, load_model).  A bare pytest run may store the zero of a
\* detector that is off after an earlier failure, or count with a mixed pair.
PipelineVerdictsSound ==
  \A id \in DOMAIN db.runs :
     origins[id].kind = "pipeline" =>
        /\ origins[id].verdict # "mixed"
        /\ origins[id].clean => origins[id].verdict = "sound"

\* The figures of the dashboard add up and cover every result stored for a run
\* (get_dashboard_metrics).
MetricsCoverResults ==
  LET m == get_dashboard_metrics(db)
  IN  /\ m.passed_tests + m.failed_tests = m.total_tests
      /\ Cardinality({i \in DOMAIN db.results : db.results[i].run_id # NoRunId}) <= m.total_tests
      /\ m.success_rate[1] <= m.success_rate[2]

\* Tests whose results are still to be stored for a run.
StillStored(id) == IF pc = "results" /\ id = runId THEN todo ELSE {}

\* Only a fault loses anything: as long as no step of any run has failed, every run,
\* also of bare pytest, has been judged with a model and a vectorizer of one training
\* and has all its results, but for those of it still being stored (conftest.py,
\* anomaly_detector.py).
UndisturbedHistory ==
  faults = 0 =>
    \A id \in DOMAIN db.runs :
       /\ origins[id].verdict = "sound"
       /\ Cardinality(RowsOf(id)) + Cardinality(StillStored(id)) = db.runs[id].total
=============================================================================
