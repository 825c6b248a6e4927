------------------------------- MODULE HistoryDB -------------------------------
(***************************************************************************)
(* The SQLite history of test runs (reports/history_db.py) as a value: the *)
(* tables that exist, the rows of test_runs and the rows of test_results.  *)
(* Rows are only ever appended and ids are AUTOINCREMENT, so the id of a   *)
(* run is its position.  SQLite does not enforce the foreign key of        *)
(* test_results, as the code leaves that pragma off.                       *)
(*                                                                         *)
(* Every operation of the class swallows its exceptions; that it may fail  *)
(* is the caller's choice between an operator here and its default answer. *)
(***************************************************************************)
EXTENDS Integers, Sequences, Functions

Tables   == {"test_runs", "test_results"}
EmptyDB  == [tables |-> {}, runs |-> <<>>, results |-> <<>>]
NoRunId  == -1   \* insert_test_run's answer when it fails

\* CREATE TABLE IF NOT EXISTS commits by itself: a failure may leave one table.
Created == {{}, {"test_runs"}, Tables}
init_db(db, created) == [db EXCEPT !.tables = @ \cup created]

insert_test_run(db, row) == [db EXCEPT !.runs = Append(@, row)]
LastRowId(db)            == Len(db.runs)

insert_test_result(db, id, name, status) ==
  [db EXCEPT !.results = Append(@, [run_id |-> id, name |-> name, status |-> status])]

\* Mutant: ascending order, so that the limit cuts off the newest runs.
get_oldest_runs(db, limit) ==
  [k \in 1..(IF limit < Len(db.runs) THEN limit ELSE Len(db.runs)) |-> k]

\* SELECT * FROM test_runs ORDER BY id DESC LIMIT limit, as ids.
get_recent_runs(db, limit) ==
  LET n == Len(db.runs)
  IN  [k \in 1..(IF limit < n THEN limit ELSE n) |-> n + 1 - k]

\* Mutant: the results of all runs.
get_all_results(db, id) == DOMAIN db.results

get_run_results(db, id) == {i \in DOMAIN db.results : db.results[i].run_id = id}

SumOf(db, column) == FoldFunction(+, 0, [i \in DOMAIN db.runs |-> db.runs[i][column]])

\* The rate is a fraction; a history without tests counts as 100%.
get_dashboard_metrics(db) ==
  LET total  == SumOf(db, "total")
      passed == SumOf(db, "passed")
  IN  [total_runs   |-> Len(db.runs),
       total_tests  |-> total,
       passed_tests |-> passed,
       failed_tests |-> SumOf(db, "failed"),
       success_rate |-> IF total > 0 THEN <<passed, total>> ELSE <<1, 1>>]
=============================================================================
