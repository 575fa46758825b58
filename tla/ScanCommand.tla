---------------------------- MODULE ScanCommand ----------------------------
(***************************************************************************)
(* _run_single_target (src/src/ersec/ersec_core.py) from the scanner's     *)
(* answer to the exit code: what one command persists about a target, in   *)
(* which order, and what is left when it dies half way.  Commands follow   *)
(* each other on the same baseline file, SQLite database and report file,  *)
(* or run side by side on them.                                            *)
(*                                                                         *)
(* A finding is its identity: canonical_finding_id in the database,        *)
(* diff_key in the baseline.  SQLite lets one connection write at a time;  *)
(* a second one waits for its busy timeout and then fails.                 *)
(***************************************************************************)
EXTENDS Naturals, Sequences, FiniteSets

CONSTANTS
  Ids,            \* identities of findings
  Runs,           \* commands
  BaselineGiven,  \* --baseline, with --no-update-baseline off
  HistoryGiven,   \* --history-db
  FailOn          \* --fail-on is set and every finding qualifies

ASSUME CommandAssumption == {BaselineGiven, HistoryGiven, FailOn} \subseteq BOOLEAN

VARIABLES
  pc,        \* run -> where its command is
  scan,      \* run -> scan_status and the findings of results
  baseline,  \* the baseline file
  rows,      \* table exposure_history: finding -> status
  writer,    \* the connection that holds the write lock
  snapshot,  \* run -> what its SELECT returned (existing)
  history,   \* the committed scans, in order (exposure_history has no such list)
  recorded,  \* table scan_findings: the runs in it
  report,    \* the run whose report is in the output file
  exit,      \* run -> exit code
  overlapped \* history: a command was started while another was running

persistent == <<baseline, rows, writer, history, recorded, report>>
vars == <<pc, scan, persistent, snapshot, exit, overlapped>>

NoRun == "none"
NoScan == [status |-> "none", findings |-> {}]
NoFile == [state |-> "missing", ids |-> {}]
Blank == [c \in Ids |-> "absent"]
Open == {"new", "persistent", "reintroduced"}
Over == {"idle", "exited", "died"}

Init ==
  /\ pc = [r \in Runs |-> "idle"]
  /\ scan = [r \in Runs |-> NoScan]
  /\ baseline = NoFile
  /\ rows = Blank
  /\ writer = NoRun
  /\ snapshot = [r \in Runs |-> Blank]
  /\ history = << >>
  /\ recorded = {}
  /\ report = NoRun
  /\ exit = [r \in Runs |-> "none"]
  /\ overlapped = FALSE

Goto(r, where) == pc' = [pc EXCEPT ![r] = where]

\* The process ends, and with it what it held in memory.
End(r, how) ==
  /\ Goto(r, how)
  /\ scan' = [scan EXCEPT ![r] = NoScan]
  /\ snapshot' = [snapshot EXCEPT ![r] = Blank]

Exit(r, code) == End(r, "exited") /\ exit' = [exit EXCEPT ![r] = code]

\* The statement that follows the baseline block, and the one after the history.
AfterBaseline == IF HistoryGiven THEN "select" ELSE "publish"

-----------------------------------------------------------------------------
\* The scan is over.  Only a scan that reached its target goes on.
Scanned(r, status, found) ==
  /\ pc[r] = "idle"
  /\ overlapped' = IF \E q \in Runs : pc[q] \notin Over THEN TRUE ELSE overlapped
  /\ IF status \in {"unreachable", "error"}
     THEN Exit(r, "2")
     ELSE /\ scan' = [scan EXCEPT ![r] = [status |-> status, findings |-> found]]
          /\ Goto(r, IF BaselineGiven THEN "baseline" ELSE AfterBaseline)
          /\ UNCHANGED <<snapshot, exit>>
  /\ UNCHANGED <<persistent>>

\* diff_against_baseline only reads; save_baseline opens the file for writing,
\* which empties it ...
OpenBaseline(r) ==
  /\ pc[r] = "baseline"
  /\ baseline' = [state |-> "torn", ids |-> {}]
  /\ Goto(r, "save")
  /\ UNCHANGED <<scan, rows, writer, snapshot, history, recorded, report, exit, overlapped>>

\* ... and fills it.  Written over what another command has written since, the
\* rest of a longer text stays behind.
SaveBaseline(r) ==
  /\ pc[r] = "save"
  /\ \/ baseline' = [state |-> "saved", ids |-> scan[r].findings]
     \/ baseline.state = "saved" /\ baseline' = [state |-> "torn", ids |-> {}]
  /\ Goto(r, AfterBaseline)
  /\ UNCHANGED <<scan, rows, writer, snapshot, history, recorded, report, exit, overlapped>>

-----------------------------------------------------------------------------
ReadHistory(r) ==
  /\ pc[r] = "select"
  /\ snapshot' = [snapshot EXCEPT ![r] = rows]
  /\ Goto(r, "change")
  /\ UNCHANGED <<scan, persistent, exit, overlapped>>

\* The status a scan gives what it found, from what it read.
Found(before) ==
  CASE before = "absent" -> "new"
    [] before = "resolved" -> "reintroduced"
    [] before \in Open -> "persistent"

Missed(r) == {c \in Ids \ scan[r].findings : snapshot[r][c] \in Open}

\* The exposure status its report and its rows give each finding.
Claim(r) == [c \in Ids |-> IF c \in scan[r].findings THEN Found(snapshot[r][c])
                           ELSE IF c \in Missed(r) THEN "resolved" ELSE "absent"]

\* Rows are changed inside one transaction; without a row to change the
\* connection never asks for the lock.
ChangeHistory(r) ==
  /\ pc[r] = "change"
  /\ IF scan[r].findings \union Missed(r) = {}
     THEN UNCHANGED writer
     ELSE writer = NoRun /\ writer' = r
  /\ Goto(r, "commit")
  /\ UNCHANGED <<scan, baseline, rows, snapshot, history, recorded, report, exit, overlapped>>

\* "database is locked": OperationalError, which nothing catches.
Locked(r) ==
  /\ \/ pc[r] = "change" /\ scan[r].findings \union Missed(r) # {}
     \/ pc[r] = "record" /\ scan[r].findings # {}
  /\ writer \notin {NoRun, r}
  /\ End(r, "died")
  /\ UNCHANGED <<persistent, exit, overlapped>>

\* Faulty variants (<definition>_<fault>) stand before the definition they
\* distort: the runs must tell them from the code.
CommitHistory_KeepsLock(r) ==
  /\ pc[r] = "commit"
  /\ rows' = [c \in Ids |-> IF c \in scan[r].findings \union Missed(r)
                            THEN Claim(r)[c] ELSE rows[c]]
  /\ history' = Append(history, scan[r].findings)
  /\ Goto(r, "record")
  /\ UNCHANGED <<scan, baseline, writer, snapshot, recorded, report, exit, overlapped>>

CommitHistory_KeepsMissed(r) ==
  /\ pc[r] = "commit"
  /\ rows' = [c \in Ids |-> IF c \in scan[r].findings THEN Claim(r)[c] ELSE rows[c]]
  /\ history' = Append(history, scan[r].findings)
  /\ writer' = IF writer = r THEN NoRun ELSE writer
  /\ Goto(r, "record")
  /\ UNCHANGED <<scan, baseline, snapshot, recorded, report, exit, overlapped>>

CommitHistory_ResolvesAll(r) ==
  /\ pc[r] = "commit"
  /\ rows' = [c \in Ids |-> IF snapshot[r][c] \in Open THEN "resolved"
                            ELSE IF c \in scan[r].findings THEN Claim(r)[c] ELSE rows[c]]
  /\ history' = Append(history, scan[r].findings)
  /\ writer' = IF writer = r THEN NoRun ELSE writer
  /\ Goto(r, "record")
  /\ UNCHANGED <<scan, baseline, snapshot, recorded, report, exit, overlapped>>

CommitHistory(r) ==
  /\ pc[r] = "commit"
  /\ rows' = [c \in Ids |-> IF c \in scan[r].findings \union Missed(r)
                            THEN Claim(r)[c] ELSE rows[c]]
  /\ history' = Append(history, scan[r].findings)
  /\ writer' = IF writer = r THEN NoRun ELSE writer
  /\ Goto(r, "record")
  /\ UNCHANGED <<scan, baseline, snapshot, recorded, report, exit, overlapped>>

\* record_scan_history: a transaction of its own.
RecordScan(r) ==
  /\ pc[r] = "record"
  /\ scan[r].findings # {} => writer = NoRun
  /\ recorded' = recorded \union {r}
  /\ Goto(r, "publish")
  /\ UNCHANGED <<scan, baseline, rows, writer, snapshot, history, report, exit, overlapped>>

-----------------------------------------------------------------------------
Publish_IgnoresFailure(r, written) ==
  /\ pc[r] = "publish"
  /\ report' = IF written THEN r ELSE report
  /\ Exit(r, IF scan[r].status = "incomplete" THEN "1"
             ELSE IF FailOn /\ scan[r].findings # {} THEN "1" ELSE "0")
  /\ UNCHANGED <<baseline, rows, writer, history, recorded, overlapped>>

\* After the console report, AtomicReportWriter replaces the file or leaves it;
\* then the exit code.
Publish(r, written) ==
  /\ pc[r] = "publish"
  /\ report' = IF written THEN r ELSE report
  /\ Exit(r, IF ~ written \/ scan[r].status = "incomplete" THEN "1"
             ELSE IF FailOn /\ scan[r].findings # {} THEN "1" ELSE "0")
  /\ UNCHANGED <<baseline, rows, writer, history, recorded, overlapped>>

\* The process is killed, or any statement raises: SQLite rolls back.
Die(r) ==
  /\ pc[r] \notin Over
  /\ writer' = IF writer = r THEN NoRun ELSE writer
  /\ End(r, "died")
  /\ UNCHANGED <<baseline, rows, history, recorded, report, exit, overlapped>>

Step(r) ==
  \/ OpenBaseline(r) \/ SaveBaseline(r)
  \/ ReadHistory(r) \/ ChangeHistory(r) \/ Locked(r) \/ CommitHistory(r) \/ RecordScan(r)
  \/ \E written \in BOOLEAN : Publish(r, written)

ScanStatuses == {"completed", "incomplete", "unreachable", "error"}

Finished == (\A r \in Runs : pc[r] \in Over \ {"idle"}) /\ UNCHANGED vars

Next ==
  \/ \E r \in Runs :
       \/ \E status \in ScanStatuses, found \in SUBSET Ids : Scanned(r, status, found)
       \/ Step(r) \/ Die(r)
  \/ Finished

\* A command that is running goes on; nobody has to start one, or to kill it.
Spec == Init /\ [][Next]_vars /\ \A r \in Runs : WF_vars(Step(r))

-----------------------------------------------------------------------------
Phases == Over \union {"baseline", "save", "select", "change", "commit", "record", "publish"}
RowStatuses == Open \union {"absent", "resolved"}

TypeOK ==
  /\ pc \in [Runs -> Phases]
  /\ scan \in [Runs -> [status : ScanStatuses \union {"none"}, findings : SUBSET Ids]]
  /\ baseline \in [state : {"missing", "torn", "saved"}, ids : SUBSET Ids]
  /\ rows \in [Ids -> RowStatuses]
  /\ writer \in Runs \union {NoRun}
  /\ snapshot \in [Runs -> [Ids -> RowStatuses]]
  /\ history \in Seq(SUBSET Ids)
  /\ recorded \subseteq Runs
  /\ report \in Runs \union {NoRun}
  /\ exit \in [Runs -> {"none", "0", "1", "2"}]
  /\ overlapped \in BOOLEAN

\* The status a finding has after these scans: what the committed scans
\* themselves say, with no database in it.
SeenIn(scans, c) == {i \in 1..Len(scans) : c \in scans[i]}

StatusAfter(scans, c) ==
  LET n == Len(scans)
      seen == SeenIn(scans, c)
  IN CASE seen = {} -> "absent"
       [] n \in seen /\ seen = {n} -> "new"
       [] n \in seen /\ n - 1 \in seen -> "persistent"
       [] n \in seen /\ seen # {n} /\ n - 1 \notin seen -> "reintroduced"
       [] seen # {} /\ n \notin seen -> "resolved"

\* As long as no two commands overlapped, whatever died wherever: the exposure
\* table is the history of the committed scans, first seen, kept, gone and back
\* again.
RowsFollowScans == ~ overlapped => \A c \in Ids : rows[c] = StatusAfter(history, c)

\* Also when commands overlap on stale snapshots: what the scan that committed
\* last found is open, and whatever a committed scan found has a row.
LastScanIsOpen ==
  history # << >> =>
    \A c \in Ids : /\ c \in history[Len(history)] => rows[c] \in Open
                   /\ rows[c] = "absent" => \A i \in 1..Len(history) : c \notin history[i]

\* Exit code 0 is what CI takes for a pass: at that moment the scan is complete,
\* its changes are in both tables, its report is in the file, and
\* the baseline is its own unless another command wrote there meanwhile.
PassIsBacked ==
  [][\A r \in Runs : exit[r] # "0" /\ exit'[r] = "0" =>
       /\ scan[r].status = "completed"
       /\ report' = r
       /\ HistoryGiven => r \in recorded
       /\ BaselineGiven /\ ~ overlapped =>
            baseline = [state |-> "saved", ids |-> scan[r].findings]
       /\ FailOn => scan[r].findings = {}]_vars

\* Every command that reached its target comes to an end, also when the
\* database is locked.
CommandsEnd == <>[](\A r \in Runs : pc[r] \in Over)

\* "what's genuinely NEW, what RESOLVED" (ersec_core.py, exposure history): a
\* finding is called resolved by a complete scan that did not find it.
\* Violated: an incomplete scan resolves whatever it did not get to.
ResolvedByCompleteScan ==
  \A r \in Runs :
    pc[r] = "publish" /\ HistoryGiven /\ (\E c \in Ids : Claim(r)[c] = "resolved") =>
      scan[r].status = "completed"
=============================================================================
