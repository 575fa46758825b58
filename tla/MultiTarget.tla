----------------------------- MODULE MultiTarget -----------------------------
(***************************************************************************)
(* --targets-file (src/src/ersec/ersec_core.py, main): the scan command    *)
(* for every target of a file, one after the other or in a pool of         *)
(* threads.  In the pool each thread captures its command's output by      *)
(* contextlib.redirect_stdout, which replaces sys.stdout, a variable of    *)
(* the whole process, and puts back on leaving what it found on entering.  *)
(*                                                                         *)
(* Of a command the model keeps the lines it prints, its report file,      *)
(* named after the host, and how it ends; ScanCommand has the rest.        *)
(***************************************************************************)
EXTENDS Naturals, FiniteSets, Functions

CONSTANTS
  N,           \* targets, in the order of the file
  Workers,     \* values of --max-workers to consider
  Files,       \* the target files to consider: target -> its host, or Invalid
  Invalid,     \* in place of a host
  MaxLines     \* lines the commands print between them (bound)

ASSUME MultiTargetAssumption == {N, MaxLines} \subseteq Nat /\ Workers \subseteq Nat \ {0}

Targets == 1..N
Console == 0
Streams == {Console} \union Targets   \* the console and the threads' buffers

VARIABLES
  host,      \* target -> its host, or Invalid
  workers,   \* --max-workers
  phase,     \* target -> where its command is
  main,      \* where main is: "running", "failing", "ended"
  stdout,    \* sys.stdout
  previous,  \* target -> the stream its redirect_stdout found
  printed,   \* target -> how many lines its command has printed
  shown,     \* stream -> the lines on it: whose they are, whose prefix they bear
  output,    \* target -> the lines main is handed as its output
  ended,     \* target -> how its command ended
  report,    \* host -> the target whose report is in its file, 0 for none
  worst,     \* worst_exit
  exit       \* exit code of the process, once main has ended

streams == <<stdout, previous, printed, shown, output>>
targetsVars == <<host, workers, phase, main, streams, ended, report, worst, exit>>

Pooled == workers > 1
Line(t, k, prefix) == [of |-> t, k |-> k, prefix |-> prefix]
Unprefixed == 0
Running == {t \in Targets : phase[t] \in {"inside", "leaving", "left"}}
Move(t, where) == phase' = [phase EXCEPT ![t] = where]
Show(lines) == shown' = [shown EXCEPT ![stdout] = @ \union lines]
ExitCode == [pass |-> 0, findings |-> 1, unwritten |-> 1, failure |-> 2, interrupted |-> 130]
Bigger(a, b) == IF a >= b THEN a ELSE b

TargetsInit ==
  /\ host \in Files
  /\ workers \in Workers
  /\ phase = [t \in Targets |-> "queued"]
  /\ main = "running"
  /\ stdout = Console
  /\ previous = [t \in Targets |-> Console]
  /\ printed = [t \in Targets |-> 0]
  /\ shown = [s \in Streams |-> {}]
  /\ output = [t \in Targets |-> {}]
  /\ ended = [t \in Targets |-> "not yet"]
  /\ report = [h \in {host[t] : t \in Targets} |-> 0]
  /\ worst = 0
  /\ exit = 0

-----------------------------------------------------------------------------
(* The commands, in threads of the pool or in main                         *)

\* The next target: a free thread takes it, or main, which has dealt with the
\* one before.
Enter(t) ==
  /\ phase[t] = "queued" /\ \A u \in 1..(t - 1) : phase[u] # "queued"
  /\ Cardinality(Running) < workers
  /\ Pooled \/ (main = "running" /\ \A u \in 1..(t - 1) : phase[u] = "collected")
  /\ Move(t, "inside")
  /\ IF Pooled
     THEN previous' = [previous EXCEPT ![t] = stdout] /\ stdout' = t
     ELSE UNCHANGED <<stdout, previous>>
  /\ UNCHANGED <<host, workers, main, printed, shown, output, ended, report, worst, exit>>

\* print() writes to whatever sys.stdout is.
PrintLine(t) ==
  /\ phase[t] = "inside" /\ FoldFunction(+, 0, printed) < MaxLines
  /\ printed' = [printed EXCEPT ![t] = @ + 1]
  /\ Show({Line(t, printed[t], Unprefixed)})
  /\ UNCHANGED <<host, workers, phase, main, stdout, previous, output, ended, report, worst, exit>>

\* Not valid, or the scan fails: no report.  A report that cannot be written
\* ends the command with 1, what it does not catch it raises: after the report
\* of some format was written, or before.  Ctrl-C reaches the main thread only.
Endings(t) ==
  IF host[t] = Invalid THEN {"failure"}
  ELSE {"pass", "findings", "unwritten", "failure", "raised"} \union
       (IF Pooled THEN {} ELSE {"interrupted"})
Reports == {"pass", "findings"}
MayReport == {"unwritten", "raised"}

End(t) ==
  /\ phase[t] = "inside"
  /\ \E how \in Endings(t) :
       /\ ended' = [ended EXCEPT ![t] = how]
       /\ \/ how \in Reports \union MayReport /\ report' = [report EXCEPT ![host[t]] = t]
          \/ how \notin Reports /\ UNCHANGED report
  /\ Move(t, "leaving")
  /\ UNCHANGED <<host, workers, main, streams, worst, exit>>

\* redirect_stdout.__exit__.
Leave(t) ==
  /\ phase[t] = "leaving"
  /\ IF Pooled
     THEN stdout' = previous[t] /\ previous' = [previous EXCEPT ![t] = Console]
     ELSE UNCHANGED <<stdout, previous>>
  /\ Move(t, "left")
  /\ UNCHANGED <<host, workers, main, printed, shown, output, ended, report, worst, exit>>

\* buf.getvalue(); the future is done.
Return(t) ==
  /\ phase[t] = "left"
  /\ output' = IF ended[t] = "raised" \/ ~Pooled THEN output ELSE [output EXCEPT ![t] = shown[t]]
  /\ Move(t, "done")
  /\ UNCHANGED <<host, workers, main, stdout, previous, printed, shown, ended, report, worst, exit>>

-----------------------------------------------------------------------------
(* main                                                                    *)

\* as_completed yields it, or the plain call has returned.  The result is
\* printed under the target's prefix; result() of one that raised raises.
\* (Faulty variants, <definition>_<fault>, stand before the definition they
\* distort: the runs must tell them from the code.)
Collect_Latest(t) ==
  /\ main = "running" /\ phase[t] = "done"
  /\ Move(t, "collected")
  /\ IF ended[t] = "raised"
     THEN main' = "failing" /\ UNCHANGED <<shown, worst>>
     ELSE /\ Show({[line EXCEPT !.prefix = t] : line \in output[t]})
          /\ worst' = ExitCode[ended[t]]
          /\ UNCHANGED main
  /\ UNCHANGED <<host, workers, stdout, previous, printed, output, ended, report, exit>>

Collect(t) ==
  /\ main = "running" /\ phase[t] = "done"
  /\ Move(t, "collected")
  /\ IF ended[t] = "raised"
     THEN main' = "failing" /\ UNCHANGED <<shown, worst>>
     ELSE /\ Show({[line EXCEPT !.prefix = t] : line \in output[t]})
          /\ worst' = Bigger(worst, ExitCode[ended[t]])
          /\ UNCHANGED main
  /\ UNCHANGED <<host, workers, stdout, previous, printed, output, ended, report, exit>>

\* Leaving the pool waits for every target, those still queued included;
\* without a pool the exception ends main at once.
Settled_Running == Running = {}
Settled_Collected == \A t \in Targets : phase[t] = "collected"
Settled == IF Pooled THEN \A t \in Targets : phase[t] \in {"done", "collected"} ELSE TRUE

Fail ==
  /\ main = "failing" /\ Settled
  /\ main' = "ended" /\ exit' = 1
  /\ UNCHANGED <<host, workers, phase, streams, ended, report, worst>>

Finished == \A t \in Targets : phase[t] = "collected"

Finish ==
  /\ main = "running" /\ Finished
  /\ main' = "ended" /\ exit' = worst
  /\ UNCHANGED <<host, workers, phase, streams, ended, report, worst>>

Command(t) == Enter(t) \/ End(t) \/ Leave(t) \/ Return(t)

TargetsNext == (\E t \in Targets : Command(t) \/ PrintLine(t) \/ Collect(t)) \/ Fail \/ Finish

\* Every command ends (ScanCommand); its prints need no fairness.
TargetsSpec ==
  /\ TargetsInit /\ [][TargetsNext]_targetsVars
  /\ \A t \in Targets : WF_targetsVars(Command(t)) /\ WF_targetsVars(Collect(t))
  /\ WF_targetsVars(Fail \/ Finish)

-----------------------------------------------------------------------------
\* Exit code 0 is what CI reads as a pass: no target of the file may have been
\* skipped, failed, invalid or found wanting, and each has a report in the
\* file its host names.
PassMeansAllPassed ==
  main = "ended" /\ exit = 0 =>
    \A t \in Targets : ended[t] = "pass" /\ host[report[host[t]]] = host[t]

\* In the pool no target loses its scan to another that fails: even when one
\* raises, the process ends only after every target's command has, and the
\* report of one that passed or found is in the file of its host, unless
\* another target of the same host has put its own there since.  (The comment
\* at 16038-16040 excludes that too: "never overwrites one target's report with
\* the next's".  It is not so where the file names a host twice.)
InItsFile(t) ==
  \/ report[host[t]] = t
  \/ \E u \in Targets \ {t} :
       host[u] = host[t] /\ ended[u] \in Reports \union MayReport /\ report[host[t]] = u

FailureIsLocal ==
  Pooled /\ main = "ended" =>
    \A t \in Targets : ended[t] # "not yet" /\ (ended[t] \in Reports => InItsFile(t))

\* The process ends, whatever the targets do.
MainEnds == <>(main = "ended")
=============================================================================
