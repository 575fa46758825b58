------------------------------ MODULE AuditLog ------------------------------
(***************************************************************************)
(* append_to_audit_log and verify_audit_log_integrity                      *)
(* (src/src/ersec/ersec_core.py): the hash-chained log of re-verification  *)
(* runs.  A run reads the whole file, chains its records on the last one   *)
(* and rewrites the file in place, with nothing that keeps runs apart.     *)
(* Between runs somebody may edit the file by hand.                        *)
(*                                                                         *)
(* SHA-256 is taken as injective: a hash is the sequence of contents it    *)
(* commits to, the record's own one last.                                  *)
(***************************************************************************)
EXTENDS Naturals, Sequences, SequencesExt

CONSTANTS
  Runs,      \* reverify commands with --audit-log
  Bodies,    \* contents of records
  MaxBatch,  \* findings of one report (bound)
  MaxEdits   \* edits by hand (bound)

ASSUME LogAssumption == {MaxBatch, MaxEdits} \subseteq Nat

VARIABLES
  file,      \* the log file
  pc,        \* run -> where it is
  batch,     \* run -> contents of the records it appends
  loaded,    \* run -> the chain it has read
  tip,       \* history: run -> last hash of the log it said it appended to
  written,   \* history: the records runs have written
  edits,     \* how often the file was edited by hand
  disturbed, \* history: runs overlapped, or one died while it rewrote the file
  shared     \* runs that had the file open for writing while another had it

vars == <<file, pc, batch, loaded, tip, written, edits, disturbed, shared>>

Hashes == Seq(Bodies)
Records == [body : Bodies, prev : Hashes, hash : Hashes]

Missing == [state |-> "missing", chain |-> << >>]
Torn == [state |-> "torn", chain |-> << >>]
Saved(chain) == [state |-> "saved", chain |-> chain]

NoTip == [said |-> FALSE, hash |-> << >>]
Under == {"load", "open", "write"}

Init ==
  /\ file = Missing
  /\ pc = [r \in Runs |-> "idle"]
  /\ batch = [r \in Runs |-> << >>]
  /\ loaded = [r \in Runs |-> << >>]
  /\ tip = [r \in Runs |-> NoTip]
  /\ written = {}
  /\ edits = 0
  /\ disturbed = FALSE
  /\ shared = {}

Goto(r, where) == pc' = [pc EXCEPT ![r] = where]

\* "0" * 64 before the first record.
LastHash(chain) == IF chain = << >> THEN << >> ELSE chain[Len(chain)].hash

\* Faulty variants (<definition>_<fault>) stand before the definition they
\* distort: the runs must tell them from the code.
Chained_SamePrev(prev, bodies) ==
  [i \in 1..Len(bodies) |->
     [body |-> bodies[i], prev |-> prev, hash |-> Append(prev, bodies[i])]]

\* The records for these contents, each one on the one before.
Chained(prev, bodies) ==
  [i \in 1..Len(bodies) |->
     [body |-> bodies[i],
      prev |-> prev \o SubSeq(bodies, 1, i - 1),
      hash |-> prev \o SubSeq(bodies, 1, i)]]

-----------------------------------------------------------------------------
\* reverify_report is done; its records go to the log.
Reverified(r, bodies) ==
  /\ pc[r] = "idle"
  /\ batch' = [batch EXCEPT ![r] = bodies]
  /\ disturbed' = IF \E q \in Runs : pc[q] \in Under THEN TRUE ELSE disturbed
  /\ Goto(r, "load")
  /\ UNCHANGED <<file, loaded, tip, written, edits, shared>>

Load_LastOnly(r) ==
  /\ pc[r] = "load"
  /\ loaded' = [loaded EXCEPT ![r] = IF file.chain = << >> THEN << >> ELSE <<Last(file.chain)>>]
  /\ Goto(r, "open")
  /\ UNCHANGED <<file, batch, tip, written, edits, disturbed, shared>>

\* A file that is missing or no JSON counts as an empty log.
Load(r) ==
  /\ pc[r] = "load"
  /\ loaded' = [loaded EXCEPT ![r] = file.chain]
  /\ Goto(r, "open")
  /\ UNCHANGED <<file, batch, tip, written, edits, disturbed, shared>>

Writing == {q \in Runs : pc[q] = "write"}

\* Opening for writing empties the file ...
Open(r) ==
  /\ pc[r] = "open"
  /\ file' = Torn
  /\ shared' = IF Writing = {} THEN shared ELSE shared \union Writing \union {r}
  /\ Goto(r, "write")
  /\ UNCHANGED <<batch, loaded, tip, written, edits, disturbed>>

\* ... and json.dump fills it, piece by piece: the old records and the new ones.
New(r) == Chained(LastHash(loaded[r]), batch[r])
Text(r) == loaded[r] \o New(r)

\* Two runs that fill it at the same time leave pieces of both texts.  That may
\* be no JSON, or begin as the one and go on as the other.
Mixes(a, b) == {SubSeq(a, 1, k) \o SubSeq(b, k + 1, Len(b)) : k \in 0..Len(a)}

Jumbled(r) ==
  /\ r \in shared
  /\ \/ file' = Torn
     \/ \E q \in shared : \E mix \in Mixes(Text(q), Text(r)) \union Mixes(Text(r), Text(q)) :
          file' = Saved(mix)

Flush(r) ==
  /\ pc[r] = "write" /\ Jumbled(r)
  /\ UNCHANGED <<pc, batch, loaded, tip, written, edits, disturbed, shared>>

\* The last piece.
Write(r) ==
  /\ pc[r] = "write"
  /\ file' = Saved(Text(r)) \/ Jumbled(r)
  /\ written' = written \union ToSet(New(r))
  /\ tip' = [tip EXCEPT ![r] = [said |-> TRUE, hash |-> LastHash(Text(r))]]
  /\ Goto(r, "done")
  /\ UNCHANGED <<batch, loaded, edits, disturbed, shared>>

Die(r) ==
  /\ pc[r] \in Under
  /\ disturbed' = IF pc[r] = "write" THEN TRUE ELSE disturbed
  /\ Goto(r, "died")
  /\ UNCHANGED <<file, batch, loaded, tip, written, edits, shared>>

-----------------------------------------------------------------------------
\* Somebody edits a record, or takes one out.  Along with the content the
\* record's link and its hash may be made to fit again (another link or hash
\* would give the edit away by itself); the hash of the last one is left alone.
\* (Bound: nobody edits a log that two runs have filled at the same time.  No
\* property says anything of it.)
Edit(k, body, relink, rehash) ==
  LET chain == file.chain
      prev == IF relink THEN LastHash(SubSeq(chain, 1, k - 1)) ELSE chain[k].prev
      hash == IF rehash THEN Append(prev, body) ELSE chain[k].hash
  IN
  /\ file.state = "saved" /\ edits < MaxEdits /\ shared = {}
  /\ k \in 1..Len(chain)
  /\ rehash => k < Len(chain)
  /\ file' = Saved([chain EXCEPT ![k] = [body |-> body, prev |-> prev, hash |-> hash]])
  /\ edits' = edits + 1
  /\ UNCHANGED <<pc, batch, loaded, tip, written, disturbed, shared>>

TakeOut(k) ==
  /\ file.state = "saved" /\ edits < MaxEdits /\ shared = {}
  /\ k \in 1..(Len(file.chain) - 1)
  /\ file' = Saved(RemoveAt(file.chain, k))
  /\ edits' = edits + 1
  /\ UNCHANGED <<pc, batch, loaded, tip, written, disturbed, shared>>

-----------------------------------------------------------------------------
Broken_LinksOnly(chain) ==
  {i \in 1..Len(chain) : chain[i].prev # LastHash(SubSeq(chain, 1, i - 1))}

\* verify_audit_log_integrity: the records at which the chain does not hold,
\* broken_at being the first of them.
Broken(chain) ==
  {i \in 1..Len(chain) :
     \/ chain[i].prev # LastHash(SubSeq(chain, 1, i - 1))
     \/ chain[i].hash # Append(chain[i].prev, chain[i].body)}

Valid(f) == f.state = "saved" /\ Broken(f.chain) = {}

Step(r) == Load(r) \/ Open(r) \/ Flush(r) \/ Write(r)

Next ==
  \/ \E r \in Runs :
       \/ \E n \in 0..MaxBatch : \E bodies \in [1..n -> Bodies] : Reverified(r, bodies)
       \/ Step(r) \/ Die(r)
  \/ \E k \in 1..Len(file.chain) :
       \/ \E body \in Bodies, relink, rehash \in BOOLEAN : Edit(k, body, relink, rehash)
       \/ TakeOut(k)
  \/ (\A r \in Runs : pc[r] \in {"done", "died"}) /\ UNCHANGED vars

Spec == Init /\ [][Next]_vars

-----------------------------------------------------------------------------
Phases == {"idle", "done", "died"} \union Under

TypeOK ==
  /\ file \in [state : {"missing", "torn", "saved"}, chain : Seq(Records)]
  /\ pc \in [Runs -> Phases]
  /\ batch \in [Runs -> Seq(Bodies)]
  /\ loaded \in [Runs -> Seq(Records)]
  /\ tip \in [Runs -> [said : BOOLEAN, hash : Hashes]]
  /\ written \subseteq Records
  /\ edits \in Nat
  /\ disturbed \in BOOLEAN
  /\ shared \subseteq Runs

\* Wherever runs die, and whatever another has read, emptied or written since
\* they read the log: what they leave is torn or verifies.  Besides an edit only
\* two runs filling the file at the same time make
\* verify_audit_log_integrity call a log invalid.
OwnLogVerifies == edits = 0 /\ shared = {} /\ file.state = "saved" => Valid(file)

\* "any edit to an earlier entry breaks the chain from that point forward": a
\* log that verifies holds, record by record, what its runs wrote, whatever was
\* edited or taken out before the last record, and whatever was appended since.
\* (Not so once two runs have filled the file at the same time: a mix may end in
\* a record whose hash was repaired.)
EditsShow == shared = {} /\ Valid(file) => ToSet(file.chain) \subseteq written

\* A run that said it appended to the log is still in it.
Kept(r) ==
  tip[r].hash # << >> => \E i \in 1..Len(file.chain) : file.chain[i].hash = tip[r].hash

\* Runs in turn, dying anywhere but inside the rewriting: the log is complete.
QuietLogIsComplete ==
  ~ disturbed /\ edits = 0 /\ (\A q \in Runs : pc[q] # "write") =>
    \A r \in Runs : tip[r].said => Kept(r)
=============================================================================
