--------------------------------- MODULE Lake ---------------------------------
(***************************************************************************)
(* Retention, legal holds, archives and intake of the security data lake   *)
(* (lake/retention.py, lake/ingest.py).  A call reads records, awaits      *)
(* reference checkers and the evidence store, and then writes the records  *)
(* back one by one, whole: TelemetryRecordStore.update has no version.     *)
(***************************************************************************)
EXTENDS Naturals, Sequences, FiniteSets

CONSTANTS
  Record,       \* telemetry records
  Operator,     \* callers of the engine
  Occurred,     \* occurred_at of each record
  Policies,     \* retention policies as of now: [ttl, archive], the cutoffs, 0 for no rule
  Malformed,    \* records that do not fit their dataset
  MaxCalls      \* bound: calls started

ASSUME LakeAssumption ==
  /\ Occurred \in [Record -> Nat \ {0}]
  /\ Policies \subseteq [ttl : Nat, archive : Nat]
  /\ Malformed \subseteq Record /\ MaxCalls \in Nat

VARIABLES
  records,      \* the record store
  quarantined,  \* the quarantine
  cited,        \* records a piece of evidence, a finding or a case refers to
  journal,      \* lifecycle evidence: what was decided, about which records
  archives,     \* archives by their place: the records as exported, the evidence
  job,          \* the call each operator is in
  calls,        \* counter of the bound
  kept          \* history: records held, or cited before they expired, while no call was under way

lakeVars == <<records, quarantined, cited, journal, archives, job, calls, kept>>

Missing == [stored |-> FALSE, state |-> "active", hold |-> FALSE, evidence |-> 0]
Stored  == {r \in Record : records[r].stored}

\* copies: what was read; left: records still to check or to write;
\* alone: no other call has been under way since this one began
NoJob == [pc |-> "idle", op |-> "none", copies |-> [r \in {} |-> Missing], left |-> {}, spared |-> {},
          policy |-> [ttl |-> 0, archive |-> 0], flag |-> FALSE, evidence |-> 0, alone |-> FALSE]

LakeInit ==
  /\ \E rs \in SUBSET (Record \ Malformed) :
       records = [r \in Record |-> [Missing EXCEPT !.stored = r \in rs]]
  /\ quarantined = {} /\ cited = {}
  /\ journal = <<>> /\ archives = <<>>
  /\ job = [o \in Operator |-> NoJob]
  /\ calls = 0
  /\ kept = [held |-> {}, cited |-> {}]

InCall(o, op, pc) == job[o].op = op /\ job[o].pc = pc
Quiet == \A o \in Operator : job[o].pc = "idle"

Starts(o, new) ==
  /\ job[o].pc = "idle" /\ calls < MaxCalls
  /\ calls' = calls + 1
  /\ job' = [other \in Operator |-> IF other = o THEN [new EXCEPT !.alone = Quiet]
                                    ELSE [job[other] EXCEPT !.alone = FALSE]]

ActiveUntil(t) == {r \in Stored : records[r].state = "active" /\ Occurred[r] <= t}
Copies(rs)     == [r \in rs |-> records[r]]

\* _record_evidence, before anything is written
Journals(kind, rs, flag) == journal' = Append(journal, [kind |-> kind, records |-> rs, flag |-> flag])

Proceeds(o, rs) ==
  job' = [job EXCEPT ![o] = IF rs = {} THEN NoJob
            ELSE [@ EXCEPT !.pc = "write", !.left = rs, !.evidence = Len(journal) + 1]]

-----------------------------------------------------------------------------
(* apply(policy, dry_run)                                                  *)
Latest(p) == IF p.ttl > p.archive THEN p.ttl ELSE p.archive

ApplyReads(o, p, dry) ==
  /\ LET rs == ActiveUntil(Latest(p)) IN
       Starts(o, [NoJob EXCEPT !.pc = "check", !.op = "apply", !.copies = Copies(rs),
                               !.left = rs, !.policy = p, !.flag = dry])
  /\ UNCHANGED <<records, quarantined, cited, journal, archives, kept>>

\* _is_referenced of one candidate asks all three checkers.
ApplyChecks(o, r) ==
  /\ InCall(o, "apply", "check") /\ r \in job[o].left
  /\ job' = [job EXCEPT ![o].left = @ \ {r},
                        ![o].spared = IF r \in cited THEN @ \cup {r} ELSE @]
  /\ UNCHANGED <<records, quarantined, cited, journal, archives, calls, kept>>

Expires(o, r)  == Occurred[r] <= job[o].policy.ttl
Archives(o, r) == Occurred[r] <= job[o].policy.archive

\* Mutant of Selected: the reference checks are not looked at.
Selected_Cited(o) ==
  {r \in DOMAIN job[o].copies : ~ job[o].copies[r].hold /\ (Expires(o, r) \/ Archives(o, r))}

Selected(o) ==
  {r \in DOMAIN job[o].copies \ job[o].spared :
     ~ job[o].copies[r].hold /\ (Expires(o, r) \/ Archives(o, r))}

ApplyDecides(o) ==
  /\ InCall(o, "apply", "check") /\ job[o].left = {}
  /\ Journals(IF job[o].flag THEN "retention_dry_run" ELSE "retention", Selected(o), FALSE)
  /\ Proceeds(o, IF job[o].flag THEN {} ELSE Selected(o))
  /\ UNCHANGED <<records, quarantined, cited, archives, calls, kept>>

-----------------------------------------------------------------------------
(* set_legal_hold(record_ids, hold)                                        *)
HoldReads(o, rs, hold) ==
  /\ rs # {} /\ rs \subseteq Stored
  /\ Starts(o, [NoJob EXCEPT !.pc = "decide", !.op = "hold", !.copies = Copies(rs), !.flag = hold])
  /\ kept' = [kept EXCEPT !.held = IF hold THEN @ ELSE @ \ rs]
  /\ UNCHANGED <<records, quarantined, cited, journal, archives>>

HoldDecides(o) ==
  /\ InCall(o, "hold", "decide")
  /\ Journals("legal_hold", DOMAIN job[o].copies, job[o].flag)
  /\ Proceeds(o, DOMAIN job[o].copies)
  /\ UNCHANGED <<records, quarantined, cited, archives, calls, kept>>

-----------------------------------------------------------------------------
(* archive(until) and restore(archive_id)                                  *)
ArchiveReads(o, until) ==
  /\ Starts(o, [NoJob EXCEPT !.pc = "decide", !.op = "archive", !.copies = Copies(ActiveUntil(until))])
  /\ UNCHANGED <<records, quarantined, cited, journal, archives, kept>>

\* The records go to a blob, and the evidence has its hash.
ArchiveDecides(o) ==
  /\ InCall(o, "archive", "decide")
  /\ Journals("archive", DOMAIN job[o].copies, FALSE)
  /\ job' = [job EXCEPT ![o].pc = "file", ![o].evidence = Len(journal) + 1]
  /\ UNCHANGED <<records, quarantined, cited, archives, calls, kept>>

ArchiveFiles(o) ==
  /\ InCall(o, "archive", "file")
  /\ archives' = Append(archives, [copies |-> job[o].copies, evidence |-> job[o].evidence])
  /\ job' = [job EXCEPT ![o] = IF DOMAIN @.copies = {} THEN NoJob
                               ELSE [@ EXCEPT !.pc = "write", !.left = DOMAIN job[o].copies]]
  /\ UNCHANGED <<records, quarantined, cited, journal, calls, kept>>

\* The blob matches its hash, or ArchiveIntegrityError is all there is.
RestoreReads(o, k) ==
  /\ k \in DOMAIN archives
  /\ Starts(o, [NoJob EXCEPT !.pc = "decide", !.op = "restore", !.copies = archives[k].copies])
  /\ kept' = [kept EXCEPT !.held = @ \ DOMAIN archives[k].copies]
  /\ UNCHANGED <<records, quarantined, cited, journal, archives>>

RestoreDecides(o) ==
  /\ InCall(o, "restore", "decide")
  /\ Journals("restore", DOMAIN job[o].copies, FALSE)
  /\ Proceeds(o, DOMAIN job[o].copies)
  /\ UNCHANGED <<records, quarantined, cited, archives, calls, kept>>

-----------------------------------------------------------------------------
\* Mutant of Rewritten: the record keeps the evidence of its last change.
Rewritten_OldEvidence(o, r) ==
  LET copy == job[o].copies[r] IN
  CASE job[o].op = "apply"   -> [copy EXCEPT !.state = IF Expires(o, r) THEN "expired" ELSE "archived"]
    [] job[o].op = "hold"    -> [copy EXCEPT !.hold = job[o].flag]
    [] job[o].op = "archive" -> [copy EXCEPT !.state = "archived"]
    [] job[o].op = "restore" -> [copy EXCEPT !.state = "active"]

\* The copy that was read, changed as decided: it replaces the whole record.
Rewritten(o, r) ==
  LET copy == [job[o].copies[r] EXCEPT !.evidence = job[o].evidence] IN
  CASE job[o].op = "apply"   -> [copy EXCEPT !.state = IF Expires(o, r) THEN "expired" ELSE "archived"]
    [] job[o].op = "hold"    -> [copy EXCEPT !.hold = job[o].flag]
    [] job[o].op = "archive" -> [copy EXCEPT !.state = "archived"]
    [] job[o].op = "restore" -> [copy EXCEPT !.state = "active"]

\* One update at a time, in the order of the query, which any order stands for.
Writes(o, r) ==
  /\ job[o].pc = "write" /\ r \in job[o].left
  /\ records' = [records EXCEPT ![r] = Rewritten(o, r)]
  /\ job' = [job EXCEPT ![o] = IF job[o].left = {r} THEN NoJob ELSE [job[o] EXCEPT !.left = @ \ {r}]]
  /\ kept' = [kept EXCEPT !.held = IF job[o].op = "hold" /\ job[o].flag /\ job[o].alone
                                   THEN @ \cup {r} ELSE @]
  /\ UNCHANGED <<quarantined, cited, journal, archives, calls>>

-----------------------------------------------------------------------------
(* ingest(records): in the order of the batch, which any order stands for  *)
IngestStarts(o, rs) ==
  /\ rs # {}
  /\ Starts(o, [NoJob EXCEPT !.pc = "take", !.op = "ingest", !.left = rs])
  /\ UNCHANGED <<records, quarantined, cited, journal, archives, kept>>

\* An id that is stored already raises: the rest of the batch is not taken.
IngestTakes(o, r) ==
  /\ InCall(o, "ingest", "take") /\ r \in job[o].left
  /\ \/ /\ r \in Malformed
        /\ quarantined' = quarantined \cup {r}
        /\ UNCHANGED records
     \/ /\ r \notin Malformed
        /\ records' = [records EXCEPT ![r] = IF @.stored THEN @ ELSE [Missing EXCEPT !.stored = TRUE]]
        /\ UNCHANGED quarantined
  /\ job' = [job EXCEPT ![o] = IF job[o].left = {r} \/ (r \notin Malformed /\ r \in Stored)
                               THEN NoJob ELSE [job[o] EXCEPT !.left = @ \ {r}]]
  /\ UNCHANGED <<cited, journal, archives, calls, kept>>

\* A store or a checker raises, or the process ends: what is written stays.
LakeInterrupt(o) ==
  /\ job[o].pc # "idle"
  /\ job' = [job EXCEPT ![o] = NoJob]
  /\ UNCHANGED <<records, quarantined, cited, journal, archives, calls, kept>>

\* Evidence, a finding or a case starts to refer to the record.
Cite(r) ==
  /\ r \in Stored \ cited
  /\ cited' = cited \cup {r}
  /\ kept' = [kept EXCEPT !.cited = IF Quiet /\ records[r].state # "expired" THEN @ \cup {r} ELSE @]
  /\ UNCHANGED <<records, quarantined, journal, archives, job, calls>>

LakeNext ==
  \/ \E o \in Operator :
       \/ \E p \in Policies, dry \in BOOLEAN : ApplyReads(o, p, dry)
       \/ ApplyDecides(o)
       \/ \E rs \in SUBSET Record : \/ \E hold \in BOOLEAN : HoldReads(o, rs, hold)
                                    \/ IngestStarts(o, rs)
       \/ HoldDecides(o)
       \/ \E r \in Record : \/ ApplyChecks(o, r) \/ Writes(o, r) \/ IngestTakes(o, r)
                            \/ ArchiveReads(o, Occurred[r])
       \/ ArchiveDecides(o) \/ ArchiveFiles(o)
       \/ \E k \in DOMAIN archives : RestoreReads(o, k)
       \/ RestoreDecides(o)
       \/ LakeInterrupt(o)
  \/ \E r \in Record : Cite(r)

LakeSpec == LakeInit /\ [][LakeNext]_lakeVars

-----------------------------------------------------------------------------
(* A record put on hold, or referred to before it expired, while no call   *)
(* was under way is never expired by a later one, and keeps its hold until *)
(* that is lifted or an archive is restored (FR-7, FR-8): however the      *)
(* calls that begin afterwards overlap, their copies cannot undo it.       *)
ProtectedIsKept ==
  [][/\ \A r \in kept.held \cap kept'.held : records'[r].hold
     /\ \A r \in (kept.held \cap kept'.held) \cup kept.cited :
          records[r].state # "expired" => records'[r].state # "expired"]_lakeVars

(* Every change can be audited (FR-12): a record that was changed cites    *)
(* evidence, which names the record and says what was done to it, whatever *)
(* calls overlapped or were cut off; a dry run has changed nothing.        *)
TrailTellsTheChange ==
  \A r \in Stored : records[r] # [Missing EXCEPT !.stored = TRUE] =>
    LET row == records[r]
        e   == journal[row.evidence]
    IN  /\ row.evidence \in DOMAIN journal
        /\ r \in e.records
        /\ e.kind = "retention"  => row.state \in {"archived", "expired"}
        /\ e.kind = "archive"    => row.state = "archived"
        /\ e.kind = "restore"    => row.state = "active"
        /\ e.kind = "legal_hold" => row.hold = e.flag
        /\ e.kind # "retention_dry_run"

(* Whatever archive() has marked archived can be restored (FR-11): the     *)
(* record is in an archive that was filed before, also when the call was   *)
(* cut off half way.                                                       *)
ArchivedIsFiled ==
  \A r \in Stored : (records[r].evidence > 0 /\ journal[records[r].evidence].kind = "archive") =>
    \E k \in DOMAIN archives : /\ archives[k].evidence = records[r].evidence
                               /\ r \in DOMAIN archives[k].copies

(* FR-11, FR-12: what was done to a record can be followed and, if it was   *)
(* archived, undone, from what evidence and archives say.                  *)
ChangesAreTraceable == TrailTellsTheChange /\ ArchivedIsFiled

(* docs/architecture/modules/EA-0019-security-data-lake-telemetry.spec.md  *)
(* NFR-1: "no configuration or code path deletes held or referenced data". *)
(* A record that is on hold in the store is not turned into an expired one.*)
HeldIsNotDeleted ==
  [][\A r \in Stored : records[r].hold =>
       (records'[r].state = "expired" => records[r].state = "expired")]_lakeVars
=============================================================================
